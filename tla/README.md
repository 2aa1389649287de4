# Models and proofs of 5G-Proxy-Client

5G-Proxy-Client is an Android VPN app that sends the traffic of the phone
through a SOCKS5 server. A Kotlin service owns the VPN; a native engine reads
IP packets from the TUN device, terminates TCP and UDP in user space and
relays them. This directory holds TLA+ models of the parts where threads,
sockets, windows and clocks meet and of the formats at the edges, the TLC
instances that check them, and the proofs: about the life and the data of TCP
sessions, the life of UDP sessions, SOCKS5 negotiations and the streams behind
them, DNS over TCP, the table of fake addresses, reassembly, automatic
reconnects and the commands of the service.

Paths below are relative to `src/app/src/main/cpp/` for `.c` and `.h` files
and to `src/app/src/main/java/com/tokyoxpa3/socksclient/` for `.kt` files.

## 1. The system

### Threads

| thread | what it runs |
|---|---|
| engine thread | `engine_loop` (tun_socks.c): epoll over the TUN, the kick and shutdown pipes and every relay socket. It alone reads packets, changes the TCP hash and both graveyards, and frees sessions. |
| 16 handshake workers | `hs_worker` (hs_pool.c): take jobs from a queue; a job is `tcp_connect_thread` or `udp_session_thread`, which ask Java for a protected socket, do the SOCKS5 handshake, store the socket, set `state = 1` and register the socket with epoll. |
| native starter | `tunnel_thread_func` (jni_bridge.c): runs `tun_socks_start`. |
| Android main thread | commands, posted messages and delayed Runnables of `TunSocksService`. |
| IO coroutines | name resolution, the blocking stop, the soft reconnect. |

They share `engine_ctx_t g`, the session objects (a few atomic fields, the
rest by convention), the epoll set, `g_udp_hash_lock`, the pool's lock, and on
the Java side some volatile flags and `serverEventLock`.

### Components, their state and what makes them correct

| component | state | operations | correct means |
|---|---|---|---|
| TCP session life (tcp_sess.c) | hash, graveyard, `tcp_session_count`, `handshake_inflight`, `srv_fd`, `state`, `thread_done` | SYN, submit, snapshot of the server, connect, store, register, fail, kick, close, sweep, idle collection, graveyard, soft reset, shutdown | nothing freed is touched; a socket has one owner; nothing leaks; the counters are exact |
| TCP data path (tcp_sess.c, tcp_state.c, tcp_buf.c, tcp_packet.c) | `app_buf`, `srv_buf`, `app_next`, `srv_next`, `app_acked`, `app_win`, `want_out`, `srv_in_off`, half-close flags | segment, flush to the server, flush to the App, read, EOF, FIN, RST | both streams arrive intact and complete, back-pressure never deadlocks, ends are passed on |
| SOCKS5 handshake (engine_util.c, socks5_codec.c, the workers in tcp_sess.c and udp_sess.c) | the bytes of one receive, `fail_code` | greeting, authentication, request, reply, retry, report | takes exactly the bytes of the negotiation, ends, and blames the party that failed |
| handshake pool (hs_pool.c) | queue, `hs_running` | start, submit, take, stop | every job runs or is drained; a stop joins |
| UDP sessions (udp_sess.c, udp_tcp.c, udp_state.c) | hash, graveyard, control and relay socket, pending datagram, `tx_buf`, `tx_armed`, `last_active` | datagram, handshake, refusal and retry, registration, flush, read, idle collection, soft reset, shutdown | as for TCP, with two sockets; buffered data is sent; EPOLLOUT agrees with `tx_armed` |
| engine loop (tun_socks.c) | `g.running`, `g.soft_reset`, pipes, `g.srv_host` | loop, soft reset, start, stop, reconnect | one engine over `g`; a stop ends it |
| JNI bridge (jni_bridge.c, NativeEngine.kt) | `g_tunnel_running`, the starter thread | start, stop, reconnect, "engine stopped" | a TUN descriptor reaches an engine or is closed |
| VPN service (TunSocksService.kt, BackgroundStartRetry.kt) | `isRunning`, `startPending`, saved settings, retries | start, continue, stop, restart, revoke, soft restart, retry | the last command counts; the running tunnel is the configured one |
| server watchdog (ServerWatchdog.kt, TunSocksService.kt) | failures, `restartScheduled`, `autoRestartCount`, the posted Runnable | success, failure, fire, reset | restarts are spaced, back off, happen, and die with their tunnel |
| DNS over TCP (tcp_sess.c, dns_tcp.c) | `dns_rx_buf`, `srv_buf`, `srv_eof`, `srv_fin_sent` | segment, flush, FIN | every query of the stream is answered once and in order |
| fake DNS (fake_dns.c, dns_query.c, dns_synth.c, engine_util.c) | 512 entries of name and last use | query, connect, datagram, reply, soft reset | an address stands for its name as long as an App may use it |
| reassembly (reasm.c, tun_socks.c, ip_parse.c) | 16 entries of segments, last piece, headers and last use | piece, rebuild, collection, reset | a datagram is handed on as sent, whenever all of it came in time |
| packet formats (ip_parse.c, tcp_packet.c, checksum.c, icmp_packet.c, socks5_codec.c) | none | parse, build | the other side of the wire reads what was meant |
| routes, DNS candidates (LanRoutes.kt, DnsCandidates.kt) | none | compute | routes cover exactly the public addresses; few servers see the server's name |
| settings, profiles, secrets, UI, tile, boot, kill switch, coexistence | preferences | read, write | unit tests of the repository |

### How they interact

A packet of the App is read by the engine, looked up by endpoint, and either
creates a session and submits a job, or feeds an existing one. The worker
hands the session over by `srv_fd`, `state = 1` and `epoll_ctl`, or marks it
failed and writes the kick pipe. From then on only the engine uses it until
the worker's last store, `thread_done`, and the graveyard wait for each other.
Workers report success and failure of the server to the service, whose
watchdog may ask for a soft reconnect, which the engine turns into a soft
reset. Start, stop and restart pass from the main thread to an IO coroutine to
JNI to the engine and back through posted messages. Fake DNS decides under
which name the workers dial.

### What is hard here

The order of stores in the hand-over; close against failure on one socket;
graveyard against worker; EPOLLOUT requested before the registration; windows
and fragmented buffers; half-closes in either order and with data under way;
sequence numbers that wrap; commands that overlap with resolutions and joins;
decisions taken under a lock and acted on after it; answers that outlive the
table entry they came from. `PROJECT.json` lists each at its line ("hazards").

## 2. Modules

| module | models | composed with |
|---|---|---|
| `TwoPhase` | the promise of the two-phase release, abstractly | implemented by `TcpLife` and `UdpSess` |
| `TcpLife`, `MCTcpLife` | engine loop, pool, workers and life of TCP sessions | instance of `TwoPhase` (`Release`) |
| `TcpLifeProofs` | theorems about `TcpLife` | extends `TcpLife` |
| `TcpStream` | the bytes, windows and ends of one connection | the worker's hand-over as in `TcpLife` |
| `TcpStreamProofs` | theorems about `TcpStream` | extends `TcpStream` |
| `UdpSess`, `MCUdpSess` | engine, workers and life of UDP sessions | instance of `TwoPhase` (`TP`) |
| `UdpSessProofs` | theorems about `UdpSess`: ownership, books, refinement, the hand-over from worker to engine | extends `UdpSess` |
| `Handshake` | one SOCKS5 conversation of a worker and a server, byte by byte | the inside of the handshake step of `TcpLife` and `UdpSess` |
| `Relay`, `MCRelay` | a conversation and then the frames of UDP-in-TCP on it | extends `Handshake` |
| `RelayProofs` | theorems about `Handshake`, `Relay` and `DnsTcp`, which share lemmas about cut streams | extends `Relay`, `DnsTcp` |
| `Tunnel` | service, JNI, starter thread, engine threads as one bit of state | `TcpLife`/`UdpSess` look inside the engine, `Watchdog` inside the events |
| `TunnelProofs` | theorems about `Tunnel` | extends `Tunnel` |
| `Watchdog` | failures, decision, posting, firing | told by `Handshake`'s `event`; the soft reconnect of `Tunnel` |
| `WatchdogProofs` | theorems about `Watchdog` | extends `Watchdog` |
| `FakeDns` | the table, cached answers, flows | - |
| `DnsTcp` | queries over a connection that the engine answers itself | - |
| `MCDns` | both halves of Remote DNS in one run | extends `FakeDns`, `DnsTcp` |
| `Reasm`, `MCReasm` | the reassembly table behind the TUN reader | its packets are rebuilt in `Ip6Headers` and `Packets` |
| `ReasmProofs` | a theorem about `Reasm` | extends `Reasm` |
| `Packets` | checksums, the builders of TCP, UDP and ICMP packets, TCP options | - |
| `Ip6Headers` | the walk along IPv6 extension headers, rebuilding without the Fragment header | extends `Packets` |
| `Socks5Codec` | the SOCKS5 messages | - |
| `Routes` | IPv4 routes, order and use of DNS servers | - |
| `Wire`, `MCWire` | a reference for each of these four, and inputs that grow | extends all four |
| `WireProofs` | theorems about `Wire`, its functions, and `FakeDns` | extends `Wire`, `FakeDns` |

The names of actions and operators are those of the functions where possible;
`PROJECT.json` "map" gives the lines of every definition. Definitions whose
comment says "Mutant" are not part of a specification: each is a plausible
mistake in the definition it precedes, and shows that a property notices it.

### How state and actions correspond

**TcpLife.** `sess[s]` is a `tcp_sess_t`; `place` is "free" (not allocated),
"hash" or "grave". A worker's step is what it does between two accesses to
shared fields; `wpc` is where it is in `tcp_connect_thread` (snapshot of
`srv_host`, socket, handshake, store of `srv_fd`, store of `state`,
`EPOLL_CTL_ADD`, or failure; kick; `thread_done`; `handshake_inflight`). The
engine's `epc` follows `engine_loop`: soft reset and collection at the top,
`epoll_wait`, the batch of events, the TUN loop, the flush and sweep, the
periodic collection, and the shutdown. Only whether a handler closes the
session is kept of the data path. Descriptors are numbers that the kernel
reuses at once when released.

**TcpStream.** One record `c` is one session with the App on one side and the
server's socket on the other. A handler is a composition of the operators
named after the functions it calls (`flush_tcp_srv_buf`, `app_buf_accept`,
`set_srv_out`, `close_tcp_session` ...). Bytes are numbered, so that loss,
repetition and reordering show. `Mod` is small and the initial sequence
numbers near its end, so numbers wrap in every run. Buffers are a few bytes
and the window field counts `WinUnit` bytes, as the window scale of 10 does.

**UdpSess.** As `TcpLife`, with two sockets, frames waiting in `tx_buf`,
`tx_armed`, a pending datagram and `last_active` as an age. Datagrams are
counted, not told apart. The hash is changed by both sides under the lock;
closed and parked are the same, because every place that closes unlinks under
the lock.

**Handshake, Relay.** The worker's `pc` is the message it sends or reads next,
`buf`/`need`/`waited` are one receive of `recv_exact` with its slices of
100 ms. The server answers each message rightly, wrongly or not at all, and
its bytes arrive in pieces of any size; `verdict` notes what its answers
amount to and by which byte, and `taken` how many have been read. In `Relay`
the same stream goes on with frames: `rx` and `tx` are the two buffers with
their offsets, and a read ends wherever the socket has no more.

**DnsTcp.** The App's stream of framed queries is cut anywhere; an answer is
known by its query. `gone` says how the session was closed.

**Packets, Ip6Headers, Socks5Codec, Routes, Wire.** Operators on sequences of
bytes, one for each C function; `Wire` makes inputs grow element by element
and compares what is built or parsed with a reference written from the other
side: a receiver's ones' complement sum, a sender's chain of headers, the
server's reading of an address, the list of local networks.

**Tunnel.** The main thread runs one command or message per step; `jobs` are
the IO coroutines with a program counter each (`stop1` to `close` is
`stopEngineSync`: `tun_socks_stop`, join of the engine, join of the starter,
second stop). A host name stands for its address. `ask` is what was asked for
last and exists only for the properties.

**Watchdog.** Times are ages and remaining delays that saturate where the code
no longer tells values apart. Decision (under `serverEventLock`), assignment
of `autoRestartRunnable` and `postDelayed` are separate steps of a worker.

**FakeDns.** A name is a word in some spelling, because `fake_dns_alloc` and
`fake_dns_find_domain` compare differently. `cached` holds the answers Apps
may still use, with their age.

**Reasm.** A piece is its identification, place, length and MF, and the
datagram it is from, which stands for its bytes: an entry is its segments, and
`from` of a rebuilt packet names the datagrams whose bytes are in its buffer.
Ages replace `last_active`. `heard`, `quiet` and `spoiled` say which datagrams
have a claim to be handed on, in terms of what the Apps sent and when, not of
the table. `Crowded` says when a table that is full may give a datagram up: it
has been quiet the longest among `MaxEntries` unfinished ones (`Busy`), those
that can never be finished (`~Fits`) among them. The code sorts the segments and
looks for a gap; `Complete` says there is none without sorting.

### Hard cases

The models contain every behaviour of the code they map, the wrong ones
included. A run that showed all of them would only ever report the first. So
each module lists `HardCases`, named environments or timings under which the
code is known to break a property, with the guard that keeps them out unless
the constant `Hard` names them. A passing run says in its cfg which are left
out; section 5 lists what happens when they are let in, with the instance that
shows it.

## 3. Runs

| run | shows | distinct states |
|---|---|---|
| `tcp_life` | safety of the TCP session life, the inductive invariant of the proofs, refinement of `TwoPhase` | 2.7 million (symmetry) |
| `tcp_progress` | graveyard drains, failed sessions leave, a stop completes | 0.2 million |
| `tcp_stream` | both streams intact, ends exact, windows kept, nothing held silently | 1.1 million |
| `tcp_stream_live` | both streams complete, the session ends | 7 thousand |
| `udp_sess` | safety of UDP sessions, sending and EPOLLOUT | 2.8 million (symmetry) |
| `relay` | a handshake takes its bytes, blames the right party and ends; frames pass whole both ways | 350 thousand |
| `tunnel` | commands one after the other, with retries, soft reconnects and a dying engine | 4.5 thousand |
| `watchdog` | posting, spacing, back-off and firing of restarts | 67 thousand |
| `dns` | table and cached answers; queries over TCP answered once and in order, and to the end | 48 thousand |
| `reasm` | reassembly is faithful and loses nothing that came in time | 490 thousand |
| `wire` | packets, SOCKS5 messages, routes and DNS servers against their references | 14 thousand |
| `tunnel_restart_stop` | a violation, section 5 | stops at the first |

Invariants that belong together are conjuncts of one: `BooksBalance` is
`CountersExact` and `CleanStop`; `Reclaimed` of `TcpLife` is `ParkedFreed` and
`FailedLeaves`; `EndsExact` includes `HalfClosePassedOn`; `AllArrives` is
`UploadArrives` and `DownloadArrives`; `Serves` is `NoDeadSession` and
`TxSound`; `EngineOK` is the types of `Tunnel`, `OneEngine` and `NoTunLost`;
`TableSound` is the types of `FakeDns`, `OneEntryPerName` and `AnswersStand`.

### Bounds, and why they are enough

* `TcpLife`: two sessions and two workers, so that a session in the graveyard
  with a worker still at it meets a new one on the same endpoint and on a
  reused descriptor, and workers meet each other; two servers for the
  reconnect; `MaxTcp = 2` so the cap is met. In `tcp_progress` two endpoints
  and a sweep array of one entry: the array overflows. The properties speak of
  one or two sessions, and the proofs cover the safety ones for any number.
* `TcpStream`: upload of 5 bytes through a buffer of 4 with segments of 1 and
  2, so that the buffer is full, fragmented, compacted and drained more than
  once; download of 3 bytes through a buffer of 3 and windows 0 and 3; numbers
  wrap in both directions. The liveness run is smaller (two bytes each way, a
  socket that takes one) because every state is paired with the fairness
  conditions.
* `UdpSess`: two sessions, two workers, three descriptors (a session that
  retries holds one while another holds two), a queue of one frame.
* `Relay`: a buffer of 8 bytes each way. The server's frames are the shortest
  one, one that fills the buffer alone and one whose length is out of bounds,
  so the buffer is full with a whole frame, full with parts of two, and moved
  together; the reply to the request carries an IPv4 address or a domain of 0
  or 2 bytes; a receive waits two slices (the code 100).
* `Tunnel`: two hosts, two coroutines, two engine threads, two retries (the
  code has 30) and two posted retries; `MaxPosts` is a bound of the model:
  commands wait while that many are posted.
* `Watchdog`: three Runnables, so that one can be lost and another posted; a
  window of 2, a threshold of 2, delays 2 and 3 (cap reached at the second).
* `FakeDns`: four names over two entries; TTL 1 and idle limit 2, ages saturate
  above the limit. `MaxFlows` bounds the datagrams awaiting replies. The proof
  of `TableSound` is for any of these numbers.
* `DnsTcp`: three messages, of two bytes, of one and empty (the last is no
  query), room for two answers, so that the third overflows `srv_buf`.
* `Wire`: chains of up to eight headers (the walk stops at eight), four TCP
  options out of seven kinds, payloads of four bytes with the values at which
  sums carry, names of up to 1000 bytes in steps that meet 255 and 256 (1, 63,
  129 and 250), every block of 2^16 addresses, five DNS servers out of four
  kinds, shared out between the network and the settings in every way. The
  proofs are for any of these numbers.
* `Reasm`: two entries for three identifications, one of them used by two
  datagrams; pieces per entry and packet size at their limits (`MaxFrags` 2,
  `MaxSize` 3), a last piece of length zero, headers that do not fit, a datagram
  beyond `MaxSize` whose first piece fits and takes an entry, a time-out
  and an interval of collections of one second. `Poll` is 0 in the run, other
  values are left to the proof. A piece is repeated once per datagram. The code takes whatever identification comes; the senders of the
  model leave one alone for `IdLife` = time-out + interval of collections +
  time-out of `epoll_wait` (12 s with the code's values), and within less
  `find_entry` joins old and new pieces.

### Fairness

* Worker, engine and starter threads are scheduled: weak fairness of each. The
  handshake has socket timeouts, so a worker does not stay in it.
* The TUN runs dry: the drain loop of `read_tun_packets` ends on EAGAIN. The
  App cannot feed packets faster than the engine reads for ever.
* The five-second collection comes again and again: strong fairness, because
  the loop compares clocks in every round and other events may win a round.
* Java threads finish the calls they began (flag, then pipe).
* `TcpStream`: epoll reports a ready descriptor again and again (level
  triggered), hence strong fairness of the event; the server reads what is
  sent; and, for the properties that say so, the App's TCP retransmits and
  acknowledges, as any TCP does. Nothing is assumed of the App otherwise.
* `Relay`: the worker, the clock of its receives and the engine go on. Nothing
  is asked of the server: it may stay silent for ever, and the worker ends by
  its time-out.
* `DnsTcp`: the App sends what it has begun and opens its window some day, and
  the TUN has room at some time after it has: strong fairness of the flush,
  which the TUN's level-triggered EPOLLOUT asks for again and again.
* `Tunnel`: the main looper handles posted messages, delayed ones come due,
  coroutines run. No fairness of commands or of success.
* `Watchdog`: the clock advances and due Runnables fire.

## 4. Proofs

`TcpLifeProofs` is checked by TLAPS for any sets of slots,
workers, descriptors, endpoints and hosts that satisfy `TcpLifeAssumption`
(finitely many slots, `None` outside them, positive array sizes) and
`PoolAssumption` (finitely many workers, and at least one: the pool has 16).
`TcpStreamProofs` is for any capacities, segment and window sizes, numbers of
bytes, initial sequence numbers and hard cases that satisfy
`TcpStreamAssumption`: each side sends less than half of what the sequence
numbers count (2 GiB; the numbers themselves may wrap, from any initial one),
and a window is at least a segment smaller than `Mod` (the code's are below
2^30, 16 bits scaled by at most 14, and `Mod` is 2^32).
`WireProofs` is for any bytes and any bounds on the inputs that keep a chain of
headers within an IPv6 packet and a payload within the MTU, that is, at most
4000 of either (`WireAssumption`); its half about `FakeDns` is for any names,
table size and times (`FakeDnsAssumption`),
`UdpSessProofs` for any slots, descriptors and workers, capacities and idle
limit that satisfy `UdpSessAssumption` (finitely many slots and descriptors, at
least one worker) and `NoneIsNoEvent` (`None` is not a registration), `WatchdogProofs` for any workers, Runnables, window,
threshold and delays (`WatchdogAssumption`), in the instance without hard cases,
`TunnelProofs` for any hosts, engines, coroutines and numbers of retries
(`TunnelAssumption`).
`RelayProofs` is for any conversations, names up to 255 bytes, waiting slices
and datagrams of bytes (`HandshakeAssumption`) and any buffer capacities and
sizes the App sends (`RelayAssumption`: a receive buffer holds a length and more
than the shortest datagram, and each of the server's frames is as long as its
two length bytes say, a length which need not be a legal one).
Its half about `DnsTcp` is for any messages of bytes, any set of them the engine
can parse, any number of queries and any room for answers (`DnsTcpAssumption`).
`ReasmProofs` is for any set of datagrams, each cut into any non-empty sequence
of pieces, empty ones included (`SentIsDatagrams`), and any sizes and times, of
which the time-out and `Poll` may be 0 (`SizesPositive`).

| theorem | says |
|---|---|
| `TypeCorrect` | `Spec => []TypeOK` |
| `Invariance` | `Spec => []IInv` |
| `UseAfterFreeImpossible` | `Spec => []NoUseAfterFree` |
| `SocketsOwned` | `Spec => []SocketOwnership` |
| `TwoPhaseRefined` | `Spec => RefinesTwoPhase` |
| `SomeoneFinishes` | without allocation failure in `hs_submit`, `Spec => []SomeoneWillFinish` |
| `OneSessionPerEndpoint` | `Spec => []OneLivePerEndpoint` |
| `OldServerLeft` | `Spec => []NoStaleServer` |
| `CountersRight` | `Spec => []CountersExact` |
| `BooksBalanced` | without allocation failure in `hs_submit`, `Spec => []BooksBalance` |
| `StreamsAreIntact` (`TcpStreamProofs`) | without `fin_data` and `late_syn`, `Spec => []StreamsIntact` |
| `EndsAreExact` (`TcpStreamProofs`) | without `fin_data` and `early_fin`, `Spec => []EndsExact` |
| `WindowIsKept` (`TcpStreamProofs`) | in every hard case, `Spec => []WindowKept` |
| `NothingIsSilent` (`TcpStreamProofs`) | without `add_race` and `late_syn`, `Spec => []NothingSilent` |
| `HandshakeBlames` (`RelayProofs`) | `HSpec => []BlameIsRight`, the negotiation alone |
| `RelayBlames` (`RelayProofs`) | `Spec => []BlameIsRight`, with the engine behind it |
| `DatagramsAreWhole` (`RelayProofs`) | `Spec => []DatagramsWhole` |
| `ServerEnds` (`RelayProofs`) | `Spec => []OnlyServerEnds` |
| `QueriesInOrder` (`RelayProofs`) | `DnsSpec => []AnsweredInOrder` |
| `QueriesAreAnswered` (`RelayProofs`) | `MayCut = FALSE` gives `DnsSpec => []QueriesAnswered` |
| `ReassemblyIsRight` (`ReasmProofs`) | `Spec => []Reassembles` |
| `TableSoundHolds` (`WireProofs`) | without a soft reset and with an entry older than a TTL at hand (`Quiet`), `Spec => []TableSound` |
| `PacketsRightHolds` (`WireProofs`) | `WireSpec => []PacketsRight` |
| `SocksReadHolds` (`WireProofs`) | `WireSpec => []SocksRead` |
| `OutsideExactHolds` (`WireProofs`) | `WireSpec => []OutsideExact` |
| `ChecksumVerifies` (`WireProofs`) | a checksum put where its sum had two zeros verifies, for any bytes |
| `SegmentIsGood`, `SynAckIsGood` (`WireProofs`) | the TCP builders, for any payload, ports, numbers, flags and room |
| `ScaleRead` (`WireProofs`) | the window scale, for any list of options |
| `ChainIsParsed`, `FragmentIsRead` (`WireProofs`) | the walk along any chain, cut off anywhere; the Fragment header found and taken out |
| `DatagramIsRead` (`WireProofs`) | a relayed datagram, for any name, address, port and payload |
| `TwoPhaseRefined` (`UdpSessProofs`) | in every hard case, `Spec => RefinesTwoPhase` |
| `NoUseAfterFreeHolds` (`UdpSessProofs`) | without `close_early`, `Spec => []NoUseAfterFree` |
| `SocketOwnershipHolds` (`UdpSessProofs`) | without `close_early`, `Spec => []SocketOwnership` |
| `BooksBalanceHolds` (`UdpSessProofs`) | without `close_early`, `Spec => []BooksBalance` |
| `ServesHolds` (`UdpSessProofs`) | `Hard = {}`: `Spec => []Serves` |
| `PostedStands` (`WatchdogProofs`) | `Hard = {}`: `Spec => []PostedOK` |
| `PacedHolds` (`WatchdogProofs`) | `Hard = {}`: `Spec => Paced` |
| `NothingLeftAfterStop` (`WatchdogProofs`) | `Hard = {}`: `Spec => []NothingAfterStop` |
| `EngineOKHolds` (`TunnelProofs`) | commands apart: `Spec => []EngineOK` |
| `RunningIsTrueHolds` (`TunnelProofs`) | commands apart: `Spec => []RunningIsTrue` |
| `RightServerHolds` (`TunnelProofs`) | commands apart: `Spec => []RightServer` |
| `LastWordHolds` (`TunnelProofs`) | commands apart: `Spec => []LastWordCounts` |

`NoUseAfterFree` is not inductive: whether a pointer in a worker's hands is to
an allocated object depends on the graveyard waiting for `thread_done`, which
depends on one worker only having the session, which depends on the queue. The
strengthening `IInv` has one part for each of these: `WorkerShape` (what a
worker at each place holds), `Loans` (a session is lent at most once, to the
queue or to a worker, is allocated and not marked done), `FreeIsBlank`,
`Sockets` (a descriptor has one holder, and it is open), `Registered` (epoll
knows only sockets of sessions) and `Delivered` (events of the round are of
sessions that are not freed before it ends). The proof has a lemma per worker
step; steps of the engine fall into those that only park sessions or change
fields no worker relies on (`QuietStep`), those that collect (`CollectStep`)
and the creation of a session (`CreateStep`). The refinement uses `IInv` on
both sides of a step: a free is possible only for a session that is not lent.

The second half of `TcpLifeProofs` builds on `IInv`. Two sessions of an endpoint are never live
together because a live one is found by the look-up that precedes every
creation. `NoStaleServer` is inductive with `IInv`: a session takes its peer
from `srv_host` in one step (`Carries` says what a step may hand on), and the
reconnect that changes `srv_host` raises `ResetComing` in the step before. The
counters need that workers are finitely many (`PoolAssumption`); each step
moves `count` with `Alloc` and `inflight` with the queue and the busy workers.
A clean stop rests on `FinishInv`, that a session that waits for its mark is
lent, and on `StopInv`, that a worker leaves only an empty queue behind and
that the engine thread ends only after all workers, with every session freed;
with nobody at work `IInv` leaves no socket without a session to hold it. A
failed allocation in `hs_submit` breaks `FinishInv`, which is why it is
excluded: the instance `TcpLifeNoJob` of section 5.

In `TcpStreamProofs` a handler is a chain of operators on the record `c`, and
so is the proof: a lemma for each operator says what it moves (`Pushed` for
`flush_tcp_app_buf`, `Pumped` for `flush_tcp_srv_buf`, `Taken` for
`app_buf_accept`), what it leaves alone (`SameUp`, `SameDown`, `SameLink`, ...)
and which parts of the invariant it keeps; an action is their composition, and
`Stays` is what all of them have in common. Bytes are numbered, so "in order
and once" is `Run`: the buffers hold consecutive numbers from those delivered
on. `Up` and `Down` say that for the two directions, with the sequence numbers
as sums modulo `Mod`; the step that needs most care is that a window's worth of
bytes in flight, a difference of two numbers that may have wrapped, is the
difference of what they count. `Inv` has a part that holds in every hard case
(`Base`: types, capacities, the room promised, the worker's progress, reading
paused only for data, the FIN waiting only for data) and four parts that each
name the cases they need excluded, no more:

* `UpInv` without `fin_data`: a FIN whose payload was refused is counted
  (`TcpStreamFinData`).
* `DownInv` without `late_syn`: a repeated SYN after the handshake is answered
  as a first one and its zero acknowledgement believed (`TcpStreamDupSyn`).
* `HalfInv` without `fin_data` and `early_fin`: SHUT_WR follows the last byte at
  once, if there is a socket to shut when the FIN comes (`TcpStreamEarlyFin`).
* `WakeInv` without `add_race` and `late_syn`: epoll knows what the flags say
  (`Heard`), data for the server asks for EPOLLOUT (`OutWanted`), data for the
  App waits for its window or for the TUN (`Waits`); an engine that asks before
  `EPOLL_CTL_ADD` breaks the first (`TcpStreamAddRace`).

As each part is an implication, `Invariance` holds whatever `Hard` is, and one
proof serves the four theorems. Aborts, `dup_syn`, a full TUN, `post_fin` and
the idle limit are excluded nowhere: data a session still holds when it is
closed is lost, but what was delivered until then is intact.

The half of `WireProofs` about `FakeDns` strengthens `TableSound` with `Younger`: an entry is never
older than an answer it was used for. `fake_dns_alloc` evicts an entry older
than a TTL, `Younger` says that every answer from it is older too, and answers
older than a TTL have left the caches; so no eviction takes an address from
under an App. `crowd` is the case that every entry is younger, `reset` the soft
reset, and both do break it.

`UdpSessProofs` goes in two stages. `LoanInv` (who has a session in hand, that
it is lent once, that a worker leaves only an empty queue behind) is inductive
in every hard case and is enough for the refinement. `UdpInv` adds what the
sockets need: what a session's two descriptors can be while its worker is at
each place (`Shape`, `Waiting`, `InHand`), one holder for each (`Owned`), and
epoll knowing only sockets that a session holds (`Registered`). It is
inductive only if the engine leaves a session alone while its worker still has
sockets to register: with `close_early` the worker's failure path releases the
control socket a second time, which is the instance `UdpEarly` of section 5, so
the assumption cannot be dropped. For the counters, `Books` says that a session
that is not done has a worker or a place in the queue, and that after the pool
has been joined nothing is left.

For `Serves`, `ServeInv` is added to `UdpInv`. `Serves` is about sessions whose worker
is done; it is inductive only with an account of how far the worker has come at
each place. `SessServes` is what a session is like whoever has it in hand,
`WorkServes` what its worker has made of it: nothing before `state = 1`
(`Prepared`), a socket for each registration that is still to come (`Equipped`),
and between `EPOLL_CTL_ADD` and the store of `tx_armed` an EPOLLOUT exactly if
frames wait (`NotYetArmed`). A session in the queue is untouched (`Waits`), and
`OutIsArmed` says that no EPOLLOUT is left that `tx_armed` does not know of.
`Arming` is the engine's moment between appending a frame and asking for
EPOLLOUT. Each of `pend_window`, `arm_window` and `close_early` breaks one of
these parts, so `Hard = {}` is assumed; section 5 has the instances.

In `WatchdogProofs` the invariant `DogInv` says that there is at most one
promise of a reconnect, a worker about to post or a posted Runnable, and that
`restartScheduled` and `autoRestartRunnable` stand for it (`OnePromise`); that
what is left of its delay, on top of the time since the last reconnect, is a
`BaseDelay` (`Spaced`); that the last delay is the one `autoRestartCount`
stands for (`Backed`); and that between `resetServerWatchdog` and the next start
nobody promises anything (`Calm`). A success that clears `restartScheduled`
under a posted Runnable breaks `OnePromise` (`WatchdogOk`), and so would a stop
between decision and post: both are excluded by `Hard = {}`.

The properties of `Tunnel` but for its engine's are about a service at rest, and
say nothing of how it gets there. `TunnelInv` does: what each coroutine looks
like (`JobShape`), that nothing is under way twice (`Messages`, `Once`), how far
a stop has come with the native side (`StopInv`), that a thread which will start
an engine finds none (`NativeInv`), that a tunnel that does not run has nothing
native (`RunInv`), that a start which has not been called off is on its way and
alone (`StartInv`), and that what was asked for last is done, being done or was
given up (`AskInv`). "Commands apart" is `Hard \subseteq {"engine_dies"}`: the
engine may die at any time nobody stops it, starts may fail and be retried,
stops come while a start resolves, but a command waits for the one before it.
Each of the other hard cases breaks one of the four properties (section 5).

In `RelayProofs` the invariant `HInv` of the negotiation says, for each place
the worker reads at, how what it has (`buf`) and what is under way (`stream`)
make up the answer of the server, and where the verdict on it falls: `Asked`
(the first bytes of an answer, which decide it or say how long it is), `AtLength`
and `AtAddress` (what is left of a granted reply), `Agreed` (it has been read to
its end). `BlameIsRight` is not inductive without it: that a network failure is
not a refusal the worker has overlooked depends on no answer being decided
before the bytes the worker waits for (`MayGiveUp`). When the session is handed
over the stream is the server's frames and nothing else, and `RInv` goes on from
there: some first n frames are handed on, and the length that has been read,
`rx_buf` and what TCP holds are the others, end to end (`Reads`). What
`udp_tcp_consume` does to them is a fact about a loop, `ConsumeIsRight`: it takes
whole frames in order, stops at a length out of bounds only when the server sent
one, and `ConsumeAdvances` from a full buffer, so that a session never sticks.
`Consume` is a recursive function and `FlattenSeq` a fold: the proofs show that
functions with their equations exist, by induction on the turns the loop has
left and on the number of frames, and then use the equations. Induction is the
lemma `Induction`, from `WFMin` and the well-foundedness of the natural numbers.

The proof about `DnsTcp` is built the same way. `DInv` says that for some n the first n
queries of the stream have been taken out and answered (`Reached`), the answers
being with the App or in `srv_buf`, and that `dns_rx_buf` and what the App has
not sent are, end to end, the frames of the others. `ScanIsRight` is the fact
about `dns_tcp_scan_frames` behind it: it takes whole queries out of its buffer
in order, whatever comes behind. That holds in every case (`QueriesInOrder`).
That no query is cut off by our FIN needs `LastIsLast` (`srv_eof` is set only
with an empty `dns_rx_buf`, and the FIN goes out with the last answer), which a
segment that ends inside a query while an answer waits breaks: `DnsTcpCut` of
section 5, so `QueriesAreAnswered` assumes `MayCut = FALSE`.

`ReasmProofs`. `Reassembles` speaks of what was handed on and says nothing of the
table, so `IInv` says what an entry is: the entry has an owner, a datagram with
its identification, and holds pieces of the owner only, that have arrived; its
age is at most the time-out and the seconds since the last collection
(`SlotsKept`). Since an identification is not used again within `IdLife`, an
entry that `find_entry` finds for a piece is owned by the piece's datagram, never
by one before it (`OwnerIs`), so nothing is joined that does not belong together
(`HandedOnAsSent`). `Complete` is then a question about one datagram's pieces:
without overlap they leave no gap below the end of the last exactly when all
are there, and the code can neither finish early nor miss the end, zero-length
last piece included. That nothing is lost is `ClaimsMet`: a datagram with a
claim was handed on whole, or an entry as fresh as itself holds exactly what
came. Only eviction could break that. The victim is the oldest of a full table,
every other entry has an owner of its own (`OneEntryPerKey`), each heard of no
earlier than the victim's, which makes `MaxEntries - 1` unfinished datagrams as
fresh or fresher: `Crowded` has taken the claim (`VictimIsCrowded`, by counting
owners). The attempt at this proof showed that the claim had been too strong: a
datagram that does not fit leaves an entry behind when its last piece is not
the one refused, so it crowds the table although all of it came. `Busy` counts
it now, and `d` of the instance is such a datagram.

`WireProofs`. A state of `Wire` is an input that grows, so the invariant is short
(`WireTypeOK` and `Room`: made of the subject's alphabet, no longer than its
bound), and the work is in what the functions compute. They are recursive
functions, and each has its induction.

* Checksums. `WordSum` of a receiver and `accum_swapped` are sums over the odd and
  the even places, with 256 at one or the other (`High`, `Low`, `TotalConcat`);
  `Folded` keeps the rest of a division by 65535 and ends below 2^16. The word
  that `checksum_finish` makes, its bytes swapped back, fills the sum up to a
  multiple of 65535 that is not zero. That is `BehindVerifies` for a word behind
  the data and `ChecksumVerifies` for one written over two zeros, after a
  pseudo-header of even length. The sums of the model are unbounded; the code's
  32 bits hold those of 2^16 bytes.
* Packets. Every builder is a header that says its length and a segment whose
  blank word is filled, so that `GoodPacket` follows from the two checksums and
  from where the fields stand (`SegmentIsGood`, `DatagramIsGood`, `SynAckIsGood`,
  `EchoReply4IsGood`, `EchoReply6IsGood`, `AdvertisementIsGood`,
  `RebuiltIsGood`). These hold for any payload; `Room` is needed only so that
  the packet fits the MTU and is not refused.
* Options. The walk of `tcp_parse_window_scale` is at the start of an option or
  at an end at every turn, and `ws` is that of the last scale behind it
  (`ScaleRead`).
* Chains of headers. `LaidOut` says of a packet that its k-th header ends at
  `at[k]`, is as long as it says and names the type of the next. After k hops
  the walk is there (`WalkComes`): it meets the header it looks for
  (`WalkFinds`), one that is cut off (`WalkBreaks`), or has used its eight hops
  (`WalkTires`). `ChainIsParsed` takes the packet cut off behind any byte. With
  a Fragment header at the i-th place the bytes in front of it are those of the
  packet without it but for the length and the one byte that names it
  (`InsertedFront`, at `PlaceOf`); `patch_off` is that byte, so the rebuilt packet is
  the original (`FragmentIsRead`), whatever headers follow.
* SOCKS5. A message is an address type, an address, a port and a rest
  (`Message`); a name of up to 255 bytes is read by its length byte, and every
  front of a datagram that ends before its payload is refused.
* Routes and DNS servers. A route covers an interval of blocks. The intervals
  are compared with the local networks by their bounds, so `EachBlockOnce` is
  linear arithmetic. `normalize` and `plan` keep a list without repetition, with
  the network's servers as its front; `Asked` is a front of that list, which
  gives `AskingInOrder`.

TLC alone checks the liveness properties: they rest on fairness and `ENABLED`,
which are out of the prover's reach. Every safety invariant and every action
property of a passing run has its theorem. The library's induction theorems
take an operator and cannot be instantiated here; where a recursive function had to be reasoned about, the module proves its own
induction from the well-foundedness of the natural numbers. No module uses a
RECURSIVE operator.

## 5. Where the code does not do what it says

Two disagreements are listed under "findings". The run `tunnel_restart_stop`
keeps one: a restart is given, then a stop while the restart's first half is
under way, and its second half starts the tunnel again. The other is a comment
that is out of date: tcp_sess.c:750-751 says that a session whose worker
outlasts the five-second wait of the shutdown stays in the graveyard. The run
`tcp_life` passes with the opposite, `CleanStop` in `BooksBalance`: the engine
thread calls `hs_pool_stop`, which joins every worker (tun_socks.c:270), before
the last collection. The code is right, and `TimedOutStays` states the comment.

The instances below are kept beside the runs; each stops at a violation of the
property it names. Where a row gives a value of `Hard`, it is the named instance
with that value and that property. None of these is a statement about
reachability in practice, only that the order of steps exists in the code.

| instance | property | what happens |
|---|---|---|
| `TunnelRestartStop` (the run) | `StopIsFinal` | a stop during a restart is undone by the restart's second half (TunSocksService.kt:619-626) |
| `TunnelRestartStop` | `LastWordCounts`, `RunningIsTrue` | a restart during a stop: the stop's late `isRunning = false` comes after the restart's tunnel is up, which runs and is said not to (TunSocksService.kt:836) |
| `TcpLifeProgress` | `TimedOutStays` | sessions the comment leaves in the graveyard are freed (tcp_sess.c:750-751, a comment out of date) |
| `TcpLifeNoJob` | `SomeoneWillFinish` | a failed `hs_submit` parks a session nobody marks done (tcp_sess.c:569) |
| `TcpStreamEarlyFin` | `HalfClosePassedOn` | the App's FIN before the handshake is done is never passed on (tcp_sess.c:643-646) |
| `TcpStreamFinData` | `ServerEofExact` | FIN taken although its segment's payload was refused (tcp_sess.c:636-640) |
| `TcpStreamAddRace` | `NoSilentUpload` | EPOLLOUT asked for before the socket is registered is lost (tcp_sess.c:400-404) |
| `TcpStreamDupSyn` | `AckedIsApps` | the zero ack field of a repeated SYN is believed (tcp_sess.c:589) |
| `TcpStreamPostFin` | `AckedSurvives` | after our FIN any segment closes the session, with acknowledged upload data unsent (tcp_sess.c:609-612; tcp_state.h calls a segment without payload there a normal end) |
| `TcpStreamPostFin` | `RstIsAccepted` | a RST after our FIN carries the FIN's number (tcp_sess.c:224) |
| `TcpStreamIdle` | `IdleReclaimed` | a level-triggered EPOLLRDHUP counts as activity (tcp_sess.c:658) |
| `UdpPend` | `PendingForwarded` | a datagram buffered between the worker's take and `state = 1` stays (udp_sess.c:484-496) |
| `UdpPend`, `{"arm_window"}`, with `UdpInTcp = TRUE` | `OutIsArmed` | EPOLLOUT stays registered with `tx_armed` clear (udp_sess.c:512) |
| `UdpPend`, `{"arm_window"}`, with `UdpInTcp = TRUE` | `TxWillDrain` | `tx_armed` set without EPOLLOUT (udp_sess.c:504-512) |
| `UdpEarly` | `SocketOwnership` | the control socket is released twice (udp_sess.c:547) |
| `UdpGc` | `GcSparesActive` | forwarding does not refresh `last_active` (udp_sess.c:739) |
| `TunnelStartTwice`, `{"stop_overlap"}` | `OneEngine` | the second of two stops does not wait for the engine (tun_socks.c:372) |
| `TunnelStartTwice` | `RightServer` | the first of two resolutions gives its address to the second start (TunSocksService.kt:302) |
| `TunnelRestartStart` | `NoTunLost` | a restart does not call off a start that is resolving (TunSocksService.kt:619) |
| `TunnelStartTwice`, `{"soft_overlap"}` | `RightServer` | a soft reconnect's resolution outlives its tunnel (TunSocksService.kt:779) |
| `WatchdogOk` | `NoOrphan` | a success clears `restartScheduled`, not the Runnable (ServerWatchdog.kt:50) |
| `WatchdogOk`, `{"post_in_stop"}` | `NothingAfterStop` | a Runnable is posted after the stop has removed the last one (TunSocksService.kt:867) |
| `FakeDnsCaps`, `{"reset"}` | `RightName` | a soft reset forgets addresses Apps still use (tun_socks.c:189) |
| `FakeDnsCaps` | `ReplyFromAsked` | two spellings, two addresses, one reply address (fake_dns.c:25, 81) |
| `FakeDnsCaps`, `{"v6"}` | `ReplyFromAsked` | replies to fake IPv6 addresses are dropped (udp_sess.c:587) |
| `FakeDnsCaps`, `{"dns_tcp"}`, with `Passthrough = {"x"}` | `PassthroughReal` | DNS over TCP fakes the private DNS host (tcp_sess.c:476) |
| `DnsTcpCut` (module `MCDns`) | `QueriesAnswered` | our FIN goes out behind an answer although half a query has been acknowledged (tcp_sess.c:486-489) |

`UdpProgress` is an instance that holds: the UDP graveyard drains under the
fairness of the threads.

## 6. Abstractions and what is left out

* `TcpLife`: the scan of a collector over its list is one step (only the engine
  changes the list); `MAX_EVENTS` batches are sets; enqueueing and the
  increment of `handshake_inflight` are one step (the engine does both);
  memory is sequentially consistent for the atomic fields. The TUN descriptor,
  which workers may write to while the engine closes it, is not modelled.
* `TcpStream`: lengths count bytes of a few, not of 64 KiB; writes to the TUN
  succeed or fail for a whole step; SYN-ACK and FIN are not lost to a full
  TUN; DNS over TCP is answered locally and is in `DnsTcp` (and in
  `TcpLife` and `FakeDns` for its session and its table); unless `add_race` is
  named the engine does not move between the worker's store of `state` and its
  `epoll_ctl`.
* `UdpSess`: a failed submit leaves nothing behind and is no action; an engine
  that exits by itself is only in `TcpLife`; frames are not parsed.
* `Handshake`, `Relay`: the socket is connected when the conversation starts;
  a send succeeds or fails as a whole; when Java's socket is closed, the
  descriptor native holds is, too. Credentials are told apart only by whether
  the server wants them.
* `DnsTcp`: segments come in order; a FIN that comes with data is ignored by
  the code until it is retransmitted alone, so only that is an action; after
  the reset for a full `srv_buf` nothing is sent that the App would take. The
  inside of a DNS message is left out.
* `Packets`, `Ip6Headers`, `Socks5Codec`: buffers are as long as their content
  and reading past one is excluded by the guards of the code; numbers of 32
  bits are passed as bytes. `Routes` counts addresses in blocks of 2^16, as no
  route is longer; the two IPv6 routes are constants.
* `Tunnel`: the service's destruction after `stopSelf`, a native start that
  fails on its thread, a missing native library, settings other than the host;
  a start given while a stop is under way (ignored by the code) is kept out.
* `Watchdog`: `resetServerWatchdog` is one step; `startPending` is taken to be
  clear when a Runnable fires; status texts are not modelled.
* `Reasm`: header chains are parsed and rebuilt in one step; a rebuilt packet
  beyond 65535 bytes with its headers is left out; `time(NULL)` only advances.
* Not modelled: the DNS client's sockets and parsing, settings, profiles,
  secrets, boot, kill switch, the user interface, statistics, logging and
  ICMP dispatch (see "components" for the reasons).

## 7. What could come next

1. The TUN's life in `TcpLife`: the descriptor, loss of SYN-ACK and FIN to a
   full queue, and the native start that fails after Java was told "Started".
2. `Tunnel` with `Watchdog` inside, and the boot restoration flag.
3. The hazards without a property (see "hazards"): the UDP checksum that comes
   out as zero, and the IPv6 routes.

## 8. Running

    tlc -workers 2 -config TcpLifeSafety.cfg MCTcpLife
    tlapm TcpLifeProofs.tla
    tlapm TcpStreamProofs.tla
    tlapm WireProofs.tla
    tlapm UdpSessProofs.tla
    tlapm WatchdogProofs.tla
    tlapm TunnelProofs.tla
    tlapm RelayProofs.tla
    tlapm ReasmProofs.tla

`PROJECT.json` names module and cfg of every run.
