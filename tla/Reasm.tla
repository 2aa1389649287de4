------------------------------- MODULE Reasm --------------------------------
(***************************************************************************)
(* Reassembly of fragmented IP packets (reasm.c) between the TUN reader    *)
(* (handle_tun_packet in tun_socks.c) and the TCP, UDP and ICMP handlers.  *)
(*                                                                         *)
(* Apps send datagrams cut into pieces; the pieces reach the engine in any *)
(* order, more than once or never.  A byte is known by the datagram it     *)
(* comes from and its place, so an entry keeps its segments and the buffer *)
(* is what they say.  Times are ages in seconds; they saturate where the   *)
(* code no longer tells them apart.                                        *)
(***************************************************************************)
EXTENDS Integers, Sequences, FiniteSets

CONSTANTS
    Dgrams,      \* the datagrams of the Apps
    Sent,        \* what each is: key, v6, cuts (lengths of the pieces), long
    MaxEntries,  \* REASM_MAX_ENTRIES
    MaxFrags,    \* REASM_MAX_FRAGS
    MaxSize,     \* REASM_MAX_SIZE
    Timeout,     \* REASM_TIMEOUT_SEC
    GcEvery,     \* seconds between two idle collections
    Poll,        \* epoll_wait's timeout: how late a collection may be
    None         \* no datagram

ASSUME SizesPositive ==
    /\ {MaxEntries, MaxFrags, MaxSize, GcEvery} \subseteq Nat \ {0}
    /\ {Timeout, Poll} \subseteq Nat

ASSUME SentIsDatagrams ==
    /\ None \notin Dgrams
    /\ \A d \in Dgrams : /\ Sent[d].cuts \in Seq(Nat) /\ Sent[d].cuts # <<>>
                         /\ Sent[d].v6 \in BOOLEAN /\ Sent[d].long \in BOOLEAN

VARIABLES
    entries,  \* g_reasm
    sinceGc,  \* now - last_gc
    up,       \* the packets handed on to the TCP, UDP and ICMP handlers
    heard,    \* history: the pieces of a datagram that have arrived
    quiet,    \* history: how long ago the last of them did
    spoiled   \* history: datagrams that need not get through

vars == <<entries, sinceGc, up, heard, quiet, spoiled>>

Slots == 1..MaxEntries
Keys == {Sent[d].key : d \in Dgrams}

\* An entry stays this long after its last piece, collections being late.
IdLife == Timeout + GcEvery + Poll

Older(t) == IF t > IdLife THEN t ELSE t + 1

-----------------------------------------------------------------------------
(* The pieces of a datagram as they come out of the TUN.                   *)

Pieces(d) == DOMAIN Sent[d].cuts

\* Where the first i pieces end.
EndOf(d) ==
    LET end[i \in 0..Len(Sent[d].cuts)] ==
          IF i = 0 THEN 0 ELSE end[i - 1] + Sent[d].cuts[i]
    IN end

OffsetOf(d, i) == EndOf(d)[i - 1]
Size(d) == EndOf(d)[Len(Sent[d].cuts)]

Piece == [d \in Dgrams |-> [i \in Pieces(d) |->
            [key |-> Sent[d].key, offset |-> OffsetOf(d, i), len |-> Sent[d].cuts[i],
             mf |-> i < Len(Sent[d].cuts), of |-> d]]]

\* handle_tun_packet: IPv4 looks at the offset and MF, IPv6 for a Fragment
\* header, which an unfragmented datagram may carry too.
IsFragment(d, p) == Sent[d].v6 \/ p.offset # 0 \/ p.mf

-----------------------------------------------------------------------------
(* One entry: reasm_insert_seg.                                            *)

Free == [in_use |-> FALSE, key |-> None, total_len |-> 0, have_last |-> FALSE,
         segs |-> <<>>, ip_hdr |-> None, age |-> 0]

NewEntry(key) == [Free EXCEPT !.in_use = TRUE, !.key = key]

\* Mutant: a piece that starts where another ends is taken to overlap it.
OverlapsTouching(s, p) == p.offset <= s.off + s.len /\ s.off < p.offset + p.len

Overlaps(s, p) == p.offset < s.off + s.len /\ s.off < p.offset + p.len

Refused(e, p) ==
    \/ p.offset + p.len > MaxSize
    \/ ~p.mf /\ e.have_last /\ e.total_len # p.offset + p.len
    \/ /\ p.len > 0
       /\ \/ Len(e.segs) >= MaxFrags
          \/ \E i \in DOMAIN e.segs : Overlaps(e.segs[i], p)

Stored(e, p) ==
    [e EXCEPT !.total_len = IF p.mf THEN @ ELSE p.offset + p.len,
              !.have_last = @ \/ ~p.mf,
              !.segs = IF p.len = 0 THEN @
                       ELSE Append(@, [off |-> p.offset, len |-> p.len, of |-> p.of])]

\* No gap: the segments, none of which overlaps another, each start where one
\* ends (the first at 0), and the last of them ends at total_len.
Complete(e) ==
    LET ends == {0} \cup {e.segs[i].off + e.segs[i].len : i \in DOMAIN e.segs}
    IN /\ e.have_last
       /\ \A i \in DOMAIN e.segs : e.segs[i].off \in ends
       /\ e.total_len \in ends /\ \A n \in ends : n <= e.total_len

\* The headers before the first piece, unless there is no room for them.
WithHeader(e, p) ==
    [e EXCEPT !.ip_hdr = IF p.offset = 0 /\ ~Sent[p.of].long THEN p.of ELSE @,
              !.age = 0]

\* ip4_reasm_rebuild and ip6_reasm_rebuild; a packet needs its headers.
Rebuild(e) ==
    [of |-> e.ip_hdr, size |-> e.total_len,
     from |-> {e.segs[i].of : i \in DOMAIN e.segs}]

-----------------------------------------------------------------------------
(* The table.                                                              *)

TimedOut(e) == e.in_use /\ e.age > Timeout

\* find_entry.
Find(key) == {i \in Slots : entries[i].in_use /\ entries[i].key = key}

Lowest(S) == CHOOSE i \in S : \A j \in S : i <= j

\* The first slot that is free or timed out, else the first of those not
\* heard of for longest.
Victim ==
    LET idle == {i \in Slots : ~entries[i].in_use \/ TimedOut(entries[i])}
        oldest == {i \in Slots : \A j \in Slots : entries[j].age <= entries[i].age}
    IN IF idle # {} THEN Lowest(idle) ELSE Lowest(oldest)

SlotFor(key) == IF Find(key) # {} THEN Lowest(Find(key)) ELSE Victim

\* reasm_table_insert: memory for the entry or for the packet may be missing.
Insert(p, memory) ==
    LET i == SlotFor(p.key)
        e == WithHeader(IF Find(p.key) # {} THEN entries[i] ELSE NewEntry(p.key), p)
        done == Complete(Stored(e, p))
        Leaves(x) == entries' = [entries EXCEPT ![i] = x]
    IN CASE Find(p.key) = {} /\ ~memory -> Leaves(Free) /\ UNCHANGED up
         [] OTHER ->
            \/ Refused(e, p) /\ Leaves(Free) /\ UNCHANGED up
            \/ ~Refused(e, p) /\ ~done /\ Leaves(Stored(e, p)) /\ UNCHANGED up
            \/ /\ ~Refused(e, p) /\ done /\ Leaves(Free)
               /\ up' = IF memory /\ e.ip_hdr # None
                        THEN up \cup {Rebuild(Stored(e, p))} ELSE up

-----------------------------------------------------------------------------
(* What gets through: a datagram has no claim to it once a piece comes     *)
(* twice, the pieces come too slowly, memory is missing, the connections   *)
(* are reset, or MaxEntries - 1 other unfinished ones have been heard of   *)
(* since when a new one comes.                                             *)

\* What an entry can hold; no sender cuts off an empty piece but at the end.
Fits(d) ==
    /\ Size(d) <= MaxSize /\ ~Sent[d].long
    /\ Cardinality({i \in Pieces(d) : Sent[d].cuts[i] > 0}) <= MaxFrags
    /\ \A i \in Pieces(d) : i < Len(Sent[d].cuts) => Sent[d].cuts[i] > 0

\* Those an entry may be in use for.
Busy == {d \in Dgrams : /\ heard[d] # {} /\ quiet[d] <= Timeout
                        /\ heard[d] # Pieces(d) \/ d \in spoiled \/ ~Fits(d)}

Crowded(new) ==
    LET others == Busy \ {new}
    IN {d \in others : Cardinality({x \in others \ {d} : quiet[x] <= quiet[d]})
                          >= MaxEntries - 1}

\* The sender does not use an identification again while an entry may be
\* there for it.
MayUseKey(d) == \A o \in Dgrams \ {d} : Sent[o].key = Sent[d].key /\ heard[o] # {}
                                         => quiet[o] > IdLife

\* Nobody asks how much longer than Timeout such a datagram has been quiet.
Alone(d) == \A o \in Dgrams \ {d} : Sent[o].key # Sent[d].key

-----------------------------------------------------------------------------
Init ==
    /\ entries = [i \in Slots |-> Free]
    /\ sinceGc = 0
    /\ heard = [d \in Dgrams |-> {}]
    /\ quiet = [d \in Dgrams |-> IF Alone(d) THEN Timeout + 1 ELSE IdLife + 1]
    /\ spoiled = {}
    /\ up = {}

\* handle_tun_packet for one piece; a datagram repeats one piece at most.
Arrive(d, i, memory) ==
    LET p == Piece[d][i]
    IN /\ MayUseKey(d)
       /\ i \in heard[d] => d \notin spoiled
       /\ IF IsFragment(d, p)
          THEN Insert(p, memory)
          ELSE /\ up' = up \cup {[of |-> d, size |-> p.len, from |-> {d}]}
               /\ UNCHANGED entries
       /\ heard' = [heard EXCEPT ![d] = @ \cup {i}]
       /\ quiet' = [quiet EXCEPT ![d] = 0]
       /\ spoiled' = spoiled
             \cup (IF i \in heard[d] \/ ~memory THEN {d} ELSE {})
             \cup (IF Find(p.key) = {} THEN Crowded(d) ELSE {})
       /\ UNCHANGED sinceGc

\* reasm_gc in the idle collection.
ReasmGc ==
    /\ sinceGc >= GcEvery
    /\ sinceGc' = 0
    /\ entries' = [i \in Slots |-> IF TimedOut(entries[i]) THEN Free ELSE entries[i]]
    /\ UNCHANGED <<up, heard, quiet, spoiled>>

\* engine_soft_reset: reasm_table_clear.
SoftReset ==
    /\ entries' = [i \in Slots |-> Free]
    /\ spoiled' = spoiled \cup Busy
    /\ UNCHANGED <<sinceGc, up, heard, quiet>>

\* A second passes; the engine's loop goes round every Poll seconds.
Tick ==
    /\ sinceGc < GcEvery + Poll
    /\ sinceGc' = sinceGc + 1
    /\ entries' = [i \in Slots |-> IF entries[i].in_use
                                   THEN [entries[i] EXCEPT !.age = Older(@)] ELSE entries[i]]
    /\ quiet' = [d \in Dgrams |-> IF quiet[d] > Timeout /\ Alone(d) THEN quiet[d]
                                 ELSE Older(quiet[d])]
    /\ spoiled' = spoiled \cup {d \in Busy : quiet[d] = Timeout}
    /\ UNCHANGED <<up, heard>>

Next ==
    \/ \E d \in Dgrams : \E i \in Pieces(d), memory \in BOOLEAN : Arrive(d, i, memory)
    \/ ReasmGc
    \/ SoftReset
    \/ Tick

Spec == Init /\ [][Next]_vars

-----------------------------------------------------------------------------
(* Properties.                                                             *)

Seg == [off : 0..MaxSize, len : 1..MaxSize, of : Dgrams]

TypeOK ==
    /\ \A i \in Slots :
          /\ entries[i] \in [in_use : BOOLEAN, key : Keys \cup {None}, total_len : 0..MaxSize,
                             have_last : BOOLEAN, segs : Seq(Seg), ip_hdr : Dgrams \cup {None},
                             age : 0..(IdLife + 1)]
          /\ Len(entries[i].segs) <= MaxFrags
    /\ sinceGc \in 0..(GcEvery + Poll)
    /\ spoiled \subseteq Dgrams

\* Two entries for one packet would each wait for the other's pieces.
OneEntryPerKey ==
    \A i, j \in Slots : entries[i].in_use /\ entries[j].in_use
                            /\ entries[i].key = entries[j].key => i = j

\* An entry whose pieces stop coming gives back its 64 KiB.
NoneStale == \A i \in Slots : entries[i].in_use => entries[i].age <= IdLife

\* The table is well formed, has one entry per packet and none that is stale.
EntriesOK == TypeOK /\ OneEntryPerKey /\ NoneStale

\* What is handed on is a datagram as it was sent, with its own headers:
\* nothing missing, nothing of another datagram that used the same
\* identification.
HandedOnAsSent ==
    \A pkt \in up : pkt.size = Size(pkt.of) /\ pkt.from \subseteq {pkt.of}

\* A datagram whose pieces all came, each once, in time and in whatever
\* order and company, has been handed on.
WholeIsHandedOn ==
    \A d \in Dgrams : heard[d] = Pieces(d) /\ d \notin spoiled /\ Fits(d)
        => \E pkt \in up : pkt.of = d

\* Reassembly passes on what was sent, and all of it, and keeps nothing.
Reassembles == EntriesOK /\ HandedOnAsSent /\ WholeIsHandedOn

=============================================================================
