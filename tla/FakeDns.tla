------------------------------ MODULE FakeDns ------------------------------
(***************************************************************************)
(* Remote DNS: the table of fake addresses (fake_dns.c), the answers that  *)
(* dns_build_reply gives from it (engine_util.c), and the ways TCP and UDP *)
(* sessions turn a fake address back into a name.                          *)
(*                                                                         *)
(* The engine thread does all of this, one call at a time; what can go     *)
(* wrong is time.  An App goes on using an answer until its TTL is over,   *)
(* while the entry it names may be reused, evicted or wiped by a soft      *)
(* reset.  A name is a word in one of several spellings: some of the       *)
(* functions compare spellings, others words.  Times are kept as ages.     *)
(***************************************************************************)
EXTENDS Integers, FiniteSets

CONSTANTS
    Words, Spellings,
    Passthrough,   \* the words of the private DNS server, which are not faked
    Entries,       \* FAKE_DNS_ENTRIES
    Idle,          \* FAKE_DNS_IDLE_SEC
    Ttl,           \* DNS_FAKE_TTL_SEC
    MaxFlows,      \* bound: datagrams awaiting a reply
    Hard           \* the hard cases this instance allows

\* "caps"     a datagram is sent to a word that is in the table twice
\* "v6"       a datagram is sent to a fake IPv6 address
\* "reset"    a soft reset while an answer is cached or a reply awaited
\* "crowd"    more names than entries are looked up within a TTL
\* "dns_tcp"  the private DNS server is looked up over TCP
HardCases == {"caps", "v6", "reset", "crowd", "dns_tcp"}

ASSUME FakeDnsAssumption ==
    /\ Entries \in Nat \ {0} /\ Ttl \in Nat /\ Idle \in Nat /\ Ttl <= Idle
    /\ MaxFlows \in Nat /\ Passthrough \subseteq Words /\ Hard \subseteq HardCases

VARIABLES
    entries,  \* the table
    next,     \* the round-robin cursor
    cached,   \* the answers the Apps still use
    flows,    \* datagrams sent whose reply is awaited
    out       \* history: the last connection or reply, what it should be and is

vars == <<entries, next, cached, flows, out>>

Slots  == 0 .. (Entries - 1)
Names  == [word: Words, spelling: Spellings]
NoName == [word |-> "none", spelling |-> "none"]
SameWord(m, n) == m.word = n.word

Empty == [in_use |-> FALSE, domain |-> NoName, age |-> 0]
None  == [what |-> "none", asked |-> NoName, got |-> NoName]

Init ==
    /\ entries = [i \in Slots |-> Empty] /\ next = 0
    /\ cached = {} /\ flows = {} /\ out = None

-----------------------------------------------------------------------------
(* fake_dns.c.  The lowest index wins wherever the code scans upwards.     *)

First(S)  == CHOOSE i \in S : \A j \in S : i <= j
Distance(i)   == (i - next) % Entries
Used(i)   == entries[i].in_use
Holding(n) == {i \in Slots : Used(i) /\ entries[i].domain = n}
Free      == {i \in Slots : ~Used(i) \/ entries[i].age > Idle}
Oldest    == {i \in Slots : \A j \in Slots : entries[j].age <= entries[i].age}

\* Mutant: the newest entry is evicted.
FreshNewest ==
    IF Free # {} THEN CHOOSE i \in Free : \A j \in Free : Distance(i) <= Distance(j)
    ELSE First({i \in Slots : \A j \in Slots : entries[i].age <= entries[j].age})

\* The entry a name without one gets: the first free one from the cursor on,
\* else the one unused for longest.
Fresh ==
    IF Free # {} THEN CHOOSE i \in Free : \A j \in Free : Distance(i) <= Distance(j)
    ELSE First(Oldest)

SlotFor(n) == IF Holding(n) # {} THEN First(Holding(n)) ELSE Fresh

Touch(i) == entries' = [entries EXCEPT ![i].age = 0]

\* fake_dns_alloc.
Alloc(n) ==
    IF Holding(n) # {} THEN Touch(SlotFor(n)) /\ UNCHANGED next
    ELSE /\ entries' = [entries EXCEPT ![SlotFor(n)] = [in_use |-> TRUE, domain |-> n, age |-> 0]]
         /\ next' = (SlotFor(n) + 1) % Entries

\* fake_dns_find_domain compares words.
WithWord(n) == {i \in Slots : Used(i) /\ SameWord(entries[i].domain, n)}

-----------------------------------------------------------------------------
(* What the Apps and the server do, and the engine's part in it.           *)

Age(a, cap) == IF a < cap THEN a + 1 ELSE cap

\* dns_try_intercept leaves the private DNS server to the relay; the
\* DNS-over-TCP path (dns_tcp_ingest) has no such exception.
Intercepts(n, via) == via = "tcp" \/ n.word \notin Passthrough

\* dns_build_reply: the answer for an A (4) or AAAA (6) query.
Query(n, fam, via) ==
    /\ Intercepts(n, via)
    /\ (via = "tcp" /\ n.word \in Passthrough) => "dns_tcp" \in Hard
    /\ (Holding(n) = {} /\ \A i \in Slots : Used(i) /\ entries[i].age <= Ttl) => "crowd" \in Hard
    /\ Alloc(n)
    /\ cached' = {c \in cached : c.name # n \/ c.fam # fam}
                   \cup {[name |-> n, fam |-> fam, slot |-> SlotFor(n), age |-> 0]}
    /\ UNCHANGED <<flows, out>>

\* The name a session is given for a fake address.
Domain(i) == IF Used(i) THEN entries[i].domain ELSE NoName

\* fake_dns_lookup and fake_dns_lookup6.
TouchIfUsed(i) == IF Used(i) THEN Touch(i) ELSE UNCHANGED entries

\* A TCP connection to a cached answer: the SYN looks the address up once.
Connect(c) ==
    /\ out' = [what |-> "connect", asked |-> c.name, got |-> Domain(c.slot)]
    /\ TouchIfUsed(c.slot)
    /\ UNCHANGED <<next, cached, flows>>

\* forward_udp_to_server: a datagram to a cached answer, looked up each time.
Send(c) ==
    /\ Cardinality(flows) < MaxFlows
    /\ c.fam = 6 => "v6" \in Hard
    /\ Cardinality(WithWord(c.name)) > 1 => "caps" \in Hard
    /\ flows' = flows \cup {[name |-> c.name, fam |-> c.fam, slot |-> c.slot,
                             domain |-> Domain(c.slot), age |-> 0]}
    /\ TouchIfUsed(c.slot)
    /\ UNCHANGED <<next, cached, out>>

\* handle_relay_udp: the server answers with the domain it was sent; the
\* reply is given that domain's fake IPv4 address, and write_udp_to_tun drops
\* it when the App's side is IPv6.
Reply(f) ==
    /\ f.domain # NoName
    /\ IF WithWord(f.domain) = {}
       THEN out' = [what |-> "lost", asked |-> f.name, got |-> NoName] /\ UNCHANGED entries
       ELSE LET i == First(WithWord(f.domain)) IN
            /\ Touch(i)
            /\ out' = [what |-> IF f.fam = 4 /\ i = f.slot THEN "reply" ELSE "lost",
                       asked |-> f.name, got |-> entries[i].domain]
    /\ flows' = flows \ {f}
    /\ UNCHANGED <<next, cached>>

\* engine_soft_reset wipes the table; the Apps keep their answers.
SoftReset ==
    /\ (cached # {} \/ flows # {}) => "reset" \in Hard
    /\ entries' = [i \in Slots |-> Empty] /\ next' = 0
    /\ flows' = {}
    /\ UNCHANGED <<cached, out>>

\* A unit of time passes: answers and waiting Apps expire with the TTL.
Tick ==
    /\ entries' = [i \in Slots |-> IF Used(i) THEN [entries[i] EXCEPT !.age = Age(@, Idle + 1)]
                                              ELSE entries[i]]
    /\ cached' = {[c EXCEPT !.age = @ + 1] : c \in {d \in cached : d.age < Ttl}}
    /\ flows' = {[f EXCEPT !.age = @ + 1] : f \in {g \in flows : g.age < Ttl}}
    /\ UNCHANGED <<next, out>>

Next ==
    \/ \E n \in Names, fam \in {4, 6}, via \in {"udp", "tcp"} : Query(n, fam, via)
    \/ \E c \in cached : Connect(c) \/ Send(c)
    \/ (\E f \in flows : Reply(f)) \/ SoftReset \/ Tick

Spec == Init /\ [][Next]_vars

-----------------------------------------------------------------------------
(* Properties.                                                             *)

TypeOK ==
    /\ entries \in [Slots -> [in_use: BOOLEAN, domain: Names \cup {NoName}, age: 0..(Idle + 1)]]
    /\ next \in Slots
    /\ cached \subseteq [name: Names, fam: {4, 6}, slot: Slots, age: 0..Ttl]
    /\ flows \subseteq [name: Names, fam: {4, 6}, slot: Slots, domain: Names \cup {NoName}, age: 0..Ttl]
    /\ out \in [what: {"none", "connect", "reply", "lost"}, asked: Names \cup {NoName},
                got: Names \cup {NoName}]

\* A name has one entry: two Apps that ask for the same name get the same
\* address.
OneEntryPerName == \A n \in Names : Cardinality(Holding(n)) <= 1

\* As long as an App may use an answer, its address stands for the name the
\* App asked for.
AnswersStand == \A c \in cached : Used(c.slot) /\ entries[c.slot].domain = c.name

\* Names and addresses belong together, in the table and in the Apps' caches.
TableSound == TypeOK /\ OneEntryPerName /\ AnswersStand

\* A connection to a fake address is made to the name it was given out for.
RightName == out.what = "connect" => out.got = out.asked

\* A reply comes from the address the App sent its datagram to: an App
\* drops any other.
ReplyFromAsked == out.what # "lost"

\* The private DNS server's name is never given a fake address.
PassthroughReal == \A c \in cached : c.name.word \notin Passthrough

=============================================================================
