------------------------------- MODULE Routes --------------------------------
(***************************************************************************)
(* What goes through the tunnel: the IPv4 routes of LanRoutes.kt, and what *)
(* is asked outside of it: the order in which DnsCandidates.kt asks DNS    *)
(* servers for the server's name, and what resolveHostOutsideTunnel makes  *)
(* of their answers.                                                       *)
(*                                                                         *)
(* No route is longer than 16 bits, so addresses are counted in blocks of  *)
(* 2^16: block a * 256 + b is a.b.0.0/16.                                  *)
(***************************************************************************)
EXTENDS Integers, Sequences, SequencesExt

Route(a, b, prefix) == [base |-> a * 256 + b, prefix |-> prefix]

V4 == {
    Route(1, 0, 8), Route(2, 0, 7), Route(4, 0, 6), Route(8, 0, 7), Route(11, 0, 8),
    Route(12, 0, 6), Route(16, 0, 4), Route(32, 0, 3), Route(64, 0, 3), Route(96, 0, 4),
    Route(112, 0, 5), Route(120, 0, 6), Route(124, 0, 7), Route(126, 0, 8),
    Route(128, 0, 3), Route(160, 0, 5), Route(168, 0, 8), Route(169, 0, 9),
    Route(169, 128, 10), Route(169, 192, 11), Route(169, 224, 12), Route(169, 240, 13),
    Route(169, 248, 14), Route(169, 252, 15), Route(169, 255, 16), Route(170, 0, 7),
    Route(172, 0, 12), Route(172, 32, 11), Route(172, 64, 10), Route(172, 128, 9),
    Route(173, 0, 8), Route(174, 0, 7), Route(176, 0, 4), Route(192, 0, 9),
    Route(192, 128, 11), Route(192, 160, 13), Route(192, 169, 16), Route(192, 170, 15),
    Route(192, 172, 14), Route(192, 176, 12), Route(192, 192, 10), Route(193, 0, 8),
    Route(194, 0, 7), Route(196, 0, 6), Route(200, 0, 5), Route(208, 0, 4) }

\* Mutant: a prefix counted one bit short.
SizeShort(r) == 2 ^ (17 - r.prefix)

\* Blocks in a route.
Size(r) == 2 ^ (16 - r.prefix)

\* containsV4: the address and the route's agree in the first prefix bits.
Covers(r, block) == block \div Size(r) = r.base \div Size(r)

-----------------------------------------------------------------------------
(* DnsCandidates.  A server as it is listed: its address without blanks and *)
(* zone id, whether that is a numeric address, and the first group of      *)
(* hexadecimal digits as a number when it is an IPv6 address.              *)

isLinkLocalV6(s) == s.first \in 65152..65215     \* 0xfe80..0xfebf

\* A set that keeps the order in which its elements came.
Added(out, ip) == IF Contains(out, ip) THEN out ELSE Append(out, ip)

normalize(servers) ==
    LET out[n \in 0..Len(servers)] ==
          IF n = 0 THEN <<>>
          ELSE IF servers[n].literal /\ ~isLinkLocalV6(servers[n])
               THEN Added(out[n - 1], servers[n].ip) ELSE out[n - 1]
    IN out[Len(servers)]

plan(underlying, configured) ==
    LET first == normalize(underlying)
        then  == normalize(configured)
        seen[n \in 0..Len(then)] ==
          IF n = 0 THEN first ELSE Added(seen[n - 1], then[n])
        all   == seen[Len(then)]
    IN [i \in DOMAIN all |-> [server |-> all[i], fallback |-> i > Len(first)]]

\* resolveHostOutsideTunnel: the candidates are asked in turn until one answers;
\* the servers that get to see the name.
Asked(candidates, answering) ==
    LET answers == {i \in DOMAIN candidates : candidates[i].server \in answering}
    IN IF answers = {} THEN candidates
       ELSE SubSeq(candidates, 1, CHOOSE i \in answers : \A j \in answers : i <= j)

=============================================================================
