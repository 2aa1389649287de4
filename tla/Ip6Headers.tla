----------------------------- MODULE Ip6Headers ------------------------------
(***************************************************************************)
(* The walk along the extension headers of an IPv6 packet and the          *)
(* reassembled packet without its Fragment header: parse_ipv6,             *)
(* ipv6_find_fragment and ip6_reasm_rebuild of ip_parse.c.  Offsets count  *)
(* from 0 as in the code, the byte at offset o is pkt[o + 1].              *)
(***************************************************************************)
EXTENDS Packets

L4        == {6, 17, 58}
Fragment  == 44
Auth      == 51
Options   == {0, 43, 60}   \* Hop-by-Hop, Routing, Destination
MaxHops   == 8
NoFragment == [fails |-> FALSE]

At(pkt, o) == pkt[o + 1]

\* Mutant: the length of an Authentication header counted like the others'.
ExtLenAuth8(pkt, nh, off) == (At(pkt, off + 1) + 1) * 8

\* hlen of a header of type nh at off.
ExtLen(pkt, nh, off) ==
    IF nh = Auth THEN (At(pkt, off + 1) + 2) * 4 ELSE (At(pkt, off + 1) + 1) * 8

\* May the walk go past the header at off?
Passable(pkt, nh, off) ==
    /\ off + 8 <= Len(pkt)
    /\ nh \in Options \cup {Auth}
    /\ ExtLen(pkt, nh, off) >= 8 /\ off + ExtLen(pkt, nh, off) <= Len(pkt)

IsV6(pkt) == Len(pkt) >= 40 /\ At(pkt, 0) \div 16 = 6

\* Both functions walk in the same way up to a header in stop; prev is where
\* the type of the present header is written.
Walk(pkt, stop) ==
    LET After(w) ==   \* past the header at w.off, unless it is the one looked for
          IF w = Fail \/ w.nh \in stop THEN w
          ELSE IF ~Passable(pkt, w.nh, w.off) THEN Fail
          ELSE [nh |-> At(pkt, w.off), off |-> w.off + ExtLen(pkt, w.nh, w.off), prev |-> w.off]
        walk[hops \in 0..(MaxHops - 1)] ==
          IF hops = 0 THEN [nh |-> At(pkt, 6), off |-> 40, prev |-> 6] ELSE After(walk[hops - 1])
        last == walk[MaxHops - 1]
    IN IF IsV6(pkt) /\ last # Fail /\ last.nh \in stop THEN last ELSE Fail

\* parse_ipv6: the transport protocol and its offset.
parse_ipv6(pkt) == Walk(pkt, L4)

\* ipv6_find_fragment: where it is, what it says, or that there is none.
ipv6_find_fragment(pkt) ==
    LET w == Walk(pkt, L4 \cup {Fragment}) IN
    IF w = Fail THEN Fail
    ELSE IF w.nh # Fragment THEN NoFragment
    ELSE IF w.off + 8 > Len(pkt) THEN Fail
    ELSE LET ff == At(pkt, w.off + 2) * 256 + At(pkt, w.off + 3) IN
         [next_hdr |-> At(pkt, w.off), frag_off |-> (ff \div 8) * 8, mf |-> ff % 2 = 1,
          frag_data_off |-> w.off + 8, pre_frag_len |-> w.off, patch_off |-> w.prev]

MaxLength == 65535   \* of what follows an IPv6 header

\* ip6_reasm_rebuild.
ip6_reasm_rebuild(pre, patch_off, next_hdr, payload, out_cap) ==
    LET length == Len(pre) - 40 + Len(payload) IN
    IF Len(pre) < 40 \/ patch_off >= Len(pre) \/ length > MaxLength
         \/ Len(pre) + Len(payload) > out_cap THEN NoPacket
    ELSE Put(Put(pre, 5, Word(length)), patch_off + 1, <<next_hdr>>) \o payload

\* ip4_reasm_rebuild.
ip4_reasm_rebuild(hdr, payload, out_cap) ==
    LET total == Len(hdr) + Len(payload)
        h == Put(Put(Put(hdr, 3, Word(total % WordRange)), 7, <<0, 0>>), 11, <<0, 0>>)
    IN IF Len(hdr) < 20 \/ total > out_cap THEN NoPacket
       ELSE Put(h, 11, Word(checksum16(h))) \o payload

=============================================================================
