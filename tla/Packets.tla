------------------------------ MODULE Packets -------------------------------
(***************************************************************************)
(* The packets the engine writes to the TUN: checksum.c, tcp_packet.c and  *)
(* icmp_packet.c, with parse_ipv4 of ip_parse.c.  A packet is a sequence of *)
(* bytes.  Numbers of 32 bits are passed as their four bytes: nothing is   *)
(* computed with them here.                                                *)
(***************************************************************************)
EXTENDS Integers, Sequences, SequencesExt

TunMtu == 4096
NoPacket == <<>>                 \* a builder returned -1
Fail     == [fails |-> TRUE]     \* a parser returned -1

Word(n) == <<n \div 256, n % 256>>
Zeros(n) == [i \in 1..n |-> 0]
From(s, i) == SubSeq(s, i, Len(s))
Put(s, i, bytes) == SubSeq(s, 1, i - 1) \o bytes \o From(s, i + Len(bytes))

-----------------------------------------------------------------------------
(* checksum.c                                                              *)

\* accum_swapped: words of 16 bits with the low byte first, a last odd byte
\* standing for itself.
accum_swapped(data, sum) ==
    LET acc[n \in 0..Len(data)] ==
          IF n = 0 THEN sum
          ELSE acc[n - 1] + (IF n % 2 = 1 THEN data[n] ELSE 256 * data[n])
    IN acc[Len(data)]

WordRange == 65536

\* Carries are added until none is left.
Folded(sum) ==
    LET fold[s \in Nat] ==
          IF s < WordRange THEN s ELSE fold[(s % WordRange) + (s \div WordRange)]
    IN fold[sum]

\* checksum_finish: complemented, and the bytes in network order.
checksum_finish(sum) ==
    LET res == 65535 - (Folded(sum) % 65536) IN (res % 256) * 256 + res \div 256

checksum16(data) == checksum_finish(accum_swapped(data, 0))

\* The pseudo-header: tcpudp_checksum4 and tcpudp_checksum6.
Pseudo(v6, saddr, daddr, proto, len) ==
    saddr \o daddr \o (IF v6 THEN <<0, 0>> \o Word(len) \o <<0, 0, 0, proto>>
                             ELSE <<0, proto>> \o Word(len))

transport_checksum(v6, saddr, daddr, proto, data) ==
    checksum_finish(accum_swapped(data,
        accum_swapped(Pseudo(v6, saddr, daddr, proto, Len(data)), 0)))

-----------------------------------------------------------------------------
(* IP headers as every builder writes them.                                *)

Ip4Header(total, proto, saddr, daddr) ==
    LET h == <<69, 0>> \o Word(total) \o <<0, 0, 0, 0, 64, proto, 0, 0>> \o saddr \o daddr
    IN Put(h, 11, Word(checksum16(h)))

Ip6Header(length, proto, hops, saddr, daddr) ==
    <<96, 0, 0, 0>> \o Word(length) \o <<proto, hops>> \o saddr \o daddr

IpHeader(v6, length, proto, saddr, daddr) ==
    IF v6 THEN Ip6Header(length, proto, 64, saddr, daddr)
          ELSE Ip4Header(20 + length, proto, saddr, daddr)

\* A header of the transport layer with its checksum at byte at.
Summed(v6, saddr, daddr, proto, seg, at) ==
    Put(seg, at, Word(transport_checksum(v6, saddr, daddr, proto, seg)))

HeaderLen(v6) == IF v6 THEN 40 ELSE 20

-----------------------------------------------------------------------------
(* tcp_packet.c                                                            *)

tcp_build_segment(v6, saddr, daddr, ports, seq, ack, flags, payload, win, out_cap) ==
    LET total == HeaderLen(v6) + 20 + Len(payload)
        seg == ports \o seq \o ack \o <<80, flags>> \o Word(win) \o <<0, 0, 0, 0>> \o payload
    IN IF total > out_cap \/ total > TunMtu THEN NoPacket
       ELSE IpHeader(v6, Len(seg), 6, saddr, daddr) \o Summed(v6, saddr, daddr, 6, seg, 17)

tcp_build_synack(v6, saddr, daddr, ports, isn, ack, win, mss, wscale, out_cap) ==
    LET seg == ports \o isn \o ack \o <<128, 18>> \o Word(win) \o <<0, 0, 0, 0>>
                 \o <<2, 4>> \o Word(mss) \o <<1, 1, 3, 3, wscale, 0, 0, 0>>
    IN IF HeaderLen(v6) + 32 > out_cap THEN NoPacket
       ELSE IpHeader(v6, 32, 6, saddr, daddr) \o Summed(v6, saddr, daddr, 6, seg, 17)

udp_build_packet(v6, saddr, daddr, ports, payload, out_cap) ==
    LET seg == ports \o Word(8 + Len(payload)) \o <<0, 0>> \o payload
        total == HeaderLen(v6) + Len(seg)
    IN IF total > TunMtu \/ total > out_cap THEN NoPacket
       ELSE IpHeader(v6, Len(seg), 17, saddr, daddr) \o Summed(v6, saddr, daddr, 17, seg, 7)

OptionLen(opts, o) == opts[o + 1]

\* tcp_parse_window_scale: the last such option before the end of the list or
\* an option of no length.
tcp_parse_window_scale(opts) ==
    LET After(w) ==   \* the option at w.o is looked at
          IF w.o + 1 > Len(opts) \/ opts[w.o] = 0 THEN w
          ELSE IF opts[w.o] = 1 THEN [w EXCEPT !.o = @ + 1]
          ELSE [o |-> IF OptionLen(opts, w.o) < 2 THEN Len(opts) + 1
                      ELSE w.o + OptionLen(opts, w.o),
                ws |-> IF opts[w.o] = 3 /\ w.o + 2 <= Len(opts) THEN opts[w.o + 2] ELSE w.ws]
        walk[n \in 0..Len(opts)] ==
          IF n = 0 THEN [o |-> 1, ws |-> 0] ELSE After(walk[n - 1])
    IN walk[Len(opts)].ws

-----------------------------------------------------------------------------
(* icmp_packet.c                                                           *)

icmp4_build_echo_reply(req, ihl, saddr, daddr, out_cap) ==
    IF ihl < 20 \/ ihl + 8 > Len(req) \/ Len(req) > out_cap \/ Len(req) > TunMtu THEN NoPacket
    ELSE LET h == Put(Put(Put(SubSeq(req, 1, ihl), 13, saddr \o daddr), 9, <<64>>), 11, <<0, 0>>)
             m == Put(Put(From(req, ihl + 1), 1, <<0>>), 3, <<0, 0>>)
         IN Put(h, 11, Word(checksum16(h))) \o Put(m, 3, Word(checksum16(m)))

icmp6_build_echo_reply(req, saddr, daddr, out_cap) ==
    IF Len(req) < 48 \/ Len(req) > out_cap \/ Len(req) > TunMtu THEN NoPacket
    ELSE LET m == Put(Put(From(req, 41), 1, <<129>>), 3, <<0, 0>>)
         IN Put(Put(SubSeq(req, 1, 40), 9, saddr \o daddr), 8, <<64>>)
              \o Summed(TRUE, saddr, daddr, 58, m, 3)

icmp6_build_na(target, from, out_cap) ==
    IF out_cap < 64 THEN NoPacket
    ELSE Ip6Header(24, 58, 255, target, from)
           \o Summed(TRUE, target, from, 58, <<136, 0, 0, 0, 96, 0, 0, 0>> \o target, 3)

-----------------------------------------------------------------------------
\* parse_ipv4.
parse_ipv4(pkt) ==
    LET ihl == (pkt[1] % 16) * 4 IN
    IF Len(pkt) < 20 THEN Fail
    ELSE IF pkt[1] \div 16 # 4 \/ ihl < 20 \/ ihl > Len(pkt) THEN Fail
    ELSE [proto |-> pkt[10], ihl |-> ihl,
          saddr |-> SubSeq(pkt, 13, 16), daddr |-> SubSeq(pkt, 17, 20)]

=============================================================================
