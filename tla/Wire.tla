-------------------------------- MODULE Wire ---------------------------------
(***************************************************************************)
(* The pure functions at the edges of the engine against what the other    *)
(* side of each wire reads: packets to and from the Apps' TCP/IP stack,    *)
(* messages to the SOCKS5 server, routes and DNS servers given to Android. *)
(*                                                                         *)
(* A behaviour picks a subject and makes an input for it grow, element by  *)
(* element; every property looks at the present input, cut and laid out in *)
(* every way.                                                              *)
(***************************************************************************)
EXTENDS Ip6Headers, Socks5Codec, Routes, FiniteSetsExt

CONSTANTS
    Bytes,        \* the bytes of a payload
    Chunks,       \* lengths of the parts of a name
    MaxInput      \* bound: the elements of each subject's input

VARIABLES
    subject,
    input

wireVars == <<subject, input>>

Options4  == {"nop", "mss", "scale2", "scale7", "end", "bad", "cut"}
Listed(ip, literal, first) == [ip |-> ip, literal |-> literal, first |-> first]
Servers   == {Listed("a", TRUE, 0), Listed("b", TRUE, 8193), Listed("l", TRUE, 65152),
              Listed("n", FALSE, 0)}

Alphabet == [headers |-> {"hop", "dest", "auth"}, payload |-> Bytes, options |-> Options4,
             name |-> Chunks, block |-> 0..255, servers |-> Servers]

\* A chain of headers is no longer than an IPv6 packet, a payload fits the MTU.
ASSUME WireAssumption ==
    /\ Bytes \subseteq 0..255 /\ Chunks \subseteq Nat
    /\ MaxInput \in [DOMAIN Alphabet -> Nat]
    /\ MaxInput.headers <= 4000 /\ MaxInput.payload <= 4000

WireInit == subject \in DOMAIN Alphabet /\ input = <<>>

\* Nothing follows an option that is cut off.
GoesOn == subject = "options" /\ input # <<>> => Last(input) # "cut"

Grow(e) ==
    /\ Len(input) < MaxInput[subject] /\ GoesOn
    /\ input' = Append(input, e) /\ UNCHANGED subject

WireNext == \E e \in Alphabet[subject] : Grow(e)

WireSpec == WireInit /\ [][WireNext]_wireVars

WireTypeOK == subject \in DOMAIN Alphabet /\ input \in Seq(Alphabet[subject])

-----------------------------------------------------------------------------
(* Headers and options as a sender lays them out.                          *)

Type == [hop |-> 0, dest |-> 60, auth |-> Auth, frag |-> Fragment]
Body == [hop |-> <<0>> \o Zeros(6), dest |-> <<1>> \o Zeros(14), auth |-> <<1>> \o Zeros(10),
         frag |-> <<0, 0, 1, 9, 9, 9, 9>>]

TypeAt(kinds, i) == IF i <= Len(kinds) THEN Type[kinds[i]] ELSE 17
Chain(kinds) == FlattenSeq([i \in DOMAIN kinds |-> <<TypeAt(kinds, i + 1)>> \o Body[kinds[i]]])
Chained(kinds) ==
    LET rest == Chain(kinds) \o <<1, 2, 3, 4, 5, 6, 7, 8>>
    IN Ip6Header(Len(rest), TypeAt(kinds, 1), 64, Zeros(16), Zeros(16)) \o rest

\* What is read of a packet with these headers that is cut off behind its n-th
\* byte, ...
CutRead(kinds, n) ==
    LET p   == parse_ipv6(SubSeq(Chained(kinds), 1, n))
        end == 40 + Len(Chain(kinds))
    IN IF Len(kinds) < MaxHops /\ n >= end THEN p # Fail /\ p.nh = 17 /\ p.off = end ELSE p = Fail

\* ... and of one with a Fragment header as the i-th.
FragmentRead(kinds, i) ==
    LET whole == Chained(kinds)
        cut   == Chained(InsertAt(kinds, i, "frag"))
        f     == ipv6_find_fragment(cut)
    IN IF i > MaxHops THEN f = Fail
       ELSE /\ f \notin {Fail, NoFragment} /\ f.mf /\ f.frag_off = 0
            /\ ip6_reasm_rebuild(SubSeq(cut, 1, f.pre_frag_len), f.patch_off, f.next_hdr,
                                 From(cut, f.frag_data_off + 1), Len(whole)) = whole

\* A chain of up to seven headers is followed to the transport header, in a
\* packet cut off anywhere; a Fragment header at any place in it is found, and
\* the packet rebuilt without it is the packet that was fragmented.
ChainsRead ==
    subject = "headers" =>
      /\ \A n \in 0..Len(Chained(input)) : CutRead(input, n)
      /\ ipv6_find_fragment(Chained(input)) = IF Len(input) < MaxHops THEN NoFragment ELSE Fail
      /\ \A i \in 1..(Len(input) + 1) : FragmentRead(input, i)

Option == [nop |-> <<1>>, mss |-> <<2, 4, 5, 180>>, scale2 |-> <<3, 3, 2>>, scale7 |-> <<3, 3, 7>>,
           end |-> <<0>>, bad |-> <<8, 1>>, cut |-> <<3, 3>>]

\* The options a receiver takes notice of: those in front of the end, of a bad
\* one or of one cut off.
Standing ==
    LET stops == {i \in DOMAIN input : input[i] \in {"end", "bad", "cut"}}
    IN IF stops = {} THEN input ELSE SubSeq(input, 1, Min(stops) - 1)

\* The App's window scale is that of its last option for it.
OptionsRead ==
    subject = "options" =>
      LET scales == {i \in DOMAIN Standing : Standing[i] \in {"scale2", "scale7"}}
      IN tcp_parse_window_scale(FlattenSeq([i \in DOMAIN input |-> Option[input[i]]]))
           = IF scales = {} THEN 0 ELSE Option[Standing[Max(scales)]][3]

-----------------------------------------------------------------------------
(* Packets as a receiver checks them.                                      *)

\* What a receiver adds up, and that its ones' complement sum is all ones.
WordSum(bytes) ==
    LET sum[n \in 0..Len(bytes)] ==
          IF n = 0 THEN 0
          ELSE sum[n - 1] + (IF n % 2 = 1 THEN 256 * bytes[n] ELSE bytes[n])
    IN sum[Len(bytes)]

Verifies(bytes) == WordSum(bytes) > 0 /\ WordSum(bytes) % 65535 = 0

Source(v6) == IF v6 THEN <<253, 0>> \o Zeros(13) \o <<2>> ELSE <<10, 8, 0, 2>>
Dest(v6)   == IF v6 THEN [i \in 1..16 |-> 255] ELSE <<255, 255, 255, 255>>

\* A packet whose header says its length, parses and verifies, and whose
\* segment verifies too.
GoodPacket(v6, saddr, daddr, proto, pkt) ==
    LET h == HeaderLen(v6)
        seg == From(pkt, h + 1)
    IN /\ IF v6 THEN /\ parse_ipv6(pkt) # Fail
                     /\ parse_ipv6(pkt).nh = proto /\ parse_ipv6(pkt).off = h
                     /\ SubSeq(pkt, 5, 6) = Word(Len(seg))
                     /\ SubSeq(pkt, 9, 24) = saddr /\ SubSeq(pkt, 25, 40) = daddr
                ELSE /\ parse_ipv4(pkt) = [proto |-> proto, ihl |-> h,
                                           saddr |-> saddr, daddr |-> daddr]
                     /\ SubSeq(pkt, 3, 4) = Word(Len(pkt)) /\ Verifies(SubSeq(pkt, 1, h))
       /\ Verifies(Pseudo(v6, saddr, daddr, proto, Len(seg)) \o seg)

\* Built with just the room it needs, a packet is good; with less it is not
\* built.
Good(v6, proto, Build(_)) ==
    LET pkt == Build(TunMtu) IN
    /\ GoodPacket(v6, Source(v6), Dest(v6), proto, pkt)
    /\ Build(Len(pkt)) = pkt /\ Build(Len(pkt) - 1) = NoPacket

Padded(n) == SubSeq(input \o Zeros(n), 1, n)

TcpGood(v6) ==
    /\ LET Build(cap) == tcp_build_segment(v6, Source(v6), Dest(v6), <<1, 187, 156, 64>>, Padded(4),
                                          <<255, 255, 255, 255>>, 24, input, 64, cap)
       IN Good(v6, 6, Build)
    /\ LET Build(cap) == tcp_build_synack(v6, Source(v6), Dest(v6), <<1, 187, 156, 64>>, Padded(4),
                                          <<255, 255, 255, 255>>, 64, 1400, 10, cap)
       IN /\ Good(v6, 6, Build)
          /\ tcp_parse_window_scale(From(Build(TunMtu), HeaderLen(v6) + 21)) = 10

UdpGood(v6) ==
    LET Build(cap) == udp_build_packet(v6, Source(v6), Dest(v6), <<0, 53, 156, 64>>, input, cap)
    IN Good(v6, 17, Build)

\* An echo request from Dest to Source, with words of IPv4 options.
Echo4(words) ==
    <<69 + words, 0>> \o Word(28 + 4 * words + Len(input)) \o <<0, 0, 0, 0, 9, 1, 0, 0>>
      \o Dest(FALSE) \o Source(FALSE) \o Zeros(4 * words) \o <<8, 0, 1, 2, 3, 4, 5, 6>> \o input
Echo6 == Ip6Header(8 + Len(input), 58, 9, Dest(TRUE), Source(TRUE))
           \o <<128, 0, 1, 2, 3, 4, 5, 6>> \o input

Icmp4Good(words) ==
    LET ihl == 20 + 4 * words
        r == icmp4_build_echo_reply(Echo4(words), ihl, Source(FALSE), Dest(FALSE), TunMtu)
    IN /\ parse_ipv4(r) = [proto |-> 1, ihl |-> ihl, saddr |-> Source(FALSE), daddr |-> Dest(FALSE)]
       /\ Verifies(SubSeq(r, 1, ihl)) /\ Verifies(From(r, ihl + 1))
       /\ From(r, ihl + 5) = From(Echo4(words), ihl + 5)

Icmp6Good ==
    /\ LET Build(cap) == icmp6_build_echo_reply(Echo6, Source(TRUE), Dest(TRUE), cap)
       IN Good(TRUE, 58, Build) /\ From(Build(TunMtu), 45) = From(Echo6, 45)
    /\ LET Build(cap) == icmp6_build_na(Source(TRUE), Dest(TRUE), cap)
       IN GoodPacket(TRUE, Source(TRUE), Dest(TRUE), 58, Build(64)) /\ Build(63) = NoPacket

RebuiltGood(words) ==
    LET r == ip4_reasm_rebuild(SubSeq(Echo4(words), 1, 20 + 4 * words), input, TunMtu)
    IN /\ Verifies(SubSeq(r, 1, 20 + 4 * words)) /\ SubSeq(r, 3, 4) = Word(Len(r))
       /\ From(r, 21 + 4 * words) = input

\* Whatever a packet carries, its lengths and checksums are those a receiver
\* computes (checksum.c and every builder; also ip4_reasm_rebuild).
PacketsVerify ==
    subject = "payload" =>
      /\ \A v6 \in BOOLEAN : TcpGood(v6) /\ UdpGood(v6)
      /\ \A words \in 0..2 : Icmp4Good(words) /\ RebuiltGood(words)
      /\ Icmp6Good

\* The checksum of any word among others verifies: one that makes the sum carry
\* when a carry is added back, too.
SumsVerify ==
    subject = "block" /\ input # <<>> =>
      \A b \in 0..255 :
         LET data == <<input[1], b, 255, 255, 255, 255>>
         IN Verifies(data \o Word(checksum16(data)))

\* Packets of the Apps' stack are read as they are laid out, ours as they are
\* meant.
PacketsRight == ChainsRead /\ OptionsRead /\ PacketsVerify /\ SumsVerify

-----------------------------------------------------------------------------
(* Messages as the SOCKS5 server reads them, and its own as we do.         *)

Name == FlattenSeq([i \in DOMAIN input |-> [j \in 1..input[i] |-> 97]])

\* ATYP, address and port of a request, by the length the address itself gives.
ReadTarget(bytes) ==
    LET end == CASE bytes[1] = 1 -> 5 [] bytes[1] = 4 -> 17 [] bytes[1] = 3 -> 2 + bytes[2]
    IN [address |-> SubSeq(bytes, IF bytes[1] = 3 THEN 3 ELSE 2, end),
        port |-> SubSeq(bytes, end + 1, end + 2), rest |-> From(bytes, end + 3)]

Given(name, ip) == IF name # <<>> THEN name ELSE ip

DatagramRead(name, ip, port, payload) ==
    LET dg == socks5_build_udp_datagram(ip, port, name, payload, 262 + Len(payload))
        frame == socks5_build_udp_frame(ip, port, name, payload, Len(dg) + 2)
        back == socks5_parse_udp_datagram(dg, 256)
    IN IF Len(name) > 255 THEN dg = Nothing
       ELSE /\ ReadTarget(From(dg, 4))
                  = [address |-> Given(name, ip), port |-> port, rest |-> payload]
            /\ Given(name, back.ip) = Given(name, ip) /\ back.domain = name
            /\ back.port = port /\ back.payload = payload
            /\ frame = Word(Len(dg)) \o dg
            /\ socks5_build_udp_frame(ip, port, name, payload, Len(dg) + 1) = Nothing
            /\ \A n \in 0..(Len(dg) - Len(payload) - 1) :
                  socks5_parse_udp_datagram(SubSeq(dg, 1, n), 256) = Malformed

ConnectRead(name, ip, port) ==
    LET req == socks5_build_connect_request(ip, port, name, 262)
    IN IF Len(name) > 255 THEN req = Nothing
       ELSE /\ ReadTarget(From(req, 4))
                  = [address |-> Given(name, ip), port |-> port, rest |-> <<>>]
            /\ socks5_build_connect_request(ip, port, name, Len(req) - 1) = Nothing

AuthRead(user, pass) ==
    LET msg == socks5_build_auth(user, pass, 513) IN
    IF Len(user) > 255 \/ Len(pass) > 255 THEN msg = Nothing
    ELSE /\ SubSeq(msg, 3, 2 + msg[2]) = user
         /\ SubSeq(msg, 4 + msg[2], 3 + msg[2] + msg[3 + msg[2]]) = pass
         /\ Len(msg) = 3 + msg[2] + msg[3 + msg[2]]
         /\ socks5_build_auth(user, pass, Len(msg) - 1) = Nothing

\* A name of any length reaches the server whole or is refused, nothing is
\* written past the room there is, and a datagram cut off is not taken for one
\* (socks5_codec.c).
SocksRead ==
    subject = "name" =>
      /\ \A ip \in {<<8, 8, 4, 4>>, [i \in 1..16 |-> i]} :
            /\ ConnectRead(Name, ip, <<0, 80>>)
            /\ \A payload \in {<<>>, <<5>>, [i \in 1..300 |-> 3]} :
                  DatagramRead(Name, ip, <<1, 187>>, payload)
      /\ AuthRead(Name, <<1>>) /\ AuthRead(<<>>, Name)

-----------------------------------------------------------------------------
(* What Android is given.                                                  *)

\* LanRoutes.kt:7: what is to stay outside the tunnel.
Local(a, b) == \/ a \in {0, 10, 127} \cup 224..255
               \/ a = 169 /\ b = 254
               \/ a = 172 /\ b \in 16..31
               \/ a = 192 /\ b = 168

\* Every public IPv4 block, the fake addresses' among them, is in one route and
\* no local block is in any.
RoutesExact ==
    subject = "block" /\ input # <<>> =>
      \A b \in 0..255 :
         Cardinality({r \in V4 : Covers(r, input[1] * 256 + b)}) = IF Local(input[1], b) THEN 0 ELSE 1

Usable(servers) == {s.ip : s \in ToSet(servers)} \ {"l", "n"}

\* Whichever servers answer, the server's name is shown to a configured DNS
\* server only when none of the network's own answers, to no server twice, and
\* it is resolved whenever some usable server knows it.
InOrder(underlying, configured, answering) ==
    LET usable == Usable(underlying) \cup Usable(configured)
        asked == Asked(plan(underlying, configured), answering)
        names == [i \in DOMAIN asked |-> asked[i].server]
    IN /\ IsInjective(names) /\ ToSet(names) \subseteq usable
       /\ (\E i \in DOMAIN asked : asked[i].fallback) => Usable(underlying) \cap answering = {}
       /\ usable \cap answering # {} => asked # <<>> /\ Last(names) \in answering

AskedInOrder ==
    subject = "servers" =>
      \A k \in 0..Len(input), answering \in SUBSET {"a", "b", "l", "n"} :
         InOrder(SubSeq(input, 1, k), From(input, k + 1), answering)

\* What is kept outside the tunnel: the local network, all of it and nothing
\* else, and the look-up of the server's name, shown to as few as can be.
OutsideExact == RoutesExact /\ AskedInOrder

=============================================================================
