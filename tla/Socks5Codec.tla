----------------------------- MODULE Socks5Codec -----------------------------
(***************************************************************************)
(* The SOCKS5 messages: socks5_codec.c.  A message is a sequence of bytes, *)
(* a name one without zeros, an address four bytes or sixteen.             *)
(***************************************************************************)
EXTENDS Integers, Sequences

\* What the C functions return with -1: builders nothing, the parser Malformed.
Nothing   == <<>>
Malformed == [malformed |-> TRUE]

\* Mutant: a byte of the address's header is forgotten.
FitsShort(bytes, cap) == Len(bytes) <= cap + 1

Fits(bytes, cap) == Len(bytes) <= cap

\* A name's length is one byte.
Addressable(domain) == Len(domain) <= 255

\* ATYP, address and port: a name when there is one, else the address.
Target(ip, port, domain) ==
    IF domain # <<>> THEN <<3, Len(domain) % 256>> \o domain \o port
    ELSE IF Len(ip) = 16 THEN <<4>> \o ip \o port
    ELSE <<1>> \o ip \o port

Request(first, ip, port, domain, payload, cap) ==
    LET bytes == first \o Target(ip, port, domain) \o payload IN
    IF Addressable(domain) /\ Fits(bytes, cap) THEN bytes ELSE Nothing

socks5_build_udp_datagram(ip, port, domain, payload, cap) ==
    Request(<<0, 0, 0>>, ip, port, domain, payload, cap)

socks5_build_udp_frame(ip, port, domain, payload, cap) ==
    LET dg == socks5_build_udp_datagram(ip, port, domain, payload, cap - 2) IN
    IF dg = Nothing THEN Nothing
    ELSE <<(Len(dg) \div 256) % 256, Len(dg) % 256>> \o dg

socks5_build_connect_request(ip, port, domain, cap) ==
    Request(<<5, 1, 0>>, ip, port, domain, <<>>, cap)

socks5_build_hello(user, pass, cap) ==
    IF cap < 3 THEN Nothing
    ELSE <<5, 1, IF user # <<>> \/ pass # <<>> THEN 2 ELSE 0>>

socks5_build_auth(user, pass, cap) ==
    LET bytes == <<1, Len(user) % 256>> \o user \o <<Len(pass) % 256>> \o pass IN
    IF Addressable(user) /\ Addressable(pass) /\ Fits(bytes, cap) THEN bytes ELSE Nothing

\* socks5_parse_udp_datagram.  A name that comes first fills the room there is.
socks5_parse_udp_datagram(dg, domain_cap) ==
    LET Parsed(ip, domain, off) ==   \* the port ends at off
          [ip |-> ip, domain |-> domain, port |-> SubSeq(dg, off - 1, off),
           payload |-> SubSeq(dg, off + 1, Len(dg))]
        Room(n) == IF n < domain_cap - 1 THEN n ELSE domain_cap - 1
    IN CASE Len(dg) < 4 -> Malformed
         [] Len(dg) >= 10 /\ dg[4] = 1 -> Parsed(SubSeq(dg, 5, 8), <<>>, 10)
         [] Len(dg) >= 22 /\ dg[4] = 4 -> Parsed(SubSeq(dg, 5, 20), <<>>, 22)
         [] Len(dg) >= 7 /\ dg[4] = 3 ->
              IF Len(dg) < 7 + dg[5] THEN Malformed
              ELSE Parsed(<<>>, SubSeq(dg, 6, 5 + Room(dg[5])), 7 + dg[5])
         [] OTHER -> Malformed

=============================================================================
