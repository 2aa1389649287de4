-------------------------------- MODULE MCDns --------------------------------
(***************************************************************************)
(* Both halves of Remote DNS in one run: a behaviour is either one of the  *)
(* table of fake addresses or one of a connection's queries.               *)
(***************************************************************************)
EXTENDS FakeDns, DnsTcp

VARIABLE part

MCMessages == {<<7, 7>>, <<8>>, <<>>}
MCQueries == {<<7, 7>>, <<8>>}

MCInit == part \in {"table", "connection"} /\ Init /\ DnsInit
MCNext ==
    /\ UNCHANGED part
    /\ \/ part = "table" /\ Next /\ UNCHANGED dnsVars
       \/ part = "connection" /\ DnsNext /\ UNCHANGED vars
MCSpec == MCInit /\ [][MCNext]_<<part, vars, dnsVars>> /\ DnsFairness
=============================================================================
