------------------------------ MODULE MCReasm -------------------------------
(* An instance of Reasm: a and b use one identification; a ends with a     *)
(* piece of length zero, the headers of b are too long to be kept, and d   *)
(* is too large.  The table has two entries for three identifications.     *)
EXTENDS Reasm, TLC

CONSTANTS a, b, c, d

Dgram(key, v6, cuts, long) == [key |-> key, v6 |-> v6, cuts |-> cuts, long |-> long]

MCSent == (a :> Dgram(a, FALSE, <<2, 0>>, FALSE)) @@ (b :> Dgram(a, FALSE, <<2, 1>>, TRUE))
       @@ (c :> Dgram(c, TRUE, <<1, 2>>, FALSE)) @@ (d :> Dgram(d, TRUE, <<3, 1>>, FALSE))

=============================================================================
