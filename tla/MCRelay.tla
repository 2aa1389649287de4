------------------------------- MODULE MCRelay -------------------------------
(* Relay with the frames of a server: the shortest, one that needs the buffer *)
(* to itself, and one whose length is out of bounds.                         *)
EXTENDS Relay

MCPayloads == {<<0, 2, 3, 3>>, <<0, 6, 6, 6, 6, 6, 6, 6>>, <<0, 1, 1>>}
=============================================================================
