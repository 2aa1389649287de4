----------------------------- MODULE MCUdpSess -----------------------------
(* UdpSess with the symmetry of its interchangeable threads and names. *)
EXTENDS UdpSess, TLC

Sym == Permutations(Workers) \cup Permutations(Fds) \cup Permutations(Keys)
         \cup Permutations(Slots)
=============================================================================
