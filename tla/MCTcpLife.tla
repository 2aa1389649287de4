----------------------------- MODULE MCTcpLife -----------------------------
(* TcpLife with the symmetry of its interchangeable threads and names. *)
EXTENDS TcpLife, TLC

Sym == Permutations(Workers) \cup Permutations(Fds) \cup Permutations(Keys) \cup Permutations(Hosts)
         \cup Permutations(Slots)
=============================================================================
