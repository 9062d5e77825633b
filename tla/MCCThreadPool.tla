--------------------------- MODULE MCCThreadPool ---------------------------
(* Instances of CThreadPool for TLC: clients and tasks are interchangeable. *)
EXTENDS CThreadPool, TLC

Symmetry == Permutations(Clients) \cup Permutations(Tasks)

=============================================================================
