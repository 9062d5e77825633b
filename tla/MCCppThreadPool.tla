-------------------------- MODULE MCCppThreadPool --------------------------
(* Instances of CppThreadPool for TLC. *)
EXTENDS CppThreadPool, TLC

Symmetry == Permutations(Clients) \cup Permutations(Tasks)

=============================================================================
