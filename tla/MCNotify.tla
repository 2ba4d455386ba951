------------------------------- MODULE MCNotify -------------------------------
(* A bounded instance of Notify for TLC. *)
EXTENDS Notify, TLC

Alike == Permutations(Symbiots) \cup Permutations(Browsers) \cup Permutations(Threads)
=============================================================================
