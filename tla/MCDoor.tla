-------------------------------- MODULE MCDoor --------------------------------
(* A bounded instance of Door for TLC. *)
EXTENDS Door, TLC

Alike == Permutations(Symbiots) \cup Permutations(Threads)
=============================================================================
