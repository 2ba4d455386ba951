------------------------------ MODULE MCIntake ------------------------------
(* An instance of Intake for TLC. *)
EXTENDS Intake

\* The shells read and confirm the first message only; of the second nothing is read,
\* so the workers' and the sweeps' steps over the two take the room there is.
ShellsWatchOne ==
  \A m \in Messages \ {1} :
    shown'[m] = shown[m] /\ intake'[m].delivered = intake[m].delivered
=============================================================================
