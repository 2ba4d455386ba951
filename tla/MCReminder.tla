----------------------------- MODULE MCReminder -----------------------------
(* Instances of Reminder for TLC. *)
EXTENDS Reminder

CONSTANTS ann, bob

\* Ann sends the first message, Bob any other.
MCSender == [m \in Messages |-> IF m = 1 THEN ann ELSE bob]
=============================================================================
