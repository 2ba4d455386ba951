-------------------------- MODULE ReminderPromise --------------------------
(***************************************************************************)
(* What the kernel promises about a reminder it has taken, with none of    *)
(* the attempts, routes, locks and sweeps that keep the promise            *)
(* (services/tools/reminder.py, module docstring and standing): until it   *)
(* is said or called off its wording and its moment may be changed, its    *)
(* owner may not; it is said once, not before its moment, in the words and *)
(* at the moment it then has; and what has been said or called off stays.  *)
(* Module Reminder implements this specification.                          *)
(***************************************************************************)
EXTENDS Naturals, Sequences

CONSTANTS
  Reminders,  \* the reminders that may be taken
  Owners,     \* the people they are for
  Lines,      \* what they may say
  Moments,    \* when they may be due
  None        \* nobody, and nothing to say

VARIABLES
  stands,  \* where each reminder stands
  terms,   \* whose it is, what it says and when
  said,    \* the lines said for it, in order
  clock    \* the time

vars == <<stands, terms, said, clock>>

Terms   == [owner : Owners, line : Lines, at : Moments]
NoTerms == [owner |-> None, line |-> None, at |-> 0]

Init ==
  /\ stands = [r \in Reminders |-> "unset"]
  /\ terms = [r \in Reminders |-> NoTerms]
  /\ said = [r \in Reminders |-> <<>>]
  /\ clock = 0

\* A reminder is taken, on some terms.
Take(r) ==
  /\ stands[r] = "unset"
  /\ stands' = [stands EXCEPT ![r] = "standing"]
  /\ \E t \in Terms : terms' = [terms EXCEPT ![r] = t]
  /\ UNCHANGED <<said, clock>>

\* Its terms are changed, for the same owner.
Amend(r) ==
  /\ stands[r] = "standing"
  /\ \E t \in Terms : t.owner = terms[r].owner /\ terms' = [terms EXCEPT ![r] = t]
  /\ UNCHANGED <<stands, said, clock>>

\* It is called off: nothing is said of it any more.
CallOff(r) ==
  /\ stands[r] = "standing"
  /\ stands' = [stands EXCEPT ![r] = "called off"]
  /\ UNCHANGED <<terms, said, clock>>

\* Its moment has come, and it is said as it stands.
Say(r) ==
  /\ stands[r] = "standing"
  /\ terms[r].at <= clock
  /\ stands' = [stands EXCEPT ![r] = "said"]
  /\ said' = [said EXCEPT ![r] = Append(@, terms[r].line)]
  /\ UNCHANGED <<terms, clock>>

Pass ==
  /\ clock' = clock + 1
  /\ UNCHANGED <<stands, terms, said>>

Next == Pass \/ \E r \in Reminders : Take(r) \/ Amend(r) \/ CallOff(r) \/ Say(r)

Spec == Init /\ [][Next]_vars
=============================================================================
