--------------------------- MODULE AnswerGuarantee ---------------------------
(***************************************************************************)
(* What the kernel promises about a message it has acknowledged, with none *)
(* of the machinery that keeps the promise (services/memory/intake.py,     *)
(* module docstring): an accepted message is never un-accepted, it ends    *)
(* one way and that end is final, an authenticated message's reply joins   *)
(* the conversation in the same instant it becomes the message's outcome,  *)
(* and only a settled message is ever recorded as delivered.               *)
(* Module Intake implements this specification.                            *)
(***************************************************************************)
EXTENDS Naturals

CONSTANTS
  Messages,   \* the messages shells may send
  Authed,     \* those sent under a live session: they have a conversation
  Replies     \* the replies a message can be settled with, NoReply not among them

NoReply == 0

VARIABLES
  outcome,    \* what has become of each message
  spoken,     \* the messages whose reply stands on the conversation stream
  delivered   \* the messages whose outcome the shell confirmed it displayed

vars == <<outcome, spoken, delivered>>

Unsent    == [state |-> "unsent",    reply |-> NoReply]
Promised  == [state |-> "promised",  reply |-> NoReply]
Abandoned == [state |-> "abandoned", reply |-> NoReply]
Answered  == [state : {"answered"}, reply : Replies]

Final(o) == o = Abandoned \/ o \in Answered

Init ==
  /\ outcome = [m \in Messages |-> Unsent]
  /\ spoken = {}
  /\ delivered = {}

\* A message is acknowledged: from here on an outcome is owed.
Promise(m) ==
  /\ outcome[m] = Unsent
  /\ outcome' = [outcome EXCEPT ![m] = Promised]
  /\ UNCHANGED <<spoken, delivered>>

\* A message is answered, and its reply joins its sender's conversation.
Answer(m) ==
  /\ outcome[m] = Promised
  /\ \E o \in Answered : outcome' = [outcome EXCEPT ![m] = o]
  /\ spoken' = spoken \cup ({m} \cap Authed)
  /\ UNCHANGED delivered

\* The kernel gives up on some messages, all at once.
Abandon(gone) ==
  /\ \A m \in gone : outcome[m] = Promised
  /\ outcome' = [m \in Messages |-> IF m \in gone THEN Abandoned ELSE outcome[m]]
  /\ UNCHANGED <<spoken, delivered>>

\* The shell's receipts for some settled messages are recorded.
Deliver(ids) ==
  /\ \A m \in ids : Final(outcome[m])
  /\ delivered' = delivered \cup ids
  /\ UNCHANGED <<outcome, spoken>>

Next ==
  \/ \E m \in Messages : Promise(m) \/ Answer(m)
  \/ \E ids \in SUBSET Messages : Abandon(ids) \/ Deliver(ids)

Spec == Init /\ [][Next]_vars
=============================================================================
