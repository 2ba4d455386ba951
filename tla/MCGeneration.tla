----------------------------- MODULE MCGeneration -----------------------------
(* A bounded instance of Generation for TLC. *)
EXTENDS Generation

\* A prompt that fits all windows but the narrowest, one with no context to condense, and
\* one whose context is condensed for every window.
MCPrompts == {[fixed |-> 1, context |-> 1], [fixed |-> 2, context |-> 0],
              [fixed |-> 2, context |-> 2]}

\* The last of them alone.
MCHeavy == {[fixed |-> 2, context |-> 2]}

\* The one request of the two that runs while none overlap: they are alike.
First == CHOOSE r \in Requests : TRUE

\* Bounds: requests overlap only with no work running, on a cloud box, about one
\* model and the flagship; only then is there a third write, and work is spawned
\* before the second.
Apart ==
  /\ overlap' =>
       /\ ~mode /\ \A c \in Calls : call'[c].pc = "idle"
       /\ \A x \in Added : store'.added[x] \in {None, [provider |-> "google", window |-> 1]}
       /\ \A r \in Requests : request'[r].name \in {None, "pro"} \cup Added
       /\ store'.role \in {"pro"} \cup Added
  /\ ~overlap' =>
       /\ writes' <= 2
       /\ \A r \in Requests : request'[r].pc # "idle" =>
            r = First /\ (writes <= 1 \/ request[r].pc # "idle")
  /\ \A c \in Calls : call[c].pc = "idle" /\ call'[c].pc = "catalog" => writes <= 1
=============================================================================
