--------------------------- MODULE MCConversation ---------------------------
(* Instances of Conversation for TLC. *)
EXTENDS Conversation

\* The second line alone is over a budget of 1.
MCTokens == [i \in Ids |-> IF i = 2 THEN 2 ELSE 1]

\* The first alone is, the second is kept when the first is folded.
MCTokensLive == [i \in Ids |-> IF i = 1 THEN 2 ELSE 1]
=============================================================================
