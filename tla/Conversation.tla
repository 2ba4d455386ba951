----------------------------- MODULE Conversation -----------------------------
(***************************************************************************)
(* Short-term memory (services/memory/conversation.py): the stream of what *)
(* was said (conversation_item), the running summary its older part is     *)
(* folded into (conversation_gist), the compression sweep that folds       *)
(* (worker._compress_one, worker._collapse_idle_one,                       *)
(* worker.run_compression_sweep) and the read a reply makes (recent).      *)
(*                                                                         *)
(* Transactions run at READ COMMITTED, so each statement of a fold or of a *)
(* read sees what has committed by then, and is a step of its own.  An     *)
(* item's id is issued by its insert and seen from its commit, which is    *)
(* later: requests, workers and sweeps write on one symbiot's stream at    *)
(* once, and may commit in another order than their ids'.                  *)
(*                                                                         *)
(* What a paragraph of summary keeps is the set of items that went into    *)
(* it: how well the model merges them is not modelled.                     *)
(***************************************************************************)
EXTENDS Naturals, Sequences, FiniteSets, FiniteSetsExt

CONSTANTS
  Symbiots,  \* the people, by id
  Sweeps,    \* threads running the compression sweep, one per kernel process
  Readers,   \* replies and enrichments being composed
  Tokens,    \* each item's token_count
  Budget,    \* verbatim_budget()
  MaxItems,  \* bound on the item ids issued
  None       \* no sweep

Ids == 1 .. MaxItems

\* What a set of items comes to.
Weight(items) == MapThenSumSet(LAMBDA i : Tokens[i], items)

ASSUME SymbiotsAssumption == Symbiots \subseteq Nat \ {0}
ASSUME TokensAssumption == Tokens \in [Ids -> Nat \ {0}]
ASSUME WeightAssumption ==
  \A A \in SUBSET Ids : Weight(A) \in Nat /\ \A B \in SUBSET A : Weight(B) <= Weight(A)
ASSUME BoundsAssumption == Budget \in Nat \ {0} /\ MaxItems \in Nat
ASSUME NoneAssumption == None \notin Sweeps

VARIABLES
  item,     \* conversation_item: a row for each id
  fresh,    \* the items said less than COMPRESS_IDLE_SECONDS ago
  gists,    \* conversation_gist: each symbiot's rows, oldest first
  claimed,  \* the sweep whose transaction holds each symbiot's advisory lock
  sweep,    \* where each sweep's pass is, and what it has read
  reader    \* where each recent() is, and what it has read

vars == <<item, fresh, gists, claimed, sweep, reader>>

\* An item's row: its insert's transaction is open, or it committed (said) or
\* rolled back (undone).
Item == [symbiot : Symbiots \cup {0}, state : {"absent", "open", "said", "undone"}]

AbsentItem == [symbiot |-> 0, state |-> "absent"]

\* A row of conversation_gist, with what the paragraph was made from: the turns
\* this fold added, all that it tells of (told), and, for the properties alone,
\* the items whose writers were still at work when the fold read the tail (open).
Gist == [cutoff_item_id : Ids, turns : (SUBSET Ids) \ {{}},
         told : SUBSET Ids, open : SUBSET Ids]

\* A pass: the trigger it looks for (keep, the tokens the fold leaves verbatim),
\* the symbiot it picked, the number of the gist row it read (0 if none), and
\* the turns it is to fold.
Pass == [step : {"look", "picked", "claimed", "grounded", "folding"},
         keep : {Budget, 0}, symbiot : Symbiots \cup {0}, gist : Nat,
         turns : SUBSET Ids, open : SUBSET Ids]

PassFor(keep) == [step |-> "look", keep |-> keep, symbiot |-> 0, gist |-> 0,
                  turns |-> {}, open |-> {}]

\* A read: the gist row it found (0 if none), what had been said when it found
\* it (for the properties alone), the items left out, and the tail it returns.
Read == [step : {"idle", "grounded", "done"}, symbiot : Symbiots \cup {0}, gist : Nat,
         said : SUBSET Ids, exclude : SUBSET Ids, tail : SUBSET Ids]

IdleRead == [step |-> "idle", symbiot |-> 0, gist |-> 0,
             said |-> {}, exclude |-> {}, tail |-> {}]

Init ==
  /\ item = [i \in Ids |-> AbsentItem]
  /\ fresh = {}
  /\ gists = [s \in Symbiots |-> <<>>]
  /\ claimed = [s \in Symbiots |-> None]
  /\ sweep = [w \in Sweeps |-> PassFor(Budget)]
  /\ reader = [r \in Readers |-> IdleRead]

(***************************************************************************)
(* What one statement reads.                                               *)
(***************************************************************************)

Stream(s, state) == {i \in Ids : item[i].symbiot = s /\ item[i].state = state}

Cutoff(s, k) == IF k = 0 THEN 0 ELSE gists[s][k].cutoff_item_id

Told(s, k) == IF k = 0 THEN {} ELSE gists[s][k].told

\* The newest row's number, 0 when nothing was folded yet.
current_gist(s) == Len(gists[s])

TailPast(s, k) == {i \in Stream(s, "said") : i > Cutoff(s, k)}

Verbatim(s) == TailPast(s, current_gist(s))

\* The size trigger and the silence trigger.
Fat(s)   == Weight(Verbatim(s)) > Budget
Quiet(s) == Verbatim(s) # {} /\ Verbatim(s) \cap fresh = {}

Due(s, keep) == IF keep = 0 THEN Quiet(s) ELSE Fat(s)

\* next_symbiot_to_fold and next_symbiot_to_collapse: the lowest id that is due.
NextDue(s, keep) == Due(s, keep) /\ \A q \in Symbiots : q < s => ~ Due(q, keep)

\* The tail's overflow: a running sum from the newest item back keeps what fits.
pending_for_fold(s, k, keep) ==
  {i \in TailPast(s, k) : Weight({j \in TailPast(s, k) : j >= i}) > keep}

(***************************************************************************)
(* Writers.  A reply, a request or another sweep inserts an item in its    *)
(* own short transaction (record_utterance), which commits or does not.    *)
(***************************************************************************)

record_utterance(s) ==
  \E i \in Ids :
    /\ item[i].state = "absent"
    /\ \A j \in Ids : j < i => item[j].state # "absent"
    /\ item' = [item EXCEPT ![i] = [symbiot |-> s, state |-> "open"]]
    /\ fresh' = fresh \cup {i}
    /\ UNCHANGED <<gists, claimed, sweep, reader>>

Commit(i) ==
  /\ item[i].state = "open"
  /\ item' = [item EXCEPT ![i].state = "said"]
  /\ UNCHANGED <<fresh, gists, claimed, sweep, reader>>

\* The row is gone, its id is not issued again.
Rollback(i) ==
  /\ item[i].state = "open"
  /\ item' = [item EXCEPT ![i].state = "undone"]
  /\ fresh' = fresh \ {i}
  /\ UNCHANGED <<gists, claimed, sweep, reader>>

\* COMPRESS_IDLE_SECONDS have gone by since the item's transaction began.
Age(i) ==
  /\ i \in fresh
  /\ fresh' = fresh \ {i}
  /\ UNCHANGED <<item, gists, claimed, sweep, reader>>

(***************************************************************************)
(* The compression sweep.  A pass looks for a tail over the budget, and    *)
(* when it made no fold, for one gone quiet.  Either way one transaction   *)
(* picks a symbiot, claims the lock, reads the gist, reads the tail, has   *)
(* the model merge them and appends the row.                               *)
(***************************************************************************)

\* _compress_one() or _collapse_idle_one(): False from the first leads to the
\* second, False from the second to a beat's rest.
Otherwise(w) == PassFor(IF sweep[w].keep = Budget THEN 0 ELSE Budget)

\* Mutant: the lock belongs to the session, and outlives a rollback.
StillHeld(w) == claimed

\* The transaction's end frees the lock.
Freed(w) == [s \in Symbiots |-> IF claimed[s] = w THEN None ELSE claimed[s]]

Pick(w) ==
  /\ sweep[w].step = "look"
  /\ \/ \E s \in Symbiots :
          /\ NextDue(s, sweep[w].keep)
          /\ sweep' = [sweep EXCEPT ![w].step = "picked", ![w].symbiot = s]
     \/ /\ \A s \in Symbiots : ~ Due(s, sweep[w].keep)
        /\ sweep' = [sweep EXCEPT ![w] = Otherwise(w)]
  /\ UNCHANGED <<item, fresh, gists, claimed, reader>>

\* Mutant: no lock is taken.
claim_nothing(w, s) ==
  /\ sweep' = [sweep EXCEPT ![w].step = "claimed"]
  /\ UNCHANGED claimed

claim_fold(w, s) ==
  \/ /\ claimed[s] = None
     /\ claimed' = [claimed EXCEPT ![s] = w]
     /\ sweep' = [sweep EXCEPT ![w].step = "claimed"]
  \/ /\ claimed[s] # None
     /\ sweep' = [sweep EXCEPT ![w] = Otherwise(w)]
     /\ UNCHANGED claimed

Claim(w) ==
  /\ sweep[w].step = "picked"
  /\ claim_fold(w, sweep[w].symbiot)
  /\ UNCHANGED <<item, fresh, gists, reader>>

ReadGist(w) ==
  /\ sweep[w].step = "claimed"
  /\ sweep' = [sweep EXCEPT ![w].step = "grounded",
                            ![w].gist = current_gist(sweep[w].symbiot)]
  /\ UNCHANGED <<item, fresh, gists, claimed, reader>>

\* Mutant: the guard against an empty overflow is gone.
ReadAnyTail(w) ==
  /\ sweep[w].step = "grounded"
  /\ LET s == sweep[w].symbiot IN
       sweep' = [sweep EXCEPT ![w].step = "folding",
                              ![w].turns = pending_for_fold(s, sweep[w].gist, sweep[w].keep),
                              ![w].open = Stream(s, "open")]
  /\ UNCHANGED <<item, fresh, gists, claimed, reader>>

\* The overflow may be gone since the pick: then nothing is written.
ReadTail(w) ==
  /\ sweep[w].step = "grounded"
  /\ LET s     == sweep[w].symbiot
         turns == pending_for_fold(s, sweep[w].gist, sweep[w].keep)
     IN \/ /\ turns = {}
           /\ sweep' = [sweep EXCEPT ![w] = Otherwise(w)]
           /\ claimed' = Freed(w)
        \/ /\ turns # {}
           /\ sweep' = [sweep EXCEPT ![w].step = "folding", ![w].turns = turns,
                                     ![w].open = Stream(s, "open")]
           /\ UNCHANGED claimed
  /\ UNCHANGED <<item, fresh, gists, reader>>

\* Mutant: the cutoff is the newest item's id, the kept turns' included.
newest(w, c) ==
  LET s == sweep[w].symbiot IN
  c \in Stream(s, "said") /\ \A i \in Stream(s, "said") : i <= c

\* The cutoff a fold reaches: the id of its last turn, the given one when it has none.
new_cutoff(w, c) ==
  \/ c \in sweep[w].turns /\ \A i \in sweep[w].turns : i <= c
  \/ sweep[w].turns = {} /\ c = Cutoff(sweep[w].symbiot, sweep[w].gist)

\* fold, record_gist and the commit.
Fold(w) ==
  /\ sweep[w].step = "folding"
  /\ LET s == sweep[w].symbiot IN
       \E c \in Ids :
         /\ new_cutoff(w, c)
         /\ gists' = [gists EXCEPT ![s] = Append(@,
              [cutoff_item_id |-> c, turns |-> sweep[w].turns,
               told |-> Told(s, sweep[w].gist) \cup sweep[w].turns,
               open |-> sweep[w].open])]
  /\ claimed' = Freed(w)
  /\ sweep' = [sweep EXCEPT ![w] = PassFor(Budget)]
  /\ UNCHANGED <<item, fresh, reader>>

\* The model call raises, or the process dies: the transaction rolls back and the
\* next pass starts over.  Failing at an earlier statement leaves no more behind.
FoldFails(w) ==
  /\ sweep[w].step = "folding"
  /\ claimed' = Freed(w)
  /\ sweep' = [sweep EXCEPT ![w] = PassFor(Budget)]
  /\ UNCHANGED <<item, fresh, gists, reader>>

(***************************************************************************)
(* recent(): the gist, then the tail past its cutoff, but for the items of *)
(* the message the read is about.                                          *)
(***************************************************************************)

Recall(r, s) ==
  /\ reader[r].step = "idle"
  /\ \E about \in {{}} \cup {{i} : i \in Stream(s, "said")} :
       reader' = [reader EXCEPT ![r] =
         [IdleRead EXCEPT !.step = "grounded", !.symbiot = s, !.gist = current_gist(s),
                          !.said = Stream(s, "said"), !.exclude = about]]
  /\ UNCHANGED <<item, fresh, gists, claimed, sweep>>

\* Mutants: the tail is read past the cutoff as it is by then; and from the
\* cutoff itself on.
TailSince(r) == Verbatim(reader[r].symbiot) \ reader[r].exclude
TailFrom(r) ==
  LET s == reader[r].symbiot IN
  {i \in Stream(s, "said") : i >= Cutoff(s, reader[r].gist)} \ reader[r].exclude

TailRead(r) == TailPast(reader[r].symbiot, reader[r].gist) \ reader[r].exclude

ReadOn(r) ==
  /\ reader[r].step = "grounded"
  /\ reader' = [reader EXCEPT ![r].step = "done", ![r].tail = TailRead(r)]
  /\ UNCHANGED <<item, fresh, gists, claimed, sweep>>

Compose(r) ==
  /\ reader[r].step = "done"
  /\ reader' = [reader EXCEPT ![r] = IdleRead]
  /\ UNCHANGED <<item, fresh, gists, claimed, sweep>>

Writing ==
  \/ \E s \in Symbiots : record_utterance(s)
  \/ \E i \in Ids : Commit(i) \/ Rollback(i) \/ Age(i)

Sweeping(w) ==
  \/ Pick(w) \/ Claim(w) \/ ReadGist(w) \/ ReadTail(w) \/ Fold(w) \/ FoldFails(w)

Reading(r) == (\E s \in Symbiots : Recall(r, s)) \/ ReadOn(r) \/ Compose(r)

Next == Writing \/ (\E w \in Sweeps : Sweeping(w)) \/ (\E r \in Readers : Reading(r))

Spec == Init /\ [][Next]_vars

\* Writers' transactions end, time passes, a sweep keeps taking steps, and a
\* fold that is tried again and again goes through at some try.
Fairness ==
  /\ WF_vars(\E i \in Ids : Commit(i) \/ Rollback(i))
  /\ WF_vars(\E i \in Ids : Age(i))
  /\ \A w \in Sweeps : WF_vars(Sweeping(w)) /\ SF_vars(Fold(w))

FairSpec == Spec /\ Fairness

(***************************************************************************)
(* Properties.                                                             *)
(***************************************************************************)

\* The tables hold rows of their columns' types, every row of conversation_gist
\* was made from at least one turn, and the sweeps and readers hold what their
\* locals may (0014_conversation.sql, the `if not turns` guards of the sweep).
TypeOK ==
  /\ item \in [Ids -> Item]
  /\ fresh \subseteq Ids
  /\ gists \in [Symbiots -> Seq(Gist)]
  /\ claimed \in [Symbiots -> Sweeps \cup {None}]
  /\ sweep \in [Sweeps -> Pass]
  /\ reader \in [Readers -> Read]

\* No turn is folded twice, and each fold moves its symbiot's cutoff forward: the
\* exactly-once of record_gist, with several processes sweeping.
FoldedOnce ==
  \A s \in Symbiots : \A k \in DOMAIN gists[s] : \A j \in 1 .. k - 1 :
    /\ gists[s][j].cutoff_item_id < gists[s][k].cutoff_item_id
    /\ gists[s][j].turns \cap gists[s][k].turns = {}

PassedOver(s) == UNION {gists[s][k].open : k \in DOMAIN gists[s]}

\* Everything said up to the current cutoff went into the current summary, by one
\* fold or another, except what was still being written when a fold read the tail.
NothingDropped ==
  \A s \in Symbiots :
    {i \in Stream(s, "said") : i <= Cutoff(s, current_gist(s))}
      \subseteq Told(s, current_gist(s)) \cup PassedOver(s)

\* What a reply reads counts no turn twice, in the summary and in the tail, though
\* the two are read by two statements and folds commit in between (recent).
NothingTwice ==
  \A r \in Readers : reader[r].step = "done" =>
    Told(reader[r].symbiot, reader[r].gist) \cap reader[r].tail = {}

\* What a reply reads covers everything said by the time it began to read, save
\* the message it is about and what a fold passed over while it was being written.
NothingMissedButOpen ==
  \A r \in Readers : reader[r].step = "done" =>
    reader[r].said \subseteq
      Told(reader[r].symbiot, reader[r].gist) \cup reader[r].tail
        \cup reader[r].exclude \cup PassedOver(reader[r].symbiot)

\* What a reply reads covers everything said by the time it began to read, save
\* the message it is about: "never a hole in the memory" (recent's docstring).
NothingMissed ==
  \A r \in Readers : reader[r].step = "done" =>
    reader[r].said \subseteq
      Told(reader[r].symbiot, reader[r].gist) \cup reader[r].tail \cup reader[r].exclude

\* Whatever is said ends up behind its symbiot's cutoff: a tail over the budget is
\* trimmed and one gone quiet collapses, whichever symbiot is picked first, though
\* two sweeps get in each other's way and folds fail (run_compression_sweep).
EndsUpFolded ==
  \A i \in Ids : (item[i].state = "said") ~>
    (\E s \in Symbiots : item[i].symbiot = s /\ i <= Cutoff(s, current_gist(s)))
===============================================================================
