-------------------------- MODULE ConversationProofs --------------------------
(***************************************************************************)
(* Theorems about Conversation, for any number of symbiots, sweeps,        *)
(* readers and items, of any sizes.                                        *)
(***************************************************************************)
EXTENDS Conversation, TLAPS

(***************************************************************************)
(* The inductive invariant.                                                *)
(***************************************************************************)

\* Ids are issued in order, and an issued one belongs to a symbiot.
Issued(i) == item[i].state # "absent"

IssuedInOrder ==
  /\ \A i, j \in Ids : i < j /\ Issued(j) => Issued(i)
  /\ \A i \in Ids : ~ Issued(i) => item[i].symbiot = 0

\* A row of the history, and how it continues an earlier one.
RowOK(g) ==
  /\ Issued(g.cutoff_item_id)
  /\ \A i \in g.told : i <= g.cutoff_item_id

Continues(g, h) ==
  /\ g.cutoff_item_id < h.cutoff_item_id
  /\ \A i \in h.turns : g.cutoff_item_id < i
  /\ g.told \subseteq h.told
  /\ \A i \in g.turns : i <= g.cutoff_item_id

HistoryOK ==
  \A s \in Symbiots :
    /\ \A k \in DOMAIN gists[s] : RowOK(gists[s][k])
    /\ \A j, k \in DOMAIN gists[s] : j < k => Continues(gists[s][j], gists[s][k])
    /\ \A k \in DOMAIN gists[s] : gists[s][k].turns \subseteq gists[s][k].told

\* What has been said, or is being written, of a symbiot's stream.
Live(s) == {i \in Ids : item[i].symbiot = s /\ item[i].state \in {"said", "open"}}

\* Everything live up to the cutoff was folded or passed over.
Accounted ==
  \A s \in Symbiots : \A i \in Live(s) :
    i <= Cutoff(s, current_gist(s)) => i \in Told(s, current_gist(s)) \cup PassedOver(s)

Holding == {"claimed", "grounded", "folding"}

\* A sweep past its claim holds the lock, and so has read the newest row.
PassOK(w) ==
  LET p == sweep[w] IN
  /\ p.step # "look" => p.symbiot \in Symbiots
  /\ p.step \in Holding => claimed[p.symbiot] = w
  /\ p.step \in {"grounded", "folding"} => p.gist = Len(gists[p.symbiot])
  /\ p.step = "folding" =>
       /\ p.turns # {}
       /\ \A i \in p.turns : Issued(i) /\ Cutoff(p.symbiot, p.gist) < i
       /\ \A i \in Live(p.symbiot) : \A j \in p.turns :
            i <= j /\ Cutoff(p.symbiot, p.gist) < i => i \in p.turns \cup p.open

\* A read's gist row is there to stay, and accounts for what had been said up to
\* its cutoff; its tail accounts for what is past it.
ReadOK(r) ==
  LET p == reader[r] IN
  /\ p.step # "idle" =>
       /\ p.symbiot \in Symbiots
       /\ p.gist \in 0 .. Len(gists[p.symbiot])
       /\ \A i \in p.said :
            /\ i \in Stream(p.symbiot, "said")
            /\ i <= Cutoff(p.symbiot, p.gist) =>
                 i \in Told(p.symbiot, p.gist) \cup PassedOver(p.symbiot)
  /\ p.step = "done" =>
       /\ \A i \in p.tail : Cutoff(p.symbiot, p.gist) < i
       /\ \A i \in p.said : Cutoff(p.symbiot, p.gist) < i => i \in p.tail \cup p.exclude

IInv ==
  /\ TypeOK
  /\ IssuedInOrder
  /\ HistoryOK
  /\ Accounted
  /\ \A w \in Sweeps : PassOK(w)
  /\ \A r \in Readers : ReadOK(r)

USE SymbiotsAssumption, TokensAssumption, BoundsAssumption, NoneAssumption

(***************************************************************************)
(* The first state, and the steps by what they touch.                      *)
(***************************************************************************)

LEMMA InitOK == Init => IInv
<1> SUFFICES ASSUME Init PROVE IInv
  OBVIOUS
<1>1. TypeOK
  BY DEF Init, TypeOK, Item, AbsentItem, Pass, PassFor, Read, IdleRead
<1>2. IssuedInOrder
  BY DEF Init, IssuedInOrder, Issued, AbsentItem
<1>3. HistoryOK /\ Accounted
  BY DEF Init, HistoryOK, Accounted, Live, AbsentItem
<1>4. \A w \in Sweeps : PassOK(w)
  BY DEF Init, PassOK, PassFor, Holding
<1>5. \A r \in Readers : ReadOK(r)
  BY DEF Init, ReadOK, IdleRead
<1> QED BY <1>1, <1>2, <1>3, <1>4, <1>5 DEF IInv

\* What only depends on the history of summaries.
LEMMA RowsStand ==
  ASSUME UNCHANGED gists
  PROVE  /\ \A s, k : Cutoff(s, k)' = Cutoff(s, k) /\ Told(s, k)' = Told(s, k)
         /\ \A s : PassedOver(s)' = PassedOver(s)
BY DEF Cutoff, Told, PassedOver

\* A reader that rests is undisturbed while the history stands and what was said stays.
LEMMA ReaderStands ==
  ASSUME NEW q, ReadOK(q), reader'[q] = reader[q], UNCHANGED gists,
         \A s, i : i \in Stream(s, "said") => i \in Stream(s, "said")'
  PROVE  ReadOK(q)'
<1> DEFINE p == reader[q]
<1>1. CASE p.step = "idle"
  BY <1>1 DEF ReadOK
<1>2. CASE p.step # "idle"
  <2>1. /\ p.symbiot \in Symbiots /\ p.gist \in 0 .. Len(gists'[p.symbiot])
        /\ \A i \in p.said :
             /\ i \in Stream(p.symbiot, "said")
             /\ i <= Cutoff(p.symbiot, p.gist) =>
                  i \in Told(p.symbiot, p.gist) \cup PassedOver(p.symbiot)
    BY <1>2 DEF ReadOK
  <2>2. p.step = "done" =>
          /\ \A i \in p.tail : Cutoff(p.symbiot, p.gist) < i
          /\ \A i \in p.said : Cutoff(p.symbiot, p.gist) < i => i \in p.tail \cup p.exclude
    BY DEF ReadOK
  <2>3. PICK r : r = reader[q] /\ r = reader'[q]
    OBVIOUS
  <2>4. PICK s, k : s = r.symbiot /\ k = r.gist
    OBVIOUS
  <2>5. /\ Cutoff(s, k)' = Cutoff(s, k) /\ Told(s, k)' = Told(s, k)
        /\ PassedOver(s)' = PassedOver(s)
    BY RowsStand
  <2> HIDE DEF p
  <2>6. p = r
    BY <2>3 DEF p
  <2>7. /\ s \in Symbiots /\ k \in 0 .. Len(gists'[s])
        /\ \A i \in r.said :
             /\ i \in Stream(s, "said")'
             /\ i <= Cutoff(s, k)' => i \in Told(s, k)' \cup PassedOver(s)'
    BY <2>1, <2>4, <2>5, <2>6
  <2>8. r.step = "done" =>
          /\ \A i \in r.tail : Cutoff(s, k)' < i
          /\ \A i \in r.said : Cutoff(s, k)' < i => i \in r.tail \cup r.exclude
    BY <2>2, <2>4, <2>5, <2>6
  <2> QED BY <2>3, <2>4, <2>7, <2>8 DEF ReadOK
<1> QED BY <1>1, <1>2

\* A sweep that rests is undisturbed while the history and the stream stand and its
\* locks stay.
LEMMA SweepStands ==
  ASSUME NEW v, PassOK(v), sweep'[v] = sweep[v], UNCHANGED <<item, gists>>,
         \A s \in Symbiots : claimed[s] = v => claimed'[s] = v
  PROVE  PassOK(v)'
<1>1. \A s : Live(s)' = Live(s)
  BY DEF Live
<1>2. \A i : Issued(i)' = Issued(i)
  BY DEF Issued
<1>3. PICK p : p = sweep[v] /\ p = sweep'[v]
  OBVIOUS
<1>4. Cutoff(p.symbiot, p.gist)' = Cutoff(p.symbiot, p.gist)
  BY RowsStand
<1>5. /\ p.step # "look" => p.symbiot \in Symbiots
      /\ p.step \in Holding => claimed'[p.symbiot] = v
      /\ p.step \in {"grounded", "folding"} => p.gist = Len(gists'[p.symbiot])
  BY <1>3 DEF PassOK, Holding
<1>6. p.step = "folding" =>
        /\ p.turns # {}
        /\ \A i \in p.turns : Issued(i)' /\ Cutoff(p.symbiot, p.gist)' < i
        /\ \A i \in Live(p.symbiot)' : \A j \in p.turns :
             i <= j /\ Cutoff(p.symbiot, p.gist)' < i => i \in p.turns \cup p.open
  BY <1>1, <1>2, <1>3, <1>4 DEF PassOK
<1> QED BY <1>3, <1>5, <1>6 DEF PassOK

\* A step that only writes on the stream, after everything that was issued, or
\* ends or forgets what is there.
LEMMA WriteKeeps ==
  ASSUME IInv,
         item' \in [Ids -> Item], fresh' \subseteq Ids,
         UNCHANGED <<gists, claimed, sweep, reader>>,
         IssuedInOrder',
         \A i \in Ids : Issued(i) => Issued(i)',
         \A i \in Ids : item[i].state = "said" => item'[i] = item[i],
         \A s \in Symbiots : \A i \in Live(s)' :
           i \in Live(s) \/ \A j \in Ids : Issued(j) => j < i
  PROVE  IInv'
<1>1. TypeOK'
  BY DEF IInv, TypeOK
<1>2. \A s \in Symbiots : \A k \in DOMAIN gists[s] :
        gists[s][k].cutoff_item_id \in Ids /\ Issued(gists[s][k].cutoff_item_id)
  <2> SUFFICES ASSUME NEW s \in Symbiots, NEW k \in DOMAIN gists[s]
               PROVE  gists[s][k].cutoff_item_id \in Ids /\ Issued(gists[s][k].cutoff_item_id)
    OBVIOUS
  <2>1. gists[s][k] \in Gist
    BY DEF IInv, TypeOK
  <2>2. RowOK(gists[s][k])
    BY DEF IInv, HistoryOK
  <2> QED BY <2>1, <2>2 DEF RowOK, Gist
<1>3. HistoryOK'
  <2>1. \A s \in Symbiots : \A k \in DOMAIN gists[s] : RowOK(gists[s][k])'
    BY <1>2 DEF IInv, HistoryOK, RowOK
  <2> QED BY <2>1 DEF IInv, HistoryOK, Continues
<1>4. Accounted'
  <2> SUFFICES ASSUME NEW s \in Symbiots, NEW i \in Live(s)',
                      i <= Cutoff(s, current_gist(s))
               PROVE  i \in Told(s, current_gist(s)) \cup PassedOver(s)
    BY DEF Accounted, Cutoff, Told, current_gist, PassedOver
  <2>1. gists[s] \in Seq(Gist) /\ i \in Ids
    BY DEF IInv, TypeOK, Live
  <2>2. Len(gists[s]) # 0
    BY <2>1 DEF Cutoff, current_gist, Ids
  <2>3. Len(gists[s]) \in DOMAIN gists[s]
    BY <2>1, <2>2
  <2>4. Cutoff(s, current_gist(s)) \in Ids /\ Issued(Cutoff(s, current_gist(s)))
    BY <1>2, <2>2, <2>3 DEF Cutoff, current_gist
  <2>5. i \in Live(s)
    BY <2>1, <2>4 DEF Ids
  <2> QED BY <2>5 DEF IInv, Accounted
<1>5. \A w \in Sweeps : PassOK(w)'
  <2> SUFFICES ASSUME NEW w \in Sweeps PROVE PassOK(w)'
    OBVIOUS
  <2>1. PassOK(w) /\ sweep[w] \in Pass
    BY DEF IInv, TypeOK
  <2>2. ASSUME sweep[w].step = "folding",
               NEW i \in Live(sweep[w].symbiot)', NEW j \in sweep[w].turns, i <= j
        PROVE  i \in Live(sweep[w].symbiot)
    <3>1. j \in Ids /\ Issued(j) /\ i \in Ids /\ sweep[w].symbiot \in Symbiots
      BY <2>1, <2>2 DEF PassOK, Pass, Live
    <3>2. i \in Live(sweep[w].symbiot) \/ j < i
      BY <3>1, <2>2
    <3> QED BY <3>1, <3>2, <2>2 DEF Ids
  <2>3. \A i \in sweep[w].turns : i \in Ids
    BY <2>1 DEF Pass
  <2> QED BY <2>1, <2>2, <2>3 DEF PassOK, Cutoff
<1>6. \A r \in Readers : ReadOK(r)'
  <2>1. \A s, i : i \in Stream(s, "said") => i \in Stream(s, "said")'
    BY DEF Stream
  <2> QED BY <2>1, ReaderStands DEF IInv
<1> QED BY <1>1, <1>3, <1>4, <1>5, <1>6 DEF IInv

\* A step of one sweep that writes nothing.
LEMMA PassKeeps ==
  ASSUME IInv, NEW w \in Sweeps,
         UNCHANGED <<item, fresh, gists, reader>>,
         NEW p \in Pass, sweep' = [sweep EXCEPT ![w] = p],
         claimed' \in [Symbiots -> Sweeps \cup {None}],
         \A s \in Symbiots : claimed[s] \notin {w, None} => claimed'[s] = claimed[s],
         PassOK(w)'
  PROVE  IInv'
<1>1. TypeOK'
  BY DEF IInv, TypeOK
<1>2. IssuedInOrder' /\ HistoryOK' /\ Accounted'
  BY DEF IInv, IssuedInOrder, HistoryOK, Accounted, Issued, RowOK, Continues, Live,
         Cutoff, Told, current_gist, PassedOver
<1>3. \A v \in Sweeps : PassOK(v)'
  <2> SUFFICES ASSUME NEW v \in Sweeps, v # w PROVE PassOK(v)'
    OBVIOUS
  <2>1. PassOK(v) /\ sweep'[v] = sweep[v]
    BY DEF IInv, TypeOK
  <2>2. \A s \in Symbiots : claimed[s] = v => claimed'[s] = v
    BY NoneAssumption
  <2> QED BY <2>1, <2>2, SweepStands
<1>4. \A r \in Readers : ReadOK(r)'
  <2>1. \A s, i : i \in Stream(s, "said") => i \in Stream(s, "said")'
    BY DEF Stream
  <2> QED BY <2>1, ReaderStands DEF IInv
<1> QED BY <1>1, <1>2, <1>3, <1>4 DEF IInv

\* A step of one reader.
LEMMA ReadKeeps ==
  ASSUME IInv, NEW r \in Readers,
         UNCHANGED <<item, fresh, gists, claimed, sweep>>,
         NEW p \in Read, reader' = [reader EXCEPT ![r] = p],
         ReadOK(r)'
  PROVE  IInv'
<1>1. TypeOK'
  BY DEF IInv, TypeOK
<1>2. IssuedInOrder' /\ HistoryOK' /\ Accounted'
  BY DEF IInv, IssuedInOrder, HistoryOK, Accounted, Issued, RowOK, Continues, Live,
         Cutoff, Told, current_gist, PassedOver
<1>3. \A v \in Sweeps : PassOK(v)'
  BY SweepStands DEF IInv
<1>4. \A q \in Readers : ReadOK(q)'
  <2> SUFFICES ASSUME NEW q \in Readers, q # r PROVE ReadOK(q)'
    OBVIOUS
  <2>1. ReadOK(q) /\ reader'[q] = reader[q]
    BY DEF IInv, TypeOK
  <2>2. \A s, i : i \in Stream(s, "said") => i \in Stream(s, "said")'
    BY DEF Stream
  <2> QED BY <2>1, <2>2, ReaderStands
<1> QED BY <1>1, <1>2, <1>3, <1>4 DEF IInv

(***************************************************************************)
(* The steps of Next, one by one.                                          *)
(***************************************************************************)

LEMMA WritingKeeps == IInv /\ Writing => IInv'
<1> SUFFICES ASSUME IInv, Writing PROVE IInv'
  OBVIOUS
<1>0. item \in [Ids -> Item] /\ fresh \subseteq Ids /\ IssuedInOrder
  BY DEF IInv, TypeOK
<1>1. ASSUME NEW s \in Symbiots, record_utterance(s) PROVE IInv'
  <2>1. PICK i \in Ids :
          /\ item[i].state = "absent"
          /\ \A j \in Ids : j < i => item[j].state # "absent"
          /\ item' = [item EXCEPT ![i] = [symbiot |-> s, state |-> "open"]]
          /\ fresh' = fresh \cup {i}
          /\ UNCHANGED <<gists, claimed, sweep, reader>>
    BY <1>1 DEF record_utterance
  <2>2. item' \in [Ids -> Item] /\ fresh' \subseteq Ids
    BY <1>0, <2>1 DEF Item
  <2>3. \A j \in Ids : j # i => item'[j] = item[j]
    BY <1>0, <2>1
  <2>4. item'[i] = [symbiot |-> s, state |-> "open"]
    BY <1>0, <2>1
  <2>5. \A j \in Ids : Issued(j) => j < i
    BY <1>0, <2>1 DEF IssuedInOrder, Issued, Ids
  <2>6. \A j \in Ids : Issued(j)' <=> Issued(j) \/ j = i
    BY <2>3, <2>4 DEF Issued
  <2>7. IssuedInOrder'
    <3>1. \A j \in Ids : j < i => Issued(j)
      BY <2>1 DEF Issued
    <3>2. \A k, j \in Ids : k < j /\ Issued(j)' => Issued(k)'
      BY <2>5, <2>6, <3>1 DEF Ids
    <3>3. \A j \in Ids : ~ Issued(j)' => item'[j].symbiot = 0
      BY <1>0, <2>3, <2>6 DEF IssuedInOrder
    <3> QED BY <3>2, <3>3 DEF IssuedInOrder
  <2>8. \A q \in Symbiots : \A j \in Live(q)' : j \in Live(q) \/ j = i
    BY <2>3 DEF Live
  <2> QED BY <2>1, <2>2, <2>3, <2>5, <2>6, <2>7, <2>8, WriteKeeps
<1>2. ASSUME NEW i \in Ids, Commit(i) \/ Rollback(i) PROVE IInv'
  <2>1. PICK state \in {"said", "undone"} :
          /\ item[i].state = "open"
          /\ item' = [item EXCEPT ![i].state = state]
          /\ fresh' \subseteq fresh
          /\ UNCHANGED <<gists, claimed, sweep, reader>>
    BY <1>2 DEF Commit, Rollback
  <2>2. item[i] \in Item
    BY <1>0
  <2>3. item' \in [Ids -> Item] /\ fresh' \subseteq Ids
    BY <1>0, <2>1, <2>2 DEF Item
  <2>4. \A j \in Ids : j # i => item'[j] = item[j]
    BY <1>0, <2>1
  <2>5. item'[i].state = state /\ item'[i].symbiot = item[i].symbiot
    BY <1>0, <2>1, <2>2 DEF Item
  <2>6. \A j \in Ids : Issued(j)' <=> Issued(j)
    BY <2>1, <2>4, <2>5 DEF Issued
  <2>7. IssuedInOrder'
    <3>1. \A k, j \in Ids : k < j /\ Issued(j)' => Issued(k)'
      BY <1>0, <2>6 DEF IssuedInOrder
    <3>2. \A j \in Ids : ~ Issued(j)' => item'[j].symbiot = 0
      BY <1>0, <2>4, <2>5, <2>6 DEF IssuedInOrder
    <3> QED BY <3>1, <3>2 DEF IssuedInOrder
  <2>8. \A q \in Symbiots : \A j \in Live(q)' : j \in Live(q)
    BY <2>1, <2>4, <2>5 DEF Live
  <2> QED BY <2>1, <2>3, <2>4, <2>6, <2>7, <2>8, WriteKeeps
<1>3. ASSUME NEW i \in Ids, Age(i) PROVE IInv'
  <2>1. UNCHANGED <<item, gists, claimed, sweep, reader>> /\ fresh' \subseteq fresh
    BY <1>3 DEF Age
  <2>2. IssuedInOrder' /\ (\A j \in Ids : Issued(j) => Issued(j)')
        /\ \A q \in Symbiots : \A j \in Live(q)' : j \in Live(q)
    BY <1>0, <2>1 DEF IssuedInOrder, Issued, Live
  <2> QED BY <1>0, <2>1, <2>2, WriteKeeps
<1> QED BY <1>1, <1>2, <1>3 DEF Writing

\* The steps of a sweep that end its transaction with nothing written.
LEMMA GivesUp ==
  ASSUME IInv, NEW w \in Sweeps, NEW p \in Pass, p.step = "look",
         sweep' = [sweep EXCEPT ![w] = p], claimed' = Freed(w) \/ claimed' = claimed,
         UNCHANGED <<item, fresh, gists, reader>>
  PROVE  IInv'
<1>1. claimed \in [Symbiots -> Sweeps \cup {None}] /\ sweep'[w] = p
  BY DEF IInv, TypeOK
<1>2. claimed' \in [Symbiots -> Sweeps \cup {None}]
  BY <1>1 DEF Freed
<1>3. \A s \in Symbiots : claimed[s] \notin {w, None} => claimed'[s] = claimed[s]
  BY <1>1 DEF Freed
<1>4. PassOK(w)'
  BY <1>1 DEF PassOK, Holding
<1> QED BY <1>2, <1>3, <1>4, PassKeeps

LEMMA PassForTyped ==
  \A keep \in {Budget, 0} : PassFor(keep) \in Pass /\ PassFor(keep).step = "look"
BY DEF PassFor, Pass

LEMMA PickKeeps == ASSUME IInv, NEW w \in Sweeps, Pick(w) PROVE IInv'
<1>1. sweep[w] \in Pass /\ sweep \in [Sweeps -> Pass]
      /\ claimed \in [Symbiots -> Sweeps \cup {None}]
  BY DEF IInv, TypeOK
<1>2. UNCHANGED <<item, fresh, gists, claimed, reader>>
  BY DEF Pick
<1>3. ASSUME NEW s \in Symbiots,
             sweep' = [sweep EXCEPT ![w].step = "picked", ![w].symbiot = s]
      PROVE  IInv'
  <2>1. PICK p : p = [sweep[w] EXCEPT !.step = "picked", !.symbiot = s]
    OBVIOUS
  <2>2. p \in Pass /\ p.step = "picked" /\ p.symbiot = s
    BY <1>1, <2>1 DEF Pass
  <2>3. sweep' = [sweep EXCEPT ![w] = p] /\ sweep'[w] = p
    BY <1>1, <1>3, <2>1
  <2>4. PassOK(w)'
    BY <2>2, <2>3 DEF PassOK, Holding
  <2> QED BY <1>1, <1>2, <2>2, <2>3, <2>4, PassKeeps
<1>4. ASSUME sweep' = [sweep EXCEPT ![w] = Otherwise(w)] PROVE IInv'
  BY <1>2, <1>4, PassForTyped, GivesUp DEF Otherwise
<1> QED BY <1>3, <1>4 DEF Pick

LEMMA ClaimKeeps == ASSUME IInv, NEW w \in Sweeps, Claim(w) PROVE IInv'
<1>1. sweep[w] \in Pass /\ sweep \in [Sweeps -> Pass] /\ PassOK(w)
      /\ claimed \in [Symbiots -> Sweeps \cup {None}]
  BY DEF IInv, TypeOK
<1>2. UNCHANGED <<item, fresh, gists, reader>> /\ sweep[w].step = "picked"
  BY DEF Claim
<1>3. PICK s \in Symbiots : s = sweep[w].symbiot
  BY <1>1, <1>2 DEF PassOK
<1>4. ASSUME claimed[s] = None, claimed' = [claimed EXCEPT ![s] = w],
             sweep' = [sweep EXCEPT ![w].step = "claimed"]
      PROVE  IInv'
  <2>1. PICK p : p = [sweep[w] EXCEPT !.step = "claimed"]
    OBVIOUS
  <2>2. p \in Pass /\ p.step = "claimed" /\ p.symbiot = s
    BY <1>1, <1>3, <2>1 DEF Pass
  <2>3. sweep' = [sweep EXCEPT ![w] = p] /\ sweep'[w] = p
    BY <1>1, <1>4, <2>1
  <2>4. claimed' \in [Symbiots -> Sweeps \cup {None}] /\ claimed'[s] = w
        /\ \A q \in Symbiots : claimed[q] \notin {w, None} => claimed'[q] = claimed[q]
    BY <1>1, <1>4
  <2>5. PassOK(w)'
    BY <2>2, <2>3, <2>4 DEF PassOK, Holding
  <2> QED BY <1>2, <2>2, <2>3, <2>4, <2>5, PassKeeps
<1>5. ASSUME sweep' = [sweep EXCEPT ![w] = Otherwise(w)], UNCHANGED claimed PROVE IInv'
  BY <1>2, <1>5, PassForTyped, GivesUp DEF Otherwise
<1> QED BY <1>3, <1>4, <1>5 DEF Claim, claim_fold

LEMMA ReadGistKeeps == ASSUME IInv, NEW w \in Sweeps, ReadGist(w) PROVE IInv'
<1>1. sweep[w] \in Pass /\ sweep \in [Sweeps -> Pass] /\ PassOK(w)
      /\ claimed \in [Symbiots -> Sweeps \cup {None}] /\ gists \in [Symbiots -> Seq(Gist)]
  BY DEF IInv, TypeOK
<1>2. UNCHANGED <<item, fresh, gists, claimed, reader>> /\ sweep[w].step = "claimed"
  BY DEF ReadGist
<1>3. PICK s \in Symbiots : s = sweep[w].symbiot
  BY <1>1, <1>2 DEF PassOK
<1>4. Len(gists[s]) \in Nat
  BY <1>1
<1>5. PICK p : p = [sweep[w] EXCEPT !.step = "grounded", !.gist = Len(gists[s])]
  OBVIOUS
<1>6. p \in Pass /\ p.step = "grounded" /\ p.symbiot = s /\ p.gist = Len(gists[s])
  BY <1>1, <1>3, <1>4, <1>5 DEF Pass
<1>7. sweep' = [sweep EXCEPT ![w] = p] /\ sweep'[w] = p
  BY <1>1, <1>3, <1>5 DEF ReadGist, current_gist
<1>8. claimed[s] = w
  BY <1>1, <1>2, <1>3 DEF PassOK, Holding
<1>9. PassOK(w)'
  BY <1>2, <1>3, <1>6, <1>7, <1>8 DEF PassOK, Holding
<1> QED BY <1>1, <1>2, <1>6, <1>7, <1>9, PassKeeps

\* What overflows is the older end of the tail: the running sum only grows.
LEMMA OverflowIsOldest ==
  ASSUME NEW s, NEW k, NEW keep \in Nat,
         NEW j \in pending_for_fold(s, k, keep), NEW i \in TailPast(s, k), i <= j
  PROVE  i \in pending_for_fold(s, k, keep)
<1>1. PICK A \in SUBSET Ids : A = {m \in TailPast(s, k) : m >= i}
  BY DEF TailPast, Stream
<1>2. PICK B \in SUBSET Ids : B = {m \in TailPast(s, k) : m >= j}
  BY DEF TailPast, Stream
<1>3. i \in Ids /\ j \in Ids /\ B \subseteq A
  BY <1>1, <1>2 DEF pending_for_fold, TailPast, Stream, Ids
<1>4. Weight(B) <= Weight(A) /\ Weight(A) \in Nat /\ Weight(B) \in Nat
  BY <1>3, WeightAssumption
<1>5. Weight(B) > keep
  BY <1>2 DEF pending_for_fold
<1>6. Weight(A) > keep
  BY <1>4, <1>5
<1> QED BY <1>1, <1>6 DEF pending_for_fold

LEMMA ReadTailKeeps == ASSUME IInv, NEW w \in Sweeps, ReadTail(w) PROVE IInv'
<1>1. sweep[w] \in Pass /\ sweep \in [Sweeps -> Pass] /\ PassOK(w)
      /\ claimed \in [Symbiots -> Sweeps \cup {None}]
  BY DEF IInv, TypeOK
<1>2. UNCHANGED <<item, fresh, gists, reader>> /\ sweep[w].step = "grounded"
  BY DEF ReadTail
<1>3. PICK s \in Symbiots : s = sweep[w].symbiot
  BY <1>1, <1>2 DEF PassOK
<1>4. PICK k \in Nat : k = sweep[w].gist
  BY <1>1 DEF Pass
<1>5. PICK keep \in {Budget, 0} : keep = sweep[w].keep
  BY <1>1 DEF Pass
<1>6. PICK turns : turns = pending_for_fold(s, k, keep)
  OBVIOUS
<1>7. ASSUME sweep' = [sweep EXCEPT ![w] = Otherwise(w)], claimed' = Freed(w) PROVE IInv'
  BY <1>2, <1>7, PassForTyped, GivesUp DEF Otherwise
<1>8. ASSUME turns # {}, UNCHANGED claimed,
             sweep' = [sweep EXCEPT ![w].step = "folding", ![w].turns = turns,
                                    ![w].open = Stream(s, "open")]
      PROVE  IInv'
  <2>1. PICK open : open = Stream(s, "open")
    OBVIOUS
  <2>2. open \in SUBSET Ids /\ turns \in SUBSET Ids
    BY <1>6, <2>1 DEF Stream, pending_for_fold, TailPast
  <2>3. PICK p : p = [sweep[w] EXCEPT !.step = "folding", !.turns = turns, !.open = open]
    OBVIOUS
  <2>4. p \in Pass /\ p.step = "folding" /\ p.symbiot = s /\ p.gist = k
        /\ p.turns = turns /\ p.open = open
    BY <1>1, <1>3, <1>4, <2>2, <2>3 DEF Pass
  <2>5. sweep' = [sweep EXCEPT ![w] = p] /\ sweep'[w] = p
    BY <1>1, <1>8, <2>1, <2>3
  <2>6. claimed[s] = w /\ k = Len(gists[s])
    BY <1>1, <1>2, <1>3, <1>4 DEF PassOK, Holding
  <2>7. \A i \in turns : Issued(i) /\ Cutoff(s, k) < i
    BY <1>6 DEF pending_for_fold, TailPast, Stream, Issued
  <2>8. ASSUME NEW i \in Live(s), NEW j \in turns, i <= j, Cutoff(s, k) < i
        PROVE  i \in turns \cup open
    <3>1. CASE item[i].state = "open"
      BY <2>1, <3>1 DEF Live, Stream
    <3>2. CASE item[i].state = "said"
      <4>1. i \in TailPast(s, k)
        BY <2>8, <3>2 DEF Live, TailPast, Stream
      <4> QED BY <1>6, <2>8, <4>1, OverflowIsOldest
    <3> QED BY <3>1, <3>2 DEF Live
  <2>9. PassOK(w)'
    BY <1>2, <1>8, <2>4, <2>5, <2>6, <2>7, <2>8
       DEF PassOK, Holding, Issued, Cutoff, Live
  <2> QED BY <1>1, <1>2, <1>8, <2>4, <2>5, <2>9, PassKeeps
<1> QED BY <1>3, <1>4, <1>5, <1>6, <1>7, <1>8 DEF ReadTail

\* A row g appended to the history of s, by the sweep that holds its lock.
LEMMA RowKeeps ==
  ASSUME IInv, NEW s \in Symbiots, NEW g \in Gist,
         gists' = [gists EXCEPT ![s] = Append(@, g)],
         UNCHANGED item,
         g.told = Told(s, Len(gists[s])) \cup g.turns,
         g.cutoff_item_id \in g.turns,
         \A i \in g.turns : i <= g.cutoff_item_id /\ Cutoff(s, Len(gists[s])) < i,
         Issued(g.cutoff_item_id),
         \A i \in Live(s) : i <= g.cutoff_item_id /\ Cutoff(s, Len(gists[s])) < i
                             => i \in g.turns \cup g.open
  PROVE  /\ gists' \in [Symbiots -> Seq(Gist)]
         /\ HistoryOK'
         /\ Accounted'
         /\ \A q \in Symbiots : \A k \in 0 .. Len(gists[q]) :
              /\ k \in 0 .. Len(gists'[q])
              /\ Cutoff(q, k)' = Cutoff(q, k)
              /\ Told(q, k)' = Told(q, k)
         /\ \A q \in Symbiots : PassedOver(q) \subseteq PassedOver(q)'
<1>0. \A i \in Ids : i \in Nat /\ i # 0
  BY DEF Ids
<1>1. PICK n \in Nat : n = Len(gists[s])
  <2>1. gists[s] \in Seq(Gist)
    BY DEF IInv, TypeOK
  <2>2. Len(gists[s]) \in Nat
    BY <2>1
  <2> QED BY <2>2
<1>2. gists \in [Symbiots -> Seq(Gist)]
  BY DEF IInv, TypeOK
<1>3. gists'[s] = Append(gists[s], g) /\ \A q \in Symbiots : q # s => gists'[q] = gists[q]
  BY <1>2
<1>4. gists' \in [Symbiots -> Seq(Gist)]
  BY <1>2, <1>3
<1>5. /\ Len(gists'[s]) = n + 1
      /\ gists'[s][n + 1] = g
      /\ \A k \in 1 .. n : gists'[s][k] = gists[s][k]
      /\ DOMAIN gists[s] = 1 .. n
      /\ DOMAIN gists'[s] = 1 .. n + 1
  BY <1>1, <1>2, <1>3
<1>6. \A k \in 1 .. n : gists[s][k] \in Gist
  BY <1>1, <1>2, <1>5
<1>7. \A k \in 1 .. n : RowOK(gists[s][k]) /\ gists[s][k].turns \subseteq gists[s][k].told
  BY <1>5 DEF IInv, HistoryOK
<1>8. \A j, k \in 1 .. n : j < k => Continues(gists[s][j], gists[s][k])
  BY <1>5 DEF IInv, HistoryOK
<1>9. n # 0 => gists[s][n] \in Gist /\ n \in 1 .. n
  BY <1>6
<1>10. PICK u \in Nat : u = Cutoff(s, n)
  <2>1. CASE n = 0
    BY <2>1 DEF Cutoff
  <2>2. CASE n # 0
    <3>1. gists[s][n].cutoff_item_id \in Nat
      BY <1>0, <1>9, <2>2 DEF Gist
    <3> QED BY <2>2, <3>1 DEF Cutoff
  <2> QED BY <2>1, <2>2
<1>11. PICK c \in Nat : c = g.cutoff_item_id
  BY <1>0 DEF Gist
<1>12. RowOK(g) /\ g.turns \subseteq g.told /\ u < c
  <2>1. u < c
    BY <1>1, <1>10, <1>11
  <2>2. ASSUME NEW i \in Told(s, n) PROVE i <= c
    <3>1. n # 0 /\ gists[s][n] \in Gist /\ RowOK(gists[s][n])
      BY <1>7, <1>9, <2>2 DEF Told
    <3>2. Told(s, n) = gists[s][n].told /\ u = gists[s][n].cutoff_item_id
      BY <1>10, <3>1 DEF Told, Cutoff
    <3>3. i \in Nat /\ i <= u
      BY <1>0, <3>1, <3>2 DEF RowOK, Gist
    <3> QED BY <2>1, <3>3
  <2>3. \A i \in g.told : i <= c
    BY <1>1, <1>11, <2>2
  <2> QED BY <1>11, <2>1, <2>3 DEF RowOK
<1>13. \A j \in 1 .. n : Continues(gists[s][j], g)
  <2> SUFFICES ASSUME NEW j \in 1 .. n PROVE Continues(gists[s][j], g)
    OBVIOUS
  <2>1. PICK h \in Gist : h = gists[s][j]
    BY <1>6
  <2>2. RowOK(h) /\ h.turns \subseteq h.told
    BY <1>7, <2>1
  <2>3. PICK a \in Nat : a = h.cutoff_item_id
    BY <1>0 DEF Gist
  <2>4. PICK l \in Gist : l = gists[s][n]
    BY <1>9
  <2>5. u = l.cutoff_item_id /\ Told(s, n) = l.told
    BY <1>10, <2>4 DEF Cutoff, Told
  <2>6. a <= u /\ h.told \subseteq l.told
    <3>1. CASE j = n
      BY <2>1, <2>3, <2>4, <2>5, <3>1
    <3>2. CASE j # n
      <4>1. Continues(h, l)
        BY <1>8, <2>1, <2>4, <3>2
      <4>2. a < u /\ h.told \subseteq l.told
        BY <2>3, <2>5, <4>1 DEF Continues
      <4> QED BY <4>2
    <3> QED BY <3>1, <3>2
  <2>7. h.cutoff_item_id < g.cutoff_item_id
    <3>1. a < c
      BY <1>12, <2>6
    <3> QED BY <1>11, <2>3, <3>1
  <2>8. ASSUME NEW i \in g.turns PROVE h.cutoff_item_id < i
    <3>1. i \in Nat /\ u < i
      BY <1>0, <1>1, <1>10 DEF Gist
    <3>2. a < i
      BY <2>6, <3>1
    <3> QED BY <2>3, <3>2
  <2>9. h.told \subseteq g.told /\ \A i \in h.turns : i <= h.cutoff_item_id
    BY <1>1, <2>2, <2>5, <2>6 DEF RowOK
  <2> QED BY <2>1, <2>7, <2>8, <2>9 DEF Continues
<1>14. HistoryOK'
  <2> SUFFICES ASSUME NEW q \in Symbiots
               PROVE  /\ \A k \in DOMAIN gists'[q] : RowOK(gists'[q][k])
                      /\ \A j, k \in DOMAIN gists'[q] :
                           j < k => Continues(gists'[q][j], gists'[q][k])
                      /\ \A k \in DOMAIN gists'[q] : gists'[q][k].turns \subseteq gists'[q][k].told
    BY DEF HistoryOK, RowOK, Continues, Issued
  <2>1. CASE q # s
    BY <1>3, <2>1 DEF IInv, HistoryOK
  <2>2. CASE q = s
    <3>1. \A k \in 1 .. n + 1 : k \in 1 .. n \/ k = n + 1
      OBVIOUS
    <3>2. \A k \in DOMAIN gists'[s] :
            RowOK(gists'[s][k]) /\ gists'[s][k].turns \subseteq gists'[s][k].told
      BY <1>5, <1>7, <1>12, <3>1
    <3>3. ASSUME NEW j \in DOMAIN gists'[s], NEW k \in DOMAIN gists'[s], j < k
          PROVE  Continues(gists'[s][j], gists'[s][k])
      <4>1. j \in 1 .. n
        BY <1>5, <3>3
      <4>2. CASE k \in 1 .. n
        BY <1>5, <1>8, <3>3, <4>1, <4>2
      <4>3. CASE k = n + 1
        BY <1>5, <1>13, <4>1, <4>3
      <4> QED BY <1>5, <3>1, <4>2, <4>3
    <3> QED BY <2>2, <3>2, <3>3
  <2> QED BY <2>1, <2>2
<1>15. Accounted'
  <2> SUFFICES ASSUME NEW q \in Symbiots, NEW i \in Live(q),
                      i <= Cutoff(q, current_gist(q))'
               PROVE  i \in Told(q, current_gist(q))' \cup PassedOver(q)'
    BY DEF Accounted, Live
  <2>1. CASE q # s
    BY <1>3, <2>1 DEF IInv, Accounted, current_gist, Cutoff, Told, PassedOver
  <2>2. CASE q = s
    <3>1. n + 1 # 0
      OBVIOUS
    <3>2. i <= g.cutoff_item_id /\ i \in Ids
      BY <1>5, <2>2, <3>1 DEF Cutoff, Live, current_gist
    <3>3. g.told \subseteq Told(s, current_gist(s))' /\ g.open \subseteq PassedOver(s)'
      BY <1>5, <3>1 DEF Told, PassedOver, current_gist
    <3>4. PassedOver(s) \subseteq PassedOver(s)'
      BY <1>5 DEF PassedOver
    <3>5. CASE i <= Cutoff(s, n)
      <4>1. i \in Told(s, n) \cup PassedOver(s)
        BY <1>1, <2>2, <3>5 DEF IInv, Accounted, current_gist
      <4> QED BY <1>1, <2>2, <3>3, <3>4, <4>1
    <3>6. CASE Cutoff(s, n) < i
      BY <1>1, <2>2, <3>2, <3>3, <3>6
    <3>7. i <= Cutoff(s, n) \/ Cutoff(s, n) < i
      BY <1>0, <1>10, <3>2
    <3> QED BY <3>5, <3>6, <3>7
  <2> QED BY <2>1, <2>2
<1>16. \A q \in Symbiots : \A k \in 0 .. Len(gists[q]) :
         /\ k \in 0 .. Len(gists'[q])
         /\ Cutoff(q, k)' = Cutoff(q, k)
         /\ Told(q, k)' = Told(q, k)
  <2> SUFFICES ASSUME NEW q \in Symbiots, NEW k \in 0 .. Len(gists[q])
               PROVE  /\ k \in 0 .. Len(gists'[q])
                      /\ Cutoff(q, k)' = Cutoff(q, k)
                      /\ Told(q, k)' = Told(q, k)
    OBVIOUS
  <2>1. CASE q # s
    BY <1>3, <2>1 DEF Cutoff, Told
  <2>2. CASE q = s
    <3>1. k \in 0 .. n /\ k \in 0 .. n + 1
      BY <1>1, <2>2
    <3> QED BY <1>5, <2>2, <3>1 DEF Cutoff, Told
  <2> QED BY <2>1, <2>2
<1>17. \A q \in Symbiots : PassedOver(q) \subseteq PassedOver(q)'
  <2> SUFFICES ASSUME NEW q \in Symbiots PROVE PassedOver(q) \subseteq PassedOver(q)'
    OBVIOUS
  <2>1. CASE q # s
    BY <1>3, <2>1 DEF PassedOver
  <2>2. ASSUME NEW i \in PassedOver(s) PROVE i \in PassedOver(s)'
    <3>1. PICK k \in 1 .. n : i \in gists[s][k].open
      BY <1>5 DEF PassedOver
    <3>2. k \in DOMAIN gists'[s] /\ i \in gists'[s][k].open
      BY <1>5, <3>1
    <3> QED BY <3>2 DEF PassedOver
  <2> QED BY <2>1, <2>2
<1> QED BY <1>4, <1>14, <1>15, <1>16, <1>17

LEMMA FoldKeeps == ASSUME IInv, NEW w \in Sweeps, Fold(w) PROVE IInv'
<1>1. /\ sweep[w] \in Pass /\ sweep \in [Sweeps -> Pass] /\ PassOK(w)
      /\ claimed \in [Symbiots -> Sweeps \cup {None}]
      /\ gists \in [Symbiots -> Seq(Gist)]
  BY DEF IInv, TypeOK
<1>2. /\ UNCHANGED <<item, fresh, reader>> /\ sweep[w].step = "folding"
      /\ claimed' = Freed(w) /\ sweep' = [sweep EXCEPT ![w] = PassFor(Budget)]
  BY DEF Fold
<1>3. PICK s \in Symbiots : s = sweep[w].symbiot
  BY <1>1, <1>2 DEF PassOK
<1>4. PICK n \in Nat : n = Len(gists[s])
  <2>1. Len(gists[s]) \in Nat
    BY <1>1
  <2> QED BY <2>1
<1>5. PICK turns \in SUBSET Ids : turns = sweep[w].turns
  BY <1>1 DEF Pass
<1>6. PICK open \in SUBSET Ids : open = sweep[w].open
  BY <1>1 DEF Pass
<1>7. /\ claimed[s] = w /\ sweep[w].gist = n /\ turns # {}
      /\ \A i \in turns : Issued(i) /\ Cutoff(s, n) < i
      /\ \A i \in Live(s) : \A j \in turns :
           i <= j /\ Cutoff(s, n) < i => i \in turns \cup open
  BY <1>1, <1>2, <1>3, <1>4, <1>5, <1>6 DEF PassOK, Holding
<1>8. PICK c \in Ids :
        /\ new_cutoff(w, c)
        /\ gists' = [gists EXCEPT ![s] = Append(@,
             [cutoff_item_id |-> c, turns |-> turns,
              told |-> Told(s, n) \cup turns, open |-> open])]
  BY <1>3, <1>5, <1>6, <1>7 DEF Fold
<1>9. c \in turns /\ \A i \in turns : i <= c
  BY <1>5, <1>7, <1>8 DEF new_cutoff
<1>10. Told(s, n) \in SUBSET Ids
  <2>1. n # 0 => gists[s][n] \in Gist
    BY <1>1, <1>4
  <2> QED BY <2>1 DEF Told, Gist
<1>11. PICK g : g = [cutoff_item_id |-> c, turns |-> turns,
                     told |-> Told(s, n) \cup turns, open |-> open]
  OBVIOUS
<1>12. g \in Gist /\ g.told = Told(s, n) \cup turns /\ g.cutoff_item_id = c
       /\ g.turns = turns /\ g.open = open
  BY <1>7, <1>10, <1>11 DEF Gist
<1>13. gists' = [gists EXCEPT ![s] = Append(@, g)]
  BY <1>8, <1>11
<1>14. /\ gists' \in [Symbiots -> Seq(Gist)]
       /\ HistoryOK'
       /\ Accounted'
       /\ \A q \in Symbiots : \A k \in 0 .. Len(gists[q]) :
            /\ k \in 0 .. Len(gists'[q])
            /\ Cutoff(q, k)' = Cutoff(q, k)
            /\ Told(q, k)' = Told(q, k)
       /\ \A q \in Symbiots : PassedOver(q) \subseteq PassedOver(q)'
  BY <1>2, <1>4, <1>7, <1>9, <1>12, <1>13, RowKeeps
<1>15. \A q \in Symbiots : q # s => gists'[q] = gists[q]
  BY <1>1, <1>13
<1>16. claimed' \in [Symbiots -> Sweeps \cup {None}]
       /\ \A q \in Symbiots : claimed[q] \notin {w, None} => claimed'[q] = claimed[q]
  BY <1>1, <1>2 DEF Freed
<1>17. PassFor(Budget) \in Pass /\ PassFor(Budget).step = "look"
  BY PassForTyped
<1>18. TypeOK'
  BY <1>2, <1>14, <1>16, <1>17 DEF IInv, TypeOK
<1>19. IssuedInOrder'
  BY <1>2 DEF IInv, IssuedInOrder, Issued
<1>20. \A v \in Sweeps : PassOK(v)'
  <2> SUFFICES ASSUME NEW v \in Sweeps PROVE PassOK(v)'
    OBVIOUS
  <2>1. CASE v = w
    <3>1. sweep'[w] = PassFor(Budget)
      BY <1>1, <1>2
    <3> QED BY <1>17, <2>1, <3>1 DEF PassOK, Holding
  <2>2. CASE v # w
    <3>1. PassOK(v) /\ sweep'[v] = sweep[v]
      BY <1>1, <1>2, <2>2 DEF IInv
    <3>2. sweep[v].step \in Holding =>
            /\ sweep[v].symbiot \in Symbiots
            /\ claimed[sweep[v].symbiot] = v
            /\ claimed'[sweep[v].symbiot] = v
            /\ gists'[sweep[v].symbiot] = gists[sweep[v].symbiot]
      BY <1>7, <1>15, <1>16, <2>2, <3>1 DEF PassOK, Holding
    <3> QED BY <1>2, <3>1, <3>2 DEF PassOK, Holding, Cutoff, Live, Issued
  <2> QED BY <2>1, <2>2
<1>21. \A r \in Readers : ReadOK(r)'
  <2> SUFFICES ASSUME NEW r \in Readers PROVE ReadOK(r)'
    OBVIOUS
  <2>1. ReadOK(r)
    BY DEF IInv
  <2>2. reader' = reader /\ \A q : Stream(q, "said")' = Stream(q, "said")
    BY <1>2 DEF Stream
  <2>3. CASE reader[r].step = "idle"
    BY <2>2, <2>3 DEF ReadOK
  <2>4. CASE reader[r].step # "idle"
    <3>1. PICK q \in Symbiots : q = reader[r].symbiot
      BY <2>1, <2>4 DEF ReadOK
    <3>2. PICK k \in 0 .. Len(gists[q]) : k = reader[r].gist
      BY <2>1, <2>4, <3>1 DEF ReadOK
    <3>3. /\ k \in 0 .. Len(gists'[q])
          /\ Cutoff(q, k)' = Cutoff(q, k)
          /\ Told(q, k)' = Told(q, k)
          /\ PassedOver(q) \subseteq PassedOver(q)'
      BY <1>14
    <3>4. \A i \in reader[r].said :
            /\ i \in Stream(q, "said")'
            /\ i <= Cutoff(q, k)' => i \in Told(q, k)' \cup PassedOver(q)'
      BY <2>1, <2>2, <2>4, <3>1, <3>2, <3>3 DEF ReadOK
    <3>5. reader[r].step = "done" =>
            /\ \A i \in reader[r].tail : Cutoff(q, k)' < i
            /\ \A i \in reader[r].said :
                 Cutoff(q, k)' < i => i \in reader[r].tail \cup reader[r].exclude
      BY <2>1, <3>1, <3>2, <3>3 DEF ReadOK
    <3>6. reader'[r].symbiot = q /\ reader'[r].gist = k /\ reader'[r] = reader[r]
      BY <2>2, <3>1, <3>2
    <3> QED BY <3>3, <3>4, <3>5, <3>6 DEF ReadOK
  <2> QED BY <2>3, <2>4
<1> QED BY <1>14, <1>18, <1>19, <1>20, <1>21 DEF IInv

LEMMA FailKeeps == ASSUME IInv, NEW w \in Sweeps, FoldFails(w) PROVE IInv'
BY PassForTyped, GivesUp DEF FoldFails

LEMMA ReadingKeeps == ASSUME IInv, NEW r \in Readers, Reading(r) PROVE IInv'
<1>1. reader[r] \in Read /\ reader \in [Readers -> Read] /\ ReadOK(r)
      /\ gists \in [Symbiots -> Seq(Gist)]
  BY DEF IInv, TypeOK
<1>2. ASSUME NEW s \in Symbiots, Recall(r, s) PROVE IInv'
  <2>1. PICK about \in {{}} \cup {{i} : i \in Stream(s, "said")} :
          reader' = [reader EXCEPT ![r] =
            [IdleRead EXCEPT !.step = "grounded", !.symbiot = s, !.gist = current_gist(s),
                             !.said = Stream(s, "said"), !.exclude = about]]
    BY <1>2 DEF Recall
  <2>2. PICK p : p = [IdleRead EXCEPT !.step = "grounded", !.symbiot = s,
                        !.gist = current_gist(s), !.said = Stream(s, "said"),
                        !.exclude = about]
    OBVIOUS
  <2>3. PICK n \in Nat : n = current_gist(s) /\ n = Len(gists[s])
    <3>1. Len(gists[s]) \in Nat
      BY <1>1
    <3> QED BY <3>1 DEF current_gist
  <2>4. Stream(s, "said") \in SUBSET Ids /\ about \in SUBSET Ids
    BY DEF Stream
  <2>5. p \in Read /\ p.step = "grounded" /\ p.symbiot = s /\ p.gist = n
        /\ p.said = Stream(s, "said")
    BY <2>2, <2>3, <2>4 DEF IdleRead, Read
  <2>6. UNCHANGED <<item, fresh, gists, claimed, sweep>>
    BY <1>2 DEF Recall
  <2>7. reader' = [reader EXCEPT ![r] = p] /\ reader'[r] = p
    BY <1>1, <2>1, <2>2
  <2>8. \A i \in Stream(s, "said") : i <= Cutoff(s, n) => i \in Told(s, n) \cup PassedOver(s)
    BY <2>3 DEF IInv, Accounted, Live, Stream
  <2>9. ReadOK(r)'
    <3>1. Stream(s, "said")' = Stream(s, "said") /\ gists' = gists
      BY <2>6 DEF Stream
    <3>2. /\ Cutoff(s, n)' = Cutoff(s, n) /\ Told(s, n)' = Told(s, n)
          /\ PassedOver(s)' = PassedOver(s)
      BY <3>1, RowsStand
    <3>3. n \in 0 .. Len(gists'[s])
      BY <2>3, <3>1
    <3> QED BY <2>5, <2>7, <2>8, <3>1, <3>2, <3>3 DEF ReadOK
  <2> QED BY <2>5, <2>6, <2>7, <2>9, ReadKeeps
<1>3. ASSUME ReadOn(r) PROVE IInv'
  <2>1. reader[r].step = "grounded" /\ UNCHANGED <<item, fresh, gists, claimed, sweep>>
    BY <1>3 DEF ReadOn
  <2>2. PICK s \in Symbiots : s = reader[r].symbiot
    BY <1>1, <2>1 DEF ReadOK
  <2>3. PICK k \in 0 .. Len(gists[s]) : k = reader[r].gist
    BY <1>1, <2>1, <2>2 DEF ReadOK
  <2>4. PICK tail \in SUBSET Ids : tail = TailPast(s, k) \ reader[r].exclude
    BY DEF TailPast, Stream
  <2>5. PICK p : p = [reader[r] EXCEPT !.step = "done", !.tail = tail]
    OBVIOUS
  <2>6. p \in Read /\ p.step = "done" /\ p.symbiot = s /\ p.gist = k /\ p.tail = tail
        /\ p.said = reader[r].said /\ p.exclude = reader[r].exclude
    BY <1>1, <2>2, <2>3, <2>5 DEF Read
  <2>7. reader' = [reader EXCEPT ![r] = p] /\ reader'[r] = p
    BY <1>1, <1>3, <2>2, <2>3, <2>4, <2>5 DEF ReadOn, TailRead
  <2>8. \A i \in p.said :
          /\ i \in Stream(s, "said")
          /\ i <= Cutoff(s, k) => i \in Told(s, k) \cup PassedOver(s)
    BY <1>1, <2>1, <2>2, <2>3, <2>6 DEF ReadOK
  <2>9. /\ \A i \in tail : Cutoff(s, k) < i
        /\ \A i \in p.said : Cutoff(s, k) < i => i \in tail \cup p.exclude
    BY <2>4, <2>6, <2>8 DEF TailPast
  <2>10. Stream(s, "said")' = Stream(s, "said") /\ gists' = gists
    BY <2>1 DEF Stream
  <2>11. /\ Cutoff(s, k)' = Cutoff(s, k) /\ Told(s, k)' = Told(s, k)
         /\ PassedOver(s)' = PassedOver(s)
    BY <2>10, RowsStand
  <2>12. ReadOK(r)'
    BY <2>6, <2>7, <2>8, <2>9, <2>10, <2>11 DEF ReadOK
  <2> QED BY <2>1, <2>6, <2>7, <2>12, ReadKeeps
<1>4. ASSUME Compose(r) PROVE IInv'
  <2>1. IdleRead \in Read /\ IdleRead.step = "idle"
    BY DEF IdleRead, Read
  <2>2. reader' = [reader EXCEPT ![r] = IdleRead] /\ reader'[r] = IdleRead
        /\ UNCHANGED <<item, fresh, gists, claimed, sweep>>
    BY <1>1, <1>4 DEF Compose
  <2>3. ReadOK(r)'
    BY <2>1, <2>2 DEF ReadOK
  <2> QED BY <2>1, <2>2, <2>3, ReadKeeps
<1> QED BY <1>2, <1>3, <1>4 DEF Reading

LEMMA StepKeeps == IInv /\ [Next]_vars => IInv'
<1> SUFFICES ASSUME IInv, [Next]_vars PROVE IInv'
  OBVIOUS
<1>1. CASE Writing
  BY <1>1, WritingKeeps
<1>2. ASSUME NEW w \in Sweeps, Sweeping(w) PROVE IInv'
  BY <1>2, PickKeeps, ClaimKeeps, ReadGistKeeps, ReadTailKeeps, FoldKeeps, FailKeeps
     DEF Sweeping
<1>3. ASSUME NEW r \in Readers, Reading(r) PROVE IInv'
  BY <1>3, ReadingKeeps
<1>4. CASE UNCHANGED vars
  <2>1. UNCHANGED <<item, fresh, gists, claimed, sweep, reader>>
    BY <1>4 DEF vars
  <2>2. item \in [Ids -> Item] /\ fresh \subseteq Ids /\ IssuedInOrder'
    BY <2>1 DEF IInv, TypeOK, IssuedInOrder, Issued
  <2>3. \A i \in Ids : Issued(i) => Issued(i)'
    BY <2>1 DEF Issued
  <2>4. \A s \in Symbiots : \A i \in Live(s)' : i \in Live(s)
    BY <2>1 DEF Live
  <2> QED BY <2>1, <2>2, <2>3, <2>4, WriteKeeps
<1> QED BY <1>1, <1>2, <1>3, <1>4 DEF Next

(***************************************************************************)
(* The theorems.                                                           *)
(***************************************************************************)

\* IInv holds in every reachable state, however writers, sweeps and readers of
\* however many processes interleave.
THEOREM Inductive == Spec => []IInv
<1>1. Init => IInv
  BY InitOK
<1>2. IInv /\ [Next]_vars => IInv'
  BY StepKeeps
<1> QED BY <1>1, <1>2, PTL DEF Spec

\* Every variable has its type, and no fold is made of no turns.
THEOREM TypeCorrect == Spec => []TypeOK
<1>1. IInv => TypeOK
  BY DEF IInv
<1> QED BY <1>1, Inductive, PTL

\* No turn is folded twice and cutoffs only move forward, with any number of
\* sweeps (claim_fold, record_gist).
THEOREM ExactlyOnce == Spec => []FoldedOnce
<1>1. IInv => FoldedOnce
  <2> SUFFICES ASSUME IInv, NEW s \in Symbiots, NEW k \in DOMAIN gists[s],
                      NEW j \in 1 .. k - 1
               PROVE  /\ gists[s][j].cutoff_item_id < gists[s][k].cutoff_item_id
                      /\ gists[s][j].turns \cap gists[s][k].turns = {}
    BY DEF FoldedOnce
  <2>1. gists[s] \in Seq(Gist) /\ DOMAIN gists[s] = 1 .. Len(gists[s])
    BY DEF IInv, TypeOK
  <2>2. j \in DOMAIN gists[s] /\ j < k
    BY <2>1
  <2>3. Continues(gists[s][j], gists[s][k])
    BY <2>2 DEF IInv, HistoryOK
  <2>4. gists[s][j].turns \subseteq Ids /\ gists[s][j].cutoff_item_id \in Ids
    <3>1. gists[s][j] \in Gist
      BY <2>1, <2>2
    <3> QED BY <3>1 DEF Gist
  <2> QED BY <2>3, <2>4 DEF Continues, Ids
<1> QED BY <1>1, Inductive, PTL

\* Nothing said up to the cutoff is left out of the summary, but what was still
\* being written when a fold read the tail (pending_for_fold).
THEOREM SummaryComplete == Spec => []NothingDropped
<1>1. IInv => NothingDropped
  BY DEF IInv, Accounted, Live, Stream, NothingDropped
<1> QED BY <1>1, Inductive, PTL

\* The summary and the tail a reply reads never overlap (recent).
THEOREM NoOverlap == Spec => []NothingTwice
<1>1. IInv => NothingTwice
  <2> SUFFICES ASSUME IInv, NEW r \in Readers, reader[r].step = "done"
               PROVE  Told(reader[r].symbiot, reader[r].gist) \cap reader[r].tail = {}
    BY DEF NothingTwice
  <2>1. PICK s \in Symbiots : s = reader[r].symbiot
    BY DEF IInv, ReadOK
  <2>2. PICK k \in 0 .. Len(gists[s]) : k = reader[r].gist
    BY <2>1 DEF IInv, ReadOK
  <2>3. \A i \in reader[r].tail : i \in Ids /\ Cutoff(s, k) < i
    BY <2>1, <2>2 DEF IInv, ReadOK, TypeOK, Read
  <2>4. \A i \in Told(s, k) : i \in Ids /\ i <= Cutoff(s, k) /\ Cutoff(s, k) \in Ids
    <3>1. CASE k = 0
      BY <3>1 DEF Told
    <3>2. CASE k # 0
      <4>1. gists[s] \in Seq(Gist)
        BY DEF IInv, TypeOK
      <4>2. k \in DOMAIN gists[s] /\ gists[s][k] \in Gist
        BY <3>2, <4>1
      <4>3. RowOK(gists[s][k])
        BY <4>2 DEF IInv, HistoryOK
      <4> QED BY <3>2, <4>2, <4>3 DEF RowOK, Gist, Told, Cutoff
    <3> QED BY <3>1, <3>2
  <2> QED BY <2>1, <2>2, <2>3, <2>4 DEF Ids
<1> QED BY <1>1, Inductive, PTL

\* The summary and the tail a reply reads cover all that had been said by then,
\* save its own message and what a fold passed over while it was being written.
THEOREM NoGap == Spec => []NothingMissedButOpen
<1>1. IInv => NothingMissedButOpen
  <2> SUFFICES ASSUME IInv, NEW r \in Readers, reader[r].step = "done", NEW i \in reader[r].said
               PROVE  i \in Told(reader[r].symbiot, reader[r].gist) \cup reader[r].tail
                        \cup reader[r].exclude \cup PassedOver(reader[r].symbiot)
    BY DEF NothingMissedButOpen
  <2>1. PICK s \in Symbiots : s = reader[r].symbiot
    BY DEF IInv, ReadOK
  <2>2. PICK k \in 0 .. Len(gists[s]) : k = reader[r].gist
    BY <2>1 DEF IInv, ReadOK
  <2>3. /\ i <= Cutoff(s, k) => i \in Told(s, k) \cup PassedOver(s)
        /\ Cutoff(s, k) < i => i \in reader[r].tail \cup reader[r].exclude
    BY <2>1, <2>2 DEF IInv, ReadOK
  <2>4. i \in Ids /\ Cutoff(s, k) \in Nat
    <3>1. gists[s] \in Seq(Gist) /\ i \in Ids
      BY DEF IInv, TypeOK, Read
    <3>2. k # 0 => gists[s][k] \in Gist
      BY <3>1
    <3>3. CASE k = 0
      BY <3>1, <3>3 DEF Cutoff
    <3>4. CASE k # 0
      <4>1. gists[s][k].cutoff_item_id \in Ids
        BY <3>2, <3>4 DEF Gist
      <4> QED BY <3>1, <3>4, <4>1 DEF Cutoff, Ids
    <3> QED BY <3>3, <3>4
  <2> QED BY <2>1, <2>2, <2>3, <2>4 DEF Ids
<1> QED BY <1>1, Inductive, PTL
===============================================================================
