--------------------------- MODULE OntologyProofs ---------------------------
(***************************************************************************)
(* That redirects end at live types and facts stay with what their types   *)
(* became, for any number of names, messages and ingesters.                *)
(*                                                                         *)
(* The argument: the tables are followed twice, as committed and as the    *)
(* merge pass sees them with what it has written.  An ingestion that       *)
(* commits adds rows to both, live and of names neither had, for a name    *)
(* held by one open transaction is held by no other.  A collapse changes   *)
(* the pass's view only: it owns the types of the clusters it has yet to   *)
(* fold, which are disjoint sets of types live in its view, so a redirect  *)
(* is added to a type that had none, towards a live one; what led to the   *)
(* loser leads to the survivor too.  The commit of the pass makes its view *)
(* the committed one, and a roll-back the committed one its view.          *)
(***************************************************************************)
EXTENDS Ontology, TLAPS

-----------------------------------------------------------------------------
(* The invariant.                                                          *)

\* The types of the variables.
Shape ==
  /\ onto \in [Names -> Type]
  /\ settled \subseteq Messages
  /\ routed \in [Messages -> SUBSET Names]
  /\ links \in [Messages -> SUBSET Names]
  /\ ingester \in [Ingesters -> Ingestion]
  /\ gc \in MergePass

\* A table's rows: there for the names minted, with a vector for those live, and
\* never under themselves.
Rows(table) ==
  \A t \in Names :
    /\ table[t].minted \/ table[t] = Uncoined
    /\ table[t].vector <=> t \in Live(table)
    /\ table[t].parent # t

\* A row as it is inserted.
Fresh(row, t) ==
  /\ row.minted = TRUE /\ row.merged_into = None
  /\ row.vector = TRUE /\ row.parent # t

\* An ingestion past its first step has a message; one that routes, a concept to
\* route; one about to insert, a name.  The types it has in hand are in the table
\* it sees, and it inserts none under itself.
Working ==
  \A i \in Ingesters :
    /\ ingester[i].pc # "idle" => ingester[i].message \in Messages
    /\ ingester[i].pc \in {"recall", "judge", "insert"} => ingester[i].concepts # 0
    /\ ingester[i].pc = "insert" =>
         /\ ingester[i].coined \in Names
         /\ ingester[i].parent # ingester[i].coined
    /\ \A t \in ingester[i].got \cup ingester[i].offered :
         onto[t].minted \/ ingester[i].wrote[t].minted

\* What ingestions have inserted and not committed: names that are not in the
\* table, each held by one of them.
Pending ==
  /\ \A i \in Ingesters, t \in Names :
       \/ ingester[i].wrote[t] = Uncoined
       \/ Fresh(ingester[i].wrote[t], t) /\ ~onto[t].minted
  /\ \A i, j \in Ingesters, t \in Names :
       ingester[i].wrote[t].minted /\ ingester[j].wrote[t].minted => i = j

\* What a merge pass has in hand: disjoint clusters of types live in its view, and
\* a live survivor with live losers, in none of the clusters left.
Owned(table) ==
  /\ \A A \in gc.clusters : A \subseteq Live(table)
  /\ \A A, B \in gc.clusters : A = B \/ A \cap B = {}
  /\ gc.losers \subseteq Live(table)
  /\ \A A \in gc.clusters : A \cap gc.losers = {}
  /\ gc.losers # {} =>
       /\ gc.survivor \in Live(table) \ gc.losers
       /\ \A A \in gc.clusters : gc.survivor \notin A

\* What it has written: rows of types that are in the table, and links of facts that
\* are filed, to types in the table.
Rewritten ==
  /\ \A t \in Names : gc.wrote[t].minted => onto[t].minted
  /\ \A m \in Messages :
       /\ links[m] \cup gc.links[m] \subseteq Minted(onto)
       /\ links[m] \cup gc.links[m] # {} => routed[m] # {}

IInv ==
  /\ Shape /\ Working /\ Pending /\ Rewritten
  /\ Rows(onto) /\ Rows(Seen(gc.wrote)) /\ Owned(Seen(gc.wrote))

\* Where redirects end and facts are linked, as committed and as the pass sees it.
Leads ==
  /\ LeadsToLive(onto) /\ LeadsToLive(Seen(gc.wrote))
  /\ FiledIn(onto, routed, links) /\ FiledIn(Seen(gc.wrote), routed, LinksSeen)

\* The sentinel is neither a name nor a message.
LEMMA NoneIsNoName == None \notin Names /\ None \notin Messages
BY NoneAssumption

\* The bound is a number.
LEMMA MaxConceptsNat == MaxConcepts \in Nat \ {0}
BY BoundsAssumption

-----------------------------------------------------------------------------
(* Tables: what an insertion and a collapse do to one.                     *)

\* A type leads to itself.
LEMMA LeadsToItself == ASSUME NEW table, NEW t \in Names PROVE t \in Resolved(table, t)
BY DEF Resolved

\* A table that revises no redirect takes nothing from what a type leads to.
LEMMA LeadsStill ==
  ASSUME NEW A, NEW B,
         \A t \in Names : A[t].merged_into # None => B[t].merged_into = A[t].merged_into
  PROVE  \A t \in Names : Resolved(A, t) \subseteq Resolved(B, t)
<1>1. ASSUME NEW S \in SUBSET Names, Closed(B, S) PROVE Closed(A, S)
  BY <1>1 DEF Closed
<1> QED BY <1>1 DEF Resolved

\* Facts stay as they were routed in a table that revises no redirect.
LEMMA FiledStill ==
  ASSUME NEW A, NEW B, NEW under \in [Messages -> SUBSET Names], NEW linked,
         \A t \in Names : Resolved(A, t) \subseteq Resolved(B, t),
         FiledIn(A, under, linked)
  PROVE  FiledIn(B, under, linked)
<1>1. ASSUME NEW m \in Messages, NEW t \in under[m] PROVE Resolved(B, t) \cap linked[m] # {}
  BY DEF FiledIn
<1>2. ASSUME NEW m \in Messages, NEW x \in linked[m]
      PROVE  \E t \in under[m] : x \in Resolved(B, t)
  <2>1. PICK t \in under[m] : x \in Resolved(A, t)
    BY DEF FiledIn
  <2> QED BY <2>1
<1> QED BY <1>1, <1>2 DEF FiledIn

\* One table with rows more than another, each as it is inserted.
Grown(A, B) ==
  \A t \in Names : B[t] = A[t] \/ (A[t] = Uncoined /\ Fresh(B[t], t))

\* Insertions keep the rows in order.
LEMMA GrownRows ==
  ASSUME NEW A, NEW B, Rows(A), Grown(A, B)
  PROVE  Rows(B) /\ Live(A) \subseteq Live(B) /\ Minted(A) \subseteq Minted(B)
<1>1. \A t \in Names : ~Uncoined.minted /\ Uncoined.merged_into = None
  BY DEF Uncoined
<1>2. Minted(A) \subseteq Minted(B)
  BY <1>1 DEF Grown, Minted, Fresh
<1>3. \A t \in Names : A[t].minted => B[t] = A[t]
  BY <1>1 DEF Grown
<1>4. Live(A) \subseteq Live(B)
  BY <1>3 DEF Live, Minted
<1>5. ASSUME NEW t \in Names
      PROVE  /\ B[t].minted \/ B[t] = Uncoined
             /\ B[t].vector <=> t \in Live(B)
             /\ B[t].parent # t
  <2>1. CASE B[t] = A[t]
    <3>1. t \in Live(B) <=> t \in Live(A)
      BY <2>1 DEF Live, Minted
    <3> QED BY <2>1, <3>1 DEF Rows
  <2>2. CASE Fresh(B[t], t)
    BY <2>2 DEF Fresh, Live, Minted
  <2> QED BY <2>1, <2>2 DEF Grown
<1> QED BY <1>2, <1>4, <1>5 DEF Rows

\* Insertions revise no redirect, and a type that is inserted leads to itself.
LEMMA GrownLeads ==
  ASSUME NEW A, NEW B, Rows(A), Grown(A, B), LeadsToLive(A)
  PROVE  LeadsToLive(B) /\ \A t \in Names : Resolved(A, t) \subseteq Resolved(B, t)
<1>1. \A t \in Names : A[t].merged_into # None => B[t].merged_into = A[t].merged_into
  BY DEF Grown, Uncoined
<1>2. \A t \in Names : Resolved(A, t) \subseteq Resolved(B, t)
  BY <1>1, LeadsStill
<1>3. Live(A) \subseteq Live(B)
  BY GrownRows
<1>4. ASSUME NEW t \in Names, B[t].minted PROVE Resolved(B, t) \cap Live(B) # {}
  <2>1. CASE B[t] = A[t]
    BY <1>2, <1>3, <1>4, <2>1 DEF LeadsToLive, Minted
  <2>2. CASE Fresh(B[t], t)
    BY <2>2, LeadsToItself DEF Fresh, Live, Minted
  <2> QED BY <2>1, <2>2 DEF Grown
<1> QED BY <1>2, <1>4 DEF LeadsToLive, Minted

\* A row without a parent is what it is with its parent taken away.
LEMMA NoParent ==
  ASSUME NEW b, NEW n
  PROVE  LET r == [minted |-> b, parent |-> n, merged_into |-> n, vector |-> b]
         IN  [r EXCEPT !.parent = n] = r
OBVIOUS

\* What a collapse does to a table: one live type becomes a redirect to another.
LEMMA CollapseFolds ==
  ASSUME NEW A \in [Names -> Type], Rows(A),
         NEW survivor \in Live(A), NEW loser \in Live(A), loser # survivor,
         NEW B, B = Tombstoned(A, survivor, loser)
  PROVE  /\ B \in [Names -> Type]
         /\ \A t \in Names :
              /\ B[t].minted <=> A[t].minted
              /\ B[t].merged_into = IF t = loser THEN survivor ELSE A[t].merged_into
              /\ ~A[t].minted => B[t] = A[t]
         /\ Minted(B) = Minted(A) /\ Live(B) = Live(A) \ {loser}
         /\ Rows(B)
<1>1. survivor \in Names /\ loser \in Names /\ survivor # None
  BY NoneIsNoName DEF Live, Minted
<1>2. ASSUME NEW t \in Names
      PROVE  /\ Rehung(A, t, survivor, loser) \in Names \cup {None}
             /\ Rehung(A, t, survivor, loser) # t
  BY <1>1, NoneIsNoName DEF Rehung, Type, Rows
<1>3. \A t \in Names :
        B[t] = IF t = loser
               THEN [A[t] EXCEPT !.parent = Rehung(A, t, survivor, loser),
                                 !.merged_into = survivor, !.vector = FALSE]
               ELSE [A[t] EXCEPT !.parent = Rehung(A, t, survivor, loser)]
  BY DEF Tombstoned
<1>4. ASSUME NEW t \in Names
      PROVE  /\ B[t] \in Type
             /\ B[t].minted <=> A[t].minted
             /\ B[t].merged_into = IF t = loser THEN survivor ELSE A[t].merged_into
             /\ B[t].vector <=> t # loser /\ A[t].vector
             /\ B[t].parent # t
  <2>1. PICK r \in Type : r = A[t]
    OBVIOUS
  <2>2. PICK p \in Names \cup {None} : p = Rehung(A, t, survivor, loser) /\ p # t
    BY <1>2
  <2>3. CASE t = loser
    <3>1. B[t] = [r EXCEPT !.parent = p, !.merged_into = survivor, !.vector = FALSE]
      BY <1>3, <2>1, <2>2, <2>3
    <3> QED BY <1>1, <2>1, <2>2, <2>3, <3>1 DEF Type
  <2>4. CASE t # loser
    <3>1. B[t] = [r EXCEPT !.parent = p]
      BY <1>3, <2>1, <2>2, <2>4
    <3> QED BY <2>1, <2>2, <2>4, <3>1 DEF Type
  <2> QED BY <2>3, <2>4
<1>5. ASSUME NEW t \in Names, ~A[t].minted PROVE B[t] = A[t]
  <2>1. A[t] = Uncoined
    BY <1>5 DEF Rows
  <2>2. t # loser
    BY <1>5 DEF Live, Minted
  <2>3. Rehung(A, t, survivor, loser) = None
    BY <1>1, <2>1, NoneIsNoName DEF Rehung, Uncoined
  <2>4. B[t] = [Uncoined EXCEPT !.parent = None]
    BY <1>3, <2>1, <2>2, <2>3
  <2>5. [Uncoined EXCEPT !.parent = None] = Uncoined
    BY NoParent DEF Uncoined
  <2> QED BY <2>1, <2>4, <2>5
<1>6. B \in [Names -> Type]
  BY <1>4 DEF Tombstoned
<1>7. Minted(B) = Minted(A)
  BY <1>4 DEF Minted
<1>8. Live(B) = Live(A) \ {loser}
  BY <1>1, <1>4, <1>7 DEF Live, Minted
<1>9. \A t \in Names : B[t].minted \/ B[t] = Uncoined
  BY <1>4, <1>5 DEF Rows
<1>10. \A t \in Names : B[t].vector <=> t \in Live(B)
  BY <1>4, <1>8 DEF Rows
<1> QED BY <1>4, <1>5, <1>6, <1>7, <1>8, <1>9, <1>10 DEF Rows

\* What led to the loser leads to the survivor, where its links go.
LEMMA CollapseLeads ==
  ASSUME NEW A, NEW B, NEW survivor \in Live(A), NEW loser \in Live(A),
         Live(B) = Live(A) \ {loser}, loser # survivor, Minted(B) = Minted(A),
         \A t \in Names :
           B[t].merged_into = IF t = loser THEN survivor ELSE A[t].merged_into,
         LeadsToLive(A),
         NEW under \in [Messages -> SUBSET Names],
         NEW L, NEW M, FiledIn(A, under, L),
         \A m \in Messages :
           M[m] = IF loser \in L[m] THEN Repointed(L[m], survivor, loser) ELSE L[m]
  PROVE  LeadsToLive(B) /\ FiledIn(B, under, M)
<1>1. /\ survivor \in Names /\ loser \in Names /\ survivor # None
      /\ A[loser].merged_into = None
  BY NoneIsNoName DEF Live, Minted
<1>2. \A t \in Names : Resolved(A, t) \subseteq Resolved(B, t)
  BY <1>1, LeadsStill
<1>3. ASSUME NEW t \in Names, loser \in Resolved(A, t) PROVE survivor \in Resolved(B, t)
  <2>1. loser \in Resolved(B, t)
    BY <1>2, <1>3
  <2>2. ASSUME NEW S \in SUBSET Names, t \in S, Closed(B, S) PROVE survivor \in S
    <3>1. loser \in S
      BY <2>1, <2>2 DEF Resolved
    <3> QED BY <1>1, <2>2, <3>1 DEF Closed
  <2> QED BY <1>1, <2>2 DEF Resolved
<1>4. ASSUME NEW t \in Names, t \in Minted(A) PROVE Resolved(B, t) \cap Live(B) # {}
  <2>1. PICK u \in Resolved(A, t) : u \in Live(A)
    BY <1>4 DEF LeadsToLive
  <2>2. CASE u = loser
    BY <1>3, <2>1, <2>2
  <2>3. CASE u # loser
    BY <1>2, <2>1, <2>3
  <2> QED BY <2>2, <2>3
<1>5. LeadsToLive(B)
  BY <1>4 DEF LeadsToLive, Minted
<1>6. ASSUME NEW m \in Messages, NEW t \in under[m] PROVE Resolved(B, t) \cap M[m] # {}
  <2>1. PICK u \in Resolved(A, t) : u \in L[m]
    BY DEF FiledIn
  <2>2. CASE u = loser
    <3>1. survivor \in Resolved(B, t)
      BY <1>3, <2>1, <2>2
    <3> QED BY <2>1, <2>2, <3>1 DEF Repointed
  <2>3. CASE u # loser
    <3>1. u \in Resolved(B, t)
      BY <1>2, <2>1
    <3> QED BY <2>1, <2>3, <3>1 DEF Repointed
  <2> QED BY <2>2, <2>3
<1>7. ASSUME NEW m \in Messages, NEW x \in M[m]
      PROVE  \E t \in under[m] : x \in Resolved(B, t)
  <2>1. CASE x \in L[m]
    <3>1. PICK t \in under[m] : x \in Resolved(A, t)
      BY <2>1 DEF FiledIn
    <3> QED BY <1>2, <3>1
  <2>2. CASE x \notin L[m]
    <3>1. x = survivor /\ loser \in L[m]
      BY <1>7, <2>2 DEF Repointed
    <3>2. PICK t \in under[m] : loser \in Resolved(A, t)
      BY <3>1 DEF FiledIn
    <3> QED BY <1>3, <3>1, <3>2
  <2> QED BY <2>1, <2>2
<1> QED BY <1>5, <1>6, <1>7 DEF FiledIn

\* Two classes of the stitched pairs that meet are one (ontology_gc.cluster).
LEMMA ClustersApart ==
  ASSUME NEW pairs, NEW A \in cluster(pairs), NEW B \in cluster(pairs), A \cap B # {}
  PROVE  A = B
<1>1. Shut(A, pairs) /\ Shut(B, pairs)
  BY DEF cluster
<1>2. Shut(A \cap B, pairs)
  BY <1>1 DEF Shut
<1>3. A \cap B \in {{}, A}
  BY <1>2 DEF cluster
<1>4. A \cap B \in {{}, B}
  BY <1>2 DEF cluster
<1> QED BY <1>3, <1>4

\* Every class is made of the types of the pairs.
LEMMA ClusterOfPairs ==
  ASSUME NEW V, NEW pairs, pairs \subseteq SUBSET V, NEW A \in cluster(pairs)
  PROVE  A \subseteq V
BY DEF cluster

-----------------------------------------------------------------------------
(* Steps of an ingestion before it commits.                                *)

\* An empty transaction, an idle ingester and a pass at rest have their types.
LEMMA EmptyHanded ==
  /\ Uncoined \in Type /\ Nothing \in Written
  /\ Idle \in Ingestion /\ AtRest \in MergePass
<1>1. Uncoined \in Type
  BY DEF Uncoined, Type
<1>2. Nothing \in Written
  BY <1>1 DEF Nothing, Written
<1>3. Idle \in Ingestion
  BY <1>2, MaxConceptsNat DEF Idle, Ingestion
<1>4. AtRest \in MergePass
  BY <1>2 DEF AtRest, MergePass
<1> QED BY <1>1, <1>2, <1>3, <1>4

\* A transaction that wrote nothing sees the table that is committed.
LEMMA NothingSeen ==
  ASSUME onto \in [Names -> Type]
  PROVE  Seen(Nothing) = onto
BY DEF Seen, Nothing, Uncoined

\* An empty table, an idle ingester and a pass at rest satisfy the invariant.
LEMMA InitIInv == Init => IInv
<1> SUFFICES ASSUME Init PROVE IInv
  OBVIOUS
<1>1. onto = Nothing /\ onto \in [Names -> Type]
  BY EmptyHanded DEF Init, Nothing, Written
<1>2. Shape
  BY <1>1, EmptyHanded DEF Init, Shape
<1>3. \A t \in Names : Nothing[t] = Uncoined
  BY DEF Nothing
<1>4. Working
  BY DEF Init, Working, Idle
<1>5. Pending
  <2>1. \A i \in Ingesters, t \in Names : ingester[i].wrote[t] = Uncoined
    BY <1>3 DEF Init, Idle
  <2>2. ~Uncoined.minted
    BY DEF Uncoined
  <2> QED BY <2>1, <2>2 DEF Pending
<1>6. Rewritten
  BY <1>3 DEF Init, Rewritten, AtRest, Uncoined
<1>7. Rows(onto)
  BY <1>1, <1>3, NoneIsNoName DEF Rows, Live, Minted, Uncoined
<1>8. gc.wrote = Nothing
  BY DEF Init, AtRest
<1>9. Seen(gc.wrote) = onto
  BY <1>1, <1>8, NothingSeen
<1>10. Owned(onto)
  BY DEF Init, Owned, AtRest
<1> QED BY <1>2, <1>4, <1>5, <1>6, <1>7, <1>9, <1>10 DEF IInv

\* A step that leaves the tables, the facts and the pass alone.
LEMMA PassStays ==
  ASSUME IInv, UNCHANGED <<onto, routed, links, gc>>
  PROVE  Rewritten' /\ Rows(onto)' /\ Rows(Seen(gc.wrote))' /\ Owned(Seen(gc.wrote))'
<1>1. Rewritten'
  BY DEF IInv, Rewritten, Minted
<1>2. Seen(gc.wrote)' = Seen(gc.wrote)
  BY DEF Seen
<1>3. Rows(onto)'
  BY DEF IInv, Rows, Live, Minted
<1>4. Rows(Seen(gc.wrote))'
  BY <1>2 DEF IInv, Rows, Live, Minted
<1>5. Owned(Seen(gc.wrote))'
  BY <1>2 DEF IInv, Owned, Live, Minted
<1> QED BY <1>1, <1>3, <1>4, <1>5

\* What an ingestion may turn its record into without a commit: one of its shape,
\* with what its next step needs, and names no other holds.
Sound(i, d) ==
  /\ d.pc # "idle" => d.message \in Messages
  /\ d.pc \in {"recall", "judge", "insert"} => d.concepts # 0
  /\ d.pc = "insert" => d.coined \in Names /\ d.parent # d.coined
  /\ \A t \in d.got \cup d.offered : onto[t].minted \/ d.wrote[t].minted
  /\ \A t \in Names :
       \/ d.wrote[t] = Uncoined
       \/ /\ Fresh(d.wrote[t], t) /\ ~onto[t].minted
          /\ \A j \in Ingesters \ {i} : ~ingester[j].wrote[t].minted

\* One ingester moves, and nothing is committed.
LEMMA IngesterMoves ==
  ASSUME IInv, NEW i \in Ingesters, NEW d \in Ingestion, Sound(i, d),
         ingester' = [ingester EXCEPT ![i] = d],
         UNCHANGED <<onto, settled, routed, links, gc>>
  PROVE  IInv'
<1>1. /\ ingester' \in [Ingesters -> Ingestion] /\ ingester'[i] = d
      /\ \A j \in Ingesters \ {i} : ingester'[j] = ingester[j]
  BY DEF IInv, Shape
<1>2. Working'
  BY <1>1 DEF IInv, Working, Sound
<1>3. ~Uncoined.minted
  BY DEF Uncoined
<1>4. ASSUME NEW j \in Ingesters, NEW t \in Names
      PROVE  \/ ingester'[j].wrote[t] = Uncoined
             \/ Fresh(ingester'[j].wrote[t], t) /\ ~onto'[t].minted
  BY <1>1 DEF IInv, Pending, Sound
<1>5. ASSUME NEW j \in Ingesters, NEW k \in Ingesters, NEW t \in Names,
             ingester'[j].wrote[t].minted, ingester'[k].wrote[t].minted
      PROVE  j = k
  BY <1>1, <1>3, <1>5 DEF IInv, Pending, Sound
<1>6. Pending'
  BY <1>4, <1>5 DEF Pending, Fresh
<1>7. Rewritten' /\ Rows(onto)' /\ Rows(Seen(gc.wrote))' /\ Owned(Seen(gc.wrote))'
  BY PassStays
<1>8. Shape'
  BY <1>1 DEF IInv, Shape
<1> QED BY <1>2, <1>6, <1>7, <1>8 DEF IInv

\* What the record of an ingestion holds of names no other holds.
LEMMA Held ==
  ASSUME IInv, NEW i \in Ingesters, NEW t \in Names
  PROVE  \/ ingester[i].wrote[t] = Uncoined
         \/ /\ Fresh(ingester[i].wrote[t], t) /\ ~onto[t].minted
            /\ \A j \in Ingesters \ {i} : ~ingester[j].wrote[t].minted
BY DEF IInv, Pending, Fresh

\* A message settles.
LEMMA SettleIInv == ASSUME NEW m \in Messages PROVE IInv /\ Settle(m) => IInv'
<1> SUFFICES ASSUME IInv, Settle(m) PROVE IInv'
  OBVIOUS
<1> USE DEF Settle
<1>1. Rewritten' /\ Rows(onto)' /\ Rows(Seen(gc.wrote))' /\ Owned(Seen(gc.wrote))'
  BY PassStays
<1> QED BY <1>1 DEF IInv, Shape, Working, Pending

\* An ingestion picks its message.
LEMMA IngestIInv == ASSUME NEW i \in Ingesters PROVE IInv /\ Ingest(i) => IInv'
<1> SUFFICES ASSUME IInv, Ingest(i) PROVE IInv'
  OBVIOUS
<1>1. PICK m \in next_uningested, n \in 1 .. MaxConcepts :
        ingester' = [ingester EXCEPT ![i] =
          [Idle EXCEPT !.pc = "recall", !.message = m, !.concepts = n]]
  BY DEF Ingest
<1>2. m \in Messages
  BY DEF next_uningested, IInv, Shape
<1>3. n \in 0 .. MaxConcepts /\ n # 0
  BY MaxConceptsNat
<1>4. PICK e \in Ingestion : e = Idle
  BY EmptyHanded
<1> DEFINE d == [e EXCEPT !.pc = "recall", !.message = m, !.concepts = n]
<1>5. /\ d \in Ingestion /\ d.message = m /\ d.pc = "recall" /\ d.concepts = n
      /\ d.got = e.got /\ d.offered = e.offered /\ d.wrote = e.wrote
  BY <1>2, <1>3 DEF Ingestion
<1>6. e.got = {} /\ e.offered = {} /\ \A t \in Names : e.wrote[t] = Uncoined
  BY <1>4 DEF Idle, Nothing
<1>7. Sound(i, d)
  BY <1>2, <1>3, <1>5, <1>6 DEF Sound
<1>8. ingester' = [ingester EXCEPT ![i] = d]
  BY <1>1, <1>4
<1> QED BY <1>5, <1>7, <1>8, IngesterMoves DEF Ingest

\* Recall reads the live types of the table it sees.
LEMMA RecallIInv == ASSUME NEW i \in Ingesters PROVE IInv /\ Recall(i) => IInv'
<1> SUFFICES ASSUME IInv, Recall(i) PROVE IInv'
  OBVIOUS
<1>1. PICK e \in Ingestion : e = ingester[i]
  BY DEF IInv, Shape
<1>2. PICK R : R = recall_candidates(Seen(e.wrote))
  OBVIOUS
<1>3. /\ R \subseteq Names
      /\ \A t \in R : onto[t].minted \/ e.wrote[t].minted
  BY <1>2 DEF recall_candidates, Live, Minted, Seen
<1> DEFINE d == [e EXCEPT !.pc = "judge", !.offered = R]
<1>4. /\ d \in Ingestion /\ d.message = e.message /\ d.pc = "judge"
      /\ d.concepts = e.concepts /\ d.got = e.got /\ d.offered = R /\ d.wrote = e.wrote
  BY <1>3 DEF Ingestion
<1>5. e.message \in Messages /\ e.concepts # 0
  BY <1>1 DEF Recall, IInv, Working
<1>6. \A t \in e.got : onto[t].minted \/ e.wrote[t].minted
  BY <1>1 DEF IInv, Working
<1>7. Sound(i, d)
  BY <1>1, <1>3, <1>4, <1>5, <1>6, Held DEF Sound
<1>8. ingester' = [ingester EXCEPT ![i] = d]
  BY <1>1, <1>2 DEF Recall, IInv, Shape
<1> QED BY <1>4, <1>7, <1>8, IngesterMoves DEF Recall

\* What is left of an ingestion whose concept was routed.
LEMMA RoutedOn ==
  ASSUME IInv, NEW i \in Ingesters, ingester[i].pc \in {"judge", "insert"}, NEW t \in Names
  PROVE  /\ Routed(i, t) \in Ingestion
         /\ Routed(i, t).message \in Messages
         /\ Routed(i, t).pc \in {"recall", "persist"}
         /\ Routed(i, t).pc = "recall" => Routed(i, t).concepts # 0
         /\ Routed(i, t).got = ingester[i].got \cup {t} /\ Routed(i, t).offered = {}
         /\ Routed(i, t).wrote = ingester[i].wrote
<1>1. PICK n \in Nat : n = ingester[i].concepts
  BY MaxConceptsNat DEF IInv, Shape, Ingestion
<1>2. /\ n \in 0 .. MaxConcepts /\ n # 0
      /\ ingester[i].got \in SUBSET Names /\ ingester[i].message \in Messages
      /\ ingester[i].wrote \in Written
  BY <1>1 DEF IInv, Shape, Working, Ingestion
<1>3. n - 1 \in 0 .. MaxConcepts /\ (n - 1 = 0 <=> n = 1)
  BY <1>2, MaxConceptsNat
<1>4. PICK p \in {"persist", "recall"} :
        (p = "persist" <=> n - 1 = 0) /\ p = IF n - 1 = 0 THEN "persist" ELSE "recall"
  OBVIOUS
<1>5. PICK k \in 0 .. MaxConcepts : k = n - 1
  BY <1>3
<1>6. PICK e \in Ingestion : e = Idle
  BY EmptyHanded
<1>7. PICK m \in Messages, g \in SUBSET Names, w \in Written :
        m = ingester[i].message /\ g = ingester[i].got \cup {t} /\ w = ingester[i].wrote
  BY <1>2
<1>8. Routed(i, t) = [e EXCEPT !.pc = p, !.message = m, !.concepts = k, !.got = g, !.wrote = w]
  BY <1>1, <1>4, <1>5, <1>6, <1>7 DEF Routed
<1>9. /\ Routed(i, t) \in Ingestion /\ Routed(i, t).message = m
      /\ Routed(i, t).pc = p /\ Routed(i, t).concepts = k
      /\ Routed(i, t).got = g /\ Routed(i, t).wrote = w /\ Routed(i, t).offered = e.offered
  BY <1>8 DEF Ingestion
<1>10. e.offered = {}
  BY <1>6 DEF Idle
<1> QED BY <1>4, <1>5, <1>7, <1>9, <1>10

\* An ingestion may route its concept to a type in the table it sees.
LEMMA RoutedSound ==
  ASSUME IInv, NEW i \in Ingesters, ingester[i].pc \in {"judge", "insert"},
         NEW t \in Names, onto[t].minted \/ ingester[i].wrote[t].minted
  PROVE  Sound(i, Routed(i, t))
<1>1. PICK d : d = Routed(i, t)
  OBVIOUS
<1>2. \A u \in ingester[i].got : onto[u].minted \/ ingester[i].wrote[u].minted
  BY DEF IInv, Working
<1>3. Sound(i, d)
  BY <1>1, <1>2, RoutedOn, Held DEF Sound
<1> QED BY <1>1, <1>3

\* A concept is routed to a type that was offered.
LEMMA ReuseIInv == ASSUME NEW i \in Ingesters PROVE IInv /\ Reuse(i) => IInv'
<1> SUFFICES ASSUME IInv, Reuse(i) PROVE IInv'
  OBVIOUS
<1>1. PICK t \in ingester[i].offered : ingester' = [ingester EXCEPT ![i] = Routed(i, t)]
  BY DEF Reuse
<1>2. ingester[i].pc = "judge" /\ t \in Names
  BY DEF Reuse, IInv, Shape, Ingestion
<1>3. onto[t].minted \/ ingester[i].wrote[t].minted
  BY DEF IInv, Working
<1>4. PICK d : d = Routed(i, t)
  OBVIOUS
<1>5. d \in Ingestion /\ Sound(i, d)
  BY <1>2, <1>3, <1>4, RoutedOn, RoutedSound
<1> QED BY <1>1, <1>4, <1>5, IngesterMoves DEF Reuse

\* A concept is routed to a type of the name that was coined, or is about to be.
LEMMA CoinIInv == ASSUME NEW i \in Ingesters PROVE IInv /\ Coin(i) => IInv'
<1> SUFFICES ASSUME IInv, Coin(i) PROVE IInv'
  OBVIOUS
<1>1. PICK t \in Names :
        \/ /\ Renamed(i, t)
           /\ ingester' = [ingester EXCEPT ![i] = Routed(i, t)]
        \/ /\ ~Renamed(i, t)
           /\ \E p \in ingester[i].offered \cup {None} :
                ingester' = [ingester EXCEPT ![i].pc = "insert",
                                             ![i].coined = t, ![i].parent = p]
  BY DEF Coin
<1>2. ingester[i].pc = "judge"
  BY DEF Coin
<1>3. Renamed(i, t) <=> onto[t].minted \/ ingester[i].wrote[t].minted
  BY DEF Renamed, Minted, Seen
<1>4. CASE Renamed(i, t) /\ ingester' = [ingester EXCEPT ![i] = Routed(i, t)]
  <2>1. PICK d : d = Routed(i, t)
    OBVIOUS
  <2>2. d \in Ingestion /\ Sound(i, d)
    BY <1>2, <1>3, <1>4, <2>1, RoutedOn, RoutedSound
  <2> QED BY <1>4, <2>1, <2>2, IngesterMoves DEF Coin
<1>5. ASSUME ~Renamed(i, t), NEW p \in ingester[i].offered \cup {None},
             ingester' = [ingester EXCEPT ![i].pc = "insert", ![i].coined = t, ![i].parent = p]
      PROVE  IInv'
  <2>1. PICK e \in Ingestion : e = ingester[i]
    BY DEF IInv, Shape
  <2> DEFINE d == [e EXCEPT !.pc = "insert", !.coined = t, !.parent = p]
  <2>2. p \in Names \cup {None}
    BY <2>1 DEF Ingestion
  <2>3. p # t
    BY <1>3, <1>5, NoneIsNoName DEF IInv, Working
  <2>4. e.message \in Messages /\ e.concepts # 0
    BY <1>2, <2>1 DEF IInv, Working
  <2>5. /\ d \in Ingestion /\ d.message = e.message /\ d.pc = "insert"
        /\ d.concepts = e.concepts /\ d.coined = t /\ d.parent = p
        /\ d.got = e.got /\ d.offered = e.offered /\ d.wrote = e.wrote
    BY <2>2 DEF Ingestion
  <2>6. \A u \in e.got \cup e.offered : onto[u].minted \/ e.wrote[u].minted
    BY <2>1 DEF IInv, Working
  <2>7. Sound(i, d)
    BY <2>1, <2>3, <2>4, <2>5, <2>6, Held DEF Sound
  <2>8. ingester' = [ingester EXCEPT ![i] = d]
    BY <1>5, <2>1 DEF IInv, Shape
  <2> QED BY <2>5, <2>7, <2>8, IngesterMoves DEF Coin
<1> QED BY <1>1, <1>4, <1>5

\* A type is coined in the transaction of its ingestion, or was by another's.
LEMMA MintIInv == ASSUME NEW i \in Ingesters PROVE IInv /\ Mint(i) => IInv'
<1> SUFFICES ASSUME IInv, Mint(i) PROVE IInv'
  OBVIOUS
<1>1. PICK e \in Ingestion : e = ingester[i]
  BY DEF IInv, Shape
<1>2. e.pc = "insert" /\ e.coined \in Names /\ e.parent # e.coined
  BY <1>1 DEF Mint, IInv, Working
<1>3. PICK t \in Names : t = e.coined
  BY <1>2
<1>4. PICK p \in Names \cup {None} : p = e.parent /\ p # t
  BY <1>2, <1>3 DEF Ingestion
<1>5. PICK r : r = Routed(i, t)
  OBVIOUS
<1>6. PICK w : w = Insert(e.wrote, t, p)
  OBVIOUS
<1>7. \A j \in Ingesters \ {i} : ~ingester[j].wrote[t].minted
  BY <1>1, <1>3 DEF Mint
<1>8. /\ r \in Ingestion /\ r.message \in Messages /\ r.pc \in {"recall", "persist"}
      /\ r.pc = "recall" => r.concepts # 0
      /\ r.got = e.got \cup {t} /\ r.offered = {} /\ r.wrote = e.wrote
  BY <1>1, <1>2, <1>5, RoutedOn
<1>9. PICK d : d = [r EXCEPT !.wrote = w]
  OBVIOUS
<1>10. ingester' = [ingester EXCEPT ![i] = d]
  BY <1>1, <1>3, <1>4, <1>5, <1>6, <1>8, <1>9 DEF Mint
<1>11. \A u \in e.got : onto[u].minted \/ e.wrote[u].minted
  BY <1>1 DEF IInv, Working
<1>12. w \in Written
       /\ (onto[t].minted \/ w[t].minted)
       /\ \A u \in Names :
            \/ w[u] = e.wrote[u]
            \/ u = t /\ Fresh(w[u], t) /\ ~onto[t].minted
  <2>1. CASE onto[t].minted
    <3>1. w = e.wrote /\ e.wrote \in Written
      BY <1>6, <2>1 DEF Insert, Ingestion
    <3> QED BY <2>1, <3>1
  <2>2. CASE ~onto[t].minted
    <3>1. PICK row : row = [minted |-> TRUE, parent |-> p, merged_into |-> None, vector |-> TRUE]
      OBVIOUS
    <3>2. row \in Type /\ Fresh(row, t)
      BY <1>4, <3>1 DEF Type, Fresh
    <3>3. w = [e.wrote EXCEPT ![t] = row] /\ e.wrote \in [Names -> Type]
      BY <1>6, <2>2, <3>1 DEF Insert, Ingestion, Written
    <3>4. w \in [Names -> Type] /\ w[t] = row /\ \A u \in Names \ {t} : w[u] = e.wrote[u]
      BY <3>2, <3>3
    <3>5. w[t].minted /\ Fresh(w[t], t)
      BY <3>2, <3>4 DEF Fresh
    <3>6. w \in Written
      BY <3>4 DEF Written
    <3> QED BY <2>2, <3>4, <3>5, <3>6
  <2> QED BY <2>1, <2>2
<1>13. /\ d \in Ingestion /\ d.message = r.message /\ d.pc = r.pc
       /\ d.concepts = r.concepts /\ d.got = r.got /\ d.offered = {} /\ d.wrote = w
  BY <1>8, <1>9, <1>12 DEF Ingestion
<1>14. \A u \in e.got \cup {t} : onto[u].minted \/ w[u].minted
  <2>1. e.got \subseteq Names
    BY DEF Ingestion
  <2> QED BY <1>11, <1>12, <2>1 DEF Fresh
<1>15. \A u \in Names :
         \/ w[u] = Uncoined
         \/ /\ Fresh(w[u], u) /\ ~onto[u].minted
            /\ \A j \in Ingesters \ {i} : ~ingester[j].wrote[u].minted
  BY <1>1, <1>7, <1>12, Held
<1>16. Sound(i, d)
  BY <1>8, <1>13, <1>14, <1>15 DEF Sound
<1> QED BY <1>10, <1>13, <1>16, IngesterMoves DEF Mint

\* An ingestion fails; what it routed and wrote is gone.
LEMMA IngestFailsIInv == ASSUME NEW i \in Ingesters PROVE IInv /\ IngestFails(i) => IInv'
<1> SUFFICES ASSUME IInv, IngestFails(i) PROVE IInv'
  OBVIOUS
<1>1. Idle \in Ingestion /\ Sound(i, Idle)
  BY EmptyHanded DEF Sound, Idle, Nothing
<1> QED BY <1>1, IngesterMoves DEF IngestFails

-----------------------------------------------------------------------------
(* The commit of an ingestion.                                             *)

\* What the commit of an ingestion does: the committed table and the pass's view
\* gain the same rows, of names neither had.
LEMMA CommitGrows ==
  ASSUME IInv, NEW i \in Ingesters, onto' = Seen(ingester[i].wrote), UNCHANGED gc
  PROVE  /\ onto' \in [Names -> Type]
         /\ Grown(onto, onto')
         /\ Grown(Seen(gc.wrote), Seen(gc.wrote)')
         /\ \A t \in Names : onto'[t].minted <=> onto[t].minted \/ ingester[i].wrote[t].minted
<1>1. PICK w \in [Names -> Type] : w = ingester[i].wrote
  BY DEF IInv, Shape, Ingestion, Written
<1>2. \A t \in Names : w[t] = Uncoined \/ (Fresh(w[t], t) /\ ~onto[t].minted)
  BY <1>1 DEF IInv, Pending
<1>3. onto \in [Names -> Type] /\ onto' = [t \in Names |-> IF w[t].minted THEN w[t] ELSE onto[t]]
  BY <1>1 DEF Seen, IInv, Shape
<1>4. onto' \in [Names -> Type]
  BY <1>3
<1>5. ~Uncoined.minted
  BY DEF Uncoined
<1>6. \A t \in Names : onto[t].minted \/ onto[t] = Uncoined
  BY DEF IInv, Rows
<1>7. ASSUME NEW t \in Names
      PROVE  onto'[t] = onto[t] \/ (onto[t] = Uncoined /\ Fresh(onto'[t], t))
  BY <1>2, <1>3, <1>5, <1>6
<1>8. ASSUME NEW t \in Names
      PROVE  Seen(gc.wrote)'[t] = Seen(gc.wrote)[t]
               \/ (Seen(gc.wrote)[t] = Uncoined /\ Fresh(Seen(gc.wrote)'[t], t))
  <2>1. CASE gc.wrote[t].minted
    BY <2>1 DEF Seen
  <2>2. CASE ~gc.wrote[t].minted
    <3>1. Seen(gc.wrote)[t] = onto[t] /\ Seen(gc.wrote)'[t] = onto'[t]
      BY <2>2 DEF Seen
    <3> QED BY <1>7, <3>1
  <2> QED BY <2>1, <2>2
<1>9. ASSUME NEW t \in Names
      PROVE  onto'[t].minted <=> onto[t].minted \/ w[t].minted
  BY <1>2, <1>3 DEF Fresh
<1> QED BY <1>1, <1>4, <1>7, <1>8, <1>9 DEF Grown

\* What the pass has in hand is live in a table that has grown.
LEMMA OwnedStill ==
  ASSUME NEW A, NEW B, Owned(A), Live(A) \subseteq Live(B)
  PROVE  Owned(B)
BY DEF Owned

\* An ingestion commits its types, its fact and the links.
LEMMA PersistIInv == ASSUME NEW i \in Ingesters PROVE IInv /\ Persist(i) => IInv'
<1> SUFFICES ASSUME IInv, Persist(i) PROVE IInv'
  OBVIOUS
<1>1. /\ persist(ingester[i].message, ingester[i].got)
      /\ onto' = Seen(ingester[i].wrote)
      /\ ingester' = [ingester EXCEPT ![i] = Idle]
      /\ UNCHANGED <<settled, gc>>
  BY DEF Persist
<1>2. /\ onto' \in [Names -> Type]
      /\ Grown(onto, onto') /\ Grown(Seen(gc.wrote), Seen(gc.wrote)')
      /\ \A t \in Names : onto'[t].minted <=> onto[t].minted \/ ingester[i].wrote[t].minted
  BY <1>1, CommitGrows
<1>3. PICK n \in Messages, types \in SUBSET Names :
        n = ingester[i].message /\ types = ingester[i].got
  BY DEF Persist, IInv, Shape, Working, Ingestion
<1>4. routed' \in [Messages -> SUBSET Names] /\ links' \in [Messages -> SUBSET Names]
  BY <1>1, <1>3 DEF persist, IInv, Shape
<1>5. /\ ingester' \in [Ingesters -> Ingestion] /\ ingester'[i] = Idle
      /\ \A j \in Ingesters \ {i} : ingester'[j] = ingester[j]
  BY <1>1, EmptyHanded DEF IInv, Shape
<1>6. \A t \in Names : Idle.wrote[t] = Uncoined /\ ~Uncoined.minted
  BY DEF Idle, Nothing, Uncoined
<1>7. Idle.pc = "idle" /\ Idle.got = {} /\ Idle.offered = {}
  BY DEF Idle
<1>8. \A j \in Ingesters : ingester[j].got \subseteq Names /\ ingester[j].offered \subseteq Names
  BY DEF IInv, Shape, Ingestion
<1>9. ASSUME NEW j \in Ingesters
      PROVE  /\ ingester'[j].pc # "idle" => ingester'[j].message \in Messages
             /\ ingester'[j].pc \in {"recall", "judge", "insert"} => ingester'[j].concepts # 0
             /\ ingester'[j].pc = "insert" =>
                  /\ ingester'[j].coined \in Names
                  /\ ingester'[j].parent # ingester'[j].coined
             /\ \A t \in ingester'[j].got \cup ingester'[j].offered :
                  onto'[t].minted \/ ingester'[j].wrote[t].minted
  <2>1. CASE j = i
    BY <1>5, <1>7, <2>1
  <2>2. CASE j # i
    BY <1>2, <1>5, <1>8, <2>2 DEF IInv, Working
  <2> QED BY <2>1, <2>2
<1>10. ASSUME NEW j \in Ingesters, NEW t \in Names
       PROVE  \/ ingester'[j].wrote[t] = Uncoined
              \/ Fresh(ingester'[j].wrote[t], t) /\ ~onto'[t].minted
  <2>1. CASE j = i
    BY <1>5, <1>6, <2>1
  <2>2. CASE j # i
    <3>1. ingester[j].wrote[t].minted => ~ingester[i].wrote[t].minted
      BY <2>2 DEF IInv, Pending
    <3> QED BY <1>2, <1>5, <2>2, <3>1 DEF IInv, Pending, Fresh
  <2> QED BY <2>1, <2>2
<1>11. ASSUME NEW j \in Ingesters, NEW k \in Ingesters, NEW t \in Names,
              ingester'[j].wrote[t].minted, ingester'[k].wrote[t].minted
       PROVE  j = k
  <2>1. j # i /\ k # i
    BY <1>5, <1>6, <1>11
  <2> QED BY <1>5, <1>11, <2>1 DEF IInv, Pending
<1>12. \A t \in Names : gc'.wrote[t].minted => onto'[t].minted
  BY <1>1, <1>2 DEF IInv, Rewritten
<1>13. \A t \in types : t \in Names /\ onto'[t].minted
  BY <1>2, <1>3 DEF IInv, Working
<1>14. \A m \in Messages :
         \/ routed'[m] = routed[m] /\ links'[m] = links[m]
         \/ routed[m] = {} /\ routed'[m] = types /\ links'[m] = types
  BY <1>1, <1>3 DEF persist, filed, IInv, Shape
<1>15. ASSUME NEW m \in Messages
       PROVE  /\ \A x \in links'[m] \cup gc'.links[m] : x \in Names /\ onto'[x].minted
              /\ links'[m] \cup gc'.links[m] # {} => routed'[m] # {}
  <2>1. /\ \A x \in links[m] \cup gc.links[m] : x \in Names /\ onto[x].minted
        /\ links[m] \cup gc.links[m] # {} => routed[m] # {}
    BY DEF IInv, Rewritten, Minted
  <2> QED BY <1>1, <1>2, <1>13, <1>14, <2>1
<1>16. Rewritten'
  BY <1>12, <1>15 DEF Rewritten, Minted
<1>17. Rows(onto')
  BY <1>2, GrownRows DEF IInv
<1>18. PICK A, B : A = Seen(gc.wrote) /\ B = Seen(gc.wrote)'
  OBVIOUS
<1>19. Rows(B) /\ Live(A) \subseteq Live(B)
  BY <1>2, <1>18, GrownRows DEF IInv
<1>20. Owned(B)
  BY <1>18, <1>19, OwnedStill DEF IInv
<1>21. Rows(onto)' /\ Rows(Seen(gc.wrote))'
  BY <1>17, <1>18, <1>19 DEF Rows, Live, Minted
<1>22. Owned(Seen(gc.wrote))'
  BY <1>1, <1>18, <1>20 DEF Owned, Live, Minted
<1>23. Shape'
  BY <1>1, <1>2, <1>4, <1>5 DEF IInv, Shape
<1>24. Working' /\ Pending'
  BY <1>9, <1>10, <1>11 DEF Working, Pending
<1> QED BY <1>16, <1>21, <1>22, <1>23, <1>24 DEF IInv

-----------------------------------------------------------------------------
(* The merge pass.                                                         *)

\* The pass moves without writing.
LEMMA PassMoves ==
  ASSUME IInv, NEW d \in MergePass, gc' = d, d.wrote = gc.wrote, d.links = gc.links,
         Owned(Seen(gc.wrote))', UNCHANGED <<onto, settled, routed, links, ingester>>
  PROVE  IInv'
<1>1. Seen(gc.wrote)' = Seen(gc.wrote)
  BY DEF Seen
<1>2. Rows(onto)'
  BY DEF IInv, Rows, Live, Minted
<1>3. Rows(Seen(gc.wrote))'
  BY <1>1 DEF IInv, Rows, Live, Minted
<1>4. Rewritten'
  BY DEF IInv, Rewritten, Minted
<1>5. Shape' /\ Working' /\ Pending'
  BY DEF IInv, Shape, Working, Pending
<1> QED BY <1>2, <1>3, <1>4, <1>5 DEF IInv

\* The step that draws up the clusters.
LEMMA ConfirmIInv == IInv /\ Confirm => IInv'
<1> SUFFICES ASSUME IInv, Confirm PROVE IInv'
  OBVIOUS
<1>1. PICK confirmed \in SUBSET candidate_pairs \ {{}} :
        gc' = [AtRest EXCEPT !.clusters = cluster(confirmed)]
  BY DEF Confirm
<1>2. gc = AtRest /\ UNCHANGED <<onto, settled, routed, links, ingester>>
  BY DEF Confirm
<1>3. Seen(gc.wrote) = onto
  BY <1>2, NothingSeen DEF AtRest, IInv, Shape
<1>4. confirmed \subseteq SUBSET Live(onto) /\ Live(onto) \subseteq Names
  BY <1>1 DEF candidate_pairs, recall_candidates, Live, Minted
<1>5. PICK K : K = cluster(confirmed)
  OBVIOUS
<1>6. \A A \in K : A \subseteq Live(onto)
  BY <1>4, <1>5, ClusterOfPairs
<1>7. \A A, B \in K : A = B \/ A \cap B = {}
  BY <1>5, ClustersApart
<1>8. PICK e \in MergePass : e = AtRest
  BY EmptyHanded
<1>9. PICK d : d = [e EXCEPT !.clusters = K]
  OBVIOUS
<1>10. K \in SUBSET SUBSET Names
  BY <1>4, <1>6
<1>11. /\ d \in MergePass /\ d.clusters = K /\ d.losers = e.losers
       /\ d.wrote = e.wrote /\ d.links = e.links
  BY <1>9, <1>10 DEF MergePass
<1>12. gc' = d /\ e.losers = {}
  BY <1>1, <1>5, <1>8, <1>9 DEF AtRest
<1>13. Seen(gc.wrote)' = onto
  BY <1>2, <1>3, <1>8, <1>11, <1>12 DEF Seen
<1>14. Owned(Seen(gc.wrote))'
  BY <1>6, <1>7, <1>11, <1>12, <1>13 DEF Owned, Live, Minted
<1> QED BY <1>2, <1>8, <1>11, <1>12, <1>14, PassMoves

\* The step that takes a cluster in hand.
LEMMA PickSurvivorIInv == IInv /\ PickSurvivor => IInv'
<1> SUFFICES ASSUME IInv, PickSurvivor PROVE IInv'
  OBVIOUS
<1>1. PICK group \in gc.clusters : \E s \in group :
        gc' = [gc EXCEPT !.clusters = @ \ {group}, !.survivor = s, !.losers = group \ {s}]
  BY DEF PickSurvivor
<1>2. PICK s \in group :
        gc' = [gc EXCEPT !.clusters = @ \ {group}, !.survivor = s, !.losers = group \ {s}]
  BY <1>1
<1>3. UNCHANGED <<onto, settled, routed, links, ingester>>
  BY DEF PickSurvivor
<1>4. PICK V : V = Seen(gc.wrote)
  OBVIOUS
<1>5. Owned(V) /\ Live(V) \subseteq Names
  BY <1>4 DEF IInv, Live, Minted
<1>6. group \subseteq Live(V) /\ \A A \in gc.clusters \ {group} : A \cap group = {}
  BY <1>5 DEF Owned
<1>7. PICK e \in MergePass : e = gc
  BY DEF IInv, Shape
<1>8. PICK d : d = [e EXCEPT !.clusters = @ \ {group}, !.survivor = s, !.losers = group \ {s}]
  OBVIOUS
<1>9. s \in Names /\ group \ {s} \in SUBSET Names /\ e.clusters \ {group} \in SUBSET SUBSET Names
  BY <1>5, <1>6 DEF MergePass
<1>10. /\ d \in MergePass /\ d.clusters = e.clusters \ {group} /\ d.survivor = s
       /\ d.losers = group \ {s} /\ d.wrote = e.wrote /\ d.links = e.links
  BY <1>8, <1>9 DEF MergePass
<1>11. gc' = d
  BY <1>2, <1>7, <1>8
<1>12. Seen(gc.wrote)' = V
  BY <1>3, <1>4, <1>7, <1>10, <1>11 DEF Seen
<1>13. /\ \A A \in d.clusters : A \subseteq Live(V) /\ A \cap d.losers = {} /\ d.survivor \notin A
       /\ \A A, B \in d.clusters : A = B \/ A \cap B = {}
       /\ d.losers \subseteq Live(V) /\ d.survivor \in Live(V) \ d.losers
  BY <1>5, <1>6, <1>7, <1>10 DEF Owned
<1>14. Owned(Seen(gc.wrote))'
  BY <1>11, <1>12, <1>13 DEF Owned, Live, Minted
<1> QED BY <1>3, <1>7, <1>10, <1>11, <1>14, PassMoves

\* A transaction sees the table it has turned its own into.
LEMMA UpdatedSeen ==
  ASSUME onto \in [Names -> Type], NEW w \in Written, NEW B \in [Names -> Type],
         \A t \in Names : ~Seen(w)[t].minted => B[t] = Seen(w)[t],
         \A t \in Names : B[t].minted <=> Seen(w)[t].minted
  PROVE  /\ Updated(w, B) \in Written
         /\ Seen(Updated(w, B)) = B
         /\ \A t \in Names : Updated(w, B)[t].minted => w[t].minted \/ B[t].minted
<1>1. PICK u : u = Updated(w, B)
  OBVIOUS
<1>2. u = [t \in Names |-> IF B[t] = Seen(w)[t] THEN w[t] ELSE B[t]]
  BY <1>1 DEF Updated
<1>3. u \in Written
  BY <1>2 DEF Written
<1>4. ASSUME NEW t \in Names PROVE Seen(u)[t] = B[t]
  <2>1. Seen(u)[t] = IF u[t].minted THEN u[t] ELSE onto[t]
    BY DEF Seen
  <2>2. Seen(w)[t] = IF w[t].minted THEN w[t] ELSE onto[t]
    BY DEF Seen
  <2>3. CASE B[t] = Seen(w)[t]
    BY <1>2, <2>1, <2>2, <2>3
  <2>4. CASE B[t] # Seen(w)[t]
    <3>1. u[t] = B[t] /\ B[t].minted
      BY <1>2, <2>4
    <3> QED BY <2>1, <3>1
  <2> QED BY <2>3, <2>4
<1>5. Seen(u) = B
  BY <1>4 DEF Seen
<1>6. \A t \in Names : u[t].minted => w[t].minted \/ B[t].minted
  BY <1>2
<1> QED BY <1>1, <1>3, <1>5, <1>6

\* What a collapse does to the view of the pass, and to what it has in hand.
LEMMA CollapseView ==
  ASSUME IInv, NEW loser \in gc.losers, UNCHANGED <<onto, links>>,
         gc' = [gc EXCEPT
           !.losers = @ \ {loser},
           !.wrote = Updated(@, Tombstoned(Seen(@), gc.survivor, loser)),
           !.links = [m \in Messages |->
              IF loser \in LinksSeen[m] THEN Repointed(LinksSeen[m], gc.survivor, loser)
              ELSE @[m]]]
  PROVE  /\ gc' \in MergePass
         /\ gc'.clusters = gc.clusters /\ gc'.survivor = gc.survivor
         /\ gc'.losers = gc.losers \ {loser}
         /\ gc.survivor \in Live(Seen(gc.wrote)) /\ loser \in Live(Seen(gc.wrote))
         /\ loser # gc.survivor
         /\ Seen(gc.wrote)' = Tombstoned(Seen(gc.wrote), gc.survivor, loser)
         /\ \A t \in Names : gc'.wrote[t].minted => onto[t].minted
         /\ \A m \in Messages :
              /\ gc'.links[m] = IF loser \in LinksSeen[m]
                                THEN Repointed(LinksSeen[m], gc.survivor, loser)
                                ELSE gc.links[m]
              /\ LinksSeen'[m] = IF loser \in LinksSeen[m]
                                 THEN Repointed(LinksSeen[m], gc.survivor, loser)
                                 ELSE LinksSeen[m]
<1>1. PICK e \in MergePass : e = gc
  BY DEF IInv, Shape
<1>2. PICK V : V = Seen(gc.wrote)
  OBVIOUS
<1>3. PICK s \in Names : s = gc.survivor
  BY DEF IInv, Owned, Live, Minted
<1>4. Owned(V) /\ Rows(V)
  BY <1>2 DEF IInv
<1>5. s \in Live(V) /\ loser \in Live(V) /\ loser # s /\ loser \in Names
  BY <1>3, <1>4 DEF Owned, Live, Minted
<1>6. onto \in [Names -> Type] /\ e.wrote \in Written /\ e.wrote \in [Names -> Type]
  BY DEF IInv, Shape, MergePass, Written
<1>7. V \in [Names -> Type]
  BY <1>1, <1>2, <1>6 DEF Seen
<1>8. PICK B : B = Tombstoned(V, s, loser)
  OBVIOUS
<1>9. /\ B \in [Names -> Type]
      /\ \A t \in Names : (B[t].minted <=> V[t].minted) /\ (~V[t].minted => B[t] = V[t])
  BY <1>4, <1>5, <1>7, <1>8, CollapseFolds
<1>10. PICK w : w = Updated(e.wrote, B)
  OBVIOUS
<1>11. /\ w \in Written /\ Seen(w) = B
       /\ \A t \in Names : w[t].minted => e.wrote[t].minted \/ B[t].minted
  BY <1>1, <1>2, <1>6, <1>9, <1>10, UpdatedSeen
<1>12. PICK S : S = LinksSeen
  OBVIOUS
<1>13. \A m \in Messages :
         /\ S[m] = IF e.links[m] # {} THEN e.links[m] ELSE links[m]
         /\ S[m] \subseteq Names
  BY <1>1, <1>12 DEF LinksSeen, IInv, Shape, MergePass
<1>14. PICK l : l = [m \in Messages |->
         IF loser \in S[m] THEN Repointed(S[m], s, loser) ELSE e.links[m]]
  OBVIOUS
<1>15. l \in [Messages -> SUBSET Names]
  <2>1. e.links \in [Messages -> SUBSET Names]
    BY DEF MergePass
  <2>2. \A m \in Messages : Repointed(S[m], s, loser) \in SUBSET Names
    BY <1>13 DEF Repointed
  <2> QED BY <1>14, <2>1, <2>2
<1>16. PICK d : d = [e EXCEPT !.losers = @ \ {loser}, !.wrote = w, !.links = l]
  OBVIOUS
<1>17. gc' = d
  BY <1>1, <1>2, <1>3, <1>8, <1>10, <1>12, <1>14, <1>16
<1>18. /\ d \in MergePass /\ d.clusters = e.clusters /\ d.survivor = e.survivor
       /\ d.losers = e.losers \ {loser} /\ d.wrote = w /\ d.links = l
  BY <1>11, <1>15, <1>16 DEF MergePass
<1>19. Seen(gc.wrote)' = B
  BY <1>11, <1>17, <1>18 DEF Seen
<1>20. \A t \in Names : w[t].minted => onto[t].minted
  <2>1. \A t \in Names : e.wrote[t].minted => onto[t].minted
    BY <1>1 DEF IInv, Rewritten
  <2>2. \A t \in Names : V[t] = IF e.wrote[t].minted THEN e.wrote[t] ELSE onto[t]
    BY <1>1, <1>2 DEF Seen
  <2>3. ASSUME NEW t \in Names, V[t].minted PROVE onto[t].minted
    BY <2>1, <2>2, <2>3
  <2> QED BY <1>9, <1>11, <2>1, <2>3
<1>21. ASSUME NEW m \in Messages
       PROVE  LinksSeen'[m] = IF loser \in S[m] THEN Repointed(S[m], s, loser) ELSE S[m]
  <2>1. LinksSeen'[m] = IF l[m] # {} THEN l[m] ELSE links[m]
    BY <1>17, <1>18 DEF LinksSeen
  <2>2. l[m] = IF loser \in S[m] THEN Repointed(S[m], s, loser) ELSE e.links[m]
    BY <1>14
  <2>3. Repointed(S[m], s, loser) # {}
    BY DEF Repointed
  <2> QED BY <1>13, <2>1, <2>2, <2>3
<1>22. \A m \in Messages :
         d.links[m] = IF loser \in S[m] THEN Repointed(S[m], s, loser) ELSE e.links[m]
  BY <1>14, <1>18
<1> QED BY <1>1, <1>2, <1>3, <1>5, <1>8, <1>12, <1>17, <1>18, <1>19, <1>20, <1>21, <1>22

\* A step of Collapse is one such for some loser.
LEMMA CollapseIInv == IInv /\ Collapse => IInv'
<1> SUFFICES ASSUME IInv, Collapse PROVE IInv'
  OBVIOUS
<1>1. UNCHANGED <<onto, settled, routed, links, ingester>>
  BY DEF Collapse
<1>2. PICK loser \in gc.losers :
        gc' = [gc EXCEPT
          !.losers = @ \ {loser},
          !.wrote = Updated(@, Tombstoned(Seen(@), gc.survivor, loser)),
          !.links = [m \in Messages |->
             IF loser \in LinksSeen[m] THEN Repointed(LinksSeen[m], gc.survivor, loser)
             ELSE @[m]]]
  BY DEF Collapse
<1>3. PICK V, B, S : V = Seen(gc.wrote) /\ B = Seen(gc.wrote)' /\ S = LinksSeen
  OBVIOUS
<1>4. PICK s : s = gc.survivor
  OBVIOUS
<1>5. /\ gc' \in MergePass
      /\ gc'.clusters = gc.clusters /\ gc'.survivor = s
      /\ gc'.losers = gc.losers \ {loser}
      /\ s \in Live(V) /\ loser \in Live(V) /\ loser # s
      /\ B = Tombstoned(V, s, loser)
      /\ \A t \in Names : gc'.wrote[t].minted => onto[t].minted
      /\ \A m \in Messages :
           gc'.links[m] = IF loser \in S[m] THEN Repointed(S[m], s, loser) ELSE gc.links[m]
  BY <1>1, <1>2, <1>3, <1>4, CollapseView
<1>6. V \in [Names -> Type] /\ Rows(V) /\ Owned(V)
  BY <1>3 DEF Seen, IInv, Shape, MergePass, Written
<1>7. Live(B) = Live(V) \ {loser} /\ Rows(B)
  BY <1>5, <1>6, CollapseFolds
<1>8. Owned(B)'
  BY <1>4, <1>5, <1>6, <1>7 DEF Owned
<1>9. Owned(Seen(gc.wrote))'
  BY <1>3, <1>8 DEF Owned, Live, Minted
<1>10. Rows(Seen(gc.wrote))'
  BY <1>3, <1>7 DEF Rows, Live, Minted
<1>11. Rows(onto)'
  BY <1>1 DEF IInv, Rows, Live, Minted
<1>12. s \in Names /\ onto[s].minted
  <2>1. \A t \in Names : V[t] = IF gc.wrote[t].minted THEN gc.wrote[t] ELSE onto[t]
    BY <1>3 DEF Seen
  <2> QED BY <1>5, <2>1 DEF Live, Minted, IInv, Rewritten
<1>13. ASSUME NEW m \in Messages
       PROVE  /\ links[m] \cup gc'.links[m] \subseteq Minted(onto)
              /\ links[m] \cup gc'.links[m] # {} => routed[m] # {}
  <2>1. /\ links[m] \cup gc.links[m] \subseteq Minted(onto)
        /\ links[m] \cup gc.links[m] # {} => routed[m] # {}
    BY DEF IInv, Rewritten
  <2>2. S[m] \subseteq links[m] \cup gc.links[m]
    BY <1>3 DEF LinksSeen
  <2>3. s \in Minted(onto)
    BY <1>12 DEF Minted
  <2>4. CASE loser \in S[m]
    <3>1. gc'.links[m] = (S[m] \ {loser}) \cup {s}
      BY <1>5, <2>4 DEF Repointed
    <3> QED BY <2>1, <2>2, <2>3, <2>4, <3>1
  <2>5. CASE loser \notin S[m]
    <3>1. gc'.links[m] = gc.links[m]
      BY <1>5, <2>5
    <3> QED BY <2>1, <3>1
  <2> QED BY <2>4, <2>5
<1>14. Rewritten'
  BY <1>1, <1>5, <1>13 DEF Rewritten, Minted
<1>15. Shape' /\ Working' /\ Pending'
  BY <1>1, <1>5 DEF IInv, Shape, Working, Pending
<1> QED BY <1>9, <1>10, <1>11, <1>14, <1>15 DEF IInv

\* A pass at rest has nothing in hand and sees the committed table.
LEMMA RestIInv ==
  ASSUME gc' = AtRest, Shape', Working', Pending', Rows(onto)',
         \A m \in Messages : links'[m] \subseteq Minted(onto)' /\ (links'[m] # {} => routed'[m] # {})
  PROVE  IInv'
<1>1. gc'.wrote = Nothing /\ gc'.clusters = {} /\ gc'.losers = {}
      /\ \A m \in Messages : gc'.links[m] = {}
  BY DEF AtRest
<1>2. \A t \in Names : Nothing[t] = Uncoined /\ ~Uncoined.minted
  BY DEF Nothing, Uncoined
<1>3. onto' \in [Names -> Type]
  BY DEF Shape
<1>4. Seen(gc.wrote)' = onto'
  BY <1>1, <1>2, <1>3 DEF Seen
<1>5. Rows(Seen(gc.wrote))'
  BY <1>4 DEF Rows, Live, Minted
<1>6. Owned(Seen(gc.wrote))'
  BY <1>1 DEF Owned
<1>7. Rewritten'
  BY <1>1, <1>2 DEF Rewritten
<1> QED BY <1>5, <1>6, <1>7 DEF IInv

\* The pass that fails drops what it wrote.
LEMMA MergeFailsIInv == IInv /\ MergeFails => IInv'
<1> SUFFICES ASSUME IInv, MergeFails PROVE IInv'
  OBVIOUS
<1>1. gc' = AtRest /\ UNCHANGED <<onto, settled, routed, links, ingester>>
  BY DEF MergeFails
<1>2. Shape' /\ Working' /\ Pending'
  BY <1>1, EmptyHanded DEF IInv, Shape, Working, Pending
<1>3. Rows(onto)'
  BY <1>1 DEF IInv, Rows, Live, Minted
<1>4. \A m \in Messages :
        links'[m] \subseteq Minted(onto)' /\ (links'[m] # {} => routed'[m] # {})
  BY <1>1 DEF IInv, Rewritten, Minted
<1> QED BY <1>1, <1>2, <1>3, <1>4, RestIInv

\* The pass that ends commits its view.
LEMMA EndPassIInv == IInv /\ EndPass => IInv'
<1> SUFFICES ASSUME IInv, EndPass PROVE IInv'
  OBVIOUS
<1>1. /\ gc' = AtRest /\ UNCHANGED <<settled, routed, ingester>>
      /\ onto' = Seen(gc.wrote) /\ links' = LinksSeen
  BY DEF EndPass
<1>2. PICK w \in [Names -> Type] : w = gc.wrote
  BY DEF IInv, Shape, MergePass, Written
<1>3. onto' = [t \in Names |-> IF w[t].minted THEN w[t] ELSE onto[t]]
  BY <1>1, <1>2 DEF Seen
<1>4. onto' \in [Names -> Type]
  BY <1>2, <1>3 DEF IInv, Shape
<1>5. ASSUME NEW t \in Names PROVE onto'[t].minted <=> onto[t].minted
  BY <1>2, <1>3 DEF IInv, Rewritten
<1>6. \A m \in Messages : links'[m] = IF gc.links[m] # {} THEN gc.links[m] ELSE links[m]
  BY <1>1 DEF LinksSeen
<1>7. links' \in [Messages -> SUBSET Names]
  BY <1>1 DEF LinksSeen, IInv, Shape, MergePass
<1>8. Shape'
  BY <1>1, <1>4, <1>7, EmptyHanded DEF IInv, Shape
<1>9. \A j \in Ingesters : ingester[j].got \subseteq Names /\ ingester[j].offered \subseteq Names
  BY DEF IInv, Shape, Ingestion
<1>10. Working'
  BY <1>1, <1>5, <1>9 DEF IInv, Working
<1>11. Pending'
  BY <1>1, <1>5 DEF IInv, Pending
<1>12. Rows(onto)'
  BY <1>1 DEF IInv, Rows, Live, Minted
<1>13. \A m \in Messages :
         links'[m] \subseteq Minted(onto)' /\ (links'[m] # {} => routed'[m] # {})
  BY <1>1, <1>5, <1>6 DEF IInv, Rewritten, Minted
<1> QED BY <1>1, <1>8, <1>10, <1>11, <1>12, <1>13, RestIInv

-----------------------------------------------------------------------------
(* Types.                                                                  *)

\* Nothing changes.
LEMMA StutterIInv == IInv /\ UNCHANGED vars => IInv'
<1> SUFFICES ASSUME IInv, UNCHANGED vars PROVE IInv'
  OBVIOUS
<1>1. Rewritten' /\ Rows(onto)' /\ Rows(Seen(gc.wrote))' /\ Owned(Seen(gc.wrote))'
  BY PassStays DEF vars
<1> QED BY <1>1 DEF IInv, Shape, Working, Pending, vars

\* The invariant is inductive.
LEMMA NextIInv == IInv /\ [Next]_vars => IInv'
<1> SUFFICES ASSUME IInv, [Next]_vars PROVE IInv'
  OBVIOUS
<1>1. ASSUME NEW m \in Messages, Settle(m) PROVE IInv'
  BY <1>1, SettleIInv
<1>2. ASSUME NEW i \in Ingesters, Ingesting(i) PROVE IInv'
  BY <1>2, IngestIInv, RecallIInv, ReuseIInv, CoinIInv, MintIInv, PersistIInv DEF Ingesting
<1>3. ASSUME NEW i \in Ingesters, IngestFails(i) PROVE IInv'
  BY <1>3, IngestFailsIInv
<1>4. ASSUME Merging PROVE IInv'
  BY <1>4, ConfirmIInv, PickSurvivorIInv, CollapseIInv, EndPassIInv, MergeFailsIInv DEF Merging
<1>5. CASE UNCHANGED vars
  BY <1>5, StutterIInv
<1> QED BY <1>1, <1>2, <1>3, <1>4, <1>5 DEF Next

\* Ontology!TypeOK for any number of names, messages and ingesters: in the committed
\* tables the types with a vector are the live ones, none is its own parent, and links
\* are to types that are there, through ingestions that wait for each other's names,
\* commits and roll-backs (ontology.mint, worker._ingest_one, ontology_gc.collapse).
THEOREM TypeCorrect == Spec => []TypeOK
<1>1. Init => IInv
  BY InitIInv
<1>2. IInv /\ [Next]_vars => IInv'
  BY NextIInv
<1>3. IInv => TypeOK
  <2> SUFFICES ASSUME IInv PROVE TypeOK
    OBVIOUS
  <2>1. \A m \in Messages : links[m] \subseteq Minted(onto)
    BY DEF IInv, Rewritten
  <2>2. links \in [Messages -> SUBSET Minted(onto)]
    BY <2>1 DEF IInv, Shape
  <2> QED BY <2>2 DEF IInv, Shape, Rows, TypeOK
<1> QED BY <1>1, <1>2, <1>3, PTL DEF Spec

-----------------------------------------------------------------------------
(* Redirects and links.                                                    *)

\* A step that leaves the facts, the committed tables and the pass's alone.
LEMMA LeadsStay ==
  ASSUME Leads, UNCHANGED <<onto, routed, links>>,
         gc'.wrote = gc.wrote, gc'.links = gc.links
  PROVE  Leads'
<1>1. Seen(gc.wrote)' = Seen(gc.wrote)
  BY DEF Seen
<1>2. LinksSeen' = LinksSeen
  BY DEF LinksSeen
<1> QED BY <1>1, <1>2 DEF Leads, LeadsToLive, FiledIn, Minted, Live, Resolved, Closed

\* A commit of an ingestion adds rows that lead to themselves, in both tables, and a
\* fact linked to the very types it is routed to.
LEMMA PersistLeads ==
  ASSUME IInv, Leads, NEW i \in Ingesters, Persist(i)
  PROVE  Leads'
<1>1. /\ persist(ingester[i].message, ingester[i].got)
      /\ onto' = Seen(ingester[i].wrote) /\ gc' = gc
  BY DEF Persist
<1>2. PICK A, B, V, W : A = onto /\ B = onto' /\ V = Seen(gc.wrote) /\ W = Seen(gc.wrote)'
  OBVIOUS
<1>3. Grown(A, B) /\ Grown(V, W)
  BY <1>1, <1>2, CommitGrows
<1>4. Rows(A) /\ Rows(V) /\ LeadsToLive(A) /\ LeadsToLive(V)
  BY <1>2 DEF IInv, Leads
<1>5. /\ LeadsToLive(B) /\ \A t \in Names : Resolved(A, t) \subseteq Resolved(B, t)
      /\ LeadsToLive(W) /\ \A t \in Names : Resolved(V, t) \subseteq Resolved(W, t)
  BY <1>3, <1>4, GrownLeads
<1>6. PICK L, S : L = links /\ S = LinksSeen
  OBVIOUS
<1>7. PICK R \in [Messages -> SUBSET Names] : R = routed
  BY DEF IInv, Shape
<1>8. FiledIn(B, R, L) /\ FiledIn(W, R, S)
  BY <1>2, <1>5, <1>6, <1>7, FiledStill DEF Leads
<1>9. PICK types \in SUBSET Names : types = ingester[i].got
  BY DEF IInv, Shape, Ingestion
<1>10. PICK Q, M, T : Q = routed' /\ M = links' /\ T = LinksSeen'
  OBVIOUS
<1>11. \A m \in Messages :
         \/ Q[m] = R[m] /\ M[m] = L[m]
         \/ R[m] = {} /\ Q[m] = types /\ M[m] = types
  BY <1>1, <1>6, <1>7, <1>9, <1>10 DEF persist, filed, IInv, Shape
<1>12. \A m \in Messages :
         /\ T[m] = IF gc.links[m] # {} THEN gc.links[m] ELSE M[m]
         /\ S[m] = IF gc.links[m] # {} THEN gc.links[m] ELSE L[m]
         /\ gc.links[m] # {} => R[m] # {}
  BY <1>1, <1>6, <1>7, <1>10 DEF LinksSeen, IInv, Rewritten
<1>13. \A m \in Messages :
         \/ Q[m] = R[m] /\ T[m] = S[m]
         \/ Q[m] = types /\ T[m] = types
  BY <1>11, <1>12
<1>14. FiledIn(B, Q, M)
  BY <1>8, <1>11, LeadsToItself DEF FiledIn
<1>15. FiledIn(W, Q, T)
  BY <1>8, <1>13, LeadsToItself DEF FiledIn
<1> QED BY <1>2, <1>5, <1>10, <1>14, <1>15
        DEF Leads, LeadsToLive, FiledIn, Minted, Live, Resolved, Closed

\* A collapse turns the pass's view into one with one redirect more.
LEMMA CollapseStepLeads ==
  ASSUME IInv, Leads, Collapse
  PROVE  Leads'
<1>1. UNCHANGED <<onto, routed, links>>
  BY DEF Collapse
<1>2. PICK loser \in gc.losers :
        gc' = [gc EXCEPT
          !.losers = @ \ {loser},
          !.wrote = Updated(@, Tombstoned(Seen(@), gc.survivor, loser)),
          !.links = [m \in Messages |->
             IF loser \in LinksSeen[m] THEN Repointed(LinksSeen[m], gc.survivor, loser)
             ELSE @[m]]]
  BY DEF Collapse
<1>3. PICK V, W, S, T, s :
        /\ V = Seen(gc.wrote) /\ W = Seen(gc.wrote)'
        /\ S = LinksSeen /\ T = LinksSeen' /\ s = gc.survivor
  OBVIOUS
<1>4. /\ s \in Live(V) /\ loser \in Live(V) /\ loser # s
      /\ W = Tombstoned(V, s, loser)
      /\ \A m \in Messages : T[m] = IF loser \in S[m] THEN Repointed(S[m], s, loser) ELSE S[m]
  BY <1>1, <1>2, <1>3, CollapseView
<1>5. V \in [Names -> Type] /\ Rows(V)
  BY <1>3 DEF Seen, IInv, Shape, MergePass, Written
<1>6. /\ \A t \in Names : W[t].merged_into = IF t = loser THEN s ELSE V[t].merged_into
      /\ Minted(W) = Minted(V) /\ Live(W) = Live(V) \ {loser}
  BY <1>4, <1>5, CollapseFolds
<1>7. PICK R \in [Messages -> SUBSET Names] : R = routed
  BY DEF IInv, Shape
<1>8. LeadsToLive(V) /\ FiledIn(V, R, S)
  BY <1>3, <1>7 DEF Leads
<1>9. LeadsToLive(W) /\ FiledIn(W, R, T)
  BY <1>4, <1>6, <1>8, CollapseLeads
<1>10. LeadsToLive(onto)' /\ FiledIn(onto, routed, links)'
  BY <1>1 DEF Leads, LeadsToLive, FiledIn, Minted, Live, Resolved, Closed
<1>11. LeadsToLive(Seen(gc.wrote))' /\ FiledIn(Seen(gc.wrote), routed, LinksSeen)'
  BY <1>1, <1>3, <1>7, <1>9 DEF LeadsToLive, FiledIn, Minted, Live, Resolved, Closed
<1> QED BY <1>10, <1>11 DEF Leads

\* A pass at rest sees what is committed.
LEMMA RestLeads ==
  ASSUME gc' = AtRest, onto' \in [Names -> Type], links' \in [Messages -> SUBSET Names],
         LeadsToLive(onto)', FiledIn(onto, routed, links)'
  PROVE  Leads'
<1>1. gc'.wrote = Nothing /\ gc'.links = [m \in Messages |-> {}]
  BY DEF AtRest
<1>2. \A t \in Names : Nothing[t] = Uncoined /\ ~Uncoined.minted
  BY DEF Nothing, Uncoined
<1>3. Seen(gc.wrote)' = onto'
  BY <1>1, <1>2 DEF Seen
<1>4. LinksSeen' = links'
  BY <1>1 DEF LinksSeen
<1> QED BY <1>3, <1>4 DEF Leads, LeadsToLive, FiledIn, Minted, Live, Resolved, Closed

\* The pass that ends makes its view the committed one.
LEMMA EndPassLeads ==
  ASSUME IInv, Leads, EndPass
  PROVE  Leads'
<1>1. gc' = AtRest /\ routed' = routed /\ onto' = Seen(gc.wrote) /\ links' = LinksSeen
  BY DEF EndPass
<1>2. onto' \in [Names -> Type] /\ links' \in [Messages -> SUBSET Names]
  BY <1>1, EndPassIInv DEF IInv, Shape
<1>3. LeadsToLive(onto)' /\ FiledIn(onto, routed, links)'
  BY <1>1 DEF Leads, LeadsToLive, FiledIn, Minted, Live, Resolved, Closed
<1> QED BY <1>1, <1>2, <1>3, RestLeads

\* The pass that fails makes the committed tables its view.
LEMMA MergeFailsLeads ==
  ASSUME IInv, Leads, MergeFails
  PROVE  Leads'
<1>1. gc' = AtRest /\ UNCHANGED <<onto, routed, links>>
  BY DEF MergeFails
<1>2. LeadsToLive(onto)' /\ FiledIn(onto, routed, links)'
  BY <1>1 DEF Leads, LeadsToLive, FiledIn, Minted, Live, Resolved, Closed
<1> QED BY <1>1, <1>2, RestLeads DEF IInv, Shape

\* Drawing up clusters and picking one writes nothing.
LEMMA DecisionLeads ==
  ASSUME IInv, Leads, Confirm \/ PickSurvivor
  PROVE  Leads'
<1>1. UNCHANGED <<onto, routed, links>>
  BY DEF Confirm, PickSurvivor
<1>2. gc'.wrote = gc.wrote /\ gc'.links = gc.links
  BY DEF Confirm, PickSurvivor, AtRest, IInv, Shape, MergePass
<1> QED BY <1>1, <1>2, LeadsStay

\* Every step keeps what redirects and links mean, as committed and as the pass sees it.
LEMMA NextLeads == IInv /\ Leads /\ [Next]_vars => Leads'
<1> SUFFICES ASSUME IInv, Leads, [Next]_vars PROVE Leads'
  OBVIOUS
<1>1. CASE UNCHANGED <<onto, routed, links, gc>>
  BY <1>1, LeadsStay
<1>2. ASSUME NEW m \in Messages, Settle(m) PROVE Leads'
  BY <1>1, <1>2 DEF Settle
<1>3. ASSUME NEW i \in Ingesters, Persist(i) PROVE Leads'
  BY <1>3, PersistLeads
<1>4. ASSUME NEW i \in Ingesters, Ingesting(i) \/ IngestFails(i)
      PROVE  UNCHANGED <<onto, routed, links, gc>> \/ Persist(i)
  BY <1>4 DEF Ingesting, IngestFails, Ingest, Recall, Reuse, Coin, Mint
<1>5. CASE Merging
  BY <1>5, DecisionLeads, CollapseStepLeads, EndPassLeads, MergeFailsLeads DEF Merging
<1>6. CASE UNCHANGED vars
  BY <1>1, <1>6 DEF vars
<1> QED BY <1>1, <1>2, <1>3, <1>4, <1>5, <1>6 DEF Next

\* Nothing is minted or filed at first.
LEMMA InitLeads == Init => Leads
<1> SUFFICES ASSUME Init PROVE Leads
  OBVIOUS
<1>1. onto = Nothing /\ \A t \in Names : ~Nothing[t].minted
  BY DEF Init, Nothing, Uncoined
<1>2. gc.wrote = Nothing /\ \A m \in Messages : gc.links[m] = {}
  BY DEF Init, AtRest
<1>3. \A t \in Names : ~Seen(gc.wrote)[t].minted
  BY <1>1, <1>2 DEF Seen
<1>4. LeadsToLive(onto) /\ LeadsToLive(Seen(gc.wrote))
  BY <1>1, <1>3 DEF LeadsToLive, Minted
<1>5. \A m \in Messages : routed[m] = {} /\ links[m] = {} /\ LinksSeen[m] = {}
  BY <1>2 DEF Init, LinksSeen
<1>6. FiledIn(onto, routed, links) /\ FiledIn(Seen(gc.wrote), routed, LinksSeen)
  BY <1>5 DEF FiledIn
<1> QED BY <1>4, <1>6 DEF Leads

\* Ontology!RedirectsEndLive: whatever merges were chained in one pass and across passes,
\* committed or rolled back while ingestions went on, every type in the table leads
\* to one in use (ontology_gc.cluster, collapse, run_once).
THEOREM RedirectsResolve == Spec => []RedirectsEndLive
<1>1. Init => IInv /\ Leads
  BY InitIInv, InitLeads
<1>2. IInv /\ Leads /\ [Next]_vars => (IInv /\ Leads)'
  BY NextIInv, NextLeads
<1>3. Leads => RedirectsEndLive
  BY DEF Leads, RedirectsEndLive
<1> QED BY <1>1, <1>2, <1>3, PTL DEF Spec

\* Ontology!FiledAsRouted: a committed fact is linked to what its types led to, and to
\* nothing else, whichever ingestions commit while a merge pass holds re-pointed
\* links it has not committed (ontology.persist, ontology_gc.collapse, run_sweep).
THEOREM FactsFollowTheirTypes == Spec => []FiledAsRouted
<1>1. Init => IInv /\ Leads
  BY InitIInv, InitLeads
<1>2. IInv /\ Leads /\ [Next]_vars => (IInv /\ Leads)'
  BY NextIInv, NextLeads
<1>3. Leads => FiledAsRouted
  BY DEF Leads, FiledAsRouted
<1> QED BY <1>1, <1>2, <1>3, PTL DEF Spec
=============================================================================
