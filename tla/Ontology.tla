------------------------------- MODULE Ontology -------------------------------
(***************************************************************************)
(* The vocabulary of the diary and the facts filed under it: the ingestion *)
(* sweep (worker._ingest_one, worker.run_ingestion_sweep) routes each      *)
(* concept of a settled message to a type, reusing one or coining one      *)
(* (services/memory/ontology.py), while the merge pass                     *)
(* (services/memory/ontology_gc.py) folds types of one kind into each      *)
(* other, and the deep reach walks from fact to fact by shared type        *)
(* (deep_retrieval.expand_by_concept).                                     *)
(*                                                                         *)
(* What a model answers is a choice here.  An ingestion is one transaction *)
(* from its first read to its fact, and so is a merge pass: a connection   *)
(* of the pool is not in autocommit, so that the transactions mint,        *)
(* persist and collapse open are savepoints (core/db.py, 67 and 101).  A   *)
(* statement sees what is committed when it runs, and what its own         *)
(* transaction wrote; that is kept with the transaction until it commits,  *)
(* and dropped when it fails.                                              *)
(*                                                                         *)
(* type_name is UNIQUE and no row of schema_ontology is ever deleted, so a *)
(* type is known by its name and its id is left out.                       *)
(***************************************************************************)
EXTENDS Naturals, FiniteSets

CONSTANTS
  Names,        \* the type names a model may coin
  Messages,     \* the symbiot's messages, by intake id
  Ingesters,    \* ingestion sweeps: one per kernel on the database
  MaxConcepts,  \* bound on the concepts a message is read as expressing
  None          \* no type, no message

ASSUME NoneAssumption == None \notin Names /\ None \notin Messages
ASSUME MessagesAssumption == Messages \subseteq Nat
ASSUME NamesAssumption == IsFiniteSet(Names)
ASSUME BoundsAssumption == MaxConcepts \in Nat \ {0}

VARIABLES
  onto,      \* schema_ontology: each type's row, and whether it has a vector
  settled,   \* the messages answered or abandoned
  routed,    \* diary_facts: the types each fact was filed under, {} if unfiled
  links,     \* diary_fact_ontology: the types each fact is linked to now
  ingester,  \* where each ingestion is, what it has read and written
  gc         \* where the merge pass is, what it has decided and written

vars == <<onto, settled, routed, links, ingester, gc>>

\* A row of schema_ontology with its row of active_ontology_embedding, if any.
Type == [minted : BOOLEAN, parent : Names \cup {None},
         merged_into : Names \cup {None}, vector : BOOLEAN]

Uncoined == [minted |-> FALSE, parent |-> None, merged_into |-> None, vector |-> FALSE]

\* The rows of schema_ontology a transaction has written, Uncoined where none.
Written == [Names -> Type]

Nothing == [t \in Names |-> Uncoined]

\* An ingestion: its message, the concepts it has yet to route, the types it
\* routed to, those recall offered, the type it is about to insert, and the rows
\* its transaction inserted.
Ingestion ==
  [pc : {"idle", "recall", "judge", "insert", "persist"},
   message : Messages \cup {None}, concepts : 0 .. MaxConcepts,
   got : SUBSET Names, offered : SUBSET Names,
   coined : Names \cup {None}, parent : Names \cup {None}, wrote : Written]

Idle == [pc |-> "idle", message |-> None, concepts |-> 0, got |-> {}, offered |-> {},
         coined |-> None, parent |-> None, wrote |-> Nothing]

\* A merge pass: the clusters it has yet to fold, the one it is folding, the rows
\* its transaction updated, and the links of the facts it re-pointed, else {}.
MergePass == [clusters : SUBSET SUBSET Names,
              survivor : Names \cup {None}, losers : SUBSET Names,
              wrote : Written, links : [Messages -> SUBSET Names]]

AtRest == [clusters |-> {}, survivor |-> None, losers |-> {},
           wrote |-> Nothing, links |-> [m \in Messages |-> {}]]

-----------------------------------------------------------------------------
\* The table as a transaction sees it: READ COMMITTED, its own writes before all.
Seen(wrote) == [t \in Names |-> IF wrote[t].minted THEN wrote[t] ELSE onto[t]]

LinksSeen == [m \in Messages |-> IF gc.links[m] # {} THEN gc.links[m] ELSE links[m]]

\* The types in a table, and those not folded into another.
Minted(table) == {t \in Names : table[t].minted}

Live(table) == {t \in Minted(table) : table[t].merged_into = None}

\* recall_candidates and the nomination of candidate_pairs: the live types that
\* have a vector.  The nearest of them are any of them.
recall_candidates(table) == {t \in Live(table) : table[t].vector}

filed == {m \in Messages : routed[m] # {}}

\* next_uningested: the oldest settled message without a fact.
next_uningested ==
  {m \in settled \ filed : \A n \in settled \ filed : m <= n}

\* cluster: the confirmed pairs stitched together, each class with two or more.
\* A set of types is a class when no pair leaves it and no part of it is closed.
Shut(S, pairs) == \A p \in pairs : p \subseteq S \/ p \cap S = {}

\* Mutant: each pair is a merge of its own.
apart(pairs) == pairs

cluster(pairs) ==
  {S \in SUBSET UNION pairs :
     /\ S # {} /\ Shut(S, pairs)
     /\ \A R \in SUBSET S : Shut(R, pairs) => R \in {{}, S}}

-----------------------------------------------------------------------------
Init ==
  /\ onto = [t \in Names |-> Uncoined]
  /\ settled = {}
  /\ routed = [m \in Messages |-> {}]
  /\ links = [m \in Messages |-> {}]
  /\ ingester = [i \in Ingesters |-> Idle]
  /\ gc = AtRest

\* A message of the symbiot reaches its outcome: answered, or abandoned.
Settle(m) ==
  /\ m \notin settled
  /\ settled' = settled \cup {m}
  /\ UNCHANGED <<onto, routed, links, ingester, gc>>

-----------------------------------------------------------------------------
\* What became of the concept in hand: routed to type t.
Routed(i, t) ==
  LET left == ingester[i].concepts - 1 IN
  [Idle EXCEPT !.pc = IF left = 0 THEN "persist" ELSE "recall",
               !.message = ingester[i].message, !.concepts = left,
               !.got = ingester[i].got \cup {t}, !.wrote = ingester[i].wrote]

\* _ingest_one reads the oldest message that waits, on a connection it lets go
\* of; zone.of's SELECT then opens the transaction of the ingestion, and
\* extract_concepts names at least one concept.
Ingest(i) ==
  /\ ingester[i].pc = "idle"
  /\ \E m \in next_uningested, n \in 1 .. MaxConcepts :
       ingester' = [ingester EXCEPT ![i] =
         [Idle EXCEPT !.pc = "recall", !.message = m, !.concepts = n]]
  /\ UNCHANGED <<onto, settled, routed, links, gc>>

\* route_concept, first half: one read of the live types, before the re-ranking.
Recall(i) ==
  /\ ingester[i].pc = "recall"
  /\ ingester' = [ingester EXCEPT
       ![i].pc = "judge", ![i].offered = recall_candidates(Seen(ingester[i].wrote))]
  /\ UNCHANGED <<onto, settled, routed, links, gc>>

\* The top score is a clear fit, or a grey one the gate confirms.
Reuse(i) ==
  /\ ingester[i].pc = "judge"
  /\ \E t \in ingester[i].offered :
       ingester' = [ingester EXCEPT ![i] = Routed(i, t)]
  /\ UNCHANGED <<onto, settled, routed, links, gc>>

\* mint names a type that is in the table: that one is taken, folded or not.
Renamed(i, t) == t \in Minted(Seen(ingester[i].wrote))

\* mint: the model coins a name and a parent among the types offered, or none,
\* and the name is looked up before its definition is embedded.
Coin(i) ==
  /\ ingester[i].pc = "judge"
  /\ \E t \in Names :
       \/ /\ Renamed(i, t)
          /\ ingester' = [ingester EXCEPT ![i] = Routed(i, t)]
       \/ /\ ~Renamed(i, t)
          /\ \E p \in ingester[i].offered \cup {None} :
               ingester' = [ingester EXCEPT ![i].pc = "insert",
                                            ![i].coined = t, ![i].parent = p]
  /\ UNCHANGED <<onto, settled, routed, links, gc>>

\* Mutant: the row goes without its vector.
InsertBare(wrote, t, p) ==
  IF onto[t].minted THEN wrote
  ELSE [wrote EXCEPT ![t] = [minted |-> TRUE, parent |-> p,
                             merged_into |-> None, vector |-> FALSE]]

\* What mint's INSERT ... ON CONFLICT (type_name) DO NOTHING adds to what the
\* transaction wrote: the row with its vector, or nothing where the name is won.
Insert(wrote, t, p) ==
  IF onto[t].minted THEN wrote
  ELSE [wrote EXCEPT ![t] = [minted |-> TRUE, parent |-> p,
                             merged_into |-> None, vector |-> TRUE]]

\* mint's savepoint.  The INSERT waits for a transaction that holds the name to
\* end; then the name is the winner's row, or free.
Mint(i) ==
  LET t == ingester[i].coined IN
  /\ ingester[i].pc = "insert"
  /\ \A j \in Ingesters \ {i} : ~ingester[j].wrote[t].minted
  /\ ingester' = [ingester EXCEPT ![i] =
       [Routed(i, t) EXCEPT !.wrote = Insert(@, t, ingester[i].parent)]]
  /\ UNCHANGED <<onto, settled, routed, links, gc>>

\* Mutant: the links of a second ingestion land though its fact does not.
persist_links(m, types) ==
  /\ routed' = [routed EXCEPT ![m] = IF m \in filed THEN @ ELSE types]
  /\ links' = [links EXCEPT ![m] = @ \cup types]

\* persist: the fact and a link for each type, unless the message has its fact.
persist(m, types) ==
  IF m \in filed THEN UNCHANGED <<routed, links>>
  ELSE /\ routed' = [routed EXCEPT ![m] = types]
       /\ links' = [links EXCEPT ![m] = types]

\* persist's savepoint, and the commit at the end of _ingest_one's block: the fact
\* lands with the types its ingestion coined.
Persist(i) ==
  /\ ingester[i].pc = "persist"
  /\ persist(ingester[i].message, ingester[i].got)
  /\ onto' = Seen(ingester[i].wrote)
  /\ ingester' = [ingester EXCEPT ![i] = Idle]
  /\ UNCHANGED <<settled, gc>>

\* An embedding or a model call raises, two coiners deadlock on each other's names,
\* or the kernel stops: the whole ingestion is rolled back, and the message is
\* eligible again.  run_ingestion_sweep logs it and goes on.
IngestFails(i) ==
  /\ ingester[i].pc # "idle"
  /\ ingester' = [ingester EXCEPT ![i] = Idle]
  /\ UNCHANGED <<onto, settled, routed, links, gc>>

-----------------------------------------------------------------------------
\* The suspects: pairs of live types close by.
candidate_pairs == {p \in SUBSET recall_candidates(onto) : Cardinality(p) = 2}

\* run_once: the SELECT that opens the transaction of the pass, the pairs the model
\* confirms, and the clusters they are stitched into.
Confirm ==
  /\ gc = AtRest
  /\ \E confirmed \in SUBSET candidate_pairs \ {{}} :
       gc' = [AtRest EXCEPT !.clusters = cluster(confirmed)]
  /\ UNCHANGED <<onto, settled, routed, links, ingester>>

\* pick_survivor, and the rest of its cluster, the losers.
PickSurvivor ==
  /\ gc.losers = {}
  /\ \E group \in gc.clusters : \E s \in group :
       gc' = [gc EXCEPT !.clusters = @ \ {group}, !.survivor = s, !.losers = group \ {s}]
  /\ UNCHANGED <<onto, settled, routed, links, ingester>>

\* Mutant: the loser's links are dropped and none re-pointed.
Dropped(types, survivor, loser) == types \ {loser}

\* A fact's links once the loser's are the survivor's: one that had both keeps one.
Repointed(types, survivor, loser) == (types \ {loser}) \cup {survivor}

\* The parent of a type once the loser's children are the survivor's, and the
\* survivor no child of the loser.
Rehung(table, t, survivor, loser) ==
  IF table[t].parent # loser THEN table[t].parent
  ELSE IF t = survivor THEN None ELSE survivor

\* The loser is left as a redirect, without a vector.
Tombstoned(table, survivor, loser) ==
  [t \in Names |->
     IF t = loser
     THEN [table[t] EXCEPT !.parent = Rehung(table, t, survivor, loser),
                           !.merged_into = survivor, !.vector = FALSE]
     ELSE [table[t] EXCEPT !.parent = Rehung(table, t, survivor, loser)]]

\* What a transaction has written once it turned the table it sees into another.
Updated(wrote, table) ==
  [t \in Names |-> IF table[t] = Seen(wrote)[t] THEN wrote[t] ELSE table[t]]

\* collapse: one savepoint for each loser.  Its statements see the facts and the
\* types committed by now.
Collapse ==
  /\ \E loser \in gc.losers :
       gc' = [gc EXCEPT
         !.losers = @ \ {loser},
         !.wrote = Updated(@, Tombstoned(Seen(@), gc.survivor, loser)),
         !.links = [m \in Messages |->
            IF loser \in LinksSeen[m] THEN Repointed(LinksSeen[m], gc.survivor, loser)
            ELSE @[m]]]
  /\ UNCHANGED <<onto, settled, routed, links, ingester>>

\* The last loser is folded: run_sweep's block ends and all of it is committed.
EndPass ==
  /\ gc # AtRest /\ gc.clusters = {} /\ gc.losers = {}
  /\ onto' = Seen(gc.wrote)
  /\ links' = LinksSeen
  /\ gc' = AtRest
  /\ UNCHANGED <<settled, routed, ingester>>

\* A call raises, or the kernel stops: every collapse of the pass is rolled back.
MergeFails ==
  /\ gc # AtRest
  /\ gc' = AtRest
  /\ UNCHANGED <<onto, settled, routed, links, ingester>>

-----------------------------------------------------------------------------
Ingesting(i) ==
  \/ Ingest(i) \/ Recall(i) \/ Reuse(i) \/ Coin(i) \/ Mint(i) \/ Persist(i)

Merging == Confirm \/ PickSurvivor \/ Collapse \/ EndPass \/ MergeFails

Next ==
  \/ \E m \in Messages : Settle(m)
  \/ \E i \in Ingesters : Ingesting(i) \/ IngestFails(i)
  \/ Merging

Spec == Init /\ [][Next]_vars

-----------------------------------------------------------------------------
\* Every variable has its type; a name not coined has no row; the types with a
\* vector are those the vocabulary still uses, so that recall offers them all and
\* no other; no type is its own parent; a fact is linked to types that are there.
TypeOK ==
  /\ onto \in [Names -> Type]
  /\ \A t \in Names : onto[t].minted \/ onto[t] = Uncoined
  /\ \A t \in Names : onto[t].vector <=> t \in Live(onto)
  /\ \A t \in Names : onto[t].parent # t
  /\ settled \subseteq Messages
  /\ routed \in [Messages -> SUBSET Names]
  /\ links \in [Messages -> SUBSET Minted(onto)]
  /\ ingester \in [Ingesters -> Ingestion]
  /\ gc \in MergePass

\* The types a type leads to by the redirects of a table, itself included.
Closed(table, S) ==
  \A t \in S : table[t].merged_into # None => table[t].merged_into \in S

Resolved(table, t) ==
  {u \in Names : \A S \in SUBSET Names : t \in S /\ Closed(table, S) => u \in S}

\* Facts linked as they were routed: each to something every type it was routed to
\* leads to, and to nothing that no such type leads to.
FiledIn(table, under, linked) ==
  \A m \in Messages :
    /\ \A t \in under[m] : Resolved(table, t) \cap linked[m] # {}
    /\ linked[m] \subseteq UNION {Resolved(table, t) : t \in under[m]}

\* However ingestions and merge passes overlap, commit and roll back, a committed fact
\* stays linked to what its types became and to nothing else.  A pass re-points
\* links it has not committed while others file (ontology_gc.collapse).
FiledAsRouted == FiledIn(onto, routed, links)

\* Each redirect of a table, followed to its end, arrives at a type still in use.
LeadsToLive(table) == \A t \in Minted(table) : Resolved(table, t) \cap Live(table) # {}

\* "So any lingering reference still resolves" (ontology_gc.collapse): however the
\* merges of one pass and of later ones are chained, with the survivor of one the
\* loser of the next, no redirect dangles and none run in a circle.
RedirectsEndLive == LeadsToLive(onto)

\* ontology_gc.cluster: "a fact filed under any member ends up under a single
\* survivor rather than split across sibling merges".  Facts filed under types
\* that have become one reach each other by the walk of expand_by_concept.
expand_by_concept(m) == {n \in filed \ {m} : links[n] \cap links[m] # {}}

MergedFactsMeet ==
  \A m, n \in filed :
    (m # n /\ gc = AtRest /\ \E t \in routed[m], u \in routed[n] :
                Resolved(onto, t) \cap Resolved(onto, u) \cap Live(onto) # {})
    => n \in expand_by_concept(m)
=============================================================================
