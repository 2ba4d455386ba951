------------------------------ MODULE Enrichment ------------------------------
(***************************************************************************)
(* The deep second pass (services/memory/enrichment.py, worker._enrich_one,*)
(* worker.run_enrichment_sweep): once a symbiot has been quiet for the     *)
(* settling interval, the burst of its answered messages that ended there  *)
(* is weighed as one, and at most one follow-up is sent, as a missive.     *)
(*                                                                         *)
(* A pass is one transaction that stays open over model calls, at READ     *)
(* COMMITTED: it picks the burst, then tries the symbiot's advisory lock,  *)
(* then composes, then compares with what was sent before, then writes and *)
(* commits.  Each read sees what has committed by then.                    *)
(*                                                                         *)
(* Time is a count of ticks.  What a model says is a choice; how alike two *)
(* follow-ups are is not modelled, only which of them were compared.       *)
(***************************************************************************)
EXTENDS Naturals, Sequences, FiniteSets

CONSTANTS
  Symbiots,     \* the people
  Sweeps,       \* threads running the sweep, one per kernel process
  MaxMessages,  \* bound on the messages sent
  Horizon,      \* bound on the clock
  Settle,       \* config.ENRICH_SETTLE_SECONDS
  MaxFailures,  \* bound on the passes that fail
  None          \* no symbiot, no sweep

Messages == 1 .. MaxMessages

ASSUME NoneAssumption == None \notin Symbiots \cup Sweeps
ASSUME BoundsAssumption ==
  MaxMessages \in Nat /\ Horizon \in Nat /\ Settle \in Nat /\ MaxFailures \in Nat

VARIABLES
  clock,       \* now()
  intake,      \* the authed rows of intake, by id
  enrichment,  \* the row of enrichment of each message
  missives,    \* the follow-ups sent, in the order they committed
  claimed,     \* the sweep whose transaction holds each symbiot's lock
  pass,        \* where each sweep's pass is, and what it has read
  failures     \* how many passes failed

vars == <<clock, intake, enrichment, missives, claimed, pass, failures>>

\* A message: whose it is, created_at, and whether it has been answered.  To this
\* sweep a message given up is one that waits for its answer for ever.
Message == [symbiot : Symbiots \cup {None}, created_at : 0 .. Horizon,
            status : {"absent", "waiting", "answered"}]

Unsent == [symbiot |-> None, created_at |-> 0, status |-> "absent"]

\* A row of enrichment: no row; a silent pass; an echo held back; a follow-up.
Verdicts == {"none", "silent", "echo", "surfaced"}

\* A follow-up: whose, the burst that prompted it, and, for the properties, the
\* earlier follow-ups it was compared with (by index), or that it was not.
Missive == [symbiot : Symbiots, burst : SUBSET Messages,
            compared : SUBSET Nat, unmeasured : BOOLEAN]

\* A pass: the burst it picked, and what prior_deep_replies gave it.
Pass == [pc : {"idle", "claim", "compose", "record"},
         symbiot : Symbiots \cup {None}, burst : SUBSET Messages,
         verdict : Verdicts, compared : SUBSET Nat, unmeasured : BOOLEAN]

Idle == [pc |-> "idle", symbiot |-> None, burst |-> {}, verdict |-> "none",
         compared |-> {}, unmeasured |-> FALSE]

-----------------------------------------------------------------------------
\* The order of the window: by created_at, then id.
After(m, n) ==
  \/ intake[m].created_at > intake[n].created_at
  \/ intake[m].created_at = intake[n].created_at /\ m > n

\* A symbiot's messages that are answered and not considered yet.
eligible(s) ==
  {m \in Messages : /\ intake[m].symbiot = s
                    /\ intake[m].status = "answered"
                    /\ enrichment[m] = "none"}

\* Mutant: a line without an answer yet holds the lull off.
ends_any(m) ==
  \A n \in Messages :
    intake[n].symbiot = intake[m].symbiot /\ After(n, m)
      => intake[n].created_at - intake[m].created_at > Settle

\* The next eligible message, if any, comes more than the interval later.
ends_burst(m) ==
  \A n \in eligible(intake[m].symbiot) :
    After(n, m) => intake[n].created_at - intake[m].created_at > Settle

\* The run of eligible messages that ends with m.
BurstOf(m) ==
  {n \in eligible(intake[m].symbiot) :
     /\ ~After(n, m)
     /\ \A e \in eligible(intake[m].symbiot) :
          ends_burst(e) /\ After(m, e) => After(n, e)}

\* The ends of the bursts that have had the interval to settle.
Settled ==
  {m \in UNION {eligible(s) : s \in Symbiots} :
     ends_burst(m) /\ clock - intake[m].created_at >= Settle}

\* The message the follow-up is recorded against, the burst's last.
Anchor(burst) == CHOOSE m \in burst : \A n \in burst : ~After(n, m)

\* prior_deep_replies: every follow-up sent to the symbiot, of all time.
prior_deep_replies(s) == {k \in DOMAIN missives : missives[k].symbiot = s}

-----------------------------------------------------------------------------
Init ==
  /\ clock = 0
  /\ intake = [m \in Messages |-> Unsent]
  /\ enrichment = [m \in Messages |-> "none"]
  /\ missives = <<>>
  /\ claimed = [s \in Symbiots |-> None]
  /\ pass = [w \in Sweeps |-> Idle]
  /\ failures = 0

Tick ==
  /\ clock < Horizon
  /\ clock' = clock + 1
  /\ UNCHANGED <<intake, enrichment, missives, claimed, pass, failures>>

\* A symbiot sends a line, early enough to be settled before the clock stops.
Send(s) ==
  /\ clock + Settle <= Horizon
  /\ \E m \in Messages :
       /\ intake[m].status = "absent"
       /\ \A n \in 1 .. m - 1 : intake[n].status # "absent"
       /\ intake' = [intake EXCEPT ![m] =
            [symbiot |-> s, created_at |-> clock, status |-> "waiting"]]
  /\ UNCHANGED <<clock, enrichment, missives, claimed, pass, failures>>

\* mark_answered, however late.
Answer(m) ==
  /\ intake[m].status = "waiting"
  /\ intake' = [intake EXCEPT ![m].status = "answered"]
  /\ UNCHANGED <<clock, enrichment, missives, claimed, pass, failures>>

-----------------------------------------------------------------------------
\* Mutant: the lock belongs to the session.
Kept(w) == claimed

\* The end of a transaction, by commit or rollback: the lock goes with it.
Released(w) == [s \in Symbiots |-> IF claimed[s] = w THEN None ELSE claimed[s]]

\* next_burst_to_enrich: the settled burst whose last id is the lowest.  The
\* lock is not taken yet.
next_burst_to_enrich(w) ==
  /\ pass[w].pc = "idle"
  /\ \E m \in Settled :
       /\ \A n \in Settled : m <= n
       /\ pass' = [pass EXCEPT ![w] =
            [Idle EXCEPT !.pc = "claim", !.symbiot = intake[m].symbiot,
                         !.burst = BurstOf(m)]]
  /\ UNCHANGED <<clock, intake, enrichment, missives, claimed, failures>>

\* Mutant: no lock is taken.
Unlocked(w) ==
  /\ pass[w].pc = "claim"
  /\ pass' = [pass EXCEPT ![w].pc = "compose"]
  /\ UNCHANGED <<clock, intake, enrichment, missives, claimed, failures>>

\* claim: the symbiot's lock, or the pass is over.
claim(w) ==
  /\ pass[w].pc = "claim"
  /\ LET s == pass[w].symbiot IN
     IF claimed[s] = None
     THEN /\ claimed' = [claimed EXCEPT ![s] = w]
          /\ pass' = [pass EXCEPT ![w].pc = "compose"]
     ELSE /\ pass' = [pass EXCEPT ![w] = Idle]
          /\ UNCHANGED claimed
  /\ UNCHANGED <<clock, intake, enrichment, missives, failures>>

\* is_echo_of_prior: the follow-up is compared with all that were sent, unless
\* there are none or the embedder is out of reach, and held back or let through.
is_echo_of_prior(w) ==
  LET priors == prior_deep_replies(pass[w].symbiot)
      Guarded(verdict, compared, unmeasured) ==
        [pass EXCEPT ![w].pc = "record", ![w].verdict = verdict,
                     ![w].compared = compared, ![w].unmeasured = unmeasured]
  IN {Guarded("surfaced", priors, FALSE)} \cup
     IF priors = {} THEN {}
     ELSE {Guarded("echo", priors, FALSE), Guarded("surfaced", {}, TRUE)}

\* deep_search, origin_reference and compose, which read nothing the model tells
\* apart: nothing is worth saying, or a follow-up goes to the guard.
compose(w) ==
  /\ pass[w].pc = "compose"
  /\ pass' \in {[pass EXCEPT ![w].pc = "record", ![w].verdict = "silent"]}
               \cup is_echo_of_prior(w)
  /\ UNCHANGED <<clock, intake, enrichment, missives, claimed, failures>>

\* record_burst: the anchor carries the verdict, the others a silent pass.
record_burst(burst, verdict) ==
  [m \in Messages |->
     IF m \notin burst THEN enrichment[m]
     ELSE IF m = Anchor(burst) THEN verdict ELSE "silent"]

\* Mutant: a row that is there is written over.
WrittenOver(burst, w) == FALSE

\* UNIQUE (intake_id): a member has its row already.
Conflict(burst, w) == \E m \in burst : enrichment[m] # "none"

\* The rest of _enrich_one's transaction: the missive, its line on the stream and
\* a row for each member, or nothing at all.
Record(w) ==
  LET p == pass[w] IN
  /\ p.pc = "record"
  /\ IF Conflict(p.burst, w)
     THEN UNCHANGED <<enrichment, missives>>
     ELSE /\ enrichment' = record_burst(p.burst, p.verdict)
          /\ missives' = IF p.verdict # "surfaced" THEN missives
                         ELSE Append(missives, [symbiot |-> p.symbiot, burst |-> p.burst,
                                compared |-> p.compared, unmeasured |-> p.unmeasured])
  /\ claimed' = Released(w)
  /\ pass' = [pass EXCEPT ![w] = Idle]
  /\ UNCHANGED <<clock, intake, failures>>

\* A model or embedding call raises, or the kernel stops: all is rolled back.
PassFails(w) ==
  /\ pass[w].pc # "idle" /\ failures < MaxFailures
  /\ failures' = failures + 1
  /\ claimed' = Released(w)
  /\ pass' = [pass EXCEPT ![w] = Idle]
  /\ UNCHANGED <<clock, intake, enrichment, missives>>

-----------------------------------------------------------------------------
run_enrichment_sweep(w) ==
  \/ next_burst_to_enrich(w) \/ claim(w) \/ compose(w)
  \/ Record(w) \/ PassFails(w)

Next ==
  \/ Tick
  \/ \E s \in Symbiots : Send(s)
  \/ \E m \in Messages : Answer(m)
  \/ \E w \in Sweeps : run_enrichment_sweep(w)

Spec == Init /\ [][Next]_vars

\* Time goes on, and the sweep looks again after each pass.
FairSpec ==
  Spec /\ WF_vars(Tick) /\ \A w \in Sweeps : WF_vars(run_enrichment_sweep(w))
-----------------------------------------------------------------------------
\* Every variable has its type; a symbiot's lock is held by a pass for it that
\* is past the claim, and every such pass holds it.
TypeOK ==
  /\ clock \in 0 .. Horizon /\ failures \in 0 .. MaxFailures
  /\ intake \in [Messages -> Message]
  /\ enrichment \in [Messages -> Verdicts]
  /\ missives \in Seq(Missive)
  /\ claimed \in [Symbiots -> Sweeps \cup {None}]
  /\ pass \in [Sweeps -> Pass]
  /\ \A w \in Sweeps, s \in Symbiots :
       claimed[s] = w <=> /\ pass[w].symbiot = s
                          /\ pass[w].pc \in {"compose", "record"}

\* Sent and recorded together, once: each follow-up's burst has its last message
\* on record as having surfaced it and the others as silent, and no message was
\* in the bursts of two follow-ups, though a burst is picked before it is locked
\* (worker._enrich_one, "exactly-once falls out of the UNIQUE intake_id").
AnchoredOnce ==
  /\ \A k \in DOMAIN missives :
       LET burst == missives[k].burst IN
       /\ enrichment[Anchor(burst)] = "surfaced"
       /\ \A m \in burst \ {Anchor(burst)} : enrichment[m] = "silent"
  /\ \A j, k \in DOMAIN missives : j # k => missives[j].burst \cap missives[k].burst = {}
  /\ \A m \in Messages :
       enrichment[m] = "surfaced" => \E k \in DOMAIN missives : m = Anchor(missives[k].burst)

\* A follow-up went out only after it was compared with every one sent to its
\* symbiot before it, unless the embedder was out of reach: no two are composed
\* side by side, "neither yet seeing the other's follow-up" (enrichment.claim).
ComparedWithAll ==
  \A j, k \in DOMAIN missives :
    (j < k /\ missives[j].symbiot = missives[k].symbiot /\ ~missives[k].unmeasured)
      => j \in missives[k].compared

\* Every answered message is considered, whatever bursts it falls in and however
\* late its answer comes (record_burst: "none is left eligible to fire again").
AnswerIsConsidered ==
  \A m \in Messages : intake[m].status = "answered" ~> enrichment[m] # "none"
=============================================================================
