------------------------------- MODULE Intake -------------------------------
(***************************************************************************)
(* The answer guarantee's machinery: the intake table                      *)
(* (services/memory/intake.py), the pool of workers that answers messages  *)
(* and the reconcile sweep beside it (services/loop/worker.py), the        *)
(* kernel's start-up recovery (main.py, lifespan) and the three routes a   *)
(* shell reaches a message through (main.py: /intake, /answers,            *)
(* /answers/delivered).                                                    *)
(*                                                                         *)
(* Every committed transaction is one step.  A row lock is explicit only   *)
(* where a second transaction can run into it: the claim, which locks its  *)
(* row and then writes it.  The reconcile pass's three statements touch    *)
(* rows independently of one another, so they are one step.                *)
(*                                                                         *)
(* Time is the flag "overdue": that a row has kept its status longer than  *)
(* INTAKE_DEADLINE_SECONDS.  It may come up at any moment of a working     *)
(* row's life, also while its worker is alive: one attempt makes up to     *)
(* three calls of run_with_deadline (four with the judging call), each     *)
(* with the whole of that deadline to itself, after reads that have none.  *)
(***************************************************************************)
EXTENDS Naturals, FiniteSets

CONSTANTS
  Messages,      \* ids of the intake rows, in the order the database issues them
  Authed,        \* the messages sent under a live session
  Workers,       \* the pool's threads (config.WORKER_CONCURRENCY of them)
  MaxAttempts,   \* config.MAX_INTAKE_ATTEMPTS
  NoMessage      \* what a worker without a message holds

ASSUME MessagesAssumption == Messages \subseteq Nat /\ NoMessage \notin Messages
ASSUME AuthedAssumption == Authed \subseteq Messages
ASSUME MaxAttemptsAssumption == MaxAttempts \in Nat \ {0}

VARIABLES
  intake,   \* the table: a row for each message
  asked,    \* how many turns of the symbiot on the stream point at each message
  replied,  \* how many turns of the machine on the stream point at each message
  step,     \* where in _process_one each worker is
  held,     \* the message each worker claimed
  try,      \* which attempt at it the worker's claim was
  result,   \* how the worker's latest killable child ended
  owed,     \* the abandoned ids the sweep, or the start-up, has still to nudge
  nudges,   \* how many times push.notify has been called for each message
  shown,    \* the outcome the shell read off /answers and displayed
  kernel    \* whether the kernel process is up

stream  == <<asked, replied>>
table   == <<intake, asked, replied>>
workers == <<step, held, try, result>>
shell   == <<shown>>
vars    == <<intake, asked, replied, step, held, try, result, owed, nudges, shown, kernel>>

Statuses == {"absent", "received", "working", "answered", "failed", "abandoned"}
Reasons  == {"none", "deadline", "crash", "swept", "orphaned"}
Terminal == {"answered", "abandoned"}
Steps    == {"idle", "claiming", "gathering", "replying", "deciding", "acting",
             "confirming", "settling", "nudging"}
Results  == {"none", "completed", "timed_out", "crashed"}
Attempts == 0 .. MaxAttempts

\* A row.  A reply is named by the attempt that composed it, 0 while there is none.
Row == [status : Statuses, attempts : Attempts, answer : Attempts,
        reason : Reasons, delivered : BOOLEAN, overdue : BOOLEAN]

AbsentRow == [status |-> "absent", attempts |-> 0, answer |-> 0,
              reason |-> "none", delivered |-> FALSE, overdue |-> FALSE]

Init ==
  /\ intake = [m \in Messages |-> AbsentRow]
  /\ asked = [m \in Messages |-> 0]
  /\ replied = [m \in Messages |-> 0]
  /\ step = [w \in Workers |-> "idle"]
  /\ held = [w \in Workers |-> NoMessage]
  /\ try = [w \in Workers |-> 0]
  /\ result = [w \in Workers |-> "none"]
  /\ owed = {}
  /\ nudges = [m \in Messages |-> 0]
  /\ shown = [m \in Messages |-> [status |-> "absent", answer |-> 0]]
  /\ kernel = "up"

(***************************************************************************)
(* The moves of a row: each UPDATE of intake.py as a function of the row,  *)
(* the row itself where the UPDATE's WHERE clause does not match it.       *)
(***************************************************************************)

record_message(row) == [row EXCEPT !.status = "received"]

read_outcome(row) == [status |-> row.status, answer |-> row.answer]

claim_next(row) ==
  [row EXCEPT !.status = "working", !.attempts = @ + 1, !.overdue = FALSE]

\* Mutant: the guard on the status is dropped.
mark_answered_unguarded(row, reply) ==
  [row EXCEPT !.status = "answered", !.answer = reply, !.overdue = FALSE]

mark_answered(row, reply) ==
  IF row.status = "working"
  THEN [row EXCEPT !.status = "answered", !.answer = reply, !.overdue = FALSE]
  ELSE row

\* Mutant: the guard on the status is dropped.
mark_failed_unguarded(row, why) ==
  [row EXCEPT !.status = "failed", !.reason = why, !.overdue = FALSE]

mark_failed(row, why) ==
  IF row.status = "working"
  THEN [row EXCEPT !.status = "failed", !.reason = why, !.overdue = FALSE]
  ELSE row

fail_overdue(row) ==
  IF row.status = "working" /\ row.overdue
  THEN [row EXCEPT !.status = "failed", !.reason = "swept", !.overdue = FALSE]
  ELSE row

\* Mutant: the budget is compared with <=.
requeue_failed_once_more(row) ==
  IF row.status = "failed" /\ row.attempts <= MaxAttempts
  THEN [row EXCEPT !.status = "received", !.reason = "none", !.overdue = FALSE]
  ELSE row

\* Mutant: the reason of the failed attempt is left behind.
requeue_failed_with_reason(row) ==
  IF row.status = "failed" /\ row.attempts < MaxAttempts
  THEN [row EXCEPT !.status = "received", !.overdue = FALSE]
  ELSE row

requeue_failed(row) ==
  IF row.status = "failed" /\ row.attempts < MaxAttempts
  THEN [row EXCEPT !.status = "received", !.reason = "none", !.overdue = FALSE]
  ELSE row

abandon_exhausted(row) ==
  IF row.status = "failed" /\ row.attempts >= MaxAttempts
  THEN [row EXCEPT !.status = "abandoned", !.overdue = FALSE]
  ELSE row

mark_delivered(row) ==
  IF row.status \in Terminal THEN [row EXCEPT !.delivered = TRUE] ELSE row

\* Mutant: the attempt the crash cut short is counted a second time.
recover_orphaned_early(row) ==
  IF row.status # "working" THEN row
  ELSE IF row.attempts + 1 < MaxAttempts
  THEN [row EXCEPT !.status = "received", !.overdue = FALSE]
  ELSE [row EXCEPT !.status = "abandoned", !.reason = "orphaned", !.overdue = FALSE]

recover_orphaned(row) ==
  IF row.status # "working" THEN row
  ELSE IF row.attempts < MaxAttempts
  THEN [row EXCEPT !.status = "received", !.overdue = FALSE]
  ELSE [row EXCEPT !.status = "abandoned", !.reason = "orphaned", !.overdue = FALSE]

\* Mutant: the pass forgets the workers that hang.
reconcile_without_sweep(row) == abandon_exhausted(requeue_failed(row))

\* The three statements of one reconcile pass, in the order it runs them.
reconcile(row) == abandon_exhausted(requeue_failed(fail_overdue(row)))

\* The ids a step abandons, RETURNING id: they are owed a nudge.
NewlyAbandoned ==
  {m \in Messages : intake[m].status # "abandoned" /\ intake'[m].status = "abandoned"}

\* conversation.record_utterance: the conversation is an authenticated symbiot's.
WithTurn(count, m) ==
  IF m \in Authed THEN [count EXCEPT ![m] = @ + 1] ELSE count

(***************************************************************************)
(* The shell's three routes.                                               *)
(***************************************************************************)

\* POST /intake: the row and its mirror on the stream, in one transaction.  Ids
\* are issued when a row is inserted, so they may be committed in any order.
IntakeRoute(m) ==
  /\ kernel = "up"
  /\ intake[m].status = "absent"
  /\ intake' = [intake EXCEPT ![m] = record_message(@)]
  /\ asked' = WithTurn(asked, m)
  /\ UNCHANGED <<replied, workers, owed, nudges, shell, kernel>>

\* GET /answers: a settled message's outcome crosses the wire and is displayed;
\* an unsettled one is answered "wait out", which changes nothing.
AnswersRoute(m) ==
  /\ kernel = "up"
  /\ intake[m].status \in Terminal
  /\ shown' = [shown EXCEPT ![m] = read_outcome(intake[m])]
  /\ UNCHANGED <<table, workers, owed, nudges, kernel>>

\* POST /answers/delivered: any ids at all, the route asks for no session.
DeliveredRoute(ids) ==
  /\ kernel = "up"
  /\ intake' = [m \in Messages |->
                  IF m \in ids THEN mark_delivered(intake[m]) ELSE intake[m]]
  /\ UNCHANGED <<stream, workers, owed, nudges, shell, kernel>>

(***************************************************************************)
(* A worker: _process_one, one action for each transaction and each child. *)
(***************************************************************************)

Goto(w, s) == step' = [step EXCEPT ![w] = s]

\* The iteration ends, well or badly: the worker holds nothing any more.
Release(w) ==
  /\ Goto(w, "idle")
  /\ held' = [held EXCEPT ![w] = NoMessage]
  /\ try' = [try EXCEPT ![w] = 0]
  /\ result' = [result EXCEPT ![w] = "none"]

\* A child under run_with_deadline ends in one of its three ways.
ChildEnds(w, how) == result' = [result EXCEPT ![w] = how]

\* The rows other workers' claims have locked: FOR UPDATE SKIP LOCKED passes them over.
Locked == {held[w] : w \in {v \in Workers : step[v] = "claiming"}}

\* Mutant: FOR UPDATE without SKIP LOCKED's effect, rows under claim are offered.
ClaimableThoughLocked == {m \in Messages : intake[m].status = "received"}

Claimable == {m \in Messages : intake[m].status = "received"} \ Locked

\* claim_next's sub-select: the oldest waiting row no other claim has locked.
LockOldest(w) ==
  /\ kernel = "up"
  /\ step[w] = "idle"
  /\ \E m \in Claimable :
       /\ \A n \in Claimable : m <= n
       /\ held' = [held EXCEPT ![w] = m]
  /\ Goto(w, "claiming")
  /\ UNCHANGED <<table, try, result, owed, nudges, shell, kernel>>

\* claim_next's UPDATE commits: received -> working, one attempt spent.
ClaimNext(w) ==
  /\ step[w] = "claiming"
  /\ intake' = [intake EXCEPT ![held[w]] = claim_next(@)]
  /\ try' = [try EXCEPT ![w] = intake'[held[w]].attempts]
  /\ Goto(w, "gathering")
  /\ UNCHANGED <<stream, held, result, owed, nudges, shell, kernel>>

\* _gather_context: an anonymous line, or one near no tool, goes to the ordinary
\* reply; one the gate surfaced a tool for goes to the deciding call.
Gather(w) ==
  /\ step[w] = "gathering"
  /\ \/ Goto(w, "replying")
     \/ held[w] \in Authed /\ Goto(w, "deciding")
  /\ UNCHANGED <<table, held, try, result, owed, nudges, shell, kernel>>

\* The ordinary reply's child.
Reply(w) ==
  /\ step[w] = "replying"
  /\ \E how \in Results \ {"none"} : ChildEnds(w, how)
  /\ Goto(w, "settling")
  /\ UNCHANGED <<table, held, try, owed, nudges, shell, kernel>>

\* The deciding call's child: it names a tool, or none (the ordinary reply then
\* answers), or fails the attempt.
Decide(w) ==
  /\ step[w] = "deciding"
  /\ \/ ChildEnds(w, "completed") /\ (Goto(w, "acting") \/ Goto(w, "replying"))
     \/ (ChildEnds(w, "timed_out") \/ ChildEnds(w, "crashed")) /\ Goto(w, "settling")
  /\ UNCHANGED <<table, held, try, owed, nudges, shell, kernel>>

\* The look step (it fails open) and then the executor's own transaction, on the
\* worker's thread: an exception there is a crash of the attempt.
Act(w) ==
  /\ step[w] = "acting"
  /\ \/ Goto(w, "confirming") /\ UNCHANGED result
     \/ ChildEnds(w, "crashed") /\ Goto(w, "settling")
  /\ UNCHANGED <<table, held, try, owed, nudges, shell, kernel>>

\* The confirmation's child.
Confirm(w) ==
  /\ step[w] = "confirming"
  /\ \E how \in Results \ {"none"} : ChildEnds(w, how)
  /\ Goto(w, "settling")
  /\ UNCHANGED <<table, held, try, owed, nudges, shell, kernel>>

\* Mutant: the reply joins the stream whether or not its answer landed.
SettleAnswerSpeakingAnyway(w) ==
  LET m == held[w]
      answer == mark_answered(intake[m], try[w])
  IN
  /\ result[w] = "completed"
  /\ intake' = [intake EXCEPT ![m] = answer]
  /\ replied' = WithTurn(replied, m)
  /\ IF answer # intake[m]
     THEN Goto(w, "nudging") /\ UNCHANGED <<held, try, result>>
     ELSE Release(w)

\* A completed attempt: the answer and its turn on the stream, and the nudge
\* still to come, only if this call made the move.
SettleAnswer(w) ==
  LET m == held[w]
      answer == mark_answered(intake[m], try[w])
  IN
  /\ result[w] = "completed"
  /\ intake' = [intake EXCEPT ![m] = answer]
  /\ IF answer # intake[m]
     THEN replied' = WithTurn(replied, m) /\ Goto(w, "nudging") /\ UNCHANGED <<held, try, result>>
     ELSE Release(w) /\ UNCHANGED replied

\* One that timed out or crashed.
SettleFailure(w) ==
  LET why == IF result[w] = "timed_out" THEN "deadline" ELSE "crash" IN
  /\ result[w] # "completed"
  /\ intake' = [intake EXCEPT ![held[w]] = mark_failed(@, why)]
  /\ Release(w)
  /\ UNCHANGED replied

\* The outcome's transaction.
Settle(w) ==
  /\ step[w] = "settling"
  /\ SettleAnswer(w) \/ SettleFailure(w)
  /\ UNCHANGED <<asked, owed, nudges, shell, kernel>>

\* push.notify for an answer, outside any transaction; should it raise, run()
\* logs that and goes on all the same.
Nudge(w) ==
  /\ step[w] = "nudging"
  /\ nudges' = [nudges EXCEPT ![held[w]] = @ + 1]
  /\ Release(w)
  /\ UNCHANGED <<table, owed, shell, kernel>>

\* Anything on the worker's own thread raises (the database, mostly, or starting a
\* child): run() logs it and goes on to the next iteration, and the row stays as
\* the last commit left it.
IterationFails(w) ==
  /\ step[w] \notin {"idle", "nudging"}
  /\ Release(w)
  /\ UNCHANGED <<table, owed, nudges, shell, kernel>>

(***************************************************************************)
(* The reconcile sweep, and time.                                          *)
(***************************************************************************)

PassDeadline(m) ==
  /\ intake[m].status = "working"
  /\ ~ intake[m].overdue
  /\ intake' = [intake EXCEPT ![m].overdue = TRUE]
  /\ UNCHANGED <<stream, workers, owed, nudges, shell, kernel>>

\* Mutant: the pass nudges about every abandoned row, not those it abandoned.
ReconcilePassNudgingAll ==
  /\ kernel = "up"
  /\ owed = {}
  /\ intake' = [m \in Messages |-> reconcile(intake[m])]
  /\ owed' = {m \in Messages : intake'[m].status = "abandoned"}
  /\ UNCHANGED <<stream, workers, nudges, shell, kernel>>

\* One pass's transaction.
ReconcilePass ==
  /\ kernel = "up"
  /\ owed = {}
  /\ intake' = [m \in Messages |-> reconcile(intake[m])]
  /\ owed' = NewlyAbandoned
  /\ UNCHANGED <<stream, workers, nudges, shell, kernel>>

\* The loop over the abandoned ids, one push.notify each.  It runs the same way
\* in the sweep and at start-up.
NudgeAbandoned(m) ==
  /\ kernel # "down"
  /\ m \in owed
  /\ nudges' = [nudges EXCEPT ![m] = @ + 1]
  /\ owed' = owed \ {m}
  /\ UNCHANGED <<table, workers, shell, kernel>>

\* push.notify raises out of the sweep's loop (its reads, or the signer, failed):
\* the pass is over, and the ids the loop had not reached are forgotten.
NudgeRaises(m) ==
  /\ kernel = "up"
  /\ m \in owed
  /\ nudges' = [nudges EXCEPT ![m] = @ + 1]
  /\ owed' = {}
  /\ UNCHANGED <<table, workers, shell, kernel>>

(***************************************************************************)
(* The kernel dies, at any moment, and starts again.                       *)
(***************************************************************************)

Crash ==
  /\ kernel # "down"
  /\ kernel' = "down"
  /\ step' = [w \in Workers |-> "idle"]
  /\ held' = [w \in Workers |-> NoMessage]
  /\ try' = [w \in Workers |-> 0]
  /\ result' = [w \in Workers |-> "none"]
  /\ owed' = {}
  /\ UNCHANGED <<table, nudges, shell>>

\* lifespan: recover_orphaned commits before any worker or sweep exists.
Recover ==
  /\ kernel = "down"
  /\ kernel' = "starting"
  /\ intake' = [m \in Messages |-> recover_orphaned(intake[m])]
  /\ owed' = NewlyAbandoned
  /\ UNCHANGED <<stream, workers, nudges, shell>>

\* lifespan: the give-up nudges are out, the threads start, requests are served.
StartThreads ==
  /\ kernel = "starting"
  /\ owed = {}
  /\ kernel' = "up"
  /\ UNCHANGED <<table, workers, owed, nudges, shell>>

WorkerStep(w) ==
  \/ LockOldest(w) \/ ClaimNext(w) \/ Gather(w) \/ Reply(w) \/ Decide(w)
  \/ Act(w) \/ Confirm(w) \/ Settle(w) \/ Nudge(w)

Next ==
  \/ \E m \in Messages : IntakeRoute(m) \/ AnswersRoute(m) \/ PassDeadline(m)
  \/ \E ids \in SUBSET Messages : DeliveredRoute(ids)
  \/ \E w \in Workers : WorkerStep(w) \/ IterationFails(w)
  \/ ReconcilePass
  \/ \E m \in Messages : NudgeAbandoned(m) \/ NudgeRaises(m)
  \/ Crash \/ Recover \/ StartThreads

Spec == Init /\ [][Next]_vars

(***************************************************************************)
(* Fairness.  The threads run for as long as the kernel does, and each of  *)
(* their steps ends: the children within their deadline, the transactions  *)
(* because the database answers.  A claim may fail now and then, but not   *)
(* each time for ever, hence the strong fairness.  Nothing makes a shell   *)
(* send, read or confirm anything, or the kernel crash.                    *)
(***************************************************************************)

Fairness ==
  /\ \A w \in Workers : WF_vars(WorkerStep(w)) /\ SF_vars(ClaimNext(w))
  /\ \A m \in Messages : WF_vars(PassDeadline(m)) /\ WF_vars(NudgeAbandoned(m))
  /\ WF_vars(ReconcilePass)
  /\ WF_vars(Recover) /\ WF_vars(StartThreads)

FairSpec == Spec /\ Fairness

(***************************************************************************)
(* Properties.                                                             *)
(***************************************************************************)

\* Every variable has its type; above all no row is claimed more often than
\* MAX_INTAKE_ATTEMPTS allows (intake.py: claim_next counts, requeue_failed and
\* recover_orphaned spend the budget).
TypeOK ==
  /\ intake \in [Messages -> Row]
  /\ asked \in [Messages -> Nat]
  /\ replied \in [Messages -> Nat]
  /\ step \in [Workers -> Steps]
  /\ held \in [Workers -> Messages \cup {NoMessage}]
  /\ \A w \in Workers : held[w] = NoMessage <=> step[w] = "idle"
  /\ try \in [Workers -> Attempts]
  /\ result \in [Workers -> Results]
  /\ owed \subseteq Messages
  /\ nudges \in [Messages -> Nat]
  /\ shown \in [Messages -> [status : Statuses, answer : Attempts]]
  /\ kernel \in {"up", "starting", "down"}

\* Two workers never work on the same attempt at a message, whatever claims
\* race, fail half-way or are lost in a crash (claim_next's SKIP LOCKED).
AttemptHasOneWorker ==
  \A v, w \in Workers :
    v # w /\ held[v] = held[w] /\ try[v] = try[w] => held[v] = NoMessage

\* failed_reason is set exactly while a row is failed or abandoned, and answer
\* exactly when it is answered (migration 0002), across retries, sweeps, stale
\* workers and restarts.
RowExplainsItself ==
  \A m \in Messages :
    /\ intake[m].reason # "none" <=> intake[m].status \in {"failed", "abandoned"}
    /\ intake[m].answer # 0 <=> intake[m].status = "answered"

\* The kernel gives up only on a message that has had all its attempts, and a
\* message that waits for a worker always has one left.
NoEarlyAbandonment ==
  \A m \in Messages :
    /\ intake[m].status = "abandoned" => intake[m].attempts = MaxAttempts
    /\ intake[m].status = "received" => intake[m].attempts < MaxAttempts

\* What the shell displayed of a message is what became of it: no worker, sweep
\* or restart changes an outcome that /answers has told.
ShownIsFinal ==
  \A m \in Messages :
    shown[m].status # "absent" => shown[m] = read_outcome(intake[m])

\* The conversation mirrors the table: one turn of the symbiot for each message
\* of an authenticated sender, and one of the machine exactly when it has been
\* answered, though several attempts may each have composed a reply.
StreamMirrorsTable ==
  \A m \in Messages :
    /\ asked[m] = IF m \in Authed /\ intake[m].status # "absent" THEN 1 ELSE 0
    /\ replied[m] = IF m \in Authed /\ intake[m].status = "answered" THEN 1 ELSE 0

\* A message is nudged about at most once, and only when its outcome stands:
\* whether a worker, the sweep or the start-up recovery settled it.
NudgedOnceSettled ==
  \A m \in Messages :
    /\ nudges[m] <= 1
    /\ nudges[m] > 0 => intake[m].status \in Terminal

\* The table keeps the promise of AnswerGuarantee: a row's retries, sweeps and
\* restarts are invisible, its outcome appears once and stays.
OutcomeOf(row) ==
  [state |-> IF row.status = "absent" THEN "unsent"
             ELSE IF row.status \in Terminal THEN row.status ELSE "promised",
   reply |-> row.answer]

Guarantee == INSTANCE AnswerGuarantee WITH
  Replies <- Attempts \ {0},
  outcome <- [m \in Messages |-> OutcomeOf(intake[m])],
  spoken <- {m \in Messages : replied[m] > 0},
  delivered <- {m \in Messages : intake[m].delivered}

KeepsGuarantee == Guarantee!Spec

\* As long as the kernel comes up and stays up, every message it acknowledged is
\* answered or abandoned (worker.py: "never left waiting on an answer that will
\* never come"), whatever hangs, fails or is swept meanwhile.
EveryMessageSettles ==
  <>[](kernel = "up") =>
    \A m \in Messages : intake[m].status = "received" ~> intake[m].status \in Terminal

\* What fail_overdue's comment says of a worker whose row was swept (intake.py
\* 190-192): it finds the row no longer working and changes nothing.  So an
\* outcome is always reported by the attempt that is current.
SweptWorkerChangesNothing ==
  [][\A w \in Workers :
       Settle(w) /\ intake' # intake => try[w] = intake[held[w]].attempts]_vars
=============================================================================
