---------------------------- MODULE IntakeProofs ----------------------------
(***************************************************************************)
(* Proofs about Intake, for any number of messages, workers and attempts.  *)
(* The invariants TLC checks are not inductive one by one: what makes them *)
(* so is collected in IInv.                                                *)
(***************************************************************************)
EXTENDS Intake, TLAPS

(***************************************************************************)
(* The inductive invariant.                                                *)
(***************************************************************************)

\* What holds of every row, whatever its history.
RowOK(row) ==
  /\ row.reason # "none" <=> row.status \in {"failed", "abandoned"}
  /\ row.answer # 0 <=> row.status = "answered"
  /\ row.status = "absent" => row.attempts = 0
  /\ row.status \in {"absent", "received"} => row.attempts < MaxAttempts
  /\ row.status = "abandoned" => row.attempts = MaxAttempts
  /\ row.delivered => row.status \in Terminal

RowsOK == \A m \in Messages : RowOK(intake[m])

\* A claim under way has a waiting row to itself.
Claiming(w) == step[w] = "claiming"

ClaimsOK ==
  /\ \A w \in Workers : Claiming(w) => intake[held[w]].status = "received"
  /\ \A v, w \in Workers : v # w /\ Claiming(v) /\ Claiming(w) => held[v] # held[w]

\* A claim made names an attempt the row has counted, and no other worker's.
AtWork(w) == step[w] \notin {"idle", "claiming"}

TriesOK ==
  /\ \A w \in Workers : AtWork(w) => 1 <= try[w] /\ try[w] <= intake[held[w]].attempts
  /\ \A w \in Workers : ~ AtWork(w) => try[w] = 0
  /\ \A v, w \in Workers :
       v # w /\ AtWork(v) /\ AtWork(w) /\ held[v] = held[w] => try[v] # try[w]

ShownOK ==
  \A m \in Messages :
    shown[m].status # "absent" =>
      shown[m] = read_outcome(intake[m]) /\ intake[m].status \in Terminal

\* A nudge still to come excludes one already sent, and a second one to come.
Nudging(w) == step[w] = "nudging"

NudgesOK ==
  /\ \A m \in Messages : nudges[m] <= 1 /\ (nudges[m] > 0 => intake[m].status \in Terminal)
  /\ \A m \in owed : intake[m].status = "abandoned" /\ nudges[m] = 0
  /\ \A w \in Workers : Nudging(w) => intake[held[w]].status = "answered" /\ nudges[held[w]] = 0
  /\ \A v, w \in Workers : v # w /\ Nudging(v) /\ Nudging(w) => held[v] # held[w]

\* Nothing of a kernel survives it.
KernelOK ==
  /\ kernel # "up" => \A w \in Workers : step[w] = "idle"
  /\ kernel = "down" => owed = {}

IInv ==
  /\ TypeOK
  /\ RowsOK
  /\ ClaimsOK
  /\ TriesOK
  /\ ShownOK
  /\ StreamMirrorsTable
  /\ NudgesOK
  /\ KernelOK

(***************************************************************************)
(* What the moves of a row do.                                             *)
(***************************************************************************)

\* What a row keeps of interest to the workers: nothing but a claim counts an
\* attempt or takes a waiting row, and an answer stays.
Kept(old, new) ==
  /\ new.attempts = old.attempts
  /\ old.status = "received" => new.status = "received"
  /\ old.status = "answered" => new.status = "answered"

\* A move that neither claims a row nor answers it.
QuietMove(old, new) ==
  /\ new \in Row /\ RowOK(new) /\ Kept(old, new)
  /\ new.status = "absent" <=> old.status = "absent"
  /\ new.status = "answered" <=> old.status = "answered"
  /\ old.status \in Terminal => read_outcome(new) = read_outcome(old)

\* A row left alone has moved quietly.
LEMMA StaysQuiet ==
  ASSUME NEW row \in Row, RowOK(row)
  PROVE  QuietMove(row, row)
BY DEF QuietMove, Kept, read_outcome

\* The route's, the clock's and a failing worker's moves are quiet.
LEMMA OneRowQuiet ==
  ASSUME NEW row \in Row, RowOK(row), NEW why \in {"deadline", "crash"}
  PROVE  /\ QuietMove(row, mark_delivered(row))
         /\ QuietMove(row, mark_failed(row, why))
         /\ row.status = "working" => QuietMove(row, [row EXCEPT !.overdue = TRUE])
<1>1. QuietMove(row, mark_delivered(row))
  BY DEF QuietMove, Kept, read_outcome, mark_delivered, Row, RowOK, Terminal, Statuses
<1>2. QuietMove(row, mark_failed(row, why))
  BY DEF QuietMove, Kept, read_outcome, mark_failed, Row, RowOK, Terminal, Statuses, Reasons
<1>3. row.status = "working" => QuietMove(row, [row EXCEPT !.overdue = TRUE])
  BY DEF QuietMove, Kept, read_outcome, Row, RowOK, Terminal, Statuses
<1> QED BY <1>1, <1>2, <1>3

\* Recovery's move is quiet: an orphan is requeued or abandoned.
LEMMA RecoveryQuiet ==
  ASSUME NEW row \in Row, RowOK(row)
  PROVE  QuietMove(row, recover_orphaned(row))
<1>1. CASE row.status # "working"
  BY <1>1, StaysQuiet DEF recover_orphaned
<1>2. CASE row.status = "working" /\ row.attempts < MaxAttempts
  <2>1. recover_orphaned(row) = [row EXCEPT !.status = "received", !.overdue = FALSE]
    BY <1>2 DEF recover_orphaned
  <2> QED
    BY <1>2, <2>1 DEF QuietMove, Kept, read_outcome, Row, RowOK, Terminal, Statuses
<1>3. CASE row.status = "working" /\ ~ (row.attempts < MaxAttempts)
  <2>1. recover_orphaned(row) =
          [row EXCEPT !.status = "abandoned", !.reason = "orphaned", !.overdue = FALSE]
    BY <1>3 DEF recover_orphaned
  <2>2. row.attempts = MaxAttempts
    BY <1>3, MaxAttemptsAssumption DEF Row, Attempts
  <2> QED
    BY <1>3, <2>1, <2>2
       DEF QuietMove, Kept, read_outcome, Row, RowOK, Terminal, Statuses, Reasons
<1> QED BY <1>1, <1>2, <1>3

\* So is the reconcile pass, and it leaves no row failed.
LEMMA ReconcileQuiet ==
  ASSUME NEW row \in Row, RowOK(row)
  PROVE  QuietMove(row, reconcile(row)) /\ reconcile(row).status # "failed"
<1> DEFINE swept == fail_overdue(row)
           again == requeue_failed(swept)
<1>1. QuietMove(row, swept)
  BY DEF QuietMove, Kept, read_outcome, fail_overdue, Row, RowOK, Terminal,
         Statuses, Reasons
<1>2. QuietMove(swept, again)
  BY <1>1, MaxAttemptsAssumption
     DEF QuietMove, Kept, read_outcome, requeue_failed, Row, RowOK, Terminal,
         Statuses, Reasons, Attempts
<1>3. again.status = "failed" => again.attempts = MaxAttempts
  BY <1>1, MaxAttemptsAssumption DEF QuietMove, requeue_failed, Row, Attempts
<1>4. QuietMove(again, abandon_exhausted(again))
  BY <1>2, <1>3, MaxAttemptsAssumption
     DEF QuietMove, Kept, read_outcome, abandon_exhausted, Row, RowOK, Terminal,
         Statuses, Reasons, Attempts
<1>5. abandon_exhausted(again).status # "failed"
  BY <1>2, <1>3, MaxAttemptsAssumption DEF QuietMove, abandon_exhausted, Row, Attempts
<1>6. reconcile(row) = abandon_exhausted(again)
  BY DEF reconcile
<1> HIDE DEF swept, again
<1> QED
  BY <1>1, <1>2, <1>4, <1>5, <1>6 DEF QuietMove, Kept, read_outcome

(***************************************************************************)
(* What a step owes the parts of the invariant it does not work on.        *)
(***************************************************************************)

\* When every row moves quietly and the stream and the shell stand still, all
\* that is said about rows goes on to hold.
LEMMA RowsMoveQuietly ==
  ASSUME IInv, intake' \in [Messages -> Row],
         \A m \in Messages : QuietMove(intake[m], intake'[m]),
         UNCHANGED <<asked, replied, shown>>
  PROVE  RowsOK' /\ ShownOK' /\ StreamMirrorsTable'
<1>1. RowsOK'
  BY DEF RowsOK, QuietMove
<1>2. ShownOK'
  <2> SUFFICES ASSUME NEW m \in Messages, shown[m].status # "absent"
               PROVE  read_outcome(intake'[m]) = read_outcome(intake[m])
                      /\ intake'[m].status \in Terminal
    BY DEF IInv, ShownOK
  <2>1. intake[m].status \in Terminal
    BY DEF IInv, ShownOK
  <2>2. read_outcome(intake'[m]) = read_outcome(intake[m])
    BY <2>1 DEF QuietMove
  <2> QED BY <2>1, <2>2 DEF read_outcome
<1>3. StreamMirrorsTable'
  BY DEF IInv, StreamMirrorsTable, QuietMove
<1> QED BY <1>1, <1>2, <1>3

\* A worker goes on where it was, or is idle.
StaysOrStops(w) ==
  \/ step'[w] = step[w] /\ held'[w] = held[w] /\ try'[w] = try[w]
  \/ step'[w] = "idle" /\ held'[w] = NoMessage /\ try'[w] = 0

\* When the rows keep what workers rely on and no worker advances, claims and
\* attempts stay apart, and no nudge becomes due.
LEMMA WorkersStayOrStop ==
  ASSUME IInv, \A m \in Messages : Kept(intake[m], intake'[m]),
         \A w \in Workers : StaysOrStops(w)
  PROVE  /\ ClaimsOK' /\ TriesOK'
         /\ \A w \in Workers :
              /\ Nudging(w)' => Nudging(w) /\ held'[w] = held[w]
              /\ held'[w] = NoMessage <=> step'[w] = "idle"
<1>1. \A w \in Workers : step[w] # "idle" => held[w] \in Messages
  BY DEF IInv, TypeOK
<1>2. ClaimsOK'
  BY <1>1 DEF IInv, ClaimsOK, Claiming, StaysOrStops, Kept
<1>3. TriesOK'
  <2>1. \A w \in Workers : AtWork(w)' => AtWork(w) /\ held'[w] = held[w] /\ try'[w] = try[w]
    BY DEF AtWork, StaysOrStops
  <2>2. \A w \in Workers : AtWork(w)' => 1 <= try'[w] /\ try'[w] <= intake'[held'[w]].attempts
    BY <1>1, <2>1 DEF IInv, TriesOK, AtWork, Kept
  <2>3. \A w \in Workers : ~ AtWork(w)' => try'[w] = 0
    BY DEF IInv, TriesOK, AtWork, StaysOrStops
  <2> QED BY <2>1, <2>2, <2>3 DEF IInv, TriesOK
<1>4. \A w \in Workers : Nudging(w)' => Nudging(w) /\ held'[w] = held[w]
  BY DEF Nudging, StaysOrStops
<1>5. \A w \in Workers : held'[w] = NoMessage <=> step'[w] = "idle"
  BY DEF IInv, TypeOK, StaysOrStops
<1> QED BY <1>2, <1>3, <1>4, <1>5

\* Letting go of a message stops its worker, and no other.
LEMMA ReleaseStops ==
  ASSUME IInv, NEW w \in Workers, Release(w)
  PROVE  /\ \A v \in Workers : StaysOrStops(v)
         /\ ~ Nudging(w)'
         /\ step' \in [Workers -> Steps]
         /\ held' \in [Workers -> Messages \cup {NoMessage}]
         /\ try' \in [Workers -> Attempts]
         /\ result' \in [Workers -> Results]
BY MaxAttemptsAssumption
   DEF IInv, TypeOK, Release, Goto, StaysOrStops, Nudging, Steps, Results, Attempts

\* With no nudge sent, every nudge still due was due before, and what it is due
\* for stands.
LEMMA NoNudgeSent ==
  ASSUME IInv, \A m \in Messages : QuietMove(intake[m], intake'[m]),
         \A w \in Workers : Nudging(w)' => Nudging(w) /\ held'[w] = held[w],
         nudges' = nudges,
         \A m \in owed' : \/ m \in owed
                          \/ m \in NewlyAbandoned
  PROVE  NudgesOK'
<1>1. \A w \in Workers : Nudging(w) => held[w] \in Messages
  BY DEF IInv, TypeOK, Nudging
<1>2. \A m \in Messages : intake[m].status \in Terminal => intake'[m].status = intake[m].status
  BY DEF QuietMove, read_outcome
<1>3. \A m \in Messages : nudges[m] <= 1 /\ (nudges[m] > 0 => intake'[m].status \in Terminal)
  BY <1>2 DEF IInv, NudgesOK
<1>4. \A m \in owed' : intake'[m].status = "abandoned" /\ nudges[m] = 0
  <2> SUFFICES ASSUME NEW m \in owed'
               PROVE  intake'[m].status = "abandoned" /\ nudges[m] = 0
    OBVIOUS
  <2>1. CASE m \in owed
    BY <1>2, <2>1 DEF IInv, NudgesOK, TypeOK, Terminal
  <2>2. CASE m \in NewlyAbandoned
    <3>1. m \in Messages /\ intake[m].status # "abandoned" /\ intake'[m].status = "abandoned"
      BY <2>2 DEF NewlyAbandoned
    <3>2. intake[m].status \notin Terminal
      BY <1>2, <3>1
    <3> QED BY <3>1, <3>2 DEF IInv, NudgesOK, TypeOK
  <2> QED BY <2>1, <2>2
<1>5. \A w \in Workers : Nudging(w)' => intake'[held'[w]].status = "answered" /\ nudges[held'[w]] = 0
  BY <1>1 DEF IInv, NudgesOK, QuietMove
<1> QED BY <1>3, <1>4, <1>5 DEF IInv, NudgesOK

(***************************************************************************)
(* Each step keeps the inductive invariant.                                *)
(***************************************************************************)

\* The empty table, idle workers and a kernel just up.
LEMMA InitIInv == Init => IInv
<1> SUFFICES ASSUME Init PROVE IInv
  OBVIOUS
<1>1. TypeOK
  BY MaxAttemptsAssumption
     DEF Init, TypeOK, AbsentRow, Row, Statuses, Reasons, Attempts, Steps, Results
<1>2. RowsOK
  BY MaxAttemptsAssumption DEF Init, RowsOK, RowOK, AbsentRow
<1>3. ClaimsOK /\ TriesOK
  BY DEF Init, ClaimsOK, TriesOK, Claiming, AtWork
<1>4. ShownOK /\ StreamMirrorsTable
  BY DEF Init, ShownOK, StreamMirrorsTable, AbsentRow
<1>5. NudgesOK /\ KernelOK
  BY DEF Init, NudgesOK, KernelOK, Nudging
<1> QED BY <1>1, <1>2, <1>3, <1>4, <1>5 DEF IInv

\* A new message: its row waits, with its budget whole.
LEMMA IntakeRouteIInv ==
  ASSUME IInv, NEW m \in Messages, IntakeRoute(m)
  PROVE  IInv'
<1> DEFINE new == record_message(intake[m])
<1>1. /\ intake[m] \in Row /\ RowOK(intake[m]) /\ intake[m].status = "absent"
      /\ intake' = [intake EXCEPT ![m] = new]
      /\ UNCHANGED <<replied, step, held, try, result, owed, nudges, shown, kernel>>
  BY DEF IntakeRoute, IInv, TypeOK, RowsOK, workers, shell
<1>2. new \in Row /\ RowOK(new) /\ Kept(intake[m], new) /\ new.status = "received"
  BY <1>1, MaxAttemptsAssumption
     DEF record_message, Row, RowOK, Kept, Statuses, Terminal, Attempts
<1> HIDE DEF new
<1>3. TypeOK'
  BY <1>1, <1>2 DEF IInv, TypeOK, IntakeRoute, WithTurn
<1>4. RowsOK' /\ ShownOK'
  <2>1. intake[m].status \notin Terminal
    BY <1>1 DEF Terminal
  <2> QED BY <1>1, <1>2, <2>1 DEF IInv, TypeOK, RowsOK, ShownOK
<1>5. StreamMirrorsTable'
  BY <1>1, <1>2 DEF IInv, TypeOK, StreamMirrorsTable, IntakeRoute, WithTurn
<1>6. ClaimsOK' /\ TriesOK'
  <2>1. \A n \in Messages : Kept(intake[n], intake'[n])
    BY <1>1, <1>2 DEF IInv, TypeOK, Kept
  <2> QED BY <1>1, <2>1, WorkersStayOrStop DEF StaysOrStops
<1>7. NudgesOK'
  <2>1. \A n \in Messages : intake[n].status \in Terminal => intake'[n] = intake[n]
    BY <1>1 DEF IInv, TypeOK, Terminal
  <2>2. \A w \in Workers : Nudging(w) => held[w] \in Messages
    BY DEF IInv, TypeOK, Nudging
  <2>3. \A w \in Workers : Nudging(w)' <=> Nudging(w)
    BY <1>1 DEF Nudging
  <2>4. owed \subseteq Messages
    BY DEF IInv, TypeOK
  <2> QED BY <1>1, <2>1, <2>2, <2>3, <2>4 DEF IInv, NudgesOK, Terminal
<1>8. KernelOK'
  BY <1>1 DEF IInv, KernelOK
<1> QED BY <1>3, <1>4, <1>5, <1>6, <1>7, <1>8 DEF IInv

\* The steps that move rows quietly and touch nothing else but the bookkeeping
\* of the shell: what /answers displays is final already.
LEMMA AnswersRouteIInv ==
  ASSUME IInv, NEW m \in Messages, AnswersRoute(m)
  PROVE  IInv'
<1>1. UNCHANGED <<intake, asked, replied, step, held, try, result, owed, nudges, kernel>>
  BY DEF AnswersRoute, table, workers
<1>2. TypeOK'
  <2>1. read_outcome(intake[m]) \in [status : Statuses, answer : Attempts]
    BY DEF IInv, TypeOK, Row, read_outcome
  <2> QED BY <1>1, <2>1 DEF IInv, TypeOK, AnswersRoute
<1>3. ShownOK'
  BY <1>1 DEF IInv, TypeOK, ShownOK, AnswersRoute
<1>4. RowsOK' /\ ClaimsOK' /\ TriesOK' /\ StreamMirrorsTable' /\ NudgesOK' /\ KernelOK'
  BY <1>1 DEF IInv, RowsOK, ClaimsOK, Claiming, TriesOK, AtWork, StreamMirrorsTable,
              NudgesOK, Nudging, KernelOK
<1> QED BY <1>2, <1>3, <1>4 DEF IInv

\* Rows moved quietly by anyone but a worker.
LEMMA QuietStepIInv ==
  ASSUME IInv, intake' \in [Messages -> Row],
         \A m \in Messages : QuietMove(intake[m], intake'[m]),
         UNCHANGED <<asked, replied, step, held, try, result, owed, nudges, shown, kernel>>
  PROVE  IInv'
<1>1. TypeOK' /\ KernelOK'
  BY DEF IInv, TypeOK, KernelOK
<1>2. RowsOK' /\ ShownOK' /\ StreamMirrorsTable'
  BY RowsMoveQuietly
<1>3. (\A m \in Messages : Kept(intake[m], intake'[m])) /\ (\A w \in Workers : StaysOrStops(w))
  BY DEF QuietMove, StaysOrStops
<1>4. ClaimsOK' /\ TriesOK' /\ (\A w \in Workers : Nudging(w)' => Nudging(w) /\ held'[w] = held[w])
  BY <1>3, WorkersStayOrStop
<1>5. NudgesOK'
  BY <1>4, NoNudgeSent
<1> QED BY <1>1, <1>2, <1>4, <1>5 DEF IInv

\* Receipts, for any ids.
LEMMA DeliveredRouteIInv ==
  ASSUME IInv, NEW ids \in SUBSET Messages, DeliveredRoute(ids)
  PROVE  IInv'
<1>1. \A m \in Messages : QuietMove(intake[m], intake'[m])
  BY OneRowQuiet, StaysQuiet DEF IInv, TypeOK, RowsOK, DeliveredRoute
<1>2. intake' \in [Messages -> Row]
  BY <1>1 DEF QuietMove, DeliveredRoute
<1> QED BY <1>1, <1>2, QuietStepIInv DEF DeliveredRoute, stream, workers, shell

\* Time.
LEMMA PassDeadlineIInv ==
  ASSUME IInv, NEW m \in Messages, PassDeadline(m)
  PROVE  IInv'
<1>1. /\ intake' = [intake EXCEPT ![m] = [intake[m] EXCEPT !.overdue = TRUE]]
      /\ intake[m].status = "working" /\ intake \in [Messages -> Row]
  BY DEF PassDeadline, IInv, TypeOK
<1>2. QuietMove(intake[m], [intake[m] EXCEPT !.overdue = TRUE])
  BY <1>1, OneRowQuiet DEF IInv, RowsOK
<1>3. \A n \in Messages : QuietMove(intake[n], intake'[n])
  BY <1>1, <1>2, StaysQuiet DEF IInv, RowsOK
<1>4. intake' \in [Messages -> Row]
  BY <1>1, <1>2 DEF QuietMove
<1> QED BY <1>3, <1>4, QuietStepIInv DEF PassDeadline, stream, workers, shell

\* The lock: SKIP LOCKED passes over the rows of other claims, so this one's is
\* its own.
LEMMA LockOldestIInv ==
  ASSUME IInv, NEW w \in Workers, LockOldest(w)
  PROVE  IInv'
<1>1. PICK m \in Claimable : held' = [held EXCEPT ![w] = m]
  BY DEF LockOldest
<1>2. /\ m \in Messages /\ m # NoMessage /\ intake[m].status = "received"
      /\ \A v \in Workers : Claiming(v) => held[v] # m
  BY <1>1, MessagesAssumption DEF Claimable, Locked, Claiming
<1>3. /\ step[w] = "idle" /\ step' = [step EXCEPT ![w] = "claiming"]
      /\ UNCHANGED <<intake, asked, replied, try, result, owed, nudges, shown, kernel>>
      /\ kernel = "up"
  BY DEF LockOldest, Goto, table, shell
<1>4. TypeOK'
  BY <1>1, <1>2, <1>3 DEF IInv, TypeOK, Steps
<1>5. ClaimsOK'
  BY <1>1, <1>2, <1>3 DEF IInv, TypeOK, ClaimsOK, Claiming
<1>6. TriesOK'
  BY <1>1, <1>3 DEF IInv, TypeOK, TriesOK, AtWork
<1>7. NudgesOK'
  <2>1. \A v \in Workers : Nudging(v)' => Nudging(v) /\ held'[v] = held[v]
    BY <1>1, <1>3 DEF IInv, TypeOK, Nudging
  <2> QED BY <1>3, <2>1 DEF IInv, NudgesOK
<1>8. RowsOK' /\ ShownOK' /\ StreamMirrorsTable' /\ KernelOK'
  BY <1>3 DEF IInv, RowsOK, ShownOK, StreamMirrorsTable, KernelOK
<1> QED BY <1>4, <1>5, <1>6, <1>7, <1>8 DEF IInv

\* The claim: the attempt it counts is above every attempt other workers are at.
LEMMA ClaimNextIInv ==
  ASSUME IInv, NEW w \in Workers, ClaimNext(w)
  PROVE  IInv'
<1> DEFINE m == held[w]
           new == claim_next(intake[m])
<1>1. /\ m \in Messages /\ intake[m] \in Row /\ RowOK(intake[m])
      /\ intake[m].status = "received" /\ Claiming(w)
  BY DEF ClaimNext, IInv, TypeOK, RowsOK, ClaimsOK, Claiming
<1>2. /\ intake' = [intake EXCEPT ![m] = new]
      /\ try' = [try EXCEPT ![w] = intake'[m].attempts]
      /\ step' = [step EXCEPT ![w] = "gathering"]
      /\ UNCHANGED <<asked, replied, held, result, owed, nudges, shown, kernel>>
  BY DEF ClaimNext, Goto, stream, shell
<1>3. /\ new \in Row /\ RowOK(new) /\ new.status = "working"
      /\ new.attempts = intake[m].attempts + 1 /\ new.attempts \in Attempts \ {0}
  <2>1. intake[m].attempts \in Nat /\ intake[m].attempts + 1 \in Attempts \ {0}
    BY <1>1, MaxAttemptsAssumption DEF Row, RowOK, Attempts
  <2>2. new = [intake[m] EXCEPT !.status = "working", !.attempts = intake[m].attempts + 1,
                                !.overdue = FALSE]
    BY DEF claim_next
  <2>3. new \in Row
    BY <1>1, <2>1, <2>2 DEF Row, Statuses
  <2> QED
    BY <1>1, <2>1, <2>2, <2>3 DEF Row, RowOK, Terminal
<1> HIDE DEF new
<1>4. intake'[m] = new
  BY <1>1, <1>2 DEF IInv, TypeOK
<1>5. TypeOK'
  BY <1>2, <1>3, <1>4 DEF IInv, TypeOK, Steps, ClaimNext
<1>6. RowsOK'
  BY <1>2, <1>3 DEF IInv, TypeOK, RowsOK
<1>7. ShownOK' /\ StreamMirrorsTable'
  <2>1. intake[m].status \notin Terminal
    BY <1>1 DEF Terminal
  <2> QED BY <1>1, <1>2, <1>3, <2>1 DEF IInv, TypeOK, ShownOK, StreamMirrorsTable
<1>8. ClaimsOK'
  <2>1. \A v \in Workers : Claiming(v)' => v # w /\ Claiming(v)
    BY <1>2 DEF IInv, TypeOK, Claiming
  <2>2. \A v \in Workers : Claiming(v)' => held[v] # m
    BY <1>1, <2>1 DEF IInv, ClaimsOK
  <2> QED BY <1>2, <2>1, <2>2 DEF IInv, TypeOK, ClaimsOK
<1>9. TriesOK'
  <2>1. \A v \in Workers : v # w => (AtWork(v)' <=> AtWork(v)) /\ try'[v] = try[v]
    BY <1>2 DEF IInv, TypeOK, AtWork
  <2>2. try'[w] = new.attempts /\ AtWork(w)'
    BY <1>2, <1>4 DEF IInv, TypeOK, AtWork
  <2>3. \A v \in Workers : AtWork(v) => held[v] \in Messages /\ try[v] \in Nat
    BY DEF IInv, TypeOK, AtWork, Attempts
  <2>4. \A v \in Workers : AtWork(v) => try[v] <= intake[held[v]].attempts
    BY DEF IInv, TriesOK
  <2>5. intake[m].attempts \in Nat
    BY <1>1 DEF Row, Attempts
  <2>6. \A v \in Workers : AtWork(v) /\ v # w /\ held[v] = m => try[v] # new.attempts
    BY <1>3, <2>3, <2>4, <2>5
  <2>7. \A v \in Workers : AtWork(v)' => 1 <= try'[v] /\ try'[v] <= intake'[held[v]].attempts
    <3> SUFFICES ASSUME NEW v \in Workers, AtWork(v)'
                 PROVE  1 <= try'[v] /\ try'[v] <= intake'[held[v]].attempts
      OBVIOUS
    <3>1. CASE v = w
      BY <1>3, <1>4, <2>2, <3>1 DEF Attempts
    <3>2. CASE v # w /\ held[v] = m
      BY <1>3, <1>4, <2>1, <2>3, <2>4, <2>5, <3>2 DEF IInv, TriesOK
    <3>3. CASE v # w /\ held[v] # m
      BY <1>2, <2>1, <2>3, <3>3 DEF IInv, TypeOK, TriesOK
    <3> QED BY <3>1, <3>2, <3>3
  <2>8. \A v \in Workers : ~ AtWork(v)' => try'[v] = 0
    BY <2>1, <2>2 DEF IInv, TriesOK
  <2>9. \A u, v \in Workers :
          u # v /\ AtWork(u)' /\ AtWork(v)' /\ held[u] = held[v] => try'[u] # try'[v]
    BY <2>1, <2>2, <2>6 DEF IInv, TriesOK
  <2> QED BY <1>2, <2>7, <2>8, <2>9 DEF TriesOK
<1>10. NudgesOK'
  <2>1. \A v \in Workers : Nudging(v)' => Nudging(v) /\ held[v] \in Messages /\ held[v] # m
    BY <1>1, <1>2 DEF IInv, TypeOK, NudgesOK, Nudging
  <2>2. m \notin owed /\ nudges[m] = 0
    BY <1>1 DEF IInv, TypeOK, NudgesOK, Terminal
  <2>3. \A n \in Messages : n # m => intake'[n] = intake[n]
    BY <1>2 DEF IInv, TypeOK
  <2>4. owed \subseteq Messages
    BY DEF IInv, TypeOK
  <2> QED BY <1>2, <2>1, <2>2, <2>3, <2>4 DEF IInv, NudgesOK
<1>11. KernelOK'
  BY <1>2 DEF IInv, TypeOK, KernelOK, ClaimNext
<1> QED BY <1>5, <1>6, <1>7, <1>8, <1>9, <1>10, <1>11 DEF IInv

\* A worker that goes on to a step that is neither a claim nor a nudge, over a
\* table it leaves alone.
LEMMA GoesOnIInv ==
  ASSUME IInv, NEW w \in Workers, AtWork(w),
         NEW s \in Steps \ {"idle", "claiming", "nudging"},
         step' = [step EXCEPT ![w] = s], result' \in [Workers -> Results],
         UNCHANGED <<intake, asked, replied, held, try, owed, nudges, shown, kernel>>
  PROVE  IInv'
<1>1. TypeOK'
  BY DEF IInv, TypeOK, AtWork
<1>2. ClaimsOK' /\ TriesOK'
  BY DEF IInv, TypeOK, ClaimsOK, TriesOK, Claiming, AtWork
<1>3. NudgesOK'
  BY DEF IInv, TypeOK, NudgesOK, Nudging
<1>4. RowsOK' /\ ShownOK' /\ StreamMirrorsTable' /\ KernelOK'
  BY DEF IInv, TypeOK, RowsOK, ShownOK, StreamMirrorsTable, KernelOK, AtWork
<1> QED BY <1>1, <1>2, <1>3, <1>4 DEF IInv

\* Composing a reply: the gate, and the children, whichever way they end.
LEMMA ComposingIInv ==
  ASSUME IInv, NEW w \in Workers,
         Gather(w) \/ Reply(w) \/ Decide(w) \/ Act(w) \/ Confirm(w)
  PROVE  IInv'
<1>1. AtWork(w)
  BY DEF AtWork, Gather, Reply, Decide, Act, Confirm
<1>2. UNCHANGED <<intake, asked, replied, held, try, owed, nudges, shown, kernel>>
  BY DEF Gather, Reply, Decide, Act, Confirm, table, shell
<1>3. \E s \in Steps \ {"idle", "claiming", "nudging"} : step' = [step EXCEPT ![w] = s]
  BY DEF Gather, Reply, Decide, Act, Confirm, Goto, Steps
<1>4. result' \in [Workers -> Results]
  BY DEF IInv, TypeOK, Gather, Reply, Decide, Act, Confirm, ChildEnds, Results
<1> QED BY <1>1, <1>2, <1>3, <1>4, GoesOnIInv

\* Workers that let go of their messages while rows move quietly, no nudge sent.
LEMMA QuietReleaseIInv ==
  ASSUME IInv, NEW w \in Workers, Release(w), intake' \in [Messages -> Row],
         \A m \in Messages : QuietMove(intake[m], intake'[m]),
         UNCHANGED <<asked, replied, owed, nudges, shown, kernel>>
  PROVE  IInv'
<1>1. \A m \in Messages : Kept(intake[m], intake'[m])
  BY DEF QuietMove
<1>2. /\ ClaimsOK' /\ TriesOK'
      /\ \A v \in Workers : /\ Nudging(v)' => Nudging(v) /\ held'[v] = held[v]
                            /\ held'[v] = NoMessage <=> step'[v] = "idle"
  BY <1>1, ReleaseStops, WorkersStayOrStop
<1>3. TypeOK'
  BY <1>2, ReleaseStops DEF IInv, TypeOK
<1>4. RowsOK' /\ ShownOK' /\ StreamMirrorsTable'
  BY RowsMoveQuietly
<1>5. NudgesOK'
  BY <1>2, NoNudgeSent
<1>6. KernelOK'
  BY DEF IInv, KernelOK, Release, Goto, TypeOK
<1> QED BY <1>2, <1>3, <1>4, <1>5, <1>6 DEF IInv

\* An iteration cut short.
LEMMA IterationFailsIInv ==
  ASSUME IInv, NEW w \in Workers, IterationFails(w)
  PROVE  IInv'
<1>1. intake' = intake /\ intake \in [Messages -> Row]
  BY DEF IterationFails, table, IInv, TypeOK
<1>2. \A m \in Messages : QuietMove(intake[m], intake'[m])
  BY <1>1, StaysQuiet DEF IInv, RowsOK
<1> QED BY <1>1, <1>2, QuietReleaseIInv DEF IterationFails, table, shell

\* An outcome that changed something found its row working; so no outcome of
\* that message had been told, mirrored or nudged about.
LEMMA SettleIInv ==
  ASSUME IInv, NEW w \in Workers, Settle(w)
  PROVE  IInv'
<1> DEFINE m == held[w]
           new == mark_answered(intake[m], try[w])
<1>1. /\ m \in Messages /\ intake[m] \in Row /\ RowOK(intake[m])
      /\ try[w] \in Attempts \ {0} /\ step[w] = "settling"
  BY DEF Settle, IInv, TypeOK, RowsOK, TriesOK, AtWork, Attempts
<1>2. UNCHANGED <<asked, owed, nudges, shown, kernel>>
  BY DEF Settle, shell
<1>3. CASE /\ new # intake[m]
           /\ intake' = [intake EXCEPT ![m] = new]
           /\ replied' = WithTurn(replied, m) /\ Goto(w, "nudging")
           /\ UNCHANGED <<held, try, result>>
  <2>1. intake[m].status = "working"
    BY <1>3 DEF mark_answered
  <2>2. /\ new \in Row /\ RowOK(new) /\ Kept(intake[m], new) /\ new.status = "answered"
    BY <1>1, <2>1 DEF mark_answered, Row, RowOK, Kept, Statuses, Terminal
  <2> HIDE DEF new
  <2>3. TypeOK'
    BY <1>1, <1>2, <1>3, <2>2 DEF IInv, TypeOK, WithTurn, Goto, Steps
  <2>4. RowsOK'
    BY <1>3, <2>2 DEF IInv, TypeOK, RowsOK
  <2>5. intake[m].status \notin Terminal /\ \A n \in Messages : n # m => intake'[n] = intake[n]
    BY <1>3, <2>1 DEF IInv, TypeOK, Terminal
  <2>6. ShownOK'
    BY <1>1, <1>2, <2>5 DEF IInv, ShownOK
  <2>7. StreamMirrorsTable'
    BY <1>1, <1>2, <1>3, <2>1, <2>2 DEF IInv, TypeOK, StreamMirrorsTable, WithTurn
  <2>8. ClaimsOK'
    BY <1>1, <1>3, <2>1, <2>5 DEF IInv, TypeOK, ClaimsOK, Claiming, Goto
  <2>9. TriesOK'
    <3>1. \A v \in Workers : AtWork(v)' <=> AtWork(v)
      BY <1>1, <1>3 DEF IInv, TypeOK, AtWork, Goto
    <3>2. \A n \in Messages : intake'[n].attempts = intake[n].attempts
      BY <1>3, <2>2, <2>5 DEF IInv, TypeOK, Kept
    <3>3. \A v \in Workers : AtWork(v) => held[v] \in Messages
      BY DEF IInv, TypeOK, AtWork
    <3> QED BY <1>3, <3>1, <3>2, <3>3 DEF IInv, TriesOK
  <2>10. NudgesOK'
    <3>1. \A v \in Workers : Nudging(v)' => v = w \/ (Nudging(v) /\ held[v] \in Messages /\ held[v] # m)
      BY <1>3, <2>1 DEF IInv, TypeOK, NudgesOK, Nudging, Goto
    <3>2. m \notin owed /\ nudges[m] = 0 /\ intake'[m].status = "answered"
      BY <1>1, <1>3, <2>1, <2>2, <2>5 DEF IInv, TypeOK, NudgesOK
    <3>3. owed \subseteq Messages
      BY DEF IInv, TypeOK
    <3>4. \A n \in Messages : nudges[n] <= 1 /\ (nudges[n] > 0 => intake'[n].status \in Terminal)
      BY <2>5, <3>2 DEF IInv, NudgesOK
    <3>5. \A n \in owed : intake'[n].status = "abandoned" /\ nudges[n] = 0
      BY <2>5, <3>2, <3>3 DEF IInv, NudgesOK
    <3>6. \A v \in Workers : Nudging(v)' => intake'[held[v]].status = "answered" /\ nudges[held[v]] = 0
      BY <2>5, <3>1, <3>2 DEF IInv, NudgesOK
    <3>7. \A u, v \in Workers : u # v /\ Nudging(u)' /\ Nudging(v)' => held[u] # held[v]
      BY <3>1 DEF IInv, NudgesOK
    <3> QED BY <1>2, <1>3, <3>4, <3>5, <3>6, <3>7 DEF NudgesOK
  <2>11. KernelOK'
    BY <1>1, <1>2 DEF IInv, KernelOK
  <2> QED BY <2>3, <2>4, <2>6, <2>7, <2>8, <2>9, <2>10, <2>11 DEF IInv
<1>4. CASE /\ new = intake[m]
           /\ intake' = [intake EXCEPT ![m] = new]
           /\ Release(w) /\ UNCHANGED replied
  <2>1. \A n \in Messages : QuietMove(intake[n], intake'[n])
    BY <1>1, <1>4, StaysQuiet DEF IInv, TypeOK, RowsOK
  <2>2. intake' \in [Messages -> Row]
    BY <1>1, <1>4 DEF IInv, TypeOK
  <2> QED BY <1>2, <1>4, <2>1, <2>2, QuietReleaseIInv
<1>5. ASSUME NEW why \in {"deadline", "crash"},
             intake' = [intake EXCEPT ![m] = mark_failed(intake[m], why)],
             Release(w), UNCHANGED replied
      PROVE  IInv'
  <2>1. QuietMove(intake[m], mark_failed(intake[m], why))
    BY <1>1, OneRowQuiet
  <2>2. \A n \in Messages : QuietMove(intake[n], intake'[n])
    BY <1>5, <2>1, StaysQuiet DEF IInv, TypeOK, RowsOK
  <2>3. intake' \in [Messages -> Row]
    BY <1>5, <2>1 DEF IInv, TypeOK, QuietMove
  <2> QED BY <1>2, <1>5, <2>2, <2>3, QuietReleaseIInv
<1> QED BY <1>3, <1>4, <1>5 DEF Settle, SettleAnswer, SettleFailure

\* The answer's nudge: it was due, and no other is due for its message.
LEMMA NudgeIInv ==
  ASSUME IInv, NEW w \in Workers, Nudge(w)
  PROVE  IInv'
<1> DEFINE m == held[w]
<1>1. /\ Nudging(w) /\ m \in Messages /\ intake[m].status = "answered" /\ nudges[m] = 0
      /\ nudges' = [nudges EXCEPT ![m] = 1] /\ Release(w)
      /\ UNCHANGED <<intake, asked, replied, owed, shown, kernel>>
  <2>1. Nudging(w) /\ m \in Messages
    BY DEF Nudge, Nudging, IInv, TypeOK
  <2>2. intake[m].status = "answered" /\ nudges[m] = 0
    BY <2>1 DEF IInv, NudgesOK
  <2>3. nudges' = [nudges EXCEPT ![m] = nudges[m] + 1] /\ Release(w)
    BY DEF Nudge
  <2> QED BY <2>1, <2>2, <2>3 DEF Nudge, table, shell
<1>2. \A n \in Messages : Kept(intake[n], intake'[n])
  BY <1>1 DEF Kept
<1>3. /\ ClaimsOK' /\ TriesOK'
      /\ \A v \in Workers : /\ Nudging(v)' => Nudging(v) /\ held'[v] = held[v]
                            /\ held'[v] = NoMessage <=> step'[v] = "idle"
  BY <1>1, <1>2, ReleaseStops, WorkersStayOrStop
<1>4. TypeOK'
  BY <1>1, <1>3, ReleaseStops DEF IInv, TypeOK
<1>5. RowsOK' /\ ShownOK' /\ StreamMirrorsTable'
  BY <1>1 DEF IInv, RowsOK, ShownOK, StreamMirrorsTable
<1>6. NudgesOK'
  <2>1. \A v \in Workers : Nudging(v)' => Nudging(v) /\ v # w /\ held'[v] = held[v]
    BY <1>1, <1>3, ReleaseStops
  <2>2. \A v \in Workers : Nudging(v) => held[v] \in Messages
    BY DEF IInv, TypeOK, Nudging
  <2>3. \A v \in Workers : Nudging(v)' => held[v] # m
    BY <1>1, <2>1 DEF IInv, NudgesOK
  <2>4. m \notin owed /\ owed \subseteq Messages
    BY <1>1 DEF IInv, TypeOK, NudgesOK
  <2>5. \A n \in Messages : nudges'[n] <= 1 /\ (nudges'[n] > 0 => intake[n].status \in Terminal)
    BY <1>1 DEF IInv, TypeOK, NudgesOK, Terminal
  <2>6. \A n \in owed : intake[n].status = "abandoned" /\ nudges'[n] = 0
    BY <1>1, <2>4 DEF IInv, TypeOK, NudgesOK
  <2>7. \A v \in Workers : Nudging(v)' => intake[held[v]].status = "answered" /\ nudges'[held[v]] = 0
    BY <1>1, <2>1, <2>2, <2>3 DEF IInv, TypeOK, NudgesOK
  <2> QED BY <1>1, <2>1, <2>5, <2>6, <2>7 DEF IInv, NudgesOK
<1>7. KernelOK'
  BY <1>1 DEF IInv, KernelOK, Nudging
<1> QED BY <1>3, <1>4, <1>5, <1>6, <1>7 DEF IInv

\* A sweep's pass, or the recovery: the rows it abandons had not been settled, so
\* no nudge was sent or is due for them.
LEMMA SweepIInv ==
  ASSUME IInv, owed = {}, intake' \in [Messages -> Row], owed' = NewlyAbandoned,
         \A m \in Messages : QuietMove(intake[m], intake'[m]),
         kernel' \in {"up", "starting"}, kernel = "up" => kernel' = "up",
         kernel # "up" => \A w \in Workers : step[w] = "idle",
         UNCHANGED <<asked, replied, step, held, try, result, nudges, shown>>
  PROVE  IInv'
<1>1. (\A m \in Messages : Kept(intake[m], intake'[m])) /\ (\A w \in Workers : StaysOrStops(w))
  BY DEF QuietMove, StaysOrStops
<1>2. ClaimsOK' /\ TriesOK' /\ (\A w \in Workers : Nudging(w)' => Nudging(w) /\ held'[w] = held[w])
  BY <1>1, WorkersStayOrStop
<1>3. NudgesOK'
  BY <1>2, NoNudgeSent
<1>4. TypeOK'
  BY DEF IInv, TypeOK, NewlyAbandoned
<1>5. RowsOK' /\ ShownOK' /\ StreamMirrorsTable'
  BY RowsMoveQuietly
<1>6. KernelOK'
  BY DEF IInv, KernelOK
<1> QED BY <1>2, <1>3, <1>4, <1>5, <1>6 DEF IInv

\* A pass of the reconcile sweep.
LEMMA ReconcilePassIInv == IInv /\ ReconcilePass => IInv'
<1> SUFFICES ASSUME IInv, ReconcilePass PROVE IInv'
  OBVIOUS
<1>1. \A m \in Messages : QuietMove(intake[m], intake'[m])
  BY ReconcileQuiet DEF IInv, TypeOK, RowsOK, ReconcilePass
<1>2. intake' \in [Messages -> Row]
  BY <1>1 DEF QuietMove, ReconcilePass
<1> QED BY <1>1, <1>2, SweepIInv DEF ReconcilePass, stream, workers, shell

\* The start-up recovery.
LEMMA RecoverIInv == IInv /\ Recover => IInv'
<1> SUFFICES ASSUME IInv, Recover PROVE IInv'
  OBVIOUS
<1>1. \A m \in Messages : QuietMove(intake[m], intake'[m])
  BY RecoveryQuiet DEF IInv, TypeOK, RowsOK, Recover
<1>2. intake' \in [Messages -> Row]
  BY <1>1 DEF QuietMove, Recover
<1>3. owed = {} /\ kernel # "up" /\ \A w \in Workers : step[w] = "idle"
  BY DEF Recover, IInv, KernelOK
<1> QED BY <1>1, <1>2, <1>3, SweepIInv DEF Recover, stream, workers, shell

\* The nudge of an abandoned message, whether the loop goes on after it or not.
LEMMA NudgeAbandonedIInv ==
  ASSUME IInv, NEW m \in owed, owed' \subseteq owed \ {m},
         nudges' = [nudges EXCEPT ![m] = @ + 1],
         UNCHANGED <<intake, asked, replied, step, held, try, result, shown, kernel>>
  PROVE  IInv'
<1>1. m \in Messages /\ intake[m].status = "abandoned" /\ nudges[m] = 0 /\ owed \subseteq Messages
  BY DEF IInv, TypeOK, NudgesOK
<1>2. TypeOK'
  BY <1>1 DEF IInv, TypeOK
<1>3. NudgesOK'
  <2>1. \A n \in Messages : nudges'[n] = IF n = m THEN 1 ELSE nudges[n]
    BY <1>1 DEF IInv, TypeOK
  <2>2. \A n \in Messages : nudges'[n] <= 1 /\ (nudges'[n] > 0 => intake[n].status \in Terminal)
    BY <1>1, <2>1 DEF IInv, NudgesOK, Terminal
  <2>3. \A n \in owed' : intake[n].status = "abandoned" /\ nudges'[n] = 0
    BY <1>1, <2>1 DEF IInv, NudgesOK
  <2>4. \A w \in Workers : Nudging(w) => intake[held[w]].status = "answered" /\ nudges'[held[w]] = 0
    BY <1>1, <2>1 DEF IInv, TypeOK, NudgesOK, Nudging
  <2> QED BY <2>2, <2>3, <2>4 DEF IInv, NudgesOK, Nudging
<1>4. ClaimsOK' /\ TriesOK'
  BY DEF IInv, ClaimsOK, TriesOK, Claiming, AtWork
<1>5. RowsOK' /\ ShownOK' /\ StreamMirrorsTable' /\ KernelOK'
  BY DEF IInv, RowsOK, ShownOK, StreamMirrorsTable, KernelOK
<1> QED BY <1>2, <1>3, <1>4, <1>5 DEF IInv

\* The kernel dies: claims, attempts and nudges due die with it, rows stand.
LEMMA CrashIInv == IInv /\ Crash => IInv'
<1> SUFFICES ASSUME IInv, Crash PROVE IInv'
  OBVIOUS
<1>1. UNCHANGED <<intake, asked, replied, nudges, shown>>
  BY DEF Crash, table, shell
<1>2. TypeOK'
  BY <1>1, MaxAttemptsAssumption DEF Crash, IInv, TypeOK, Steps, Results, Attempts
<1>3. ClaimsOK' /\ TriesOK'
  BY DEF Crash, ClaimsOK, TriesOK, Claiming, AtWork
<1>4. NudgesOK' /\ KernelOK'
  BY <1>1 DEF Crash, IInv, NudgesOK, Nudging, KernelOK
<1>5. RowsOK' /\ ShownOK' /\ StreamMirrorsTable'
  BY <1>1 DEF IInv, RowsOK, ShownOK, StreamMirrorsTable
<1> QED BY <1>2, <1>3, <1>4, <1>5 DEF IInv

\* The kernel serves.
LEMMA StartThreadsIInv == IInv /\ StartThreads => IInv'
<1> SUFFICES ASSUME IInv, StartThreads PROVE IInv'
  OBVIOUS
<1>1. /\ UNCHANGED <<intake, asked, replied, step, held, try, result, owed, nudges, shown>>
      /\ kernel' = "up"
  BY DEF StartThreads, table, workers, shell
<1>2. TypeOK' /\ KernelOK'
  BY <1>1 DEF IInv, TypeOK, KernelOK
<1>3. RowsOK' /\ ShownOK' /\ StreamMirrorsTable' /\ ClaimsOK' /\ TriesOK' /\ NudgesOK'
  BY <1>1 DEF IInv, RowsOK, ShownOK, StreamMirrorsTable, ClaimsOK, TriesOK, NudgesOK,
              Claiming, AtWork, Nudging
<1> QED BY <1>2, <1>3 DEF IInv

\* A stutter.
LEMMA StutterIInv == IInv /\ UNCHANGED vars => IInv'
BY DEF vars, IInv, TypeOK, RowsOK, ShownOK, StreamMirrorsTable, ClaimsOK, TriesOK,
       NudgesOK, KernelOK, Claiming, AtWork, Nudging

\* Every step keeps the invariant.
LEMMA NextIInv == IInv /\ [Next]_vars => IInv'
<1> SUFFICES ASSUME IInv, [Next]_vars PROVE IInv'
  OBVIOUS
<1>1. CASE \E m \in Messages : IntakeRoute(m) \/ AnswersRoute(m) \/ PassDeadline(m)
  BY <1>1, IntakeRouteIInv, AnswersRouteIInv, PassDeadlineIInv
<1>2. CASE \E ids \in SUBSET Messages : DeliveredRoute(ids)
  BY <1>2, DeliveredRouteIInv
<1>3. CASE \E w \in Workers : WorkerStep(w) \/ IterationFails(w)
  BY <1>3, LockOldestIInv, ClaimNextIInv, ComposingIInv, SettleIInv, NudgeIInv,
     IterationFailsIInv DEF WorkerStep
<1>4. CASE ReconcilePass
  BY <1>4, ReconcilePassIInv
<1>5. ASSUME NEW m \in Messages, NudgeAbandoned(m) \/ NudgeRaises(m)
      PROVE  IInv'
  <2>1. /\ m \in owed /\ owed' \subseteq owed \ {m} /\ nudges' = [nudges EXCEPT ![m] = @ + 1]
        /\ UNCHANGED <<intake, asked, replied, step, held, try, result, shown, kernel>>
    BY <1>5 DEF NudgeAbandoned, NudgeRaises, table, workers, shell
  <2> QED BY <2>1, NudgeAbandonedIInv
<1>6. CASE Crash \/ Recover \/ StartThreads
  BY <1>6, CrashIInv, RecoverIInv, StartThreadsIInv
<1>7. CASE UNCHANGED vars
  BY <1>7, StutterIInv
<1> QED BY <1>1, <1>2, <1>3, <1>4, <1>5, <1>6, <1>7 DEF Next

(***************************************************************************)
(* The theorems.                                                           *)
(***************************************************************************)

\* The inductive invariant holds throughout every behaviour.
THEOREM Inductive == Spec => []IInv
BY InitIInv, NextIInv, PTL DEF Spec

\* No row is claimed more often than the budget allows, and every variable keeps
\* its type.
THEOREM TypeCorrect == Spec => []TypeOK
BY Inductive, PTL DEF IInv

\* Two workers never work on the same attempt at a message.
THEOREM OneWorkerPerAttempt == Spec => []AttemptHasOneWorker
<1>1. IInv => AttemptHasOneWorker
  <2> SUFFICES ASSUME IInv, NEW v \in Workers, NEW w \in Workers, v # w,
                      held[v] = held[w], try[v] = try[w], held[v] # NoMessage
               PROVE  FALSE
    BY DEF AttemptHasOneWorker
  <2>1. step[v] # "idle" /\ step[w] # "idle"
    BY DEF IInv, TypeOK
  <2>2. CASE AtWork(v) /\ AtWork(w)
    BY <2>2 DEF IInv, TriesOK
  <2>3. CASE ~ AtWork(v) /\ ~ AtWork(w)
    BY <2>1, <2>3 DEF IInv, ClaimsOK, Claiming, AtWork
  <2>4. CASE (AtWork(v) /\ ~ AtWork(w)) \/ (~ AtWork(v) /\ AtWork(w))
    BY <2>4 DEF IInv, TriesOK
  <2> QED BY <2>2, <2>3, <2>4
<1> QED BY <1>1, Inductive, PTL

\* failed_reason and answer are set exactly while the status calls for them.
THEOREM RowsExplainThemselves == Spec => []RowExplainsItself
<1>1. IInv => RowExplainsItself
  BY DEF IInv, RowsOK, RowOK, RowExplainsItself
<1> QED BY <1>1, Inductive, PTL

\* The kernel gives up only when every attempt has been spent.
THEOREM NoneAbandonedEarly == Spec => []NoEarlyAbandonment
<1>1. IInv => NoEarlyAbandonment
  BY DEF IInv, RowsOK, RowOK, NoEarlyAbandonment
<1> QED BY <1>1, Inductive, PTL

\* An outcome told by /answers is what becomes of the message for ever.
THEOREM ToldOutcomeIsFinal == Spec => []ShownIsFinal
<1>1. IInv => ShownIsFinal
  BY DEF IInv, ShownOK, ShownIsFinal
<1> QED BY <1>1, Inductive, PTL

\* The conversation has each message once, and its reply exactly when answered.
THEOREM ConversationMirrors == Spec => []StreamMirrorsTable
BY Inductive, PTL DEF IInv

\* A shell is nudged at most once about a message, after it was settled.
THEOREM AtMostOneNudge == Spec => []NudgedOnceSettled
<1>1. IInv => NudgedOnceSettled
  BY DEF IInv, NudgesOK, NudgedOnceSettled
<1> QED BY <1>1, Inductive, PTL

(***************************************************************************)
(* The table keeps AnswerGuarantee's promise.                              *)
(***************************************************************************)

\* The four faces of a row in the promise.
LEMMA Faces ==
  ASSUME NEW row \in Row, RowOK(row)
  PROVE  /\ row.status = "absent" => OutcomeOf(row) = Guarantee!Unsent
         /\ row.status \in {"received", "working", "failed"} => OutcomeOf(row) = Guarantee!Promised
         /\ row.status = "abandoned" => OutcomeOf(row) = Guarantee!Abandoned
         /\ row.status = "answered" =>
              OutcomeOf(row) = [state |-> "answered", reply |-> row.answer]
BY DEF OutcomeOf, RowOK, Terminal, Guarantee!Unsent, Guarantee!Promised, Guarantee!Abandoned,
       Guarantee!NoReply

\* A quiet move is invisible in the promise, or an abandonment.
LEMMA QuietFace ==
  ASSUME NEW old \in Row, RowOK(old), NEW new \in Row, QuietMove(old, new)
  PROVE  \/ /\ OutcomeOf(new) = OutcomeOf(old)
            /\ new.status = "abandoned" <=> old.status = "abandoned"
         \/ /\ OutcomeOf(old) = Guarantee!Promised /\ OutcomeOf(new) = Guarantee!Abandoned
            /\ new.status = "abandoned" /\ old.status # "abandoned"
<1> RowOK(new)
  BY DEF QuietMove
<1>1. CASE old.status = "abandoned"
  BY <1>1, Faces DEF QuietMove, read_outcome, Terminal
<1>2. CASE old.status = "answered"
  <2>1. new.status = "answered" /\ new.answer = old.answer
    BY <1>2 DEF QuietMove, read_outcome, Terminal
  <2> QED BY <1>2, <2>1, Faces
<1>3. CASE old.status = "absent"
  BY <1>3, Faces DEF QuietMove
<1>4. CASE old.status \in {"received", "working", "failed"}
  <2>1. new.status \in {"received", "working", "failed", "abandoned"}
    BY <1>4 DEF QuietMove, Row, Statuses
  <2> QED BY <1>4, <2>1, Faces
<1> QED BY <1>1, <1>2, <1>3, <1>4 DEF Row, Statuses

\* Only receipts touch the delivered flag.
LEMMA FlagStays ==
  ASSUME NEW row \in Row
  PROVE  /\ reconcile(row).delivered = row.delivered
         /\ recover_orphaned(row).delivered = row.delivered
         /\ \A why \in Reasons : mark_failed(row, why).delivered = row.delivered
         /\ \A n \in Attempts : mark_answered(row, n).delivered = row.delivered
<1> DEFINE swept == fail_overdue(row)
           again == requeue_failed(swept)
<1>1. swept \in Row /\ swept.delivered = row.delivered
  BY DEF fail_overdue, Row, Statuses, Reasons
<1>2. again \in Row /\ again.delivered = swept.delivered
  BY <1>1 DEF requeue_failed, Row, Statuses, Reasons
<1>3. abandon_exhausted(again).delivered = again.delivered
  BY <1>2 DEF abandon_exhausted, Row
<1>4. reconcile(row) = abandon_exhausted(again)
  BY DEF reconcile
<1>5. recover_orphaned(row).delivered = row.delivered
  BY DEF recover_orphaned, Row
<1>6. /\ \A why \in Reasons : mark_failed(row, why).delivered = row.delivered
      /\ \A n \in Attempts : mark_answered(row, n).delivered = row.delivered
  BY DEF mark_failed, mark_answered, Row
<1> HIDE DEF swept, again
<1> QED BY <1>1, <1>2, <1>3, <1>4, <1>5, <1>6

\* What the promise sees.
Outcomes == [m \in Messages |-> OutcomeOf(intake[m])]
Spoken == {m \in Messages : replied[m] > 0}
Delivered == {m \in Messages : intake[m].delivered}

\* The promise's step, in terms of what it sees.
PromiseKept == [Guarantee!Next]_(Guarantee!vars)

\* The two actions about one message are such steps.
LEMMA PromiseOfOne ==
  ASSUME NEW n \in Messages, Guarantee!Promise(n) \/ Guarantee!Answer(n)
  PROVE  PromiseKept
BY DEF PromiseKept, Guarantee!Next

\* The two about several messages are, too.
LEMMA PromiseOfSome ==
  ASSUME NEW some \in SUBSET Messages, Guarantee!Abandon(some) \/ Guarantee!Deliver(some)
  PROVE  PromiseKept
BY DEF PromiseKept, Guarantee!Next

\* Nothing the promise sees has changed.
LEMMA Unseen ==
  ASSUME IInv, UNCHANGED <<intake, replied>>
  PROVE  PromiseKept
BY DEF PromiseKept, Guarantee!vars

\* Rows moved quietly with the flag and the stream left alone: an abandonment of
\* the newly abandoned, maybe of none.
LEMMA QuietlyKept ==
  ASSUME IInv, intake' \in [Messages -> Row], replied' = replied,
         \A m \in Messages : /\ QuietMove(intake[m], intake'[m])
                            /\ intake'[m].delivered = intake[m].delivered
  PROVE  PromiseKept
<1>1. \A m \in Messages :
        IF m \in NewlyAbandoned
        THEN OutcomeOf(intake[m]) = Guarantee!Promised /\ OutcomeOf(intake'[m]) = Guarantee!Abandoned
        ELSE OutcomeOf(intake'[m]) = OutcomeOf(intake[m])
  BY QuietFace DEF IInv, TypeOK, RowsOK, NewlyAbandoned
<1>2. Delivered' = Delivered /\ Spoken' = Spoken
  BY DEF Delivered, Spoken
<1>3. Outcomes' = [m \in Messages |-> IF m \in NewlyAbandoned THEN Guarantee!Abandoned ELSE Outcomes[m]]
  BY <1>1 DEF Outcomes
<1>4. \A m \in NewlyAbandoned : Outcomes[m] = Guarantee!Promised
  BY <1>1 DEF Outcomes, NewlyAbandoned
<1>5. NewlyAbandoned \in SUBSET Messages
  BY DEF NewlyAbandoned
<1>6. Guarantee!Abandon(NewlyAbandoned)
  BY <1>2, <1>3, <1>4 DEF Guarantee!Abandon, Outcomes, Spoken, Delivered
<1> QED BY <1>5, <1>6, PromiseOfSome

\* An acknowledgement is a promise.
LEMMA IntakeRouteKept ==
  ASSUME IInv, NEW m \in Messages, IntakeRoute(m)
  PROVE  PromiseKept
<1>1. /\ intake[m].status = "absent" /\ intake[m] \in Row /\ RowOK(intake[m])
      /\ intake' = [intake EXCEPT ![m] = record_message(intake[m])] /\ replied' = replied
  BY DEF IntakeRoute, IInv, TypeOK, RowsOK
<1>2. /\ record_message(intake[m]) \in Row /\ RowOK(record_message(intake[m]))
      /\ record_message(intake[m]).status = "received"
      /\ record_message(intake[m]).delivered = intake[m].delivered
  BY <1>1, MaxAttemptsAssumption DEF record_message, Row, RowOK, Statuses, Terminal, Attempts
<1>3. /\ Outcomes[m] = Guarantee!Unsent
      /\ Outcomes' = [Outcomes EXCEPT ![m] = Guarantee!Promised]
  BY <1>1, <1>2, Faces DEF IInv, TypeOK, Outcomes
<1>4. Delivered' = Delivered /\ Spoken' = Spoken
  BY <1>1, <1>2 DEF IInv, TypeOK, Delivered, Spoken
<1>5. Guarantee!Promise(m)
  BY <1>3, <1>4 DEF Guarantee!Promise, Outcomes, Spoken, Delivered
<1> QED BY <1>5, PromiseOfOne

\* Receipts are recorded for the settled ones among the ids.
LEMMA DeliveredRouteKept ==
  ASSUME IInv, NEW ids \in SUBSET Messages, DeliveredRoute(ids)
  PROVE  PromiseKept
<1> DEFINE settled == {m \in ids : intake[m].status \in Terminal}
<1>1. \A m \in Messages :
        /\ OutcomeOf(intake'[m]) = OutcomeOf(intake[m])
        /\ intake'[m].delivered = (intake[m].delivered \/ m \in settled)
  <2> SUFFICES ASSUME NEW m \in Messages
               PROVE  /\ OutcomeOf(intake'[m]) = OutcomeOf(intake[m])
                      /\ intake'[m].delivered = (intake[m].delivered \/ m \in settled)
    OBVIOUS
  <2>1. CASE m \in settled
    <3>1. intake'[m] = [intake[m] EXCEPT !.delivered = TRUE]
      BY <2>1 DEF DeliveredRoute, mark_delivered
    <3>2. intake[m] \in Row
      BY DEF IInv, TypeOK
    <3>3. intake'[m].delivered = TRUE
      BY <3>1, <3>2 DEF Row
    <3>4. OutcomeOf(intake'[m]) = OutcomeOf(intake[m])
      BY <3>1, <3>2 DEF Row, OutcomeOf
    <3> QED BY <2>1, <3>3, <3>4
  <2>2. CASE m \notin settled
    <3>1. intake'[m] = intake[m]
      BY <2>2 DEF DeliveredRoute, mark_delivered
    <3>2. intake[m].delivered \in BOOLEAN
      BY DEF IInv, TypeOK, Row
    <3> QED BY <2>2, <3>1, <3>2
  <2> QED BY <2>1, <2>2
<1>2. Outcomes' = Outcomes /\ Spoken' = Spoken
  BY <1>1 DEF DeliveredRoute, stream, Outcomes, Spoken
<1>3. Delivered' = Delivered \cup settled
  BY <1>1 DEF Delivered
<1>4. \A m \in settled : Guarantee!Final(Outcomes[m])
  <2> SUFFICES ASSUME NEW m \in settled PROVE Guarantee!Final(Outcomes[m])
    OBVIOUS
  <2>1. m \in Messages /\ intake[m] \in Row /\ RowOK(intake[m]) /\ intake[m].status \in Terminal
    BY DEF IInv, TypeOK, RowsOK
  <2>2. CASE intake[m].status = "abandoned"
    BY <2>1, <2>2, Faces DEF Outcomes, Guarantee!Final
  <2>3. CASE intake[m].status = "answered"
    <3>1. Outcomes[m] = [state |-> "answered", reply |-> intake[m].answer]
      BY <2>1, <2>3, Faces DEF Outcomes
    <3>2. intake[m].answer \in Attempts \ {0}
      BY <2>1, <2>3 DEF Row, RowOK
    <3> QED BY <3>1, <3>2 DEF Guarantee!Final, Guarantee!Answered
  <2> QED BY <2>1, <2>2, <2>3 DEF Terminal
<1>5. PICK some \in SUBSET Messages : some = settled
  OBVIOUS
<1> HIDE DEF settled
<1>6. Guarantee!Deliver(some)
  BY <1>2, <1>3, <1>4, <1>5 DEF Guarantee!Deliver, Outcomes, Spoken, Delivered
<1> QED BY <1>6, PromiseOfSome

\* An outcome that changes its row is the answer, spoken in the same step.
LEMMA SettleKept ==
  ASSUME IInv, NEW w \in Workers, Settle(w)
  PROVE  PromiseKept
<1> DEFINE m == held[w]
           new == mark_answered(intake[m], try[w])
<1>1. /\ m \in Messages /\ intake[m] \in Row /\ RowOK(intake[m])
      /\ try[w] \in Attempts \ {0}
  BY DEF Settle, IInv, TypeOK, RowsOK, TriesOK, AtWork, Attempts
<1>2. CASE /\ new # intake[m]
           /\ intake' = [intake EXCEPT ![m] = new]
           /\ replied' = WithTurn(replied, m)
  <2>1. intake[m].status = "working"
    BY <1>2 DEF mark_answered
  <2>2. new = [intake[m] EXCEPT !.status = "answered", !.answer = try[w], !.overdue = FALSE]
    BY <2>1 DEF mark_answered
  <2>3. /\ new \in Row /\ RowOK(new) /\ new.status = "answered" /\ new.answer = try[w]
        /\ new.delivered = intake[m].delivered
    BY <1>1, <2>1, <2>2 DEF Row, RowOK, Statuses, Terminal
  <2> HIDE DEF new
  <2>4. intake'[m] = new /\ \A n \in Messages : n # m => intake'[n] = intake[n]
    BY <1>1, <1>2 DEF IInv, TypeOK
  <2>5. Outcomes[m] = Guarantee!Promised
    BY <1>1, <2>1, Faces DEF Outcomes
  <2>6. /\ [state |-> "answered", reply |-> try[w]] \in Guarantee!Answered
        /\ Outcomes' = [Outcomes EXCEPT ![m] = [state |-> "answered", reply |-> try[w]]]
    <3>1. [state |-> "answered", reply |-> try[w]] \in Guarantee!Answered
      BY <1>1 DEF Guarantee!Answered
    <3>2. OutcomeOf(new) = [state |-> "answered", reply |-> try[w]]
      BY <2>3, Faces
    <3>3. Outcomes' = [Outcomes EXCEPT ![m] = OutcomeOf(new)]
      BY <1>1, <2>4 DEF Outcomes
    <3> QED BY <3>1, <3>2, <3>3
  <2>7. Delivered' = Delivered
    BY <2>3, <2>4 DEF Delivered
  <2>8. Spoken' = Spoken \cup ({m} \cap Authed)
    BY <1>1, <1>2 DEF IInv, TypeOK, Spoken, WithTurn
  <2>9. PICK n \in Messages : n = m
    BY <1>1
  <2>10. Guarantee!Answer(n)
    BY <2>5, <2>6, <2>7, <2>8, <2>9 DEF Guarantee!Answer, Outcomes, Spoken, Delivered
  <2> QED BY <2>10, PromiseOfOne
<1>3. CASE new = intake[m] /\ intake' = [intake EXCEPT ![m] = new] /\ UNCHANGED replied
  <2>1. intake' = intake
    BY <1>1, <1>3 DEF IInv, TypeOK
  <2> QED BY <1>3, <2>1, Unseen
<1>4. ASSUME NEW why \in {"deadline", "crash"},
             intake' = [intake EXCEPT ![m] = mark_failed(intake[m], why)], UNCHANGED replied
      PROVE  PromiseKept
  <2>1. /\ QuietMove(intake[m], mark_failed(intake[m], why))
        /\ mark_failed(intake[m], why).delivered = intake[m].delivered
    BY <1>1, OneRowQuiet, FlagStays DEF Reasons
  <2>2. \A n \in Messages : /\ QuietMove(intake[n], intake'[n])
                           /\ intake'[n].delivered = intake[n].delivered
    BY <1>1, <1>4, <2>1, StaysQuiet DEF IInv, TypeOK, RowsOK
  <2>3. intake' \in [Messages -> Row]
    BY <1>4, <2>1 DEF IInv, TypeOK, QuietMove
  <2> QED BY <1>4, <2>2, <2>3, QuietlyKept
<1> QED BY <1>2, <1>3, <1>4 DEF Settle, SettleAnswer, SettleFailure

\* Sweeps, recoveries and the clock.
LEMMA SweepKept ==
  ASSUME IInv, ReconcilePass \/ Recover
  PROVE  PromiseKept
<1>1. \A m \in Messages : /\ QuietMove(intake[m], intake'[m])
                         /\ intake'[m].delivered = intake[m].delivered
  BY ReconcileQuiet, RecoveryQuiet, FlagStays DEF IInv, TypeOK, RowsOK, ReconcilePass, Recover
<1>2. intake' \in [Messages -> Row] /\ replied' = replied
  BY <1>1 DEF QuietMove, ReconcilePass, Recover, stream
<1> QED BY <1>1, <1>2, QuietlyKept

\* A claim, and time, are nobody's business.
LEMMA ClaimKept ==
  ASSUME IInv, NEW w \in Workers, ClaimNext(w)
  PROVE  PromiseKept
<1> DEFINE m == held[w]
           new == claim_next(intake[m])
<1>1. /\ m \in Messages /\ intake[m] \in Row /\ RowOK(intake[m]) /\ intake[m].status = "received"
      /\ intake' = [intake EXCEPT ![m] = new] /\ replied' = replied
  BY DEF ClaimNext, stream, IInv, TypeOK, RowsOK, ClaimsOK, Claiming
<1>2. OutcomeOf(new) = OutcomeOf(intake[m]) /\ new.delivered = intake[m].delivered
  BY <1>1 DEF claim_next, Row, OutcomeOf, Terminal
<1> HIDE DEF new
<1>3. Outcomes' = Outcomes /\ Delivered' = Delivered /\ Spoken' = Spoken
  BY <1>1, <1>2 DEF IInv, TypeOK, Outcomes, Delivered, Spoken
<1> QED BY <1>3 DEF PromiseKept, Guarantee!vars, Outcomes, Delivered, Spoken

\* So for time.
LEMMA PassDeadlineKept ==
  ASSUME IInv, NEW m \in Messages, PassDeadline(m)
  PROVE  PromiseKept
<1> DEFINE new == [intake[m] EXCEPT !.overdue = TRUE]
<1>1. /\ intake[m] \in Row /\ intake' = [intake EXCEPT ![m] = new] /\ replied' = replied
  BY DEF PassDeadline, stream, IInv, TypeOK
<1>2. OutcomeOf(new) = OutcomeOf(intake[m]) /\ new.delivered = intake[m].delivered
  BY <1>1 DEF Row, OutcomeOf
<1> HIDE DEF new
<1>3. Outcomes' = Outcomes /\ Delivered' = Delivered /\ Spoken' = Spoken
  BY <1>1, <1>2 DEF IInv, TypeOK, Outcomes, Delivered, Spoken
<1> QED BY <1>3 DEF PromiseKept, Guarantee!vars, Outcomes, Delivered, Spoken

\* The empty table has promised nothing.
LEMMA InitKept == Init => Guarantee!Init
<1> SUFFICES ASSUME Init PROVE Guarantee!Init
  OBVIOUS
<1>1. \A m \in Messages : OutcomeOf(intake[m]) = Guarantee!Unsent /\ intake[m].delivered = FALSE
  BY DEF Init, AbsentRow, OutcomeOf, Terminal, Guarantee!Unsent, Guarantee!NoReply
<1> QED BY <1>1 DEF Init, Guarantee!Init

\* Every step keeps the promise.
LEMMA NextKept == IInv /\ [Next]_vars => PromiseKept
<1> SUFFICES ASSUME IInv, [Next]_vars PROVE PromiseKept
  OBVIOUS
<1>1. ASSUME NEW m \in Messages, IntakeRoute(m) \/ AnswersRoute(m) \/ PassDeadline(m)
      PROVE  PromiseKept
  BY <1>1, IntakeRouteKept, PassDeadlineKept, Unseen DEF AnswersRoute, table
<1>2. CASE \E ids \in SUBSET Messages : DeliveredRoute(ids)
  BY <1>2, DeliveredRouteKept
<1>3. ASSUME NEW w \in Workers, WorkerStep(w) \/ IterationFails(w)
      PROVE  PromiseKept
  <2>1. CASE ClaimNext(w)
    BY <2>1, ClaimKept
  <2>2. CASE Settle(w)
    BY <2>2, SettleKept
  <2>3. CASE \/ LockOldest(w) \/ Gather(w) \/ Reply(w) \/ Decide(w) \/ Act(w)
             \/ Confirm(w) \/ Nudge(w) \/ IterationFails(w)
    BY <2>3, Unseen DEF LockOldest, Gather, Reply, Decide, Act, Confirm, Nudge,
                       IterationFails, table
  <2> QED BY <1>3, <2>1, <2>2, <2>3 DEF WorkerStep
<1>4. CASE ReconcilePass \/ Recover
  BY <1>4, SweepKept
<1>5. ASSUME NEW m \in Messages, NudgeAbandoned(m) \/ NudgeRaises(m)
      PROVE  PromiseKept
  BY <1>5, Unseen DEF NudgeAbandoned, NudgeRaises, table
<1>6. CASE Crash \/ StartThreads
  BY <1>6, Unseen DEF Crash, StartThreads, table
<1>7. CASE UNCHANGED vars
  BY <1>7, Unseen DEF vars
<1> QED BY <1>1, <1>2, <1>3, <1>4, <1>5, <1>6, <1>7 DEF Next

\* The kernel keeps the promise of AnswerGuarantee: for any number of messages,
\* workers and attempts.
THEOREM GuaranteeKept == Spec => KeepsGuarantee
<1>1. Spec => [][Guarantee!Next]_(Guarantee!vars)
  BY Inductive, NextKept, PTL DEF Spec, PromiseKept
<1> QED BY <1>1, InitKept, PTL DEF Spec, KeepsGuarantee, Guarantee!Spec
=============================================================================
