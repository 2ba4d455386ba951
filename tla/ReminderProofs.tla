--------------------------- MODULE ReminderProofs ---------------------------
(***************************************************************************)
(* Theorems about Reminder, for any number of symbiots, messages, workers, *)
(* sweeps, reminders and moments.                                          *)
(***************************************************************************)
EXTENDS Reminder, TLAPS

(***************************************************************************)
(* The inductive invariant.                                                *)
(***************************************************************************)

\* A row that has not been written is blank, one that has is whole.
RowsWhole ==
  \A r \in Ids :
    IF reminder[r].symbiot = None THEN reminder[r] = AbsentRow
    ELSE reminder[r].body \in Lines /\ reminder[r].fire_at \in Moments

\* What a sweep holds is live and says what the sweep read, and no two sweeps
\* hold the same: the row's lock keeps it so until the commit.
ClaimsHold ==
  /\ \A s \in Sweeps : firing[s] # Unclaimed =>
       /\ firing[s].id \in Ids
       /\ Live(firing[s].id)
       /\ firing[s].body = reminder[firing[s].id].body
  /\ \A s, t \in Sweeps :
       firing[s] # Unclaimed /\ firing[t] # Unclaimed /\ s # t => firing[s].id # firing[t].id

\* What an attempt carries: a message, a tool, and a match out of its sender's
\* own set.  A schedule has a match only if it knows its line and its moment.
JobOK(j) ==
  /\ j.step # "idle" => j.message \in Messages
  /\ j.step \in {"judged", "found"} => j.tool \in Tools
  /\ j.step \in {"judged", "found"} /\ j.match # 0 =>
       /\ reminder[j.match].symbiot = Sender[j.message]
       /\ j.tool = "schedule_reminder" => j.line \in Lines /\ j.at \in Moments
  /\ j.step = "found" => j.match # 0

JobsOK == \A w \in Workers : JobOK(job[w])

TableOK ==
  /\ reminder \in [Ids -> Row]
  /\ missives \in [Ids -> Seq(Lines)]
  /\ firing \in [Sweeps -> [id : 0 .. MaxReminders, body : Lines \cup {None}]]
  /\ RowsWhole
  /\ OneStamp
  /\ SaidAsItStands
  /\ OneReminderPerMessage
  /\ ClaimsHold

RestTyped ==
  /\ decline \in [Messages -> 0 .. MaxReminders]
  /\ now \in 0 .. Horizon
  /\ job \in [Workers -> Job]
  /\ tried \in [Messages -> 0 .. MaxAttempts]
  /\ answered \subseteq Messages

IInv == TableOK /\ RestTyped /\ JobsOK /\ DeclinedForOwn

\* What a step leaves of every row: a row keeps its symbiot, a settled one
\* everything.
RowsKept ==
  \A r \in Ids :
    /\ reminder[r].symbiot # None => reminder'[r].symbiot = reminder[r].symbiot
    /\ State(r) # "pending" => reminder'[r] = reminder[r] /\ missives'[r] = missives[r]

USE SenderAssumption, NoneAssumption, BoundsAssumption

(***************************************************************************)
(* What the writes do to the table.                                        *)
(***************************************************************************)

\* A write that leaves the stamp fired_at, the owner and the pin of a live row
\* alone, of a row no sweep holds.
LEMMA EditKeeps ==
  ASSUME TableOK, NEW r \in Ids, Live(r), r \notin Locked,
         NEW y \in Row, y.symbiot = reminder[r].symbiot, y.intake = reminder[r].intake,
         ~ y.fired_at, y.body \in Lines, y.fire_at \in Moments,
         reminder' = [reminder EXCEPT ![r] = y],
         UNCHANGED <<missives, firing>>
  PROVE  TableOK' /\ RowsKept
<1>1. reminder \in [Ids -> Row] /\ y.symbiot # None
  BY DEF TableOK, Live
<1>2. reminder' \in [Ids -> Row] /\ reminder'[r] = y
  BY <1>1
<1>3. \A q \in Ids : q # r => reminder'[q] = reminder[q]
  BY <1>1
<1>4. RowsWhole'
  BY <1>1, <1>2, <1>3 DEF TableOK, RowsWhole
<1>5. OneStamp'
  BY <1>2, <1>3 DEF TableOK, OneStamp
<1>6. SaidAsItStands'
  BY <1>2, <1>3 DEF TableOK, SaidAsItStands, Live
<1>7. OneReminderPerMessage'
  <2>1. \A q \in Ids : reminder'[q].intake = reminder[q].intake
                       /\ reminder'[q].symbiot = reminder[q].symbiot
    BY <1>2, <1>3
  <2> QED BY <2>1 DEF TableOK, OneReminderPerMessage
<1>8. ClaimsHold'
  <2>1. \A s \in Sweeps : firing[s].id # r
    BY DEF Locked
  <2> QED BY <2>1, <1>3 DEF TableOK, ClaimsHold, Live
<1>9. RowsKept
  <2>1. State(r) = "pending"
    BY DEF Live, State
  <2> QED BY <2>1, <1>2, <1>3 DEF RowsKept
<1> QED BY <1>2, <1>4, <1>5, <1>6, <1>7, <1>8, <1>9 DEF TableOK

LEMMA CancelKeeps ==
  ASSUME TableOK, NEW r \in Ids, r \notin Locked, NEW who \in Symbiots,
         reminder' = cancel(who, r), UNCHANGED <<missives, firing>>
  PROVE  TableOK' /\ RowsKept
<1>1. CASE Writable(who, r)
  <2> DEFINE y == [reminder[r] EXCEPT !.cancelled_at = TRUE]
  <2>0. reminder[r] \in Row /\ Live(r) /\ ~ reminder[r].fired_at
        /\ reminder[r].body \in Lines /\ reminder[r].fire_at \in Moments
    BY <1>1 DEF TableOK, RowsWhole, Writable, Live
  <2>1. y \in Row /\ y.symbiot = reminder[r].symbiot /\ y.intake = reminder[r].intake
        /\ ~ y.fired_at /\ y.body \in Lines /\ y.fire_at \in Moments
    BY <2>0 DEF Row
  <2>2. reminder' = [reminder EXCEPT ![r] = y]
    BY <1>1 DEF cancel
  <2> HIDE DEF y
  <2> QED BY <2>0, <2>1, <2>2, EditKeeps
<1>2. CASE ~ Writable(who, r)
  <2>1. UNCHANGED <<reminder, missives, firing>>
    BY <1>2 DEF cancel
  <2> QED BY <2>1 DEF TableOK, RowsWhole, OneStamp, SaidAsItStands,
             OneReminderPerMessage, ClaimsHold, RowsKept, Live
<1> QED BY <1>1, <1>2

LEMMA UpdateKeeps ==
  ASSUME TableOK, NEW r \in Ids, r \notin Locked, NEW who \in Symbiots,
         NEW line \in Lines \cup {None}, NEW at \in 0 .. Horizon,
         reminder' = update(who, r, line, at), UNCHANGED <<missives, firing>>
  PROVE  TableOK' /\ RowsKept
<1>1. CASE Writable(who, r)
  <2> DEFINE body == IF line = None THEN reminder[r].body ELSE line
             moment == IF at = 0 THEN reminder[r].fire_at ELSE at
             y == [reminder[r] EXCEPT !.body = body, !.fire_at = moment]
  <2>0. reminder[r] \in Row /\ Live(r) /\ ~ reminder[r].fired_at
        /\ reminder[r].body \in Lines /\ reminder[r].fire_at \in Moments
    BY <1>1 DEF TableOK, RowsWhole, Writable, Live
  <2>1. body \in Lines
    BY <2>0
  <2>2. moment \in Moments /\ moment \in 0 .. Horizon
    BY <2>0 DEF Moments
  <2>3. reminder' = [reminder EXCEPT ![r] = y]
    BY <1>1 DEF update
  <2> HIDE DEF body, moment
  <2>4. y \in Row /\ y.symbiot = reminder[r].symbiot /\ y.intake = reminder[r].intake
        /\ ~ y.fired_at /\ y.body \in Lines /\ y.fire_at \in Moments
    BY <2>0, <2>1, <2>2 DEF Row
  <2> HIDE DEF y
  <2> QED BY <2>0, <2>3, <2>4, EditKeeps
<1>2. CASE ~ Writable(who, r)
  <2>1. UNCHANGED <<reminder, missives, firing>>
    BY <1>2 DEF update
  <2> QED BY <2>1 DEF TableOK, RowsWhole, OneStamp, SaidAsItStands,
             OneReminderPerMessage, ClaimsHold, RowsKept, Live
<1> QED BY <1>1, <1>2

LEMMA CreateKeeps ==
  ASSUME TableOK, NEW who \in Symbiots, NEW line \in Lines, NEW at \in Moments,
         NEW m \in Messages \cup {None}, m # None => who = Sender[m],
         create(who, line, at, m), UNCHANGED <<missives, firing>>
  PROVE  TableOK' /\ RowsKept
<1>1. CASE Pinned(m)
  <2>1. UNCHANGED <<reminder, missives, firing>>
    BY <1>1 DEF create
  <2> QED BY <2>1 DEF TableOK, RowsWhole, OneStamp, SaidAsItStands,
             OneReminderPerMessage, ClaimsHold, RowsKept, Live
<1>2. CASE ~ Pinned(m)
  <2>1. PICK r \in Ids : /\ reminder[r].symbiot = None
                         /\ reminder' = [reminder EXCEPT ![r] = Written(who, line, at, m)]
    BY <1>2 DEF create, NextId
  <2> DEFINE y == Written(who, line, at, m)
  <2>2. /\ y \in Row /\ y.symbiot = who /\ y.intake = m /\ y.body = line
        /\ y.fire_at = at /\ ~ y.fired_at /\ ~ y.cancelled_at
    BY DEF Written, Row, Moments
  <2>3. reminder' = [reminder EXCEPT ![r] = y]
    BY <2>1
  <2> HIDE DEF y
  <2>4. /\ reminder \in [Ids -> Row] /\ reminder' \in [Ids -> Row] /\ reminder'[r] = y
        /\ \A q \in Ids : q # r => reminder'[q] = reminder[q]
    BY <2>2, <2>3 DEF TableOK
  <2>5. reminder[r] = AbsentRow /\ ~ reminder[r].fired_at /\ ~ reminder[r].cancelled_at
    BY <2>1 DEF TableOK, RowsWhole, AbsentRow
  <2>6. RowsWhole'
    BY <2>2, <2>4 DEF TableOK, RowsWhole
  <2>7. OneStamp'
    BY <2>2, <2>4 DEF TableOK, OneStamp
  <2>8. SaidAsItStands'
    BY <2>2, <2>4, <2>5 DEF TableOK, SaidAsItStands
  <2>9. OneReminderPerMessage'
    <3>1. m # None => \A q \in Ids : reminder[q].intake # m
      BY <1>2 DEF Pinned
    <3>2. SUFFICES ASSUME NEW p \in Ids, reminder'[p].intake # None
                   PROVE  /\ reminder'[p].symbiot = Sender[reminder'[p].intake]
                          /\ \A q \in Ids : reminder'[q].intake = reminder'[p].intake => q = p
      BY DEF OneReminderPerMessage
    <3>3. CASE p = r
      BY <3>1, <3>2, <3>3, <2>2, <2>4
    <3>4. CASE p # r
      <4>1. reminder'[p] = reminder[p]
        BY <3>4, <2>4
      <4>2. /\ reminder[p].symbiot = Sender[reminder[p].intake]
            /\ \A q \in Ids : reminder[q].intake = reminder[p].intake => q = p
        BY <3>2, <4>1 DEF TableOK, OneReminderPerMessage
      <4>3. reminder'[r].intake # reminder[p].intake
        BY <3>1, <3>2, <4>1, <2>2, <2>4
      <4>4. \A q \in Ids : q # r => reminder'[q].intake = reminder[q].intake
        BY <2>4
      <4>5. ASSUME NEW q \in Ids, reminder'[q].intake = reminder'[p].intake PROVE q = p
        <5>1. q # r
          BY <4>1, <4>3, <4>5
        <5> QED BY <5>1, <4>1, <4>2, <4>4, <4>5
      <4> QED BY <4>1, <4>2, <4>5
    <3> QED BY <3>3, <3>4
  <2>10. ClaimsHold'
    <3>1. \A s \in Sweeps : firing[s] # Unclaimed => firing[s].id # r
      BY <2>1 DEF TableOK, ClaimsHold, Live
    <3> QED BY <3>1, <2>4 DEF TableOK, ClaimsHold, Live
  <2>11. RowsKept
    <3>1. State(r) = "pending"
      BY <2>5 DEF State
    <3> QED BY <3>1, <2>1, <2>4 DEF RowsKept
  <2> QED BY <2>4, <2>6, <2>7, <2>8, <2>9, <2>10, <2>11 DEF TableOK
<1> QED BY <1>1, <1>2

(***************************************************************************)
(* Attempts and declines rely on nothing of a row but its symbiot.         *)
(***************************************************************************)

LEMMA OthersRely ==
  ASSUME IInv, RowsKept, UNCHANGED <<decline, job>>
  PROVE  JobsOK' /\ DeclinedForOwn'
<1>1. \A m \in Messages : Sender[m] \in Symbiots /\ Sender[m] # None
  OBVIOUS
<1>2. DeclinedForOwn'
  <2> SUFFICES ASSUME NEW m \in Messages, decline[m] # 0
               PROVE  reminder'[decline[m]].symbiot = Sender[m]
    BY DEF DeclinedForOwn
  <2>1. decline[m] \in Ids
    BY DEF IInv, RestTyped, Ids
  <2>2. reminder[decline[m]].symbiot = Sender[m]
    BY DEF IInv, DeclinedForOwn
  <2> QED BY <1>1, <2>1, <2>2 DEF RowsKept
<1>3. JobsOK'
  <2> SUFFICES ASSUME NEW w \in Workers PROVE JobOK(job[w])'
    BY DEF JobsOK
  <2>1. JobOK(job[w]) /\ job'[w] = job[w] /\ job[w] \in Job
    BY DEF IInv, JobsOK, RestTyped
  <2>2. CASE job[w].step \in {"judged", "found"} /\ job[w].match # 0
    <3>1. job[w].match \in Ids /\ job[w].message \in Messages
      BY <2>1, <2>2 DEF Job, Ids, JobOK
    <3>2. reminder'[job[w].match].symbiot = Sender[job[w].message]
      BY <1>1, <2>1, <2>2, <3>1 DEF RowsKept, JobOK
    <3> QED BY <2>1, <3>2 DEF JobOK
  <2>3. CASE ~ (job[w].step \in {"judged", "found"} /\ job[w].match # 0)
    BY <2>1, <2>3 DEF JobOK
  <2> QED BY <2>2, <2>3
<1> QED BY <1>2, <1>3

\* The same when one attempt moves on, as long as what it carries is in order.
LEMMA AttemptRelies ==
  ASSUME IInv, RowsKept, NEW w \in Workers, NEW j \in Job,
         job' = [job EXCEPT ![w] = j], JobOK(j)', decline' = decline
  PROVE  JobsOK' /\ DeclinedForOwn' /\ job' \in [Workers -> Job]
<1>1. \A m \in Messages : Sender[m] \in Symbiots /\ Sender[m] # None
  OBVIOUS
<1>2. DeclinedForOwn'
  <2> SUFFICES ASSUME NEW m \in Messages, decline[m] # 0
               PROVE  reminder'[decline[m]].symbiot = Sender[m]
    BY DEF DeclinedForOwn
  <2>1. decline[m] \in Ids
    BY DEF IInv, RestTyped, Ids
  <2>2. reminder[decline[m]].symbiot = Sender[m]
    BY DEF IInv, DeclinedForOwn
  <2> QED BY <1>1, <2>1, <2>2 DEF RowsKept
<1>3. job' \in [Workers -> Job] /\ job'[w] = j
  BY DEF IInv, RestTyped
<1>4. JobsOK'
  <2> SUFFICES ASSUME NEW v \in Workers PROVE JobOK(job[v])'
    BY DEF JobsOK
  <2>1. CASE v = w
    BY <2>1, <1>3 DEF JobOK
  <2>2. CASE v # w
    <3>1. JobOK(job[v]) /\ job'[v] = job[v] /\ job[v] \in Job
      BY <2>2 DEF IInv, JobsOK, RestTyped
    <3>2. CASE job[v].step \in {"judged", "found"} /\ job[v].match # 0
      <4>1. job[v].match \in Ids /\ job[v].message \in Messages
        BY <3>1, <3>2 DEF Job, Ids, JobOK
      <4>2. reminder'[job[v].match].symbiot = Sender[job[v].message]
        BY <1>1, <3>1, <3>2, <4>1 DEF RowsKept, JobOK
      <4> QED BY <3>1, <4>2 DEF JobOK
    <3>3. CASE ~ (job[v].step \in {"judged", "found"} /\ job[v].match # 0)
      BY <3>1, <3>3 DEF JobOK
    <3> QED BY <3>2, <3>3
  <2> QED BY <2>1, <2>2
<1> QED BY <1>2, <1>3, <1>4

(***************************************************************************)
(* The steps.                                                              *)
(***************************************************************************)

LEMMA InitOK == Init => IInv
<1> SUFFICES ASSUME Init PROVE IInv
  OBVIOUS
<1>1. AbsentRow \in Row
  BY DEF AbsentRow, Row
<1>2. reminder \in [Ids -> Row] /\ missives \in [Ids -> Seq(Lines)]
  BY <1>1 DEF Init
<1>3. firing \in [Sweeps -> [id : 0 .. MaxReminders, body : Lines \cup {None}]]
  BY DEF Init, Unclaimed
<1>4. RowsWhole /\ OneStamp /\ SaidAsItStands /\ OneReminderPerMessage
  BY DEF Init, AbsentRow, RowsWhole, OneStamp, SaidAsItStands, OneReminderPerMessage
<1>5. ClaimsHold
  BY DEF Init, ClaimsHold
<1>6. IdleJob \in Job
  BY DEF IdleJob, Job, Steps, Results
<1>7. RestTyped
  BY <1>6 DEF Init, RestTyped
<1>8. JobsOK
  BY DEF Init, JobsOK, JobOK, IdleJob
<1>9. DeclinedForOwn
  BY DEF Init, DeclinedForOwn
<1> QED BY <1>2, <1>3, <1>4, <1>5, <1>7, <1>8, <1>9 DEF IInv, TableOK

\* Nothing of the table changes.
LEMMA TableStands ==
  ASSUME TableOK, UNCHANGED <<reminder, missives, firing>>
  PROVE  TableOK' /\ RowsKept
  BY DEF TableOK, RowsWhole, OneStamp, SaidAsItStands, OneReminderPerMessage, ClaimsHold,
         RowsKept, Live

LEMMA RoutesKeep ==
  ASSUME IInv, \/ Tick
               \/ \E who \in Symbiots : AddRoute(who)
               \/ \E who \in Symbiots, r \in Ids : CancelRoute(who, r) \/ UpdateRoute(who, r)
  PROVE  IInv' /\ RowsKept
<1>1. TableOK' /\ RowsKept
  <2>1. CASE Tick
    BY <2>1, TableStands DEF Tick, IInv
  <2>2. CASE \E who \in Symbiots : AddRoute(who)
    <3>1. PICK who \in Symbiots, line \in Lines, at \in Moments : create(who, line, at, None)
      BY <2>2 DEF AddRoute
    <3>2. UNCHANGED <<missives, firing>>
      BY <2>2 DEF AddRoute
    <3> QED BY <3>1, <3>2, CreateKeeps DEF IInv
  <2>3. CASE \E who \in Symbiots, r \in Ids : CancelRoute(who, r)
    BY <2>3, CancelKeeps DEF CancelRoute, IInv
  <2>4. CASE \E who \in Symbiots, r \in Ids : UpdateRoute(who, r)
    <3>1. PICK who \in Symbiots, r \in Ids : UpdateRoute(who, r)
      BY <2>4
    <3>2. PICK line \in Lines \cup {None}, at \in {0} \cup {t \in Moments : t > now} :
            reminder' = update(who, r, line, at)
      BY <3>1 DEF UpdateRoute
    <3>3. at \in 0 .. Horizon
      BY DEF Moments
    <3>4. r \notin Locked /\ UNCHANGED <<missives, firing>>
      BY <3>1 DEF UpdateRoute
    <3> QED BY <3>2, <3>3, <3>4, UpdateKeeps DEF IInv
  <2> QED BY <2>1, <2>2, <2>3, <2>4
<1>2. UNCHANGED <<decline, job, tried, answered>> /\ now' \in 0 .. Horizon
  BY DEF Tick, AddRoute, CancelRoute, UpdateRoute, IInv, RestTyped
<1>3. JobsOK' /\ DeclinedForOwn'
  BY <1>1, <1>2, OthersRely
<1>4. RestTyped'
  BY <1>2 DEF IInv, RestTyped
<1> QED BY <1>1, <1>3, <1>4 DEF IInv

LEMMA IdleTyped == IdleJob \in Job
  BY DEF IdleJob, Job, Steps, Results

\* An attempt that moves on to j.
LEMMA AttemptMoves ==
  ASSUME IInv, TableOK', RowsKept, NEW w \in Workers, NEW j \in Job,
         job' = [job EXCEPT ![w] = j], JobOK(j)',
         UNCHANGED <<decline, now>>, tried' \in [Messages -> 0 .. MaxAttempts],
         answered' \subseteq Messages
  PROVE  IInv'
<1>1. JobsOK' /\ DeclinedForOwn' /\ job' \in [Workers -> Job]
  BY AttemptRelies
<1>2. RestTyped'
  BY <1>1 DEF IInv, RestTyped
<1> QED BY <1>1, <1>2 DEF IInv

\* An attempt that reports.
LEMMA ReportKeeps ==
  ASSUME IInv, TableOK', RowsKept, NEW w \in Workers, job[w].step # "idle",
         NEW result \in Results, Report(w, result),
         UNCHANGED <<decline, now, tried, answered>>
  PROVE  IInv'
<1>1. job[w].message \in Messages
  BY DEF IInv, JobsOK, JobOK
<1>2. PICK j : j = [IdleJob EXCEPT !.step = "speaking", !.message = job[w].message,
                                   !.result = result]
  OBVIOUS
<1>3. j \in Job /\ j.step = "speaking" /\ j.message \in Messages
  BY <1>1, <1>2, IdleTyped DEF Job, Steps
<1>4. JobOK(j)' /\ job' = [job EXCEPT ![w] = j]
  BY <1>2, <1>3 DEF JobOK, Report
<1>5. tried' \in [Messages -> 0 .. MaxAttempts] /\ answered' \subseteq Messages
  BY DEF IInv, RestTyped
<1> QED BY <1>3, <1>4, <1>5, AttemptMoves

LEMMA BeginKeeps ==
  ASSUME IInv, NEW w \in Workers, NEW m \in Messages, Begin(w, m)
  PROVE  IInv' /\ RowsKept
<1>1. TableOK' /\ RowsKept
  BY TableStands DEF Begin, IInv
<1>2. PICK j : j = [IdleJob EXCEPT !.step = "begun", !.message = m, !.now_local = now]
  OBVIOUS
<1>3. job' = [job EXCEPT ![w] = j] /\ UNCHANGED <<decline, now, answered>>
  BY <1>2 DEF Begin
<1>4. tried' \in [Messages -> 0 .. MaxAttempts] /\ answered' \subseteq Messages
  <2>1. tried[m] + 1 \in 0 .. MaxAttempts
    BY DEF Begin, IInv, RestTyped
  <2> QED BY <2>1 DEF Begin, IInv, RestTyped
<1>5. j \in Job /\ j.step = "begun" /\ j.message = m
  BY <1>2, IdleTyped DEF Job, Steps, IInv, RestTyped
<1>6. JobOK(j)'
  BY <1>5 DEF JobOK
<1>7. IInv'
  BY <1>1, <1>3, <1>4, <1>5, <1>6, AttemptMoves
<1> QED BY <1>1, <1>7

LEMMA DecideAndLookKeeps ==
  ASSUME IInv, NEW w \in Workers, DecideAndLook(w)
  PROVE  IInv' /\ RowsKept
<1>1. TableOK' /\ RowsKept
  BY TableStands DEF DecideAndLook, IInv
<1>2. PICK tool \in Tools, line \in Lines \cup {None}, at \in 0 .. Horizon :
        /\ tool \in {"cancel_reminder", "read_reminders"} => line = None
        /\ tool = "cancel_reminder" => at = 0
        /\ \E r \in Candidates(Sender[job[w].message], tool, line, at) \cup {0} :
             job' = [job EXCEPT ![w].tool = tool, ![w].line = line, ![w].at = at,
                                ![w].match = r, ![w].step = "judged"]
  BY Zenon DEF DecideAndLook
<1>3. PICK r \in Candidates(Sender[job[w].message], tool, line, at) \cup {0} :
          job' = [job EXCEPT ![w].tool = tool, ![w].line = line, ![w].at = at,
                             ![w].match = r, ![w].step = "judged"]
  BY <1>2
<1>4. job[w] \in Job /\ job[w].message \in Messages
  BY DEF DecideAndLook, IInv, RestTyped, JobsOK, JobOK
<1>5. PICK j : j = [job[w] EXCEPT !.tool = tool, !.line = line, !.at = at,
                                  !.match = r, !.step = "judged"]
  OBVIOUS
<1>6. r \in 0 .. MaxReminders
  BY DEF Candidates, near, Ids
<1>7. /\ j \in Job /\ j.step = "judged" /\ j.match = r /\ j.tool = tool /\ j.line = line
      /\ j.at = at /\ j.message = job[w].message
  BY <1>5, <1>4, <1>6 DEF Job, Steps
<1>8. job' = [job EXCEPT ![w] = j]
  BY <1>5, <1>3, <1>4 DEF IInv, RestTyped
<1>9. r # 0 => /\ reminder[r].symbiot = Sender[job[w].message]
               /\ tool = "schedule_reminder" => line \in Lines /\ at \in Moments
  BY DEF Candidates, near, Writable, Moments, Tools
<1>10. UNCHANGED <<reminder, decline, now, tried, answered>>
  BY DEF DecideAndLook
<1>11. JobOK(j)'
  BY <1>4, <1>7, <1>9, <1>10 DEF JobOK
<1>12. tried' \in [Messages -> 0 .. MaxAttempts] /\ answered' \subseteq Messages
  BY <1>10 DEF IInv, RestTyped
<1>13. IInv'
  BY <1>1, <1>7, <1>8, <1>10, <1>11, <1>12, AttemptMoves
<1> QED BY <1>1, <1>13

\* The executors' results that write nothing.
LEMMA ReadersKeep ==
  ASSUME IInv, NEW w \in Workers, AskBack(w) \/ RefusePast(w) \/ ReadBack(w)
  PROVE  IInv' /\ RowsKept
<1>1. UNCHANGED <<reminder, decline, missives, now, tried, answered, firing>>
  BY DEF AskBack, RefusePast, ReadBack
<1>2. TableOK' /\ RowsKept
  BY <1>1, TableStands DEF IInv
<1>3. PICK result \in Results : Report(w, result)
  BY DEF AskBack, RefusePast, ReadBack, Results
<1>4. job[w].step # "idle"
  BY DEF AskBack, RefusePast, ReadBack, Unmatched
<1>5. IInv'
  BY <1>1, <1>2, <1>3, <1>4, ReportKeeps
<1> QED BY <1>2, <1>5

LEMMA FindKeeps ==
  ASSUME IInv, NEW w \in Workers, Find(w)
  PROVE  IInv' /\ RowsKept
<1>1. TableOK' /\ RowsKept
  BY TableStands DEF Find, IInv
<1>2. PICK state, j : /\ state = State(job[w].match)
                      /\ j = [job[w] EXCEPT !.held = state, !.step = "found"]
  OBVIOUS
<1>3. job[w] \in Job /\ JobOK(job[w]) /\ job[w].step = "judged" /\ job[w].match # 0
  BY DEF Find, IInv, RestTyped, JobsOK
<1>4. job' = [job EXCEPT ![w] = j] /\ UNCHANGED <<reminder, decline, now, tried, answered>>
  BY <1>2 DEF Find, IInv, RestTyped
<1>5. state \in States
  BY <1>2 DEF State, States
<1>6. /\ j \in Job /\ j.step = "found" /\ j.match = job[w].match /\ j.tool = job[w].tool
      /\ j.line = job[w].line /\ j.at = job[w].at /\ j.message = job[w].message
  BY <1>2, <1>3, <1>5 DEF Job, Steps
<1>7. JobOK(j)'
  BY <1>3, <1>4, <1>6 DEF JobOK
<1>8. tried' \in [Messages -> 0 .. MaxAttempts] /\ answered' \subseteq Messages
  BY <1>4 DEF IInv, RestTyped
<1>9. IInv'
  BY <1>1, <1>4, <1>6, <1>7, <1>8, AttemptMoves
<1> QED BY <1>1, <1>9

LEMMA DeclineKeeps ==
  ASSUME IInv, NEW w \in Workers, Decline(w)
  PROVE  IInv' /\ RowsKept
<1>1. TableOK' /\ RowsKept
  BY TableStands DEF Decline, IInv
<1> DEFINE m == job[w].message
           r == job[w].match
<1>2. m \in Messages /\ r \in Ids /\ reminder[r].symbiot = Sender[m]
  BY DEF Decline, IInv, JobsOK, JobOK, RestTyped, Job, Ids
<1>3. decline' \in [Messages -> 0 .. MaxReminders]
  BY <1>2 DEF Decline, record_decline, IInv, RestTyped, Ids
<1>4. \A n \in Messages : decline'[n] = decline[n] \/ (n = m /\ decline'[n] = r)
  BY <1>2 DEF Decline, record_decline, IInv, RestTyped
<1>5. UNCHANGED <<reminder, now, tried, answered>>
  BY DEF Decline
<1>6. DeclinedForOwn'
  BY <1>2, <1>4, <1>5 DEF IInv, DeclinedForOwn
<1>7. PICK j : j = [IdleJob EXCEPT !.step = "speaking", !.message = m, !.result = "SATISFIED"]
  OBVIOUS
<1>8. j \in Job /\ j.step = "speaking" /\ j.message = m
  BY <1>7, <1>2, IdleTyped DEF Job, Steps, Results
<1>9. job' = [job EXCEPT ![w] = j]
  BY <1>7 DEF Decline, Report
<1>10. job' \in [Workers -> Job]
  BY <1>8, <1>9 DEF IInv, RestTyped
<1>11. JobsOK'
  <2> SUFFICES ASSUME NEW v \in Workers PROVE JobOK(job[v])'
    BY DEF JobsOK
  <2>1. CASE v = w
    BY <2>1, <1>2, <1>8, <1>9 DEF JobOK, IInv, RestTyped
  <2>2. CASE v # w
    BY <2>2, <1>5, <1>9 DEF JobsOK, JobOK, IInv, RestTyped
  <2> QED BY <2>1, <2>2
<1> QED BY <1>1, <1>3, <1>5, <1>6, <1>10, <1>11 DEF IInv, RestTyped

LEMMA WritersKeep ==
  ASSUME IInv, NEW w \in Workers, Schedule(w) \/ CallOff(w) \/ Change(w)
  PROVE  IInv' /\ RowsKept
<1> DEFINE m == job[w].message
           who == Sender[m]
<1>1. /\ job[w] \in Job /\ JobOK(job[w]) /\ job[w].step \in {"judged", "found"}
      /\ m \in Messages /\ who \in Symbiots
  BY DEF Schedule, Unmatched, CallOff, Change, ScopedWrite, IInv, RestTyped, JobsOK, JobOK
<1>2. UNCHANGED <<decline, missives, now, tried, answered, firing>>
  BY DEF Schedule, CallOff, Change, ScopedWrite
<1>3. TableOK' /\ RowsKept
  <2>1. CASE Schedule(w)
    <3>1. job[w].line \in Lines /\ job[w].at \in Moments
      <4>1. CASE job[w].match = 0
        BY <2>1, <1>1, <4>1 DEF Schedule, Unclear, Job, Moments
      <4>2. CASE job[w].match # 0
        BY <2>1, <1>1, <4>2 DEF Schedule, JobOK
      <4> QED BY <4>1, <4>2
    <3>2. create(who, job[w].line, job[w].at, m)
      BY <2>1 DEF Schedule
    <3>3. PICK line \in Lines, at \in Moments, n \in Messages \cup {None}, x \in Symbiots :
            line = job[w].line /\ at = job[w].at /\ n = m /\ x = who
      BY <3>1, <1>1
    <3>4. create(x, line, at, n) /\ (n # None => x = Sender[n])
      BY <3>2, <3>3
    <3> QED BY <3>4, <1>2, CreateKeeps DEF IInv
  <2>2. CASE CallOff(w) \/ Change(w)
    <3>1. job[w].match \in Ids /\ job[w].match \notin Locked
      BY <2>2, <1>1 DEF CallOff, Change, ScopedWrite, JobOK, Job, Ids
    <3>2. job[w].line \in Lines \cup {None} /\ job[w].at \in 0 .. Horizon
      BY <1>1 DEF Job
    <3>3. PICK r \in Ids, line \in Lines \cup {None}, at \in 0 .. Horizon, x \in Symbiots :
            r = job[w].match /\ line = job[w].line /\ at = job[w].at /\ x = who
      BY <3>1, <3>2, <1>1
    <3>4. CASE CallOff(w)
      <4>1. reminder' = cancel(x, r)
        BY <3>3, <3>4 DEF CallOff, ScopedWrite
      <4> QED BY <4>1, <3>1, <3>3, <1>2, CancelKeeps DEF IInv
    <3>5. CASE Change(w)
      <4>1. reminder' = update(x, r, line, at)
        BY <3>3, <3>5 DEF Change, ScopedWrite
      <4> QED BY <4>1, <3>1, <3>3, <1>2, UpdateKeeps DEF IInv
    <3> QED BY <2>2, <3>4, <3>5
  <2> QED BY <2>1, <2>2
<1>4. PICK result \in Results : Report(w, result)
  BY DEF Schedule, CallOff, Change, ScopedWrite, Results
<1>5. IInv'
  BY <1>1, <1>2, <1>3, <1>4, ReportKeeps
<1> QED BY <1>3, <1>5

\* The answer, or the end of a failed attempt: the worker is idle again.
LEMMA EndsKeep ==
  ASSUME IInv, NEW w \in Workers, Speak(w) \/ AttemptFails(w)
  PROVE  IInv' /\ RowsKept
<1>1. /\ UNCHANGED <<reminder, decline, missives, now, tried, firing>>
      /\ job' = [job EXCEPT ![w] = IdleJob]
  BY DEF Speak, AttemptFails
<1>2. TableOK' /\ RowsKept
  BY <1>1, TableStands DEF IInv
<1>3. answered' \subseteq Messages /\ tried' \in [Messages -> 0 .. MaxAttempts]
  BY <1>1 DEF Speak, AttemptFails, IInv, RestTyped, JobsOK, JobOK
<1>4. PICK j \in Job : j = IdleJob
  BY IdleTyped
<1>5. JobOK(j)'
  BY <1>4 DEF JobOK, IdleJob
<1>6. IInv'
  BY <1>1, <1>2, <1>3, <1>4, <1>5, AttemptMoves
<1> QED BY <1>2, <1>6

LEMMA ClaimDueKeeps ==
  ASSUME IInv, NEW s \in Sweeps, ClaimDue(s)
  PROVE  IInv' /\ RowsKept
<1>1. UNCHANGED <<reminder, decline, missives, now, job, tried, answered>>
  BY DEF ClaimDue
<1>2. PICK r \in Due \ Locked :
        firing' = [firing EXCEPT ![s] = [id |-> r, body |-> reminder[r].body]]
  BY DEF ClaimDue
<1>3. r \in Ids /\ Live(r) /\ reminder[r].body \in Lines
  BY DEF Due, Live, IInv, TableOK, RowsWhole
<1>4. firing' \in [Sweeps -> [id : 0 .. MaxReminders, body : Lines \cup {None}]]
  BY <1>2, <1>3 DEF IInv, TableOK, Ids
<1>5. \A t \in Sweeps : firing[t].id # r
  BY DEF Locked
<1>6. /\ firing'[s].id = r /\ firing'[s].body = reminder[r].body
      /\ \A t \in Sweeps : t # s => firing'[t] = firing[t]
  BY <1>2 DEF IInv, TableOK
<1>7. ClaimsHold'
  <2>1. \A t \in Sweeps : firing'[t] # Unclaimed =>
          /\ firing'[t].id \in Ids
          /\ Live(firing'[t].id)
          /\ firing'[t].body = reminder[firing'[t].id].body
    BY <1>3, <1>6 DEF IInv, TableOK, ClaimsHold
  <2>2. \A t, u \in Sweeps :
          firing'[t] # Unclaimed /\ firing'[u] # Unclaimed /\ t # u => firing'[t].id # firing'[u].id
    <3> SUFFICES ASSUME NEW t \in Sweeps, NEW u \in Sweeps, t # u,
                        firing'[t] # Unclaimed, firing'[u] # Unclaimed
                 PROVE  firing'[t].id # firing'[u].id
      OBVIOUS
    <3>1. CASE t = s
      BY <3>1, <1>5, <1>6
    <3>2. CASE u = s
      BY <3>2, <1>5, <1>6
    <3>3. CASE t # s /\ u # s
      BY <3>3, <1>6 DEF IInv, TableOK, ClaimsHold
    <3> QED BY <3>1, <3>2, <3>3
  <2> QED BY <1>1, <2>1, <2>2 DEF ClaimsHold, Live
<1>8. TableOK' /\ RowsKept
  BY <1>1, <1>4, <1>7
  DEF IInv, TableOK, RowsWhole, OneStamp, SaidAsItStands, OneReminderPerMessage, RowsKept
<1>9. JobsOK' /\ DeclinedForOwn'
  BY <1>1, <1>8, OthersRely
<1> QED BY <1>1, <1>8, <1>9 DEF IInv, RestTyped

LEMMA FireKeeps ==
  ASSUME IInv, NEW s \in Sweeps, Fire(s)
  PROVE  IInv' /\ RowsKept
<1> DEFINE r == firing[s].id
<1>1. /\ r \in Ids /\ Live(r) /\ firing[s].body = reminder[r].body /\ firing[s] # Unclaimed
      /\ reminder[r].body \in Lines
  BY DEF Fire, IInv, TableOK, ClaimsHold, RowsWhole, Live
<1>2. /\ missives' = [missives EXCEPT ![r] = Append(@, firing[s].body)]
      /\ reminder' = [reminder EXCEPT ![r].fired_at = TRUE]
      /\ firing' = [firing EXCEPT ![s] = Unclaimed]
      /\ UNCHANGED <<decline, now, job, tried, answered>>
  BY DEF Fire
<1>3. missives[r] = <<>> /\ ~ reminder[r].fired_at /\ ~ reminder[r].cancelled_at
  BY <1>1 DEF IInv, TableOK, SaidAsItStands, Live
<1>4. /\ missives' \in [Ids -> Seq(Lines)]
      /\ missives'[r] = <<reminder[r].body>>
      /\ \A q \in Ids : q # r => missives'[q] = missives[q]
  BY <1>1, <1>2, <1>3 DEF IInv, TableOK
<1>5. PICK y : y = [reminder[r] EXCEPT !.fired_at = TRUE]
  OBVIOUS
<1>6. reminder[r] \in Row
  BY <1>1 DEF IInv, TableOK
<1>7. /\ y \in Row /\ y.fired_at /\ y.cancelled_at = reminder[r].cancelled_at
       /\ y.symbiot = reminder[r].symbiot /\ y.intake = reminder[r].intake
       /\ y.body = reminder[r].body /\ y.fire_at = reminder[r].fire_at
  BY <1>5, <1>6 DEF Row
<1>8. reminder' = [reminder EXCEPT ![r] = y]
  BY <1>5, <1>1, <1>2 DEF IInv, TableOK
<1>9. /\ reminder' \in [Ids -> Row] /\ reminder'[r] = y
      /\ \A q \in Ids : q # r => reminder'[q] = reminder[q]
  BY <1>1, <1>7, <1>8 DEF IInv, TableOK
<1>10. /\ reminder'[r].fired_at /\ ~ reminder'[r].cancelled_at
      /\ reminder'[r].symbiot = reminder[r].symbiot /\ reminder'[r].intake = reminder[r].intake
      /\ reminder'[r].body = reminder[r].body /\ reminder'[r].fire_at = reminder[r].fire_at
  BY <1>3, <1>9, <1>7
<1>11. RowsWhole'
  BY <1>1, <1>9, <1>10 DEF IInv, TableOK, RowsWhole, Live
<1>12. OneStamp' /\ SaidAsItStands'
  BY <1>4, <1>9, <1>10, ZenonT(30) DEF IInv, TableOK, OneStamp, SaidAsItStands
<1>13. OneReminderPerMessage'
  <2>1. \A q \in Ids : reminder'[q].intake = reminder[q].intake
                       /\ reminder'[q].symbiot = reminder[q].symbiot
    BY <1>9, <1>10
  <2> QED BY <2>1 DEF IInv, TableOK, OneReminderPerMessage
<1>14. /\ firing' \in [Sweeps -> [id : 0 .. MaxReminders, body : Lines \cup {None}]]
       /\ firing'[s] = Unclaimed
       /\ \A t \in Sweeps : t # s => firing'[t] = firing[t]
  BY <1>2 DEF IInv, TableOK, Unclaimed
<1>15. ClaimsHold'
  <2>1. \A t \in Sweeps : t # s /\ firing[t] # Unclaimed => firing[t].id # r
    BY <1>1 DEF IInv, TableOK, ClaimsHold
  <2>2. \A t \in Sweeps : firing'[t] # Unclaimed => t # s /\ firing'[t] = firing[t]
    BY <1>14
  <2>3. \A t \in Sweeps : firing'[t] # Unclaimed =>
          firing[t].id \in Ids /\ reminder'[firing[t].id] = reminder[firing[t].id]
    BY <2>1, <2>2, <1>9 DEF IInv, TableOK, ClaimsHold
  <2> QED BY <2>2, <2>3 DEF IInv, TableOK, ClaimsHold, Live
<1>16. RowsKept
  <2>1. State(r) = "pending"
    BY <1>3 DEF State
  <2> QED BY <2>1, <1>4, <1>9, <1>10 DEF RowsKept
<1>17. TableOK'
  BY <1>4, <1>9, <1>11, <1>12, <1>13, <1>14, <1>15 DEF TableOK
<1>18. JobsOK' /\ DeclinedForOwn'
  BY <1>2, <1>16, OthersRely
<1> QED BY <1>2, <1>16, <1>17, <1>18 DEF IInv, RestTyped

LEMMA FireFailsKeeps ==
  ASSUME IInv, NEW s \in Sweeps, FireFails(s)
  PROVE  IInv' /\ RowsKept
<1>1. /\ UNCHANGED <<reminder, decline, missives, now, job, tried, answered>>
      /\ firing' = [firing EXCEPT ![s] = Unclaimed]
  BY DEF FireFails
<1>2. /\ firing' \in [Sweeps -> [id : 0 .. MaxReminders, body : Lines \cup {None}]]
      /\ firing'[s] = Unclaimed
      /\ \A t \in Sweeps : t # s => firing'[t] = firing[t]
  BY <1>1 DEF IInv, TableOK, Unclaimed
<1>3. ClaimsHold'
  BY <1>1, <1>2 DEF IInv, TableOK, ClaimsHold, Live
<1>4. TableOK' /\ RowsKept
  BY <1>1, <1>2, <1>3
  DEF IInv, TableOK, RowsWhole, OneStamp, SaidAsItStands, OneReminderPerMessage, RowsKept
<1>5. JobsOK' /\ DeclinedForOwn'
  BY <1>1, <1>4, OthersRely
<1> QED BY <1>1, <1>4, <1>5 DEF IInv, RestTyped

(***************************************************************************)
(* The table keeps ReminderPromise's promise.                              *)
(***************************************************************************)

\* What a step does to the table: nothing, a firing, or one statement of reminder.py
\* over a row that no sweep holds.
Edits ==
  \/ \E r \in Ids \ Locked, who \in Symbiots : reminder' = cancel(who, r)
  \/ \E r \in Ids \ Locked, who \in Symbiots, line \in Lines \cup {None}, at \in 0 .. Horizon :
       reminder' = update(who, r, line, at)
  \/ \E who \in Symbiots, line \in Lines, at \in Moments, m \in Messages \cup {None} :
       create(who, line, at, m)

TableMoves ==
  \/ UNCHANGED <<reminder, missives, now>>
  \/ Tick
  \/ \E s \in Sweeps : Fire(s)
  \/ Edits /\ UNCHANGED <<missives, now, firing>>

LEMMA RoutesMove ==
  ASSUME NEW who \in Symbiots,
         AddRoute(who) \/ \E r \in Ids : CancelRoute(who, r) \/ UpdateRoute(who, r)
  PROVE  TableMoves
<1>1. CASE AddRoute(who)
  <2>1. PICK line \in Lines, at \in Moments : create(who, line, at, None)
    BY <1>1 DEF AddRoute
  <2>2. PICK m \in Messages \cup {None} : m = None
    OBVIOUS
  <2>3. create(who, line, at, m)
    BY <2>1, <2>2
  <2>4. Edits
    BY <2>3 DEF Edits
  <2> QED BY <2>4, <1>1 DEF TableMoves, AddRoute
<1>2. ASSUME NEW r \in Ids, CancelRoute(who, r) PROVE TableMoves
  <2>1. r \in Ids \ Locked /\ reminder' = cancel(who, r)
    BY <1>2 DEF CancelRoute
  <2>2. Edits
    BY <2>1 DEF Edits
  <2> QED BY <2>2, <1>2 DEF TableMoves, CancelRoute
<1>3. ASSUME NEW r \in Ids, UpdateRoute(who, r) PROVE TableMoves
  <2>1. PICK line \in Lines \cup {None}, at \in {0} \cup {t \in Moments : t > now} :
          reminder' = update(who, r, line, at)
    BY <1>3 DEF UpdateRoute
  <2>2. at \in 0 .. Horizon /\ r \in Ids \ Locked
    BY <1>3 DEF UpdateRoute, Moments
  <2>3. Edits
    BY <2>1, <2>2 DEF Edits
  <2> QED BY <2>3, <1>3 DEF TableMoves, UpdateRoute
<1> QED BY <1>1, <1>2, <1>3

LEMMA WritersMove ==
  ASSUME IInv, NEW w \in Workers, Schedule(w) \/ CallOff(w) \/ Change(w)
  PROVE  TableMoves
<1>1. /\ job[w] \in Job /\ JobOK(job[w]) /\ job[w].step \in {"judged", "found"}
      /\ job[w].message \in Messages /\ Sender[job[w].message] \in Symbiots
  BY DEF Schedule, Unmatched, CallOff, Change, ScopedWrite, IInv, RestTyped, JobsOK, JobOK
<1>2. UNCHANGED <<missives, now, firing>>
  BY DEF Schedule, CallOff, Change, ScopedWrite
<1>3. PICK who \in Symbiots, m \in Messages \cup {None} :
        who = Sender[job[w].message] /\ m = job[w].message
  BY <1>1
<1>4. PICK line \in Lines \cup {None}, at \in 0 .. Horizon : line = job[w].line /\ at = job[w].at
  BY <1>1 DEF Job
<1>5. CASE Schedule(w)
  <2>1. line \in Lines /\ at \in Moments
    <3>1. CASE job[w].match = 0
      BY <1>4, <1>5, <3>1 DEF Schedule, Unclear, Moments
    <3>2. CASE job[w].match # 0
      BY <1>1, <1>4, <1>5, <3>2 DEF Schedule, JobOK
    <3> QED BY <3>1, <3>2
  <2>2. create(who, line, at, m)
    BY <1>3, <1>4, <1>5 DEF Schedule
  <2>3. Edits
    BY <2>1, <2>2 DEF Edits
  <2> QED BY <2>3, <1>2 DEF TableMoves
<1>6. CASE CallOff(w) \/ Change(w)
  <2>1. job[w].match \in Ids \ Locked
    BY <1>1, <1>6 DEF CallOff, Change, ScopedWrite, JobOK, Job, Ids
  <2>2. PICK r \in Ids \ Locked : r = job[w].match
    BY <2>1
  <2>3. reminder' = cancel(who, r) \/ reminder' = update(who, r, line, at)
    BY <1>3, <1>4, <1>6, <2>2 DEF CallOff, Change, ScopedWrite
  <2>4. Edits
    BY <2>3 DEF Edits
  <2> QED BY <2>4, <1>2 DEF TableMoves
<1> QED BY <1>5, <1>6

LEMMA StepMoves ==
  ASSUME IInv, [Next]_vars
  PROVE  TableMoves
<1>1. CASE Tick
  BY <1>1 DEF TableMoves
<1>2. CASE \E who \in Symbiots :
             AddRoute(who) \/ \E r \in Ids : CancelRoute(who, r) \/ UpdateRoute(who, r)
  BY <1>2, RoutesMove
<1>3. ASSUME NEW w \in Workers,
             \/ \E m \in Messages : Begin(w, m)
             \/ DecideAndLook(w) \/ Executor(w) \/ Speak(w) \/ AttemptFails(w)
      PROVE  TableMoves
  <2>1. CASE Schedule(w) \/ CallOff(w) \/ Change(w)
    BY <2>1, WritersMove
  <2>2. CASE \/ \E m \in Messages : Begin(w, m)
             \/ DecideAndLook(w) \/ AskBack(w) \/ RefusePast(w) \/ Find(w) \/ Decline(w)
             \/ ReadBack(w) \/ Speak(w) \/ AttemptFails(w)
    <3>1. UNCHANGED <<reminder, missives, now>>
      BY <2>2 DEF Begin, DecideAndLook, AskBack, RefusePast, Find, Decline, ReadBack, Speak,
                  AttemptFails
    <3> QED BY <3>1 DEF TableMoves
  <2> QED BY <1>3, <2>1, <2>2 DEF Executor
<1>4. ASSUME NEW s \in Sweeps, ClaimDue(s) \/ Fire(s) \/ FireFails(s)
      PROVE  TableMoves
  BY <1>4 DEF TableMoves, ClaimDue, FireFails
<1>5. CASE UNCHANGED vars
  BY <1>5 DEF TableMoves, vars
<1> QED BY <1>1, <1>2, <1>3, <1>4, <1>5 DEF Next

\* What a sweep holds is due, until it lets go: nobody moves a row it has locked.
ClaimsDue ==
  \A s \in Sweeps : firing[s] # Unclaimed => reminder[firing[s].id].fire_at <= now

\* No edit moves the moment of a row that a sweep holds.
LEMMA EditsSpareClaims ==
  ASSUME IInv, Edits, NEW s \in Sweeps, firing[s] # Unclaimed
  PROVE  reminder'[firing[s].id].fire_at = reminder[firing[s].id].fire_at
<1>1. PICK q \in Ids : q = firing[s].id
  BY DEF IInv, TableOK, ClaimsHold
<1>2. q \in Locked /\ Live(q) /\ reminder \in [Ids -> Row]
  BY <1>1 DEF Locked, IInv, TableOK, ClaimsHold
<1>3. reminder[q].symbiot # None
  BY <1>2 DEF Live
<1>4. ASSUME NEW r \in Ids \ Locked, NEW who \in Symbiots, reminder' = cancel(who, r)
      PROVE  reminder'[q].fire_at = reminder[q].fire_at
  BY <1>2, <1>4 DEF cancel
<1>5. ASSUME NEW r \in Ids \ Locked, NEW who \in Symbiots, NEW line \in Lines \cup {None},
             NEW at \in 0 .. Horizon, reminder' = update(who, r, line, at)
      PROVE  reminder'[q].fire_at = reminder[q].fire_at
  BY <1>2, <1>5 DEF update
<1>6. ASSUME NEW who \in Symbiots, NEW line \in Lines, NEW at \in Moments,
             NEW m \in Messages \cup {None}, create(who, line, at, m)
      PROVE  reminder'[q].fire_at = reminder[q].fire_at
  <2>1. CASE Pinned(m)
    BY <1>6, <2>1 DEF create
  <2>2. CASE ~ Pinned(m)
    <3>1. PICK r \in Ids : /\ reminder[r].symbiot = None
                           /\ reminder' = [reminder EXCEPT ![r] = Written(who, line, at, m)]
      BY <1>6, <2>2 DEF create, NextId
    <3> QED BY <3>1, <1>2, <1>3
  <2> QED BY <2>1, <2>2
<1> QED BY <1>1, <1>4, <1>5, <1>6 DEF Edits

LEMMA ClaimsStayDue ==
  ASSUME IInv, ClaimsDue, [Next]_vars
  PROVE  ClaimsDue'
<1> SUFFICES ASSUME NEW t \in Sweeps, firing'[t] # Unclaimed
             PROVE  reminder'[firing'[t].id].fire_at <= now'
  BY DEF ClaimsDue
<1>0. /\ now \in Nat /\ reminder \in [Ids -> Row] /\ DOMAIN firing = Sweeps
      /\ \A s \in Sweeps : firing[s] # Unclaimed => firing[s].id \in Ids
  BY DEF IInv, TableOK, RestTyped, ClaimsHold
<1>1. CASE firing' = firing
  <2>1. PICK q \in Ids : q = firing[t].id
    BY <1>0, <1>1
  <2>2. reminder[q].fire_at <= now /\ reminder[q].fire_at \in Nat
    BY <1>0, <1>1, <2>1 DEF ClaimsDue, Row
  <2>3. reminder'[q].fire_at = reminder[q].fire_at /\ now' \in {now, now + 1}
    <3>1. CASE UNCHANGED <<reminder, missives, now>>
      BY <3>1
    <3>2. CASE Tick
      BY <3>2 DEF Tick
    <3>3. CASE \E s \in Sweeps : Fire(s)
      <4>1. PICK s \in Sweeps : Fire(s)
        BY <3>3
      <4>2. reminder' = [reminder EXCEPT ![firing[s].id].fired_at = TRUE] /\ now' = now
        BY <4>1 DEF Fire
      <4> QED BY <4>2, <1>0
    <3>4. CASE Edits /\ UNCHANGED <<missives, now, firing>>
      BY <3>4, <1>1, <2>1, EditsSpareClaims
    <3> QED BY <3>1, <3>2, <3>3, <3>4, StepMoves DEF TableMoves
  <2> QED BY <1>0, <1>1, <2>1, <2>2, <2>3
<1>2. ASSUME NEW s \in Sweeps, ClaimDue(s) PROVE reminder'[firing'[t].id].fire_at <= now'
  <2>1. PICK r \in Due : firing' = [firing EXCEPT ![s] = [id |-> r, body |-> reminder[r].body]]
    BY <1>2 DEF ClaimDue
  <2>2. UNCHANGED <<reminder, now>> /\ reminder[r].fire_at <= now
    BY <1>2 DEF ClaimDue, Due
  <2>3. CASE t = s
    BY <1>0, <2>1, <2>2, <2>3
  <2>4. CASE t # s
    BY <1>0, <2>1, <2>2, <2>4 DEF ClaimsDue
  <2> QED BY <2>3, <2>4
<1>3. ASSUME NEW s \in Sweeps, Fire(s) \/ FireFails(s)
      PROVE  reminder'[firing'[t].id].fire_at <= now'
  <2>1. firing' = [firing EXCEPT ![s] = Unclaimed] /\ now' = now
    BY <1>3 DEF Fire, FireFails
  <2>2. t # s /\ firing'[t] = firing[t]
    BY <1>0, <2>1
  <2>3. PICK q \in Ids : q = firing[t].id
    BY <1>0, <2>2
  <2>4. \/ reminder' = reminder
        \/ reminder' = [reminder EXCEPT ![firing[s].id].fired_at = TRUE]
    BY <1>3 DEF Fire, FireFails
  <2>5. reminder'[q].fire_at = reminder[q].fire_at
    <3>1. CASE reminder' = reminder
      BY <3>1
    <3>2. ASSUME NEW p, reminder' = [reminder EXCEPT ![p].fired_at = TRUE]
          PROVE  reminder'[q].fire_at = reminder[q].fire_at
      BY <1>0, <3>2
    <3> QED BY <2>4, <3>1, <3>2
  <2> QED BY <2>1, <2>2, <2>3, <2>5 DEF ClaimsDue
<1>4. \/ firing' = firing
      \/ \E s \in Sweeps : ClaimDue(s) \/ Fire(s) \/ FireFails(s)
  BY DEF Next, vars, Tick, AddRoute, CancelRoute, UpdateRoute, Begin, DecideAndLook, Executor,
         AskBack, RefusePast, Find, Decline, Schedule, CallOff, Change, ScopedWrite, ReadBack,
         Speak, AttemptFails
<1> QED BY <1>1, <1>2, <1>3, <1>4

\* What the promise sees of the table.
Stands == [r \in Ids |-> StandsAs(reminder[r])]
Terms == [r \in Ids |-> TermsOf(reminder[r])]

PromiseKept == [Promise!Next]_(Promise!vars)

LEMMA PromiseOfOne ==
  ASSUME NEW r \in Ids,
         Promise!Take(r) \/ Promise!Amend(r) \/ Promise!CallOff(r) \/ Promise!Say(r)
  PROVE  PromiseKept
BY DEF PromiseKept, Promise!Next

LEMMA Unseen ==
  ASSUME UNCHANGED <<reminder, missives, now>>
  PROVE  PromiseKept
BY DEF PromiseKept, Promise!vars

\* A row replaced is one face of the promise replaced.
LEMMA OneFace ==
  ASSUME IInv, NEW r \in Ids, NEW y, reminder' = [reminder EXCEPT ![r] = y]
  PROVE  /\ Stands' = [Stands EXCEPT ![r] = StandsAs(y)]
         /\ Terms' = [Terms EXCEPT ![r] = TermsOf(y)]
<1>1. reminder'[r] = y /\ \A q \in Ids : q # r => reminder'[q] = reminder[q]
  BY DEF IInv, TableOK
<1>2. \A q \in Ids : StandsAs(reminder'[q]) = IF q = r THEN StandsAs(y) ELSE StandsAs(reminder[q])
  BY <1>1
<1>3. \A q \in Ids : TermsOf(reminder'[q]) = IF q = r THEN TermsOf(y) ELSE TermsOf(reminder[q])
  BY <1>1
<1> QED BY <1>2, <1>3 DEF Stands, Terms

\* The two writes over a live row: it is called off, or its terms are changed.
LEMMA RowCalledOff ==
  ASSUME IInv, NEW r \in Ids, Live(r), NEW y, TermsOf(y) = TermsOf(reminder[r]),
         StandsAs(y) = "called off", reminder' = [reminder EXCEPT ![r] = y],
         UNCHANGED <<missives, now>>
  PROVE  PromiseKept
<1>1. StandsAs(reminder[r]) = "standing"
  BY DEF StandsAs, Live
<1>2. Stands' = [Stands EXCEPT ![r] = "called off"] /\ Terms' = [Terms EXCEPT ![r] = TermsOf(y)]
  BY OneFace, ZenonT(30)
<1>3. Stands[r] = "standing" /\ Terms' = Terms
  BY <1>1, <1>2 DEF Stands, Terms
<1>4. Promise!CallOff(r)
  BY <1>2, <1>3 DEF Promise!CallOff, Stands, Terms
<1> QED BY <1>4, PromiseOfOne

LEMMA RowAmended ==
  ASSUME IInv, NEW r \in Ids, Live(r), NEW y, y.symbiot = reminder[r].symbiot,
         y.body \in Lines, y.fire_at \in Moments, StandsAs(y) = "standing",
         reminder' = [reminder EXCEPT ![r] = y], UNCHANGED <<missives, now>>
  PROVE  PromiseKept
<1>1. StandsAs(reminder[r]) = "standing" /\ reminder[r].symbiot \in Symbiots
  BY DEF StandsAs, Live, IInv, TableOK, Row
<1>2. PICK t : t = TermsOf(y)
  OBVIOUS
<1>3. t.owner = Terms[r].owner /\ t \in Promise!Terms
  BY <1>1, <1>2 DEF TermsOf, Terms, Promise!Terms
<1>4. Stands' = [Stands EXCEPT ![r] = "standing"] /\ Terms' = [Terms EXCEPT ![r] = t]
  BY <1>2, OneFace
<1>5. Stands[r] = "standing" /\ Stands' = Stands
  BY <1>1, <1>4 DEF Stands
<1>6. Promise!Amend(r)
  BY <1>3, <1>4, <1>5 DEF Promise!Amend, Stands, Terms
<1> QED BY <1>6, PromiseOfOne

LEMMA CancelPromised ==
  ASSUME IInv, NEW r \in Ids, NEW who \in Symbiots, reminder' = cancel(who, r),
         UNCHANGED <<missives, now>>
  PROVE  PromiseKept
<1>1. CASE Writable(who, r)
  <2>1. PICK y : y = [reminder[r] EXCEPT !.cancelled_at = TRUE]
    OBVIOUS
  <2>2. reminder' = [reminder EXCEPT ![r] = y]
    BY <1>1, <2>1 DEF cancel
  <2>3. reminder[r] \in Row /\ Live(r)
    BY <1>1 DEF Writable, IInv, TableOK
  <2>4. /\ y.symbiot = reminder[r].symbiot /\ y.body = reminder[r].body
        /\ y.fire_at = reminder[r].fire_at /\ y.fired_at = reminder[r].fired_at
        /\ y.cancelled_at = TRUE
    BY <2>1, <2>3 DEF Row
  <2>5. StandsAs(y) = "called off"
    BY <2>3, <2>4 DEF StandsAs, Live
  <2>6. TermsOf(y) = TermsOf(reminder[r])
    BY <2>4 DEF TermsOf
  <2> QED BY <2>2, <2>3, <2>5, <2>6, RowCalledOff
<1>2. CASE ~ Writable(who, r)
  BY <1>2, Unseen DEF cancel
<1> QED BY <1>1, <1>2

LEMMA UpdatePromised ==
  ASSUME IInv, NEW r \in Ids, NEW who \in Symbiots, NEW line \in Lines \cup {None},
         NEW at \in 0 .. Horizon, reminder' = update(who, r, line, at),
         UNCHANGED <<missives, now>>
  PROVE  PromiseKept
<1>1. CASE Writable(who, r)
  <2>1. reminder[r] \in Row /\ Live(r) /\ reminder[r].body \in Lines /\ reminder[r].fire_at \in Moments
    BY <1>1 DEF Writable, Live, IInv, TableOK, RowsWhole
  <2>2. PICK body \in Lines, moment \in Moments :
          /\ body = IF line = None THEN reminder[r].body ELSE line
          /\ moment = IF at = 0 THEN reminder[r].fire_at ELSE at
    BY <2>1 DEF Moments
  <2>3. PICK y : y = [reminder[r] EXCEPT !.body = body, !.fire_at = moment]
    OBVIOUS
  <2>4. reminder' = [reminder EXCEPT ![r] = y]
    BY <1>1, <2>2, <2>3 DEF update
  <2>5. /\ y.symbiot = reminder[r].symbiot /\ y.body = body /\ y.fire_at = moment
        /\ y.fired_at = reminder[r].fired_at /\ y.cancelled_at = reminder[r].cancelled_at
    BY <2>1, <2>3 DEF Row
  <2>6. StandsAs(y) = "standing"
    BY <2>1, <2>5 DEF StandsAs, Live
  <2> QED BY <2>1, <2>4, <2>5, <2>6, RowAmended
<1>2. CASE ~ Writable(who, r)
  BY <1>2, Unseen DEF update
<1> QED BY <1>1, <1>2

LEMMA CreatePromised ==
  ASSUME IInv, NEW who \in Symbiots, NEW line \in Lines, NEW at \in Moments,
         NEW m \in Messages \cup {None}, create(who, line, at, m),
         UNCHANGED <<missives, now>>
  PROVE  PromiseKept
<1>1. CASE Pinned(m)
  BY <1>1, Unseen DEF create
<1>2. CASE ~ Pinned(m)
  <2>1. PICK r \in Ids : /\ reminder[r].symbiot = None
                         /\ reminder' = [reminder EXCEPT ![r] = Written(who, line, at, m)]
    BY <1>2 DEF create, NextId
  <2>2. PICK y : y = Written(who, line, at, m)
    OBVIOUS
  <2>3. StandsAs(reminder[r]) = "unset" /\ StandsAs(y) = "standing"
    BY <2>1, <2>2 DEF StandsAs, Written
  <2>4. PICK t : t = TermsOf(y)
    OBVIOUS
  <2>5. t \in Promise!Terms
    BY <2>2, <2>4 DEF TermsOf, Written, Promise!Terms
  <2>6. Stands' = [Stands EXCEPT ![r] = "standing"] /\ Terms' = [Terms EXCEPT ![r] = t]
    BY <2>1, <2>2, <2>3, <2>4, OneFace
  <2>7. Stands[r] = "unset"
    BY <2>3 DEF Stands
  <2>8. Promise!Take(r)
    BY <2>5, <2>6, <2>7 DEF Promise!Take, Stands, Terms
  <2> QED BY <2>8, PromiseOfOne
<1> QED BY <1>1, <1>2

\* What is said is due, and said as it stands: the sweep's line is the row's.
LEMMA FirePromised ==
  ASSUME IInv, ClaimsDue, NEW s \in Sweeps, Fire(s)
  PROVE  PromiseKept
<1>1. PICK r \in Ids : r = firing[s].id
  BY DEF Fire, IInv, TableOK, ClaimsHold
<1>2. /\ Live(r) /\ firing[s].body = reminder[r].body /\ reminder[r].fire_at <= now
      /\ reminder[r] \in Row
  BY <1>1 DEF Fire, IInv, TableOK, ClaimsHold, ClaimsDue
<1>3. PICK y : y = [reminder[r] EXCEPT !.fired_at = TRUE]
  OBVIOUS
<1>4. /\ reminder' = [reminder EXCEPT ![r] = y] /\ now' = now
      /\ missives' = [missives EXCEPT ![r] = Append(@, reminder[r].body)]
  BY <1>1, <1>2, <1>3 DEF Fire
<1>5. /\ y.symbiot = reminder[r].symbiot /\ y.body = reminder[r].body
      /\ y.fire_at = reminder[r].fire_at /\ y.fired_at = TRUE
  BY <1>2, <1>3 DEF Row
<1>6. StandsAs(reminder[r]) = "standing" /\ StandsAs(y) = "said" /\ TermsOf(y) = TermsOf(reminder[r])
  BY <1>2, <1>5 DEF StandsAs, TermsOf, Live
<1>7. Stands' = [Stands EXCEPT ![r] = "said"] /\ Terms' = [Terms EXCEPT ![r] = TermsOf(y)]
  BY <1>4, <1>6, OneFace, ZenonT(30)
<1>8. Terms' = Terms /\ Stands[r] = "standing"
  BY <1>6, <1>7 DEF Stands, Terms
<1>9. Terms[r].at <= now /\ Terms[r].line = reminder[r].body
  BY <1>2 DEF Terms, TermsOf
<1>10. Promise!Say(r)
  BY <1>4, <1>7, <1>8, <1>9 DEF Promise!Say, Stands, Terms
<1> QED BY <1>10, PromiseOfOne

LEMMA StepPromised ==
  ASSUME IInv, ClaimsDue, [Next]_vars
  PROVE  PromiseKept
<1>1. CASE UNCHANGED <<reminder, missives, now>>
  BY <1>1, Unseen
<1>2. CASE Tick
  <2>1. Promise!Pass
    BY <1>2 DEF Tick, Promise!Pass
  <2> QED BY <2>1 DEF PromiseKept, Promise!Next
<1>3. CASE \E s \in Sweeps : Fire(s)
  BY <1>3, FirePromised
<1>4. CASE Edits /\ UNCHANGED <<missives, now, firing>>
  BY <1>4, CancelPromised, UpdatePromised, CreatePromised DEF Edits
<1> QED BY <1>1, <1>2, <1>3, <1>4, StepMoves DEF TableMoves

LEMMA InitPromised == Init => Promise!Init /\ ClaimsDue
<1> SUFFICES ASSUME Init PROVE Promise!Init /\ ClaimsDue
  OBVIOUS
<1>1. \A r \in Ids : /\ StandsAs(reminder[r]) = "unset"
                     /\ TermsOf(reminder[r]) = Promise!NoTerms
  BY DEF Init, AbsentRow, StandsAs, TermsOf, Promise!NoTerms
<1>2. ClaimsDue
  BY DEF Init, ClaimsDue
<1> QED BY <1>1, <1>2 DEF Init, Promise!Init

(***************************************************************************)
(* The theorems.                                                           *)
(***************************************************************************)

LEMMA StepKeeps ==
  ASSUME IInv, [Next]_vars
  PROVE  IInv' /\ RowsKept
<1>1. CASE Tick \/ (\E who \in Symbiots : AddRoute(who))
           \/ (\E who \in Symbiots, r \in Ids : CancelRoute(who, r) \/ UpdateRoute(who, r))
  BY <1>1, RoutesKeep
<1>2. CASE \E w \in Workers, m \in Messages : Begin(w, m)
  BY <1>2, BeginKeeps
<1>3. ASSUME NEW w \in Workers, DecideAndLook(w) \/ Executor(w) \/ Speak(w) \/ AttemptFails(w)
      PROVE  IInv' /\ RowsKept
  <2>1. CASE DecideAndLook(w)
    BY <2>1, DecideAndLookKeeps
  <2>2. CASE Executor(w)
    BY <2>2, ReadersKeep, FindKeeps, DeclineKeeps, WritersKeep DEF Executor
  <2>3. CASE Speak(w) \/ AttemptFails(w)
    BY <2>3, EndsKeep
  <2> QED BY <1>3, <2>1, <2>2, <2>3
<1>4. ASSUME NEW s \in Sweeps, ClaimDue(s) \/ Fire(s) \/ FireFails(s)
      PROVE  IInv' /\ RowsKept
  BY <1>4, ClaimDueKeeps, FireKeeps, FireFailsKeeps
<1>5. CASE UNCHANGED vars
  <2>1. UNCHANGED <<reminder, decline, missives, now, job, tried, answered, firing>>
    BY <1>5 DEF vars
  <2>2. TableOK' /\ RowsKept
    BY <2>1, TableStands DEF IInv
  <2>3. JobsOK' /\ DeclinedForOwn'
    BY <2>1, <2>2, OthersRely
  <2> QED BY <2>1, <2>2, <2>3 DEF IInv, RestTyped
<1> QED BY <1>1, <1>2, <1>3, <1>4, <1>5 DEF Next

\* IInv holds in every reachable state, whatever fires, fails, retries or races.
THEOREM Inductive == Spec => []IInv
<1>1. Init => IInv
  BY InitOK
<1>2. IInv /\ [Next]_vars => IInv'
  BY StepKeeps
<1> QED BY <1>1, <1>2, PTL DEF Spec

\* A reminder is never both fired and called off: a firing holds its row from its
\* read to its stamp, and cancel asks for a live row (reminder.py, standing).
THEOREM NeverBothStamps == Spec => []OneStamp
<1>1. IInv => OneStamp
  BY DEF IInv, TableOK
<1> QED BY <1>1, Inductive, PTL

\* Each reminder is said exactly when it has fired, once, as it was last worded.
THEOREM SaidOnce == Spec => []SaidAsItStands
<1>1. IInv => SaidAsItStands
  BY DEF IInv, TableOK
<1> QED BY <1>1, Inductive, PTL

\* However often a message is tried, it leaves at most one reminder, its sender's.
THEOREM MessageLeavesOne == Spec => []OneReminderPerMessage
<1>1. IInv => OneReminderPerMessage
  BY DEF IInv, TableOK
<1> QED BY <1>1, Inductive, PTL

\* A message is told only of reminders of its own sender that it is held already.
THEOREM DeclinesStayHome == Spec => []DeclinedForOwn
<1>1. IInv => DeclinedForOwn
  BY DEF IInv
<1> QED BY <1>1, Inductive, PTL

\* What has fired or been called off is never touched again.
THEOREM SettledForGood == Spec => SettledStays
<1>1. IInv /\ [Next]_vars =>
        [\A r \in Ids : State(r) # "pending" =>
           reminder'[r] = reminder[r] /\ missives'[r] = missives[r]]_vars
  BY StepKeeps DEF RowsKept
<1> QED BY <1>1, Inductive, PTL DEF Spec, SettledStays

\* Every variable has its type.
THEOREM TypeCorrect == Spec => []TypeOK
<1>1. IInv => TypeOK
  <2> SUFFICES ASSUME IInv PROVE TypeOK
    OBVIOUS
  <2>1. \A r \in Ids : reminder[r].symbiot = None <=> reminder[r].fire_at = 0
    BY DEF IInv, TableOK, RowsWhole, AbsentRow, Moments
  <2> QED BY <2>1 DEF IInv, TableOK, RestTyped, TypeOK
<1> QED BY <1>1, Inductive, PTL

\* The kernel keeps the promise of ReminderPromise, for any number of symbiots, messages,
\* workers, sweeps and reminders: one is said at most once, not before its moment, in the
\* words it has then, and its owner never changes.
THEOREM PromiseIsKept == Spec => KeepsPromise
<1>1. Spec => []ClaimsDue
  <2>1. Init => ClaimsDue
    BY InitPromised
  <2>2. IInv /\ ClaimsDue /\ [Next]_vars => ClaimsDue'
    BY ClaimsStayDue
  <2> QED BY <2>1, <2>2, Inductive, PTL DEF Spec
<1>2. IInv /\ ClaimsDue /\ [Next]_vars => PromiseKept
  BY StepPromised
<1>3. Spec => [][Promise!Next]_(Promise!vars)
  BY <1>1, <1>2, Inductive, PTL DEF Spec, PromiseKept
<1>4. Init => Promise!Init
  BY InitPromised
<1> QED BY <1>3, <1>4, PTL DEF Spec, KeepsPromise, Promise!Spec
=============================================================================
