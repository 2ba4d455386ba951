------------------------------ MODULE Reminder ------------------------------
(***************************************************************************)
(* The reminder's lifecycle: the reminder and reminder_decline tables and  *)
(* the reads and writes over them (services/tools/reminder.py), the        *)
(* attempts of the tool seam that schedule, call off, move and list        *)
(* reminders for a message (worker._answer: decide, look, act, speak), the *)
(* terse routes that do the same at once (main.py, /reminders/...), and    *)
(* the firing sweep (worker._fire_one).                                    *)
(*                                                                         *)
(* Transactions run at READ COMMITTED, so an executor's read (find) and    *)
(* its write are two steps with anything in between.  A single statement   *)
(* is one step: it checks its WHERE clause and writes in the same breath,  *)
(* after waiting for the row's lock.                                       *)
(*                                                                         *)
(* Which message is tried when is Intake's concern.  Here any unanswered   *)
(* message with attempts left may be tried at any time, also by two        *)
(* workers at once, as a swept worker and its successor do.                *)
(***************************************************************************)
EXTENDS Naturals, Sequences, FiniteSets

CONSTANTS
  Symbiots,     \* the people
  Messages,     \* intake ids of the messages that ask for something to be done
  Sender,       \* the symbiot behind each message
  Workers,      \* the pool's threads
  Sweeps,       \* threads running the firing sweep (lifespan starts one)
  Lines,        \* what a reminder may say
  MaxReminders, \* bound on the reminder ids issued
  Horizon,      \* bound on the clock; moments are 1 .. Horizon, 0 is none
  Window,       \* config.REMINDER_DEDUP_WINDOW_HOURS
  MaxAttempts,  \* config.MAX_INTAKE_ATTEMPTS
  None          \* no symbiot, message or line

ASSUME SenderAssumption == Sender \in [Messages -> Symbiots]
ASSUME NoneAssumption == None \notin Symbiots \cup Messages \cup Lines
ASSUME BoundsAssumption ==
  MaxReminders \in Nat /\ Horizon \in Nat /\ Window \in Nat /\ MaxAttempts \in Nat

VARIABLES
  reminder,  \* the table: a row for each id
  decline,   \* reminder_decline: the reminder each message was told already stands, 0 if none
  missives,  \* the lines the sweep has sent for each reminder, in order
  now,       \* the database's clock
  job,       \* what each worker's attempt has decided, seen and done
  tried,     \* how many attempts at each message have begun
  answered,  \* the messages that have their answer
  firing     \* the reminder each sweep's open transaction claimed, and its line as read

vars == <<reminder, decline, missives, now, job, tried, answered, firing>>

Ids     == 1 .. MaxReminders
Moments == 1 .. Horizon
Tools   == {"schedule_reminder", "cancel_reminder", "update_reminder", "read_reminders"}

\* A row.  The stamps fired_at and cancelled_at only matter by being set.
Row == [symbiot : Symbiots \cup {None}, intake : Messages \cup {None},
        body : Lines \cup {None}, fire_at : 0 .. Horizon,
        fired_at : BOOLEAN, cancelled_at : BOOLEAN]

AbsentRow == [symbiot |-> None, intake |-> None, body |-> None, fire_at |-> 0,
              fired_at |-> FALSE, cancelled_at |-> FALSE]

\* Where an attempt is, and what its executor reported (a tools.ToolResult, the
\* UNABLE ones by their reason).
Steps   == {"idle", "begun", "judged", "found", "speaking"}
Results == {"none", "SATISFIED", "UNCLEAR", "ACTED", "REPORTED",
            "gone by", "fired", "cancelled"}
States  == {"pending", "fired", "cancelled"}

Job == [step : Steps, message : Messages \cup {None}, tool : Tools \cup {"none"},
        line : Lines \cup {None}, at : 0 .. Horizon, now_local : 0 .. Horizon,
        match : 0 .. MaxReminders, held : States \cup {"unread"}, result : Results]

IdleJob == [step |-> "idle", message |-> None, tool |-> "none", line |-> None,
            at |-> 0, now_local |-> 0, match |-> 0, held |-> "unread", result |-> "none"]

Unclaimed == [id |-> 0, body |-> None]

Init ==
  /\ reminder = [r \in Ids |-> AbsentRow]
  /\ decline = [m \in Messages |-> 0]
  /\ missives = [r \in Ids |-> <<>>]
  /\ now = 0
  /\ job = [w \in Workers |-> IdleJob]
  /\ tried = [m \in Messages |-> 0]
  /\ answered = {}
  /\ firing = [s \in Sweeps |-> Unclaimed]

(***************************************************************************)
(* The reads and writes of reminder.py.                                    *)
(***************************************************************************)

Live(r) ==
  /\ reminder[r].symbiot # None
  /\ ~ reminder[r].fired_at
  /\ ~ reminder[r].cancelled_at

\* The three conditions both writes over the standing set carry.
Writable(who, r) == Live(r) /\ reminder[r].symbiot = who

\* The one word for where a reminder stands, read off the two stamps.
State(r) ==
  IF reminder[r].fired_at THEN "fired"
  ELSE IF reminder[r].cancelled_at THEN "cancelled" ELSE "pending"

\* Mutant: claim_due reads without FOR UPDATE.
NothingLocked == {}

\* Rows an open transaction of a sweep holds FOR UPDATE: writes to them, and
\* inserts of references to them, wait.
Locked == {firing[s].id : s \in Sweeps}

cancel(who, r) ==
  IF Writable(who, r) THEN [reminder EXCEPT ![r].cancelled_at = TRUE] ELSE reminder

\* Mutant: the row is read, found editable, and then written by its id alone.
update_by_id(who, r, line, at) ==
  [reminder EXCEPT ![r].body = IF line = None THEN @ ELSE line,
                   ![r].fire_at = IF at = 0 THEN @ ELSE at]

\* Mutant: no coalesce, an argument left out empties its column.
update_both(who, r, line, at) ==
  IF Writable(who, r)
  THEN [reminder EXCEPT ![r].body = line, ![r].fire_at = at]
  ELSE reminder

update(who, r, line, at) ==
  IF Writable(who, r)
  THEN [reminder EXCEPT ![r].body = IF line = None THEN @ ELSE line,
                        ![r].fire_at = IF at = 0 THEN @ ELSE at]
  ELSE reminder

Written(who, line, at, m) ==
  [symbiot |-> who, intake |-> m, body |-> line, fire_at |-> at,
   fired_at |-> FALSE, cancelled_at |-> FALSE]

\* The id an insert gets: the first that has not been issued.
NextId(r) ==
  /\ reminder[r].symbiot = None
  /\ \A q \in Ids : q < r => reminder[q].symbiot # None

\* A null intake_id conflicts with nothing.
Pinned(m) == m # None /\ \E r \in Ids : reminder[r].intake = m

\* Mutant: no ON CONFLICT.
create_again(who, line, at, m) ==
  \E r \in Ids : NextId(r) /\ reminder' = [reminder EXCEPT ![r] = Written(who, line, at, m)]

\* ON CONFLICT (intake_id) DO NOTHING.
create(who, line, at, m) ==
  IF Pinned(m) THEN UNCHANGED reminder
  ELSE \E r \in Ids : NextId(r) /\ reminder' = [reminder EXCEPT ![r] = Written(who, line, at, m)]

\* Mutant: the wording alone is looked for, in everybody's reminders.
near_anyone(who, at) == {r \in Ids : Live(r)}

\* The live reminders of a symbiot, around a moment if one is given.
near(who, at) ==
  {r \in Ids : /\ Writable(who, r)
               /\ at # 0 => /\ reminder[r].fire_at <= at + Window
                            /\ at <= reminder[r].fire_at + Window}

record_decline(m, r) ==
  IF decline[m] = 0 THEN [decline EXCEPT ![m] = r] ELSE decline

\* Mutant: the moment itself is not yet due.
DueLater == {r \in Ids : Live(r) /\ reminder[r].fire_at < now}

\* Mutant: a reminder is due a tick before its moment.
DueEarly == {r \in Ids : Live(r) /\ reminder[r].fire_at <= now + 1}

Due == {r \in Ids : Live(r) /\ reminder[r].fire_at <= now}

(***************************************************************************)
(* The clock, and the terse routes.                                        *)
(***************************************************************************)

Tick ==
  /\ now < Horizon
  /\ now' = now + 1
  /\ UNCHANGED <<reminder, decline, missives, job, tried, answered, firing>>

\* POST /reminders/add: parse_future_wall_clock only yields moments to come.
AddRoute(who) ==
  /\ \E line \in Lines, at \in Moments : at > now /\ create(who, line, at, None)
  /\ UNCHANGED <<decline, missives, now, job, tried, answered, firing>>

\* POST /reminders/cancel, with any id a shell may still hold.
CancelRoute(who, r) ==
  /\ r \notin Locked
  /\ reminder' = cancel(who, r)
  /\ UNCHANGED <<decline, missives, now, job, tried, answered, firing>>

\* POST /reminders/update, likewise: a new moment to come, a new line, or both.
UpdateRoute(who, r) ==
  /\ r \notin Locked
  /\ \E line \in Lines \cup {None}, at \in {0} \cup {t \in Moments : t > now} :
       /\ line # None \/ at # 0
       /\ reminder' = update(who, r, line, at)
  /\ UNCHANGED <<decline, missives, now, job, tried, answered, firing>>

(***************************************************************************)
(* An attempt at a message, in the order worker._answer takes its steps.   *)
(***************************************************************************)

\* The attempt begins: the local time is read, once for all its calls.
Begin(w, m) ==
  /\ job[w].step = "idle"
  /\ m \notin answered
  /\ tried[m] < MaxAttempts
  /\ tried' = [tried EXCEPT ![m] = @ + 1]
  /\ job' = [job EXCEPT ![w] =
       [IdleJob EXCEPT !.step = "begun", !.message = m, !.now_local = now]]
  /\ UNCHANGED <<reminder, decline, missives, now, answered, firing>>

\* What the tool's hook offers the judge: around the moment asked for when one is
\* to be scheduled, all that is held when one is to be pointed at.
Candidates(who, tool, line, at) ==
  {r \in near(who, at) : tool = "schedule_reminder" /\ line # None /\ at # 0}
    \cup {r \in near(who, 0) : tool \in {"cancel_reminder", "update_reminder"}}

\* Decide and look.  The decision names a tool and its arguments: any, as what a
\* model reads into a sentence may differ between two attempts.  The hook then
\* reads, and the judge names a candidate or none; hook and judge may fail, which
\* counts as none.  Nothing is read between decision and look, so they are a step.
DecideAndLook(w) ==
  /\ job[w].step = "begun"
  /\ \E tool \in Tools, line \in Lines \cup {None}, at \in 0 .. Horizon :
       /\ tool \in {"cancel_reminder", "read_reminders"} => line = None
       /\ tool = "cancel_reminder" => at = 0
       /\ \E r \in Candidates(Sender[job[w].message], tool, line, at) \cup {0} :
            job' = [job EXCEPT ![w].tool = tool, ![w].line = line, ![w].at = at,
                               ![w].match = r, ![w].step = "judged"]
  /\ UNCHANGED <<reminder, decline, missives, now, tried, answered, firing>>

\* What is asked back before anything is read or written.
Unclear(j) ==
  \/ j.tool = "schedule_reminder" /\ j.match = 0 /\ (j.line = None \/ j.at = 0)
  \/ j.tool = "cancel_reminder" /\ j.match = 0
  \/ j.tool = "update_reminder" /\ (j.match = 0 \/ (j.line = None /\ j.at = 0))
  \/ j.tool = "read_reminders" /\ j.at = 0

\* The moment named is not after the local time the attempt began with.
GoneBy(j) == j.at # 0 /\ j.at <= j.now_local

\* The schedule's executor goes on past the verdict: there is no match, or the
\* match is no longer live.
Unmatched(j) ==
  \/ j.step = "judged" /\ j.match = 0
  \/ j.step = "found" /\ j.held # "pending"

\* The executor's ToolResult; its arguments are no longer needed.
Report(w, result) ==
  job' = [job EXCEPT ![w] =
    [IdleJob EXCEPT !.step = "speaking", !.message = job[w].message, !.result = result]]

AskBack(w) ==
  /\ job[w].step = "judged"
  /\ Unclear(job[w])
  /\ Report(w, "UNCLEAR")
  /\ UNCHANGED <<reminder, decline, missives, now, tried, answered, firing>>

\* A reminder points forward.
RefusePast(w) ==
  /\ GoneBy(job[w])
  /\ \/ job[w].tool = "schedule_reminder" /\ Unmatched(job[w]) /\ ~ Unclear(job[w])
     \/ job[w].tool = "update_reminder" /\ job[w].step = "judged" /\ ~ Unclear(job[w])
  /\ Report(w, "gone by")
  /\ UNCHANGED <<reminder, decline, missives, now, tried, answered, firing>>

\* The executor's find of the match.  Rows are never deleted, so it finds it.
Find(w) ==
  /\ job[w].step = "judged"
  /\ job[w].match # 0
  /\ ~ Unclear(job[w])
  /\ job[w].tool = "update_reminder" => ~ GoneBy(job[w])
  /\ job' = [job EXCEPT ![w].held = State(job[w].match), ![w].step = "found"]
  /\ UNCHANGED <<reminder, decline, missives, now, tried, answered, firing>>

\* The match was live when found: nothing is set, and that is written down.
Decline(w) ==
  /\ job[w].tool = "schedule_reminder"
  /\ job[w].step = "found"
  /\ job[w].held = "pending"
  /\ job[w].match \notin Locked
  /\ decline' = record_decline(job[w].message, job[w].match)
  /\ Report(w, "SATISFIED")
  /\ UNCHANGED <<reminder, missives, now, tried, answered, firing>>

\* What create returned is not looked at.
Schedule(w) ==
  /\ job[w].tool = "schedule_reminder"
  /\ Unmatched(job[w]) /\ ~ Unclear(job[w]) /\ ~ GoneBy(job[w])
  /\ create(Sender[job[w].message], job[w].line, job[w].at, job[w].message)
  /\ Report(w, "ACTED")
  /\ UNCHANGED <<decline, missives, now, tried, answered, firing>>

\* A scoped write by an executor.  One that touches nothing is refused with the
\* word for what find, before the write, saw: fired, or else called off.
ScopedWrite(w, written) ==
  /\ job[w].step = "found"
  /\ job[w].match \notin Locked
  /\ reminder' = written
  /\ Report(w, IF Writable(Sender[job[w].message], job[w].match) THEN "ACTED"
               ELSE IF job[w].held = "fired" THEN "fired" ELSE "cancelled")
  /\ UNCHANGED <<decline, missives, now, tried, answered, firing>>

CallOff(w) ==
  /\ job[w].tool = "cancel_reminder"
  /\ ScopedWrite(w, cancel(Sender[job[w].message], job[w].match))

Change(w) ==
  /\ job[w].tool = "update_reminder"
  /\ ScopedWrite(w, update(Sender[job[w].message], job[w].match, job[w].line, job[w].at))

\* The listing of a stretch of time: a read, and never a write.
ReadBack(w) ==
  /\ job[w].tool = "read_reminders"
  /\ job[w].step = "judged"
  /\ ~ Unclear(job[w])
  /\ Report(w, "REPORTED")
  /\ UNCHANGED <<reminder, decline, missives, now, tried, answered, firing>>

\* The confirmation is composed and becomes the message's answer.
Speak(w) ==
  /\ job[w].step = "speaking"
  /\ answered' = answered \cup {job[w].message}
  /\ job' = [job EXCEPT ![w] = IdleJob]
  /\ UNCHANGED <<reminder, decline, missives, now, tried, firing>>

\* The attempt fails, or the kernel dies, after any of its steps.
AttemptFails(w) ==
  /\ job[w].step # "idle"
  /\ job' = [job EXCEPT ![w] = IdleJob]
  /\ UNCHANGED <<reminder, decline, missives, now, tried, answered, firing>>

(***************************************************************************)
(* The firing sweep: _fire_one's transaction, from its locking read to its *)
(* commit.                                                                 *)
(***************************************************************************)

\* FOR UPDATE SKIP LOCKED: the due reminder that has waited longest.
ClaimDue(s) ==
  /\ firing[s] = Unclaimed
  /\ \E r \in Due \ Locked :
       /\ \A q \in Due \ Locked : reminder[r].fire_at <= reminder[q].fire_at
       /\ firing' = [firing EXCEPT ![s] = [id |-> r, body |-> reminder[r].body]]
  /\ UNCHANGED <<reminder, decline, missives, now, job, tried, answered>>

\* Mutant: the line is sent, and the stamp is left for later.
FireWithoutStamp(s) ==
  LET r == firing[s].id IN
  /\ firing[s] # Unclaimed
  /\ missives' = [missives EXCEPT ![r] = Append(@, firing[s].body)]
  /\ firing' = [firing EXCEPT ![s] = Unclaimed]
  /\ UNCHANGED <<reminder, decline, now, job, tried, answered>>

\* The missive, its mirror on the stream and mark_fired, whose UPDATE asks for
\* the id alone, commit together.
Fire(s) ==
  LET r == firing[s].id IN
  /\ firing[s] # Unclaimed
  /\ missives' = [missives EXCEPT ![r] = Append(@, firing[s].body)]
  /\ reminder' = [reminder EXCEPT ![r].fired_at = TRUE]
  /\ firing' = [firing EXCEPT ![s] = Unclaimed]
  /\ UNCHANGED <<decline, now, job, tried, answered>>

\* An exception or a crash before the commit rolls it all back.
FireFails(s) ==
  /\ firing[s] # Unclaimed
  /\ firing' = [firing EXCEPT ![s] = Unclaimed]
  /\ UNCHANGED <<reminder, decline, missives, now, job, tried, answered>>

Executor(w) ==
  \/ AskBack(w) \/ RefusePast(w) \/ Find(w) \/ Decline(w) \/ Schedule(w)
  \/ CallOff(w) \/ Change(w) \/ ReadBack(w)

Next ==
  \/ Tick
  \/ \E who \in Symbiots : AddRoute(who) \/ \E r \in Ids : CancelRoute(who, r) \/ UpdateRoute(who, r)
  \/ \E w \in Workers : \/ \E m \in Messages : Begin(w, m)
                        \/ DecideAndLook(w) \/ Executor(w) \/ Speak(w) \/ AttemptFails(w)
  \/ \E s \in Sweeps : ClaimDue(s) \/ Fire(s) \/ FireFails(s)

Spec == Init /\ [][Next]_vars

(***************************************************************************)
(* Fairness: the sweep looks again and again for as long as the kernel is  *)
(* up, and a firing that fails now and then does not fail for ever (the    *)
(* sweep logs a failed pass and tries again).  Time passes.                *)
(***************************************************************************)
FairSpec ==
  /\ Spec
  /\ WF_vars(Tick)
  /\ \A s \in Sweeps : WF_vars(ClaimDue(s)) /\ SF_vars(Fire(s))

(***************************************************************************)
(* Properties.                                                             *)
(***************************************************************************)

\* Every variable has its type (0017_tools_and_reminders.sql, and the locals of the executors).
TypeOK ==
  /\ reminder \in [Ids -> Row]
  /\ \A r \in Ids : reminder[r].symbiot = None <=> reminder[r].fire_at = 0
  /\ decline \in [Messages -> 0 .. MaxReminders]
  /\ missives \in [Ids -> Seq(Lines)]
  /\ now \in 0 .. Horizon
  /\ job \in [Workers -> Job]
  /\ tried \in [Messages -> 0 .. MaxAttempts]
  /\ answered \subseteq Messages
  /\ firing \in [Sweeps -> [id : 0 .. MaxReminders, body : Lines \cup {None}]]

\* What standing's comment rests on (reminder.py 357): at most one of the two
\* stamps is ever set, though firing, the routes and two workers race.
OneStamp == \A r \in Ids : ~ (reminder[r].fired_at /\ reminder[r].cancelled_at)

\* A reminder is said exactly when it has fired, once, and as it was last worded:
\* no edit is lost to a firing under way and none rewrites what has been said.
SaidAsItStands ==
  \A r \in Ids :
    missives[r] = IF reminder[r].fired_at THEN <<reminder[r].body>> ELSE <<>>

\* A message leaves at most one reminder behind however often it is tried
\* (reminder.create's pin), and never for anyone but its sender.
OneReminderPerMessage ==
  \A r \in Ids : reminder[r].intake # None =>
    /\ reminder[r].symbiot = Sender[reminder[r].intake]
    /\ \A q \in Ids : reminder[q].intake = reminder[r].intake => q = r

\* A message is declined only in favour of a reminder its own sender holds.
DeclinedForOwn ==
  \A m \in Messages : decline[m] # 0 => reminder[decline[m]].symbiot = Sender[m]

\* A called-off or fired reminder is never touched again, and the one a message
\* was told has been called off stays so ("will not fire").
SettledStays ==
  [][\A r \in Ids : State(r) # "pending" =>
       reminder'[r] = reminder[r] /\ missives'[r] = missives[r]]_vars

\* The table, the missives and the clock keep the promise of ReminderPromise: a
\* reminder is said once, never before its moment, in the words it has then, and no
\* attempt, route or sweep touches one that has been said or called off or gives
\* one to somebody else (reminder.py, mark_fired, cancel and update).
StandsAs(row) ==
  IF row.symbiot = None THEN "unset"
  ELSE IF row.fired_at THEN "said"
  ELSE IF row.cancelled_at THEN "called off" ELSE "standing"

TermsOf(row) == [owner |-> row.symbiot, line |-> row.body, at |-> row.fire_at]

Promise == INSTANCE ReminderPromise WITH
  Reminders <- Ids,
  Owners <- Symbiots,
  stands <- [r \in Ids |-> StandsAs(reminder[r])],
  terms <- [r \in Ids |-> TermsOf(reminder[r])],
  said <- missives,
  clock <- now

KeepsPromise == Promise!Spec

\* A reminder whose moment has come fires, unless it is called off or moved.
DueFires ==
  \A r \in Ids :
    Live(r) /\ reminder[r].fire_at <= now ~> ~ (Live(r) /\ reminder[r].fire_at <= now)
=============================================================================
