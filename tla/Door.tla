--------------------------------- MODULE Door ---------------------------------
(***************************************************************************)
(* The way in: the rate limiter at the edge (core/rate_limit.py), the      *)
(* one-time login code and the session it is spent for                     *)
(* (services/identity.py, /login, /login/verify, /logout).                 *)
(*                                                                         *)
(* A request runs in autocommit but for two transactions: the code's row   *)
(* and the mail that announces it, and the spending of a code and its      *)
(* session.  The first stays open, its row locked, while the mail goes     *)
(* out; a verification reads the code in a statement of its own, before    *)
(* the one that charges or spends it.                                      *)
(*                                                                         *)
(* Codes are numbered in the order they were drawn; 0 is a mistyped one.   *)
(***************************************************************************)
EXTENDS Integers, Sequences, FiniteSetsExt

CONSTANTS
  Symbiots,     \* the registered addresses
  Threads,      \* the requests that may run at once, a worker thread each
  MAX_VERIFY_ATTEMPTS,
  Limit,        \* the hits a caller may make on /login in a window
  Window,       \* the window, in seconds
  Grain,        \* the ticks of the clock in a second
  MaxCodes,     \* bound on the codes drawn
  MaxSessions,  \* bound on the sessions minted
  None          \* nobody

ASSUME NoneAssumption == None \notin Symbiots
ASSUME ThreadsAssumption == IsFiniteSet(Threads)
ASSUME BudgetAssumption == MAX_VERIFY_ATTEMPTS \in Nat \ {0}
ASSUME LimitAssumption == Limit \in Nat \ {0} /\ Window \in Nat \ {0} /\ Grain \in Nat \ {0}
ASSUME BoundsAssumption == MaxCodes \in Nat /\ MaxSessions \in Nat

Codes == 1 .. MaxCodes
Span == Window * Grain

VARIABLES
  row,      \* login_code: each symbiot's live row, if there is one
  drawn,    \* how many codes were drawn
  mailbox,  \* the codes that arrived in each symbiot's mailbox
  session,  \* the table session
  spent,    \* the codes a correct guess consumed
  judged,   \* for the properties: how many guesses each code was compared with
  thread,   \* where each request is
  hits,     \* the limiter's window: the ages of the hits it let in, oldest first
  told      \* the ticks left of the wait a refused caller was told; -1 for none

vars == <<row, drawn, mailbox, session, spent, judged, thread, hits, told>>
door == <<row, drawn, mailbox, session, spent, judged, thread>>

\* The live row: its id, its code (0 when there is none), whether it was written
\* within the re-issue interval, whether it has expired, and its failed_attempts.
Row == [id : Nat, code : {0} \cup Codes, fresh : BOOLEAN, expired : BOOLEAN,
        failed : 0 .. MAX_VERIFY_ATTEMPTS - 1]
NoRow(id) == [id |-> id, code |-> 0, fresh |-> FALSE, expired |-> FALSE, failed |-> 0]

Session == [symbiot : Symbiots, code : Codes, live : BOOLEAN]

\* A request: nothing, mailing a code inside its transaction, or judging a guess
\* against the row as it was read.
Thread == [pc : {"idle", "mailing", "judging"}, symbiot : Symbiots \cup {None},
           code : {0} \cup Codes, guess : {0} \cup Codes, id : Nat, failed : Nat]
Idle == [pc |-> "idle", symbiot |-> None, code |-> 0, guess |-> 0, id |-> 0, failed |-> 0]

\* A code's row is locked while its mail goes out: another code waits for it, and so
\* does what would update that row.
Locked(s) == \E t \in Threads : thread[t].pc = "mailing" /\ thread[t].symbiot = s
Waits(d) == Locked(d.symbiot) /\ row[d.symbiot].id = d.id /\ row[d.symbiot].code # 0

Init ==
  /\ row = [s \in Symbiots |-> NoRow(0)]
  /\ drawn = 0
  /\ mailbox = [s \in Symbiots |-> {}]
  /\ session = <<>>
  /\ spent = {}
  /\ judged = [c \in Codes |-> 0]
  /\ thread = [t \in Threads |-> Idle]
  /\ hits = <<>> /\ told = -1

-----------------------------------------------------------------------------
\* RateLimiter.retry_after: hits are dropped from the left until one is still in the
\* window, or none is left.
Outlived == Min({k \in 0 .. Len(hits) : k = Len(hits) \/ hits[k + 1] < Span})
InWindow == SubSeq(hits, Outlived + 1, Len(hits))

\* Mutant: the fraction of a second is cut off.
whole_seconds(age) == (Span - age) \div Grain

\* The wait a refused caller is told, in whole seconds.
wait(age) == (Span - age) \div Grain + 1

\* A hit on /login that is let in, and recorded.
Admitted ==
  /\ Len(InWindow) < Limit
  /\ hits' = Append(InWindow, 0) /\ told' = -1

\* One that is refused, told to wait, and not recorded.
Refused ==
  /\ Len(InWindow) >= Limit
  /\ hits' = InWindow
  /\ told' = wait(Head(InWindow)) * Grain
  /\ UNCHANGED door

\* The clock ticks.
Tick ==
  /\ hits # <<>> \/ told > 0
  /\ hits' = [i \in DOMAIN hits |-> IF hits[i] < Span THEN hits[i] + 1 ELSE Span]
  /\ told' = IF told > 0 THEN told - 1 ELSE told
  /\ UNCHANGED door

-----------------------------------------------------------------------------
\* The upsert's condition: no live row, or one older than the re-issue interval.
MayIssue(s) == row[s].code = 0 \/ ~row[s].fresh

\* /login, let in: for an address that is registered, issue_login_code draws a code and
\* opens its transaction, or keeps the code that is fresh; any other gets nothing.
issue_login_code(t) ==
  /\ thread[t].pc = "idle"
  /\ Admitted
  /\ \/ \E s \in Symbiots :
          /\ ~Locked(s) /\ MayIssue(s) /\ drawn < MaxCodes
          /\ drawn' = drawn + 1
          /\ thread' = [thread EXCEPT ![t] =
               [Idle EXCEPT !.pc = "mailing", !.symbiot = s, !.code = drawn + 1]]
     \/ UNCHANGED <<drawn, thread>>
  /\ UNCHANGED <<row, mailbox, session, spent, judged>>

\* The row with a new code: overwritten in place, or a row of its own.
Written(r, code) ==
  [id |-> IF r.code = 0 THEN r.id + 1 ELSE r.id, code |-> code, fresh |-> TRUE,
   expired |-> FALSE, failed |-> 0]

\* Mutant: the row is committed before the mail is sent.
written_first(s, code, sent) == [row EXCEPT ![s] = Written(@, code)]

\* The transaction commits with the mail that was sent, or rolls back.
Committed(s, code, sent) == IF sent THEN [row EXCEPT ![s] = Written(@, code)] ELSE row

\* The mail is sent or fails, and the transaction ends; one whose commit fails after
\* the mail leaves a code in the mailbox that is nobody's.
Mail(t) ==
  LET s == thread[t].symbiot
      code == thread[t].code
  IN
  /\ thread[t].pc = "mailing"
  /\ \/ /\ row' = Committed(s, code, TRUE)
        /\ mailbox' = [mailbox EXCEPT ![s] = @ \cup {code}]
     \/ /\ row' = Committed(s, code, FALSE)
        /\ UNCHANGED mailbox
     \/ /\ mailbox' = [mailbox EXCEPT ![s] = @ \cup {code}]
        /\ UNCHANGED row
  /\ thread' = [thread EXCEPT ![t] = Idle]
  /\ UNCHANGED <<drawn, session, spent, judged, hits, told>>

\* verify_login_code, its read: the live code of the address, unexpired.
verify_login_code(t) ==
  /\ thread[t].pc = "idle"
  /\ \E s \in Symbiots, guess \in {0} \cup UNION {mailbox[p] : p \in Symbiots} :
       /\ row[s].code # 0 /\ ~row[s].expired
       /\ thread' = [thread EXCEPT ![t] =
            [pc |-> "judging", symbiot |-> s, code |-> row[s].code, guess |-> guess,
             id |-> row[s].id, failed |-> row[s].failed]]
  /\ UNCHANGED <<row, drawn, mailbox, session, spent, judged, hits, told>>

\* Mutant: the count written is the one that was read, and one.
from_read(r, d) == d.failed + 1

\* The UPDATE adds to what the row holds by then.
add_one(r, d) == r.failed + 1

\* Mutant: the code burns at the guess after its budget.
burnt_late(r, d) ==
  IF r.id # d.id \/ r.code = 0 THEN r
  ELSE IF add_one(r, d) > MAX_VERIFY_ATTEMPTS THEN NoRow(r.id)
  ELSE [r EXCEPT !.failed = add_one(r, d)]

\* The row the request read may be gone; a wrong guess is charged to it otherwise,
\* and burns it when the budget is spent.
Charged(r, d) ==
  IF r.id # d.id \/ r.code = 0 THEN r
  ELSE IF add_one(r, d) >= MAX_VERIFY_ATTEMPTS THEN NoRow(r.id)
  ELSE [r EXCEPT !.failed = add_one(r, d)]

\* A wrong guess.
Charge(t) ==
  LET d == thread[t] IN
  /\ d.pc = "judging" /\ d.guess # d.code
  /\ ~Waits(d)
  /\ row' = [row EXCEPT ![d.symbiot] = Charged(@, d)]
  /\ judged' = [judged EXCEPT ![d.code] = @ + 1]
  /\ thread' = [thread EXCEPT ![t] = Idle]
  /\ UNCHANGED <<drawn, mailbox, session, spent, hits, told>>

\* Mutant: the spending commits before the minting, and the kernel may stop there.
minted_after(d) == {session, Append(session, [symbiot |-> d.symbiot, code |-> d.code, live |-> TRUE])}

\* One transaction spends the code and mints the session.
minted(d) == {Append(session, [symbiot |-> d.symbiot, code |-> d.code, live |-> TRUE])}

\* A correct guess: the row of the id that was read is consumed, whatever it holds by
\* then, and the session is minted.
Spend(t) ==
  LET d == thread[t] IN
  /\ d.pc = "judging" /\ d.guess = d.code /\ Len(session) < MaxSessions
  /\ ~Waits(d)
  /\ row' = [row EXCEPT ![d.symbiot] = IF @.id = d.id THEN NoRow(d.id) ELSE @]
  /\ session' \in minted(d)
  /\ spent' = spent \cup {d.code}
  /\ judged' = [judged EXCEPT ![d.code] = @ + 1]
  /\ thread' = [thread EXCEPT ![t] = Idle]
  /\ UNCHANGED <<drawn, mailbox, hits, told>>

\* logout, or the session's five days are over.
logout ==
  /\ \E i \in DOMAIN session :
       session[i].live /\ session' = [session EXCEPT ![i].live = FALSE]
  /\ UNCHANGED <<row, drawn, mailbox, spent, judged, thread, hits, told>>

\* The re-issue interval passes; the code expires, which is later.
Cool(s) ==
  /\ row[s].fresh /\ row' = [row EXCEPT ![s].fresh = FALSE]
  /\ UNCHANGED <<drawn, mailbox, session, spent, judged, thread, hits, told>>

Expire(s) ==
  /\ row[s].code # 0 /\ ~row[s].fresh /\ ~row[s].expired
  /\ row' = [row EXCEPT ![s].expired = TRUE]
  /\ UNCHANGED <<drawn, mailbox, session, spent, judged, thread, hits, told>>

\* The kernel restarts: open transactions roll back, and the limiter forgets.
Restart ==
  /\ thread' = [t \in Threads |-> Idle]
  /\ hits' = <<>> /\ told' = -1
  /\ UNCHANGED <<row, drawn, mailbox, session, spent, judged>>

-----------------------------------------------------------------------------
Next ==
  \/ Refused \/ Tick \/ Restart \/ logout
  \/ \E t \in Threads :
       issue_login_code(t) \/ Mail(t) \/ verify_login_code(t) \/ Charge(t) \/ Spend(t)
  \/ \E s \in Symbiots : Cool(s) \/ Expire(s)

Spec == Init /\ [][Next]_vars
-----------------------------------------------------------------------------
\* Every variable has its type.
TypeOK ==
  /\ row \in [Symbiots -> Row]
  /\ drawn \in 0 .. MaxCodes
  /\ mailbox \in [Symbiots -> SUBSET Codes]
  /\ session \in Seq(Session) /\ Len(session) <= MaxSessions
  /\ spent \subseteq Codes
  /\ judged \in [Codes -> Nat]
  /\ thread \in [Threads -> Thread]
  /\ hits \in Seq(0 .. Span)
  /\ told \in -1 .. Span + Grain

\* The code that can be spent is in its symbiot's mailbox, whatever became of the mail
\* (issue_login_code: "a code committed to the row while the mail failed to send would
\* be a code the human can never spend").
LiveWasMailed ==
  \A s \in Symbiots : row[s].code # 0 => row[s].code \in mailbox[s]

\* A code a correct guess consumed has its session, and every session is that of a
\* symbiot whose mailbox the code came to (verify_login_code: "a code marked consumed
\* with no session behind it would ... leave them locked out").
SpentForASession ==
  /\ \A c \in spent : \E i \in DOMAIN session : session[i].code = c
  /\ \A i \in DOMAIN session : session[i].code \in mailbox[session[i].symbiot]

\* The guesses a code is compared with, the right one included: fewer than its budget
\* as long as it can be spent, and in the end as many, and one more for each other
\* request that had read it when it was burned or spent, for those are judged still
\* (verify_login_code: "a bounded budget the row enforces rather than a race").
BudgetHolds ==
  /\ \A s \in Symbiots : row[s].code # 0 => judged[row[s].code] < MAX_VERIFY_ATTEMPTS
  /\ \A c \in Codes : judged[c] < MAX_VERIFY_ATTEMPTS + Cardinality(Threads)

\* A caller who waited as long as it was told is let in, if nobody was meanwhile, and
\* no more than the limit were let in during a window (retry_after: "a blocked caller
\* can't push their own window forward by hammering").
WaitSuffices ==
  /\ told = 0 => Len(InWindow) < Limit
  /\ Len(InWindow) <= Limit
=============================================================================
