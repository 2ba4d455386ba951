----------------------------- MODULE DoorProofs -----------------------------
(***************************************************************************)
(* Theorems about Door, for any number of symbiots, requests, codes and    *)
(* sessions and any budget of guesses: what can be spent was mailed, what  *)
(* was spent has its session, and no code is compared with more guesses    *)
(* than its budget and the requests at once allow; and for any limit, window and grain of the clock, a caller who waited as    *)
(* long as it was told is let in.                                          *)
(*                                                                         *)
(* The door and its limiter share no variable, so each has an invariant of *)
(* its own (IInv and Paced).                                               *)
(***************************************************************************)
EXTENDS Door, TLAPS, WellFoundedInduction, FiniteSetTheorems

-----------------------------------------------------------------------------
\* The variables of the door have their types.
Shape ==
  /\ row \in [Symbiots -> Row]
  /\ drawn \in 0 .. MaxCodes
  /\ mailbox \in [Symbiots -> SUBSET Codes]
  /\ session \in Seq(Session) /\ Len(session) <= MaxSessions
  /\ spent \subseteq Codes
  /\ judged \in [Codes -> Nat]
  /\ thread \in [Threads -> Thread]

\* A request under way is about a symbiot; one that mails has drawn a code, and one
\* that judges read one that had come to the symbiot's mailbox.
Reading ==
  \A t \in Threads :
    LET d == thread[t] IN
    /\ d.pc # "idle" => d.symbiot \in Symbiots
    /\ d.pc = "mailing" => d.code \in Codes
    /\ d.pc = "judging" => d.code \in mailbox[d.symbiot]

\* The requests that read a code and are still to judge their guess of it.
Judging(c) == {t \in Threads : thread[t].pc = "judging" /\ thread[t].code = c}

\* A code nobody can have guessed at: no row holds it and no request read it.
Unseen(c) ==
  /\ judged[c] = 0 /\ Judging(c) = {}
  /\ \A s \in Symbiots : row[s].code # c

\* A code is unseen until it was drawn and its transaction committed, and one request
\* alone mails it.
Fresh ==
  /\ \A c \in Codes : c > drawn =>
       Unseen(c) /\ \A t \in Threads : thread[t].pc = "mailing" => thread[t].code # c
  /\ \A t \in Threads : thread[t].pc = "mailing" =>
       /\ Unseen(thread[t].code)
       /\ \A u \in Threads : thread[u].pc = "mailing" /\ thread[u].code = thread[t].code => u = t

\* A code is one symbiot's, and while it lives it is in the row it was read from.
InPlace ==
  /\ \A p, q \in Symbiots : row[p].code # 0 /\ row[p].code = row[q].code => p = q
  /\ \A t \in Threads, p \in Symbiots :
       thread[t].pc = "judging" /\ row[p].code = thread[t].code =>
         p = thread[t].symbiot /\ row[p].id = thread[t].id

\* The guesses a live code was compared with are among those its row has counted.
Counted == \A s \in Symbiots : row[s].code # 0 => judged[row[s].code] <= row[s].failed

\* The guesses a code was compared with and those still to be.
Bounded ==
  \A c \in Codes :
    judged[c] + Cardinality(Judging(c)) < MAX_VERIFY_ATTEMPTS + Cardinality(Threads)

Budget == Fresh /\ InPlace /\ Counted /\ Bounded

IInv == Shape /\ Reading /\ Budget /\ LiveWasMailed /\ SpentForASession

\* The constants, as the proofs use them.
LEMMA Constants ==
  /\ MAX_VERIFY_ATTEMPTS \in Nat /\ MAX_VERIFY_ATTEMPTS > 0
  /\ MaxCodes \in Nat /\ MaxSessions \in Nat /\ None \notin Symbiots
BY BudgetAssumption, BoundsAssumption, NoneAssumption

\* A row without a code is a row.
LEMMA NoRowType == ASSUME NEW id \in Nat PROVE NoRow(id) \in Row /\ NoRow(id).code = 0
BY Constants DEF NoRow, Row

\* A request at rest is a request.
LEMMA IdleType == Idle \in Thread /\ Idle.pc = "idle"
BY DEF Idle, Thread

\* The requests there can be are so many, and a part of them are no more.
LEMMA Fewer ==
  ASSUME NEW S \in SUBSET Threads, NEW R \in SUBSET S
  PROVE  /\ IsFiniteSet(S) /\ Cardinality(Threads) \in Nat
         /\ Cardinality(S) \in Nat /\ Cardinality(R) \in Nat
         /\ Cardinality(R) <= Cardinality(S) /\ Cardinality(S) <= Cardinality(Threads)
BY ThreadsAssumption, FS_Subset, FS_CardinalityType

\* Nothing is drawn, mailed or spent at first.
LEMMA InitIInv == Init => IInv
<1> SUFFICES ASSUME Init PROVE IInv
  OBVIOUS
<1> USE DEF Init
<1>1. Shape
  BY NoRowType, IdleType, Constants DEF Shape
<1>2. Reading
  BY IdleType DEF Reading
<1>3. LiveWasMailed /\ SpentForASession
  BY NoRowType DEF LiveWasMailed, SpentForASession
<1>4. \A c \in Codes : Judging(c) = {} /\ Unseen(c)
  BY NoRowType, IdleType DEF Judging, Unseen, Codes
<1>5. Fresh /\ InPlace /\ Counted
  BY <1>4, NoRowType, IdleType DEF Fresh, InPlace, Counted
<1>6. Bounded
  BY <1>4, Fewer, FS_EmptySet, Constants DEF Bounded
<1> QED BY <1>1, <1>2, <1>3, <1>5, <1>6 DEF IInv, Budget

-----------------------------------------------------------------------------
\* What may become of a row that is not written anew: it loses its code, or keeps it
\* and its id, and forgets no guess it counted.
Older(r, o) ==
  \/ o.code = 0
  \/ o.code = r.code /\ o.id = r.id /\ o.failed >= r.failed

\* Requests end and rows age: a code that was unseen is unseen, and those that were to
\* be judged are fewer.
LEMMA FewerJudge ==
  ASSUME Shape,
         \A u \in Threads : thread'[u] = thread[u] \/ thread'[u].pc = "idle",
         \A p \in Symbiots : Older(row[p], row'[p]),
         NEW c \in Codes
  PROVE  /\ Judging(c)' \subseteq Judging(c) /\ Judging(c) \in SUBSET Threads
         /\ judged'[c] = judged[c] /\ Unseen(c) => Unseen(c)'
<1>1. Judging(c)' \subseteq Judging(c) /\ Judging(c) \in SUBSET Threads
  BY DEF Judging
<1>2. c # 0
  BY DEF Codes
<1>3. \A p \in Symbiots : row'[p].code = c => row[p].code = c
  BY <1>2 DEF Older
<1> QED BY <1>1, <1>3 DEF Unseen

\* Then the codes are fresh, and in their places, as they were.
LEMMA StillFresh ==
  ASSUME Shape, Budget,
         drawn' = drawn,
         \A u \in Threads : thread'[u] = thread[u] \/ thread'[u].pc = "idle",
         \A p \in Symbiots : Older(row[p], row'[p]),
         \A c \in Codes : Unseen(c) => judged'[c] = judged[c],
         Reading
  PROVE  Fresh' /\ InPlace'
<1>1. ASSUME NEW c \in Codes, Unseen(c) PROVE Unseen(c)'
  BY <1>1, FewerJudge
<1>2. ASSUME NEW c \in Codes, c > drawn'
      PROVE  Unseen(c)' /\ \A u \in Threads : thread'[u].pc = "mailing" => thread'[u].code # c
  <2>1. Unseen(c) /\ \A u \in Threads : thread[u].pc = "mailing" => thread[u].code # c
    BY <1>2 DEF Budget, Fresh
  <2> QED BY <1>1, <2>1
<1>3. ASSUME NEW u \in Threads, thread'[u].pc = "mailing"
      PROVE  /\ Unseen(thread[u].code)' /\ thread'[u] = thread[u]
             /\ \A v \in Threads :
                  thread'[v].pc = "mailing" /\ thread'[v].code = thread'[u].code => v = u
  <2>1. thread'[u] = thread[u] /\ thread[u].pc = "mailing"
    BY <1>3
  <2>2. PICK c \in Codes : c = thread[u].code
    BY <2>1 DEF Reading
  <2>3. /\ Unseen(c)
        /\ \A v \in Threads : thread[v].pc = "mailing" /\ thread[v].code = c => v = u
    BY <2>1, <2>2 DEF Budget, Fresh
  <2>4. Unseen(c)' /\ thread'[u].code = c
    BY <1>1, <2>1, <2>2, <2>3
  <2>5. \A v \in Threads : thread'[v].pc = "mailing" => thread[v] = thread'[v]
    OBVIOUS
  <2> QED BY <2>1, <2>2, <2>3, <2>4, <2>5
<1>4. Fresh'
  BY <1>2, <1>3 DEF Fresh
<1>5. ASSUME NEW p \in Symbiots, row'[p].code # 0
      PROVE  row'[p].code = row[p].code /\ row'[p].id = row[p].id
  BY <1>5 DEF Older
<1>6. InPlace'
  <2>1. \A p, q \in Symbiots : row'[p].code # 0 /\ row'[p].code = row'[q].code => p = q
    BY <1>5 DEF Budget, InPlace
  <2>2. ASSUME NEW u \in Threads, NEW p \in Symbiots,
               thread'[u].pc = "judging", row'[p].code = thread'[u].code
        PROVE  p = thread'[u].symbiot /\ row'[p].id = thread'[u].id
    <3>1. thread'[u] = thread[u] /\ thread[u].pc = "judging"
      BY <2>2
    <3>2. thread[u].code # 0
      BY <3>1 DEF Shape, Reading, Codes
    <3> QED BY <1>5, <2>2, <3>1, <3>2 DEF Budget, InPlace
  <2> QED BY <2>1, <2>2 DEF InPlace
<1> QED BY <1>4, <1>6

\* And no code is beyond its budget, when none is compared.
LEMMA BudgetEnds ==
  ASSUME Shape, Shape', Reading, Budget,
         UNCHANGED <<drawn, judged>>,
         \A u \in Threads : thread'[u] = thread[u] \/ thread'[u].pc = "idle",
         \A p \in Symbiots : Older(row[p], row'[p])
  PROVE  Budget'
<1>1. Fresh' /\ InPlace'
  BY StillFresh
<1>2. Counted'
  <2> SUFFICES ASSUME NEW p \in Symbiots, row'[p].code # 0
               PROVE  judged[row'[p].code] <= row'[p].failed
    BY DEF Counted
  <2>1. PICK c \in Codes : c = row[p].code /\ c = row'[p].code
    BY DEF Shape, Row, Older
  <2>2. c # 0 /\ judged[c] \in Nat /\ judged[c] <= row[p].failed /\ row[p].failed <= row'[p].failed
    BY <2>1 DEF Shape, Budget, Counted, Codes, Older
  <2>3. row[p].failed \in Nat /\ row'[p].failed \in Nat
    BY Constants DEF Shape, Row
  <2> QED BY <2>1, <2>2, <2>3
<1>3. Bounded'
  <2> SUFFICES ASSUME NEW c \in Codes
               PROVE  judged[c] + Cardinality(Judging(c)')
                        < MAX_VERIFY_ATTEMPTS + Cardinality(Threads)
    BY DEF Bounded
  <2>1. Judging(c)' \subseteq Judging(c) /\ Judging(c) \in SUBSET Threads
    BY FewerJudge
  <2>2. judged[c] + Cardinality(Judging(c)) < MAX_VERIFY_ATTEMPTS + Cardinality(Threads)
    BY DEF Budget, Bounded
  <2>3. /\ Cardinality(Judging(c)) \in Nat /\ Cardinality(Judging(c)') \in Nat
        /\ Cardinality(Judging(c)') <= Cardinality(Judging(c)) /\ Cardinality(Threads) \in Nat
    BY <2>1, Fewer
  <2>4. judged[c] \in Nat
    BY DEF Shape
  <2> QED BY <2>2, <2>3, <2>4, Constants
<1> QED BY <1>1, <1>2, <1>3 DEF Budget

\* One guess is judged: the code it is compared with has one more behind it and one
\* fewer before it; if its row still lives, the row has counted it.
LEMMA BudgetGuess ==
  ASSUME Shape, Shape', Reading, Budget,
         NEW t \in Threads, NEW s \in Symbiots, NEW c \in Codes,
         thread[t].pc = "judging", thread[t].symbiot = s, thread[t].code = c,
         thread' = [thread EXCEPT ![t] = Idle],
         judged' = [judged EXCEPT ![c] = @ + 1],
         drawn' = drawn,
         \A p \in Symbiots : Older(row[p], row'[p]),
         row'[s].code = c => row'[s].failed >= row[s].failed + 1
  PROVE  Budget'
<1>1. \A u \in Threads : thread'[u] = thread[u] \/ thread'[u].pc = "idle"
  BY IdleType DEF Shape
<1>2. /\ judged'[c] = judged[c] + 1 /\ judged[c] \in Nat
      /\ \A e \in Codes : e # c => judged'[e] = judged[e]
  BY DEF Shape
<1>3. t \in Judging(c) /\ t \notin Judging(c)'
  BY IdleType DEF Judging, Shape
<1>4. Fresh' /\ InPlace'
  BY <1>1, <1>2, <1>3, StillFresh DEF Unseen
<1>5. Counted'
  <2> SUFFICES ASSUME NEW p \in Symbiots, row'[p].code # 0
               PROVE  judged'[row'[p].code] <= row'[p].failed
    BY DEF Counted
  <2>1. PICK e \in Codes : e = row[p].code /\ e = row'[p].code
    BY DEF Shape, Row, Older
  <2>2. e # 0 /\ judged[e] \in Nat /\ judged[e] <= row[p].failed /\ row[p].failed <= row'[p].failed
    BY <2>1 DEF Shape, Budget, Counted, Codes, Older
  <2>3. row[p].failed \in Nat /\ row'[p].failed \in Nat
    BY Constants DEF Shape, Row
  <2>4. CASE e # c
    BY <1>2, <2>1, <2>2, <2>3, <2>4
  <2>5. CASE e = c
    <3>1. p = s
      BY <2>1, <2>5 DEF Budget, InPlace
    <3>2. row'[s].failed >= row[s].failed + 1 /\ judged[c] <= row[s].failed
      BY <2>1, <2>2, <2>5, <3>1
    <3>3. judged'[row'[p].code] = judged[c] + 1
      BY <1>2, <2>1, <2>5
    <3> QED BY <1>2, <2>3, <3>1, <3>2, <3>3
  <2> QED BY <2>4, <2>5
<1>6. Bounded'
  <2> SUFFICES ASSUME NEW e \in Codes
               PROVE  judged'[e] + Cardinality(Judging(e)')
                        < MAX_VERIFY_ATTEMPTS + Cardinality(Threads)
    BY DEF Bounded
  <2>1. Judging(e)' \subseteq Judging(e) /\ Judging(e) \in SUBSET Threads
    BY <1>1, FewerJudge
  <2>2. judged[e] + Cardinality(Judging(e)) < MAX_VERIFY_ATTEMPTS + Cardinality(Threads)
    BY DEF Budget, Bounded
  <2>3. CASE e # c
    <3>1. /\ Cardinality(Judging(e)) \in Nat /\ Cardinality(Judging(e)') \in Nat
          /\ Cardinality(Judging(e)') <= Cardinality(Judging(e)) /\ Cardinality(Threads) \in Nat
      BY <2>1, Fewer
    <3>2. judged'[e] = judged[e] /\ judged[e] \in Nat
      BY <1>2, <2>3 DEF Shape
    <3> QED BY <2>2, <3>1, <3>2, Constants
  <2>4. CASE e = c
    <3>1. Judging(c)' \subseteq Judging(c) \ {t}
      BY <1>3, <2>1, <2>4
    <3>2. Judging(c) \ {t} \in SUBSET Threads /\ IsFiniteSet(Judging(c))
      BY <2>1, <2>4, Fewer
    <3>3. Cardinality(Judging(c) \ {t}) = Cardinality(Judging(c)) - 1
      BY <1>3, <3>2, FS_RemoveElement
    <3>4. /\ Cardinality(Judging(c)') \in Nat /\ Cardinality(Judging(c) \ {t}) \in Nat
          /\ Cardinality(Judging(c)') <= Cardinality(Judging(c) \ {t})
      BY <3>1, <3>2, Fewer
    <3>5. Cardinality(Judging(c)) \in Nat /\ Cardinality(Threads) \in Nat
      BY <2>1, <2>4, Fewer
    <3> QED BY <1>2, <2>2, <2>4, <3>3, <3>4, <3>5, Constants
  <2> QED BY <2>3, <2>4
<1> QED BY <1>4, <1>5, <1>6 DEF Budget

\* A request that ends, while nothing else changes but the row of a symbiot, which
\* keeps its code or loses it.
LEMMA RowWritten ==
  ASSUME IInv, NEW t \in Threads, NEW s \in Symbiots, NEW r \in Row,
         Older(row[s], r),
         row' = [row EXCEPT ![s] = r],
         thread' = [thread EXCEPT ![t] = Idle],
         UNCHANGED <<drawn, mailbox>>
  PROVE  /\ row' \in [Symbiots -> Row] /\ thread' \in [Threads -> Thread]
         /\ row'[s] = r /\ \A p \in Symbiots : Older(row[p], row'[p])
         /\ Reading' /\ LiveWasMailed'
<1>1. row' \in [Symbiots -> Row] /\ thread' \in [Threads -> Thread]
  BY IdleType DEF IInv, Shape
<1>2. Reading'
  BY IdleType DEF IInv, Shape, Reading
<1>3. row'[s] = r /\ \A p \in Symbiots : p # s => row'[p] = row[p]
  BY DEF IInv, Shape
<1>4. \A p \in Symbiots : row[p].failed \in Nat
  BY Constants DEF IInv, Shape, Row
<1>5. \A p \in Symbiots : Older(row[p], row'[p])
  BY <1>3, <1>4 DEF Older
<1>6. LiveWasMailed'
  BY <1>5 DEF IInv, LiveWasMailed, Older
<1> QED BY <1>1, <1>2, <1>3, <1>5, <1>6

\* A code is drawn, which nobody has seen, or none.
LEMMA IssueIInv == ASSUME NEW t \in Threads PROVE IInv /\ issue_login_code(t) => IInv'
<1> SUFFICES ASSUME IInv, issue_login_code(t) PROVE IInv'
  OBVIOUS
<1>1. UNCHANGED <<row, mailbox, session, spent, judged>> /\ thread[t].pc = "idle"
  BY DEF issue_login_code
<1>2. LiveWasMailed' /\ SpentForASession' /\ Counted'
  BY <1>1 DEF IInv, LiveWasMailed, SpentForASession, Budget, Counted
<1>3. CASE UNCHANGED <<drawn, thread>>
  BY <1>1, <1>2, <1>3
  DEF IInv, Shape, Reading, Budget, Fresh, InPlace, Bounded, Unseen, Judging
<1>4. ASSUME NEW s \in Symbiots, drawn < MaxCodes, drawn' = drawn + 1,
             thread' = [thread EXCEPT ![t] =
               [Idle EXCEPT !.pc = "mailing", !.symbiot = s, !.code = drawn + 1]]
      PROVE  IInv'
  <2>1. PICK c \in Codes : c = drawn + 1
    BY <1>4, Constants DEF IInv, Shape, Codes
  <2>2. drawn' \in 0 .. MaxCodes /\ drawn \in Nat
    BY <1>4, Constants DEF IInv, Shape
  <2>3. PICK e \in Thread : e = Idle
    BY IdleType
  <2>4. PICK d : d = [e EXCEPT !.pc = "mailing", !.symbiot = s, !.code = c]
    OBVIOUS
  <2>5. d \in Thread /\ d.pc = "mailing" /\ d.symbiot = s /\ d.code = c
    BY <2>4 DEF Thread
  <2>6. thread' = [thread EXCEPT ![t] = d]
    BY <1>4, <2>1, <2>3, <2>4
  <2>7. Shape'
    BY <1>1, <2>2, <2>5, <2>6 DEF IInv, Shape
  <2>8. Reading'
    BY <1>1, <2>5, <2>6 DEF IInv, Shape, Reading
  <2>9. thread'[t] = d /\ \A u \in Threads : u # t => thread'[u] = thread[u]
    BY <2>6 DEF IInv, Shape
  <2>10. \A k : Judging(k)' = Judging(k)
    BY <1>1, <2>5, <2>9 DEF Judging
  <2>11. InPlace' /\ Bounded'
    <3>1. InPlace'
      BY <1>1, <2>5, <2>9 DEF IInv, Budget, InPlace
    <3>2. Bounded'
      BY <1>1, <2>10 DEF IInv, Budget, Bounded
    <3> QED BY <3>1, <3>2
  <2>12. \A k : Unseen(k)' <=> Unseen(k)
    BY <1>1, <2>10 DEF Unseen
  <2>13. ASSUME NEW k \in Codes, k > drawn'
         PROVE  Unseen(k) /\ \A u \in Threads : thread'[u].pc = "mailing" => thread'[u].code # k
    <3>1. k > drawn /\ k # c
      BY <1>4, <2>1, <2>2, <2>13 DEF Codes
    <3> QED BY <2>5, <2>9, <3>1 DEF IInv, Budget, Fresh
  <2>14. c > drawn
    BY <2>1, <2>2
  <2>15. /\ Unseen(c)
         /\ \A u \in Threads : thread[u].pc = "mailing" => thread[u].code # c
    BY <2>14 DEF IInv, Budget, Fresh
  <2>16. ASSUME NEW u \in Threads, thread'[u].pc = "mailing"
         PROVE  /\ Unseen(thread'[u].code)
                /\ \A v \in Threads :
                     thread'[v].pc = "mailing" /\ thread'[v].code = thread'[u].code => v = u
    <3>1. CASE u = t
      BY <2>5, <2>9, <2>15, <3>1
    <3>2. CASE u # t
      <4>1. thread'[u] = thread[u] /\ thread[u].code # c
        BY <2>9, <2>15, <2>16, <3>2
      <4>2. /\ Unseen(thread[u].code)
            /\ \A v \in Threads :
                 thread[v].pc = "mailing" /\ thread[v].code = thread[u].code => v = u
        BY <2>16, <4>1 DEF IInv, Budget, Fresh
      <4> QED BY <2>5, <2>9, <4>1, <4>2
    <3> QED BY <3>1, <3>2
  <2>17. Fresh'
    BY <2>12, <2>13, <2>16 DEF Fresh
  <2> QED BY <1>2, <2>7, <2>8, <2>11, <2>17 DEF IInv, Budget
<1> QED BY <1>3, <1>4 DEF issue_login_code

\* The mail goes out, or not, and the transaction ends.
LEMMA MailIInv == ASSUME NEW t \in Threads PROVE IInv /\ Mail(t) => IInv'
<1> SUFFICES ASSUME IInv, Mail(t) PROVE IInv'
  OBVIOUS
<1>1. PICK s \in Symbiots, code \in Codes : s = thread[t].symbiot /\ code = thread[t].code
  BY DEF Mail, IInv, Reading
<1>2. /\ UNCHANGED <<drawn, session, spent, judged>>
      /\ thread' = [thread EXCEPT ![t] = Idle]
      /\ \/ row' = Committed(s, code, TRUE) /\ mailbox' = [mailbox EXCEPT ![s] = @ \cup {code}]
         \/ row' = row /\ (mailbox' = mailbox \/ mailbox' = [mailbox EXCEPT ![s] = @ \cup {code}])
  BY <1>1 DEF Mail, Committed
<1>3. /\ mailbox' \in [Symbiots -> SUBSET Codes]
      /\ \A p \in Symbiots : mailbox[p] \subseteq mailbox'[p]
  BY <1>2 DEF IInv, Shape
<1>4. PICK w \in Row : /\ w = Written(row[s], code)
                       /\ w.code = code /\ w.failed = 0
  <2>1. PICK r \in Row : r = row[s]
    BY DEF IInv, Shape
  <2>2. PICK id \in Nat : id = IF r.code = 0 THEN r.id + 1 ELSE r.id
    BY DEF Row
  <2>3. PICK w : w = [id |-> id, code |-> code, fresh |-> TRUE, expired |-> FALSE,
                      failed |-> 0]
    OBVIOUS
  <2>4. w \in Row
    BY <2>3, Constants DEF Row
  <2>6. w.code = code /\ w.failed = 0
    BY <2>3
  <2>5. w = Written(row[s], code)
    BY <2>1, <2>2, <2>3 DEF Written
  <2> QED BY <2>4, <2>5, <2>6
<1>5. \/ row' = [row EXCEPT ![s] = w] /\ mailbox' = [mailbox EXCEPT ![s] = @ \cup {code}]
      \/ row' = row
  BY <1>2, <1>4 DEF Committed
<1>6. row' \in [Symbiots -> Row]
  BY <1>4, <1>5 DEF IInv, Shape
<1>7. LiveWasMailed'
  BY <1>3, <1>4, <1>5 DEF IInv, Shape, LiveWasMailed
<1>8. Shape'
  BY <1>2, <1>3, <1>6, IdleType DEF IInv, Shape
<1>9. Reading'
  BY <1>2, <1>3, IdleType DEF IInv, Shape, Reading
<1>10. SpentForASession'
  <2>1. ASSUME NEW i \in DOMAIN session PROVE session[i].symbiot \in Symbiots
    <3>1. session[i] \in Session
      BY DEF IInv, Shape
    <3> QED BY <3>1 DEF Session
  <2> QED BY <1>2, <1>3, <2>1 DEF IInv, SpentForASession
<1>11. thread'[t] = Idle /\ \A u \in Threads : u # t => thread'[u] = thread[u]
  BY <1>2 DEF IInv, Shape
<1>12. CASE row' = row
  <2>1. \A p \in Symbiots : Older(row[p], row'[p])
    <3>1. \A p \in Symbiots : row[p].failed \in Nat
      BY Constants DEF IInv, Shape, Row
    <3> QED BY <1>12, <3>1 DEF Older
  <2>2. Budget'
    BY <1>2, <1>8, <1>11, <2>1, IdleType, BudgetEnds DEF IInv
  <2> QED BY <1>7, <1>8, <1>9, <1>10, <2>2 DEF IInv
<1>13. CASE row' = [row EXCEPT ![s] = w]
  <2>1. row'[s] = w /\ \A p \in Symbiots : p # s => row'[p] = row[p]
    BY <1>13 DEF IInv, Shape
  <2>2. \A k : Judging(k)' = Judging(k)
    BY <1>1, <1>11, IdleType DEF Mail, Judging
  <2>3. /\ thread[t].pc = "mailing" /\ Unseen(code)
        /\ \A u \in Threads : thread[u].pc = "mailing" /\ thread[u].code = code => u = t
    BY <1>1 DEF Mail, IInv, Budget, Fresh
  <2>4. \A k : k # code /\ Unseen(k) => Unseen(k)'
    BY <1>2, <1>4, <2>1, <2>2 DEF Unseen
  <2>5. ASSUME NEW k \in Codes, k > drawn'
        PROVE  Unseen(k)' /\ \A u \in Threads : thread'[u].pc = "mailing" => thread'[u].code # k
    <3>1. Unseen(k) /\ \A u \in Threads : thread[u].pc = "mailing" => thread[u].code # k
      BY <1>2, <2>5 DEF IInv, Budget, Fresh
    <3>2. k # code
      BY <1>1, <2>3, <3>1
    <3> QED BY <1>11, <2>4, <3>1, <3>2, IdleType
  <2>6. ASSUME NEW u \in Threads, thread'[u].pc = "mailing"
        PROVE  /\ Unseen(thread[u].code)' /\ thread'[u] = thread[u]
               /\ \A v \in Threads :
                    thread'[v].pc = "mailing" /\ thread'[v].code = thread'[u].code => v = u
    <3>1. u # t /\ thread'[u] = thread[u] /\ thread[u].pc = "mailing"
      BY <1>11, <2>6, IdleType
    <3>2. PICK k : k = thread[u].code
      OBVIOUS
    <3>3. /\ Unseen(k) /\ k # code
          /\ \A v \in Threads : thread[v].pc = "mailing" /\ thread[v].code = k => v = u
      BY <2>3, <3>1, <3>2 DEF IInv, Budget, Fresh
    <3>4. Unseen(k)'
      BY <2>4, <3>3
    <3> QED BY <1>11, <3>1, <3>2, <3>3, <3>4, IdleType
  <2>7. Fresh'
    BY <2>5, <2>6 DEF Fresh
  <2>8. InPlace'
    <3>1. ASSUME NEW p \in Symbiots, p # s PROVE row'[p] = row[p] /\ row[p].code # code
      BY <2>1, <2>3, <3>1 DEF Unseen
    <3>2. ASSUME NEW u \in Threads, thread'[u].pc = "judging"
          PROVE  thread'[u] = thread[u] /\ thread[u].code # code
      <4>1. u # t /\ thread'[u] = thread[u]
        BY <1>11, <3>2, IdleType
      <4> QED BY <2>3, <3>2, <4>1 DEF Unseen, Judging
    <3>3. \A p, q \in Symbiots : row'[p].code # 0 /\ row'[p].code = row'[q].code => p = q
      BY <1>4, <2>1, <3>1 DEF IInv, Budget, InPlace
    <3>4. \A u \in Threads, p \in Symbiots :
            thread'[u].pc = "judging" /\ row'[p].code = thread'[u].code =>
              p = thread'[u].symbiot /\ row'[p].id = thread'[u].id
      BY <1>4, <2>1, <3>1, <3>2 DEF IInv, Budget, InPlace
    <3> QED BY <3>3, <3>4 DEF InPlace
  <2>9. Counted'
    <3>1. judged'[code] = 0
      BY <1>2, <2>3 DEF Unseen
    <3> QED BY <1>2, <1>4, <2>1, <3>1 DEF IInv, Budget, Counted
  <2>10. Bounded'
    BY <1>2, <2>2 DEF IInv, Budget, Bounded
  <2> QED BY <1>7, <1>8, <1>9, <1>10, <2>7, <2>8, <2>9, <2>10 DEF IInv, Budget
<1> QED BY <1>5, <1>12, <1>13

\* A guess is weighed against the row as it is read.
LEMMA VerifyIInv == ASSUME NEW t \in Threads PROVE IInv /\ verify_login_code(t) => IInv'
<1> SUFFICES ASSUME IInv, verify_login_code(t) PROVE IInv'
  OBVIOUS
<1>1. PICK s \in Symbiots, guess \in {0} \cup UNION {mailbox[p] : p \in Symbiots} :
        /\ row[s].code # 0
        /\ thread' = [thread EXCEPT ![t] =
             [pc |-> "judging", symbiot |-> s, code |-> row[s].code, guess |-> guess,
              id |-> row[s].id, failed |-> row[s].failed]]
  BY DEF verify_login_code
<1>2. UNCHANGED <<row, drawn, mailbox, session, spent, judged>>
  BY DEF verify_login_code
<1>3. PICK r \in Row : r = row[s]
  BY DEF IInv, Shape
<1>4. guess \in {0} \cup Codes
  BY DEF IInv, Shape
<1>5. PICK d : d = [pc |-> "judging", symbiot |-> s, code |-> row[s].code, guess |-> guess,
                    id |-> row[s].id, failed |-> row[s].failed]
  OBVIOUS
<1>6. /\ r.id \in Nat /\ r.failed \in Nat /\ r.code \in {0} \cup Codes
  BY Constants DEF Row
<1>7. /\ d \in Thread /\ d.pc = "judging" /\ d.symbiot = s
      /\ d.code = row[s].code /\ d.id = row[s].id
  BY <1>3, <1>4, <1>5, <1>6 DEF Thread
<1>8. d.code \in mailbox[s]
  BY <1>1, <1>7 DEF IInv, LiveWasMailed
<1>9. thread' = [thread EXCEPT ![t] = d]
  BY <1>1, <1>5
<1>10. Shape'
  BY <1>2, <1>7, <1>9 DEF IInv, Shape
<1>11. Reading'
  BY <1>2, <1>7, <1>8, <1>9 DEF IInv, Shape, Reading
<1>12. LiveWasMailed' /\ SpentForASession' /\ Counted'
  BY <1>2 DEF IInv, LiveWasMailed, SpentForASession, Budget, Counted
<1>13. thread'[t] = d /\ \A u \in Threads : u # t => thread'[u] = thread[u]
  BY <1>9 DEF IInv, Shape
<1>14. PICK c \in Codes : c = row[s].code
  BY <1>1, <1>3, <1>6
<1>15. \A k : k # c => Judging(k)' \subseteq Judging(k)
  BY <1>7, <1>13, <1>14 DEF Judging
<1>16. ~ Unseen(c) /\ \A k : Unseen(k) => Unseen(k)'
  BY <1>2, <1>14, <1>15 DEF Unseen
<1>17. Fresh'
  <2>1. ASSUME NEW k \in Codes, k > drawn'
        PROVE  Unseen(k)' /\ \A u \in Threads : thread'[u].pc = "mailing" => thread'[u].code # k
    BY <1>2, <1>7, <1>13, <1>16, <2>1 DEF IInv, Budget, Fresh
  <2>2. ASSUME NEW u \in Threads, thread'[u].pc = "mailing"
        PROVE  /\ Unseen(thread[u].code)' /\ thread'[u] = thread[u]
               /\ \A v \in Threads :
                    thread'[v].pc = "mailing" /\ thread'[v].code = thread'[u].code => v = u
    <3>1. u # t /\ thread'[u] = thread[u] /\ thread[u].pc = "mailing"
      BY <1>7, <1>13, <2>2
    <3>2. PICK k : k = thread[u].code
      OBVIOUS
    <3>3. /\ Unseen(k)
          /\ \A v \in Threads : thread[v].pc = "mailing" /\ thread[v].code = k => v = u
      BY <3>1, <3>2 DEF IInv, Budget, Fresh
    <3>4. Unseen(k)'
      BY <1>16, <3>3
    <3> QED BY <1>7, <1>13, <3>1, <3>2, <3>3, <3>4
  <2> QED BY <2>1, <2>2 DEF Fresh
<1>18. InPlace'
  <2>1. \A p, q \in Symbiots : row[p].code # 0 /\ row[p].code = row[q].code => p = q
    BY DEF IInv, Budget, InPlace
  <2>2. ASSUME NEW u \in Threads, NEW p \in Symbiots,
               thread'[u].pc = "judging", row[p].code = thread'[u].code
        PROVE  p = thread'[u].symbiot /\ row[p].id = thread'[u].id
    <3>1. CASE u = t
      BY <1>1, <1>7, <1>13, <2>1, <2>2, <3>1
    <3>2. CASE u # t
      BY <1>13, <2>2, <3>2 DEF IInv, Budget, InPlace
    <3> QED BY <3>1, <3>2
  <2> QED BY <1>2, <2>1, <2>2 DEF InPlace
<1>19. Bounded'
  <2> SUFFICES ASSUME NEW k \in Codes
               PROVE  judged[k] + Cardinality(Judging(k)')
                        < MAX_VERIFY_ATTEMPTS + Cardinality(Threads)
    BY <1>2 DEF Bounded
  <2>1. Judging(k)' \in SUBSET Threads /\ Judging(k) \in SUBSET Threads /\ judged[k] \in Nat
    BY DEF Judging, IInv, Shape
  <2>2. CASE k = c
    <3>1. judged[c] <= r.failed
      BY <1>1, <1>3, <1>14 DEF IInv, Budget, Counted
    <3>2. PICK f \in 0 .. MAX_VERIFY_ATTEMPTS - 1 : f = r.failed
      BY DEF Row
    <3>3. /\ Cardinality(Judging(k)') \in Nat /\ Cardinality(Threads) \in Nat
          /\ Cardinality(Judging(k)') <= Cardinality(Threads)
      BY <2>1, Fewer
    <3> QED BY <2>1, <2>2, <3>1, <3>2, <3>3, Constants
  <2>3. CASE k # c
    <3>1. judged[k] + Cardinality(Judging(k)) < MAX_VERIFY_ATTEMPTS + Cardinality(Threads)
      BY DEF IInv, Budget, Bounded
    <3>2. /\ Cardinality(Judging(k)') \in Nat /\ Cardinality(Judging(k)) \in Nat
          /\ Cardinality(Judging(k)') <= Cardinality(Judging(k)) /\ Cardinality(Threads) \in Nat
      BY <1>15, <2>1, <2>3, Fewer
    <3> QED BY <2>1, <3>1, <3>2, Constants
  <2> QED BY <2>2, <2>3
<1> QED BY <1>10, <1>11, <1>12, <1>17, <1>18, <1>19 DEF IInv, Budget

\* A wrong guess is charged to the row as it stands, and counted as it is charged.
LEMMA ChargeIInv == ASSUME NEW t \in Threads PROVE IInv /\ Charge(t) => IInv'
<1> SUFFICES ASSUME IInv, Charge(t) PROVE IInv'
  OBVIOUS
<1>1. PICK d \in Thread : d = thread[t]
  BY DEF IInv, Shape
<1>2. PICK s \in Symbiots : s = d.symbiot
  BY <1>1 DEF Charge, IInv, Reading
<1>3. PICK e \in Codes : e = d.code
  BY <1>1 DEF Charge, IInv, Reading, Shape
<1>4. PICK r \in Row : r = row[s]
  BY DEF IInv, Shape
<1>5. PICK c : c = Charged(r, d)
  OBVIOUS
<1>6. /\ row' = [row EXCEPT ![s] = c]
      /\ judged' = [judged EXCEPT ![e] = @ + 1]
      /\ thread' = [thread EXCEPT ![t] = Idle]
      /\ UNCHANGED <<drawn, mailbox, session, spent>>
  BY <1>1, <1>2, <1>3, <1>4, <1>5 DEF Charge, IInv, Shape
<1>7. PICK f \in 0 .. MAX_VERIFY_ATTEMPTS - 1 : f = r.failed
  BY DEF Row
<1>8. /\ c \in Row /\ Older(r, c)
      /\ r.id = d.id /\ c.code # 0 => c.failed >= r.failed + 1
  <2>1. CASE c = r /\ (r.id # d.id \/ r.code = 0)
    BY <1>7, <2>1, Constants DEF Older
  <2>2. CASE c = NoRow(r.id)
    BY <2>2, NoRowType DEF Row, Older
  <2>3. CASE /\ r.code # 0 /\ ~(r.failed + 1 >= MAX_VERIFY_ATTEMPTS)
             /\ c = [r EXCEPT !.failed = add_one(r, d)]
    <3>1. f + 1 \in 0 .. MAX_VERIFY_ATTEMPTS - 1
      BY <1>7, <2>3, Constants
    <3>2. c = [r EXCEPT !.failed = f + 1]
      BY <1>7, <2>3 DEF add_one
    <3> QED BY <1>7, <3>1, <3>2 DEF Row, Older
  <2> QED BY <1>5, <2>1, <2>2, <2>3 DEF Charged, add_one
<1>9. /\ row' \in [Symbiots -> Row] /\ thread' \in [Threads -> Thread]
      /\ row'[s] = c /\ \A p \in Symbiots : Older(row[p], row'[p])
      /\ Reading' /\ LiveWasMailed'
  BY <1>4, <1>6, <1>8, RowWritten
<1>10. SpentForASession'
  BY <1>6 DEF IInv, SpentForASession
<1>11. Shape'
  BY <1>6, <1>9 DEF IInv, Shape
<1>12. ASSUME row'[s].code = e PROVE row'[s].failed >= row[s].failed + 1
  <2>1. c.code = e /\ e # 0 /\ r.code = e
    BY <1>8, <1>9, <1>12 DEF Older, Codes
  <2>2. r.id = d.id
    BY <1>1, <1>2, <1>3, <1>4, <2>1 DEF Charge, IInv, Budget, InPlace
  <2> QED BY <1>4, <1>8, <1>9, <2>1, <2>2
<1>13. thread[t].pc = "judging" /\ thread[t].symbiot = s /\ thread[t].code = e
  BY <1>1, <1>2, <1>3 DEF Charge
<1>14. Shape /\ Reading /\ Budget
  BY DEF IInv
<1>15. Budget'
  BY <1>6, <1>9, <1>11, <1>12, <1>13, <1>14, BudgetGuess
<1> QED BY <1>9, <1>10, <1>11, <1>15 DEF IInv

\* A correct guess spends the row it read, and has its session.
LEMMA SpendIInv == ASSUME NEW t \in Threads PROVE IInv /\ Spend(t) => IInv'
<1> SUFFICES ASSUME IInv, Spend(t) PROVE IInv'
  OBVIOUS
<1>1. PICK d \in Thread : d = thread[t]
  BY DEF IInv, Shape
<1>2. PICK s \in Symbiots, code \in Codes : s = d.symbiot /\ code = d.code /\ code \in mailbox[s]
  BY <1>1 DEF Spend, IInv, Reading, Shape
<1>3. PICK n \in Session : n = [symbiot |-> s, code |-> code, live |-> TRUE]
  BY DEF Session
<1>4. /\ row' = [row EXCEPT ![s] = IF row[s].id = d.id THEN NoRow(d.id) ELSE row[s]]
      /\ session' = Append(session, n)
      /\ spent' = spent \cup {code}
      /\ judged' = [judged EXCEPT ![code] = @ + 1]
      /\ thread' = [thread EXCEPT ![t] = Idle]
      /\ UNCHANGED <<drawn, mailbox>>
  BY <1>1, <1>2, <1>3 DEF Spend, minted, IInv, Shape
<1>5. PICK r \in Row : r = row[s]
  BY DEF IInv, Shape
<1>6. PICK c : c = IF r.id = d.id THEN NoRow(d.id) ELSE r
  OBVIOUS
<1>7. c \in Row /\ Older(r, c) /\ (r.id = d.id => c.code = 0)
  <2>1. d.id \in Nat
    BY DEF Thread
  <2>2. PICK f \in 0 .. MAX_VERIFY_ATTEMPTS - 1 : f = r.failed
    BY DEF Row
  <2> QED BY <1>6, <2>1, <2>2, NoRowType, Constants DEF Older
<1>8. /\ row' \in [Symbiots -> Row] /\ thread' \in [Threads -> Thread]
      /\ row'[s] = c /\ \A p \in Symbiots : Older(row[p], row'[p])
      /\ Reading' /\ LiveWasMailed'
  BY <1>4, <1>5, <1>6, <1>7, RowWritten
<1>9. /\ session \in Seq(Session) /\ session' \in Seq(Session)
      /\ Len(session') <= MaxSessions
  BY <1>4, Constants DEF IInv, Shape, Spend
<1>10. /\ DOMAIN session' = DOMAIN session \cup {Len(session) + 1}
       /\ \A i \in DOMAIN session : session'[i] = session[i]
       /\ session'[Len(session) + 1] = n
  BY <1>4, <1>9
<1>11. n.symbiot = s /\ n.code = code
  BY <1>3
<1>12. SpentForASession'
  <2>1. \A c0 \in spent' : \E i \in DOMAIN session' : session'[i].code = c0
    BY <1>4, <1>10, <1>11 DEF IInv, SpentForASession
  <2>2. \A i \in DOMAIN session' : session'[i].code \in mailbox'[session'[i].symbiot]
    BY <1>2, <1>4, <1>10, <1>11 DEF IInv, SpentForASession
  <2> QED BY <2>1, <2>2 DEF SpentForASession
<1>13. Shape'
  BY <1>4, <1>8, <1>9 DEF IInv, Shape
<1>14. row'[s].code # code
  <2>1. ASSUME row'[s].code = code PROVE FALSE
    <3>1. c.code = code /\ code # 0 /\ r.code = code
      BY <1>7, <1>8, <2>1 DEF Older, Codes
    <3>2. r.id = d.id
      BY <1>1, <1>2, <1>5, <3>1 DEF Spend, IInv, Budget, InPlace
    <3> QED BY <1>7, <3>1, <3>2
  <2> QED BY <2>1
<1>15. thread[t].pc = "judging" /\ thread[t].symbiot = s /\ thread[t].code = code
  BY <1>1, <1>2 DEF Spend
<1>16. Shape /\ Reading /\ Budget
  BY DEF IInv
<1>17. Budget'
  BY <1>4, <1>8, <1>13, <1>14, <1>15, <1>16, BudgetGuess
<1> QED BY <1>8, <1>12, <1>13, <1>17 DEF IInv

\* A session ends.
LEMMA LogoutIInv == IInv /\ logout => IInv'
<1> SUFFICES ASSUME IInv, logout PROVE IInv'
  OBVIOUS
<1>1. PICK i \in DOMAIN session : session' = [session EXCEPT ![i].live = FALSE]
  BY DEF logout
<1>2. UNCHANGED <<row, drawn, mailbox, spent, judged, thread>>
  BY DEF logout
<1>3. PICK n \in Session : n = session[i]
  BY DEF IInv, Shape
<1>4. PICK o : o = [n EXCEPT !.live = FALSE]
  OBVIOUS
<1>5. o \in Session /\ o.code = n.code /\ o.symbiot = n.symbiot
  BY <1>4 DEF Session
<1>6. session' = [session EXCEPT ![i] = o]
  BY <1>1, <1>3, <1>4
<1>7. /\ session' \in Seq(Session) /\ DOMAIN session' = DOMAIN session
      /\ Len(session') <= MaxSessions
  BY <1>5, <1>6 DEF IInv, Shape
<1>8. \A j \in DOMAIN session : /\ session'[j].code = session[j].code
                                /\ session'[j].symbiot = session[j].symbiot
  BY <1>3, <1>5, <1>6 DEF IInv, Shape
<1>9. SpentForASession'
  BY <1>2, <1>7, <1>8 DEF IInv, SpentForASession
<1>10. Shape' /\ Reading' /\ LiveWasMailed'
  BY <1>2, <1>7 DEF IInv, Shape, Reading, LiveWasMailed
<1>11. \A p \in Symbiots : Older(row[p], row'[p])
  <2>1. \A p \in Symbiots : row[p].failed \in Nat
    BY Constants DEF IInv, Shape, Row
  <2> QED BY <1>2, <2>1 DEF Older
<1>12. Budget'
  BY <1>2, <1>10, <1>11, BudgetEnds DEF IInv
<1> QED BY <1>9, <1>10, <1>12 DEF IInv

\* A row cools, or expires: nothing that the invariant reads of it changes.
LEMMA AgesIInv ==
  ASSUME NEW s \in Symbiots
  PROVE  IInv /\ (Cool(s) \/ Expire(s)) => IInv'
<1> SUFFICES ASSUME IInv, Cool(s) \/ Expire(s) PROVE IInv'
  OBVIOUS
<1>1. UNCHANGED <<drawn, mailbox, session, spent, judged, thread>>
  BY DEF Cool, Expire
<1>2. PICK r \in Row : r = row[s]
  BY DEF IInv, Shape
<1>3. PICK o : /\ o = [r EXCEPT !.fresh = FALSE] \/ o = [r EXCEPT !.expired = TRUE]
               /\ row' = [row EXCEPT ![s] = o]
  BY <1>2 DEF Cool, Expire, IInv, Shape
<1>4. o \in Row /\ Older(r, o) /\ o.code = r.code
  <2>1. PICK f \in 0 .. MAX_VERIFY_ATTEMPTS - 1 : f = r.failed
    BY DEF Row
  <2>2. o.code = r.code /\ o.id = r.id /\ o.failed = r.failed
    BY <1>3 DEF Row
  <2>3. o \in Row
    BY <1>3 DEF Row
  <2> QED BY <2>1, <2>2, <2>3, Constants DEF Older
<1>5. /\ row' \in [Symbiots -> Row]
      /\ \A p \in Symbiots : Older(row[p], row'[p]) /\ row'[p].code = row[p].code
  <2>1. \A p \in Symbiots : row[p].failed \in Nat
    BY Constants DEF IInv, Shape, Row
  <2> QED BY <1>2, <1>3, <1>4, <2>1 DEF IInv, Shape, Older
<1>6. Shape' /\ Reading' /\ LiveWasMailed' /\ SpentForASession'
  BY <1>1, <1>5 DEF IInv, Shape, Reading, LiveWasMailed, SpentForASession
<1>7. Budget'
  BY <1>1, <1>5, <1>6, BudgetEnds DEF IInv
<1> QED BY <1>6, <1>7 DEF IInv

\* The kernel restarts; the tables stay.
LEMMA RestartIInv == IInv /\ Restart => IInv'
<1> SUFFICES ASSUME IInv, Restart PROVE IInv'
  OBVIOUS
<1>1. /\ UNCHANGED <<row, drawn, mailbox, session, spent, judged>>
      /\ \A t \in Threads : thread'[t] = Idle
  BY DEF Restart
<1>2. Shape' /\ Reading' /\ LiveWasMailed' /\ SpentForASession'
  BY IdleType DEF Restart, IInv, Shape, Reading, LiveWasMailed, SpentForASession
<1>3. \A p \in Symbiots : Older(row[p], row'[p])
  <2>1. \A p \in Symbiots : row[p].failed \in Nat
    BY Constants DEF IInv, Shape, Row
  <2> QED BY <1>1, <2>1 DEF Older
<1>4. Budget'
  BY <1>1, <1>2, <1>3, IdleType, BudgetEnds DEF IInv
<1> QED BY <1>2, <1>4 DEF IInv

\* What leaves the door as it is.
LEMMA StutterIInv == IInv /\ UNCHANGED door => IInv'
<1> SUFFICES ASSUME IInv, UNCHANGED door PROVE IInv'
  OBVIOUS
<1>1. Shape' /\ Reading' /\ LiveWasMailed' /\ SpentForASession'
  BY DEF door, IInv, Shape, Reading, LiveWasMailed, SpentForASession
<1>2. Budget'
  BY DEF door, IInv, Budget, Fresh, InPlace, Counted, Bounded, Unseen, Judging
<1> QED BY <1>1, <1>2 DEF IInv

\* The invariant is inductive.
LEMMA NextIInv == IInv /\ [Next]_vars => IInv'
<1> SUFFICES ASSUME IInv, [Next]_vars PROVE IInv'
  OBVIOUS
<1>1. CASE Refused \/ Tick
  BY <1>1, StutterIInv DEF Refused, Tick
<1>2. CASE Restart \/ logout
  BY <1>2, RestartIInv, LogoutIInv
<1>3. ASSUME NEW t \in Threads,
             issue_login_code(t) \/ Mail(t) \/ verify_login_code(t) \/ Charge(t) \/ Spend(t)
      PROVE  IInv'
  BY <1>3, IssueIInv, MailIInv, VerifyIInv, ChargeIInv, SpendIInv
<1>4. ASSUME NEW s \in Symbiots, Cool(s) \/ Expire(s) PROVE IInv'
  BY <1>4, AgesIInv
<1>5. CASE UNCHANGED vars
  BY <1>5, StutterIInv DEF vars, door
<1> QED BY <1>1, <1>2, <1>3, <1>4, <1>5 DEF Next

-----------------------------------------------------------------------------
\* The limiter: no more hits than the limit are kept, and once the wait that was told
\* is over, the oldest of as many has left the window.
Paced ==
  /\ hits \in Seq(0 .. Span) /\ told \in -1 .. Span + Grain
  /\ Len(hits) <= Limit
  /\ told >= 0 => Len(hits) < Limit \/ hits[1] + told >= Span

\* The constants of the limiter, as the proofs use them.
LEMMA Pace ==
  Limit \in Nat /\ Limit > 0 /\ Window \in Nat /\ Grain \in Nat /\ Grain > 0 /\ Span \in Nat
BY LimitAssumption DEF Span

\* A set of naturals has a least one, which is its Min.
LEMMA MinIsLeast ==
  ASSUME NEW S \in SUBSET Nat, S # {}
  PROVE  Min(S) \in S /\ \A k \in S : Min(S) <= k
<1> DEFINE Less == {p \in Nat \X Nat : p[1] < p[2]}
<1>1. IsWellFoundedOn(Less, Nat)
  BY NatLessThanWellFounded DEF OpToRel
<1>2. \A j, k \in Nat : <<j, k>> \in Less <=> j < k
  OBVIOUS
<1> HIDE DEF Less
<1>3. PICK m \in S : \A k \in S : ~ (<<k, m>> \in Less)
  BY <1>1, WFMin
<1>4. ASSUME NEW k \in S PROVE m <= k
  <2>1. k \in Nat /\ m \in Nat /\ ~ (<<k, m>> \in Less)
    BY <1>3
  <2> QED BY <1>2, <2>1
<1> QED BY <1>4 DEF Min

\* What a quotient times its divisor misses of the dividend.
LEMMA Quotient ==
  ASSUME NEW a \in Nat, NEW b \in Nat \ {0}
  PROVE  a \div b \in Nat /\ (a \div b) * b <= a /\ a < (a \div b + 1) * b
<1>1. a \div b \in Nat
  OBVIOUS
<1>2. a = b * (a \div b) + (a % b)
  OBVIOUS
<1>3. a % b < b /\ a % b >= 0
  OBVIOUS
<1> QED BY <1>1, <1>2, <1>3

\* A sequence without its first elements.
LEMMA WhatIsLeft ==
  ASSUME NEW T, NEW s \in Seq(T), NEW n \in 0 .. Len(s)
  PROVE  SubSeq(s, n + 1, Len(s)) \in Seq(T) /\ Len(SubSeq(s, n + 1, Len(s))) = Len(s) - n
OBVIOUS

\* The window is hits without the oldest of them, none of them if the oldest is in it.
LEMMA WindowIs ==
  ASSUME hits \in Seq(0 .. Span)
  PROVE  /\ InWindow \in Seq(0 .. Span) /\ Len(InWindow) <= Len(hits)
         /\ hits # <<>> /\ hits[1] < Span => InWindow = hits
         /\ hits # <<>> /\ hits[1] >= Span => Len(InWindow) < Len(hits)
<1> DEFINE Stops == {k \in 0 .. Len(hits) : k = Len(hits) \/ hits[k + 1] < Span}
<1>1. Len(hits) \in Stops /\ Stops \in SUBSET Nat
  OBVIOUS
<1>2. Outlived \in Stops /\ \A k \in Stops : Outlived <= k
  BY <1>1, MinIsLeast DEF Outlived
<1>3. PICK n \in 0 .. Len(hits) : n = Outlived
  BY <1>2
<1>4. InWindow = SubSeq(hits, n + 1, Len(hits))
  BY <1>3 DEF InWindow
<1>5. InWindow \in Seq(0 .. Span) /\ Len(InWindow) = Len(hits) - n
  BY <1>4, WhatIsLeft
<1>6. ASSUME hits # <<>>, hits[1] < Span PROVE InWindow = hits
  <2>1. 0 \in Stops
    BY <1>6
  <2>2. n = 0
    BY <1>2, <1>3, <2>1
  <2> QED BY <1>4, <2>2
<1>7. ASSUME hits # <<>>, hits[1] >= Span PROVE n # 0
  <2>1. 0 \notin Stops
    BY <1>7, Pace
  <2> QED BY <1>2, <1>3, <2>1
<1> QED BY <1>5, <1>6, <1>7

\* No hit was made at first.
LEMMA InitPaced == Init => Paced
BY Pace DEF Init, Paced

\* A hit is let in.
LEMMA AdmittedPaced == Paced /\ Admitted => Paced'
<1> SUFFICES ASSUME Paced, Admitted PROVE Paced'
  OBVIOUS
<1>1. hits' = Append(InWindow, 0) /\ told' = -1 /\ Len(InWindow) < Limit
  BY DEF Admitted
<1>2. InWindow \in Seq(0 .. Span)
  BY WindowIs DEF Paced
<1>3. hits' \in Seq(0 .. Span) /\ Len(hits') <= Limit
  BY <1>1, <1>2, Pace
<1> QED BY <1>1, <1>3, Pace DEF Paced

\* A hit is refused: the window is full, so the oldest hit kept is in it, and the wait
\* told is at least what is left of its time there.
LEMMA RefusedPaced == Paced /\ Refused => Paced'
<1> SUFFICES ASSUME Paced, Refused PROVE Paced'
  OBVIOUS
<1>1. Len(InWindow) >= Limit /\ hits' = InWindow /\ told' = wait(Head(InWindow)) * Grain
  BY DEF Refused
<1>2. hits # <<>> /\ hits[1] \in 0 .. Span /\ hits[1] < Span /\ InWindow = hits
  BY <1>1, WindowIs, Pace DEF Paced
<1>3. PICK left \in Nat : left = Span - hits[1] /\ left <= Span
  BY <1>2, Pace
<1>4. PICK q \in Nat : q = left \div Grain /\ q * Grain <= left /\ left < (q + 1) * Grain
  BY Quotient, Pace
<1>5. told' = (q + 1) * Grain
  BY <1>1, <1>2, <1>3, <1>4 DEF wait
<1>6. (q + 1) * Grain = q * Grain + Grain /\ q * Grain \in Nat
  BY Pace
<1>7. told' \in -1 .. Span + Grain /\ told' >= left
  BY <1>3, <1>4, <1>5, <1>6, Pace
<1> QED BY <1>1, <1>2, <1>3, <1>7, Pace DEF Paced

\* The clock ticks: what is left of a wait shrinks as the oldest hit ages.
LEMMA TickPaced == Paced /\ Tick => Paced'
<1> SUFFICES ASSUME Paced, Tick PROVE Paced'
  OBVIOUS
<1>1. /\ hits' = [i \in DOMAIN hits |-> IF hits[i] < Span THEN hits[i] + 1 ELSE Span]
      /\ told' = IF told > 0 THEN told - 1 ELSE told
  BY DEF Tick
<1>2. hits' \in Seq(0 .. Span) /\ Len(hits') = Len(hits)
  BY <1>1, Pace, SMTT(30) DEF Paced
<1>3. told' \in -1 .. Span + Grain
  BY <1>1, Pace DEF Paced
<1>4. ASSUME told' >= 0, Len(hits) = Limit PROVE hits'[1] + told' >= Span
  <2>1. told >= 0 /\ hits[1] + told >= Span /\ hits[1] \in 0 .. Span /\ 1 \in DOMAIN hits
    BY <1>1, <1>4, Pace DEF Paced
  <2>2. hits'[1] = IF hits[1] < Span THEN hits[1] + 1 ELSE Span
    BY <1>1, <2>1
  <2> QED BY <1>1, <2>1, <2>2, Pace DEF Paced
<1> QED BY <1>2, <1>3, <1>4, Pace DEF Paced

\* The limiter's invariant is inductive: what else happens leaves it alone, but for a
\* restart, which empties it.
LEMMA NextPaced == Paced /\ [Next]_vars => Paced'
<1> SUFFICES ASSUME Paced, [Next]_vars PROVE Paced'
  OBVIOUS
<1>1. CASE UNCHANGED <<hits, told>>
  BY <1>1 DEF Paced
<1>2. CASE Restart
  BY <1>2, Pace DEF Restart, Paced
<1>3. ASSUME NEW t \in Threads, issue_login_code(t) PROVE Paced'
  BY <1>3, AdmittedPaced DEF issue_login_code
<1>4. CASE logout
  BY <1>4, <1>1 DEF logout
<1>5. ASSUME NEW t \in Threads, Mail(t) \/ verify_login_code(t) \/ Charge(t) \/ Spend(t)
      PROVE  Paced'
  BY <1>5, <1>1 DEF Mail, verify_login_code, Charge, Spend
<1>6. ASSUME NEW s \in Symbiots, Cool(s) \/ Expire(s) PROVE Paced'
  BY <1>6, <1>1 DEF Cool, Expire
<1>7. CASE UNCHANGED vars
  BY <1>7, <1>1 DEF vars
<1> QED BY <1>2, <1>3, <1>4, <1>5, <1>6, <1>7, RefusedPaced, TickPaced DEF Next

-----------------------------------------------------------------------------
\* Door!TypeOK: types, among them that a live row's count of wrong guesses is below the
\* budget, whatever requests run at once.
THEOREM TypeCorrect == Spec => []TypeOK
<1>1. IInv /\ Paced => TypeOK
  BY DEF IInv, Shape, Paced, TypeOK
<1>2. Init => IInv /\ Paced
  BY InitIInv, InitPaced
<1>3. IInv /\ Paced /\ [Next]_vars => IInv' /\ Paced'
  BY NextIInv, NextPaced
<1> QED BY <1>1, <1>2, <1>3, PTL DEF Spec

\* Door!WaitSuffices: for any limit, window and grain, the wait told, cut to whole
\* seconds as it is, outlasts the oldest hit's time in the window, and no more than
\* the limit are in it (RateLimiter.retry_after).
THEOREM WaitsAreTrue == Spec => []WaitSuffices
<1>1. Paced => WaitSuffices
  <2> SUFFICES ASSUME Paced PROVE WaitSuffices
    OBVIOUS
  <2>1. Len(InWindow) <= Limit
    BY WindowIs, Pace DEF Paced
  <2>2. ASSUME told = 0 PROVE Len(InWindow) < Limit
    <3>1. CASE Len(hits) < Limit
      BY <3>1, WindowIs, Pace DEF Paced
    <3>2. CASE Len(hits) >= Limit
      <4>1. hits # <<>> /\ hits[1] >= Span /\ Len(hits) = Limit
        BY <2>2, <3>2, Pace DEF Paced
      <4> QED BY <4>1, WindowIs, Pace DEF Paced
    <3> QED BY <3>1, <3>2, Pace DEF Paced
  <2> QED BY <2>1, <2>2 DEF WaitSuffices
<1> QED BY InitPaced, NextPaced, <1>1, PTL DEF Spec

\* Door!LiveWasMailed: whatever mails and commits fail, and whatever requests and
\* restarts interleave, the code that can be spent came to its symbiot's mailbox
\* (identity.issue_login_code).
THEOREM MailedBeforeLive == Spec => []LiveWasMailed
<1>1. IInv => LiveWasMailed
  BY DEF IInv
<1> QED BY InitIInv, NextIInv, <1>1, PTL DEF Spec

\* Door!SpentForASession: a code that was spent has its session, and a session's code
\* came to the mailbox of the symbiot it is for (identity.verify_login_code).
THEOREM SpentCodesOpen == Spec => []SpentForASession
<1>1. IInv => SpentForASession
  BY DEF IInv
<1> QED BY InitIInv, NextIInv, <1>1, PTL DEF Spec

\* Door!BudgetHolds: for any budget and any number of requests at once, a code that
\* can be spent was compared with fewer guesses than its budget, and no code is ever
\* compared with more than that and one for each other request
\* (identity.verify_login_code).
THEOREM GuessesAreCounted == Spec => []BudgetHolds
<1>1. IInv => BudgetHolds
  <2> SUFFICES ASSUME IInv PROVE BudgetHolds
    OBVIOUS
  <2>1. ASSUME NEW s \in Symbiots, row[s].code # 0
        PROVE  judged[row[s].code] < MAX_VERIFY_ATTEMPTS
    <3>1. PICK f \in 0 .. MAX_VERIFY_ATTEMPTS - 1 : f = row[s].failed
      BY DEF IInv, Shape, Row
    <3>2. row[s].code \in Codes
      BY <2>1 DEF IInv, Shape, Row
    <3>3. judged[row[s].code] \in Nat /\ judged[row[s].code] <= f
      BY <2>1, <3>1, <3>2 DEF IInv, Shape, Budget, Counted
    <3> QED BY <3>1, <3>3, Constants
  <2>2. ASSUME NEW c \in Codes PROVE judged[c] < MAX_VERIFY_ATTEMPTS + Cardinality(Threads)
    <3>1. Judging(c) \in SUBSET Threads /\ judged[c] \in Nat
      BY DEF Judging, IInv, Shape
    <3>2. Cardinality(Judging(c)) \in Nat /\ Cardinality(Threads) \in Nat
      BY <3>1, Fewer
    <3>3. judged[c] + Cardinality(Judging(c)) < MAX_VERIFY_ATTEMPTS + Cardinality(Threads)
      BY DEF IInv, Budget, Bounded
    <3> QED BY <3>1, <3>2, <3>3, Constants
  <2> QED BY <2>1, <2>2 DEF BudgetHolds
<1> QED BY InitIInv, NextIInv, <1>1, PTL DEF Spec
=============================================================================
