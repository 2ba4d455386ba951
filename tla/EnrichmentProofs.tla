-------------------------- MODULE EnrichmentProofs --------------------------
(***************************************************************************)
(* Theorems about Enrichment, for any number of symbiots, sweeps, messages *)
(* and failures and any settling interval.                                 *)
(*                                                                         *)
(* A burst is picked before the lock is tried, so it may be stale when it  *)
(* is recorded; the UNIQUE key of its members is what makes it count once. *)
(* What was sent before is read under the lock, which is held until the    *)
(* commit, so nothing can be sent to the symbiot in between.               *)
(***************************************************************************)
EXTENDS Enrichment, TLAPS

-----------------------------------------------------------------------------
\* The variables have their types.
Shape ==
  /\ clock \in 0 .. Horizon /\ failures \in 0 .. MaxFailures
  /\ intake \in [Messages -> Message]
  /\ enrichment \in [Messages -> Verdicts]
  /\ missives \in Seq(Missive)
  /\ claimed \in [Symbiots -> Sweeps \cup {None}]
  /\ pass \in [Sweeps -> Pass]

\* A symbiot's lock is held by the pass for it that is past the claim.
Locking ==
  \A w \in Sweeps, s \in Symbiots :
    claimed[s] = w <=> /\ pass[w].symbiot = s
                       /\ pass[w].pc \in {"compose", "record"}

\* A burst of a symbiot: answered messages of theirs, one of them the last.
IsBurst(burst, s) ==
  /\ \A m \in burst : intake[m].status = "answered" /\ intake[m].symbiot = s
  /\ \E x \in burst : \A n \in burst : ~After(n, x)

\* A pass under way has a burst of a symbiot, and one about to record a verdict.
Bursting ==
  \A w \in Sweeps :
    /\ pass[w].pc # "idle" => /\ pass[w].symbiot \in Symbiots
                              /\ IsBurst(pass[w].burst, pass[w].symbiot)
    /\ pass[w].pc = "record" => pass[w].verdict # "none"

\* What a pass compared is all that was sent, unless the embedder was out of reach.
Compared ==
  \A w \in Sweeps :
    pass[w].pc = "record" /\ pass[w].verdict = "surfaced" /\ ~pass[w].unmeasured
      => \A j \in DOMAIN missives :
           missives[j].symbiot = pass[w].symbiot => j \in pass[w].compared

\* Each follow-up was prompted by a burst.
Prompted == \A k \in DOMAIN missives : IsBurst(missives[k].burst, missives[k].symbiot)

IInv == /\ Shape /\ Locking /\ Bursting /\ Compared /\ Prompted
        /\ AnchoredOnce /\ ComparedWithAll

-----------------------------------------------------------------------------
\* The constants, as the proofs use them.
LEMMA Constants ==
  /\ MaxMessages \in Nat /\ Horizon \in Nat /\ Settle \in Nat /\ MaxFailures \in Nat
  /\ None \notin Symbiots /\ None \notin Sweeps
BY NoneAssumption, BoundsAssumption

\* A pass at rest.
LEMMA IdleType == Idle \in Pass /\ Idle.pc = "idle"
BY DEF Idle, Pass, Verdicts

\* Nothing was sent, considered or claimed at first.
LEMMA InitIInv == Init => IInv
<1> SUFFICES ASSUME Init PROVE IInv
  OBVIOUS
<1> USE DEF Init
<1>1. Shape
  <2>1. intake \in [Messages -> Message]
    BY Constants DEF Unsent, Message
  <2>2. clock \in 0 .. Horizon /\ failures \in 0 .. MaxFailures
    BY Constants
  <2>3. pass \in [Sweeps -> Pass]
    BY IdleType
  <2> QED BY <2>1, <2>2, <2>3 DEF Shape, Verdicts
<1>2. Locking
  BY IdleType, Constants DEF Locking
<1>3. Bursting /\ Compared
  BY IdleType DEF Bursting, Compared
<1>4. Prompted /\ AnchoredOnce /\ ComparedWithAll
  BY DEF Prompted, AnchoredOnce, ComparedWithAll
<1> QED BY <1>1, <1>2, <1>3, <1>4 DEF IInv

-----------------------------------------------------------------------------
\* The last message of a burst is the one that no other comes after.
LEMMA AnchorIsLast ==
  ASSUME Shape, NEW burst \in SUBSET Messages, NEW x \in burst, \A n \in burst : ~After(n, x)
  PROVE  Anchor(burst) = x
<1>1. Anchor(burst) \in burst /\ \A n \in burst : ~After(n, Anchor(burst))
  BY DEF Anchor
<1>2. PICK a \in Messages : a = Anchor(burst)
  BY <1>1
<1>3. ~After(a, x) /\ ~After(x, a)
  BY <1>1, <1>2
<1>4. intake[a].created_at \in Nat /\ intake[x].created_at \in Nat /\ a \in Nat /\ x \in Nat
  BY Constants DEF Shape, Message, Messages
<1> QED BY <1>2, <1>3, <1>4 DEF After

\* The same of the state that follows.
LEMMA AnchorIsLastNext ==
  ASSUME Shape', NEW burst \in SUBSET Messages, NEW x \in burst, \A n \in burst : ~After(n, x)'
  PROVE  Anchor(burst)' = x
<1>1. Anchor(burst)' \in burst /\ \A n \in burst : ~(After(n, Anchor(burst))')
  BY DEF Anchor
<1>2. PICK a \in Messages : a = Anchor(burst)'
  BY <1>1
<1>3. ~(After(a, x)') /\ ~(After(x, a)')
  BY <1>1, <1>2
<1>4. intake'[a].created_at \in Nat /\ intake'[x].created_at \in Nat /\ a \in Nat /\ x \in Nat
  BY Constants DEF Shape, Message, Messages
<1> QED BY <1>2, <1>3, <1>4 DEF After

\* A burst stays one, with the same last message, while answered messages stay.
LEMMA BurstStays ==
  ASSUME Shape, Shape', NEW burst \in SUBSET Messages, NEW s, IsBurst(burst, s),
         \A m \in Messages : intake[m].status = "answered" => intake'[m] = intake[m]
  PROVE  IsBurst(burst, s)' /\ Anchor(burst)' = Anchor(burst)
<1>1. \A m \in burst : intake'[m] = intake[m]
  BY DEF IsBurst
<1>2. PICK x \in burst : \A n \in burst : ~After(n, x)
  BY DEF IsBurst
<1>3. \A n \in burst : ~(After(n, x)')
  BY <1>1, <1>2 DEF After
<1>4. Anchor(burst) = x /\ Anchor(burst)' = x
  BY <1>2, <1>3, AnchorIsLast, AnchorIsLastNext
<1>5. IsBurst(burst, s)'
  BY <1>1, <1>3 DEF IsBurst
<1> QED BY <1>4, <1>5

-----------------------------------------------------------------------------
\* Time passes, a line is sent or answered: what is answered stays as it is.
LEMMA RowsStay ==
  ASSUME IInv, Shape', \A m \in Messages : intake[m].status = "answered" => intake'[m] = intake[m],
         UNCHANGED <<enrichment, missives, claimed, pass>>
  PROVE  IInv'
<1>1. Locking' /\ Compared' /\ ComparedWithAll'
  BY DEF IInv, Locking, Compared, ComparedWithAll
<1>2. Bursting'
  <2> SUFFICES ASSUME NEW w \in Sweeps
               PROVE  /\ pass[w].pc # "idle" => /\ pass[w].symbiot \in Symbiots
                                                /\ IsBurst(pass[w].burst, pass[w].symbiot)'
                      /\ pass[w].pc = "record" => pass[w].verdict # "none"
    BY DEF Bursting
  <2>1. /\ pass[w].pc # "idle" => /\ pass[w].symbiot \in Symbiots
                                  /\ IsBurst(pass[w].burst, pass[w].symbiot)
        /\ pass[w].pc = "record" => pass[w].verdict # "none"
    BY DEF IInv, Bursting
  <2>2. PICK burst \in SUBSET Messages, z \in Symbiots \cup {None} :
               burst = pass[w].burst /\ z = pass[w].symbiot
    BY DEF IInv, Shape, Pass
  <2>3. pass[w].pc # "idle" => IsBurst(burst, z)'
    BY <2>1, <2>2, BurstStays DEF IInv
  <2>4. burst = pass'[w].burst /\ z = pass'[w].symbiot
    BY <2>2
  <2> QED BY <2>1, <2>3, <2>4 DEF IsBurst
<1>3. ASSUME NEW k \in DOMAIN missives
      PROVE  /\ IsBurst(missives[k].burst, missives[k].symbiot)'
             /\ Anchor(missives[k].burst)' = Anchor(missives[k].burst)
  <2>1. missives[k] \in Missive /\ IsBurst(missives[k].burst, missives[k].symbiot)
    BY DEF IInv, Shape, Prompted
  <2>2. PICK burst \in SUBSET Messages, z \in Symbiots \cup {None} :
               burst = missives[k].burst /\ z = missives[k].symbiot
    BY <2>1 DEF Missive
  <2>3. IsBurst(burst, z)' /\ Anchor(burst)' = Anchor(burst)
    BY <2>1, <2>2, BurstStays DEF IInv
  <2>4. burst = missives'[k].burst /\ z = missives'[k].symbiot
    BY <2>2
  <2>5. IsBurst(missives[k].burst, missives[k].symbiot)'
    BY <2>3, <2>4 DEF IsBurst
  <2>6. Anchor(missives[k].burst)' = Anchor(burst)'
    BY <2>4 DEF Anchor
  <2> QED BY <2>2, <2>3, <2>5, <2>6
<1>4. Prompted'
  BY <1>3 DEF Prompted
<1>5. AnchoredOnce'
  BY <1>3 DEF IInv, AnchoredOnce
<1> QED BY <1>1, <1>2, <1>4, <1>5 DEF IInv

\* The clock ticks.
LEMMA TickIInv == IInv /\ Tick => IInv'
<1> SUFFICES ASSUME IInv, Tick PROVE IInv'
  OBVIOUS
<1>1. clock' \in 0 .. Horizon
  BY Constants DEF IInv, Shape, Tick
<1>2. UNCHANGED <<intake, enrichment, missives, claimed, pass, failures>>
  BY DEF Tick
<1>3. Shape'
  BY <1>1, <1>2 DEF IInv, Shape
<1> QED BY <1>2, <1>3, RowsStay

\* A line is sent.
LEMMA SendIInv == ASSUME NEW s \in Symbiots PROVE IInv /\ Send(s) => IInv'
<1> SUFFICES ASSUME IInv, Send(s) PROVE IInv'
  OBVIOUS
<1>1. PICK m \in Messages :
        /\ intake[m].status = "absent"
        /\ intake' = [intake EXCEPT ![m] =
             [symbiot |-> s, created_at |-> clock, status |-> "waiting"]]
  BY DEF Send
<1>2. UNCHANGED <<clock, enrichment, missives, claimed, pass, failures>>
  BY DEF Send
<1>3. intake' \in [Messages -> Message]
  BY <1>1 DEF IInv, Shape, Message
<1>4. Shape'
  BY <1>2, <1>3 DEF IInv, Shape
<1>5. \A n \in Messages : intake[n].status = "answered" => intake'[n] = intake[n]
  BY <1>1 DEF IInv, Shape
<1> QED BY <1>2, <1>4, <1>5, RowsStay

\* A line is answered.
LEMMA AnswerIInv == ASSUME NEW m \in Messages PROVE IInv /\ Answer(m) => IInv'
<1> SUFFICES ASSUME IInv, Answer(m) PROVE IInv'
  OBVIOUS
<1>1. UNCHANGED <<clock, enrichment, missives, claimed, pass, failures>>
  BY DEF Answer
<1>2. intake' \in [Messages -> Message]
  BY DEF IInv, Shape, Message, Answer
<1>3. Shape'
  BY <1>1, <1>2 DEF IInv, Shape
<1>4. \A n \in Messages : intake[n].status = "answered" => intake'[n] = intake[n]
  BY DEF IInv, Shape, Answer
<1> QED BY <1>1, <1>3, <1>4, RowsStay

-----------------------------------------------------------------------------
\* A pass moves on, while what was sent and considered stays.
LEMMA PassMoves ==
  ASSUME IInv, NEW w \in Sweeps, NEW d \in Pass,
         d.pc # "idle" => d.symbiot \in Symbiots /\ IsBurst(d.burst, d.symbiot),
         d.pc = "record" =>
           /\ d.verdict # "none"
           /\ d.verdict = "surfaced" /\ ~d.unmeasured
                => \A j \in DOMAIN missives :
                     missives[j].symbiot = d.symbiot => j \in d.compared,
         pass' = [pass EXCEPT ![w] = d],
         claimed' \in [Symbiots -> Sweeps \cup {None}], Locking',
         failures' \in 0 .. MaxFailures,
         UNCHANGED <<clock, intake, enrichment, missives>>
  PROVE  IInv'
<1>1. Shape'
  BY DEF IInv, Shape
<1>2. \A v \in Sweeps : pass'[v] = IF v = w THEN d ELSE pass[v]
  BY DEF IInv, Shape
<1>3. Bursting'
  <2> SUFFICES ASSUME NEW v \in Sweeps
               PROVE  /\ pass'[v].pc # "idle" => /\ pass'[v].symbiot \in Symbiots
                                                 /\ IsBurst(pass'[v].burst, pass'[v].symbiot)
                      /\ pass'[v].pc = "record" => pass'[v].verdict # "none"
    BY DEF Bursting, IsBurst, After
  <2>1. CASE v = w
    BY <1>2, <2>1
  <2>2. CASE v # w
    BY <1>2, <2>2 DEF IInv, Bursting
  <2> QED BY <2>1, <2>2
<1>4. Compared'
  BY <1>2 DEF IInv, Compared
<1>5. Prompted' /\ AnchoredOnce' /\ ComparedWithAll'
  BY DEF IInv, Prompted, IsBurst, After, AnchoredOnce, Anchor, ComparedWithAll
<1> QED BY <1>1, <1>3, <1>4, <1>5 DEF IInv

\* A settled burst is picked.
LEMMA PickIInv == ASSUME NEW w \in Sweeps PROVE IInv /\ next_burst_to_enrich(w) => IInv'
<1> SUFFICES ASSUME IInv, next_burst_to_enrich(w) PROVE IInv'
  OBVIOUS
<1>1. PICK m \in Settled :
        pass' = [pass EXCEPT ![w] =
          [Idle EXCEPT !.pc = "claim", !.symbiot = intake[m].symbiot, !.burst = BurstOf(m)]]
  BY DEF next_burst_to_enrich
<1>2. pass[w].pc = "idle" /\ UNCHANGED <<clock, intake, enrichment, missives, claimed, failures>>
  BY DEF next_burst_to_enrich
<1>3. PICK s \in Symbiots : m \in eligible(s)
  BY DEF Settled
<1>4. m \in Messages /\ intake[m].symbiot = s
  BY <1>3 DEF eligible
<1>5. m \in BurstOf(m) /\ \A n \in BurstOf(m) : ~After(n, m)
  <2>1. ~After(m, m)
    <3>1. intake[m].created_at \in Nat /\ m \in Nat
      BY <1>4, Constants DEF IInv, Shape, Message, Messages
    <3> QED BY <3>1 DEF After
  <2> QED BY <1>3, <1>4, <2>1 DEF BurstOf
<1>6. PICK burst \in SUBSET Messages : burst = BurstOf(m)
  BY DEF BurstOf, eligible
<1>7. IsBurst(burst, s)
  BY <1>4, <1>5, <1>6 DEF IsBurst, BurstOf, eligible
<1>8. PICK d : d = [Idle EXCEPT !.pc = "claim", !.symbiot = s, !.burst = burst]
  OBVIOUS
<1>9. d \in Pass /\ d.pc = "claim" /\ d.symbiot = s /\ d.burst = burst
  BY <1>8 DEF Idle, Pass, Verdicts
<1>10. pass' = [pass EXCEPT ![w] = d]
  BY <1>1, <1>4, <1>6, <1>8
<1>11. Locking'
  BY <1>2, <1>9, <1>10 DEF IInv, Shape, Locking
<1>12. claimed' \in [Symbiots -> Sweeps \cup {None}] /\ failures' \in 0 .. MaxFailures
  BY <1>2 DEF IInv, Shape
<1> QED BY <1>2, <1>7, <1>9, <1>10, <1>11, <1>12, PassMoves

\* The lock of the burst's symbiot is taken, or the pass is over.
LEMMA ClaimIInv == ASSUME NEW w \in Sweeps PROVE IInv /\ claim(w) => IInv'
<1> SUFFICES ASSUME IInv, claim(w) PROVE IInv'
  OBVIOUS
<1>1. PICK t \in Pass : t = pass[w]
  BY DEF IInv, Shape
<1>2. t.pc = "claim" /\ UNCHANGED <<clock, intake, enrichment, missives, failures>>
  BY <1>1 DEF claim
<1>3. PICK s \in Symbiots : s = t.symbiot
  BY <1>1, <1>2 DEF IInv, Bursting
<1>4. IsBurst(t.burst, s)
  BY <1>1, <1>2, <1>3 DEF IInv, Bursting
<1>5. \A z \in Symbiots : claimed[z] # w
  BY <1>1, <1>2 DEF IInv, Locking
<1>6. failures' \in 0 .. MaxFailures
  BY <1>2 DEF IInv, Shape
<1>7. CASE claimed[s] = None
  <2>1. claimed' = [claimed EXCEPT ![s] = w] /\ pass' = [pass EXCEPT ![w].pc = "compose"]
    BY <1>1, <1>3, <1>7 DEF claim
  <2>2. PICK d : d = [t EXCEPT !.pc = "compose"]
    OBVIOUS
  <2>3. d \in Pass /\ d.pc = "compose" /\ d.symbiot = s /\ d.burst = t.burst
    BY <1>3, <2>2 DEF Pass
  <2>4. pass' = [pass EXCEPT ![w] = d]
    BY <1>1, <2>1, <2>2
  <2>5. claimed' \in [Symbiots -> Sweeps \cup {None}]
    BY <2>1 DEF IInv, Shape
  <2>6. Locking'
    <3> SUFFICES ASSUME NEW v \in Sweeps, NEW z \in Symbiots
                 PROVE  claimed'[z] = v <=> /\ pass'[v].symbiot = z
                                            /\ pass'[v].pc \in {"compose", "record"}
      BY DEF Locking
    <3>1. claimed[z] = v <=> /\ pass[v].symbiot = z
                             /\ pass[v].pc \in {"compose", "record"}
      BY DEF IInv, Locking
    <3>2. CASE v = w
      BY <3>2, <1>5, <2>1, <2>3, <2>4 DEF IInv, Shape
    <3>3. CASE v # w
      BY <3>1, <3>3, <1>7, <2>1, <2>4, Constants DEF IInv, Shape
    <3> QED BY <3>2, <3>3
  <2> QED BY <1>2, <1>4, <1>6, <2>3, <2>4, <2>5, <2>6, PassMoves
<1>8. CASE claimed[s] # None
  <2>1. pass' = [pass EXCEPT ![w] = Idle] /\ UNCHANGED claimed
    BY <1>1, <1>3, <1>8 DEF claim
  <2>2. PICK d \in Pass : d = Idle
    BY IdleType
  <2>3. d.pc = "idle" /\ pass' = [pass EXCEPT ![w] = d]
    BY <2>1, <2>2, IdleType
  <2>4. Locking'
    BY <1>5, <2>1, <2>3 DEF IInv, Shape, Locking
  <2>5. claimed' \in [Symbiots -> Sweeps \cup {None}]
    BY <2>1 DEF IInv, Shape
  <2> QED BY <1>2, <1>6, <2>3, <2>4, <2>5, PassMoves
<1> QED BY <1>7, <1>8

\* A pass that has composed holds its lock still.
LEMMA ComposedIInv ==
  ASSUME IInv, NEW w \in Sweeps, pass[w].pc = "compose", NEW d \in Pass,
         d.pc = "record", d.symbiot = pass[w].symbiot, d.burst = pass[w].burst,
         d.verdict # "none",
         d.verdict = "surfaced" /\ ~d.unmeasured
           => d.compared = prior_deep_replies(pass[w].symbiot),
         pass' = [pass EXCEPT ![w] = d],
         UNCHANGED <<clock, intake, enrichment, missives, claimed, failures>>
  PROVE  IInv'
<1>1. d.symbiot \in Symbiots /\ IsBurst(d.burst, d.symbiot)
  BY DEF IInv, Bursting
<1>2. d.verdict = "surfaced" /\ ~d.unmeasured
        => \A j \in DOMAIN missives : missives[j].symbiot = d.symbiot => j \in d.compared
  BY DEF prior_deep_replies
<1>3. Locking'
  BY DEF IInv, Shape, Locking
<1>4. claimed' \in [Symbiots -> Sweeps \cup {None}] /\ failures' \in 0 .. MaxFailures
  BY DEF IInv, Shape
<1> QED BY <1>1, <1>2, <1>3, <1>4, PassMoves

\* A pass composes and compares, or finds nothing worth saying.
LEMMA ComposeIInv == ASSUME NEW w \in Sweeps PROVE IInv /\ compose(w) => IInv'
<1> SUFFICES ASSUME IInv, compose(w) PROVE IInv'
  OBVIOUS
<1>1. PICK t \in Pass : t = pass[w]
  BY DEF IInv, Shape
<1>2. pass[w].pc = "compose" /\ UNCHANGED <<clock, intake, enrichment, missives, claimed, failures>>
  BY DEF compose
<1>3. PICK priors \in SUBSET Nat : priors = prior_deep_replies(t.symbiot)
  <2>1. DOMAIN missives \subseteq Nat
    BY DEF IInv, Shape
  <2> QED BY <2>1 DEF prior_deep_replies
<1>4. CASE pass' = [pass EXCEPT ![w].pc = "record", ![w].verdict = "silent"]
  <2>1. PICK d : d = [t EXCEPT !.pc = "record", !.verdict = "silent"]
    OBVIOUS
  <2>2. /\ d \in Pass /\ d.pc = "record" /\ d.symbiot = t.symbiot /\ d.burst = t.burst
        /\ d.verdict = "silent"
    BY <2>1 DEF Pass, Verdicts
  <2>3. pass' = [pass EXCEPT ![w] = d]
    BY <1>1, <1>4, <2>1 DEF IInv, Shape
  <2> QED BY <1>1, <1>2, <2>2, <2>3, ComposedIInv
<1>5. ASSUME NEW v \in {"surfaced", "echo"},
             pass' = [pass EXCEPT ![w].pc = "record", ![w].verdict = v,
                                  ![w].compared = priors, ![w].unmeasured = FALSE]
      PROVE  IInv'
  <2>1. PICK d : d = [t EXCEPT !.pc = "record", !.verdict = v, !.compared = priors,
                               !.unmeasured = FALSE]
    OBVIOUS
  <2>2. /\ d \in Pass /\ d.pc = "record" /\ d.symbiot = t.symbiot /\ d.burst = t.burst
        /\ d.verdict = v /\ d.compared = priors
    BY <2>1 DEF Pass, Verdicts
  <2>3. pass' = [pass EXCEPT ![w] = d]
    BY <1>1, <1>5, <2>1 DEF IInv, Shape
  <2> QED BY <1>1, <1>2, <1>3, <2>2, <2>3, ComposedIInv
<1>6. CASE pass' = [pass EXCEPT ![w].pc = "record", ![w].verdict = "surfaced",
                                ![w].compared = {}, ![w].unmeasured = TRUE]
  <2>1. PICK d : d = [t EXCEPT !.pc = "record", !.verdict = "surfaced", !.compared = {},
                               !.unmeasured = TRUE]
    OBVIOUS
  <2>2. /\ d \in Pass /\ d.pc = "record" /\ d.symbiot = t.symbiot /\ d.burst = t.burst
        /\ d.verdict = "surfaced"
    BY <2>1 DEF Pass, Verdicts
  <2>3. d.unmeasured
    BY <2>1 DEF Pass
  <2>4. pass' = [pass EXCEPT ![w] = d]
    BY <1>1, <1>6, <2>1 DEF IInv, Shape
  <2> QED BY <1>1, <1>2, <2>2, <2>3, <2>4, ComposedIInv
<1> QED BY <1>1, <1>3, <1>4, <1>5, <1>6 DEF compose, is_echo_of_prior

\* The lock of a pass that ends goes with it.
LEMMA LockGoes ==
  ASSUME IInv, NEW w \in Sweeps, claimed' = Released(w), pass' = [pass EXCEPT ![w] = Idle]
  PROVE  claimed' \in [Symbiots -> Sweeps \cup {None}] /\ Locking'
<1>1. claimed' \in [Symbiots -> Sweeps \cup {None}]
  BY DEF IInv, Shape, Released
<1>2. Locking'
  <2> SUFFICES ASSUME NEW v \in Sweeps, NEW z \in Symbiots
               PROVE  claimed'[z] = v <=> /\ pass'[v].symbiot = z
                                          /\ pass'[v].pc \in {"compose", "record"}
    BY DEF Locking
  <2>1. claimed[z] = v <=> /\ pass[v].symbiot = z
                           /\ pass[v].pc \in {"compose", "record"}
    BY DEF IInv, Locking
  <2>2. CASE v = w
    BY <2>2, IdleType, Constants DEF IInv, Shape, Released
  <2>3. CASE v # w
    BY <2>1, <2>3, Constants DEF IInv, Shape, Released
  <2> QED BY <2>2, <2>3
<1> QED BY <1>1, <1>2

\* A pass fails, and all of it is rolled back.
LEMMA FailsIInv == ASSUME NEW w \in Sweeps PROVE IInv /\ PassFails(w) => IInv'
<1> SUFFICES ASSUME IInv, PassFails(w) PROVE IInv'
  OBVIOUS
<1>1. /\ claimed' = Released(w) /\ pass' = [pass EXCEPT ![w] = Idle]
      /\ UNCHANGED <<clock, intake, enrichment, missives>>
  BY DEF PassFails
<1>2. failures' \in 0 .. MaxFailures
  BY Constants DEF IInv, Shape, PassFails
<1>3. claimed' \in [Symbiots -> Sweeps \cup {None}] /\ Locking'
  BY <1>1, LockGoes
<1>4. PICK d \in Pass : d = Idle
  BY IdleType
<1>5. d.pc = "idle" /\ pass' = [pass EXCEPT ![w] = d]
  BY <1>1, <1>4, IdleType
<1> QED BY <1>1, <1>2, <1>3, <1>5, PassMoves

-----------------------------------------------------------------------------
\* A burst that was considered since it was picked leaves nothing behind.
LEMMA ConflictIInv ==
  ASSUME NEW w \in Sweeps, Conflict(pass[w].burst, w) PROVE IInv /\ Record(w) => IInv'
<1> SUFFICES ASSUME IInv, Record(w) PROVE IInv'
  OBVIOUS
<1>1. /\ claimed' = Released(w) /\ pass' = [pass EXCEPT ![w] = Idle]
      /\ UNCHANGED <<clock, intake, enrichment, missives, failures>>
  BY DEF Record
<1>2. failures' \in 0 .. MaxFailures
  BY <1>1 DEF IInv, Shape
<1>3. claimed' \in [Symbiots -> Sweeps \cup {None}] /\ Locking'
  BY <1>1, LockGoes
<1>4. PICK d \in Pass : d = Idle
  BY IdleType
<1>5. d.pc = "idle" /\ pass' = [pass EXCEPT ![w] = d]
  BY <1>1, <1>4, IdleType
<1> QED BY <1>1, <1>2, <1>3, <1>5, PassMoves

\* A burst whose members are on no record yet: what its verdict makes of the table
\* and of the follow-ups.
LEMMA RecordIInv ==
  ASSUME NEW w \in Sweeps, ~Conflict(pass[w].burst, w) PROVE IInv /\ Record(w) => IInv'
<1> SUFFICES ASSUME IInv, Record(w) PROVE IInv'
  OBVIOUS
<1>1. PICK p \in Pass : p = pass[w]
  BY DEF IInv, Shape
<1>2. PICK burst \in SUBSET Messages : burst = p.burst
  BY DEF Pass
<1>3. PICK s \in Symbiots : s = p.symbiot
  BY <1>1 DEF IInv, Bursting, Record
<1>4. /\ p.pc = "record" /\ p.verdict # "none" /\ IsBurst(burst, s)
  BY <1>1, <1>2, <1>3 DEF IInv, Bursting, Record
<1>5. PICK x \in burst : \A n \in burst : ~After(n, x)
  BY <1>4 DEF IsBurst
<1>6. Anchor(burst) = x
  BY <1>5, AnchorIsLast DEF IInv
<1>7. \A m \in burst : enrichment[m] = "none"
  BY <1>1, <1>2 DEF Conflict
<1>8. enrichment' = [m \in Messages |-> IF m \notin burst THEN enrichment[m]
                                        ELSE IF m = x THEN p.verdict ELSE "silent"]
  BY <1>1, <1>2, <1>6 DEF Record, record_burst
<1>9. /\ claimed' = Released(w) /\ pass' = [pass EXCEPT ![w] = Idle]
      /\ UNCHANGED <<clock, intake, failures>>
  BY DEF Record
<1>10. enrichment' \in [Messages -> Verdicts]
  BY <1>8 DEF IInv, Shape, Pass, Verdicts
<1>11. claimed' \in [Symbiots -> Sweeps \cup {None}] /\ Locking'
  BY <1>9, LockGoes
<1>12. \A v \in Sweeps : pass'[v] = IF v = w THEN Idle ELSE pass[v]
  BY <1>9 DEF IInv, Shape
<1>13. pass' \in [Sweeps -> Pass]
  BY <1>9, IdleType DEF IInv, Shape
<1>14. Bursting'
  <2> SUFFICES ASSUME NEW v \in Sweeps
               PROVE  /\ pass'[v].pc # "idle" => /\ pass'[v].symbiot \in Symbiots
                                                 /\ IsBurst(pass'[v].burst, pass'[v].symbiot)
                      /\ pass'[v].pc = "record" => pass'[v].verdict # "none"
    BY <1>9 DEF Bursting, IsBurst, After
  <2>1. CASE v = w
    BY <1>12, <2>1, IdleType
  <2>2. CASE v # w
    BY <1>12, <2>2 DEF IInv, Bursting
  <2> QED BY <2>1, <2>2
<1>15. \A k \in DOMAIN missives :
         /\ missives[k] \in Missive
         /\ missives[k].burst \cap burst = {}
         /\ \A m \in missives[k].burst : m \in Messages /\ enrichment'[m] = enrichment[m]
         /\ Anchor(missives[k].burst) \in missives[k].burst
  <2> SUFFICES ASSUME NEW k \in DOMAIN missives
               PROVE  /\ missives[k] \in Missive
                      /\ missives[k].burst \cap burst = {}
                      /\ \A m \in missives[k].burst :
                           m \in Messages /\ enrichment'[m] = enrichment[m]
                      /\ Anchor(missives[k].burst) \in missives[k].burst
    OBVIOUS
  <2>1. missives[k] \in Missive
    BY DEF IInv, Shape
  <2>2. PICK other \in SUBSET Messages : other = missives[k].burst
    BY <2>1 DEF Missive
  <2>3. PICK y \in other : \A n \in other : ~After(n, y)
    BY <2>2 DEF IInv, Prompted, IsBurst
  <2>4. Anchor(other) = y
    BY <2>3, AnchorIsLast DEF IInv
  <2>5. \A m \in other : enrichment[m] \in {"surfaced", "silent"}
    BY <2>2, <2>3, <2>4 DEF IInv, AnchoredOnce
  <2>6. other \cap burst = {}
    BY <1>7, <2>5
  <2> QED BY <1>8, <2>1, <2>2, <2>4, <2>6
<1>16. \A m \in burst \ {x} : enrichment'[m] = "silent"
  BY <1>8
<1>17. enrichment'[x] = p.verdict
  BY <1>8
<1>18. CASE p.verdict # "surfaced"
  <2>1. UNCHANGED missives
    BY <1>1, <1>18 DEF Record
  <2>2. Shape'
    BY <1>9, <1>10, <1>11, <1>13, <2>1 DEF IInv, Shape
  <2>3. Compared' /\ ComparedWithAll'
    BY <1>12, <2>1, IdleType DEF IInv, Compared, ComparedWithAll
  <2>4. Prompted'
    BY <1>9, <2>1 DEF IInv, Prompted, IsBurst, After
  <2>5. ASSUME NEW m \in Messages, enrichment'[m] = "surfaced"
        PROVE  \E k \in DOMAIN missives : m = Anchor(missives[k].burst)
    <3>1. enrichment[m] = "surfaced"
      BY <1>8, <1>18, <2>5
    <3> QED BY <3>1 DEF IInv, AnchoredOnce
  <2>6. AnchoredOnce'
    BY <1>9, <1>15, <2>1, <2>5 DEF IInv, AnchoredOnce, Anchor, After
  <2> QED BY <1>11, <1>14, <2>2, <2>3, <2>4, <2>6 DEF IInv
<1>19. CASE p.verdict = "surfaced"
  <2> DEFINE new == [symbiot |-> s, burst |-> burst, compared |-> p.compared,
                     unmeasured |-> p.unmeasured]
  <2>1. missives' = Append(missives, new)
    BY <1>1, <1>2, <1>3, <1>19 DEF Record
  <2>2. PICK r \in Missive : r = new
    BY DEF Missive, Pass
  <2>3. r.symbiot = s /\ r.burst = burst /\ r.compared = p.compared
    BY <2>2
  <2>4. r.unmeasured <=> p.unmeasured
    BY <2>2
  <2>5. PICK last \in Nat : last = Len(missives) + 1
    BY DEF IInv, Shape
  <2>6. /\ missives' \in Seq(Missive)
        /\ DOMAIN missives' = DOMAIN missives \cup {last}
        /\ last \notin DOMAIN missives
        /\ \A k \in DOMAIN missives : missives'[k] = missives[k] /\ k < last
        /\ missives'[last] = r
    BY <2>1, <2>2, <2>5 DEF IInv, Shape
  <2> HIDE DEF new
  <2>7. Shape'
    BY <1>9, <1>10, <1>11, <1>13, <2>6 DEF IInv, Shape
  <2>8. Compared'
    <3> SUFFICES ASSUME NEW v \in Sweeps, pass'[v].pc = "record",
                        pass'[v].verdict = "surfaced", ~pass'[v].unmeasured,
                        NEW j \in DOMAIN missives', missives'[j].symbiot = pass'[v].symbiot
                 PROVE  j \in pass'[v].compared
      BY DEF Compared
    <3>1. v # w /\ pass'[v] = pass[v]
      BY <1>12, IdleType
    <3>2. CASE j = last
      <4>1. pass[v].symbiot = s
        BY <2>3, <2>6, <3>1, <3>2
      <4>2. claimed[s] = v /\ claimed[s] = w
        BY <1>1, <1>3, <1>4, <3>1, <4>1 DEF IInv, Locking
      <4> QED BY <3>1, <4>2
    <3>3. CASE j # last
      BY <2>6, <3>1, <3>3 DEF IInv, Compared
    <3> QED BY <3>2, <3>3
  <2>9. Prompted'
    <3> SUFFICES ASSUME NEW k \in DOMAIN missives'
                 PROVE  IsBurst(missives'[k].burst, missives'[k].symbiot)
      BY <1>9 DEF Prompted, IsBurst, After
    <3>1. CASE k = last
      BY <1>4, <2>3, <2>6, <3>1
    <3>2. CASE k # last
      BY <2>6, <3>2 DEF IInv, Prompted
    <3> QED BY <3>1, <3>2
  <2>10. ComparedWithAll'
    <3> SUFFICES ASSUME NEW j \in DOMAIN missives', NEW k \in DOMAIN missives', j < k,
                        missives'[j].symbiot = missives'[k].symbiot, ~missives'[k].unmeasured
                 PROVE  j \in missives'[k].compared
      BY DEF ComparedWithAll
    <3>1. last \in Nat /\ j \in Nat /\ k \in Nat
      BY <2>6 DEF IInv, Shape
    <3>2. CASE k = last
      <4>1. j \in DOMAIN missives /\ missives[j].symbiot = s /\ ~p.unmeasured
        BY <2>3, <2>4, <2>6, <3>1, <3>2
      <4>2. j \in p.compared
        BY <1>1, <1>3, <1>4, <1>19, <4>1 DEF IInv, Compared
      <4> QED BY <2>3, <2>6, <3>2, <4>2
    <3>3. CASE k # last
      <4>1. k \in DOMAIN missives /\ j \in DOMAIN missives
        BY <2>6, <3>1, <3>3
      <4> QED BY <2>6, <4>1 DEF IInv, ComparedWithAll
    <3> QED BY <3>2, <3>3
  <2>11. ASSUME NEW k \in DOMAIN missives'
         PROVE  /\ enrichment'[Anchor(missives'[k].burst)] = "surfaced"
                /\ \A m \in missives'[k].burst \ {Anchor(missives'[k].burst)} :
                     enrichment'[m] = "silent"
    <3>1. CASE k = last
      BY <1>6, <1>16, <1>17, <1>19, <2>3, <2>6, <3>1
    <3>2. CASE k # last
      BY <1>15, <2>6, <3>2 DEF IInv, AnchoredOnce
    <3> QED BY <3>1, <3>2
  <2>12. \A j, k \in DOMAIN missives' :
           j # k => missives'[j].burst \cap missives'[k].burst = {}
    BY <1>15, <2>3, <2>6 DEF IInv, AnchoredOnce
  <2>13. ASSUME NEW m \in Messages, enrichment'[m] = "surfaced"
         PROVE  \E k \in DOMAIN missives' : m = Anchor(missives'[k].burst)
    <3>1. CASE m \in burst
      <4>1. m = x
        BY <1>16, <2>13, <3>1
      <4> QED BY <1>6, <2>3, <2>6, <4>1
    <3>2. CASE m \notin burst
      <4>1. enrichment[m] = "surfaced"
        BY <1>8, <2>13, <3>2
      <4>2. PICK k \in DOMAIN missives : m = Anchor(missives[k].burst)
        BY <4>1 DEF IInv, AnchoredOnce
      <4> QED BY <2>6, <4>2
    <3> QED BY <3>1, <3>2
  <2>14. AnchoredOnce'
    BY <1>9, <2>11, <2>12, <2>13 DEF AnchoredOnce, Anchor, After
  <2> QED BY <1>11, <1>14, <2>7, <2>8, <2>9, <2>10, <2>14 DEF IInv
<1> QED BY <1>18, <1>19

-----------------------------------------------------------------------------
\* The invariant is inductive.
LEMMA NextIInv == IInv /\ [Next]_vars => IInv'
<1> SUFFICES ASSUME IInv, [Next]_vars PROVE IInv'
  OBVIOUS
<1>1. ASSUME NEW w \in Sweeps, run_enrichment_sweep(w) PROVE IInv'
  BY <1>1, PickIInv, ClaimIInv, ComposeIInv, ConflictIInv, RecordIInv, FailsIInv
     DEF run_enrichment_sweep
<1>2. CASE UNCHANGED vars
  <2>1. UNCHANGED <<clock, intake, enrichment, missives, claimed, pass, failures>>
    BY <1>2 DEF vars
  <2>2. Shape'
    BY <2>1 DEF IInv, Shape
  <2> QED BY <2>1, <2>2, RowsStay
<1> QED BY <1>1, <1>2, TickIInv, SendIInv, AnswerIInv DEF Next

\* Enrichment!TypeOK: the types, and that the advisory lock of a symbiot is held by the
\* very pass that composes for it (enrichment.claim).
THEOREM TypeCorrect == Spec => []TypeOK
<1>1. IInv => TypeOK
  BY DEF IInv, Shape, Locking, TypeOK
<1> QED BY InitIInv, NextIInv, <1>1, PTL DEF Spec

\* Enrichment!AnchoredOnce: however stale the burst that a pass recorded, a follow-up
\* and the records of its burst are there together, and no message is in the bursts of
\* two (worker._enrich_one, enrichment.record_burst).
THEOREM ConsideredOnce == Spec => []AnchoredOnce
<1>1. IInv => AnchoredOnce
  BY DEF IInv
<1> QED BY InitIInv, NextIInv, <1>1, PTL DEF Spec

\* Enrichment!ComparedWithAll: with any number of sweeps, a follow-up was compared with
\* all sent to its symbiot before it (enrichment.claim, is_echo_of_prior).
THEOREM NoneSideBySide == Spec => []ComparedWithAll
<1>1. IInv => ComparedWithAll
  BY DEF IInv
<1> QED BY InitIInv, NextIInv, <1>1, PTL DEF Spec
=============================================================================
