---------------------------- MODULE NotifyProofs ----------------------------
(***************************************************************************)
(* Theorems about Notify, for any number of symbiots, devices, threads,    *)
(* missives and endpoints.                                                 *)
(*                                                                         *)
(* A subscription is pruned by what a thread learnt of it some sends ago.  *)
(* That is safe since an endpoint the push service has dropped never comes *)
(* back, and a row's id is never another endpoint's: what is held as dead  *)
(* stays dead, and a device that subscribes again has another row.         *)
(***************************************************************************)
EXTENDS Notify, TLAPS

-----------------------------------------------------------------------------
\* The variables have their types.
Shape ==
  /\ missive \in [Missives -> Missive]
  /\ channel \in [Endpoints -> Row]
  /\ alive \subseteq Endpoints
  /\ issued \in 0 .. MaxChannels
  /\ disabled \in [Symbiots -> SUBSET Channels]
  /\ present \subseteq Symbiots
  /\ browser \in [Browsers -> Browser]
  /\ thread \in [Threads -> FanOut]

\* Endpoints are made in the order their rows are, and never twice: the row of an
\* endpoint has its number, and one that is known has its row.
Numbered ==
  \A e \in Endpoints :
    /\ channel[e].id \in {0, e}
    /\ channel[e].id # 0 => e <= issued
    /\ e \in alive => channel[e].id = e

\* What a thread holds as dead was issued, and is dead.
DeadForGood ==
  \A w \in Threads : \A id \in thread[w].dead : id <= issued /\ id \notin alive

\* How far a fan-out has come with the push: not there yet, at it, through with it,
\* or told to hold it back.
OnCourse(t) ==
  /\ t.pc \in {"idle", "filter"} => t.owed = {} /\ t.tried = {} /\ ~t.held
  /\ t.pc = "send" /\ "web_push" \in t.todo => t.owed = {} /\ t.tried = {} /\ ~t.held
  /\ t.pc = "push" => /\ t.owed = t.targets \cup t.tried
                      /\ ~t.held /\ "web_push" \notin t.todo
  /\ t.pc = "send" /\ ~t.held => "web_push" \in t.todo \/ t.owed = t.tried
  /\ t.held => t.owed = {} /\ t.tried = {}

Course == \A w \in Threads : OnCourse(thread[w])

IInv == Shape /\ Numbered /\ DeadForGood /\ Course

-----------------------------------------------------------------------------
\* A fan-out at rest.
LEMMA IdleType == Idle \in FanOut /\ OnCourse(Idle) /\ Idle.dead = {} /\ Idle.pc = "idle"
BY DEF Idle, FanOut, OnCourse

\* Nothing is raised, known or under way at first.
LEMMA InitIInv == Init => IInv
<1> SUFFICES ASSUME Init PROVE IInv
  OBVIOUS
<1> USE DEF Init
<1>1. Shape
  <2>1. missive \in [Missives -> Missive]
    BY DEF Missive
  <2>2. channel \in [Endpoints -> Row] /\ alive \subseteq Endpoints
    BY DEF NoRow, Row
  <2>3. issued \in 0 .. MaxChannels
    BY BoundsAssumption
  <2>4. browser \in [Browsers -> Browser]
    BY DEF Browser
  <2>5. thread \in [Threads -> FanOut]
    BY IdleType
  <2> QED BY <2>1, <2>2, <2>3, <2>4, <2>5 DEF Shape
<1>2. Numbered
  BY DEF Numbered, NoRow
<1>3. DeadForGood
  BY IdleType DEF DeadForGood
<1>4. Course
  BY IdleType DEF Course
<1> QED BY <1>1, <1>2, <1>3, <1>4 DEF IInv

\* A fan-out that moves on, while rows and endpoints stay.
LEMMA ThreadMoves ==
  ASSUME IInv, NEW w \in Threads, NEW d \in FanOut, OnCourse(d),
         \A id \in d.dead : id <= issued /\ id \notin alive,
         thread' = [thread EXCEPT ![w] = d], UNCHANGED <<issued, alive>>
  PROVE  thread' \in [Threads -> FanOut] /\ DeadForGood' /\ Course'
<1>1. thread' \in [Threads -> FanOut]
  BY DEF IInv, Shape
<1>2. \A v \in Threads : thread'[v] = IF v = w THEN d ELSE thread[v]
  BY DEF IInv, Shape
<1>3. DeadForGood'
  BY <1>2 DEF IInv, DeadForGood
<1>4. Course'
  <2> SUFFICES ASSUME NEW v \in Threads PROVE OnCourse(thread'[v])
    BY DEF Course
  <2>1. OnCourse(thread[v])
    BY DEF IInv, Course
  <2> QED BY <1>2, <2>1
<1> QED BY <1>1, <1>3, <1>4

\* A thread that goes back to rest leaves nothing behind.
LEMMA BackToRest ==
  ASSUME IInv, NEW w \in Threads, thread' = [thread EXCEPT ![w] = Idle],
         UNCHANGED <<missive, channel, alive, issued, disabled, present, browser>>
  PROVE  IInv'
<1>1. PICK d \in FanOut : d = Idle
  BY IdleType
<1>2. OnCourse(d) /\ d.dead = {}
  BY <1>1, IdleType
<1>3. thread' = [thread EXCEPT ![w] = d]
  BY <1>1
<1>4. thread' \in [Threads -> FanOut] /\ DeadForGood' /\ Course'
  BY <1>2, <1>3, ThreadMoves
<1> QED BY <1>4 DEF IInv, Shape, Numbered

-----------------------------------------------------------------------------
\* Devices, time and preferences touch no fan-out.

\* A device signs in or out.
LEMMA SessionIInv == ASSUME NEW b \in Browsers PROVE IInv /\ Session(b) => IInv'
<1> SUFFICES ASSUME IInv, Session(b) PROVE IInv'
  OBVIOUS
<1>1. browser' \in [Browsers -> Browser]
  BY DEF IInv, Shape, Session, Browser
<1>2. UNCHANGED <<missive, channel, alive, issued, disabled, present, thread>>
  BY DEF Session
<1> QED BY <1>1, <1>2 DEF IInv, Shape, Numbered, DeadForGood, Course

\* A poll is a heartbeat, and shows what is unseen.
LEMMA InboxIInv == ASSUME NEW b \in Browsers PROVE IInv /\ inbox(b) => IInv'
<1> SUFFICES ASSUME IInv, inbox(b) PROVE IInv'
  OBVIOUS
<1>1. browser[b].symbiot \in Symbiots
  BY DEF IInv, Shape, Browser, inbox
<1>2. present' \subseteq Symbiots
  BY <1>1 DEF IInv, Shape, inbox
<1>3. PICK u \in SUBSET Missives : u = unseen_for_symbiot(browser[b].symbiot)
  BY DEF unseen_for_symbiot
<1>4. browser' = [browser EXCEPT ![b].screen = @ \cup u]
  BY <1>3 DEF inbox
<1>5. browser' \in [Browsers -> Browser]
  BY <1>4 DEF IInv, Shape, Browser
<1>6. UNCHANGED <<missive, channel, alive, issued, disabled, thread>>
  BY DEF inbox
<1> QED BY <1>2, <1>5, <1>6 DEF IInv, Shape, Numbered, DeadForGood, Course

\* A missive that is seen is a missive.
LEMMA SeenIsMissive == ASSUME NEW k \in Missive PROVE [k EXCEPT !.seen = TRUE] \in Missive
BY DEF Missive

\* An acknowledgement marks some missives seen.
LEMMA SeenIInv == ASSUME NEW b \in Browsers PROVE IInv /\ inbox_seen(b) => IInv'
<1> SUFFICES ASSUME IInv, inbox_seen(b) PROVE IInv'
  OBVIOUS
<1>1. UNCHANGED <<channel, alive, issued, disabled, present, browser, thread>>
  BY DEF inbox_seen
<1>2. PICK ids : missive' = mark_seen(browser[b].symbiot, ids)
  BY DEF inbox_seen
<1>3. ASSUME NEW k \in Missives PROVE missive'[k] \in Missive
  <2>1. missive[k] \in Missive
    BY DEF IInv, Shape
  <2>2. [missive[k] EXCEPT !.seen = TRUE] \in Missive
    BY <2>1, SeenIsMissive
  <2>3. missive'[k] \in {missive[k], [missive[k] EXCEPT !.seen = TRUE]}
    BY <1>2 DEF mark_seen
  <2> QED BY <2>1, <2>2, <2>3
<1>4. missive' \in [Missives -> Missive]
  BY <1>2, <1>3 DEF mark_seen
<1> QED BY <1>1, <1>4 DEF IInv, Shape, Numbered, DeadForGood, Course

\* A device subscribes, with the endpoint it has or with a new one.
LEMMA SubscribeIInv == ASSUME NEW b \in Browsers PROVE IInv /\ push_subscribe(b) => IInv'
<1> SUFFICES ASSUME IInv, push_subscribe(b) PROVE IInv'
  OBVIOUS
<1> DEFINE s == browser[b].symbiot
<1>1. PICK e \in Endpoints :
        /\ e \in alive \/ e = issued + 1
        /\ save_subscription(e, s)
        /\ browser' = [browser EXCEPT ![b].endpoint = e]
        /\ alive' = alive \cup {e}
  BY DEF push_subscribe, IInv, Shape
<1>2. s \in Symbiots \cup {None}
  BY DEF IInv, Shape, Browser
<1>3. UNCHANGED <<missive, disabled, present, thread>>
  BY DEF push_subscribe
<1>4. browser' \in [Browsers -> Browser]
  BY <1>1 DEF IInv, Shape, Browser
<1>5. alive' \subseteq Endpoints
  BY <1>1 DEF IInv, Shape
<1>6. issued \in Nat /\ MaxChannels \in Nat /\ issued <= MaxChannels /\ e \in Nat
  BY BoundsAssumption DEF IInv, Shape, Endpoints
<1>7. CASE channel[e].id = 0
  <2>1. e = issued + 1
    BY <1>1, <1>6, <1>7 DEF IInv, Numbered, Endpoints
  <2>2. issued' = e /\ channel' = [channel EXCEPT ![e] = [id |-> e, symbiot |-> s]]
    BY <1>1, <1>7, <2>1 DEF save_subscription
  <2>3. issued' \in 0 .. MaxChannels
    BY <2>2, <1>6 DEF Endpoints
  <2>4. channel' \in [Endpoints -> Row]
    BY <2>2, <1>2, <1>6 DEF IInv, Shape, Row, Ids, Endpoints
  <2>5. Numbered'
    BY <2>1, <2>2, <1>1, <1>6 DEF IInv, Shape, Numbered, Endpoints
  <2>6. DeadForGood'
    <3> SUFFICES ASSUME NEW w \in Threads, NEW id \in thread[w].dead
                 PROVE  id <= issued' /\ id \notin alive'
      BY <1>3 DEF DeadForGood
    <3>1. id \in Nat /\ id <= issued /\ id \notin alive
      BY DEF IInv, Shape, DeadForGood, FanOut, Ids
    <3> QED BY <3>1, <2>1, <2>2, <1>1, <1>6
  <2> QED BY <1>3, <1>4, <1>5, <2>3, <2>4, <2>5, <2>6 DEF IInv, Shape, Course
<1>8. CASE channel[e].id # 0
  <2>1. UNCHANGED issued /\ channel' = [channel EXCEPT ![e].symbiot = IF s # None THEN s ELSE @]
    BY <1>1, <1>8 DEF save_subscription
  <2>2. e <= issued
    BY <1>8 DEF IInv, Numbered
  <2>3. UNCHANGED alive
    BY <1>1, <1>6, <2>2 DEF IInv, Shape
  <2>4. channel' \in [Endpoints -> Row]
    BY <2>1, <1>2 DEF IInv, Shape, Row
  <2>5. \A f \in Endpoints : channel'[f].id = channel[f].id
    BY <2>1 DEF IInv, Shape, Row
  <2>6. Numbered'
    BY <2>1, <2>3, <2>5 DEF IInv, Numbered
  <2> QED BY <1>3, <1>4, <2>1, <2>3, <2>4, <2>6 DEF IInv, Shape, DeadForGood, Course
<1> QED BY <1>7, <1>8

\* What the push service, the clock and a symbiot's settings do.
LEMMA OutsideIInv ==
  ASSUME IInv,
         \/ \E e \in Endpoints : Expire(e)
         \/ \E s \in Symbiots : Lapse(s) \/ set_channel(s)
  PROVE  IInv'
<1>1. ASSUME NEW e \in Endpoints, Expire(e) PROVE IInv'
  <2>1. alive' = alive \ {e}
         /\ UNCHANGED <<missive, channel, issued, disabled, present, browser, thread>>
    BY <1>1 DEF Expire
  <2> QED BY <2>1 DEF IInv, Shape, Numbered, DeadForGood, Course
<1>2. ASSUME NEW s \in Symbiots, Lapse(s) PROVE IInv'
  <2>1. present' = present \ {s}
         /\ UNCHANGED <<missive, channel, alive, issued, disabled, browser, thread>>
    BY <1>2 DEF Lapse
  <2> QED BY <2>1 DEF IInv, Shape, Numbered, DeadForGood, Course
<1>3. ASSUME NEW s \in Symbiots, set_channel(s) PROVE IInv'
  <2>1. UNCHANGED <<missive, channel, alive, issued, present, browser, thread>>
    BY <1>3 DEF set_channel
  <2>2. disabled' \in [Symbiots -> SUBSET Channels]
    BY <1>3, SwitchedAssumption DEF IInv, Shape, set_channel, Channels
  <2> QED BY <2>1, <2>2 DEF IInv, Shape, Numbered, DeadForGood, Course
<1> QED BY <1>1, <1>2, <1>3

-----------------------------------------------------------------------------
\* The steps of a fan-out.

\* A missive commits and a thread sets out.
LEMMA DeliverIInv == ASSUME NEW w \in Threads PROVE IInv /\ deliver(w) => IInv'
<1> SUFFICES ASSUME IInv, deliver(w) PROVE IInv'
  OBVIOUS
<1>1. PICK k \in Missives, s \in Symbiots, asked \in SUBSET Channels, courtesy \in BOOLEAN :
        /\ asked # {} /\ (courtesy => asked = Channels)
        /\ missive[k].symbiot = None
        /\ \A j \in 1 .. k - 1 : missive[j].symbiot # None
        /\ missive' = [missive EXCEPT ![k].symbiot = s]
        /\ thread' = [thread EXCEPT ![w] =
             [Idle EXCEPT !.pc = "filter", !.symbiot = s, !.courtesy = courtesy,
                          !.todo = asked]]
  BY DEF deliver
<1>2. UNCHANGED <<channel, alive, issued, disabled, present, browser>>
  BY DEF deliver
<1>3. missive' \in [Missives -> Missive]
  BY <1>1 DEF IInv, Shape, Missive
<1>4. PICK d : d = [Idle EXCEPT !.pc = "filter", !.symbiot = s, !.courtesy = courtesy,
                                !.todo = asked]
  OBVIOUS
<1>5. d \in FanOut
  BY <1>4 DEF Idle, FanOut
<1>6. OnCourse(d) /\ d.dead = {}
  BY <1>4 DEF Idle, OnCourse
<1>7. thread' \in [Threads -> FanOut] /\ DeadForGood' /\ Course'
  BY <1>1, <1>2, <1>4, <1>5, <1>6, ThreadMoves
<1> QED BY <1>2, <1>3, <1>7 DEF IInv, Shape, Numbered

\* A message that named a channel has settled.
LEMMA NotifyIInv == ASSUME NEW w \in Threads PROVE IInv /\ notify(w) => IInv'
<1> SUFFICES ASSUME IInv, notify(w) PROVE IInv'
  OBVIOUS
<1>1. PICK e \in Endpoints :
        /\ channel[e].id # 0
        /\ thread' = [thread EXCEPT ![w] =
             [Idle EXCEPT !.pc = "push", !.targets = {channel[e].id},
                          !.owed = {channel[e].id}]]
  BY DEF notify
<1>2. UNCHANGED <<missive, channel, alive, issued, disabled, present, browser>>
  BY DEF notify
<1>3. PICK id \in Ids : id = channel[e].id
  BY <1>1 DEF IInv, Shape, Row
<1>4. PICK d : d = [Idle EXCEPT !.pc = "push", !.targets = {id}, !.owed = {id}]
  OBVIOUS
<1>5. d \in FanOut
  BY <1>4 DEF Idle, FanOut
<1>6. OnCourse(d) /\ d.dead = {}
  BY <1>4 DEF Idle, OnCourse
<1>7. thread' \in [Threads -> FanOut] /\ DeadForGood' /\ Course'
  BY <1>1, <1>2, <1>3, <1>4, <1>5, <1>6, ThreadMoves
<1> QED BY <1>2, <1>7 DEF IInv, Shape, Numbered

\* A thread alone moves on.
LEMMA OnlyThread ==
  ASSUME IInv, NEW w \in Threads, NEW d \in FanOut, OnCourse(d),
         \A id \in d.dead : id <= issued /\ id \notin alive,
         thread' = [thread EXCEPT ![w] = d],
         UNCHANGED <<missive, channel, alive, issued, disabled, present, browser>>
  PROVE  IInv'
<1>1. thread' \in [Threads -> FanOut] /\ DeadForGood' /\ Course'
  BY ThreadMoves
<1> QED BY <1>1 DEF IInv, Shape, Numbered

\* What is served is settled: preferences and presence are read.
LEMMA DispatchIInv == ASSUME NEW w \in Threads PROVE IInv /\ dispatch(w) => IInv'
<1> SUFFICES ASSUME IInv, dispatch(w) PROVE IInv'
  OBVIOUS
<1>1. PICK t \in FanOut : t = thread[w]
  BY DEF IInv, Shape
<1>2. PICK on \in SUBSET Channels :
        thread' = [thread EXCEPT ![w].pc = "send", ![w].todo = on,
                                 ![w].held = "web_push" \notin on]
  BY <1>1 DEF dispatch, FanOut
<1>3. t.pc = "filter" /\ UNCHANGED <<missive, channel, alive, issued, disabled, present, browser>>
  BY <1>1 DEF dispatch
<1>4. OnCourse(t) /\ \A id \in t.dead : id <= issued /\ id \notin alive
  BY <1>1 DEF IInv, Course, DeadForGood
<1>5. PICK h \in BOOLEAN : h <=> "web_push" \notin on
  OBVIOUS
<1>6. PICK d : d = [t EXCEPT !.pc = "send", !.todo = on, !.held = h]
  OBVIOUS
<1>7. d \in FanOut
  BY <1>6 DEF FanOut
<1>8. d.pc = "send" /\ d.todo = on /\ d.owed = t.owed /\ d.tried = t.tried /\ d.dead = t.dead
  BY <1>6 DEF FanOut
<1>9. d.held <=> "web_push" \notin on
  BY <1>5, <1>6 DEF FanOut
<1>10. OnCourse(d)
  BY <1>3, <1>4, <1>8, <1>9 DEF OnCourse
<1>11. h = ("web_push" \notin on)
  BY <1>5
<1>12. thread' = [thread EXCEPT ![w] = d]
  BY <1>1, <1>2, <1>6, <1>11 DEF IInv, Shape
<1> QED BY <1>3, <1>4, <1>7, <1>8, <1>10, <1>12, OnlyThread

\* The mail is sent, or not.
LEMMA EmailIInv == ASSUME NEW w \in Threads PROVE IInv /\ _send_email(w) => IInv'
<1> SUFFICES ASSUME IInv, _send_email(w) PROVE IInv'
  OBVIOUS
<1>1. PICK t \in FanOut : t = thread[w]
  BY DEF IInv, Shape
<1>2. t.pc = "send" /\ UNCHANGED <<missive, channel, alive, issued, disabled, present, browser>>
  BY <1>1 DEF _send_email
<1>3. OnCourse(t) /\ \A id \in t.dead : id <= issued /\ id \notin alive
  BY <1>1 DEF IInv, Course, DeadForGood
<1>4. PICK d : d = [t EXCEPT !.todo = t.todo \ {"email"}]
  OBVIOUS
<1>5. d \in FanOut
  BY <1>4 DEF FanOut
<1>6. /\ d.pc = "send" /\ d.todo = t.todo \ {"email"} /\ d.owed = t.owed
      /\ d.tried = t.tried /\ d.dead = t.dead
  BY <1>2, <1>4 DEF FanOut
<1>7. d.held <=> t.held
  BY <1>4 DEF FanOut
<1>8. OnCourse(d)
  BY <1>2, <1>3, <1>6, <1>7 DEF OnCourse
<1>9. thread' = [thread EXCEPT ![w] = d]
  BY <1>1, <1>4 DEF _send_email
<1> QED BY <1>2, <1>3, <1>5, <1>6, <1>8, <1>9, OnlyThread

\* The subscriptions are read: those owed are those still to send to.
LEMMA PushIInv == ASSUME NEW w \in Threads PROVE IInv /\ _send_web_push(w) => IInv'
<1> SUFFICES ASSUME IInv, _send_web_push(w) PROVE IInv'
  OBVIOUS
<1>1. PICK t \in FanOut : t = thread[w]
  BY DEF IInv, Shape
<1>2. /\ t.pc = "send" /\ "web_push" \in t.todo
      /\ UNCHANGED <<missive, channel, alive, issued, disabled, present, browser>>
  BY <1>1 DEF _send_web_push
<1>3. OnCourse(t) /\ \A id \in t.dead : id <= issued /\ id \notin alive
  BY <1>1 DEF IInv, Course, DeadForGood
<1>4. PICK subs \in SUBSET Ids : subs = Subscriptions(t.symbiot)
  <2>1. Subscriptions(t.symbiot) \subseteq Ids
    BY DEF IInv, Shape, Subscriptions, Row
  <2> QED BY <2>1
<1>5. PICK d : d = [t EXCEPT !.pc = "push", !.todo = t.todo \ {"web_push"},
                             !.targets = subs, !.owed = subs]
  OBVIOUS
<1>6. d \in FanOut
  BY <1>5 DEF FanOut
<1>7. /\ d.pc = "push" /\ d.todo = t.todo \ {"web_push"} /\ d.targets = subs
      /\ d.owed = subs /\ d.tried = t.tried /\ d.dead = t.dead
  BY <1>5 DEF FanOut
<1>8. d.held <=> t.held
  BY <1>5 DEF FanOut
<1>9. OnCourse(d)
  BY <1>2, <1>3, <1>7, <1>8 DEF OnCourse
<1>10. thread' = [thread EXCEPT ![w] = d]
  BY <1>1, <1>4, <1>5 DEF _send_web_push
<1> QED BY <1>2, <1>3, <1>6, <1>7, <1>9, <1>10, OnlyThread

\* One send: the row of an id is the endpoint's of that number, so one found gone is
\* not known any more, and was issued.
LEMMA SendIInv == ASSUME NEW w \in Threads PROVE IInv /\ _send(w) => IInv'
<1> SUFFICES ASSUME IInv, _send(w) PROVE IInv'
  OBVIOUS
<1>1. PICK t \in FanOut : t = thread[w]
  BY DEF IInv, Shape
<1>2. t.pc = "push" /\ UNCHANGED <<missive, channel, alive, issued, disabled, present, browser>>
  BY <1>1 DEF _send
<1>3. OnCourse(t) /\ \A id \in t.dead : id <= issued /\ id \notin alive
  BY <1>1 DEF IInv, Course, DeadForGood
<1>4. PICK id \in t.targets : \E gone \in Gone(id) : thread' = Tried(w, id, gone)
  BY <1>1 DEF _send
<1> PICK gone \in Gone(id) : thread' = Tried(w, id, gone)
  BY <1>4
<1>5. gone => id <= issued /\ id \notin alive
  <2> SUFFICES ASSUME gone PROVE id <= issued /\ id \notin alive
    OBVIOUS
  <2>1. \E e \in Endpoints : channel[e].id = id /\ e \notin alive
    BY DEF Gone
  <2>2. id # 0
    BY DEF FanOut, Ids
  <2> QED BY <2>1, <2>2 DEF IInv, Numbered
<1>6. PICK dead \in {t.dead, t.dead \cup {id}} :
        /\ dead = IF gone THEN t.dead \cup {id} ELSE t.dead
        /\ \A k \in dead : k <= issued /\ k \notin alive
  BY <1>3, <1>5
<1>7. PICK d : d = [t EXCEPT !.targets = t.targets \ {id}, !.tried = t.tried \cup {id},
                             !.dead = dead]
  OBVIOUS
<1>8. d \in FanOut
  BY <1>6, <1>7 DEF FanOut
<1>9. /\ d.pc = "push" /\ d.todo = t.todo /\ d.targets = t.targets \ {id}
      /\ d.owed = t.owed /\ d.tried = t.tried \cup {id} /\ d.dead = dead
  BY <1>2, <1>7 DEF FanOut
<1>10. d.held <=> t.held
  BY <1>7 DEF FanOut
<1>11. OnCourse(d)
  BY <1>2, <1>3, <1>4, <1>9, <1>10 DEF OnCourse
<1>12. thread' = [thread EXCEPT ![w] = d]
  BY <1>1, <1>4, <1>6, <1>7 DEF Tried
<1> QED BY <1>2, <1>6, <1>8, <1>9, <1>11, <1>12, OnlyThread

\* The rows of the dead go: none is that of an endpoint that is known.
LEMMA PruneIInv == ASSUME NEW w \in Threads PROVE IInv /\ prune_subscription(w) => IInv'
<1> SUFFICES ASSUME IInv, prune_subscription(w) PROVE IInv'
  OBVIOUS
<1>1. PICK t \in FanOut : t = thread[w]
  BY DEF IInv, Shape
<1>2. /\ t.pc = "push" /\ t.targets = {}
      /\ UNCHANGED <<missive, alive, issued, disabled, present, browser>>
  BY <1>1 DEF prune_subscription
<1>3. OnCourse(t) /\ \A id \in t.dead : id <= issued /\ id \notin alive
  BY <1>1 DEF IInv, Course, DeadForGood
<1>4. channel' = [e \in Endpoints |-> IF channel[e].id \in t.dead THEN NoRow ELSE channel[e]]
  BY <1>1 DEF prune_subscription
<1>5. NoRow \in Row /\ NoRow.id = 0
  BY DEF NoRow, Row
<1>6. channel' \in [Endpoints -> Row]
  BY <1>4, <1>5 DEF IInv, Shape
<1>7. Numbered'
  <2> SUFFICES ASSUME NEW e \in Endpoints
               PROVE  /\ channel'[e].id \in {0, e}
                      /\ channel'[e].id # 0 => e <= issued
                      /\ e \in alive => channel'[e].id = e
    BY <1>2 DEF Numbered
  <2>1. /\ channel[e].id \in {0, e}
        /\ channel[e].id # 0 => e <= issued
        /\ e \in alive => channel[e].id = e
    BY DEF IInv, Numbered
  <2>2. CASE channel[e].id \in t.dead
    BY <1>3, <1>4, <1>5, <2>1, <2>2
  <2>3. CASE channel[e].id \notin t.dead
    BY <1>4, <2>1, <2>3
  <2> QED BY <2>2, <2>3
<1>8. PICK d : d = [t EXCEPT !.pc = "send", !.dead = {}]
  OBVIOUS
<1>9. d \in FanOut
  BY <1>8 DEF FanOut
<1>10. /\ d.pc = "send" /\ d.todo = t.todo /\ d.owed = t.owed /\ d.tried = t.tried
       /\ d.dead = {}
  BY <1>8 DEF FanOut
<1>11. d.held <=> t.held
  BY <1>8 DEF FanOut
<1>12. OnCourse(d)
  BY <1>2, <1>3, <1>10, <1>11 DEF OnCourse
<1>13. thread' = [thread EXCEPT ![w] = d]
  BY <1>1, <1>8 DEF prune_subscription, IInv, Shape
<1>14. thread' \in [Threads -> FanOut] /\ DeadForGood' /\ Course'
  BY <1>2, <1>9, <1>10, <1>12, <1>13, ThreadMoves
<1> QED BY <1>2, <1>6, <1>7, <1>14 DEF IInv, Shape

\* The invariant is inductive.
LEMMA NextIInv == IInv /\ [Next]_vars => IInv'
<1> SUFFICES ASSUME IInv, [Next]_vars PROVE IInv'
  OBVIOUS
<1>1. ASSUME NEW b \in Browsers, Device(b) PROVE IInv'
  BY <1>1, SessionIInv, SubscribeIInv, InboxIInv, SeenIInv DEF Device
<1>2. ASSUME NEW w \in Threads, Reaching(w) PROVE IInv'
  <2>1. CASE Finish(w) \/ Stop(w)
    BY <2>1, BackToRest DEF Finish, Stop
  <2> QED
    BY <1>2, <2>1, DeliverIInv, NotifyIInv, DispatchIInv, EmailIInv, PushIInv,
       SendIInv, PruneIInv DEF Reaching
<1>3. CASE UNCHANGED vars
  BY <1>3 DEF vars, IInv, Shape, Numbered, DeadForGood, Course
<1> QED BY <1>1, <1>2, <1>3, OutsideIInv DEF Next

-----------------------------------------------------------------------------
\* Notify!TypeOK: the types, and that an id of reply_channel is one endpoint's for
\* ever, whatever is pruned and subscribed (push.save_subscription).
THEOREM TypeCorrect == Spec => []TypeOK
<1>1. IInv => TypeOK
  <2> SUFFICES ASSUME IInv PROVE TypeOK
    OBVIOUS
  <2>1. \A e \in Endpoints : channel[e].id <= issued
    BY DEF IInv, Shape, Numbered
  <2>2. \A e, f \in Endpoints : channel[e].id = channel[f].id /\ channel[e].id # 0 => e = f
    BY DEF IInv, Numbered
  <2> QED BY <2>1, <2>2 DEF IInv, Shape, TypeOK
<1> QED BY InitIInv, NextIInv, <1>1, PTL DEF Spec

\* Notify!KnownWhileAlive: a device whose subscription the push service knows has its
\* row, whatever was pruned meanwhile, and by however many threads (push.fan_out).
THEOREM LiveOnesStay == Spec => []KnownWhileAlive
<1>1. IInv => KnownWhileAlive
  BY DEF IInv, Shape, Numbered, KnownWhileAlive, Endpoints
<1> QED BY InitIInv, NextIInv, <1>1, PTL DEF Spec

\* Notify!ReachedAll: a fan-out that ran its course tried all it read that are still
\* the symbiot's, and none but those, or none at all if it was told to hold the push
\* back (notify.dispatch, push.fan_out).
THEOREM AllAreTried == Spec => []ReachedAll
<1>1. IInv => ReachedAll
  <2> SUFFICES ASSUME IInv, NEW w \in Threads,
                      thread[w].pc = "send", thread[w].todo = {}
               PROVE  /\ ~thread[w].held =>
                           thread[w].owed \cap Subscriptions(thread[w].symbiot)
                             \subseteq thread[w].tried
                      /\ thread[w].tried \subseteq thread[w].owed
                      /\ thread[w].held => thread[w].tried = {}
    BY DEF ReachedAll
  <2>1. OnCourse(thread[w])
    BY DEF IInv, Course
  <2> QED BY <2>1 DEF OnCourse
<1> QED BY InitIInv, NextIInv, <1>1, PTL DEF Spec

\* Notify!AckedByItsOwn: a missive turns seen by the hand of its own symbiot, on a
\* device that shows it (missive.mark_seen).
THEOREM AcknowledgedByItsOwn == Spec => AckedByItsOwn
<1> DEFINE A ==
      \A k \in Missives :
        missive'[k].seen /\ ~missive[k].seen
          => \E b \in Browsers : /\ browser[b].symbiot = missive[k].symbiot
                                 /\ k \in browser[b].screen
<1>1. IInv /\ [Next]_vars => [A]_vars
  <2> SUFFICES ASSUME IInv, Next, NEW k \in Missives, missive'[k].seen, ~missive[k].seen
               PROVE  \E b \in Browsers : /\ browser[b].symbiot = missive[k].symbiot
                                          /\ k \in browser[b].screen
    OBVIOUS
  <2>1. missive # missive'
    OBVIOUS
  <2>2. ASSUME NEW w \in Threads, deliver(w) PROVE FALSE
    <3>1. PICK j \in Missives, s \in Symbiots : missive' = [missive EXCEPT ![j].symbiot = s]
      BY <2>2 DEF deliver
    <3>2. missive'[k].seen <=> missive[k].seen
      BY <3>1 DEF IInv, Shape, Missive
    <3> QED BY <3>2
  <2>3. ASSUME NEW b \in Browsers, inbox_seen(b)
        PROVE  browser[b].symbiot = missive[k].symbiot /\ k \in browser[b].screen
    <3>1. PICK ids \in SUBSET browser[b].screen : missive' = mark_seen(browser[b].symbiot, ids)
      BY <2>3 DEF inbox_seen
    <3>2. CASE k \in ids /\ missive[k].symbiot = browser[b].symbiot
      BY <3>2
    <3>3. CASE ~(k \in ids /\ missive[k].symbiot = browser[b].symbiot)
      <4>1. missive'[k] = missive[k]
        BY <3>1, <3>3 DEF mark_seen
      <4> QED BY <4>1
    <3> QED BY <3>2, <3>3
  <2>4. \/ \E w \in Threads : deliver(w)
        \/ \E b \in Browsers : inbox_seen(b)
    BY <2>1 DEF Next, Device, Reaching, Session, push_subscribe, inbox, Expire, Lapse,
       set_channel, notify, dispatch, _send_email, _send_web_push, _send,
       prune_subscription, Finish, Stop
  <2> QED BY <2>2, <2>3, <2>4
<1> QED BY InitIInv, NextIInv, <1>1, PTL DEF Spec, AckedByItsOwn
=============================================================================
