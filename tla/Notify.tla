-------------------------------- MODULE Notify --------------------------------
(***************************************************************************)
(* Reaching a symbiot: the missive and its acknowledgement                 *)
(* (services/loop/missive.py, /inbox, /inbox/seen), the fan-out over       *)
(* channels (services/loop/notify.py), the push subscriptions it sends to  *)
(* (services/adapters/push.py, /push/subscribe), presence and the standing *)
(* preferences (services/memory/presence.py, notification_prefs.py).       *)
(*                                                                         *)
(* The record commits first and is the guarantee; the fan-out follows on   *)
(* the same thread, outside any transaction: what it read of preferences,  *)
(* presence and subscriptions may have changed when it sends or prunes.    *)
(* The push service and the mail service are external: a send succeeds,    *)
(* fails, or learns that the subscription is gone.                         *)
(***************************************************************************)
EXTENDS Naturals, FiniteSets

CONSTANTS
  Symbiots,     \* the people
  Browsers,     \* the devices a shell runs in
  Threads,      \* the workers and sweeps that reach out
  Switched,     \* bound on the channels a preference is taken on
  MaxMissives,  \* bound on the missives raised
  MaxChannels,  \* bound on the endpoints, and on the reply_channel ids issued
  None          \* no symbiot

ASSUME NoneAssumption == None \notin Symbiots
ASSUME SwitchedAssumption == Switched \subseteq {"email", "web_push"}
ASSUME BoundsAssumption == MaxMissives \in Nat /\ MaxChannels \in Nat

\* ALL_CHANNELS, all of them out of the app.
Channels == {"email", "web_push"}
Ids == 1 .. MaxChannels
Endpoints == 1 .. MaxChannels
Missives == 1 .. MaxMissives

VARIABLES
  missive,   \* the table missive
  channel,   \* reply_channel: each endpoint's row
  alive,     \* the endpoints the push service knows; one gone never comes back
  issued,    \* how many reply_channel ids were issued
  disabled,  \* notification_preference: the channels each symbiot turned off
  present,   \* the symbiots seen within the presence window
  browser,   \* each device: its session, its screen, its endpoint
  thread     \* where each fan-out is, and what it has read

vars == <<missive, channel, alive, issued, disabled, present, browser, thread>>

\* A row of missive: not raised yet (None), offered, or seen.
Missive == [symbiot : Symbiots \cup {None}, seen : BOOLEAN]

\* A row of reply_channel, by its endpoint; id 0 is no row.  The keys are left
\* out: a refreshed row is the same row.
Row == [id : {0} \cup Ids, symbiot : Symbiots \cup {None}]
NoRow == [id |-> 0, symbiot |-> None]

\* A device: who its session is, the missives on its screen, and its endpoint at
\* the push service, 0 when it never subscribed.
Browser == [symbiot : Symbiots \cup {None}, screen : SUBSET Missives,
            endpoint : {0} \cup Endpoints]

\* A fan-out: the channels still to serve, the subscriptions still to send to and
\* those found dead, by id; and for the properties, the subscriptions it read, those
\* it tried, and whether it was told to hold the push back.
FanOut == [pc : {"idle", "filter", "send", "push"},
           symbiot : Symbiots \cup {None}, courtesy : BOOLEAN,
           todo : SUBSET Channels, targets : SUBSET Ids, dead : SUBSET Ids,
           owed : SUBSET Ids, tried : SUBSET Ids, held : BOOLEAN]

Idle == [pc |-> "idle", symbiot |-> None, courtesy |-> FALSE, todo |-> {},
         targets |-> {}, dead |-> {}, owed |-> {}, tried |-> {}, held |-> FALSE]

-----------------------------------------------------------------------------
\* The ids of the subscriptions a symbiot is known by (fan_out's read).
Subscriptions(s) == {channel[e].id : e \in {f \in Endpoints : channel[f].symbiot = s}} \ {0}

\* unseen_for_symbiot.
unseen_for_symbiot(s) == {k \in Missives : missive[k].symbiot = s /\ ~missive[k].seen}

Init ==
  /\ missive = [k \in Missives |-> [symbiot |-> None, seen |-> FALSE]]
  /\ channel = [e \in Endpoints |-> NoRow]
  /\ alive = {}
  /\ issued = 0
  /\ disabled = [s \in Symbiots |-> {}]
  /\ present = {}
  /\ browser = [b \in Browsers |-> [symbiot |-> None, screen |-> {}, endpoint |-> 0]]
  /\ thread = [w \in Threads |-> Idle]

-----------------------------------------------------------------------------
\* The device signs in or out; what is on its screen stays there.
Session(b) ==
  /\ \E s \in Symbiots \cup {None} :
       s # browser[b].symbiot /\ browser' = [browser EXCEPT ![b].symbiot = s]
  /\ UNCHANGED <<missive, channel, alive, issued, disabled, present, thread>>

\* Mutant: the id of a new row is the number of rows and one.
row_count(e, s) ==
  IF channel[e].id = 0
  THEN /\ issued < MaxChannels
       /\ issued' = issued + 1
       /\ channel' = [channel EXCEPT ![e] =
            [id |-> Cardinality({f \in Endpoints : channel[f].id # 0}) + 1, symbiot |-> s]]
  ELSE /\ channel' = [channel EXCEPT ![e].symbiot = IF s # None THEN s ELSE @]
       /\ UNCHANGED issued

\* Mutant: the id of a new row is not taken from the sequence.
no_sequence(e, s) ==
  /\ issued < MaxChannels
  /\ channel' = [channel EXCEPT ![e] = [id |-> issued + 1, symbiot |-> s]]
  /\ UNCHANGED issued

\* save_subscription: a row for a new endpoint; a known one keeps its id, and
\* adopts the caller's symbiot if there is one.
save_subscription(e, s) ==
  IF channel[e].id = 0
  THEN /\ issued < MaxChannels
       /\ issued' = issued + 1
       /\ channel' = [channel EXCEPT ![e] = [id |-> issued + 1, symbiot |-> s]]
  ELSE /\ channel' = [channel EXCEPT ![e].symbiot = IF s # None THEN s ELSE @]
       /\ UNCHANGED issued

\* /push/subscribe, with or without a session: the browser sends the endpoint it
\* has, or, once that is gone, the one the push service makes for it: the next.
push_subscribe(b) ==
  LET mine == browser[b].endpoint IN
  /\ \E e \in IF mine \in alive THEN {mine} ELSE {issued + 1} \cap Endpoints :
       /\ save_subscription(e, browser[b].symbiot)
       /\ browser' = [browser EXCEPT ![b].endpoint = e]
       /\ alive' = alive \cup {e}
  /\ UNCHANGED <<missive, disabled, present, thread>>

\* External: the push service drops a subscription, for good.
Expire(e) ==
  /\ e \in alive
  /\ alive' = alive \ {e}
  /\ UNCHANGED <<missive, channel, issued, disabled, present, browser, thread>>

\* /inbox: the poll is the heartbeat, and what it is handed goes on the screen.
inbox(b) ==
  LET s == browser[b].symbiot IN
  /\ s # None
  /\ present' = present \cup {s}
  /\ browser' = [browser EXCEPT ![b].screen = @ \cup unseen_for_symbiot(s)]
  /\ UNCHANGED <<missive, channel, alive, issued, disabled, thread>>

\* The presence window passes without a poll.
Lapse(s) ==
  /\ s \in present
  /\ present' = present \ {s}
  /\ UNCHANGED <<missive, channel, alive, issued, disabled, browser, thread>>

\* Mutant: the acknowledgement is not scoped to the caller's own.
mark_any(s, ids) == [k \in Missives |->
  IF k \in ids /\ missive[k].symbiot # None THEN [missive[k] EXCEPT !.seen = TRUE]
  ELSE missive[k]]

\* mark_seen, scoped to the caller's own.
mark_seen(s, ids) == [k \in Missives |->
  IF k \in ids /\ missive[k].symbiot = s THEN [missive[k] EXCEPT !.seen = TRUE]
  ELSE missive[k]]

\* /inbox/seen: the shell acknowledges what it shows, under the session it has by
\* then.
inbox_seen(b) ==
  /\ browser[b].symbiot # None
  /\ \E ids \in SUBSET browser[b].screen : missive' = mark_seen(browser[b].symbiot, ids)
  /\ UNCHANGED <<channel, alive, issued, disabled, present, browser, thread>>

\* POST /notifications: set_channel.
set_channel(s) ==
  /\ \E c \in Switched :
       disabled' = [disabled EXCEPT ![s] = IF c \in @ THEN @ \ {c} ELSE @ \cup {c}]
  /\ UNCHANGED <<missive, channel, alive, issued, present, browser, thread>>

-----------------------------------------------------------------------------
\* missive.deliver, _enrich_one, _fire_one: the missive commits; then the thread
\* sets out with the channels asked for.  Only an unasked missive is a courtesy.
deliver(w) ==
  /\ thread[w].pc = "idle"
  /\ \E k \in Missives, s \in Symbiots, asked \in SUBSET Channels, courtesy \in BOOLEAN :
       /\ asked # {} /\ (courtesy => asked = Channels)
       /\ missive[k].symbiot = None
       /\ \A j \in 1 .. k - 1 : missive[j].symbiot # None
       /\ missive' = [missive EXCEPT ![k].symbiot = s]
       /\ thread' = [thread EXCEPT ![w] =
            [Idle EXCEPT !.pc = "filter", !.symbiot = s, !.courtesy = courtesy,
                         !.todo = asked]]
  /\ UNCHANGED <<channel, alive, issued, disabled, present, browser>>

\* dispatch: preferences and presence are read once, before anything is sent.
dispatch(w) ==
  LET t == thread[w]
      hold == t.courtesy /\ t.symbiot \in present
      on   == IF hold THEN {} ELSE t.todo \ disabled[t.symbiot]
  IN
  /\ t.pc = "filter"
  /\ thread' = [thread EXCEPT ![w].pc = "send", ![w].todo = on,
                              ![w].held = "web_push" \notin on]
  /\ UNCHANGED <<missive, channel, alive, issued, disabled, present, browser>>

\* _send_email: sent or failed, which is logged and swallowed.
_send_email(w) ==
  /\ thread[w].pc = "send" /\ "email" \in thread[w].todo
  /\ thread' = [thread EXCEPT ![w].todo = @ \ {"email"}]
  /\ UNCHANGED <<missive, channel, alive, issued, disabled, present, browser>>

\* _send_web_push: fan_out reads the subscriptions.
_send_web_push(w) ==
  /\ thread[w].pc = "send" /\ "web_push" \in thread[w].todo
  /\ thread' = [thread EXCEPT ![w].pc = "push", ![w].todo = @ \ {"web_push"},
                              ![w].targets = Subscriptions(thread[w].symbiot),
                              ![w].owed = Subscriptions(thread[w].symbiot)]
  /\ UNCHANGED <<missive, channel, alive, issued, disabled, present, browser>>

\* push.notify: a message that named a channel has settled.  The one row is read
\* with the presence of its symbiot, if it has one.
notify(w) ==
  /\ thread[w].pc = "idle"
  /\ \E e \in Endpoints :
       /\ channel[e].id # 0 /\ channel[e].symbiot \notin present
       /\ thread' = [thread EXCEPT ![w] =
            [Idle EXCEPT !.pc = "push", !.targets = {channel[e].id},
                         !.owed = {channel[e].id}]]
  /\ UNCHANGED <<missive, channel, alive, issued, disabled, present, browser>>

\* What the push service answers for a row as it was read: gone, when it does not
\* know the subscription; otherwise sent, or a failure of another kind.
Gone(id) == {\E e \in Endpoints : channel[e].id = id /\ e \notin alive}

\* Mutant: a send that fails ends the fan-out.
GiveUp(w, id, gone) ==
  [thread EXCEPT ![w].targets = {}, ![w].tried = @ \cup {id},
                 ![w].dead = IF gone THEN @ \cup {id} ELSE @]

\* One send more, dead or not.
Tried(w, id, gone) ==
  [thread EXCEPT ![w].targets = @ \ {id}, ![w].tried = @ \cup {id},
                 ![w].dead = IF gone THEN @ \cup {id} ELSE @]

\* _send: never raises.
_send(w) ==
  /\ thread[w].pc = "push"
  /\ \E id \in thread[w].targets : \E gone \in Gone(id) :
       thread' = Tried(w, id, gone)
  /\ UNCHANGED <<missive, channel, alive, issued, disabled, present, browser>>

\* prune_subscription for each of the dead, by id, in one transaction; then the
\* other channel, if it is still to come.
prune_subscription(w) ==
  /\ thread[w].pc = "push" /\ thread[w].targets = {}
  /\ channel' = [e \in Endpoints |->
       IF channel[e].id \in thread[w].dead THEN NoRow ELSE channel[e]]
  /\ thread' = [thread EXCEPT ![w].pc = "send", ![w].dead = {}]
  /\ UNCHANGED <<missive, alive, issued, disabled, present, browser>>

\* The fan-out is over, and the thread goes back to its own work.
Finish(w) ==
  /\ thread[w].pc = "send" /\ thread[w].todo = {}
  /\ thread' = [thread EXCEPT ![w] = Idle]
  /\ UNCHANGED <<missive, channel, alive, issued, disabled, present, browser>>

\* The kernel stops: the nudge is lost, the record stands.
Stop(w) ==
  /\ thread[w].pc # "idle"
  /\ thread' = [thread EXCEPT ![w] = Idle]
  /\ UNCHANGED <<missive, channel, alive, issued, disabled, present, browser>>

-----------------------------------------------------------------------------
Device(b) ==
  Session(b) \/ push_subscribe(b) \/ inbox(b) \/ inbox_seen(b)

Reaching(w) ==
  \/ deliver(w) \/ notify(w) \/ dispatch(w) \/ _send_email(w) \/ _send_web_push(w)
  \/ _send(w) \/ prune_subscription(w) \/ Finish(w) \/ Stop(w)

Next ==
  \/ \E b \in Browsers : Device(b)
  \/ \E e \in Endpoints : Expire(e)
  \/ \E s \in Symbiots : Lapse(s) \/ set_channel(s)
  \/ \E w \in Threads : Reaching(w)

Spec == Init /\ [][Next]_vars
-----------------------------------------------------------------------------
\* Every variable has its type; a reply_channel id is one endpoint's, for ever
\* (save_subscription: "its id is stable").
TypeOK ==
  /\ missive \in [Missives -> Missive]
  /\ channel \in [Endpoints -> Row]
  /\ alive \subseteq Endpoints
  /\ issued \in 0 .. MaxChannels
  /\ disabled \in [Symbiots -> SUBSET Channels]
  /\ present \subseteq Symbiots
  /\ browser \in [Browsers -> Browser]
  /\ thread \in [Threads -> FanOut]
  /\ \A e \in Endpoints : channel[e].id <= issued
  /\ \A e, f \in Endpoints : channel[e].id = channel[f].id /\ channel[e].id # 0 => e = f

\* A device whose subscription the push service knows has its row, whatever was
\* pruned, by id and after the send, by whichever thread (push._send: "the one
\* failure worth acting on, by pruning").
KnownWhileAlive == \A e \in alive : channel[e].id # 0

\* A missive is acknowledged only by a device that shows it, under a session of
\* the symbiot it was raised for: not by one that changed hands between its poll
\* and its acknowledgement (mark_seen: "an id that isn't theirs ... changes
\* nothing").
AckedByItsOwn ==
  [][\A k \in Missives :
       missive'[k].seen /\ ~missive[k].seen
         => \E b \in Browsers : /\ browser[b].symbiot = missive[k].symbiot
                                /\ k \in browser[b].screen]_vars

\* A fan-out that ran its course tried every subscription the symbiot had when it
\* read them and has still, in spite of channels that fail and of dead ones among
\* them (notify.dispatch: "never blocking the channels beside it"), unless it was
\* told to hold the push back; and a device that is not the symbiot's any more was
\* tried only if it was read as theirs.
ReachedAll ==
  \A w \in Threads :
    LET t == thread[w] IN
    t.pc = "send" /\ t.todo = {} =>
      /\ ~t.held => t.owed \cap Subscriptions(t.symbiot) \subseteq t.tried
      /\ t.tried \subseteq t.owed
      /\ t.held => t.tried = {}
=============================================================================
