----------------------------- MODULE Generation -----------------------------
(***************************************************************************)
(* Which model answers: the durable catalog and role assignments           *)
(* (services/memory/model_config.py, POST /models), their cache in every   *)
(* process (services/adapters/models.py), the window measured at boot      *)
(* (calibration.py, lifespan), one generative call down its ladder         *)
(* (llm.py), the ledger of who answered (generative_call.py), and the      *)
(* killable child the call runs in (loop/execution.py).                    *)
(*                                                                         *)
(* A request runs in autocommit: each of its statements commits by itself, *)
(* and the reload after it reads two tables in two statements.  A child    *)
(* reads them once, the same way.  A provider is external: it answers,     *)
(* fails outage-class, refuses, or, where the client was given no time-out *)
(* (Google), never returns.                                                *)
(*                                                                         *)
(* Sizes and windows are counted in one unit of the budget, the margin     *)
(* taken off.  The output caps, wire formats and prompts are left out.     *)
(***************************************************************************)
EXTENDS Integers, Sequences

CONSTANTS
  Added,      \* the names an operator may register
  Requests,   \* the /models requests that may run at once
  Calls,      \* the units of work that may run at once
  Modes,      \* the values of IS_LOCAL a box may be set up with
  Prompts,    \* the prompts: their instructions' size and their context's
  Wide,       \* the window of the flagship tier and of the local floor
  Windows,    \* bound on the windows an operator gives a model
  MaxWrites,  \* bound on the /models writes
  MaxBoots,   \* bound on the starts of the kernel
  None        \* no model, no row, no result

BuiltinNames == {"pro", "flash", "glm", "oss", "large", "ministral", "qwen"}
Names == BuiltinNames \cup Added
Providers == {"google", "scaleway", "mistral", "ollama"}

ASSUME NamesAssumption == Added \cap BuiltinNames = {} /\ None \notin Names
ASSUME NoneAssumption == None \notin [provider : Providers, window : Nat \ {0}]
ASSUME ModesAssumption == Modes \subseteq BOOLEAN
ASSUME PromptsAssumption == Prompts \subseteq [fixed : Nat, context : Nat]
ASSUME WindowsAssumption == Wide \in Nat \ {0} /\ Windows \subseteq Nat \ {0}
ASSUME BoundsAssumption == MaxWrites \in Nat /\ MaxBoots \in Nat

VARIABLES
  mode,     \* IS_LOCAL, as the kernel was started
  up,       \* whether the kernel runs
  store,    \* the tables model and model_role
  parent,   \* the kernel's own cache
  request,  \* where each /models request is
  call,     \* where each unit of work is
  overlap,  \* whether two requests ever ran at once; for the properties
  writes, boots

vars == <<mode, up, store, parent, request, call, overlap, writes, boots>>

Model == [provider : Providers, window : Nat \ {0}]

\* Both tables, and a cache of them: the operator's models, the measured window of
\* the floor (0 for none), and the one role's model.  The builtin rows are the code.
Catalog == [added : [Added -> Model \cup {None}], measured : 0 .. Wide]
Cache == [added : [Added -> Model \cup {None}], measured : 0 .. Wide,
          role : Names \cup {None}]

NoCatalog == [added |-> [x \in Added |-> None], measured |-> 0]

\* An empty cache falls back to the seed: BUILTIN_ROLES and BUILTIN_MODELS.
Seed == [added |-> NoCatalog.added, measured |-> 0, role |-> "pro"]

Request == [pc : {"idle", "remove", "point", "catalog", "roles", "set"},
            name : Names \cup {None}, read : Catalog, fresh : Cache]

NoRequest == [pc |-> "idle", name |-> None, read |-> NoCatalog, fresh |-> Seed]

Busy == {r \in Requests : request[r].pc # "idle"}

\* A unit of work: its process's cache, the model asked for, the one the prompt is
\* being fitted to, the prompt's size and whether its context was condensed already,
\* the rungs left, the rung noted on its thread, the ledger's row, who answered, and
\* what came back to the parent.
Call == [pc : {"idle", "catalog", "roles", "resolve", "fit", "fitted", "rung", "hung",
               "record", "put", "flushing", "exited", "terminating", "clinging", "reported"},
         read : Catalog, cache : Cache, prompt : Prompts \cup {None},
         asked : Names \cup {None}, target : Names \cup {None},
         size : Nat, condensed : BOOLEAN, summary : BOOLEAN, rungs : Seq(Names),
         noted : Names \cup {None}, row : {None} \cup (Names \X Names),
         answered : Names \cup {None},
         result : {None, "completed", "crashed", "timed_out"}]

NoCall == [pc |-> "idle", read |-> NoCatalog, cache |-> Seed, prompt |-> None,
           asked |-> None, target |-> None, size |-> 0, condensed |-> FALSE,
           summary |-> FALSE, rungs |-> <<>>, noted |-> None, row |-> None,
           answered |-> None, result |-> None]

-----------------------------------------------------------------------------
\* BUILTIN_MODELS: each rung of a tier at least as wide as the rung above it.
BUILTIN_MODELS ==
  [n \in BuiltinNames |->
     [provider |-> IF n \in {"pro", "flash"} THEN "google"
                   ELSE IF n \in {"glm", "oss"} THEN "scaleway"
                   ELSE IF n \in {"large", "ministral"} THEN "mistral" ELSE "ollama",
      window |-> IF n \in {"flash", "oss", "ministral"} THEN 1 ELSE Wide]]

\* The builtin rows, a measured window over the code's (_read_store's COALESCE).
Builtin(c) ==
  [BUILTIN_MODELS EXCEPT !["qwen"].window = IF c.measured = 0 THEN @ ELSE c.measured]

\* spec; None for a name neither the cache nor the seed knows.
spec(c, n) == IF n \in Added THEN c.added[n] ELSE Builtin(c)[n]

provider(c, n) == IF spec(c, n) = None THEN "ollama" ELSE spec(c, n).provider

\* Whether a size is within the window of a model; one not in the map has none.
Within(c, n, size) == spec(c, n) # None => size <= spec(c, n).window

\* A model of no tier falls to the flagship's.
_scaleway_fallback(n) == IF n = "flash" THEN "oss" ELSE "glm"
_mistral_fallback(n) == IF n = "oss" THEN "ministral" ELSE "large"

\* _call: the rungs a model is called down.
Ladder(c, n) ==
  IF provider(c, n) = "google"
  THEN <<n, _scaleway_fallback(n), _mistral_fallback(_scaleway_fallback(n)), "qwen">>
  ELSE IF provider(c, n) = "scaleway" THEN <<n, _mistral_fallback(n), "qwen">> ELSE <<n>>

\* _call on a local-only box: the floor, but for a role pointed at a local model.
LocalModel(c, n) == IF spec(c, n) # None /\ provider(c, n) = "ollama" THEN n ELSE "qwen"

Route(c, n) == IF mode THEN <<LocalModel(c, n)>> ELSE Ladder(c, n)

Init ==
  /\ mode \in Modes
  /\ up = FALSE
  /\ store = [added |-> NoCatalog.added, measured |-> 0, role |-> None]
  /\ parent = Seed
  /\ request = [r \in Requests |-> NoRequest]
  /\ call = [c \in Calls |-> NoCall]
  /\ overlap = FALSE /\ writes = 0 /\ boots = 0

-----------------------------------------------------------------------------
\* calibration.measure, or LOCAL_WINDOW_TOKENS: a window, or none when it failed.
measure == 0 .. Wide

\* lifespan, with IS_LOCAL as the operator set it for this start: reconcile_and_seed, the
\* measurement on a local-only box that has none, and the kernel's own cache.
Boot ==
  /\ ~up /\ boots < MaxBoots
  /\ up' = TRUE /\ boots' = boots + 1
  /\ mode' \in Modes
  /\ \E w \in IF mode' /\ store.measured = 0 THEN measure ELSE {store.measured} :
       LET seeded == [store EXCEPT !.measured = w,
                                   !.role = IF @ = None THEN "pro" ELSE @]
       IN  store' = seeded /\ parent' = seeded
  /\ UNCHANGED <<request, call, overlap, writes>>

\* The kernel dies, and every request and unit of work with it.
Crash ==
  /\ up /\ up' = FALSE
  /\ parent' = Seed
  /\ request' = [r \in Requests |-> NoRequest]
  /\ call' = [c \in Calls |-> NoCall]
  /\ UNCHANGED <<mode, store, overlap, writes, boots>>

-----------------------------------------------------------------------------
\* upsert_model: a new operator model, or new characteristics for one.
upsert_model(r) ==
  /\ up /\ request[r].pc = "idle" /\ writes < MaxWrites
  /\ \E x \in Added, p \in Providers, w \in Windows :
       store' = [store EXCEPT !.added[x] = [provider |-> p, window |-> w]]
  /\ writes' = writes + 1
  /\ request' = [request EXCEPT ![r].pc = "catalog"]
  /\ overlap' = (overlap \/ Busy # {})
  /\ UNCHANGED <<mode, up, parent, call, boots>>

\* delete_model, its checks: an operator's model that no role is pointed at.
delete_model(r) ==
  /\ up /\ request[r].pc = "idle" /\ writes < MaxWrites
  /\ \E x \in Added :
       /\ store.added[x] # None /\ store.role # x
       /\ request' = [request EXCEPT ![r].pc = "remove", ![r].name = x]
  /\ overlap' = (overlap \/ Busy # {})
  /\ UNCHANGED <<mode, up, store, parent, call, writes, boots>>

\* Mutant: no foreign key from model_role to model.
cascade(x) == [store EXCEPT !.added[x] = None]

\* The foreign key refuses to orphan a role.
restrict(x) == IF store.role = x THEN store ELSE [store EXCEPT !.added[x] = None]

\* delete_model, its DELETE; one the database refuses is an error, not a reload.
Remove(r) ==
  /\ request[r].pc = "remove"
  /\ store' = restrict(request[r].name)
  /\ writes' = writes + 1
  /\ request' = [request EXCEPT ![r] =
       IF store.role = @.name THEN NoRequest ELSE [NoRequest EXCEPT !.pc = "catalog"]]
  /\ UNCHANGED <<mode, up, parent, call, overlap, boots>>

\* set_role, its check: a model in the catalog.
set_role(r) ==
  /\ up /\ request[r].pc = "idle" /\ writes < MaxWrites
  /\ \E n \in Names :
       /\ n \in Added => store.added[n] # None
       /\ request' = [request EXCEPT ![r].pc = "point", ![r].name = n]
  /\ overlap' = (overlap \/ Busy # {})
  /\ UNCHANGED <<mode, up, store, parent, call, writes, boots>>

\* set_role, its write, which the foreign key refuses for a model gone by then.
Point(r) ==
  LET n == request[r].name
      gone == n \in Added /\ store.added[n] = None
  IN
  /\ request[r].pc = "point"
  /\ store' = IF gone THEN store ELSE [store EXCEPT !.role = n]
  /\ writes' = writes + 1
  /\ request' = [request EXCEPT ![r] =
       IF gone THEN NoRequest ELSE [NoRequest EXCEPT !.pc = "catalog"]]
  /\ UNCHANGED <<mode, up, parent, call, overlap, boots>>

CatalogOf(s) == [added |-> s.added, measured |-> s.measured]
With(cat, role) == [added |-> cat.added, measured |-> cat.measured, role |-> role]

\* reload_from_conn, _read_store: the catalog, then the roles, then set_config.
ReadCatalog(r) ==
  /\ request[r].pc = "catalog"
  /\ request' = [request EXCEPT ![r].pc = "roles", ![r].read = CatalogOf(store)]
  /\ UNCHANGED <<mode, up, store, parent, call, overlap, writes, boots>>

ReadRoles(r) ==
  /\ request[r].pc = "roles"
  /\ request' = [request EXCEPT ![r].pc = "set", ![r].fresh = With(request[r].read, store.role)]
  /\ UNCHANGED <<mode, up, store, parent, call, overlap, writes, boots>>

\* Mutant: the catalog is refreshed, the roles are not.
set_catalog(fresh) == [fresh EXCEPT !.role = parent.role]

\* set_config, under the lock.
set_config(fresh) == fresh

SetConfig(r) ==
  /\ request[r].pc = "set"
  /\ parent' = set_config(request[r].fresh)
  /\ request' = [request EXCEPT ![r] = NoRequest]
  /\ UNCHANGED <<mode, up, store, call, overlap, writes, boots>>

-----------------------------------------------------------------------------
\* Only a call's own record changes; a process that is through with its work keeps
\* nothing but where it is and what it brings back.
Move(c, d) ==
  /\ call' = [call EXCEPT ![c] = d]
  /\ UNCHANGED <<mode, up, store, parent, request, overlap, writes, boots>>

\* The work raised: the child reports the traceback, and exits.
Raise(c) == Move(c, [NoCall EXCEPT !.pc = "exited", !.result = "crashed"])

\* run_with_deadline: the child is spawned.
run_with_deadline(c) ==
  /\ up /\ call[c].pc = "idle"
  /\ Move(c, [NoCall EXCEPT !.pc = "catalog"])

\* _ensure_loaded, in the child: the catalog, then the roles; or, when the store
\* cannot be read, nothing, and the seed stands in.
_ensure_loaded(c) ==
  \/ /\ call[c].pc = "catalog"
     /\ Move(c, [call[c] EXCEPT !.pc = "roles", !.read = CatalogOf(store)])
  \/ /\ call[c].pc = "roles"
     /\ Move(c, [call[c] EXCEPT !.pc = "resolve", !.read = NoCatalog,
                                !.cache = With(call[c].read, store.role)])
  \/ /\ call[c].pc = "catalog"
     /\ Move(c, [call[c] EXCEPT !.pc = "resolve", !.cache = Seed])

\* generate, generate_json: a prompt for the role's model, and the thread's note
\* cleared.
role_name(c) ==
  /\ call[c].pc = "resolve"
  /\ \E p \in Prompts :
       Move(c, [call[c] EXCEPT !.pc = "fit", !.prompt = p, !.size = p.fixed + p.context,
                               !.asked = call[c].cache.role, !.target = call[c].cache.role,
                               !.noted = None])

\* _fit: within the window of the model it is fitted to, or its context condensed by
\* a call to that model, sent raw; but on a local-only box that call is itself held
\* to the window of the local model, with no context to condense.
_fit(c) ==
  LET d == call[c]
      local == LocalModel(d.cache, d.target)
  IN
  /\ d.pc = "fit"
  /\ \/ /\ Within(d.cache, d.target, d.size)
        /\ Move(c, [d EXCEPT !.pc = "fitted"])
     \/ /\ ~Within(d.cache, d.target, d.size) /\ d.prompt.context = 0
        /\ Raise(c)
     \/ /\ ~Within(d.cache, d.target, d.size) /\ d.prompt.context # 0
        /\ IF mode /\ local # d.target /\ ~Within(d.cache, local, d.prompt.context)
           THEN Raise(c)
           ELSE Move(c, [d EXCEPT !.pc = "rung", !.summary = TRUE,
                                  !.rungs = Route(d.cache, d.target)])

\* Mutant: no second fitting for the model that answers.
fit_once(c, local) ==
  Move(c, [call[c] EXCEPT !.pc = "rung", !.rungs = Route(call[c].cache, call[c].asked)])

\* _call on a local-only box: fitted again, if another model is to answer.
Refit(c, local) ==
  IF call[c].target # local
  THEN Move(c, [call[c] EXCEPT !.pc = "fit", !.target = local])
  ELSE Move(c, [call[c] EXCEPT !.pc = "rung", !.rungs = <<local>>])

\* _call, with the prompt in hand.
_call(c) ==
  /\ call[c].pc = "fitted"
  /\ \/ mode /\ Refit(c, LocalModel(call[c].cache, call[c].asked))
     \/ ~mode /\ Move(c, [call[c] EXCEPT !.pc = "rung",
                                         !.rungs = Ladder(call[c].cache, call[c].asked)])

\* Mutant: the first rung noted on the thread stays.
first_served(d) == IF d.noted = None THEN Head(d.rungs) ELSE d.noted

\* _served: the thread's note is the rung that answered last.
_served(d) == Head(d.rungs)

\* The size of the prompt with its context condensed to the room that is left; a
\* context that was replaced once is not found again, and the prompt stays.
Condensed(d) ==
  IF d.condensed THEN d.size
  ELSE LET room == spec(d.cache, d.target).window - d.prompt.fixed
       IN  d.prompt.fixed + IF room > 0 THEN room ELSE 0

\* A rung answers: the summary, spliced back in, or the reply.
Answer(c) ==
  LET d == call[c] IN
  /\ d.pc = "rung"
  /\ \/ /\ d.summary
        /\ Move(c, [d EXCEPT !.pc = "fitted", !.summary = FALSE, !.condensed = TRUE,
                             !.size = Condensed(d), !.noted = _served(d), !.rungs = <<>>])
     \/ /\ ~d.summary
        /\ Move(c, [d EXCEPT !.pc = "record", !.noted = _served(d),
                             !.answered = Head(d.rungs), !.rungs = <<>>])

\* _Outage: the next rung, or, where there is none, the error.
Outage(c) ==
  LET d == call[c] IN
  /\ d.pc = "rung" /\ provider(d.cache, Head(d.rungs)) # "ollama"
  /\ IF Len(d.rungs) = 1 THEN Raise(c) ELSE Move(c, [d EXCEPT !.rungs = Tail(@)])

\* A refusal, an empty reply, or the local tier's own error.
Refuse(c) == call[c].pc = "rung" /\ Raise(c)

\* The Google client is given no time-out.
Hang(c) ==
  LET d == call[c] IN
  /\ d.pc = "rung" /\ provider(d.cache, Head(d.rungs)) = "google"
  /\ Move(c, [NoCall EXCEPT !.pc = "hung"])

\* _record_call, before the reply is validated: a row, or none if the ledger cannot
\* be written.
_record_call(c) ==
  /\ call[c].pc = "record"
  /\ \E row \in {None, <<call[c].asked, call[c].noted>>} :
       Move(c, [call[c] EXCEPT !.pc = "put", !.row = row])

\* _entry: the result is put and the child exits; one larger than the pipe holds the
\* child until somebody reads it; a reply that breaks its schema raises.
_entry(c) ==
  /\ call[c].pc = "put"
  /\ \/ Move(c, [NoCall EXCEPT !.pc = "exited", !.result = "completed"])
     \/ Move(c, [NoCall EXCEPT !.pc = "flushing"])
     \/ Raise(c)

Running == {"catalog", "roles", "resolve", "fit", "fitted", "rung", "hung", "record",
            "put", "flushing"}

\* A hard crash, that no handler in the child sees.
Die(c) ==
  /\ call[c].pc \in Running
  /\ Raise(c)

\* The deadline passes with the child alive.
Terminate(c) ==
  /\ call[c].pc \in Running
  /\ Move(c, [NoCall EXCEPT !.pc = "terminating"])

\* Mutant: a child that clings is waited for.
wait(c) == FALSE /\ UNCHANGED vars

\* The child ends on SIGTERM, or clings, and is killed.
Kill(c) ==
  /\ call[c].pc = "clinging"
  /\ Move(c, [call[c] EXCEPT !.pc = "reported", !.result = "timed_out"])

Terminated(c) ==
  /\ call[c].pc = "terminating"
  /\ \/ Move(c, [call[c] EXCEPT !.pc = "reported", !.result = "timed_out"])
     \/ Move(c, [call[c] EXCEPT !.pc = "clinging"])

\* The child exited by itself: what it put is read.
Collect(c) ==
  /\ call[c].pc = "exited"
  /\ Move(c, [call[c] EXCEPT !.pc = "reported"])

\* The caller takes the result.
Return(c) ==
  /\ call[c].pc = "reported"
  /\ Move(c, NoCall)

-----------------------------------------------------------------------------
Writing(r) ==
  \/ upsert_model(r) \/ delete_model(r) \/ Remove(r) \/ set_role(r) \/ Point(r)
  \/ ReadCatalog(r) \/ ReadRoles(r) \/ SetConfig(r)

Child(c) ==
  \/ _ensure_loaded(c) \/ role_name(c) \/ _fit(c) \/ _call(c) \/ Answer(c) \/ Outage(c)
  \/ Refuse(c) \/ Hang(c) \/ _record_call(c) \/ _entry(c) \/ Die(c)

Parent(c) == Terminate(c) \/ Terminated(c) \/ Kill(c) \/ Collect(c) \/ Return(c)

Next ==
  \/ Boot \/ Crash
  \/ \E r \in Requests : Writing(r)
  \/ \E c \in Calls : run_with_deadline(c) \/ Child(c) \/ Parent(c)

Spec == Init /\ [][Next]_vars

\* The parent's joins are bounded by the deadline and the grace, and it always gets
\* to its next step; nothing is assumed of the child or of a provider.
Fairness == \A c \in Calls : WF_vars(Parent(c))

FairSpec == Spec /\ Fairness
-----------------------------------------------------------------------------
\* The role is pointed at a model of the catalog, whatever requests check and write at
\* once (models.for_role: "a role pointing at a deleted model, which the FK and the
\* /models command are built to prevent").
RoleStands == boots > 0 => store.role \in BuiltinNames \/ store.added[store.role] # None

\* Every variable has its type, and no write orphans the role.
TypeOK ==
  /\ mode \in BOOLEAN /\ up \in BOOLEAN
  /\ store \in Cache /\ parent \in Cache
  /\ request \in [Requests -> Request]
  /\ call \in [Calls -> Call]
  /\ overlap \in BOOLEAN /\ writes \in Nat /\ boots \in 0 .. MaxBoots
  /\ RoleStands

\* With no request under way, the kernel's cache is the store (set_models: "the
\* change takes effect for the parent immediately"), as long as no two requests
\* ran at once: the reads of one and the write of the other are not one step.
ParentFollows == up /\ Busy = {} /\ ~overlap => parent = store

\* The prompt is within a model's window, or its instructions alone are wider.
Fits(d, n) == Within(d.cache, n, d.size) \/ d.size = d.prompt.fixed

\* A reply was composed from a prompt within the window of the model that answered
\* (_fit; _ollama: "a prompt past that is discarded from the front with no error").
PromptFits == \A c \in Calls : call[c].answered # None => Fits(call[c], call[c].answered)

\* What the code does keep of that: where the prompt was too wide for the model that
\* answered, it was within the window of the one asked for; and on a local-only box it
\* had overrun that one too, and so been condensed before its second fitting.
FitsOneAsked ==
  \A c \in Calls :
    LET d == call[c]
        asked == spec(d.cache, d.asked)
    IN
    d.answered # None =>
      \/ Fits(d, d.answered)
      \/ /\ asked # None /\ d.size <= asked.window
         /\ mode => d.prompt.fixed + d.prompt.context > asked.window

\* A row of the ledger names the model that was asked and the rung that answered the
\* reply, not one that condensed its context (_record_call).
LedgerTrue ==
  \A c \in Calls : call[c].row # None => call[c].row = <<call[c].asked, call[c].answered>>

\* Every unit of work comes back, and its child is gone by then, whatever a provider
\* or the child does (run_with_deadline: "The parent never blocks past the deadline
\* plus a short kill grace").
WorkReturns == \A c \in Calls : call[c].pc # "idle" ~> call[c].pc = "idle"
=============================================================================
