-------------------------- MODULE GenerationProofs --------------------------
(***************************************************************************)
(* Theorems about Generation, for any number of operator models, requests, *)
(* units of work and starts.                                               *)
(*                                                                         *)
(* The configuration (IInv): no write orphans the role, and the kernel's   *)
(* cache is the store whenever no request is under way and none ever       *)
(* overlapped.                                                             *)
(*                                                                         *)
(* The calls (Works): at each stage, what is known of the prompt's fitting *)
(* is enough for whichever rung answers in the end, and for the ledger.    *)
(* A call reads the tables, so this part rests on the other.               *)
(*                                                                         *)
(* And where the ladder keeps its promise (Cloud): off a local-only box,   *)
(* with no operator's model wider than the flagship.                       *)
(***************************************************************************)
EXTENDS Generation, TLAPS

-----------------------------------------------------------------------------
\* The tables, the cache and the requests have their types.
Shape ==
  /\ up \in BOOLEAN /\ overlap \in BOOLEAN /\ boots \in Nat
  /\ store \in Cache /\ parent \in Cache
  /\ request \in [Requests -> Request]

\* A request about to delete or to point has its model's name, and a kernel that is
\* down has none under way; one never started has seeded nothing.
Underway ==
  /\ \A r \in Requests :
       /\ request[r].pc = "remove" => request[r].name \in Added
       /\ request[r].pc = "point" => request[r].name \in Names
  /\ ~up => \A r \in Requests : request[r].pc = "idle"
  /\ boots = 0 => ~up /\ store.role = None

\* The role is a model of the code, or one that is registered.
Assigned ==
  boots # 0 => \/ store.role \in BuiltinNames
               \/ store.role \in Added /\ store.added[store.role] # None

\* While requests come one after the other, one at most is under way, what it has read
\* is the store, and the cache is too, but between its write and its reload.
InStep ==
  ~overlap =>
    /\ \A q, r \in Requests : q = r \/ request[q].pc = "idle" \/ request[r].pc = "idle"
    /\ \A r \in Requests :
         /\ request[r].pc = "roles" => request[r].read = CatalogOf(store)
         /\ request[r].pc = "set" => request[r].fresh = store
    /\ \/ ~up \/ parent = store
       \/ \E r \in Requests : request[r].pc \in {"catalog", "roles", "set"}

IInv == Shape /\ Underway /\ Assigned /\ InStep

-----------------------------------------------------------------------------
\* The constants, as the proofs use them.
LEMMA Constants ==
  /\ Wide \in Nat /\ None \notin Model /\ None \notin Names
  /\ Windows \subseteq Nat \ {0} /\ Added \cap BuiltinNames = {}
BY NamesAssumption, NoneAssumption, WindowsAssumption DEF Model

\* What the cache and a request start from.
LEMMA Blanks ==
  /\ NoCatalog \in Catalog /\ Seed \in Cache
  /\ NoRequest \in Request /\ NoRequest.pc = "idle"
<1>1. NoCatalog \in Catalog
  BY Constants DEF NoCatalog, Catalog
<1>2. Seed \in Cache
  BY Constants DEF Seed, NoCatalog, Cache, Names, BuiltinNames
<1> QED BY <1>1, <1>2 DEF NoRequest, Request

\* Nothing runs at first.
LEMMA InitIInv == Init => IInv
<1> SUFFICES ASSUME Init PROVE IInv
  OBVIOUS
<1> USE DEF Init
<1>1. store \in Cache
  BY Constants DEF NoCatalog, Cache
<1>2. Shape
  BY <1>1, Blanks DEF Shape
<1>3. Underway /\ InStep
  BY Blanks DEF Underway, InStep
<1> QED BY <1>2, <1>3 DEF IInv, Assigned

\* Calls leave the configuration alone.
LEMMA CallsIInv ==
  ASSUME IInv, UNCHANGED <<up, store, parent, request, overlap, boots>>
  PROVE  IInv'
BY DEF IInv, Shape, Underway, Assigned, InStep

\* The kernel starts: tables seeded, cache read.
LEMMA BootIInv == IInv /\ Boot => IInv'
<1> SUFFICES ASSUME IInv, Boot PROVE IInv'
  OBVIOUS
<1>1. ~up /\ up' = TRUE /\ boots' = boots + 1 /\ UNCHANGED <<request, overlap>>
  BY DEF Boot
<1>2. PICK w \in 0 .. Wide, role \in {store.role, "pro"} :
        /\ store' = [store EXCEPT !.measured = w, !.role = role]
        /\ role = IF store.role = None THEN "pro" ELSE store.role
        /\ parent' = store'
  BY DEF Boot, IInv, Shape, Cache, measure
<1>3. role \in Names /\ store' \in Cache
  BY <1>2 DEF IInv, Shape, Cache, Names, BuiltinNames
<1>4. Shape'
  <2>1. up' \in BOOLEAN
    BY <1>1
  <2>2. boots' \in Nat
    BY <1>1 DEF IInv, Shape
  <2>3. overlap' \in BOOLEAN
    BY <1>1 DEF IInv, Shape
  <2>4. request' \in [Requests -> Request]
    BY <1>1 DEF IInv, Shape
  <2> QED BY <1>2, <1>3, <2>1, <2>2, <2>3, <2>4 DEF Shape
<1>5. Underway'
  BY <1>1 DEF IInv, Shape, Underway
<1>6. store'.role = role /\ store'.added = store.added
  BY <1>2 DEF IInv, Shape, Cache
<1>7. Assigned'
  BY <1>2, <1>6 DEF IInv, Underway, Assigned, BuiltinNames
<1>8. InStep'
  BY <1>1, <1>2 DEF IInv, Underway, InStep
<1> QED BY <1>4, <1>5, <1>7, <1>8 DEF IInv

\* The kernel dies.
LEMMA CrashIInv == IInv /\ Crash => IInv'
<1> SUFFICES ASSUME IInv, Crash PROVE IInv'
  OBVIOUS
<1>1. /\ up /\ up' = FALSE /\ parent' = Seed /\ request' = [r \in Requests |-> NoRequest]
      /\ UNCHANGED <<store, overlap, boots>>
  BY DEF Crash
<1> QED BY <1>1, Blanks DEF IInv, Shape, Underway, Assigned, InStep

-----------------------------------------------------------------------------
\* A request comes in when none is under way, or from then on some have overlapped.
LEMMA Begins ==
  ASSUME IInv, NEW r \in Requests, NEW q \in Request, up, request[r].pc = "idle",
         q.pc \in {"remove", "point", "catalog"},
         q.pc = "remove" => q.name \in Added, q.pc = "point" => q.name \in Names,
         request' = [request EXCEPT ![r] = q],
         overlap' = (overlap \/ Busy # {}),
         q.pc = "catalog" \/ UNCHANGED store, store' \in Cache, Assigned',
         UNCHANGED <<up, parent, boots>>
  PROVE  IInv'
<1>1. Shape'
  BY DEF IInv, Shape
<1>2. Underway'
  BY DEF IInv, Shape, Underway
<1>3. InStep'
  <2> SUFFICES ASSUME ~overlap'
               PROVE  /\ \A p, s \in Requests :
                           p = s \/ request'[p].pc = "idle" \/ request'[s].pc = "idle"
                      /\ \A s \in Requests :
                           /\ request'[s].pc = "roles" => request'[s].read = CatalogOf(store')
                           /\ request'[s].pc = "set" => request'[s].fresh = store'
                      /\ \/ ~up' \/ parent' = store'
                         \/ \E s \in Requests : request'[s].pc \in {"catalog", "roles", "set"}
    BY DEF InStep, CatalogOf
  <2>1. ~overlap /\ \A s \in Requests : request[s].pc = "idle"
    BY DEF Busy
  <2>2. \A s \in Requests : request'[s] = IF s = r THEN q ELSE request[s]
    BY DEF IInv, Shape
  <2>3. parent = store
    BY <2>1 DEF IInv, InStep
  <2>4. CASE q.pc = "catalog"
    BY <2>1, <2>2, <2>4
  <2>5. CASE UNCHANGED store
    BY <2>1, <2>2, <2>3, <2>5
  <2> QED BY <2>1, <2>2, <2>4, <2>5
<1> QED BY <1>1, <1>2, <1>3 DEF IInv

\* A model is registered, or given other characteristics.
LEMMA UpsertIInv == ASSUME NEW r \in Requests PROVE IInv /\ upsert_model(r) => IInv'
<1> SUFFICES ASSUME IInv, upsert_model(r) PROVE IInv'
  OBVIOUS
<1>1. PICK x \in Added, p \in Providers, w \in Windows :
        store' = [store EXCEPT !.added[x] = [provider |-> p, window |-> w]]
  BY DEF upsert_model
<1>2. PICK m \in Model : m = [provider |-> p, window |-> w]
  BY Constants DEF Model
<1>3. m # None
  BY Constants
<1>4. /\ up /\ request[r].pc = "idle" /\ overlap' = (overlap \/ Busy # {})
      /\ UNCHANGED <<up, parent, boots>>
  BY DEF upsert_model
<1>5. /\ store' \in Cache /\ store'.role = store.role
      /\ store'.added = [store.added EXCEPT ![x] = m]
  BY <1>1, <1>2 DEF IInv, Shape, Cache
<1>6. Assigned'
  BY <1>3, <1>4, <1>5 DEF IInv, Shape, Cache, Assigned
<1>7. PICK t \in Request : t = request[r]
  BY DEF IInv, Shape
<1>8. PICK q : q = [t EXCEPT !.pc = "catalog"]
  OBVIOUS
<1>9. q \in Request /\ q.pc = "catalog"
  BY <1>8 DEF Request
<1>10. request' = [request EXCEPT ![r] = q]
  BY <1>7, <1>8 DEF upsert_model
<1> QED BY <1>4, <1>5, <1>6, <1>9, <1>10, Begins

\* A deletion is checked.
LEMMA DeleteIInv == ASSUME NEW r \in Requests PROVE IInv /\ delete_model(r) => IInv'
<1> SUFFICES ASSUME IInv, delete_model(r) PROVE IInv'
  OBVIOUS
<1>1. PICK x \in Added : request' = [request EXCEPT ![r].pc = "remove", ![r].name = x]
  BY DEF delete_model
<1>2. /\ up /\ request[r].pc = "idle" /\ overlap' = (overlap \/ Busy # {})
      /\ UNCHANGED <<up, parent, boots, store>>
  BY DEF delete_model
<1>3. PICK t \in Request : t = request[r]
  BY DEF IInv, Shape
<1>4. PICK q : q = [t EXCEPT !.pc = "remove", !.name = x]
  OBVIOUS
<1>5. q \in Request /\ q.pc = "remove" /\ q.name = x
  BY <1>4 DEF Request, Names
<1>6. request' = [request EXCEPT ![r] = q]
  BY <1>1, <1>3, <1>4 DEF IInv, Shape
<1>7. Assigned' /\ store' \in Cache
  BY <1>2 DEF IInv, Shape, Assigned
<1> QED BY <1>2, <1>5, <1>6, <1>7, Begins

\* An assignment is checked.
LEMMA SetRoleIInv == ASSUME NEW r \in Requests PROVE IInv /\ set_role(r) => IInv'
<1> SUFFICES ASSUME IInv, set_role(r) PROVE IInv'
  OBVIOUS
<1>1. PICK n \in Names : request' = [request EXCEPT ![r].pc = "point", ![r].name = n]
  BY DEF set_role
<1>2. /\ up /\ request[r].pc = "idle" /\ overlap' = (overlap \/ Busy # {})
      /\ UNCHANGED <<up, parent, boots, store>>
  BY DEF set_role
<1>3. PICK t \in Request : t = request[r]
  BY DEF IInv, Shape
<1>4. PICK q : q = [t EXCEPT !.pc = "point", !.name = n]
  OBVIOUS
<1>5. q \in Request /\ q.pc = "point" /\ q.name = n
  BY <1>4 DEF Request
<1>6. request' = [request EXCEPT ![r] = q]
  BY <1>1, <1>3, <1>4 DEF IInv, Shape
<1>7. Assigned' /\ store' \in Cache
  BY <1>2 DEF IInv, Shape, Assigned
<1> QED BY <1>2, <1>5, <1>6, <1>7, Begins

-----------------------------------------------------------------------------
\* A request goes on.
LEMMA GoesOn ==
  ASSUME IInv, NEW r \in Requests, NEW q \in Request, request[r].pc # "idle",
         q.pc \notin {"remove", "point"},
         request' = [request EXCEPT ![r] = q],
         UNCHANGED <<up, overlap, boots>>, store' \in Cache, parent' \in Cache, Assigned',
         ~overlap => /\ q.pc = "roles" => q.read = CatalogOf(store')
                     /\ q.pc = "set" => q.fresh = store'
                     /\ q.pc = "idle" => parent' = store'
  PROVE  IInv'
<1>1. Shape'
  BY DEF IInv, Shape
<1>2. \A s \in Requests : request'[s] = IF s = r THEN q ELSE request[s]
  BY DEF IInv, Shape
<1>3. up /\ boots # 0
  BY DEF IInv, Underway
<1>4. Underway'
  BY <1>2, <1>3 DEF IInv, Underway
<1>5. InStep'
  <2> SUFFICES ASSUME ~overlap
               PROVE  /\ \A p, s \in Requests :
                           p = s \/ request'[p].pc = "idle" \/ request'[s].pc = "idle"
                      /\ \A s \in Requests :
                           /\ request'[s].pc = "roles" => request'[s].read = CatalogOf(store')
                           /\ request'[s].pc = "set" => request'[s].fresh = store'
                      /\ \/ ~up' \/ parent' = store'
                         \/ \E s \in Requests : request'[s].pc \in {"catalog", "roles", "set"}
    BY DEF InStep, CatalogOf
  <2>1. \A s \in Requests : s # r => request'[s].pc = "idle"
    BY <1>2 DEF IInv, InStep
  <2>2. q.pc \in {"idle", "catalog", "roles", "set"}
    BY DEF Request
  <2> QED BY <1>2, <2>1, <2>2
<1> QED BY <1>1, <1>4, <1>5 DEF IInv

\* The tables stay, and so does what is said of them.
LEMMA StoreStays == ASSUME IInv, UNCHANGED <<store, boots>> PROVE store' \in Cache /\ Assigned'
BY DEF IInv, Shape, Assigned

\* A model is deleted, or the foreign key refuses.
LEMMA RemoveIInv == ASSUME NEW r \in Requests PROVE IInv /\ Remove(r) => IInv'
<1> SUFFICES ASSUME IInv, Remove(r) PROVE IInv'
  OBVIOUS
<1>1. PICK x \in Added : x = request[r].name
  BY DEF IInv, Underway, Remove
<1>2. request[r].pc = "remove" /\ UNCHANGED <<up, parent, overlap, boots>>
  BY DEF Remove
<1>3. parent' \in Cache
  BY <1>2 DEF IInv, Shape
<1>4. CASE store.role = x
  <2>1. UNCHANGED store /\ request' = [request EXCEPT ![r] = NoRequest]
    BY <1>1, <1>4 DEF Remove, restrict, IInv, Shape
  <2>2. PICK q \in Request : q = NoRequest
    BY Blanks
  <2>3. q.pc = "idle" /\ request' = [request EXCEPT ![r] = q]
    BY <2>1, <2>2, Blanks
  <2>4. ~overlap => parent' = store'
    <3> SUFFICES ASSUME ~overlap PROVE parent = store
      BY <1>2, <2>1
    <3>1. up
      BY <1>2 DEF IInv, Underway
    <3>2. \A s \in Requests : s # r => request[s].pc = "idle"
      BY <1>2 DEF IInv, InStep
    <3> QED BY <1>2, <3>1, <3>2 DEF IInv, InStep
  <2>5. store' \in Cache /\ Assigned'
    BY <1>2, <2>1, StoreStays
  <2> QED BY <1>2, <1>3, <2>3, <2>4, <2>5, GoesOn
<1>5. CASE store.role # x
  <2>1. /\ store' = [store EXCEPT !.added[x] = None]
        /\ request' = [request EXCEPT ![r] = [NoRequest EXCEPT !.pc = "catalog"]]
    BY <1>1, <1>5 DEF Remove, restrict, IInv, Shape
  <2>2. PICK n \in Request : n = NoRequest
    BY Blanks
  <2>3. PICK q : q = [n EXCEPT !.pc = "catalog"]
    OBVIOUS
  <2>4. q \in Request /\ q.pc = "catalog" /\ request' = [request EXCEPT ![r] = q]
    BY <2>1, <2>2, <2>3 DEF Request
  <2>5. /\ store' \in Cache /\ store'.role = store.role
        /\ store'.added = [store.added EXCEPT ![x] = None]
    BY <2>1 DEF IInv, Shape, Cache
  <2>6. Assigned'
    BY <1>2, <1>5, <2>5 DEF IInv, Shape, Cache, Assigned
  <2> QED BY <1>2, <1>3, <2>4, <2>5, <2>6, GoesOn
<1> QED BY <1>4, <1>5

\* The role is pointed at a model, or the foreign key refuses.
LEMMA PointIInv == ASSUME NEW r \in Requests PROVE IInv /\ Point(r) => IInv'
<1> SUFFICES ASSUME IInv, Point(r) PROVE IInv'
  OBVIOUS
<1>1. PICK x \in Names : x = request[r].name
  BY DEF IInv, Underway, Point
<1>2. request[r].pc = "point" /\ UNCHANGED <<up, parent, overlap, boots>>
  BY DEF Point
<1>3. parent' \in Cache
  BY <1>2 DEF IInv, Shape
<1>4. CASE x \in Added /\ store.added[x] = None
  <2>1. UNCHANGED store /\ request' = [request EXCEPT ![r] = NoRequest]
    BY <1>1, <1>4 DEF Point
  <2>2. PICK q \in Request : q = NoRequest
    BY Blanks
  <2>3. q.pc = "idle" /\ request' = [request EXCEPT ![r] = q]
    BY <2>1, <2>2, Blanks
  <2>4. ~overlap => parent' = store'
    <3> SUFFICES ASSUME ~overlap PROVE parent = store
      BY <1>2, <2>1
    <3>1. up
      BY <1>2 DEF IInv, Underway
    <3>2. \A s \in Requests : s # r => request[s].pc = "idle"
      BY <1>2 DEF IInv, InStep
    <3> QED BY <1>2, <3>1, <3>2 DEF IInv, InStep
  <2>5. store' \in Cache /\ Assigned'
    BY <1>2, <2>1, StoreStays
  <2> QED BY <1>2, <1>3, <2>3, <2>4, <2>5, GoesOn
<1>5. CASE ~(x \in Added /\ store.added[x] = None)
  <2>1. /\ store' = [store EXCEPT !.role = x]
        /\ request' = [request EXCEPT ![r] = [NoRequest EXCEPT !.pc = "catalog"]]
    BY <1>1, <1>5 DEF Point
  <2>2. PICK n \in Request : n = NoRequest
    BY Blanks
  <2>3. PICK q : q = [n EXCEPT !.pc = "catalog"]
    OBVIOUS
  <2>4. q \in Request /\ q.pc = "catalog" /\ request' = [request EXCEPT ![r] = q]
    BY <2>1, <2>2, <2>3 DEF Request
  <2>5. store' \in Cache /\ store'.role = x /\ store'.added = store.added
    BY <2>1 DEF IInv, Shape, Cache
  <2>6. Assigned'
    BY <1>5, <2>5 DEF Assigned, Names
  <2> QED BY <1>2, <1>3, <2>4, <2>5, <2>6, GoesOn
<1> QED BY <1>4, <1>5

\* A reload reads the catalog.
LEMMA ReadCatalogIInv == ASSUME NEW r \in Requests PROVE IInv /\ ReadCatalog(r) => IInv'
<1> SUFFICES ASSUME IInv, ReadCatalog(r) PROVE IInv'
  OBVIOUS
<1>1. PICK t \in Request : t = request[r]
  BY DEF IInv, Shape
<1>2. t.pc = "catalog" /\ UNCHANGED <<up, store, parent, overlap, boots>>
  BY <1>1 DEF ReadCatalog
<1>3. PICK cat \in Catalog : cat = CatalogOf(store)
  BY DEF IInv, Shape, Cache, Catalog, CatalogOf
<1>4. PICK q : q = [t EXCEPT !.pc = "roles", !.read = cat]
  OBVIOUS
<1>5. q \in Request /\ q.pc = "roles" /\ q.read = cat
  BY <1>4 DEF Request
<1>6. request' = [request EXCEPT ![r] = q]
  BY <1>1, <1>3, <1>4 DEF ReadCatalog, IInv, Shape
<1>7. store' \in Cache /\ Assigned' /\ parent' \in Cache
  BY <1>2, StoreStays DEF IInv, Shape
<1>8. q.read = CatalogOf(store')
  BY <1>2, <1>3, <1>5
<1> QED BY <1>1, <1>2, <1>5, <1>6, <1>7, <1>8, GoesOn

\* A reload reads the roles: with the catalog it has read, they are the store.
LEMMA ReadRolesIInv == ASSUME NEW r \in Requests PROVE IInv /\ ReadRoles(r) => IInv'
<1> SUFFICES ASSUME IInv, ReadRoles(r) PROVE IInv'
  OBVIOUS
<1>1. PICK t \in Request : t = request[r]
  BY DEF IInv, Shape
<1>2. t.pc = "roles" /\ UNCHANGED <<up, store, parent, overlap, boots>>
  BY <1>1 DEF ReadRoles
<1>3. PICK fresh \in Cache : fresh = With(t.read, store.role)
  BY DEF IInv, Shape, Cache, Catalog, With, Request
<1>4. PICK q : q = [t EXCEPT !.pc = "set", !.fresh = fresh]
  OBVIOUS
<1>5. q \in Request /\ q.pc = "set" /\ q.fresh = fresh
  BY <1>4 DEF Request
<1>6. request' = [request EXCEPT ![r] = q]
  BY <1>1, <1>3, <1>4 DEF ReadRoles, IInv, Shape
<1>7. store' \in Cache /\ Assigned' /\ parent' \in Cache
  BY <1>2, StoreStays DEF IInv, Shape
<1>8. ~overlap => q.fresh = store'
  <2> SUFFICES ASSUME ~overlap PROVE fresh = store
    BY <1>2, <1>5
  <2>1. t.read = CatalogOf(store)
    BY <1>1, <1>2 DEF IInv, InStep
  <2>2. fresh = [added |-> store.added, measured |-> store.measured, role |-> store.role]
    BY <1>3, <2>1 DEF With, CatalogOf
  <2> QED BY <2>2 DEF IInv, Shape, Cache
<1> QED BY <1>1, <1>2, <1>5, <1>6, <1>7, <1>8, GoesOn

\* The cache is set.
LEMMA SetConfigIInv == ASSUME NEW r \in Requests PROVE IInv /\ SetConfig(r) => IInv'
<1> SUFFICES ASSUME IInv, SetConfig(r) PROVE IInv'
  OBVIOUS
<1>1. PICK t \in Request : t = request[r]
  BY DEF IInv, Shape
<1>2. /\ t.pc = "set" /\ parent' = t.fresh /\ UNCHANGED <<up, store, overlap, boots>>
      /\ request' = [request EXCEPT ![r] = NoRequest]
  BY <1>1 DEF SetConfig, set_config
<1>3. PICK q \in Request : q = NoRequest
  BY Blanks
<1>4. q.pc = "idle" /\ request' = [request EXCEPT ![r] = q]
  BY <1>2, <1>3, Blanks
<1>5. store' \in Cache /\ Assigned' /\ parent' \in Cache
  BY <1>2, StoreStays DEF Request
<1>6. ~overlap => parent' = store'
  BY <1>1, <1>2 DEF IInv, InStep
<1> QED BY <1>1, <1>2, <1>4, <1>5, <1>6, GoesOn

-----------------------------------------------------------------------------
\* No step of a call touches the configuration.
LEMMA CallsApart ==
  ASSUME NEW c \in Calls, run_with_deadline(c) \/ Child(c) \/ Parent(c)
  PROVE  UNCHANGED <<up, store, parent, request, overlap, boots>>
<1>1. ASSUME NEW d, Move(c, d) PROVE UNCHANGED <<up, store, parent, request, overlap, boots>>
  BY <1>1 DEF Move
<1>2. CASE run_with_deadline(c)
  BY <1>1, <1>2 DEF run_with_deadline
<1>3. CASE Parent(c)
  BY <1>1, <1>3 DEF Parent, Terminate, Terminated, Kill, Collect, Return
<1>4. CASE _ensure_loaded(c) \/ role_name(c)
  BY <1>1, <1>4 DEF _ensure_loaded, role_name
<1>5. CASE _fit(c)
  BY <1>1, <1>5 DEF _fit, Raise
<1>6. CASE _call(c)
  BY <1>1, <1>6 DEF _call, Refit
<1>7. CASE Answer(c) \/ Outage(c)
  BY <1>1, <1>7 DEF Answer, Outage, Raise
<1>8. CASE Refuse(c) \/ Hang(c)
  BY <1>1, <1>8 DEF Refuse, Hang, Raise
<1>9. CASE _record_call(c) \/ _entry(c) \/ Die(c)
  BY <1>1, <1>9 DEF _record_call, _entry, Die, Raise
<1> QED BY <1>2, <1>3, <1>4, <1>5, <1>6, <1>7, <1>8, <1>9 DEF Child

\* The invariant is inductive.
LEMMA NextIInv == IInv /\ [Next]_vars => IInv'
<1> SUFFICES ASSUME IInv, [Next]_vars PROVE IInv'
  OBVIOUS
<1>1. ASSUME NEW r \in Requests, Writing(r) PROVE IInv'
  BY <1>1, UpsertIInv, DeleteIInv, RemoveIInv, SetRoleIInv, PointIInv, ReadCatalogIInv,
     ReadRolesIInv, SetConfigIInv DEF Writing
<1>2. ASSUME NEW c \in Calls, run_with_deadline(c) \/ Child(c) \/ Parent(c) PROVE IInv'
  BY <1>2, CallsApart, CallsIInv
<1>3. CASE UNCHANGED vars
  BY <1>3, CallsIInv DEF vars
<1> QED BY <1>1, <1>2, <1>3, BootIInv, CrashIInv DEF Next

-----------------------------------------------------------------------------
\* One call.  Its prompt as it came, and whether that overran the model asked for.
Whole(d) == d.prompt.fixed + d.prompt.context
Overran(d) ==
  spec(d.cache, d.asked) # None /\ Whole(d) > spec(d.cache, d.asked).window

\* Fitted to the model asked for, and condensed only if it overran that one.
FitsAsked(d) ==
  /\ Fits(d, d.asked)
  /\ d.condensed => Overran(d)
  /\ ~d.condensed => d.size = Whole(d)

\* Fit for a model to answer, or spared a second condensing: FitsOneAsked, of any name.
Spared(local, d) ==
  /\ spec(d.cache, d.asked) # None /\ d.size <= spec(d.cache, d.asked).window
  /\ local => Whole(d) > spec(d.cache, d.asked).window
Good(local, d, n) == Fits(d, n) \/ Spared(local, d)

\* About to be fitted to the model asked for, or a second time, to the local one.
Fitting(local, d) ==
  \/ d.target = d.asked /\ ~d.condensed /\ d.size = Whole(d)
  \/ /\ local /\ d.target # d.asked /\ d.target = LocalModel(d.cache, d.asked)
     /\ FitsAsked(d)

\* Where a call's prompt is, on a local-only box or not, at each stage of it.
OnCourse(local, d) ==
  /\ d.pc \in {"resolve", "fit", "fitted", "rung", "record", "put"} => d.cache.role \in Names
  /\ d.pc \in {"fit", "fitted", "rung", "record", "put"} =>
       d.prompt \in Prompts /\ d.asked \in Names /\ d.target \in Names
  /\ d.summary => d.pc = "rung"
  /\ d.condensed => d.pc \in {"fit", "fitted", "rung", "record", "put"}
  /\ d.pc \notin {"record", "put"} => d.answered = None
  /\ d.pc # "put" => d.row = None
  /\ d.pc = "fit" => Fitting(local, d)
  /\ d.pc = "fitted" =>
       \/ d.target = d.asked /\ FitsAsked(d)
       \/ /\ local /\ d.target # d.asked /\ d.target = LocalModel(d.cache, d.asked)
          /\ Good(local, d, d.target)
  /\ d.pc = "rung" => d.rungs # <<>>
  /\ d.pc = "rung" /\ d.summary =>
       Fitting(local, d) /\ ~Within(d.cache, d.target, d.size)
  /\ d.pc = "rung" /\ ~d.summary => \A i \in DOMAIN d.rungs : Good(local, d, d.rungs[i])
  /\ d.pc \in {"record", "put"} => d.answered \in Names /\ Good(local, d, d.answered)
  /\ d.pc = "record" => d.noted = d.answered
  /\ d.pc = "put" => d.row \in {None, <<d.asked, d.answered>>}

\* The calls have their types and are on course; none outlives the kernel.
Works ==
  /\ mode \in BOOLEAN /\ writes \in Nat /\ boots <= MaxBoots
  /\ call \in [Calls -> Call]
  /\ \A c \in Calls : OnCourse(mode, call[c])
  /\ ~up => \A c \in Calls : call[c].pc = "idle"

\* What spec knows of a name.
LEMMA SpecType ==
  ASSUME NEW k \in Cache, NEW n \in Names
  PROVE  /\ spec(k, n) \in Model \cup {None}
         /\ n \in BuiltinNames => spec(k, n) \in Model
<1>1. ASSUME NEW b \in BuiltinNames PROVE BUILTIN_MODELS[b] \in Model
  <2>1. PICK p \in Providers : p = IF b \in {"pro", "flash"} THEN "google"
                                   ELSE IF b \in {"glm", "oss"} THEN "scaleway"
                                   ELSE IF b \in {"large", "ministral"} THEN "mistral" ELSE "ollama"
    BY DEF Providers
  <2>2. PICK w \in Nat \ {0} : w = IF b \in {"flash", "oss", "ministral"} THEN 1 ELSE Wide
    BY WindowsAssumption
  <2>3. BUILTIN_MODELS[b] = [provider |-> p, window |-> w]
    BY <2>1, <2>2 DEF BUILTIN_MODELS
  <2> QED BY <2>3 DEF Model
<1>2. ASSUME NEW b \in BuiltinNames PROVE Builtin(k)[b] \in Model
  <2>1. CASE b # "qwen" \/ k.measured = 0
    <3>1. Builtin(k)[b] = BUILTIN_MODELS[b]
      BY <1>1, <2>1 DEF Builtin, BUILTIN_MODELS
    <3> QED BY <1>1, <3>1
  <2>2. CASE b = "qwen" /\ k.measured # 0
    <3>1. PICK w \in Nat \ {0} : w = k.measured
      BY <2>2, Constants DEF Cache
    <3>2. Builtin(k)[b] = [BUILTIN_MODELS[b] EXCEPT !.window = w]
      BY <2>2, <3>1 DEF Builtin, BUILTIN_MODELS
    <3> QED BY <1>1, <3>2 DEF Model
  <2> QED BY <2>1, <2>2
<1>3. CASE n \in Added
  <2>1. n \notin BuiltinNames /\ spec(k, n) = k.added[n]
    BY <1>3, Constants DEF spec
  <2> QED BY <1>3, <2>1 DEF Cache
<1>4. CASE n \notin Added
  <2>1. n \in BuiltinNames /\ spec(k, n) = Builtin(k)[n]
    BY <1>4 DEF spec, Names
  <2> QED BY <1>2, <2>1
<1> QED BY <1>3, <1>4

\* The rungs of a ladder are names, one at least; of a model that is not known, itself.
LEMMA LadderType ==
  ASSUME NEW k \in Cache, NEW n \in Names
  PROVE  /\ Ladder(k, n) \in Seq(Names) /\ Ladder(k, n) # <<>>
         /\ spec(k, n) = None => Ladder(k, n) = <<n>>
<1>1. /\ "glm" \in Names /\ "oss" \in Names /\ "large" \in Names /\ "ministral" \in Names
      /\ "qwen" \in Names
  BY DEF Names, BuiltinNames
<1>2. \A m \in Names : _scaleway_fallback(m) \in Names /\ _mistral_fallback(m) \in Names
  BY <1>1 DEF _scaleway_fallback, _mistral_fallback
<1>3. PICK s \in Names : s = _scaleway_fallback(n)
  BY <1>2
<1>4. PICK g \in Names, h \in Names : g = _mistral_fallback(s) /\ h = _mistral_fallback(n)
  BY <1>2
<1>5. Ladder(k, n) \in {<<n, s, g, "qwen">>, <<n, h, "qwen">>, <<n>>}
  BY <1>3, <1>4 DEF Ladder
<1>6. spec(k, n) = None => Ladder(k, n) = <<n>>
  BY DEF Ladder, provider
<1>7. <<n, s, g, "qwen">> \in Seq(Names) /\ <<n, s, g, "qwen">> # <<>>
  BY <1>1
<1>8. <<n, h, "qwen">> \in Seq(Names) /\ <<n, h, "qwen">> # <<>>
  BY <1>1
<1>9. <<n>> \in Seq(Names) /\ <<n>> # <<>>
  OBVIOUS
<1> QED BY <1>5, <1>6, <1>7, <1>8, <1>9

\* The model of a local-only box is one that is known.
LEMMA LocalType ==
  ASSUME NEW k \in Cache, NEW n \in Names
  PROVE  LocalModel(k, n) \in Names /\ spec(k, LocalModel(k, n)) # None
<1>1. "qwen" \in BuiltinNames /\ "qwen" \in Names
  BY DEF Names, BuiltinNames
<1>2. spec(k, "qwen") # None
  BY <1>1, SpecType, Constants
<1> QED BY <1>1, <1>2 DEF LocalModel

-----------------------------------------------------------------------------
\* Work that has no prompt yet, or no longer, is on course.
LEMMA Quiet ==
  ASSUME NEW local, NEW d, d.pc \notin {"resolve", "fit", "fitted", "rung", "record", "put"},
         d.answered = None, d.row = None, d.summary = FALSE, d.condensed = FALSE
  PROVE  OnCourse(local, d)
BY DEF OnCourse

\* A unit of work that does not run.
LEMMA NoCallType ==
  /\ NoCall \in Call
  /\ NoCall.answered = None /\ NoCall.row = None /\ NoCall.pc = "idle"
  /\ NoCall.summary = FALSE /\ NoCall.condensed = FALSE
BY Blanks DEF NoCall, Call

\* A call goes on: what its step must show.
LEMMA MovesOn ==
  ASSUME Works, up, NEW c \in Calls, NEW d \in Call, OnCourse(mode, d), Move(c, d)
  PROVE  Works'
<1>1. call' = [call EXCEPT ![c] = d] /\ UNCHANGED <<mode, up, writes, boots>>
  BY DEF Move
<1>2. call' \in [Calls -> Call]
  BY <1>1 DEF Works
<1>3. ASSUME NEW e \in Calls PROVE OnCourse(mode', call'[e])
  <2>1. OnCourse(mode, call'[e])
    BY <1>1 DEF Works
  <2> QED BY <1>1, <2>1
<1> QED BY <1>1, <1>2, <1>3 DEF Works

\* A child that is through keeps nothing of its work but where it is.
LEMMA WorkEnds ==
  ASSUME Works, up, NEW c \in Calls,
         NEW pc \in {"catalog", "hung", "flushing", "exited", "terminating"},
         Move(c, [NoCall EXCEPT !.pc = pc])
  PROVE  Works'
<1>1. PICK n \in Call : n = NoCall
  BY NoCallType
<1>2. PICK d : d = [n EXCEPT !.pc = pc]
  OBVIOUS
<1>3. /\ d \in Call /\ d.pc = pc /\ d.answered = n.answered /\ d.row = n.row
      /\ d.summary = n.summary /\ d.condensed = n.condensed
  BY <1>2 DEF Call
<1>4. OnCourse(mode, d)
  BY <1>1, <1>3, NoCallType, Quiet
<1> QED BY <1>1, <1>2, <1>3, <1>4, MovesOn

\* Or what it brings back, too.
LEMMA WorkExits ==
  ASSUME Works, up, NEW c \in Calls, NEW result \in {"completed", "crashed"},
         Move(c, [NoCall EXCEPT !.pc = "exited", !.result = result])
  PROVE  Works'
<1>1. PICK n \in Call : n = NoCall
  BY NoCallType
<1>2. PICK d : d = [n EXCEPT !.pc = "exited", !.result = result]
  OBVIOUS
<1>3. /\ d \in Call /\ d.pc = "exited" /\ d.answered = n.answered /\ d.row = n.row
      /\ d.summary = n.summary /\ d.condensed = n.condensed
  BY <1>2 DEF Call
<1>4. OnCourse(mode, d)
  BY <1>1, <1>3, NoCallType, Quiet
<1> QED BY <1>1, <1>2, <1>3, <1>4, MovesOn

\* It raised.
LEMMA RaiseWorks == ASSUME Works, up, NEW c \in Calls, Raise(c) PROVE Works'
<1>1. Move(c, [NoCall EXCEPT !.pc = "exited", !.result = "crashed"])
  BY DEF Raise
<1> QED BY <1>1, WorkExits

\* A child is spawned.
LEMMA SpawnWorks == ASSUME NEW c \in Calls PROVE Works /\ run_with_deadline(c) => Works'
<1> SUFFICES ASSUME Works, run_with_deadline(c) PROVE Works'
  OBVIOUS
<1>1. up /\ Move(c, [NoCall EXCEPT !.pc = "catalog"])
  BY DEF run_with_deadline
<1> QED BY <1>1, WorkEnds

\* A child loads its cache; the store has a role by then.
LEMMA LoadWorks ==
  ASSUME NEW c \in Calls PROVE IInv /\ Works /\ _ensure_loaded(c) => Works'
<1> SUFFICES ASSUME IInv, Works, _ensure_loaded(c) PROVE Works'
  OBVIOUS
<1>1. PICK t \in Call : t = call[c]
  BY DEF Works
<1>2. OnCourse(mode, t) /\ up /\ t.pc \in {"catalog", "roles"}
  BY <1>1 DEF Works, _ensure_loaded
<1>3. store \in Cache /\ store.role \in Names
  BY <1>2, Constants DEF IInv, Shape, Underway, Assigned, Names
<1>4. t.answered = None /\ t.row = None /\ t.summary = FALSE /\ t.condensed = FALSE
  BY <1>2 DEF OnCourse, Call
<1>5. ASSUME Move(c, [t EXCEPT !.pc = "roles", !.read = CatalogOf(store)]) PROVE Works'
  <2>1. PICK n \in Catalog : n = CatalogOf(store)
    BY <1>3 DEF Cache, Catalog, CatalogOf
  <2>2. PICK d : d = [t EXCEPT !.pc = "roles", !.read = n]
    OBVIOUS
  <2>3. /\ d \in Call /\ d.pc = "roles" /\ d.answered = t.answered /\ d.row = t.row
        /\ d.summary = t.summary /\ d.condensed = t.condensed
    BY <2>2 DEF Call
  <2>4. OnCourse(mode, d)
    BY <1>4, <2>3, Quiet
  <2> QED BY <1>2, <1>5, <2>1, <2>2, <2>3, <2>4, MovesOn
<1>6. ASSUME NEW d \in Call, d.pc = "resolve", d.cache.role \in Names, d.answered = t.answered,
             d.row = t.row, d.summary = t.summary, d.condensed = t.condensed, Move(c, d)
      PROVE  Works'
  <2>1. OnCourse(mode, d)
    BY <1>4, <1>6 DEF OnCourse
  <2> QED BY <1>2, <1>6, <2>1, MovesOn
<1>7. ASSUME Move(c, [t EXCEPT !.pc = "resolve", !.read = NoCatalog,
                               !.cache = With(t.read, store.role)])
      PROVE  Works'
  <2>1. PICK cat \in Catalog, role \in Names : cat = t.read /\ role = store.role
    BY <1>3 DEF Call
  <2>2. With(cat, role) \in Cache /\ With(cat, role).role = role
    BY DEF Catalog, Cache, With
  <2>3. PICK k \in Cache : k = With(cat, role) /\ k.role = role
    BY <2>2
  <2>4. PICK n \in Catalog : n = NoCatalog
    BY Blanks
  <2>5. PICK d : d = [t EXCEPT !.pc = "resolve", !.read = n, !.cache = k]
    OBVIOUS
  <2>6. /\ d \in Call /\ d.pc = "resolve" /\ d.cache = k /\ d.answered = t.answered
        /\ d.row = t.row /\ d.summary = t.summary /\ d.condensed = t.condensed
    BY <2>5 DEF Call
  <2> QED BY <1>6, <1>7, <2>1, <2>3, <2>4, <2>5, <2>6
<1>8. ASSUME Move(c, [t EXCEPT !.pc = "resolve", !.cache = Seed]) PROVE Works'
  <2>1. PICK k \in Cache : k = Seed /\ k.role \in Names
    BY Blanks DEF Seed, Names, BuiltinNames
  <2>2. PICK d : d = [t EXCEPT !.pc = "resolve", !.cache = k]
    OBVIOUS
  <2>3. /\ d \in Call /\ d.pc = "resolve" /\ d.cache = k /\ d.answered = t.answered
        /\ d.row = t.row /\ d.summary = t.summary /\ d.condensed = t.condensed
    BY <2>2 DEF Call
  <2> QED BY <1>6, <1>8, <2>1, <2>2, <2>3
<1> QED BY <1>1, <1>5, <1>7, <1>8 DEF _ensure_loaded

\* The prompt comes, for the role's model.
LEMMA RoleWorks == ASSUME NEW c \in Calls PROVE Works /\ role_name(c) => Works'
<1> SUFFICES ASSUME Works, role_name(c) PROVE Works'
  OBVIOUS
<1>1. PICK t \in Call : t = call[c]
  BY DEF Works
<1>2. OnCourse(mode, t) /\ up /\ t.pc = "resolve"
  BY <1>1 DEF Works, role_name
<1>3. PICK n \in Names : n = t.cache.role
  BY <1>2 DEF OnCourse
<1>4. PICK p \in Prompts : Move(c, [t EXCEPT !.pc = "fit", !.prompt = p, !.size = p.fixed + p.context,
                                    !.asked = n, !.target = n, !.noted = None])
  BY <1>1, <1>3 DEF role_name
<1>5. PICK w \in Nat : w = p.fixed + p.context
  BY PromptsAssumption
<1>6. PICK d : d = [t EXCEPT !.pc = "fit", !.prompt = p, !.size = w,
                             !.asked = n, !.target = n, !.noted = None]
  OBVIOUS
<1>7. /\ d \in Call /\ d.pc = "fit" /\ d.prompt = p /\ d.size = w /\ d.asked = n /\ d.target = n
      /\ d.cache = t.cache /\ d.answered = t.answered /\ d.row = t.row
      /\ d.summary = t.summary /\ d.condensed = t.condensed
  BY <1>6, ZenonT(30) DEF Call
<1>8. Whole(d) = w
  BY <1>5, <1>7 DEF Whole
<1>9. OnCourse(mode, d)
  BY <1>2, <1>3, <1>7, <1>8 DEF OnCourse, Fitting
<1>10. Move(c, d)
  BY <1>4, <1>5, <1>6
<1> QED BY <1>2, <1>7, <1>9, <1>10, MovesOn

\* Fitting, and what came of it, are read off the prompt, the sizes and the models alone.
LEMMA Alike ==
  ASSUME NEW local, NEW t, NEW d, NEW n,
         d.cache = t.cache, d.prompt = t.prompt, d.asked = t.asked, d.target = t.target,
         d.size = t.size, d.condensed = t.condensed
  PROVE  /\ Fits(d, n) <=> Fits(t, n)
         /\ FitsAsked(d) <=> FitsAsked(t)
         /\ Good(local, d, n) <=> Good(local, t, n)
         /\ Fitting(local, d) <=> Fitting(local, t)
         /\ Whole(d) = Whole(t) /\ (Overran(d) <=> Overran(t))
<1>1. Whole(d) = Whole(t)
  BY DEF Whole
<1>2. Overran(d) <=> Overran(t)
  BY <1>1 DEF Overran
<1>3. \A m : Fits(d, m) <=> Fits(t, m)
  BY DEF Fits
<1>4. FitsAsked(d) <=> FitsAsked(t)
  BY <1>1, <1>2, <1>3 DEF FitsAsked
<1>5. Spared(local, d) <=> Spared(local, t)
  BY <1>1 DEF Spared
<1> QED BY <1>1, <1>2, <1>3, <1>4, <1>5 DEF Good, Fitting

\* A prompt in hand, for a model that is asked for.
Held(d) ==
  /\ d.cache.role \in Names /\ d.prompt \in Prompts /\ d.asked \in Names /\ d.target \in Names
  /\ d.answered = None /\ d.row = None

\* Where a call may be with its prompt: about to be fitted,
LEMMA OnFit ==
  ASSUME NEW local, NEW d, d.pc = "fit", Held(d), d.summary = FALSE, Fitting(local, d)
  PROVE  OnCourse(local, d)
BY DEF OnCourse, Held

\* fitted,
LEMMA OnFitted ==
  ASSUME NEW local, NEW d, d.pc = "fitted", Held(d), d.summary = FALSE,
         \/ d.target = d.asked /\ FitsAsked(d)
         \/ /\ local /\ d.target # d.asked /\ d.target = LocalModel(d.cache, d.asked)
            /\ Good(local, d, d.target)
  PROVE  OnCourse(local, d)
BY DEF OnCourse, Held

\* on its way to a summary,
LEMMA OnSummary ==
  ASSUME NEW local, NEW d, d.pc = "rung", Held(d), d.summary = TRUE, d.rungs # <<>>,
         Fitting(local, d), ~Within(d.cache, d.target, d.size)
  PROVE  OnCourse(local, d)
BY DEF OnCourse, Held

\* or to its reply.
LEMMA OnReply ==
  ASSUME NEW local, NEW d, d.pc = "rung", Held(d), d.summary = FALSE, d.rungs # <<>>,
         \A i \in DOMAIN d.rungs : Good(local, d, d.rungs[i])
  PROVE  OnCourse(local, d)
BY DEF OnCourse, Held

\* The prompt is fitted to a model, or a call is made to condense it, or it cannot be.
LEMMA FitWorks == ASSUME NEW c \in Calls PROVE Works /\ _fit(c) => Works'
<1> SUFFICES ASSUME Works, _fit(c) PROVE Works'
  OBVIOUS
<1>1. PICK t \in Call : t = call[c]
  BY DEF Works
<1>2. OnCourse(mode, t) /\ up /\ t.pc = "fit"
  BY <1>1 DEF Works, _fit
<1>3. Held(t) /\ t.summary = FALSE /\ Fitting(mode, t)
  BY <1>2 DEF OnCourse, Held, Call
<1>4. CASE Within(t.cache, t.target, t.size) /\ Move(c, [t EXCEPT !.pc = "fitted"])
  <2>1. PICK d : d = [t EXCEPT !.pc = "fitted"]
    OBVIOUS
  <2>2. /\ d \in Call /\ d.pc = "fitted" /\ d.cache = t.cache /\ d.prompt = t.prompt
        /\ d.asked = t.asked /\ d.target = t.target /\ d.size = t.size
        /\ d.condensed = t.condensed /\ d.summary = t.summary
        /\ d.answered = t.answered /\ d.row = t.row
    BY <2>1 DEF Call
  <2>3. Held(d)
    BY <1>3, <2>2 DEF Held
  <2>4. Fitting(mode, d) /\ Fits(d, d.target)
    BY <1>3, <1>4, <2>2, Alike DEF Fits
  <2>5. OnCourse(mode, d)
    BY <1>3, <2>2, <2>3, <2>4, OnFitted DEF Fitting, FitsAsked, Good
  <2> QED BY <1>2, <1>4, <2>1, <2>2, <2>5, MovesOn
<1>5. CASE /\ ~Within(t.cache, t.target, t.size)
           /\ Move(c, [t EXCEPT !.pc = "rung", !.summary = TRUE,
                                !.rungs = Route(t.cache, t.target)])
  <2>1. PICK s \in Seq(Names) : s = Route(t.cache, t.target) /\ s # <<>>
    <3>1. t.cache \in Cache /\ t.target \in Names
      BY <1>3 DEF Held, Call
    <3>2. LocalModel(t.cache, t.target) \in Names
      BY <3>1, LocalType
    <3>3. Ladder(t.cache, t.target) \in Seq(Names) /\ Ladder(t.cache, t.target) # <<>>
      BY <3>1, LadderType
    <3>4. PICK l \in Names : l = LocalModel(t.cache, t.target)
      BY <3>2
    <3>5. <<l>> \in Seq(Names) /\ <<l>> # <<>>
      OBVIOUS
    <3> QED BY <3>3, <3>4, <3>5 DEF Route
  <2>2. PICK d : d = [t EXCEPT !.pc = "rung", !.summary = TRUE, !.rungs = s]
    OBVIOUS
  <2>3. /\ d \in Call /\ d.pc = "rung" /\ d.cache = t.cache /\ d.prompt = t.prompt
        /\ d.asked = t.asked /\ d.target = t.target /\ d.size = t.size
        /\ d.condensed = t.condensed /\ d.summary = TRUE /\ d.rungs = s
        /\ d.answered = t.answered /\ d.row = t.row
    BY <2>2 DEF Call
  <2>4. Held(d)
    BY <1>3, <2>3 DEF Held
  <2>5. Fitting(mode, d)
    BY <1>3, <2>3, Alike
  <2>6. OnCourse(mode, d)
    BY <1>5, <2>1, <2>3, <2>4, <2>5, OnSummary
  <2> QED BY <1>2, <1>5, <2>1, <2>2, <2>3, <2>6, MovesOn
<1>6. CASE Raise(c)
  BY <1>2, <1>6, RaiseWorks
<1> QED BY <1>1, <1>4, <1>5, <1>6 DEF _fit

\* Every rung of a cloud ladder is fit, or spared, once the prompt fits the model asked for.
LEMMA LadderGood ==
  ASSUME NEW d, FitsAsked(d), d.cache \in Cache, d.asked \in Names,
         NEW i \in DOMAIN Ladder(d.cache, d.asked)
  PROVE  Good(FALSE, d, Ladder(d.cache, d.asked)[i])
<1>1. CASE spec(d.cache, d.asked) = None
  <2>1. Ladder(d.cache, d.asked) = <<d.asked>>
    BY <1>1, LadderType
  <2>2. Ladder(d.cache, d.asked)[i] = d.asked
    BY <2>1
  <2> QED BY <2>2 DEF FitsAsked, Good
<1>2. CASE spec(d.cache, d.asked) # None
  BY <1>2 DEF FitsAsked, Fits, Within, Good, Spared
<1> QED BY <1>1, <1>2

\* The model asked for is called down its ladder, or the prompt fitted again, to the local one.
LEMMA CallWorks == ASSUME NEW c \in Calls PROVE Works /\ _call(c) => Works'
<1> SUFFICES ASSUME Works, _call(c) PROVE Works'
  OBVIOUS
<1>1. PICK t \in Call : t = call[c]
  BY DEF Works
<1>2. OnCourse(mode, t) /\ up /\ t.pc = "fitted" /\ mode \in BOOLEAN
  BY <1>1 DEF Works, _call
<1>3. Held(t) /\ t.summary = FALSE /\ t.cache \in Cache
  BY <1>2 DEF OnCourse, Held, Call
<1>4. \/ t.target = t.asked /\ FitsAsked(t)
      \/ /\ mode /\ t.target # t.asked /\ t.target = LocalModel(t.cache, t.asked)
         /\ Good(mode, t, t.target)
  BY <1>2 DEF OnCourse
<1>5. PICK l \in Names : l = LocalModel(t.cache, t.asked)
  BY <1>3, LocalType DEF Held
<1>6. CASE mode /\ t.target # l /\ Move(c, [t EXCEPT !.pc = "fit", !.target = l])
  <2>1. PICK d : d = [t EXCEPT !.pc = "fit", !.target = l]
    OBVIOUS
  <2>2. /\ d \in Call /\ d.pc = "fit" /\ d.cache = t.cache /\ d.prompt = t.prompt
        /\ d.asked = t.asked /\ d.target = l /\ d.size = t.size
        /\ d.condensed = t.condensed /\ d.summary = t.summary
        /\ d.answered = t.answered /\ d.row = t.row
    BY <2>1 DEF Call
  <2>3. Held(d)
    BY <1>3, <2>2 DEF Held
  <2>4. FitsAsked(t) /\ t.asked # l
    BY <1>4, <1>5, <1>6
  <2>5. FitsAsked(d)
    BY <2>2, <2>4 DEF FitsAsked, Fits, Overran, Whole
  <2>6. Fitting(mode, d)
    BY <1>5, <1>6, <2>2, <2>4, <2>5 DEF Fitting
  <2>7. OnCourse(mode, d)
    BY <1>3, <2>2, <2>3, <2>6, OnFit
  <2> QED BY <1>2, <1>6, <2>1, <2>2, <2>7, MovesOn
<1>7. ASSUME NEW s \in Seq(Names), s # <<>>, \A i \in DOMAIN s : Good(mode, t, s[i]),
             Move(c, [t EXCEPT !.pc = "rung", !.rungs = s])
      PROVE  Works'
  <2>1. PICK d : d = [t EXCEPT !.pc = "rung", !.rungs = s]
    OBVIOUS
  <2>2. /\ d \in Call /\ d.pc = "rung" /\ d.cache = t.cache /\ d.prompt = t.prompt
        /\ d.asked = t.asked /\ d.target = t.target /\ d.size = t.size
        /\ d.condensed = t.condensed /\ d.summary = t.summary /\ d.rungs = s
        /\ d.answered = t.answered /\ d.row = t.row
    BY <2>1, ZenonT(30) DEF Call
  <2>3. Held(d)
    BY <1>3, <2>2 DEF Held
  <2>4. \A n : Good(mode, d, n) <=> Good(mode, t, n)
    BY <2>2, Alike
  <2>5. OnCourse(mode, d)
    BY <1>3, <1>7, <2>2, <2>3, <2>4, OnReply
  <2> QED BY <1>2, <1>7, <2>1, <2>2, <2>5, MovesOn
<1>8. CASE mode /\ t.target = l /\ Move(c, [t EXCEPT !.pc = "rung", !.rungs = <<l>>])
  <2>1. Good(mode, t, l)
    BY <1>4, <1>8 DEF FitsAsked, Good
  <2>2. PICK s : s = <<l>>
    OBVIOUS
  <2>3. s \in Seq(Names) /\ s # <<>> /\ \A i \in DOMAIN s : s[i] = l
    BY <2>2
  <2> QED BY <1>7, <1>8, <2>1, <2>2, <2>3
<1>9. CASE ~mode /\ Move(c, [t EXCEPT !.pc = "rung", !.rungs = Ladder(t.cache, t.asked)])
  <2>1. FitsAsked(t) /\ t.asked \in Names /\ mode = FALSE
    BY <1>2, <1>3, <1>4, <1>9 DEF Held
  <2>2. PICK s : s = Ladder(t.cache, t.asked)
    OBVIOUS
  <2>3. s \in Seq(Names) /\ s # <<>>
    BY <1>3, <2>1, <2>2, LadderType
  <2>4. \A i \in DOMAIN s : Good(mode, t, s[i])
    BY <1>3, <2>1, <2>2, LadderGood
  <2> QED BY <1>7, <1>9, <2>2, <2>3, <2>4
<1> QED BY <1>1, <1>5, <1>6, <1>8, <1>9 DEF _call, Refit

\* A condensed prompt fits the model it was condensed for, or its instructions alone do not;
\* one condensed before keeps its size.
LEMMA CondensedFits ==
  ASSUME NEW t \in Call, Held(t), ~Within(t.cache, t.target, t.size)
  PROVE  /\ Condensed(t) \in Nat
         /\ t.condensed => Condensed(t) = t.size
         /\ ~t.condensed => \/ Within(t.cache, t.target, Condensed(t))
                            \/ Condensed(t) = t.prompt.fixed
<1>1. spec(t.cache, t.target) # None /\ spec(t.cache, t.target) \in Model
  BY SpecType DEF Within, Held, Call
<1>2. PICK w \in Nat, f \in Nat : w = spec(t.cache, t.target).window /\ f = t.prompt.fixed
  BY <1>1, PromptsAssumption DEF Model, Held
<1>3. t.size \in Nat
  BY DEF Call
<1>4. CASE t.condensed
  BY <1>3, <1>4 DEF Condensed
<1>5. CASE ~t.condensed
  <2>1. Condensed(t) = f + IF w - f > 0 THEN w - f ELSE 0
    BY <1>2, <1>5 DEF Condensed
  <2>2. Condensed(t) \in Nat /\ (Condensed(t) <= w \/ Condensed(t) = f)
    BY <1>2, <2>1
  <2> QED BY <1>2, <1>5, <2>2 DEF Within
<1> QED BY <1>4, <1>5

\* Spliced back in, the prompt fits the model asked for; or it fits the local one, or is
\* spared, having been condensed for the other before.
LEMMA Spliced ==
  ASSUME NEW local, NEW t \in Call, Held(t), Fitting(local, t),
         ~Within(t.cache, t.target, t.size),
         NEW d \in Call, d.cache = t.cache, d.prompt = t.prompt, d.asked = t.asked,
         d.target = t.target, d.size = Condensed(t), d.condensed = TRUE
  PROVE  \/ d.target = d.asked /\ FitsAsked(d)
         \/ /\ local /\ d.target # d.asked /\ d.target = LocalModel(d.cache, d.asked)
            /\ Good(local, d, d.target)
<1>1. spec(t.cache, t.target) # None /\ spec(t.cache, t.target) \in Model
  BY SpecType DEF Within, Held, Call
<1>2. Whole(d) = Whole(t) /\ Whole(t) \in Nat /\ t.size \in Nat
  BY PromptsAssumption DEF Whole, Held, Call
<1>3. CASE t.target = t.asked /\ ~t.condensed /\ t.size = Whole(t)
  <2>1. Fits(d, d.asked)
    BY <1>3, CondensedFits DEF Fits
  <2>2. ~(Whole(t) <= spec(t.cache, t.asked).window)
    BY <1>3 DEF Within
  <2>3. spec(t.cache, t.asked).window \in Nat
    BY <1>1, <1>3 DEF Model
  <2>4. Overran(d)
    BY <1>1, <1>2, <1>3, <2>2, <2>3 DEF Overran
  <2> QED BY <1>3, <2>1, <2>4 DEF FitsAsked
<1>4. CASE /\ local /\ t.target # t.asked /\ t.target = LocalModel(t.cache, t.asked)
           /\ FitsAsked(t)
  <2>1. CASE ~t.condensed
    <3>1. Fits(d, d.target)
      BY <2>1, CondensedFits DEF Fits
    <3> QED BY <1>4, <3>1 DEF Good
  <2>2. CASE t.condensed
    <3>1. d.size = t.size /\ Overran(d)
      BY <1>2, <1>4, <2>2, CondensedFits DEF FitsAsked, Overran
    <3>2. Fits(d, d.target) \/ Spared(local, d)
      BY <1>4, <3>1 DEF FitsAsked, Fits, Within, Spared, Overran
    <3> QED BY <1>4, <3>2 DEF Good
  <2> QED BY <2>1, <2>2
<1> QED BY <1>3, <1>4 DEF Fitting

\* The rungs that are left of a call, and the one that answers.
LEMMA Rungs ==
  ASSUME NEW s \in Seq(Names), s # <<>>
  PROVE  /\ Head(s) \in Names /\ 1 \in DOMAIN s /\ Head(s) = s[1] /\ Tail(s) \in Seq(Names)
         /\ Len(s) # 1 => Tail(s) # <<>>
         /\ \A i \in DOMAIN Tail(s) : i + 1 \in DOMAIN s /\ Tail(s)[i] = s[i + 1]
<1>1. Len(s) \in Nat /\ Len(s) > 0 /\ DOMAIN s = 1 .. Len(s)
  OBVIOUS
<1>2. 1 \in DOMAIN s /\ Head(s) = s[1] /\ s[1] \in Names
  BY <1>1
<1>3. Tail(s) \in Seq(Names) /\ Len(Tail(s)) = Len(s) - 1 /\ DOMAIN Tail(s) = 1 .. Len(s) - 1
  BY <1>1
<1>4. Len(s) # 1 => Tail(s) # <<>>
  <2>1. PICK u \in Seq(Names) : u = Tail(s) /\ Len(u) = Len(s) - 1
    BY <1>3
  <2>2. u = <<>> => Len(u) = 0
    OBVIOUS
  <2> QED BY <1>1, <2>1, <2>2
<1>5. ASSUME NEW i \in DOMAIN Tail(s) PROVE i + 1 \in DOMAIN s /\ Tail(s)[i] = s[i + 1]
  BY <1>1, <1>3, <1>5
<1> QED BY <1>2, <1>3, <1>4, <1>5

\* A rung answers.
LEMMA AnswerWorks == ASSUME NEW c \in Calls PROVE Works /\ Answer(c) => Works'
<1> SUFFICES ASSUME Works, Answer(c) PROVE Works'
  OBVIOUS
<1>1. PICK t \in Call : t = call[c]
  BY DEF Works
<1>2. OnCourse(mode, t) /\ up /\ t.pc = "rung"
  BY <1>1 DEF Works, Answer
<1>3. Held(t) /\ t.rungs \in Seq(Names) /\ t.rungs # <<>>
  BY <1>2 DEF OnCourse, Held, Call
<1>4. PICK n \in Names : n = Head(t.rungs) /\ n = t.rungs[1] /\ 1 \in DOMAIN t.rungs
  BY <1>3, Rungs
<1>7. <<>> \in Seq(Names)
  OBVIOUS
<1>5. CASE /\ t.summary
           /\ Move(c, [t EXCEPT !.pc = "fitted", !.summary = FALSE, !.condensed = TRUE,
                                !.size = Condensed(t), !.noted = n, !.rungs = <<>>])
  <2>1. Fitting(mode, t) /\ ~Within(t.cache, t.target, t.size)
    BY <1>2, <1>5 DEF OnCourse
  <2>2. PICK w \in Nat : w = Condensed(t)
    BY <1>3, <2>1, CondensedFits
  <2>3. PICK e \in Seq(Names) : e = <<>>
    BY <1>7
  <2>4. PICK d : d = [t EXCEPT !.pc = "fitted", !.summary = FALSE, !.condensed = TRUE,
                               !.size = w, !.noted = n, !.rungs = e]
    OBVIOUS
  <2>5. /\ d \in Call /\ d.pc = "fitted" /\ d.cache = t.cache /\ d.prompt = t.prompt
        /\ d.asked = t.asked /\ d.target = t.target /\ d.size = w
        /\ d.condensed = TRUE /\ d.summary = FALSE
        /\ d.answered = t.answered /\ d.row = t.row
    BY <2>4, ZenonT(30) DEF Call
  <2>6. Held(d)
    BY <1>3, <2>5 DEF Held
  <2>7. \/ d.target = d.asked /\ FitsAsked(d)
        \/ /\ mode /\ d.target # d.asked /\ d.target = LocalModel(d.cache, d.asked)
           /\ Good(mode, d, d.target)
    BY <1>3, <2>1, <2>2, <2>5, Spliced
  <2>8. OnCourse(mode, d)
    BY <2>5, <2>6, <2>7, OnFitted
  <2> QED BY <1>2, <1>5, <2>2, <2>3, <2>4, <2>5, <2>8, MovesOn
<1>6. CASE /\ ~t.summary
           /\ Move(c, [t EXCEPT !.pc = "record", !.noted = n, !.answered = n, !.rungs = <<>>])
  <2>1. Good(mode, t, n)
    BY <1>2, <1>4, <1>6 DEF OnCourse
  <2>2. PICK e \in Seq(Names) : e = <<>>
    BY <1>7
  <2>3. PICK d : d = [t EXCEPT !.pc = "record", !.noted = n, !.answered = n, !.rungs = e]
    OBVIOUS
  <2>4. /\ d \in Call /\ d.pc = "record" /\ d.cache = t.cache /\ d.prompt = t.prompt
        /\ d.asked = t.asked /\ d.target = t.target /\ d.size = t.size /\ d.noted = n
        /\ d.condensed = t.condensed /\ d.summary = t.summary
        /\ d.answered = n /\ d.row = t.row
    BY <2>3, ZenonT(30) DEF Call
  <2>5. Good(mode, d, n)
    BY <2>1, <2>4, Alike
  <2>6. t.summary = FALSE
    BY <1>6 DEF Call
  <2>7. OnCourse(mode, d)
    BY <1>3, <2>4, <2>5, <2>6 DEF OnCourse, Held
  <2> QED BY <1>2, <1>6, <2>2, <2>3, <2>4, <2>7, MovesOn
<1> QED BY <1>1, <1>4, <1>5, <1>6 DEF Answer, _served

\* A rung is out: the next, or none.
LEMMA OutageWorks == ASSUME NEW c \in Calls PROVE Works /\ Outage(c) => Works'
<1> SUFFICES ASSUME Works, Outage(c) PROVE Works'
  OBVIOUS
<1>1. PICK t \in Call : t = call[c]
  BY DEF Works
<1>2. OnCourse(mode, t) /\ up /\ t.pc = "rung"
  BY <1>1 DEF Works, Outage
<1>3. Held(t) /\ t.rungs \in Seq(Names) /\ t.rungs # <<>>
  BY <1>2 DEF OnCourse, Held, Call
<1>4. CASE Raise(c)
  BY <1>2, <1>4, RaiseWorks
<1>5. CASE Len(t.rungs) # 1 /\ Move(c, [t EXCEPT !.rungs = Tail(@)])
  <2>1. PICK s \in Seq(Names) : s = Tail(t.rungs) /\ s # <<>>
    BY <1>3, <1>5, Rungs
  <2>2. PICK d : d = [t EXCEPT !.rungs = s]
    OBVIOUS
  <2>3. /\ d \in Call /\ d.pc = "rung" /\ d.cache = t.cache /\ d.prompt = t.prompt
        /\ d.asked = t.asked /\ d.target = t.target /\ d.size = t.size /\ d.rungs = s
        /\ d.condensed = t.condensed /\ d.summary = t.summary
        /\ d.answered = t.answered /\ d.row = t.row
    BY <1>2, <2>2 DEF Call
  <2>4. Held(d)
    BY <1>3, <2>3 DEF Held
  <2>5. CASE t.summary = TRUE
    <3>1. Fitting(mode, t) /\ ~Within(t.cache, t.target, t.size)
      BY <1>2, <2>5 DEF OnCourse
    <3>2. Fitting(mode, d)
      BY <2>3, <3>1, Alike
    <3>3. OnCourse(mode, d)
      BY <2>1, <2>3, <2>4, <2>5, <3>1, <3>2, OnSummary
    <3> QED BY <1>2, <1>5, <2>1, <2>2, <2>3, <3>3, MovesOn
  <2>6. CASE t.summary = FALSE
    <3>1. \A i \in DOMAIN t.rungs : Good(mode, t, t.rungs[i])
      BY <1>2, <2>6 DEF OnCourse
    <3>2. \A i \in DOMAIN s : Good(mode, t, s[i])
      BY <1>3, <2>1, <3>1, Rungs
    <3>3. \A n : Good(mode, d, n) <=> Good(mode, t, n)
      BY <2>3, Alike
    <3>4. OnCourse(mode, d)
      BY <2>1, <2>3, <2>4, <2>6, <3>2, <3>3, OnReply
    <3> QED BY <1>2, <1>5, <2>1, <2>2, <2>3, <3>4, MovesOn
  <2> QED BY <2>5, <2>6 DEF Call
<1> QED BY <1>1, <1>4, <1>5 DEF Outage

\* A child that is through by its own doing, by a provider's, or by the deadline.
LEMMA EndsWorks ==
  ASSUME NEW c \in Calls
  PROVE  Works /\ (Refuse(c) \/ Hang(c) \/ _entry(c) \/ Die(c) \/ Terminate(c)) => Works'
<1> SUFFICES ASSUME Works, Refuse(c) \/ Hang(c) \/ _entry(c) \/ Die(c) \/ Terminate(c)
             PROVE  Works'
  OBVIOUS
<1>1. up
  BY DEF Works, Refuse, Hang, _entry, Die, Terminate, Running
<1>2. CASE Raise(c)
  BY <1>1, <1>2, RaiseWorks
<1>3. CASE Move(c, [NoCall EXCEPT !.pc = "hung"])
  BY <1>1, <1>3, WorkEnds
<1>4. CASE Move(c, [NoCall EXCEPT !.pc = "flushing"])
  BY <1>1, <1>4, WorkEnds
<1>5. CASE Move(c, [NoCall EXCEPT !.pc = "terminating"])
  BY <1>1, <1>5, WorkEnds
<1>6. CASE Move(c, [NoCall EXCEPT !.pc = "exited", !.result = "completed"])
  BY <1>1, <1>6, WorkExits
<1> QED BY <1>2, <1>3, <1>4, <1>5, <1>6 DEF Refuse, Hang, _entry, Die, Terminate

\* The ledger's row.
LEMMA RecordWorks == ASSUME NEW c \in Calls PROVE Works /\ _record_call(c) => Works'
<1> SUFFICES ASSUME Works, _record_call(c) PROVE Works'
  OBVIOUS
<1>1. PICK t \in Call : t = call[c]
  BY DEF Works
<1>2. OnCourse(mode, t) /\ up /\ t.pc = "record"
  BY <1>1 DEF Works, _record_call
<1>3. /\ t.cache.role \in Names /\ t.prompt \in Prompts /\ t.asked \in Names /\ t.target \in Names
      /\ t.answered \in Names /\ Good(mode, t, t.answered) /\ t.noted = t.answered
      /\ t.summary = FALSE
  BY <1>2 DEF OnCourse, Call
<1>4. PICK row \in {None, <<t.asked, t.noted>>} :
        Move(c, [t EXCEPT !.pc = "put", !.row = row])
  BY <1>1 DEF _record_call
<1>5. row \in {None} \cup (Names \X Names) /\ row \in {None, <<t.asked, t.answered>>}
  BY <1>3
<1>6. PICK d : d = [t EXCEPT !.pc = "put", !.row = row]
  OBVIOUS
<1>7. /\ d \in Call /\ d.pc = "put" /\ d.cache = t.cache /\ d.prompt = t.prompt
      /\ d.asked = t.asked /\ d.target = t.target /\ d.size = t.size
      /\ d.condensed = t.condensed /\ d.summary = t.summary
      /\ d.answered = t.answered /\ d.row = row
  BY <1>5, <1>6, ZenonT(30) DEF Call
<1>8. Good(mode, d, d.answered)
  BY <1>3, <1>7, Alike
<1>9. OnCourse(mode, d)
  BY <1>3, <1>5, <1>7, <1>8 DEF OnCourse
<1> QED BY <1>2, <1>4, <1>6, <1>7, <1>9, MovesOn

\* The parent collects what is left of the work, kills what clings, and returns.
LEMMA ReportWorks ==
  ASSUME NEW c \in Calls
  PROVE  Works /\ (Kill(c) \/ Terminated(c) \/ Collect(c) \/ Return(c)) => Works'
<1> SUFFICES ASSUME Works, Kill(c) \/ Terminated(c) \/ Collect(c) \/ Return(c) PROVE Works'
  OBVIOUS
<1>1. PICK t \in Call : t = call[c]
  BY DEF Works
<1>2. /\ OnCourse(mode, t) /\ up
      /\ t.pc \notin {"resolve", "fit", "fitted", "rung", "record", "put"}
  BY <1>1 DEF Works, Kill, Terminated, Collect, Return
<1>3. t.answered = None /\ t.row = None /\ t.summary = FALSE /\ t.condensed = FALSE
  BY <1>2 DEF OnCourse, Call
<1>4. CASE Return(c)
  <2>1. OnCourse(mode, NoCall)
    BY NoCallType, Quiet
  <2> QED BY <1>2, <1>4, <2>1, NoCallType, MovesOn DEF Return
<1>5. ASSUME NEW d \in Call, d.pc \in {"reported", "clinging"}, d.answered = t.answered,
             d.row = t.row, d.summary = t.summary, d.condensed = t.condensed, Move(c, d)
      PROVE  Works'
  <2>1. OnCourse(mode, d)
    BY <1>3, <1>5, Quiet
  <2> QED BY <1>2, <1>5, <2>1, MovesOn
<1>6. CASE Move(c, [t EXCEPT !.pc = "reported", !.result = "timed_out"])
  <2>1. PICK d : d = [t EXCEPT !.pc = "reported", !.result = "timed_out"]
    OBVIOUS
  <2>2. /\ d \in Call /\ d.pc = "reported" /\ d.answered = t.answered /\ d.row = t.row
        /\ d.summary = t.summary /\ d.condensed = t.condensed
    BY <2>1 DEF Call
  <2> QED BY <1>5, <1>6, <2>1, <2>2
<1>7. ASSUME NEW pc \in {"reported", "clinging"}, Move(c, [t EXCEPT !.pc = pc]) PROVE Works'
  <2>1. PICK d : d = [t EXCEPT !.pc = pc]
    OBVIOUS
  <2>2. /\ d \in Call /\ d.pc = pc /\ d.answered = t.answered /\ d.row = t.row
        /\ d.summary = t.summary /\ d.condensed = t.condensed
    BY <2>1 DEF Call
  <2> QED BY <1>5, <1>7, <2>1, <2>2
<1> QED BY <1>1, <1>4, <1>6, <1>7 DEF Kill, Terminated, Collect

\* Requests leave the calls alone.
LEMMA WritingWorks == ASSUME NEW r \in Requests PROVE Works /\ Writing(r) => Works'
<1> SUFFICES ASSUME Works, Writing(r) PROVE Works'
  OBVIOUS
<1>1. UNCHANGED <<mode, up, call, boots>> /\ writes' \in {writes, writes + 1}
  BY DEF Writing, upsert_model, delete_model, Remove, set_role, Point, ReadCatalog, ReadRoles,
         SetConfig
<1> QED BY <1>1 DEF Works

\* Calls stay on course.
LEMMA NextWorks == IInv /\ Works /\ [Next]_vars => Works'
<1> SUFFICES ASSUME IInv, Works, [Next]_vars PROVE Works'
  OBVIOUS
<1>1. CASE Boot
  <2>1. /\ ~up /\ boots < MaxBoots /\ boots' = boots + 1 /\ mode' \in BOOLEAN
        /\ UNCHANGED <<call, writes>>
    BY <1>1, ModesAssumption DEF Boot
  <2>2. boots' <= MaxBoots
    BY <2>1, BoundsAssumption DEF IInv, Shape
  <2>3. ASSUME NEW c \in Calls PROVE OnCourse(mode', call[c])
    <3>1. OnCourse(mode, call[c]) /\ call[c].pc = "idle" /\ call[c] \in Call
      BY <2>1 DEF Works
    <3>2. call[c].answered = None /\ call[c].row = None
          /\ call[c].summary = FALSE /\ call[c].condensed = FALSE
      BY <3>1 DEF OnCourse, Call
    <3> QED BY <3>1, <3>2, Quiet
  <2>4. ASSUME NEW c \in Calls PROVE OnCourse(mode', call'[c])
    BY <2>1, <2>3
  <2>5. up'
    BY <1>1 DEF Boot
  <2> QED BY <2>1, <2>2, <2>4, <2>5 DEF Works
<1>2. CASE Crash
  <2>1. call' = [c \in Calls |-> NoCall] /\ UNCHANGED <<mode, writes, boots>>
    BY <1>2 DEF Crash
  <2>2. ASSUME NEW c \in Calls PROVE OnCourse(mode', call'[c]) /\ call'[c].pc = "idle"
    <3>1. call'[c] = NoCall
      BY <2>1
    <3>2. OnCourse(mode', NoCall)
      BY NoCallType, Quiet
    <3> QED BY <3>1, <3>2, NoCallType
  <2>3. call' \in [Calls -> Call]
    BY <2>1, NoCallType
  <2> QED BY <2>1, <2>2, <2>3 DEF Works
<1>3. ASSUME NEW r \in Requests, Writing(r) PROVE Works'
  BY <1>3, WritingWorks
<1>4. ASSUME NEW c \in Calls, run_with_deadline(c) \/ Child(c) \/ Parent(c) PROVE Works'
  BY <1>4, SpawnWorks, LoadWorks, RoleWorks, FitWorks, CallWorks, AnswerWorks, OutageWorks,
     EndsWorks, RecordWorks, ReportWorks DEF Child, Parent
<1>5. CASE UNCHANGED vars
  BY <1>5 DEF vars, Works
<1> QED BY <1>1, <1>2, <1>3, <1>4, <1>5 DEF Next

\* None runs at first.
LEMMA InitWorks == Init => Works
<1> SUFFICES ASSUME Init PROVE Works
  OBVIOUS
<1>1. ASSUME NEW c \in Calls PROVE OnCourse(mode, call[c]) /\ call[c].pc = "idle"
  <2>1. call[c] = NoCall
    BY DEF Init
  <2> QED BY <2>1, NoCallType, Quiet
<1>2. call \in [Calls -> Call]
  BY NoCallType DEF Init
<1> QED BY <1>1, <1>2, ModesAssumption, BoundsAssumption DEF Works, Init

\* Everywhere, both.
LEMMA Reached == Spec => [](IInv /\ Works)
<1>1. Init => IInv /\ Works
  BY InitIInv, InitWorks
<1>2. (IInv /\ Works) /\ [Next]_vars => (IInv /\ Works)'
  BY NextIInv, NextWorks
<1> QED BY <1>1, <1>2, PTL DEF Spec

-----------------------------------------------------------------------------
\* Generation!ParentFollows: however many requests check, write and reload one after
\* the other, the kernel's cache is the store once none is under way
\* (models.reload_from_conn, set_config).
THEOREM CacheFollows == Spec => []ParentFollows
<1>1. IInv => ParentFollows
  <2> SUFFICES ASSUME IInv, up, Busy = {}, ~overlap PROVE parent = store
    BY DEF ParentFollows
  <2>1. \A r \in Requests : request[r].pc = "idle"
    BY DEF Busy
  <2> QED BY <2>1 DEF IInv, InStep
<1> QED BY InitIInv, NextIInv, <1>1, PTL DEF Spec

\* Generation!TypeOK: every variable keeps its type, whatever the requests and the calls
\* do; and no order of checks and writes, by any number of requests, leaves the role
\* without its model (model_config.delete_model, set_role, and the foreign key of
\* 0019_model_config.sql).
THEOREM TypeCorrect == Spec => []TypeOK
<1>1. IInv /\ Works => TypeOK
  <2> SUFFICES ASSUME IInv, Works PROVE TypeOK
    OBVIOUS
  <2>1. boots \in 0 .. MaxBoots
    BY BoundsAssumption DEF IInv, Shape, Works
  <2>2. RoleStands
    <3> SUFFICES ASSUME boots > 0
                 PROVE  store.role \in BuiltinNames \/ store.added[store.role] # None
      BY DEF RoleStands
    <3> QED BY DEF IInv, Shape, Assigned
  <2> QED BY <2>1, <2>2 DEF IInv, Shape, Works, TypeOK
<1> QED BY Reached, <1>1, PTL

\* Generation!FitsOneAsked: whichever rung answers, after any outages, the prompt was within
\* its window or within that of the model asked for, and then, on a local-only box, only
\* because it had been condensed for that one (_fit, _call).
THEOREM ComposedToFit == Spec => []FitsOneAsked
<1>1. IInv /\ Works => FitsOneAsked
  <2> SUFFICES ASSUME Works, NEW c \in Calls, call[c].answered # None
               PROVE  Good(mode, call[c], call[c].answered)
    BY DEF FitsOneAsked, Good, Spared, Whole
  <2>1. OnCourse(mode, call[c])
    BY DEF Works
  <2> QED BY <2>1 DEF OnCourse
<1> QED BY Reached, <1>1, PTL

\* Generation!LedgerTrue: however the calls of many units of work and their summaries
\* interleave, a row names the model asked for and the rung that gave the reply (_served,
\* _record_call).
THEOREM LedgerIsTrue == Spec => []LedgerTrue
<1>1. IInv /\ Works => LedgerTrue
  <2> SUFFICES ASSUME Works, NEW c \in Calls, call[c].row # None
               PROVE  call[c].row = <<call[c].asked, call[c].answered>>
    BY DEF LedgerTrue
  <2>1. OnCourse(mode, call[c])
    BY DEF Works
  <2> QED BY <2>1 DEF OnCourse
<1> QED BY Reached, <1>1, PTL
-----------------------------------------------------------------------------
\* On a cloud box whose operator gives no model a window past the flagship's: what is read
\* of the tables has no measured window and no wider model,
Plain(k) ==
  /\ k.measured = 0
  /\ \A x \in Added : k.added[x] # None => k.added[x].window <= Wide

\* and a call is sent to rungs its prompt fits, all of them.
OnCloud(d) ==
  /\ Plain(d.read) /\ Plain(d.cache)
  /\ d.pc = "rung" /\ d.summary = FALSE => \A i \in DOMAIN d.rungs : Fits(d, d.rungs[i])
  /\ d.pc \in {"record", "put"} => Fits(d, d.answered)

Cloud == mode = FALSE /\ Plain(store) /\ \A c \in Calls : OnCloud(call[c])

\* No rung of a ladder is narrower than the model it is called for.
LEMMA LadderWidens ==
  ASSUME NEW k \in Cache, Plain(k), \A w \in Windows : w <= Wide, NEW n \in Names,
         NEW size \in Nat, Within(k, n, size), NEW i \in DOMAIN Ladder(k, n)
  PROVE  Within(k, Ladder(k, n)[i], size)
<1>1. ASSUME NEW b \in BuiltinNames
      PROVE  /\ spec(k, b).window = IF b \in {"flash", "oss", "ministral"} THEN 1 ELSE Wide
             /\ spec(k, b) # None /\ spec(k, b) = BUILTIN_MODELS[b]
  <2>1. b \notin Added /\ spec(k, b) = Builtin(k)[b]
    BY <1>1, Constants DEF spec
  <2>2. Builtin(k)[b] = BUILTIN_MODELS[b]
    BY <1>1 DEF Builtin, BUILTIN_MODELS, Plain
  <2>3. BUILTIN_MODELS[b].window = IF b \in {"flash", "oss", "ministral"} THEN 1 ELSE Wide
    BY <1>1 DEF BUILTIN_MODELS
  <2>4. spec(k, b) # None
    BY <1>1, SpecType, Constants DEF Names
  <2> QED BY <2>1, <2>2, <2>3, <2>4
<1>2. /\ "flash" \in BuiltinNames /\ "glm" \in BuiltinNames /\ "oss" \in BuiltinNames
      /\ "large" \in BuiltinNames /\ "ministral" \in BuiltinNames /\ "qwen" \in BuiltinNames
  BY DEF BuiltinNames
<1>3. spec(k, n) # None => size <= Wide
  <2>1. CASE n \in Added
    <3>1. spec(k, n) = k.added[n]
      BY <2>1 DEF spec
    <3>2. k.added[n] # None => k.added[n] \in Model
      BY <2>1 DEF Cache
    <3>3. Wide \in Nat
      BY Constants
    <3> QED BY <2>1, <3>1, <3>2, <3>3 DEF Plain, Within, Model
  <2>2. CASE n \in BuiltinNames
    BY <1>1, <2>2, Constants, WindowsAssumption DEF Within
  <2> QED BY <2>1, <2>2 DEF Names
<1>4. ASSUME spec(k, n) # None, NEW b \in {"glm", "large", "qwen"}
      PROVE  Within(k, b, size)
  BY <1>1, <1>2, <1>3, <1>4 DEF Within
<1>5. ASSUME n \in {"flash", "oss", "ministral"}, NEW b \in {"oss", "ministral"}
      PROVE  Within(k, b, size)
  BY <1>1, <1>2, <1>5 DEF Within
<1>6. CASE spec(k, n) = None
  <2>1. Ladder(k, n) = <<n>>
    BY <1>6, LadderType
  <2>2. Ladder(k, n)[i] = n
    BY <2>1
  <2> QED BY <2>2
<1>7. CASE spec(k, n) # None
  <2>1. PICK s \in {"oss", "glm"} : s = _scaleway_fallback(n) /\ (s = "oss" => n = "flash")
    BY DEF _scaleway_fallback
  <2>2. PICK g \in {"ministral", "large"} : g = _mistral_fallback(s) /\ (g = "ministral" => s = "oss")
    BY DEF _mistral_fallback
  <2>3. PICK h \in {"ministral", "large"} : h = _mistral_fallback(n) /\ (h = "ministral" => n = "oss")
    BY DEF _mistral_fallback
  <2>4. Within(k, s, size) /\ Within(k, g, size) /\ Within(k, h, size) /\ Within(k, "qwen", size)
    BY <1>4, <1>5, <1>7, <2>1, <2>2, <2>3
  <2>5. CASE Ladder(k, n) = <<n, s, g, "qwen">>
    <3>1. Ladder(k, n)[i] \in {n, s, g, "qwen"}
      BY <2>5
    <3> QED BY <2>4, <3>1
  <2>6. CASE Ladder(k, n) = <<n, h, "qwen">>
    <3>1. Ladder(k, n)[i] \in {n, h, "qwen"}
      BY <2>6
    <3> QED BY <2>4, <3>1
  <2>7. CASE Ladder(k, n) = <<n>>
    <3>1. Ladder(k, n)[i] = n
      BY <2>7
    <3> QED BY <3>1
  <2> QED BY <2>1, <2>2, <2>3, <2>5, <2>6, <2>7 DEF Ladder
<1> QED BY <1>6, <1>7

\* A call goes on: what its step must show.
LEMMA CloudMoves ==
  ASSUME Works, Cloud, NEW c \in Calls, NEW d, OnCloud(d), Move(c, d)
  PROVE  Cloud'
<1>1. call' = [call EXCEPT ![c] = d] /\ UNCHANGED <<mode, store>>
  BY DEF Move
<1>2. ASSUME NEW e \in Calls PROVE OnCloud(call'[e])
  BY <1>1 DEF Works, Cloud
<1> QED BY <1>1, <1>2 DEF Cloud

\* Work without a prompt that is to be answered.
LEMMA QuietOnCloud ==
  ASSUME NEW d, Plain(d.read), Plain(d.cache), d.pc \notin {"rung", "record", "put"}
  PROVE  OnCloud(d)
BY DEF OnCloud

\* What stands in for tables that were not read is plain.
LEMMA PlainSeed ==
  /\ Plain(Seed) /\ Plain(NoCatalog) /\ Plain(NoCall.read) /\ Plain(NoCall.cache)
<1>1. Plain(NoCatalog)
  BY DEF Plain, NoCatalog
<1>2. Plain(Seed)
  BY DEF Plain, Seed, NoCatalog
<1>3. NoCall.read = NoCatalog /\ NoCall.cache = Seed
  BY DEF NoCall
<1> QED BY <1>1, <1>2, <1>3

\* A child that is through.
LEMMA EndsCloud ==
  ASSUME Works, Cloud, NEW c \in Calls,
         \/ \E pc \in {"catalog", "hung", "flushing", "exited", "terminating"} :
              Move(c, [NoCall EXCEPT !.pc = pc])
         \/ \E r \in {"completed", "crashed"} :
              Move(c, [NoCall EXCEPT !.pc = "exited", !.result = r])
         \/ Move(c, NoCall)
  PROVE  Cloud'
<1>1. PICK n \in Call : n = NoCall
  BY NoCallType
<1>2. Plain(n.read) /\ Plain(n.cache) /\ n.pc = "idle"
  BY <1>1, PlainSeed, NoCallType
<1>3. ASSUME NEW d, d.read = n.read, d.cache = n.cache, Move(c, d),
             d.pc \notin {"rung", "record", "put"}
      PROVE  Cloud'
  <2>1. OnCloud(d)
    BY <1>2, <1>3, QuietOnCloud
  <2> QED BY <1>3, <2>1, CloudMoves
<1>4. ASSUME NEW pc \in {"catalog", "hung", "flushing", "exited", "terminating"},
             Move(c, [n EXCEPT !.pc = pc])
      PROVE  Cloud'
  <2>1. PICK d : d = [n EXCEPT !.pc = pc]
    OBVIOUS
  <2>2. d.read = n.read /\ d.cache = n.cache /\ d.pc = pc
    BY <2>1 DEF Call
  <2> QED BY <1>3, <1>4, <2>1, <2>2
<1>5. ASSUME NEW r \in {"completed", "crashed"},
             Move(c, [n EXCEPT !.pc = "exited", !.result = r])
      PROVE  Cloud'
  <2>1. PICK d : d = [n EXCEPT !.pc = "exited", !.result = r]
    OBVIOUS
  <2>2. d.read = n.read /\ d.cache = n.cache /\ d.pc = "exited"
    BY <2>1 DEF Call
  <2> QED BY <1>3, <1>5, <2>1, <2>2
<1>6. ASSUME Move(c, n) PROVE Cloud'
  BY <1>2, <1>3, <1>6
<1> QED BY <1>1, <1>4, <1>5, <1>6

\* A child reads the tables, or stands on the seed.
LEMMA LoadCloud == ASSUME NEW c \in Calls PROVE Works /\ Cloud /\ _ensure_loaded(c) => Cloud'
<1> SUFFICES ASSUME Works, Cloud, _ensure_loaded(c) PROVE Cloud'
  OBVIOUS
<1>1. PICK t \in Call : t = call[c]
  BY DEF Works
<1>2. Plain(store) /\ Plain(t.read) /\ Plain(t.cache)
  BY <1>1 DEF Cloud, OnCloud
<1>3. ASSUME NEW k, Plain(k), Move(c, [t EXCEPT !.pc = "roles", !.read = k]) PROVE Cloud'
  <2>1. PICK d : d = [t EXCEPT !.pc = "roles", !.read = k]
    OBVIOUS
  <2>2. d.pc = "roles" /\ d.read = k /\ d.cache = t.cache
    BY <2>1 DEF Call
  <2> QED BY <1>2, <1>3, <2>1, <2>2, QuietOnCloud, CloudMoves
<1>4. ASSUME NEW n, NEW k, Plain(n), Plain(k),
             Move(c, [t EXCEPT !.pc = "resolve", !.read = n, !.cache = k])
      PROVE  Cloud'
  <2>1. PICK d : d = [t EXCEPT !.pc = "resolve", !.read = n, !.cache = k]
    OBVIOUS
  <2>2. d.pc = "resolve" /\ d.read = n /\ d.cache = k
    BY <2>1 DEF Call
  <2> QED BY <1>4, <2>1, <2>2, QuietOnCloud, CloudMoves
<1>5. ASSUME NEW k, Plain(k), Move(c, [t EXCEPT !.pc = "resolve", !.cache = k]) PROVE Cloud'
  <2>1. PICK d : d = [t EXCEPT !.pc = "resolve", !.cache = k]
    OBVIOUS
  <2>2. d.pc = "resolve" /\ d.read = t.read /\ d.cache = k
    BY <2>1 DEF Call
  <2> QED BY <1>2, <1>5, <2>1, <2>2, QuietOnCloud, CloudMoves
<1>6. PICK k : k = CatalogOf(store)
  OBVIOUS
<1>7. PICK n : n = With(t.read, store.role)
  OBVIOUS
<1>8. Plain(k) /\ Plain(n)
  BY <1>2, <1>6, <1>7 DEF Plain, CatalogOf, With
<1>9. Plain(Seed) /\ Plain(NoCatalog)
  BY PlainSeed
<1> QED BY <1>1, <1>3, <1>4, <1>5, <1>6, <1>7, <1>8, <1>9 DEF _ensure_loaded

\* The prompt is handed over and fitted.
LEMMA PromptCloud ==
  ASSUME NEW c \in Calls PROVE Works /\ Cloud /\ (role_name(c) \/ _fit(c)) => Cloud'
<1> SUFFICES ASSUME Works, Cloud, role_name(c) \/ _fit(c) PROVE Cloud'
  OBVIOUS
<1>1. PICK t \in Call : t = call[c]
  BY DEF Works
<1>2. Plain(t.read) /\ Plain(t.cache)
  BY <1>1 DEF Cloud, OnCloud
<1>3. CASE role_name(c)
  <2>1. PICK p \in Prompts :
          Move(c, [t EXCEPT !.pc = "fit", !.prompt = p, !.size = p.fixed + p.context,
                            !.asked = t.cache.role, !.target = t.cache.role, !.noted = None])
    BY <1>1, <1>3 DEF role_name
  <2>2. PICK w, n : w = p.fixed + p.context /\ n = t.cache.role
    OBVIOUS
  <2>3. PICK d : d = [t EXCEPT !.pc = "fit", !.prompt = p, !.size = w,
                               !.asked = n, !.target = n, !.noted = None]
    OBVIOUS
  <2>4. d.pc = "fit" /\ d.read = t.read /\ d.cache = t.cache
    BY <2>3 DEF Call
  <2> QED BY <1>2, <2>1, <2>2, <2>3, <2>4, QuietOnCloud, CloudMoves
<1>4. CASE Move(c, [t EXCEPT !.pc = "fitted"])
  <2>1. PICK d : d = [t EXCEPT !.pc = "fitted"]
    OBVIOUS
  <2>2. d.pc = "fitted" /\ d.read = t.read /\ d.cache = t.cache
    BY <2>1 DEF Call
  <2> QED BY <1>2, <1>4, <2>1, <2>2, QuietOnCloud, CloudMoves
<1>5. CASE Move(c, [t EXCEPT !.pc = "rung", !.summary = TRUE, !.rungs = Route(t.cache, t.target)])
  <2>1. PICK s : s = Route(t.cache, t.target)
    OBVIOUS
  <2>2. PICK d : d = [t EXCEPT !.pc = "rung", !.summary = TRUE, !.rungs = s]
    OBVIOUS
  <2>3. d.pc = "rung" /\ d.summary = TRUE /\ d.read = t.read /\ d.cache = t.cache
    BY <2>2 DEF Call
  <2>4. OnCloud(d)
    BY <1>2, <2>3 DEF OnCloud
  <2> QED BY <1>5, <2>1, <2>2, <2>4, CloudMoves
<1>6. CASE Raise(c)
  BY <1>6, EndsCloud DEF Raise
<1> QED BY <1>1, <1>3, <1>4, <1>5, <1>6 DEF _fit

\* The model asked for is called: the prompt fits every rung of its ladder.
LEMMA CallCloud ==
  ASSUME NEW c \in Calls, \A w \in Windows : w <= Wide
  PROVE  Works /\ Cloud /\ _call(c) => Cloud'
<1> SUFFICES ASSUME Works, Cloud, _call(c) PROVE Cloud'
  OBVIOUS
<1>1. PICK t \in Call : t = call[c]
  BY DEF Works
<1>2. Plain(t.read) /\ Plain(t.cache) /\ mode = FALSE
  BY <1>1 DEF Cloud, OnCloud
<1>3. OnCourse(mode, t) /\ t.pc = "fitted"
  BY <1>1 DEF Works, _call
<1>4. FitsAsked(t) /\ t.asked \in Names /\ t.cache \in Cache /\ t.size \in Nat
  BY <1>2, <1>3 DEF OnCourse, Call
<1>5. PICK s : s = Ladder(t.cache, t.asked)
  OBVIOUS
<1>6. Move(c, [t EXCEPT !.pc = "rung", !.rungs = s])
  BY <1>1, <1>2, <1>5 DEF _call
<1>7. PICK d : d = [t EXCEPT !.pc = "rung", !.rungs = s]
  OBVIOUS
<1>8. /\ d.pc = "rung" /\ d.rungs = s /\ d.read = t.read /\ d.cache = t.cache
      /\ d.size = t.size /\ d.prompt = t.prompt
  BY <1>7 DEF Call
<1>9. ASSUME NEW i \in DOMAIN s PROVE Fits(d, s[i])
  <2>1. CASE Within(t.cache, t.asked, t.size)
    <3>1. Within(t.cache, s[i], t.size)
      BY <1>2, <1>4, <1>5, <1>9, <2>1, LadderWidens
    <3> QED BY <1>8, <3>1 DEF Fits
  <2>2. CASE t.size = t.prompt.fixed
    BY <1>8, <2>2 DEF Fits
  <2> QED BY <1>4, <2>1, <2>2 DEF FitsAsked, Fits
<1>10. OnCloud(d)
  BY <1>2, <1>8, <1>9 DEF OnCloud
<1> QED BY <1>6, <1>7, <1>10, CloudMoves

\* A rung answers, or is out; the ledger is written.
LEMMA RungCloud ==
  ASSUME NEW c \in Calls
  PROVE  Works /\ Cloud /\ (Answer(c) \/ Outage(c) \/ _record_call(c)) => Cloud'
<1> SUFFICES ASSUME Works, Cloud, Answer(c) \/ Outage(c) \/ _record_call(c) PROVE Cloud'
  OBVIOUS
<1>1. PICK t \in Call : t = call[c]
  BY DEF Works
<1>2. Plain(t.read) /\ Plain(t.cache) /\ OnCloud(t) /\ OnCourse(mode, t)
  BY <1>1 DEF Cloud, OnCloud, Works
<1>3. t.pc = "rung" => t.rungs \in Seq(Names) /\ t.rungs # <<>>
  BY <1>2 DEF OnCourse, Call
<1>4. ASSUME t.pc = "rung", t.summary,
             Move(c, [t EXCEPT !.pc = "fitted", !.summary = FALSE, !.condensed = TRUE,
                               !.size = Condensed(t), !.noted = _served(t), !.rungs = <<>>])
      PROVE  Cloud'
  <2>1. PICK w, n, e : w = Condensed(t) /\ n = _served(t) /\ e = <<>>
    OBVIOUS
  <2>2. PICK d : d = [t EXCEPT !.pc = "fitted", !.summary = FALSE, !.condensed = TRUE,
                               !.size = w, !.noted = n, !.rungs = e]
    OBVIOUS
  <2>3. d.pc = "fitted" /\ d.read = t.read /\ d.cache = t.cache
    BY <2>2 DEF Call
  <2> QED BY <1>2, <1>4, <2>1, <2>2, <2>3, QuietOnCloud, CloudMoves
<1>5. ASSUME t.pc = "rung", ~t.summary,
             Move(c, [t EXCEPT !.pc = "record", !.noted = _served(t),
                               !.answered = Head(t.rungs), !.rungs = <<>>])
      PROVE  Cloud'
  <2>1. PICK m, n, e : m = _served(t) /\ n = Head(t.rungs) /\ e = <<>>
    OBVIOUS
  <2>2. PICK d : d = [t EXCEPT !.pc = "record", !.noted = m, !.answered = n, !.rungs = e]
    OBVIOUS
  <2>3. /\ d.pc = "record" /\ d.answered = n /\ d.read = t.read /\ d.cache = t.cache
        /\ d.size = t.size /\ d.prompt = t.prompt
    BY <2>2 DEF Call
  <2>4. n = t.rungs[1] /\ 1 \in DOMAIN t.rungs
    BY <1>3, <1>5, <2>1, Rungs
  <2>5. Fits(t, n)
    BY <1>2, <1>5, <2>4 DEF OnCloud, Call
  <2>6. OnCloud(d)
    BY <1>2, <2>3, <2>5 DEF OnCloud, Fits
  <2> QED BY <1>5, <2>1, <2>2, <2>6, CloudMoves
<1>6. ASSUME t.pc = "rung", Len(t.rungs) # 1, Move(c, [t EXCEPT !.rungs = Tail(@)])
      PROVE  Cloud'
  <2>1. PICK s : s = Tail(t.rungs)
    OBVIOUS
  <2>2. PICK d : d = [t EXCEPT !.rungs = s]
    OBVIOUS
  <2>3. /\ d.pc = "rung" /\ d.summary = t.summary /\ d.rungs = s /\ d.read = t.read
        /\ d.cache = t.cache /\ d.size = t.size /\ d.prompt = t.prompt
    BY <1>6, <2>2 DEF Call
  <2>4. ASSUME t.summary = FALSE, NEW i \in DOMAIN s PROVE Fits(d, s[i])
    <3>1. i + 1 \in DOMAIN t.rungs /\ s[i] = t.rungs[i + 1]
      BY <1>3, <1>6, <2>1, <2>4, Rungs
    <3>2. Fits(t, t.rungs[i + 1])
      BY <1>2, <1>6, <2>4, <3>1 DEF OnCloud
    <3> QED BY <2>3, <3>1, <3>2 DEF Fits
  <2>5. OnCloud(d)
    BY <1>2, <2>3, <2>4 DEF OnCloud
  <2> QED BY <1>6, <2>1, <2>2, <2>5, CloudMoves
<1>7. CASE Raise(c)
  BY <1>7, EndsCloud DEF Raise
<1>8. ASSUME NEW row, t.pc = "record", Move(c, [t EXCEPT !.pc = "put", !.row = row])
      PROVE  Cloud'
  <2>1. PICK d : d = [t EXCEPT !.pc = "put", !.row = row]
    OBVIOUS
  <2>2. /\ d.pc = "put" /\ d.answered = t.answered /\ d.read = t.read /\ d.cache = t.cache
        /\ d.size = t.size /\ d.prompt = t.prompt
    BY <2>1 DEF Call
  <2>3. OnCloud(d)
    BY <1>2, <1>8, <2>2 DEF OnCloud, Fits
  <2> QED BY <1>8, <2>1, <2>3, CloudMoves
<1> QED BY <1>1, <1>4, <1>5, <1>6, <1>7, <1>8 DEF Answer, Outage, _record_call

\* The parent collects what is left.
LEMMA ReportCloud ==
  ASSUME NEW c \in Calls
  PROVE  Works /\ Cloud /\ (Kill(c) \/ Terminated(c) \/ Collect(c)) => Cloud'
<1> SUFFICES ASSUME Works, Cloud, Kill(c) \/ Terminated(c) \/ Collect(c) PROVE Cloud'
  OBVIOUS
<1>1. PICK t \in Call : t = call[c]
  BY DEF Works
<1>2. Plain(t.read) /\ Plain(t.cache)
  BY <1>1 DEF Cloud, OnCloud
<1>3. CASE Move(c, [t EXCEPT !.pc = "reported", !.result = "timed_out"])
  <2>1. PICK d : d = [t EXCEPT !.pc = "reported", !.result = "timed_out"]
    OBVIOUS
  <2>2. d.pc = "reported" /\ d.read = t.read /\ d.cache = t.cache
    BY <2>1 DEF Call
  <2> QED BY <1>2, <1>3, <2>1, <2>2, QuietOnCloud, CloudMoves
<1>4. ASSUME NEW pc \in {"reported", "clinging"}, Move(c, [t EXCEPT !.pc = pc]) PROVE Cloud'
  <2>1. PICK d : d = [t EXCEPT !.pc = pc]
    OBVIOUS
  <2>2. d.pc = pc /\ d.read = t.read /\ d.cache = t.cache
    BY <2>1 DEF Call
  <2> QED BY <1>2, <1>4, <2>1, <2>2, QuietOnCloud, CloudMoves
<1> QED BY <1>1, <1>3, <1>4 DEF Kill, Terminated, Collect

\* The operator's writes keep the tables plain.
LEMMA WritingCloud ==
  ASSUME NEW r \in Requests, \A w \in Windows : w <= Wide
  PROVE  IInv /\ Cloud /\ Writing(r) => Cloud'
<1> SUFFICES ASSUME IInv, Cloud, Writing(r) PROVE Cloud'
  OBVIOUS
<1>1. UNCHANGED <<mode, call>>
  BY DEF Writing, upsert_model, delete_model, Remove, set_role, Point, ReadCatalog, ReadRoles,
         SetConfig
<1>2. ASSUME Plain(store') PROVE Cloud'
  BY <1>1, <1>2 DEF Cloud
<1>3. store \in Cache /\ Plain(store)
  BY DEF IInv, Shape, Cloud
<1>4. CASE upsert_model(r)
  <2>1. PICK x \in Added, p \in Providers, w \in Windows :
          store' = [store EXCEPT !.added[x] = [provider |-> p, window |-> w]]
    BY <1>4 DEF upsert_model
  <2>2. PICK m : m = [provider |-> p, window |-> w]
    OBVIOUS
  <2>3. m.window <= Wide
    BY <2>2
  <2>4. store'.measured = store.measured /\ store'.added = [store.added EXCEPT ![x] = m]
    BY <1>3, <2>1, <2>2 DEF Cache
  <2> QED BY <1>2, <1>3, <2>3, <2>4 DEF Plain, Cache
<1>5. CASE Remove(r)
  <2>1. PICK x : x = request[r].name
    OBVIOUS
  <2>2. store' = store \/ store' = [store EXCEPT !.added[x] = None]
    BY <1>5, <2>1 DEF Remove, restrict
  <2>3. CASE store' = [store EXCEPT !.added[x] = None]
    <3>1. store'.measured = store.measured /\ store'.added = [store.added EXCEPT ![x] = None]
      BY <1>3, <2>3 DEF Cache
    <3> QED BY <1>2, <1>3, <3>1 DEF Plain, Cache
  <2> QED BY <1>2, <1>3, <2>2, <2>3
<1>6. CASE Point(r)
  <2>1. PICK x : x = request[r].name
    OBVIOUS
  <2>2. store' = store \/ store' = [store EXCEPT !.role = x]
    BY <1>6, <2>1 DEF Point
  <2>3. store'.measured = store.measured /\ store'.added = store.added
    BY <1>3, <2>2 DEF Cache
  <2> QED BY <1>2, <1>3, <2>3 DEF Plain
<1>7. CASE UNCHANGED store
  BY <1>2, <1>3, <1>7
<1> QED BY <1>4, <1>5, <1>6, <1>7
    DEF Writing, delete_model, set_role, ReadCatalog, ReadRoles, SetConfig

\* It is inductive, there.
LEMMA NextCloud ==
  ASSUME Modes = {FALSE}, \A w \in Windows : w <= Wide
  PROVE  IInv /\ Works /\ Cloud /\ [Next]_vars => Cloud'
<1> SUFFICES ASSUME IInv, Works, Cloud, [Next]_vars PROVE Cloud'
  OBVIOUS
<1>1. CASE Boot
  <2>1. mode' = FALSE /\ UNCHANGED call
    BY <1>1 DEF Boot
  <2>2. PICK w \in {store.measured}, role \in {store.role, "pro"} :
          store' = [store EXCEPT !.measured = w, !.role = role]
    BY <1>1, <2>1 DEF Boot, IInv, Shape, Cache
  <2>3. store'.measured = store.measured /\ store'.added = store.added
    BY <2>2 DEF IInv, Shape, Cache
  <2> QED BY <2>1, <2>3 DEF Cloud, Plain
<1>2. CASE Crash
  <2>1. call' = [c \in Calls |-> NoCall] /\ UNCHANGED <<mode, store>>
    BY <1>2 DEF Crash
  <2>2. OnCloud(NoCall)
    BY PlainSeed, NoCallType, QuietOnCloud
  <2> QED BY <2>1, <2>2 DEF Cloud
<1>3. ASSUME NEW r \in Requests, Writing(r) PROVE Cloud'
  BY <1>3, WritingCloud
<1>4. ASSUME NEW c \in Calls, run_with_deadline(c) \/ Child(c) \/ Parent(c) PROVE Cloud'
  <2>1. CASE Refuse(c) \/ Die(c)
    BY <2>1, EndsCloud DEF Refuse, Die, Raise
  <2>2. CASE _entry(c)
    BY <2>2, EndsCloud DEF _entry, Raise
  <2>3. CASE run_with_deadline(c) \/ Hang(c) \/ Terminate(c) \/ Return(c)
    BY <2>3, EndsCloud DEF run_with_deadline, Hang, Terminate, Return
  <2> QED BY <1>4, <2>1, <2>2, <2>3, LoadCloud, PromptCloud, CallCloud, RungCloud, ReportCloud
      DEF Child, Parent
<1>5. CASE UNCHANGED vars
  BY <1>5 DEF vars, Cloud
<1> QED BY <1>1, <1>2, <1>3, <1>4, <1>5 DEF Next

\* Generation!PromptFits, where it does hold: on a box that is never local-only, and whose
\* operator gives no model a window past the flagship's, a reply is composed from a prompt
\* within the window of whichever rung answered, or of the instructions alone (_fit, "every
\* rung is at least as wide as the one above").
THEOREM CloudFits ==
  ASSUME Modes = {FALSE}, \A w \in Windows : w <= Wide
  PROVE  Spec => []PromptFits
<1>1. Init => Cloud
  <2> SUFFICES ASSUME Init PROVE Cloud
    OBVIOUS
  <2>1. ASSUME NEW c \in Calls PROVE OnCloud(call[c])
    <3>1. call[c] = NoCall
      BY DEF Init
    <3> QED BY <3>1, PlainSeed, NoCallType, QuietOnCloud
  <2>2. Plain(store)
    BY DEF Init, Plain, NoCatalog
  <2> QED BY <2>1, <2>2 DEF Cloud, Init
<1>2. (IInv /\ Works) /\ (IInv /\ Works)' /\ Cloud /\ [Next]_vars => Cloud'
  BY NextCloud
<1>3. Works /\ Cloud => PromptFits
  <2> SUFFICES ASSUME Works, Cloud, NEW c \in Calls, call[c].answered # None
               PROVE  Fits(call[c], call[c].answered)
    BY DEF PromptFits
  <2>1. call[c].pc \in {"record", "put"}
    BY DEF Works, OnCourse
  <2> QED BY <2>1 DEF Cloud, OnCloud
<1> QED BY Reached, <1>1, <1>2, <1>3, PTL DEF Spec
=============================================================================
