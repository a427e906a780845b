----------------------------- MODULE RequestScope -----------------------------
(***************************************************************************)
(* How the system a request works in travels from its X-OAD-System-Id      *)
(* header to the database: through the identity the authentication         *)
(* middleware puts in the request's context (api/middleware/auth.go), the  *)
(* scope of the transaction and its row-level security (db/scope.go, the   *)
(* policies of migration 000001), and the audit entry (audit/audit.go).    *)
(*                                                                         *)
(* Identities are objects on the heap.  The identity cache hands out the   *)
(* same object to every request of a JWT caller, and the middleware writes *)
(* the selected system into it; a certificate caller gets an object of its *)
(* own.  Every later stage reads the object again.                         *)
(*                                                                         *)
(* The operation modelled is the creation of a property overlay            *)
(* (overlay/service.go Create), the one that relies on all stages, next to *)
(* the reads that run without a scope.                                     *)
(***************************************************************************)
EXTENDS Integers, FiniteSets

CONSTANTS
  Request,      \* HTTP requests (goroutines)
  Caller,       \* authenticated callers
  Certificate,  \* the callers that use mTLS; the others present a JWT
  Admin,        \* the platform admins
  System,       \* systems
  Allowed,      \* Allowed[u]: the AllowedSystems of caller u
  Object,       \* addresses of Identity structs
  Conn,         \* connections of the pool
  None          \* nil: no system, no object, no connection

ASSUME ScopeAssumption ==
  /\ Certificate \subseteq Caller /\ Admin \subseteq Caller
  /\ Allowed \in [Caller -> SUBSET System]
  /\ None \notin System \cup Object \cup Conn \cup Caller
  /\ "unset" \notin System /\ "" \notin System

VARIABLES
  cached,  \* cached[u]: the object the identity cache holds for caller u
  object,  \* object[o]: the caller it describes and its ActiveSystemID
  req,     \* req[r]: the local state of request r
  conn     \* conn[c]: app.current_system_id as seen on connection c

vars == <<cached, object, req, conn>>

(***************************************************************************)
(* A request.  caller, row, scope and audit are what it read from its      *)
(* identity: the system of the overlay, of the transaction and of the      *)
(* audit entry; seen is what an unscoped read was shown.                   *)
(***************************************************************************)
Stage == {"idle", "select", "resolve", "begin", "work", "audit", "commit", "created", "read"}

Free == [stage |-> "idle", kind |-> "read", caller |-> None, header |-> None, object |-> None,
         row |-> None, scope |-> None, audit |-> None, conn |-> None, seen |-> {}]

Local == [stage : Stage, kind : {"create", "read"},
          caller : Caller \cup {None}, header : System \cup {None},
          object : Object \cup {None}, row : System \cup {None},
          scope : System \cup {None}, audit : System \cup {None},
          conn : Conn \cup {None}, seen : SUBSET System]

TypeOK ==
  /\ cached \in [Caller -> Object \cup {None}]
  /\ object \in [Object -> [caller : Caller \cup {None}, active : System \cup {None}]]
  /\ req \in [Request -> Local]
  /\ conn \in [Conn -> System \cup {"unset", ""}]

Init ==
  /\ cached = [u \in Caller |-> None]
  /\ object = [o \in Object |-> [caller |-> None, active |-> None]]
  /\ req = [r \in Request |-> Free]
  /\ conn = [c \in Conn |-> "unset"]

Active(r) == object[req[r].object].active
Permitted(u) == IF u \in Admin THEN System ELSE Allowed[u]

InUse(o) == (\E u \in Caller : cached[u] = o) \/ (\E r \in Request : req[r].object = o)
Busy(c) == \E r \in Request : req[r].conn = c

Move(r, stage) == req' = [req EXCEPT ![r].stage = stage]
Reject(r) == req' = [req EXCEPT ![r] = Free]

(***************************************************************************)
(* The middleware.                                                         *)
(***************************************************************************)
Received(u, k, h, o) ==
  [stage |-> "select", kind |-> k, caller |-> u, header |-> h, object |-> o,
   row |-> None, scope |-> None, audit |-> None, conn |-> None, seen |-> {}]

\* A JWT caller found in the cache gets the cached object.
AuthenticateCached(r) ==
  /\ req[r].stage = "idle"
  /\ \E u \in Caller, k \in {"create", "read"}, h \in System \cup {None} :
       /\ cached[u] # None
       /\ req' = [req EXCEPT ![r] = Received(u, k, h, cached[u])]
  /\ UNCHANGED <<cached, object, conn>>

\* Mutant: identities built from certificates are kept in the cache too.
AuthenticateKeeping(r) ==
  /\ req[r].stage = "idle"
  /\ \E u \in Caller, k \in {"create", "read"}, h \in System \cup {None}, o \in Object :
       /\ cached[u] = None
       /\ ~InUse(o)
       /\ object' = [object EXCEPT ![o] = [caller |-> u, active |-> None]]
       /\ cached' = [cached EXCEPT ![u] = o]
       /\ req' = [req EXCEPT ![r] = Received(u, k, h, o)]
  /\ UNCHANGED conn

\* Otherwise the caller gets a new object, which is cached if he has a JWT.
AuthenticateNew(r) ==
  /\ req[r].stage = "idle"
  /\ \E u \in Caller, k \in {"create", "read"}, h \in System \cup {None}, o \in Object :
       /\ cached[u] = None
       /\ ~InUse(o)
       /\ object' = [object EXCEPT ![o] = [caller |-> u, active |-> None]]
       /\ cached' = IF u \in Certificate THEN cached ELSE [cached EXCEPT ![u] = o]
       /\ req' = [req EXCEPT ![r] = Received(u, k, h, o)]
  /\ UNCHANGED conn

\* Mutant: the header is not compared with the caller's systems.
SelectAnySystem(r) ==
  /\ req[r].stage = "select"
  /\ object' = IF req[r].header = None THEN object
               ELSE [object EXCEPT ![req[r].object].active = req[r].header]
  /\ Move(r, IF req[r].kind = "create" THEN "resolve" ELSE "begin")
  /\ UNCHANGED <<cached, conn>>

\* The header, when there is one, must be a system of the caller's.
SelectSystem(r) ==
  /\ req[r].stage = "select"
  /\ \/ /\ req[r].header = None
        /\ Move(r, IF req[r].kind = "create" THEN "resolve" ELSE "begin")
        /\ UNCHANGED object
     \/ /\ req[r].header \in Permitted(req[r].caller)
        /\ object' = [object EXCEPT ![req[r].object].active = req[r].header]
        /\ Move(r, IF req[r].kind = "create" THEN "resolve" ELSE "begin")
     \/ /\ req[r].header \in System \ Permitted(req[r].caller)
        /\ Reject(r)
        /\ UNCHANGED object
  /\ UNCHANGED <<cached, conn>>

(***************************************************************************)
(* overlay.Service.Create up to its transaction: the system of the overlay *)
(* is the active one; the entity, the schema and the properties are looked *)
(* up outside the transaction and may not be there or not valid.           *)
(***************************************************************************)
ResolveCallerSystem(r) ==
  /\ req[r].stage = "resolve"
  /\ \/ /\ Active(r) # None
        /\ req' = [req EXCEPT ![r] = [@ EXCEPT !.row = Active(r), !.stage = "begin"]]
     \/ Reject(r)
  /\ UNCHANGED <<cached, object, conn>>

(***************************************************************************)
(* WithAuthScope: the scope is read from the identity again, and           *)
(* set_config(..., true) sets it for the transaction.  A read runs with an *)
(* empty scope, for which nothing is set.                                  *)
(***************************************************************************)
Begin(r) ==
  /\ req[r].stage = "begin"
  /\ \E c \in Conn :
       /\ ~Busy(c)
       /\ LET scope == IF req[r].kind = "create" THEN Active(r) ELSE None IN
            /\ req' = [req EXCEPT ![r] =
                          [@ EXCEPT !.scope = scope, !.conn = c, !.stage = "work"]]
            /\ conn' = IF scope = None THEN conn ELSE [conn EXCEPT ![c] = scope]
  /\ UNCHANGED <<cached, object>>

\* Mutant: the policies admit every row whatever the setting.
VisibleAll(c) == System

\* property_overlay_system_isolation: everything if the setting is the empty string,
\* the rows of the system it names otherwise, and nothing if it is NULL.
Visible(c) == IF conn[c] = "" THEN System ELSE {conn[c]} \cap System

\* Mutant: set_config(..., false) leaves the scope on the connection.
AfterKeeping(c) == conn[c]

\* Mutant: the setting is nil after the transaction.
AfterNil(c) == None

\* At the end of a transaction the setting is the empty string if it was set on this
\* connection at any time, and still NULL otherwise.
After(c) == IF conn[c] = "unset" THEN "unset" ELSE ""

EndTx(r) == conn' = [conn EXCEPT ![req[r].conn] = After(req[r].conn)]

\* The policy also checks the row inserted.
Insert(r) ==
  /\ req[r].stage = "work" /\ req[r].kind = "create"
  /\ \/ /\ req[r].row \in Visible(req[r].conn)
        /\ Move(r, "audit")
        /\ UNCHANGED conn
     \/ /\ Reject(r)
        /\ EndTx(r)
  /\ UNCHANGED <<cached, object>>

\* WriteFromContext reads the identity a third time.
WriteAudit(r) ==
  /\ req[r].stage = "audit"
  /\ req' = [req EXCEPT ![r] = [@ EXCEPT !.audit = Active(r), !.stage = "commit"]]
  /\ UNCHANGED <<cached, object, conn>>

Commit(r) ==
  /\ req[r].stage = "commit"
  /\ \/ req' = [req EXCEPT ![r] = [@ EXCEPT !.stage = "created", !.conn = None]]
     \/ Reject(r)
  /\ EndTx(r)
  /\ UNCHANGED <<cached, object>>

\* A read, such as the counters of GET /stats.
Read(r) ==
  /\ req[r].stage = "work" /\ req[r].kind = "read"
  /\ req' = [req EXCEPT ![r] =
                [@ EXCEPT !.seen = Visible(req[r].conn), !.conn = None, !.stage = "read"]]
  /\ EndTx(r)
  /\ UNCHANGED <<cached, object>>

Respond(r) ==
  /\ req[r].stage \in {"created", "read"}
  /\ Reject(r)
  /\ UNCHANGED <<cached, object, conn>>

\* The cached identity expires, is evicted or is invalidated.
Forget(u) ==
  /\ cached[u] # None
  /\ cached' = [cached EXCEPT ![u] = None]
  /\ UNCHANGED <<object, req, conn>>

\* The pool closes an idle connection and opens another.
Reconnect(c) ==
  /\ ~Busy(c)
  /\ conn' = [conn EXCEPT ![c] = "unset"]
  /\ UNCHANGED <<cached, object, req>>

Serve(r) ==
  \/ AuthenticateCached(r) \/ AuthenticateNew(r) \/ SelectSystem(r)
  \/ ResolveCallerSystem(r) \/ Begin(r) \/ Insert(r) \/ WriteAudit(r) \/ Commit(r)
  \/ Read(r) \/ Respond(r)

Next ==
  \/ \E r \in Request : Serve(r)
  \/ \E u \in Caller : Forget(u)
  \/ \E c \in Conn : Reconnect(c)

Spec == Init /\ [][Next]_vars

(***************************************************************************)
(* Properties.                                                             *)
(***************************************************************************)

\* Whatever requests of the same caller overwrite in the shared identity, the
\* systems of an overlay created, of its transaction and of its audit entry are ones
\* the caller may work in (auth.go:59-70, overlay/service.go:267-272, audit.go:72-78).
WithinPermitted ==
  \A r \in Request : req[r].stage = "created" =>
    {req[r].row, req[r].scope, req[r].audit} \subseteq Permitted(req[r].caller)

\* An overlay is only created in the system its transaction was scoped to: when the
\* identity changes between the two reads, the policy rejects the row
\* (overlay/service.go:53-79, scope.go:46-53, migration 000001:468-472).
RowInScope ==
  \A r \in Request : req[r].stage = "created" => req[r].row = req[r].scope

\* A request of a certificate caller works in the system of its own header, in all
\* stages (mtls.go:25-35, auth.go:59-70).
CertificateExact ==
  \A r \in Request : req[r].stage = "created" /\ req[r].caller \in Certificate =>
    {req[r].row, req[r].scope, req[r].audit} = {req[r].header}

\* No scope outlives its transaction on a pooled connection: a transaction without a
\* scope is shown the rows of every system or of none, never those of one system
\* (scope.go:28-33).
NoLeftoverScope ==
  \A r \in Request : req[r].stage = "read" => req[r].seen \in {System, {}}

(***************************************************************************)
(* The inductive invariant.                                                *)
(***************************************************************************)
InTransaction == {"work", "audit", "commit"}
Scoped == InTransaction \cup {"created"}

\* Only JWT callers' objects are shared, through the cache, and an object's active
\* system is one its caller may work in.
ObjectsOK ==
  /\ \A u \in Caller : cached[u] # None =>
       u \notin Certificate /\ object[cached[u]].caller = u
  /\ \A o \in Object : object[o].caller \in Caller =>
       object[o].active \in Permitted(object[o].caller) \cup {None}
  /\ \A r, s \in Request :
       r # s /\ req[r].object # None /\ req[r].object = req[s].object =>
         req[r].caller \notin Certificate

\* What a request has read of its object so far.
SystemsOK(q) ==
  /\ q.stage # "idle" =>
       q.caller \in Caller /\ q.object \in Object /\ object[q.object].caller = q.caller
  /\ q.stage = "idle" => q.object = None
  /\ q.kind = "create" /\ q.stage \in Scoped \cup {"begin"} =>
       q.row \in Permitted(q.caller) /\ object[q.object].active # None
  /\ q.kind = "create" /\ q.stage \in Scoped => q.scope \in Permitted(q.caller)
  /\ q.stage \in {"audit", "commit", "created"} => q.kind = "create" /\ q.row = q.scope
  /\ q.stage \in {"commit", "created"} => q.audit \in Permitted(q.caller)
  /\ q.kind = "read" => q.scope = None

\* What a request with a certificate has read is its own header.
CertificateOK(q) ==
  q.stage # "idle" /\ q.caller \in Certificate =>
    /\ object[q.object].active = IF q.stage = "select" THEN None ELSE q.header
    /\ q.kind = "create" /\ q.stage \in Scoped \cup {"begin"} => q.row = q.header
    /\ q.kind = "create" /\ q.stage \in Scoped => q.scope = q.header
    /\ q.stage \in {"commit", "created"} => q.audit = q.header

\* A connection is used by one request at a time and has the scope of that request.
ConnectionsOK ==
  /\ \A r \in Request : req[r].conn # None <=> req[r].stage \in InTransaction
  /\ \A r \in Request : req[r].conn # None /\ req[r].scope # None =>
       conn[req[r].conn] = req[r].scope
  /\ \A r, s \in Request : r # s /\ req[r].conn # None => req[r].conn # req[s].conn

\* A connection carries a system only while a request scoped to it has the connection.
ConnectionsClean ==
  \A c \in Conn : conn[c] \in System =>
    \E r \in Request : req[r].conn = c /\ req[r].scope = conn[c]

\* Everything the stages of a request maintain for the ones after them
\* (auth.go:25-70, overlay/service.go:53-90, scope.go:21-53, audit.go:72-79).
IInv ==
  /\ TypeOK
  /\ ObjectsOK
  /\ \A r \in Request : SystemsOK(req[r]) /\ CertificateOK(req[r])
  /\ ConnectionsOK
  /\ ConnectionsClean
  /\ NoLeftoverScope

=============================================================================
