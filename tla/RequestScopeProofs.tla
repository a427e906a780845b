-------------------------- MODULE RequestScopeProofs --------------------------
(***************************************************************************)
(* Theorems about RequestScope for every set of requests, callers, systems *)
(* and connections, and every assignment of systems to callers.            *)
(***************************************************************************)
EXTENDS RequestScope, TLAPS

(***************************************************************************)
(* Lemmas.                                                                 *)
(***************************************************************************)

\* The systems a caller may work in are systems (identity.go:39-51).
LEMMA PermittedAreSystems ==
  ASSUME NEW u \in Caller
  PROVE  Permitted(u) \subseteq System
BY ScopeAssumption DEF Permitted

\* A request that was answered, or not yet received.
LEMMA FreeProperties ==
  /\ Free \in Local
  /\ Free.stage = "idle" /\ Free.kind = "read"
  /\ Free.caller = None /\ Free.header = None /\ Free.object = None
  /\ Free.row = None /\ Free.scope = None /\ Free.audit = None
  /\ Free.conn = None /\ Free.seen = {}
BY DEF Free, Local, Stage

\* A request the middleware has authenticated (auth.go:25-57).
LEMMA ReceivedProperties ==
  ASSUME NEW u \in Caller, NEW k \in {"create", "read"}, NEW h \in System \cup {None},
         NEW o \in Object
  PROVE  /\ Received(u, k, h, o) \in Local
         /\ Received(u, k, h, o).stage = "select" /\ Received(u, k, h, o).kind = k
         /\ Received(u, k, h, o).caller = u /\ Received(u, k, h, o).header = h
         /\ Received(u, k, h, o).object = o
         /\ Received(u, k, h, o).row = None /\ Received(u, k, h, o).scope = None
         /\ Received(u, k, h, o).audit = None /\ Received(u, k, h, o).conn = None
BY DEF Received, Local, Stage

\* A step of one request that leaves every identity alone.
LEMMA RequestStep ==
  ASSUME IInv, NEW r \in Request,
         req' \in [Request -> Local],
         UNCHANGED <<cached, object>>,
         \A x \in Request \ {r} : req'[x] = req[x],
         \/ req'[r].object = None
         \/ req'[r].object = req[r].object /\ req'[r].caller = req[r].caller,
         SystemsOK(req[r])', CertificateOK(req[r])'
  PROVE  /\ ObjectsOK'
         /\ \A x \in Request : SystemsOK(req[x])' /\ CertificateOK(req[x])'
<1>1. ObjectsOK'
  BY DEF IInv, ObjectsOK, Permitted
<1>2. ASSUME NEW x \in Request PROVE SystemsOK(req[x])' /\ CertificateOK(req[x])'
  <2>1. CASE x = r
    BY <2>1
  <2>2. CASE x # r
    BY <2>2 DEF IInv, SystemsOK, CertificateOK, Permitted, Scoped, InTransaction
  <2> QED
    BY <2>1, <2>2
<1> QED
  BY <1>1, <1>2

\* A request that keeps its connection, or never had one, disturbs no transaction.
LEMMA ConnectionKept ==
  ASSUME IInv, NEW r \in Request,
         UNCHANGED conn,
         \A x \in Request \ {r} : req'[x] = req[x],
         req'[r].conn = req[r].conn, req'[r].scope = req[r].scope \/ req[r].conn = None,
         req'[r].stage \in InTransaction <=> req[r].stage \in InTransaction
  PROVE  ConnectionsOK' /\ ConnectionsClean'
<1>1. ConnectionsOK'
  BY DEF IInv, ConnectionsOK
<1>2. ConnectionsClean'
  <2> SUFFICES ASSUME NEW c \in Conn, conn[c] \in System
               PROVE  \E x \in Request : req'[x].conn = c /\ req'[x].scope = conn[c]
    BY DEF ConnectionsClean
  <2>1. PICK x \in Request : req[x].conn = c /\ req[x].scope = conn[c]
    BY DEF IInv, ConnectionsClean
  <2>2. c # None
    BY ScopeAssumption
  <2>3. req'[x].conn = req[x].conn /\ req'[x].scope = req[x].scope
    BY <2>1, <2>2
  <2> QED
    BY <2>1, <2>3
<1> QED
  BY <1>1, <1>2

\* The end of a transaction takes the scope off the connection (scope.go:28-41).
LEMMA ConnectionReturned ==
  ASSUME IInv, NEW r \in Request,
         req[r].stage \in InTransaction, EndTx(r),
         \A x \in Request \ {r} : req'[x] = req[x],
         req'[r].conn = None, req'[r].stage \notin InTransaction
  PROVE  /\ conn' \in [Conn -> System \cup {"unset", ""}]
         /\ ConnectionsOK' /\ ConnectionsClean'
<1>1. /\ req[r].conn \in Conn
      /\ \A x \in Request \ {r} : req[x].conn # req[r].conn
  BY DEF IInv, ConnectionsOK, TypeOK, Local
<1>2. conn' \in [Conn -> System \cup {"unset", ""}]
  BY <1>1 DEF IInv, TypeOK, EndTx, After
<1>3. /\ conn'[req[r].conn] \in {"unset", ""}
      /\ \A c \in Conn \ {req[r].conn} : conn'[c] = conn[c]
  BY <1>1 DEF IInv, TypeOK, EndTx, After
<1>4. ConnectionsOK'
  <2>1. \A x \in Request : req[x].conn # None => req[x].conn \in Conn
    BY DEF IInv, TypeOK, Local
  <2>2. ConnectionsOK
    BY DEF IInv
  <2>3. \A x \in Request : req'[x].conn # None <=> req'[x].stage \in InTransaction
    BY <2>2 DEF ConnectionsOK
  <2>4. \A x \in Request : req'[x].conn # None /\ req'[x].scope # None =>
           conn'[req'[x].conn] = req'[x].scope
    <3> SUFFICES ASSUME NEW x \in Request, req'[x].conn # None, req'[x].scope # None
                 PROVE  conn'[req'[x].conn] = req'[x].scope
      OBVIOUS
    <3>1. x # r /\ req'[x] = req[x]
      OBVIOUS
    <3>2. req[x].conn \in Conn \ {req[r].conn}
      BY <1>1, <2>1, <3>1
    <3>3. conn[req[x].conn] = req[x].scope
      BY <2>2, <3>1 DEF ConnectionsOK
    <3> QED
      BY <1>3, <3>1, <3>2, <3>3
  <2>5. \A x, y \in Request : x # y /\ req'[x].conn # None => req'[x].conn # req'[y].conn
    BY <2>2 DEF ConnectionsOK
  <2> QED
    BY <2>3, <2>4, <2>5 DEF ConnectionsOK
<1>5. ConnectionsClean'
  <2> SUFFICES ASSUME NEW c \in Conn, conn'[c] \in System
               PROVE  \E x \in Request : req'[x].conn = c /\ req'[x].scope = conn'[c]
    BY DEF ConnectionsClean
  <2>1. c # req[r].conn /\ conn'[c] = conn[c]
    BY <1>3, ScopeAssumption
  <2>2. PICK x \in Request : req[x].conn = c /\ req[x].scope = conn[c]
    BY <2>1 DEF IInv, ConnectionsClean
  <2> QED
    BY <2>1, <2>2
<1> QED
  BY <1>2, <1>4, <1>5

\* A request that goes on to its next stage.
LEMMA MoveProperties ==
  ASSUME TypeOK, NEW r \in Request, NEW s \in Stage, Move(r, s)
  PROVE  /\ req' \in [Request -> Local]
         /\ \A x \in Request \ {r} : req'[x] = req[x]
         /\ req'[r].stage = s /\ req'[r].kind = req[r].kind
         /\ req'[r].caller = req[r].caller /\ req'[r].header = req[r].header
         /\ req'[r].object = req[r].object /\ req'[r].row = req[r].row
         /\ req'[r].scope = req[r].scope /\ req'[r].audit = req[r].audit
         /\ req'[r].conn = req[r].conn /\ req'[r].seen = req[r].seen
BY DEF Move, TypeOK, Local

\* A request that ends, outside a transaction or with it, leaves nothing behind
\* (auth.go:62-68, overlay/service.go:53-79, scope.go:28-41).
LEMMA RejectStep ==
  ASSUME IInv, NEW r \in Request, Reject(r), UNCHANGED <<cached, object>>,
         \/ req[r].stage \notin InTransaction /\ UNCHANGED conn
         \/ req[r].stage \in InTransaction /\ EndTx(r)
  PROVE  IInv'
<1>1. /\ req' \in [Request -> Local]
      /\ \A x \in Request \ {r} : req'[x] = req[x]
      /\ req'[r] = Free
  BY FreeProperties DEF Reject, IInv, TypeOK
<1>2. /\ req'[r].stage = "idle" /\ req'[r].kind = "read"
      /\ req'[r].object = None /\ req'[r].scope = None /\ req'[r].conn = None
  BY <1>1, FreeProperties
<1>3. ObjectsOK' /\ \A x \in Request : SystemsOK(req[x])' /\ CertificateOK(req[x])'
  <2>1. SystemsOK(req[r])' /\ CertificateOK(req[r])'
    BY <1>2 DEF SystemsOK, CertificateOK, Scoped, InTransaction
  <2> QED
    BY <1>1, <1>2, <2>1, RequestStep
<1>4. conn' \in [Conn -> System \cup {"unset", ""}] /\ ConnectionsOK' /\ ConnectionsClean'
  <2>1. CASE req[r].stage \notin InTransaction /\ UNCHANGED conn
    <3>1. req[r].conn = None
      BY <2>1 DEF IInv, ConnectionsOK
    <3>2. req'[r].stage \notin InTransaction
      BY <1>2 DEF InTransaction
    <3> QED
      BY <1>1, <1>2, <2>1, <3>1, <3>2, ConnectionKept DEF IInv, TypeOK
  <2>2. CASE req[r].stage \in InTransaction /\ EndTx(r)
    <3>1. req'[r].stage \notin InTransaction
      BY <1>2 DEF InTransaction
    <3> QED
      BY <1>1, <1>2, <2>2, <3>1, ConnectionReturned
  <2> QED
    BY <2>1, <2>2
<1>5. NoLeftoverScope'
  BY <1>1, <1>2 DEF IInv, NoLeftoverScope
<1> QED
  BY <1>1, <1>3, <1>4, <1>5 DEF IInv, TypeOK

(***************************************************************************)
(* Every step preserves the invariant.                                     *)
(***************************************************************************)

\* A caller whose identity is cached gets the object that other requests of his hold;
\* he has no certificate (auth.go:30-44, mtls.go:25-35).
LEMMA AuthenticateCachedStep ==
  ASSUME IInv, NEW r \in Request, AuthenticateCached(r)
  PROVE  IInv'
<1>1. PICK u \in Caller, k \in {"create", "read"}, h \in System \cup {None} :
        /\ cached[u] # None
        /\ req' = [req EXCEPT ![r] = Received(u, k, h, cached[u])]
  BY DEF AuthenticateCached
<1>2. /\ req[r].stage = "idle"
      /\ UNCHANGED <<cached, object, conn>>
  BY DEF AuthenticateCached
<1>3. /\ cached[u] \in Object
      /\ u \notin Certificate /\ object[cached[u]].caller = u
  BY <1>1 DEF IInv, TypeOK, ObjectsOK
<1>4. /\ req' \in [Request -> Local]
      /\ req'[r] = Received(u, k, h, cached[u])
      /\ \A x \in Request \ {r} : req'[x] = req[x]
  <2>1. Received(u, k, h, cached[u]) \in Local
    BY <1>3, ReceivedProperties
  <2> QED
    BY <1>1, <2>1 DEF IInv, TypeOK
<1>5. /\ req'[r].stage = "select" /\ req'[r].kind = k
      /\ req'[r].caller = u /\ req'[r].object = cached[u]
      /\ req'[r].scope = None /\ req'[r].conn = None
  BY <1>3, <1>4, ReceivedProperties
<1>6. TypeOK'
  BY <1>2, <1>4 DEF IInv, TypeOK
<1>7. ObjectsOK'
  <2>1. \A x, y \in Request :
          x # y /\ req'[x].object # None /\ req'[x].object = req'[y].object =>
            req'[x].caller \notin Certificate
    <3> SUFFICES ASSUME NEW x \in Request, NEW y \in Request,
                        x # y, req'[x].object # None, req'[x].object = req'[y].object
                 PROVE  req'[x].caller \notin Certificate
      OBVIOUS
    <3>1. CASE x = r
      BY <1>3, <1>5, <3>1
    <3>2. CASE y = r
      <4>1. req[x].object = cached[u] /\ req'[x].caller = req[x].caller
        BY <1>4, <1>5, <3>2
      <4>2. req[x].stage # "idle"
        BY <1>3, <4>1, ScopeAssumption DEF IInv, SystemsOK
      <4>3. req[x].caller = u
        BY <1>3, <4>1, <4>2 DEF IInv, SystemsOK
      <4> QED
        BY <1>3, <4>1, <4>3
    <3>3. CASE x # r /\ y # r
      BY <1>4, <3>3 DEF IInv, ObjectsOK
    <3> QED
      BY <3>1, <3>2, <3>3
  <2> QED
    BY <1>2, <2>1 DEF IInv, ObjectsOK, Permitted
<1>8. ASSUME NEW x \in Request PROVE SystemsOK(req[x])' /\ CertificateOK(req[x])'
  <2>1. CASE x = r
    BY <1>2, <1>3, <1>5, <2>1 DEF SystemsOK, CertificateOK, Scoped, InTransaction
  <2>2. CASE x # r
    BY <1>2, <1>4, <2>2 DEF IInv, SystemsOK, CertificateOK, Permitted, Scoped, InTransaction
  <2> QED
    BY <2>1, <2>2
<1>9. ConnectionsOK' /\ ConnectionsClean'
  <2>1. req[r].conn = None
    BY <1>2 DEF IInv, ConnectionsOK, InTransaction
  <2> QED
    BY <1>2, <1>4, <1>5, <2>1, ConnectionKept DEF InTransaction
<1>10. NoLeftoverScope'
  BY <1>4, <1>5 DEF IInv, NoLeftoverScope
<1> QED
  BY <1>6, <1>7, <1>8, <1>9, <1>10 DEF IInv

\* Otherwise the caller gets an object that nothing else refers to
\* (mtls.go:25-35, auth/cache.go:57-76).
LEMMA AuthenticateNewStep ==
  ASSUME IInv, NEW r \in Request, AuthenticateNew(r)
  PROVE  IInv'
<1>1. PICK u \in Caller, k \in {"create", "read"}, h \in System \cup {None}, o \in Object :
        /\ cached[u] = None
        /\ ~InUse(o)
        /\ object' = [object EXCEPT ![o] = [caller |-> u, active |-> None]]
        /\ cached' = IF u \in Certificate THEN cached ELSE [cached EXCEPT ![u] = o]
        /\ req' = [req EXCEPT ![r] = Received(u, k, h, o)]
  BY DEF AuthenticateNew
<1>2. req[r].stage = "idle" /\ UNCHANGED conn
  BY DEF AuthenticateNew
<1>3. /\ \A v \in Caller : cached[v] # o
      /\ \A x \in Request : req[x].object # o
  BY <1>1 DEF InUse
<1>4. /\ req' \in [Request -> Local]
      /\ req'[r] = Received(u, k, h, o)
      /\ \A x \in Request \ {r} : req'[x] = req[x]
  <2>1. Received(u, k, h, o) \in Local
    BY ReceivedProperties
  <2> QED
    BY <1>1, <2>1 DEF IInv, TypeOK
<1>5. /\ req'[r].stage = "select" /\ req'[r].kind = k
      /\ req'[r].caller = u /\ req'[r].object = o
      /\ req'[r].scope = None /\ req'[r].conn = None
  BY <1>4, ReceivedProperties
<1>6. /\ object'[o].caller = u /\ object'[o].active = None
      /\ \A p \in Object \ {o} : object'[p] = object[p]
      /\ object' \in [Object -> [caller : Caller \cup {None}, active : System \cup {None}]]
  BY <1>1 DEF IInv, TypeOK
<1>7. /\ cached' \in [Caller -> Object \cup {None}]
      /\ \A v \in Caller : cached'[v] = cached[v] \/ (v = u /\ cached'[v] = o /\ u \notin Certificate)
  BY <1>1 DEF IInv, TypeOK
<1>8. TypeOK'
  BY <1>2, <1>4, <1>6, <1>7 DEF IInv, TypeOK
<1>9. ObjectsOK'
  <2>1. ASSUME NEW v \in Caller, cached'[v] # None
        PROVE  v \notin Certificate /\ object'[cached'[v]].caller = v
    <3>1. CASE cached'[v] = cached[v]
      <4>1. cached[v] \in Object \ {o}
        BY <1>3, <2>1, <3>1 DEF IInv, TypeOK
      <4>2. v \notin Certificate /\ object[cached[v]].caller = v
        BY <2>1, <3>1 DEF IInv, ObjectsOK
      <4> QED
        BY <1>6, <3>1, <4>1, <4>2
    <3>2. CASE v = u /\ cached'[v] = o /\ u \notin Certificate
      BY <1>6, <3>2
    <3> QED
      BY <1>7, <3>1, <3>2
  <2>2. ASSUME NEW p \in Object, object'[p].caller \in Caller
        PROVE  object'[p].active \in Permitted(object'[p].caller) \cup {None}
    BY <1>6, <2>2 DEF IInv, ObjectsOK
  <2>3. \A x, y \in Request :
          x # y /\ req'[x].object # None /\ req'[x].object = req'[y].object =>
            req'[x].caller \notin Certificate
    BY <1>3, <1>4, <1>5 DEF IInv, ObjectsOK
  <2> QED
    BY <2>1, <2>2, <2>3 DEF ObjectsOK, Permitted
<1>10. ASSUME NEW x \in Request PROVE SystemsOK(req[x])' /\ CertificateOK(req[x])'
  <2>1. CASE x = r
    BY <1>5, <1>6, <2>1 DEF SystemsOK, CertificateOK, Scoped, InTransaction
  <2>2. CASE x # r
    <3>1. req[x].stage # "idle" => object'[req[x].object] = object[req[x].object]
      BY <1>3, <1>6 DEF IInv, SystemsOK
    <3>2. req'[x] = req[x]
      BY <1>4, <2>2
    <3>3. SystemsOK(req[x])'
      BY <3>1, <3>2 DEF IInv, SystemsOK, Permitted, Scoped, InTransaction
    <3>4. CertificateOK(req[x])'
      BY <3>1, <3>2 DEF IInv, CertificateOK, Scoped, InTransaction
    <3> QED
      BY <3>3, <3>4
  <2> QED
    BY <2>1, <2>2
<1>11. ConnectionsOK' /\ ConnectionsClean'
  <2>1. req[r].conn = None
    BY <1>2 DEF IInv, ConnectionsOK, InTransaction
  <2> QED
    BY <1>2, <1>4, <1>5, <2>1, ConnectionKept DEF InTransaction
<1>12. NoLeftoverScope'
  BY <1>4, <1>5 DEF IInv, NoLeftoverScope
<1> QED
  BY <1>8, <1>9, <1>10, <1>11, <1>12 DEF IInv

\* The header is checked before it is written, and another request that holds the same
\* object has the same caller (auth.go:59-70).
LEMMA SelectSystemStep ==
  ASSUME IInv, NEW r \in Request, SelectSystem(r)
  PROVE  IInv'
<1> DEFINE s == IF req[r].kind = "create" THEN "resolve" ELSE "begin"
           o == req[r].object
<1>1. req[r].stage = "select" /\ UNCHANGED <<cached, conn>>
  BY DEF SelectSystem
<1>2. req[r].caller \in Caller /\ o \in Object /\ object[o].caller = req[r].caller
  BY <1>1 DEF IInv, SystemsOK
<1>3. req[r].conn = None
  BY <1>1 DEF IInv, ConnectionsOK, InTransaction
<1>4. req[r].kind \in {"create", "read"}
  BY DEF IInv, TypeOK, Local
<1>5. s \in Stage /\ s \in {"resolve", "begin"} /\ (req[r].kind = "create" => s = "resolve")
  BY DEF Stage
<1> HIDE DEF s
<1>6. ASSUME Move(r, s), object' = object, req[r].header = None
      PROVE  IInv'
  <2>1. /\ req' \in [Request -> Local]
        /\ \A x \in Request \ {r} : req'[x] = req[x]
        /\ req'[r].stage = s /\ req'[r].kind = req[r].kind
        /\ req'[r].caller = req[r].caller /\ req'[r].header = req[r].header
        /\ req'[r].object = req[r].object /\ req'[r].scope = req[r].scope
        /\ req'[r].conn = req[r].conn
    BY <1>5, <1>6, MoveProperties DEF IInv
  <2>2. SystemsOK(req[r])'
    BY <1>1, <1>4, <1>5, <1>6, <2>1 DEF IInv, SystemsOK, Scoped, InTransaction
  <2>3. CertificateOK(req[r])'
    BY <1>1, <1>4, <1>5, <1>6, <2>1 DEF IInv, CertificateOK, Scoped, InTransaction
  <2>4. ObjectsOK' /\ \A x \in Request : SystemsOK(req[x])' /\ CertificateOK(req[x])'
    BY <1>1, <1>6, <2>1, <2>2, <2>3, RequestStep
  <2>5. ConnectionsOK' /\ ConnectionsClean'
    BY <1>1, <1>3, <1>5, <2>1, ConnectionKept DEF InTransaction
  <2>6. NoLeftoverScope'
    BY <1>5, <2>1 DEF IInv, NoLeftoverScope
  <2> QED
    BY <1>1, <1>6, <2>1, <2>4, <2>5, <2>6 DEF IInv, TypeOK
<1>7. ASSUME Move(r, s), req[r].header \in Permitted(req[r].caller),
             object' = [object EXCEPT ![o].active = req[r].header]
      PROVE  IInv'
  <2>1. /\ req' \in [Request -> Local]
        /\ \A x \in Request \ {r} : req'[x] = req[x]
        /\ req'[r].stage = s /\ req'[r].kind = req[r].kind
        /\ req'[r].caller = req[r].caller /\ req'[r].header = req[r].header
        /\ req'[r].object = req[r].object /\ req'[r].scope = req[r].scope
        /\ req'[r].conn = req[r].conn
    BY <1>5, <1>7, MoveProperties DEF IInv
  <2>2. req[r].header \in System /\ req[r].header # None
    BY <1>2, <1>7, PermittedAreSystems, ScopeAssumption
  <2>3. /\ object' \in [Object -> [caller : Caller \cup {None}, active : System \cup {None}]]
        /\ \A p \in Object : object'[p].caller = object[p].caller
        /\ \A p \in Object \ {o} : object'[p].active = object[p].active
        /\ object'[o].active = req[r].header
    BY <1>2, <1>7, <2>2 DEF IInv, TypeOK
  <2>4. ObjectsOK'
    <3>1. \A u \in Caller : cached'[u] # None =>
             u \notin Certificate /\ object'[cached'[u]].caller = u
      BY <1>1, <2>3 DEF IInv, TypeOK, ObjectsOK
    <3>2. ASSUME NEW p \in Object, object'[p].caller \in Caller
          PROVE  object'[p].active \in Permitted(object'[p].caller) \cup {None}
      BY <1>2, <1>7, <2>3, <3>2 DEF IInv, ObjectsOK
    <3>3. \A x, y \in Request :
            x # y /\ req'[x].object # None /\ req'[x].object = req'[y].object =>
              req'[x].caller \notin Certificate
      BY <2>1 DEF IInv, ObjectsOK
    <3> QED
      BY <3>1, <3>2, <3>3 DEF ObjectsOK, Permitted
  <2>5. ASSUME NEW x \in Request PROVE SystemsOK(req[x])' /\ CertificateOK(req[x])'
    <3>1. CASE x = r
      <4>1. SystemsOK(req[r])'
        BY <1>1, <1>2, <1>4, <1>5, <2>1, <2>3 DEF IInv, SystemsOK, Scoped, InTransaction
      <4>2. CertificateOK(req[r])'
        BY <1>1, <1>4, <1>5, <2>1, <2>3 DEF IInv, CertificateOK, Scoped, InTransaction
      <4> QED
        BY <3>1, <4>1, <4>2
    <3>2. CASE x # r
      <4>1. req'[x] = req[x] /\ SystemsOK(req[x]) /\ CertificateOK(req[x])
        BY <2>1, <3>2 DEF IInv
      <4>2. req[x].stage # "idle" => req[x].object \in Object
        BY <4>1 DEF SystemsOK
      <4>3. SystemsOK(req[x])'
        BY <2>2, <2>3, <4>1, <4>2 DEF SystemsOK, Permitted, Scoped, InTransaction
      <4>4. req[x].stage # "idle" /\ req[x].caller \in Certificate => req[x].object # o
        BY <1>2, <3>2, <4>2, ScopeAssumption DEF IInv, ObjectsOK
      <4>5. CertificateOK(req[x])'
        BY <2>3, <4>1, <4>2, <4>4 DEF CertificateOK, Scoped, InTransaction
      <4> QED
        BY <4>3, <4>5
    <3> QED
      BY <3>1, <3>2
  <2>6. ConnectionsOK' /\ ConnectionsClean'
    BY <1>1, <1>3, <1>5, <2>1, ConnectionKept DEF InTransaction
  <2>7. NoLeftoverScope'
    BY <1>5, <2>1 DEF IInv, NoLeftoverScope
  <2> QED
    BY <1>1, <2>1, <2>3, <2>4, <2>5, <2>6, <2>7 DEF IInv, TypeOK
<1>8. CASE Reject(r) /\ object' = object
  BY <1>1, <1>8, RejectStep DEF InTransaction
<1> QED
  BY <1>6, <1>7, <1>8 DEF SelectSystem, s

\* The system of the overlay is the active one of the caller's object, so one the
\* caller may work in (overlay/service.go:53-60).
LEMMA ResolveStep ==
  ASSUME IInv, NEW r \in Request, ResolveCallerSystem(r)
  PROVE  IInv'
<1>1. req[r].stage = "resolve" /\ UNCHANGED <<cached, object, conn>>
  BY DEF ResolveCallerSystem
<1>2. /\ req[r].caller \in Caller /\ req[r].object \in Object
      /\ object[req[r].object].caller = req[r].caller
  BY <1>1 DEF IInv, SystemsOK
<1>3. CASE Reject(r)
  BY <1>1, <1>3, RejectStep DEF InTransaction
<1>4. CASE /\ Active(r) # None
           /\ req' = [req EXCEPT ![r] = [@ EXCEPT !.row = Active(r), !.stage = "begin"]]
  <2>1. Active(r) \in Permitted(req[r].caller) /\ Active(r) \in System
    BY <1>2, <1>4, PermittedAreSystems DEF IInv, ObjectsOK, Active
  <2>2. /\ req' \in [Request -> Local]
        /\ \A x \in Request \ {r} : req'[x] = req[x]
        /\ req'[r].stage = "begin" /\ req'[r].kind = req[r].kind
        /\ req'[r].caller = req[r].caller /\ req'[r].header = req[r].header
        /\ req'[r].object = req[r].object /\ req'[r].row = Active(r)
        /\ req'[r].scope = req[r].scope /\ req'[r].conn = req[r].conn
    <3> DEFINE n == [req[r] EXCEPT !.row = Active(r), !.stage = "begin"]
    <3>1. req' = [req EXCEPT ![r] = n]
      BY <1>4
    <3>2. /\ n \in Local
          /\ n.stage = "begin" /\ n.kind = req[r].kind
          /\ n.caller = req[r].caller /\ n.header = req[r].header
          /\ n.object = req[r].object /\ n.row = Active(r)
          /\ n.scope = req[r].scope /\ n.conn = req[r].conn
      BY <2>1 DEF IInv, TypeOK, Local, Stage
    <3> HIDE DEF n
    <3> QED
      BY <3>1, <3>2 DEF IInv, TypeOK
  <2>3. SystemsOK(req[r])'
    BY <1>1, <1>4, <2>1, <2>2 DEF IInv, SystemsOK, Permitted, Scoped, InTransaction, Active
  <2>4. CertificateOK(req[r])'
    BY <1>1, <1>4, <2>1, <2>2 DEF IInv, CertificateOK, Scoped, InTransaction, Active
  <2>5. ObjectsOK' /\ \A x \in Request : SystemsOK(req[x])' /\ CertificateOK(req[x])'
    BY <1>1, <2>2, <2>3, <2>4, RequestStep
  <2>6. ConnectionsOK' /\ ConnectionsClean'
    BY <1>1, <2>2, ConnectionKept DEF InTransaction
  <2>7. NoLeftoverScope'
    BY <2>2 DEF IInv, NoLeftoverScope
  <2> QED
    BY <1>1, <2>2, <2>5, <2>6, <2>7 DEF IInv, TypeOK
<1> QED
  BY <1>3, <1>4 DEF ResolveCallerSystem

\* The transaction of a creation is scoped to the caller's active system at that time;
\* a read sets nothing on a connection no request has (scope.go:21-53).
LEMMA BeginStep ==
  ASSUME IInv, NEW r \in Request, Begin(r)
  PROVE  IInv'
<1> DEFINE scope == IF req[r].kind = "create" THEN Active(r) ELSE None
<1>1. PICK c \in Conn :
        /\ ~Busy(c)
        /\ req' = [req EXCEPT ![r] = [@ EXCEPT !.scope = scope, !.conn = c, !.stage = "work"]]
        /\ conn' = IF scope = None THEN conn ELSE [conn EXCEPT ![c] = scope]
  BY DEF Begin
<1>2. req[r].stage = "begin" /\ UNCHANGED <<cached, object>>
  BY DEF Begin
<1>3. /\ req[r].caller \in Caller /\ req[r].object \in Object
      /\ object[req[r].object].caller = req[r].caller
  BY <1>2 DEF IInv, SystemsOK
<1>4. req[r].kind \in {"create", "read"}
  BY DEF IInv, TypeOK, Local
<1>5. /\ req[r].kind = "create" => scope = Active(r) /\ scope \in Permitted(req[r].caller)
      /\ req[r].kind = "create" => scope \in System /\ scope # None
      /\ req[r].kind = "read" => scope = None
  BY <1>2, <1>3, PermittedAreSystems, ScopeAssumption
     DEF IInv, ObjectsOK, SystemsOK, Active, Scoped
<1>6. scope \in System \cup {None}
  BY <1>4, <1>5
<1> HIDE DEF scope
<1>7. /\ req' \in [Request -> Local]
      /\ \A x \in Request \ {r} : req'[x] = req[x]
      /\ req'[r].stage = "work" /\ req'[r].kind = req[r].kind
      /\ req'[r].caller = req[r].caller /\ req'[r].header = req[r].header
      /\ req'[r].object = req[r].object /\ req'[r].row = req[r].row
      /\ req'[r].scope = scope /\ req'[r].conn = c
  <2> DEFINE n == [req[r] EXCEPT !.scope = scope, !.conn = c, !.stage = "work"]
  <2>1. req' = [req EXCEPT ![r] = n]
    BY <1>1
  <2>2. /\ n \in Local
        /\ n.stage = "work" /\ n.kind = req[r].kind
        /\ n.caller = req[r].caller /\ n.header = req[r].header
        /\ n.object = req[r].object /\ n.row = req[r].row
        /\ n.scope = scope /\ n.conn = c
    <3>1. req[r] \in Local
      BY DEF IInv, TypeOK
    <3> QED
      BY <1>6, <3>1 DEF Local, Stage
  <2> HIDE DEF n
  <2> QED
    BY <2>1, <2>2 DEF IInv, TypeOK
<1>8. SystemsOK(req[r])'
  BY <1>2, <1>4, <1>5, <1>7 DEF IInv, SystemsOK, Permitted, Scoped, InTransaction
<1>9. CertificateOK(req[r])'
  BY <1>2, <1>5, <1>7 DEF IInv, CertificateOK, Scoped, InTransaction, Active
<1>10. ObjectsOK' /\ \A x \in Request : SystemsOK(req[x])' /\ CertificateOK(req[x])'
  BY <1>2, <1>7, <1>8, <1>9, RequestStep
<1>11. /\ conn' \in [Conn -> System \cup {"unset", ""}]
       /\ scope # None => conn'[c] = scope
       /\ scope = None => conn' = conn
       /\ \A d \in Conn \ {c} : conn'[d] = conn[d]
  BY <1>1, <1>6 DEF IInv, TypeOK
<1>12. /\ c # None
       /\ \A x \in Request : req[x].conn # c
  BY <1>1, ScopeAssumption DEF Busy
<1>13. ConnectionsOK'
  <2>1. \A x \in Request : req'[x].conn # None <=> req'[x].stage \in InTransaction
    BY <1>7, <1>12 DEF IInv, ConnectionsOK, InTransaction
  <2>2. ASSUME NEW x \in Request, req'[x].conn # None, req'[x].scope # None
        PROVE  conn'[req'[x].conn] = req'[x].scope
    <3>1. CASE x = r
      BY <1>7, <1>11, <2>2, <3>1
    <3>2. CASE x # r
      <4>1. req[x].conn \in Conn \ {c} /\ req'[x] = req[x]
        <5>1. req[x] \in Local /\ req'[x] = req[x]
          BY <1>7, <3>2 DEF IInv, TypeOK
        <5> QED
          BY <1>12, <2>2, <5>1 DEF Local
      <4>2. conn[req[x].conn] = req[x].scope
        BY <2>2, <4>1 DEF IInv, ConnectionsOK
      <4> QED
        BY <1>11, <4>1, <4>2
    <3> QED
      BY <3>1, <3>2
  <2>3. \A x, y \in Request : x # y /\ req'[x].conn # None => req'[x].conn # req'[y].conn
    BY <1>7, <1>12 DEF IInv, ConnectionsOK
  <2> QED
    BY <2>1, <2>2, <2>3 DEF ConnectionsOK
<1>14. ConnectionsClean'
  <2> SUFFICES ASSUME NEW d \in Conn, conn'[d] \in System
               PROVE  \E x \in Request : req'[x].conn = d /\ req'[x].scope = conn'[d]
    BY DEF ConnectionsClean
  <2>1. CASE d = c /\ scope # None
    BY <1>7, <1>11, <2>1
  <2>2. CASE conn'[d] = conn[d]
    <3>1. PICK x \in Request : req[x].conn = d /\ req[x].scope = conn[d]
      BY <2>2 DEF IInv, ConnectionsClean
    <3>2. x # r
      BY <1>2, <3>1, ScopeAssumption DEF IInv, ConnectionsOK, InTransaction
    <3> QED
      BY <1>7, <2>2, <3>1, <3>2
  <2> QED
    BY <1>11, <2>1, <2>2
<1>15. NoLeftoverScope'
  BY <1>7 DEF IInv, NoLeftoverScope
<1> QED
  BY <1>2, <1>7, <1>10, <1>11, <1>13, <1>14, <1>15 DEF IInv, TypeOK

\* The policy lets the row in only if it is of the system the transaction is scoped to
\* (migration 000001:468-472).
LEMMA InsertStep ==
  ASSUME IInv, NEW r \in Request, Insert(r)
  PROVE  IInv'
<1>1. req[r].stage = "work" /\ req[r].kind = "create" /\ UNCHANGED <<cached, object>>
  BY DEF Insert
<1>2. CASE Reject(r) /\ EndTx(r)
  BY <1>1, <1>2, RejectStep DEF InTransaction
<1>3. CASE req[r].row \in Visible(req[r].conn) /\ Move(r, "audit") /\ conn' = conn
  <2>1. /\ req' \in [Request -> Local]
        /\ \A x \in Request \ {r} : req'[x] = req[x]
        /\ req'[r].stage = "audit" /\ req'[r].kind = req[r].kind
        /\ req'[r].caller = req[r].caller /\ req'[r].header = req[r].header
        /\ req'[r].object = req[r].object /\ req'[r].row = req[r].row
        /\ req'[r].scope = req[r].scope /\ req'[r].conn = req[r].conn
    BY <1>3, MoveProperties DEF IInv, Stage
  <2>2. req[r].row = req[r].scope
    <3>1. req[r].caller \in Caller /\ req[r].scope \in Permitted(req[r].caller)
      BY <1>1 DEF IInv, SystemsOK, Scoped, InTransaction
    <3>2. req[r].scope \in System
      BY <3>1, PermittedAreSystems
    <3>3. conn[req[r].conn] = req[r].scope
      BY <1>1, <3>2, ScopeAssumption DEF IInv, ConnectionsOK, InTransaction
    <3> QED
      BY <1>3, <3>2, <3>3, ScopeAssumption DEF Visible
  <2>3. SystemsOK(req[r])'
    BY <1>1, <2>1, <2>2 DEF IInv, SystemsOK, Permitted, Scoped, InTransaction
  <2>4. CertificateOK(req[r])'
    BY <1>1, <2>1 DEF IInv, CertificateOK, Scoped, InTransaction
  <2>5. ObjectsOK' /\ \A x \in Request : SystemsOK(req[x])' /\ CertificateOK(req[x])'
    BY <1>1, <2>1, <2>3, <2>4, RequestStep
  <2>6. ConnectionsOK' /\ ConnectionsClean'
    BY <1>1, <1>3, <2>1, ConnectionKept DEF InTransaction
  <2>7. NoLeftoverScope'
    BY <2>1 DEF IInv, NoLeftoverScope
  <2> QED
    BY <1>1, <1>3, <2>1, <2>5, <2>6, <2>7 DEF IInv, TypeOK
<1> QED
  BY <1>2, <1>3 DEF Insert

\* The audit entry has the active system of the caller's object when it is written
\* (audit.go:72-79).
LEMMA WriteAuditStep ==
  ASSUME IInv, NEW r \in Request, WriteAudit(r)
  PROVE  IInv'
<1> DEFINE n == [req[r] EXCEPT !.audit = Active(r), !.stage = "commit"]
<1>1. /\ req[r].stage = "audit" /\ UNCHANGED <<cached, object, conn>>
      /\ req' = [req EXCEPT ![r] = n]
  BY DEF WriteAudit
<1>2. /\ req[r].kind = "create"
      /\ req[r].caller \in Caller /\ req[r].object \in Object
      /\ object[req[r].object].caller = req[r].caller
      /\ Active(r) # None
  BY <1>1 DEF IInv, SystemsOK, Scoped, InTransaction, Active
<1>3. Active(r) \in Permitted(req[r].caller) /\ Active(r) \in System
  BY <1>2, PermittedAreSystems DEF IInv, ObjectsOK, Active
<1>4. /\ n \in Local
      /\ n.stage = "commit" /\ n.kind = req[r].kind
      /\ n.caller = req[r].caller /\ n.header = req[r].header
      /\ n.object = req[r].object /\ n.row = req[r].row
      /\ n.scope = req[r].scope /\ n.audit = Active(r) /\ n.conn = req[r].conn
  <2>1. req[r] \in Local
    BY DEF IInv, TypeOK
  <2> QED
    BY <1>3, <2>1 DEF Local, Stage
<1> HIDE DEF n
<1>5. /\ req' \in [Request -> Local]
      /\ req'[r] = n
      /\ \A x \in Request \ {r} : req'[x] = req[x]
  BY <1>1, <1>4 DEF IInv, TypeOK
<1>6. SystemsOK(req[r])'
  BY <1>1, <1>2, <1>3, <1>4, <1>5 DEF IInv, SystemsOK, Permitted, Scoped, InTransaction
<1>7. CertificateOK(req[r])'
  BY <1>1, <1>4, <1>5 DEF IInv, CertificateOK, Scoped, InTransaction, Active
<1>8. ObjectsOK' /\ \A x \in Request : SystemsOK(req[x])' /\ CertificateOK(req[x])'
  BY <1>1, <1>4, <1>5, <1>6, <1>7, RequestStep
<1>9. ConnectionsOK' /\ ConnectionsClean'
  BY <1>1, <1>4, <1>5, ConnectionKept DEF InTransaction
<1>10. NoLeftoverScope'
  BY <1>4, <1>5 DEF IInv, NoLeftoverScope
<1> QED
  BY <1>1, <1>5, <1>8, <1>9, <1>10 DEF IInv, TypeOK

\* A commit that succeeds (scope.go:36-41).
LEMMA CommitStep ==
  ASSUME IInv, NEW r \in Request, Commit(r)
  PROVE  IInv'
<1> DEFINE n == [req[r] EXCEPT !.stage = "created", !.conn = None]
<1>1. req[r].stage = "commit" /\ EndTx(r) /\ UNCHANGED <<cached, object>>
  BY DEF Commit
<1>2. CASE Reject(r)
  BY <1>1, <1>2, RejectStep DEF InTransaction
<1>3. CASE req' = [req EXCEPT ![r] = n]
  <2>1. /\ n \in Local
        /\ n.stage = "created" /\ n.kind = req[r].kind
        /\ n.caller = req[r].caller /\ n.header = req[r].header
        /\ n.object = req[r].object /\ n.row = req[r].row
        /\ n.scope = req[r].scope /\ n.audit = req[r].audit /\ n.conn = None
    <3>1. req[r] \in Local
      BY DEF IInv, TypeOK
    <3> QED
      BY <3>1 DEF Local, Stage
  <2> HIDE DEF n
  <2>2. /\ req' \in [Request -> Local]
        /\ req'[r] = n
        /\ \A x \in Request \ {r} : req'[x] = req[x]
    BY <1>3, <2>1 DEF IInv, TypeOK
  <2>3. SystemsOK(req[r])'
    BY <1>1, <2>1, <2>2 DEF IInv, SystemsOK, Permitted, Scoped, InTransaction
  <2>4. CertificateOK(req[r])'
    BY <1>1, <2>1, <2>2 DEF IInv, CertificateOK, Scoped, InTransaction
  <2>5. ObjectsOK' /\ \A x \in Request : SystemsOK(req[x])' /\ CertificateOK(req[x])'
    BY <1>1, <2>1, <2>2, <2>3, <2>4, RequestStep
  <2>6. conn' \in [Conn -> System \cup {"unset", ""}] /\ ConnectionsOK' /\ ConnectionsClean'
    BY <1>1, <2>1, <2>2, ConnectionReturned DEF InTransaction
  <2>7. NoLeftoverScope'
    BY <2>1, <2>2 DEF IInv, NoLeftoverScope
  <2> QED
    BY <1>1, <2>2, <2>5, <2>6, <2>7 DEF IInv, TypeOK
<1> QED
  BY <1>2, <1>3 DEF Commit

\* A connection that runs a transaction without a scope has no system set on it: the
\* setting would be the scope of the request that has the connection (scope.go:28-33).
LEMMA ReadStep ==
  ASSUME IInv, NEW r \in Request, Read(r)
  PROVE  IInv'
<1> DEFINE v == Visible(req[r].conn)
           n == [req[r] EXCEPT !.seen = v, !.conn = None, !.stage = "read"]
<1>1. /\ req[r].stage = "work" /\ req[r].kind = "read"
      /\ EndTx(r) /\ UNCHANGED <<cached, object>>
      /\ req' = [req EXCEPT ![r] = n]
  BY DEF Read
<1>2. v \in {System, {}}
  <2>1. req[r].scope = None /\ req[r].conn \in Conn
    BY <1>1, ScopeAssumption
       DEF IInv, SystemsOK, ConnectionsOK, InTransaction, TypeOK, Local
  <2>2. conn[req[r].conn] \notin System
    <3> SUFFICES ASSUME conn[req[r].conn] \in System PROVE FALSE
      OBVIOUS
    <3>1. PICK x \in Request : req[x].conn = req[r].conn /\ req[x].scope = conn[req[r].conn]
      BY <2>1 DEF IInv, ConnectionsClean
    <3>2. x = r
      BY <2>1, <3>1, ScopeAssumption DEF IInv, ConnectionsOK
    <3> QED
      BY <2>1, <3>1, <3>2, ScopeAssumption
  <2> QED
    BY <2>2 DEF Visible
<1> HIDE DEF v
<1>3. /\ n \in Local
      /\ n.stage = "read" /\ n.kind = req[r].kind
      /\ n.caller = req[r].caller /\ n.header = req[r].header
      /\ n.object = req[r].object /\ n.row = req[r].row
      /\ n.scope = req[r].scope /\ n.conn = None /\ n.seen = v
  <2>1. req[r] \in Local /\ v \in SUBSET System
    BY <1>2 DEF IInv, TypeOK
  <2> QED
    BY <2>1 DEF Local, Stage
<1> HIDE DEF n
<1>4. /\ req' \in [Request -> Local]
      /\ req'[r] = n
      /\ \A x \in Request \ {r} : req'[x] = req[x]
  BY <1>1, <1>3 DEF IInv, TypeOK
<1>5. SystemsOK(req[r])'
  BY <1>1, <1>3, <1>4 DEF IInv, SystemsOK, Permitted, Scoped, InTransaction
<1>6. CertificateOK(req[r])'
  BY <1>1, <1>3, <1>4 DEF IInv, CertificateOK, Scoped, InTransaction
<1>7. ObjectsOK' /\ \A x \in Request : SystemsOK(req[x])' /\ CertificateOK(req[x])'
  BY <1>1, <1>3, <1>4, <1>5, <1>6, RequestStep
<1>8. conn' \in [Conn -> System \cup {"unset", ""}] /\ ConnectionsOK' /\ ConnectionsClean'
  BY <1>1, <1>3, <1>4, ConnectionReturned DEF InTransaction
<1>9. NoLeftoverScope'
  BY <1>2, <1>3, <1>4 DEF IInv, NoLeftoverScope
<1> QED
  BY <1>1, <1>4, <1>7, <1>8, <1>9 DEF IInv, TypeOK

\* Forgetting a cached identity leaves the objects requests hold alone
\* (auth/cache.go:52-53, 63-70, 81-89).
LEMMA ForgetStep ==
  ASSUME IInv, NEW u \in Caller, Forget(u)
  PROVE  IInv'
<1>1. /\ UNCHANGED <<object, req, conn>>
      /\ cached' \in [Caller -> Object \cup {None}]
      /\ \A v \in Caller : cached'[v] # None => cached'[v] = cached[v]
  BY DEF Forget, IInv, TypeOK
<1>2. TypeOK'
  BY <1>1 DEF IInv, TypeOK
<1>3. ObjectsOK'
  BY <1>1 DEF IInv, ObjectsOK, Permitted
<1>4. \A x \in Request : SystemsOK(req[x])' /\ CertificateOK(req[x])'
  BY <1>1 DEF IInv, SystemsOK, CertificateOK, Permitted, Scoped, InTransaction
<1>5. ConnectionsOK' /\ ConnectionsClean' /\ NoLeftoverScope'
  BY <1>1 DEF IInv, ConnectionsOK, ConnectionsClean, NoLeftoverScope
<1> QED
  BY <1>2, <1>3, <1>4, <1>5 DEF IInv

\* The pool replaces only connections that no request has (db.go:17-39).
LEMMA ReconnectStep ==
  ASSUME IInv, NEW c \in Conn, Reconnect(c)
  PROVE  IInv'
<1>1. /\ UNCHANGED <<cached, object, req>>
      /\ conn' \in [Conn -> System \cup {"unset", ""}]
      /\ \A d \in Conn : d = c \/ conn'[d] = conn[d]
      /\ conn'[c] = "unset"
      /\ \A r \in Request : req[r].conn # c
  BY DEF Reconnect, Busy, IInv, TypeOK
<1>2. TypeOK'
  BY <1>1 DEF IInv, TypeOK
<1>3. ObjectsOK'
  BY <1>1 DEF IInv, ObjectsOK, Permitted
<1>4. \A x \in Request : SystemsOK(req[x])' /\ CertificateOK(req[x])'
  BY <1>1 DEF IInv, SystemsOK, CertificateOK, Permitted, Scoped, InTransaction
<1>5. ConnectionsOK'
  <2>1. \A x \in Request : req[x] \in Local
    BY DEF IInv, TypeOK
  <2>2. \A x \in Request : req[x].conn # None => conn'[req[x].conn] = conn[req[x].conn]
    BY <1>1, <2>1 DEF Local
  <2> QED
    BY <1>1, <2>2 DEF IInv, ConnectionsOK
<1>6. ConnectionsClean'
  <2> SUFFICES ASSUME NEW d \in Conn, conn'[d] \in System
               PROVE  \E x \in Request : req'[x].conn = d /\ req'[x].scope = conn'[d]
    BY DEF ConnectionsClean
  <2>1. conn'[d] = conn[d]
    BY <1>1, ScopeAssumption
  <2>2. PICK x \in Request : req[x].conn = d /\ req[x].scope = conn[d]
    BY <2>1 DEF IInv, ConnectionsClean
  <2> QED
    BY <1>1, <2>1, <2>2
<1>7. NoLeftoverScope'
  BY <1>1 DEF IInv, NoLeftoverScope
<1> QED
  BY <1>2, <1>3, <1>4, <1>5, <1>6, <1>7 DEF IInv

(***************************************************************************)
(* The theorems.                                                           *)
(***************************************************************************)

\* The invariant holds before any request is received.
LEMMA InitIInv == Init => IInv
<1> SUFFICES ASSUME Init PROVE IInv
  OBVIOUS
<1>1. /\ \A r \in Request : req[r] = Free
      /\ req \in [Request -> Local]
  BY FreeProperties DEF Init
<1>2. \A r \in Request : /\ req[r].stage = "idle" /\ req[r].kind = "read"
                         /\ req[r].object = None /\ req[r].scope = None /\ req[r].conn = None
  BY <1>1, FreeProperties
<1>3. TypeOK
  BY <1>1 DEF Init, TypeOK
<1>4. ObjectsOK
  BY <1>2, ScopeAssumption DEF Init, ObjectsOK
<1>5. \A r \in Request : SystemsOK(req[r]) /\ CertificateOK(req[r])
  BY <1>2 DEF SystemsOK, CertificateOK, Scoped, InTransaction
<1>6. ConnectionsOK /\ ConnectionsClean /\ NoLeftoverScope
  BY <1>2, ScopeAssumption
     DEF Init, ConnectionsOK, ConnectionsClean, NoLeftoverScope, InTransaction
<1> QED
  BY <1>3, <1>4, <1>5, <1>6 DEF IInv

\* Every step of the middleware, the service, the database or the cache preserves it.
LEMMA NextIInv == IInv /\ [Next]_vars => IInv'
<1> SUFFICES ASSUME IInv, [Next]_vars PROVE IInv'
  OBVIOUS
<1>1. ASSUME NEW r \in Request, Serve(r) PROVE IInv'
  <2>1. CASE AuthenticateCached(r)
    BY <2>1, AuthenticateCachedStep
  <2>2. CASE AuthenticateNew(r)
    BY <2>2, AuthenticateNewStep
  <2>3. CASE SelectSystem(r)
    BY <2>3, SelectSystemStep
  <2>4. CASE ResolveCallerSystem(r)
    BY <2>4, ResolveStep
  <2>5. CASE Begin(r)
    BY <2>5, BeginStep
  <2>6. CASE Insert(r)
    BY <2>6, InsertStep
  <2>7. CASE WriteAudit(r)
    BY <2>7, WriteAuditStep
  <2>8. CASE Commit(r)
    BY <2>8, CommitStep
  <2>9. CASE Read(r)
    BY <2>9, ReadStep
  <2>10. CASE Respond(r)
    BY <2>10, RejectStep DEF Respond, InTransaction
  <2> QED
    BY <1>1, <2>1, <2>2, <2>3, <2>4, <2>5, <2>6, <2>7, <2>8, <2>9, <2>10 DEF Serve
<1>2. ASSUME NEW u \in Caller, Forget(u) PROVE IInv'
  BY <1>2, ForgetStep
<1>3. ASSUME NEW c \in Conn, Reconnect(c) PROVE IInv'
  BY <1>3, ReconnectStep
<1>4. CASE UNCHANGED vars
  <2>1. UNCHANGED <<cached, object, req, conn>>
    BY <1>4 DEF vars
  <2>2. TypeOK' /\ ObjectsOK'
    BY <2>1 DEF IInv, TypeOK, ObjectsOK, Permitted
  <2>3. \A x \in Request : SystemsOK(req[x])' /\ CertificateOK(req[x])'
    BY <2>1 DEF IInv, SystemsOK, CertificateOK, Permitted, Scoped, InTransaction
  <2>4. ConnectionsOK' /\ ConnectionsClean' /\ NoLeftoverScope'
    BY <2>1 DEF IInv, ConnectionsOK, ConnectionsClean, NoLeftoverScope
  <2> QED
    BY <2>2, <2>3, <2>4 DEF IInv
<1> QED
  BY <1>1, <1>2, <1>3, <1>4 DEF Next

\* The inductive invariant holds in every reachable state: what the middleware wrote
\* into an identity stays valid for every stage that reads it (auth.go:25-70,
\* overlay/service.go:53-90, scope.go:21-53, audit.go:72-79).
THEOREM IInvHolds == Spec => []IInv
<1>1. Init => IInv
  BY InitIInv
<1>2. IInv /\ [Next]_vars => IInv'
  BY NextIInv
<1> QED
  BY <1>1, <1>2, PTL DEF Spec

\* Every variable keeps its type.
THEOREM TypeCorrect == Spec => []TypeOK
<1>1. IInv => TypeOK
  BY DEF IInv
<1> QED
  BY <1>1, IInvHolds, PTL

\* Whatever requests of one caller write into the identity they share, everything a
\* created overlay, its transaction and its audit entry are scoped to is a system the
\* caller may work in (auth.go:59-70, overlay/service.go:267-272, audit.go:72-78).
THEOREM StaysWithinPermitted == Spec => []WithinPermitted
<1>1. IInv => WithinPermitted
  BY DEF IInv, SystemsOK, WithinPermitted, Scoped
<1> QED
  BY <1>1, IInvHolds, PTL

\* An overlay is created in the system its transaction is scoped to, or not at all
\* (scope.go:46-53, migration 000001:468-472).
THEOREM RowInTransactionScope == Spec => []RowInScope
<1>1. IInv => RowInScope
  BY DEF IInv, SystemsOK, RowInScope
<1> QED
  BY <1>1, IInvHolds, PTL

\* A caller with a certificate has an identity of his own in every request, so what he
\* creates is in the system of that request's header (mtls.go:25-35).
THEOREM CertificateCallersExact == Spec => []CertificateExact
<1>1. IInv => CertificateExact
  BY DEF IInv, SystemsOK, CertificateOK, CertificateExact, Scoped
<1> QED
  BY <1>1, IInvHolds, PTL

\* A read without a scope is shown the rows of every system or none, whatever ran on
\* its connection before (scope.go:28-33).
THEOREM NoScopeLeftOver == Spec => []NoLeftoverScope
<1>1. IInv => NoLeftoverScope
  BY DEF IInv
<1> QED
  BY <1>1, IInvHolds, PTL

=============================================================================
