---------------------------- MODULE OverlaysProofs ----------------------------
(***************************************************************************)
(* Theorems about Overlays, for any systems, schemas, requests and JSON    *)
(* Schemas.                                                                *)
(*                                                                         *)
(* The argument: a request's reads still hold as long as it is fresh, for  *)
(* whatever could make them wrong is a write of the same system, which     *)
(* takes the freshness.  So a step is looked at twice: at the one system   *)
(* it writes, and at all others, which it leaves as they are (Frame).      *)
(***************************************************************************)
EXTENDS Overlays, TLAPS

\* The parts of the invariant that concern one system.
SchemaKeptOf(s) ==
  \A e \in Entity :
    overlay[s][e].exists /\ anomaly[s] \cap {"overtaken", "blind"} = {} =>
      \E x \in Governing(s, e) : overlay[s][e].checked => overlay[s][e].val \in Valid[schema[x].doc]

PrefixedOf(s) ==
  \A e \in Entity :
    overlay[s][e].exists /\ anomaly[s] \cap {"overtaken", "renamed"} = {} =>
      KeysIn[overlay[s][e].val] \subseteq Prefixed[system[s].name]

NameOf(s) == system[s].exists /\ "renamed" \notin anomaly[s] => system[s].name = system[s].ext

SystemHolds(s) == SchemaKeptOf(s) /\ PrefixedOf(s) /\ NameOf(s)

RequestHolds(q) == Shape(q) /\ (req[q].fresh => ReadHolds(q))

\* The step leaves everything of system t as it is.
Frame(t) ==
  /\ system'[t] = system[t]
  /\ anomaly'[t] = anomaly[t]
  /\ \A x \in Schema : schema[x].exists /\ schema[x].sys = t => schema'[x] = schema[x]
  /\ \A x \in Schema : schema'[x].exists /\ schema'[x].sys = t => schema'[x] = schema[x]
  /\ overlay'[t] = overlay[t]

LEMMA IInvParts ==
  IInv <=> /\ TypeOK /\ References /\ UniqueKeys
           /\ \A s \in System : SystemHolds(s)
           /\ \A q \in Request : RequestHolds(q)
<1>1. SchemaKept <=> \A s \in System : SchemaKeptOf(s)
  BY DEF SchemaKept, SchemaKeptOf
<1>2. KeysPrefixed <=> \A s \in System : PrefixedOf(s)
  BY DEF KeysPrefixed, PrefixedOf
<1>3. NameIsExternalId <=> \A s \in System : NameOf(s)
  BY DEF NameIsExternalId, NameOf, Systems
<1> QED
  BY <1>1, <1>2, <1>3 DEF IInv, SystemHolds, RequestHolds

\* What a framed system had, it still has.
LEMMA FrameSystem ==
  ASSUME NEW t \in System, SystemHolds(t), Frame(t)
  PROVE  SystemHolds(t)'
<1>1. \A e \in Entity : Governing(t, e) \subseteq Governing(t, e)'
  BY DEF Frame, Governing, Schemas
<1>2. SchemaKeptOf(t)'
  BY <1>1 DEF SystemHolds, SchemaKeptOf, Frame, Governing, Schemas
<1>3. PrefixedOf(t)' /\ NameOf(t)'
  BY DEF SystemHolds, PrefixedOf, NameOf, Frame
<1> QED
  BY <1>2, <1>3 DEF SystemHolds

LEMMA FrameRequest ==
  ASSUME TypeOK, NEW q \in Request, RequestHolds(q), req'[q] = req[q],
         req[q].sys \in System => Frame(req[q].sys)
  PROVE  RequestHolds(q)'
<1> DEFINE t == req[q].sys
<1>1. Shape(q)'
  BY DEF RequestHolds, Shape
<1>2. CASE req[q].pc = "idle"
  BY <1>1, <1>2, OverlaysAssumption DEF RequestHolds, Shape, ReadHolds, Idle, SchemaOp, OverlayOp
<1>3. CASE req[q].pc # "idle" /\ req[q].fresh
  <2>1. t \in System /\ Frame(t) /\ ReadHolds(q)
    BY <1>3 DEF RequestHolds, Shape
  <2>2. t \in Systems' /\ system'[t] = system[t]
    BY <2>1, <1>3 DEF ReadHolds, Systems, Frame
  <2>3. req[q].op = "delete_schema" =>
          /\ req[q].id \in Schemas' /\ schema'[req[q].id] = schema[req[q].id]
          /\ Governed(req[q].id)' = Governed(req[q].id)
    <3> SUFFICES ASSUME req[q].op = "delete_schema"
                 PROVE  /\ req[q].id \in Schemas' /\ schema'[req[q].id] = schema[req[q].id]
                        /\ Governed(req[q].id)' = Governed(req[q].id)
      OBVIOUS
    <3>1. req[q].id \in Schemas /\ schema[req[q].id].sys = t
      BY <2>1 DEF ReadHolds
    <3>2. req[q].id \in Schemas' /\ schema'[req[q].id] = schema[req[q].id]
      BY <2>1, <3>1 DEF Schemas, Frame
    <3>3. overlay'[t] = overlay[t]
      BY <2>1 DEF Frame
    <3> QED
      BY <3>1, <3>2, <3>3 DEF Governed
  <2>4. req[q].op \in OverlayOp /\ req[q].pc = "write" =>
          \E x \in Governing(t, req[q].ent)' : req[q].val \in Valid[schema'[x].doc]
    BY <2>1 DEF ReadHolds, Governing, Schemas, Frame
  <2>5. ReadHolds(q)'
    BY <2>1, <2>2, <2>3, <2>4 DEF ReadHolds, Frame
  <2> QED
    BY <1>1, <2>5 DEF RequestHolds
<1>4. CASE ~req[q].fresh
  BY <1>1, <1>4 DEF RequestHolds
<1> QED
  BY <1>2, <1>3, <1>4


LEMMA IdleFacts ==
  /\ Idle \in Local /\ Idle.pc = "idle" /\ Idle.op = "none" /\ Idle.sys = None
  /\ Idle.name = None /\ Idle.ent = None /\ Idle.id = None /\ Idle.fresh
  /\ \A q \in Request : req[q] = Idle => RequestHolds(q)
<1>1. Idle \in Local
  BY DEF Idle, Local
<1>2. \A q \in Request : req[q] = Idle => Shape(q) /\ ReadHolds(q)
  BY DEF Shape, ReadHolds, Idle, OverlayOp, SchemaOp
<1> QED
  BY <1>1, <1>2 DEF RequestHolds, Idle

\* Request q ended, or belongs to another system, or is no longer fresh.
Settled(q, s) ==
  \/ req'[q] = Idle
  \/ req'[q] = req[q] /\ req[q].sys # s
  \/ Shape(q)' /\ ~req'[q].fresh

LEMMA TouchedSettles ==
  ASSUME TypeOK, \A q \in Request : RequestHolds(q), NEW s \in System, NEW r,
         req' = Touched(s, r)
  PROVE  req' \in [Request -> Local] /\ \A q \in Request : Settled(q, s)
<1> SUFFICES ASSUME NEW q \in Request
             PROVE  req'[q] \in Local /\ Settled(q, s)
  BY DEF Touched
<1>1. req[q] \in Local /\ Shape(q)
  BY DEF TypeOK, RequestHolds
<1>2. CASE q = r
  BY <1>2, IdleFacts DEF Touched, Settled
<1>3. CASE q # r /\ req[q].sys # s
  BY <1>1, <1>3 DEF Touched, Settled
<1>4. CASE q # r /\ req[q].sys = s
  <2> DEFINE n == [req[q] EXCEPT !.fresh = FALSE]
  <2>1. req'[q] = n
    BY <1>4 DEF Touched
  <2>2. n \in Local /\ ~n.fresh
    BY <1>1 DEF Local
  <2>3. /\ n.pc = req[q].pc /\ n.op = req[q].op /\ n.sys = req[q].sys /\ n.name = req[q].name
        /\ n.id = req[q].id /\ n.ent = req[q].ent /\ n.doc = req[q].doc /\ n.val = req[q].val
    BY <1>1 DEF Local
  <2>4. req[q].pc # "idle"
    BY <1>1, <1>4, IdleFacts, OverlaysAssumption DEF Shape
  <2> HIDE DEF n
  <2>5. Shape(q)'
    BY <1>1, <2>1, <2>3, <2>4 DEF Shape
  <2> QED
    BY <2>1, <2>2, <2>5 DEF Settled
<1> QED
  BY <1>2, <1>3, <1>4

\* A step that writes one system and keeps what concerns it.
LEMMA OneSystem ==
  ASSUME IInv, NEW s \in System, TypeOK', References', UniqueKeys', SystemHolds(s)',
         \A t \in System \ {s} : Frame(t), \A q \in Request : Settled(q, s)
  PROVE  IInv'
<1>1. \A t \in System : SystemHolds(t)'
  BY IInvParts, FrameSystem
<1>2. ASSUME NEW q \in Request PROVE RequestHolds(q)'
  <2>1. CASE req'[q] = Idle
    BY <2>1 DEF RequestHolds, Shape, ReadHolds, Idle, OverlayOp, SchemaOp
  <2>2. CASE req'[q] = req[q] /\ req[q].sys # s
    BY <2>2, FrameRequest, IInvParts
  <2>3. CASE Shape(q)' /\ ~req'[q].fresh
    BY <2>3 DEF RequestHolds
  <2> QED
    BY <2>1, <2>2, <2>3 DEF Settled
<1>3. SchemaKept' /\ KeysPrefixed' /\ NameIsExternalId'
  BY <1>1 DEF SystemHolds, SchemaKept, SchemaKeptOf, KeysPrefixed, PrefixedOf,
              NameIsExternalId, NameOf, Systems
<1> QED
  BY <1>2, <1>3 DEF IInv, RequestHolds

\* A step that only changes what one request knows.
LEMMA OneRequest ==
  ASSUME IInv, NEW r \in Request, NEW n \in Local, req' = [req EXCEPT ![r] = n],
         UNCHANGED <<system, schema, entity, overlay, anomaly>>, RequestHolds(r)'
  PROVE  IInv'
<1>1. TypeOK'
  BY DEF IInv, TypeOK
<1>2. References' /\ UniqueKeys' /\ SchemaKept' /\ KeysPrefixed' /\ NameIsExternalId'
  BY DEF IInv, References, UniqueKeys, SchemaKept, KeysPrefixed, NameIsExternalId, Systems,
         Schemas, Governing
<1>3. \A t \in System : Frame(t)
  BY DEF Frame
<1>4. ASSUME NEW q \in Request PROVE RequestHolds(q)'
  <2>1. CASE q # r
    <3>1. req'[q] = req[q]
      BY <2>1 DEF IInv, TypeOK
    <3> QED
      BY <3>1, <1>3, FrameRequest DEF IInv, RequestHolds
  <2> QED
    BY <2>1
<1> QED
  BY <1>1, <1>2, <1>4 DEF IInv, RequestHolds

LEMMA FailInv ==
  ASSUME IInv, NEW r \in Request, Fail(r)
  PROVE  IInv'
<1>1. req'[r] = Idle
  BY DEF Fail, IInv, TypeOK
<1>2. RequestHolds(r)'
  BY <1>1 DEF RequestHolds, Shape, ReadHolds, Idle, OverlayOp, SchemaOp
<1> QED
  BY <1>2, IdleFacts, OneRequest DEF Fail

LEMMA ReadSystemInv ==
  ASSUME IInv, NEW r \in Request, NEW s \in System, NEW fields \in SUBSET {"name", "active"},
         NEW n \in Name, NEW a \in BOOLEAN, ReadSystem(r, s, fields, n, a)
  PROVE  IInv'
<1> DEFINE nm == IF "name" \in fields THEN n ELSE system[s].name
           ac == IF "active" \in fields THEN a ELSE system[s].active
           k == [Idle EXCEPT !.pc = "write", !.op = "patch", !.sys = s, !.sets = fields,
                             !.name = nm, !.active = ac]
<1>1. nm \in Name /\ ac \in BOOLEAN /\ s \in Systems
  BY DEF ReadSystem, IInv, TypeOK, SystemRow, Systems
<1>2. req' = [req EXCEPT ![r] = k] /\ UNCHANGED <<system, schema, entity, overlay, anomaly>>
  BY DEF ReadSystem, Start
<1>3. "active" \in fields \/ ac = system[s].active
  OBVIOUS
<1> HIDE DEF nm, ac
<1>4. k \in Local /\ k.pc = "write" /\ k.op = "patch" /\ k.sys = s /\ k.sets = fields
      /\ k.name = nm /\ k.active = ac
  BY <1>1, IdleFacts DEF Local, Op
<1> HIDE DEF k
<1>5. req'[r] = k
  BY <1>2 DEF IInv, TypeOK
<1>6. Shape(r)'
  BY <1>1, <1>4, <1>5 DEF Shape, Op, OverlayOp, SchemaOp
<1>7. ReadHolds(r)'
  BY <1>1, <1>2, <1>3, <1>4, <1>5 DEF ReadHolds, OverlayOp, SchemaOp, Systems
<1> QED
  BY <1>2, <1>4, <1>6, <1>7, OneRequest DEF RequestHolds

LEMMA ResolveSystemNameInv ==
  ASSUME IInv, NEW r \in Request, NEW op \in SchemaOp, NEW s \in System, NEW d \in Document,
         ResolveSystemName(r, op, s, d)
  PROVE  IInv'
<1> DEFINE k == [Idle EXCEPT !.pc = "write", !.op = op, !.sys = s, !.doc = d]
<1>1. k \in Local /\ k.pc = "write" /\ k.op = op /\ k.sys = s /\ k.doc = d
  BY IdleFacts DEF Local, Op
<1>2. req' = [req EXCEPT ![r] = k] /\ UNCHANGED <<system, schema, entity, overlay, anomaly>>
  BY DEF ResolveSystemName, Start
<1>3. s \in Systems /\ KeysIn[d] \subseteq Prefixed[system[s].name]
  BY DEF ResolveSystemName
<1> HIDE DEF k
<1>4. req'[r] = k
  BY <1>2 DEF IInv, TypeOK
<1>5. Shape(r)'
  BY <1>1, <1>4 DEF Shape, Op, OverlayOp, SchemaOp
<1>6. ReadHolds(r)'
  BY <1>1, <1>2, <1>3, <1>4 DEF ReadHolds, OverlayOp, SchemaOp, Systems
<1> QED
  BY <1>1, <1>2, <1>5, <1>6, OneRequest DEF RequestHolds

LEMMA ResolveCallerSystemInv ==
  ASSUME IInv, NEW r \in Request, NEW op \in Op, NEW s \in System, ResolveCallerSystem(r, op, s)
  PROVE  IInv'
<1> DEFINE pc == IF op \in OverlayOp THEN "entity" ELSE "write"
           k == [Idle EXCEPT !.pc = pc, !.op = op, !.sys = s, !.name = system[s].name]
<1>1. s \in Systems /\ system[s].active /\ system[s].name \in Name
      /\ op \in OverlayOp \cup {"delete_overlay"}
  BY DEF ResolveCallerSystem, IInv, TypeOK, Systems
<1>2. \/ pc = "entity" /\ op \in OverlayOp
      \/ pc = "write" /\ op = "delete_overlay"
  BY <1>1
<1>3. req' = [req EXCEPT ![r] = k] /\ UNCHANGED <<system, schema, entity, overlay, anomaly>>
  BY DEF ResolveCallerSystem, Start
<1> HIDE DEF pc
<1>4. k \in Local /\ k.pc = pc /\ k.op = op /\ k.sys = s /\ k.name = system[s].name
  BY <1>1, <1>2, IdleFacts DEF Local, Op
<1> HIDE DEF k
<1>5. req'[r] = k
  BY <1>3 DEF IInv, TypeOK
<1>6. Shape(r)'
  BY <1>1, <1>2, <1>4, <1>5 DEF Shape, Op, OverlayOp, SchemaOp
<1>7. ReadHolds(r)'
  BY <1>1, <1>2, <1>3, <1>4, <1>5 DEF ReadHolds, OverlayOp, SchemaOp, Systems
<1> QED
  BY <1>3, <1>4, <1>6, <1>7, OneRequest DEF RequestHolds

LEMMA ResolveEntityInv ==
  ASSUME IInv, NEW r \in Request, NEW e \in Entity, ResolveEntity(r, e)
  PROVE  IInv'
<1> DEFINE k == [req[r] EXCEPT !.pc = "schema", !.ent = e]
<1>1. req[r] \in Local /\ Shape(r) /\ req[r].pc = "entity" /\ (req[r].fresh => ReadHolds(r))
  BY DEF ResolveEntity, IInv, TypeOK
<1>2. /\ k \in Local /\ k.pc = "schema" /\ k.ent = e
      /\ k.op = req[r].op /\ k.sys = req[r].sys /\ k.name = req[r].name /\ k.fresh = req[r].fresh
  BY <1>1 DEF Local
<1>3. req' = [req EXCEPT ![r] = k] /\ UNCHANGED <<system, schema, entity, overlay, anomaly>>
  BY DEF ResolveEntity, IInv, TypeOK
<1> HIDE DEF k
<1>4. req'[r] = k
  BY <1>3 DEF IInv, TypeOK
<1>5. Shape(r)'
  BY <1>1, <1>2, <1>4 DEF Shape, Op, OverlayOp, SchemaOp
<1>6. req[r].fresh => ReadHolds(r)'
  BY <1>1, <1>2, <1>3, <1>4 DEF ReadHolds, Shape, OverlayOp, SchemaOp, Systems
<1> QED
  BY <1>2, <1>3, <1>4, <1>5, <1>6, OneRequest DEF RequestHolds

LEMMA ResolveOverlaySchemaInv ==
  ASSUME IInv, NEW r \in Request, NEW v \in Value, ResolveOverlaySchema(r, v)
  PROVE  IInv'
<1> DEFINE k == [req[r] EXCEPT !.pc = "write", !.val = v]
<1>1. req[r] \in Local /\ Shape(r) /\ req[r].pc = "schema" /\ (req[r].fresh => ReadHolds(r))
  BY DEF ResolveOverlaySchema, IInv, TypeOK
<1>2. /\ k \in Local /\ k.pc = "write" /\ k.val = v /\ k.ent = req[r].ent
      /\ k.op = req[r].op /\ k.sys = req[r].sys /\ k.name = req[r].name /\ k.fresh = req[r].fresh
  BY <1>1 DEF Local
<1>3. req' = [req EXCEPT ![r] = k] /\ UNCHANGED <<system, schema, entity, overlay, anomaly>>
  BY DEF ResolveOverlaySchema, IInv, TypeOK
<1>4. /\ KeysIn[v] \subseteq Prefixed[req[r].name]
      /\ \E x \in Governing(req[r].sys, req[r].ent) : v \in Valid[schema[x].doc]
  BY DEF ResolveOverlaySchema
<1> HIDE DEF k
<1>5. req'[r] = k
  BY <1>3 DEF IInv, TypeOK
<1>6. Shape(r)'
  BY <1>1, <1>2, <1>5 DEF Shape, Op, OverlayOp, SchemaOp
<1>7. req[r].fresh => ReadHolds(r)'
  BY <1>1, <1>2, <1>3, <1>4, <1>5 DEF ReadHolds, Shape, OverlayOp, SchemaOp, Systems, Governing, Schemas
<1> QED
  BY <1>2, <1>3, <1>5, <1>6, <1>7, OneRequest DEF RequestHolds

\* What every commit of request r does beside the row it writes.
LEMMA CommitFacts ==
  ASSUME IInv, NEW r \in Request, req[r].pc = "write", CommitWrite(r)
  PROVE  /\ req[r].sys \in System
         /\ req' \in [Request -> Local] /\ \A q \in Request : Settled(q, req[r].sys)
         /\ anomaly' \in [System -> SUBSET Anomaly]
         /\ \A t \in System \ {req[r].sys} : anomaly'[t] = anomaly[t]
         /\ anomaly[req[r].sys] \subseteq anomaly'[req[r].sys]
         /\ req[r].fresh \/ "overtaken" \in anomaly'[req[r].sys]
         /\ req[r].fresh => anomaly' = anomaly
         /\ "renamed" \in anomaly'[req[r].sys] => "renamed" \in anomaly[req[r].sys]
<1>1. req[r].sys \in System /\ anomaly \in [System -> SUBSET Anomaly]
  BY DEF IInv, Shape, TypeOK
<1>2. \A q \in Request : RequestHolds(q)
  BY DEF IInv, RequestHolds
<1>3. req' \in [Request -> Local] /\ \A q \in Request : Settled(q, req[r].sys)
  BY <1>1, <1>2, TouchedSettles DEF CommitWrite, IInv
<1>4. "overtaken" \in Anomaly /\ "overtaken" # "renamed"
  BY DEF Anomaly
<1> QED
  BY <1>1, <1>3, <1>4 DEF CommitWrite

LEMMA CommitSystem ==
  ASSUME IInv, NEW r \in Request, req[r].pc = "write"
  PROVE  req[r].sys \in System
BY DEF IInv, Shape

\* A new system has no schemas and no overlays.
LEMMA NewSystemInv ==
  ASSUME IInv, NEW s \in System, NEW n \in Name, NEW x \in Name, NEW a \in BOOLEAN,
         NEW an \in SUBSET Anomaly, n = x \/ "renamed" \in an,
         s \notin Systems \cup Held("sys"), FreeName(s, x),
         system' = [system EXCEPT ![s] = [exists |-> TRUE, name |-> n, ext |-> x, active |-> a]],
         anomaly' = [anomaly EXCEPT ![s] = an],
         UNCHANGED <<schema, entity, overlay, req>>
  PROVE  IInv'
<1> DEFINE row == [exists |-> TRUE, name |-> n, ext |-> x, active |-> a]
<1>1. row \in SystemRow /\ row.exists /\ row.name = n /\ row.ext = x
  BY DEF SystemRow
<1>2. system \in [System -> SystemRow] /\ anomaly \in [System -> SUBSET Anomaly]
  BY DEF IInv, TypeOK
<1> HIDE DEF row
<1>3. /\ system' \in [System -> SystemRow] /\ system'[s] = row
      /\ \A t \in System \ {s} : system'[t] = system[t]
      /\ anomaly' \in [System -> SUBSET Anomaly] /\ anomaly'[s] = an
      /\ \A t \in System \ {s} : anomaly'[t] = anomaly[t]
  <2>1. system' = [system EXCEPT ![s] = row]
    BY DEF row
  <2> QED
    BY <1>1, <1>2, <2>1
<1>4. TypeOK'
  BY <1>1, <1>3 DEF IInv, TypeOK
<1>5. References'
  BY <1>1, <1>3 DEF IInv, References, Systems, Schemas
<1>6. UniqueKeys'
  BY <1>1, <1>3 DEF IInv, UniqueKeys, FreeName, Systems, Schemas
<1>7. \A e \in Entity : ~overlay[s][e].exists
  BY DEF IInv, References
<1>8. SystemHolds(s)'
  BY <1>1, <1>3, <1>7 DEF SystemHolds, SchemaKeptOf, PrefixedOf, NameOf
<1>9. \A t \in System \ {s} : Frame(t)
  BY <1>3 DEF Frame
<1>10. \A q \in Request : Settled(q, s)
  BY DEF Settled, Held
<1> QED
  BY <1>4, <1>5, <1>6, <1>8, <1>9, <1>10, OneSystem

LEMMA CreateSystemInv ==
  ASSUME IInv, NEW s \in System, NEW n \in Name, CreateSystem(s, n)
  PROVE  IInv'
<1>1. {} \in SUBSET Anomaly /\ TRUE \in BOOLEAN
  OBVIOUS
<1> QED
  BY <1>1, NewSystemInv DEF CreateSystem

LEMMA CreateSystemEntityInv ==
  ASSUME IInv, NEW s \in System, NEW n \in Name, NEW x \in Name, NEW a \in BOOLEAN,
         CreateSystemEntity(s, n, x, a)
  PROVE  IInv'
<1> DEFINE an == IF n = x THEN {} ELSE {"renamed"}
<1>1. an \in SUBSET Anomaly /\ (n = x \/ "renamed" \in an)
  BY DEF Anomaly
<1>2. anomaly' = [anomaly EXCEPT ![s] = an]
  BY DEF CreateSystemEntity
<1> HIDE DEF an
<1> QED
  BY <1>1, <1>2, NewSystemInv DEF CreateSystemEntity

\* A system whose row changes, its name only with a mark.
LEMMA RewrittenSystemInv ==
  ASSUME IInv, NEW s \in System, NEW r, NEW row \in SystemRow, NEW an \in SUBSET Anomaly,
         s \in Systems, row.exists, row.name \in Name, row.ext \in Name, FreeName(s, row.ext),
         system' = [system EXCEPT ![s] = row],
         anomaly' = [anomaly EXCEPT ![s] = an],
         anomaly[s] \subseteq an,
         "renamed" \in an \/ (row.name = system[s].name /\ row.name = row.ext),
         req' = Touched(s, r),
         UNCHANGED <<schema, entity, overlay>>
  PROVE  IInv'
<1>1. system \in [System -> SystemRow] /\ anomaly \in [System -> SUBSET Anomaly]
  BY DEF IInv, TypeOK
<1>2. /\ system' \in [System -> SystemRow] /\ system'[s] = row
      /\ \A t \in System \ {s} : system'[t] = system[t]
      /\ anomaly' \in [System -> SUBSET Anomaly] /\ anomaly'[s] = an
      /\ \A t \in System \ {s} : anomaly'[t] = anomaly[t]
  BY <1>1
<1>3. req' \in [Request -> Local] /\ \A q \in Request : Settled(q, s)
  BY TouchedSettles DEF IInv, RequestHolds
<1>4. TypeOK'
  BY <1>2, <1>3 DEF IInv, TypeOK
<1>5. References'
  BY <1>2 DEF IInv, References, Systems, Schemas
<1>6. UniqueKeys'
  BY <1>2 DEF IInv, UniqueKeys, FreeName, Systems, Schemas
<1>7. SystemHolds(s)
  BY IInvParts
<1>8. SchemaKeptOf(s)'
  BY <1>2, <1>7 DEF SystemHolds, SchemaKeptOf, Governing, Schemas
<1>9. PrefixedOf(s)' /\ NameOf(s)'
  BY <1>2, <1>7 DEF SystemHolds, PrefixedOf, NameOf
<1>10. \A t \in System \ {s} : Frame(t)
  BY <1>2 DEF Frame
<1> QED
  BY <1>3, <1>4, <1>5, <1>6, <1>8, <1>9, <1>10, OneSystem DEF SystemHolds

LEMMA UpdateSystemEntityInv ==
  ASSUME IInv, NEW s \in System, NEW n \in Name, NEW a \in BOOLEAN, UpdateSystemEntity(s, n, a)
  PROVE  IInv'
<1> DEFINE row == [system[s] EXCEPT !.name = n, !.active = a]
           an == IF n = system[s].name THEN anomaly[s] ELSE anomaly[s] \cup {"renamed"}
<1>1. /\ s \in Systems /\ system[s] \in SystemRow /\ system[s].exists
      /\ system[s].ext \in Name /\ anomaly[s] \in SUBSET Anomaly
      /\ system \in [System -> SystemRow]
  BY DEF UpdateSystemEntity, IInv, TypeOK, Systems
<1>2. row \in SystemRow /\ row.exists /\ row.name = n /\ row.ext = system[s].ext
  BY <1>1 DEF SystemRow
<1>3. system' = [system EXCEPT ![s] = row] /\ anomaly' = [anomaly EXCEPT ![s] = an]
  BY <1>1 DEF UpdateSystemEntity
<1>4. an \in SUBSET Anomaly /\ anomaly[s] \subseteq an
  BY <1>1 DEF Anomaly
<1>5. "renamed" \in an \/ (n = system[s].name /\ n = system[s].ext)
  BY <1>1 DEF IInv, NameIsExternalId
<1>6. FreeName(s, system[s].ext)
  BY <1>1 DEF IInv, UniqueKeys, FreeName
<1>7. req' = Touched(s, None) /\ UNCHANGED <<schema, entity, overlay>>
  BY DEF UpdateSystemEntity
<1> HIDE DEF row, an
<1> QED
  BY <1>1, <1>2, <1>3, <1>4, <1>5, <1>6, <1>7, RewrittenSystemInv

LEMMA PatchSystemInv ==
  ASSUME IInv, NEW r \in Request, PatchSystem(r)
  PROVE  IInv'
<1> DEFINE s == req[r].sys
           row == [exists |-> TRUE, name |-> req[r].name, ext |-> req[r].name,
                   active |-> req[r].active]
           an == IF req[r].name = system[s].name THEN anomaly[s] ELSE anomaly[s] \cup {"renamed"}
<1>1. s \in System /\ s \in Systems /\ req[r].name \in Name /\ req[r].active \in BOOLEAN
      /\ anomaly[s] \in SUBSET Anomaly
  BY DEF PatchSystem, Writes, IInv, Shape, TypeOK, Local, Systems
<1>2. row \in SystemRow /\ row.exists /\ row.name = req[r].name /\ row.ext = req[r].name
  BY <1>1 DEF SystemRow
<1>3. system' = [system EXCEPT ![s] = row] /\ anomaly' = [anomaly EXCEPT ![s] = an]
  BY <1>1 DEF PatchSystem, IInv, TypeOK
<1>4. /\ an \in SUBSET Anomaly /\ anomaly[s] \subseteq an
      /\ "renamed" \in an \/ req[r].name = system[s].name
  BY <1>1 DEF Anomaly
<1>5. FreeName(s, req[r].name) /\ req' = Touched(s, r) /\ UNCHANGED <<schema, entity, overlay>>
  BY DEF PatchSystem
<1> HIDE DEF s, row, an
<1> QED
  BY <1>1, <1>2, <1>3, <1>4, <1>5, RewrittenSystemInv

LEMMA DeleteSystemInv ==
  ASSUME IInv, NEW s \in System, DeleteSystem(s)
  PROVE  IInv'
<1>1. NoSystem \in SystemRow /\ ~NoSystem.exists
  BY DEF NoSystem, SystemRow
<1>2. /\ system' \in [System -> SystemRow] /\ ~system'[s].exists
      /\ \A t \in System \ {s} : system'[t] = system[t]
      /\ req' = Touched(s, None) /\ UNCHANGED <<schema, entity, overlay, anomaly>>
      /\ \A x \in Schemas : schema[x].sys # s
      /\ \A e \in Entity : ~overlay[s][e].exists
  BY <1>1 DEF DeleteSystem, IInv, TypeOK
<1>3. req' \in [Request -> Local] /\ \A q \in Request : Settled(q, s)
  BY <1>2, TouchedSettles DEF IInv, RequestHolds
<1>4. TypeOK'
  BY <1>2, <1>3 DEF IInv, TypeOK
<1>5. References'
  BY <1>2 DEF IInv, References, Systems, Schemas
<1>6. UniqueKeys'
  BY <1>2 DEF IInv, UniqueKeys, Systems, Schemas
<1>7. SystemHolds(s)'
  BY <1>2 DEF SystemHolds, SchemaKeptOf, PrefixedOf, NameOf
<1>8. \A t \in System \ {s} : Frame(t)
  BY <1>2 DEF Frame
<1> QED
  BY <1>3, <1>4, <1>5, <1>6, <1>7, <1>8, OneSystem

LEMMA CreateSchemaInv ==
  ASSUME IInv, NEW r \in Request, NEW x \in Schema, NEW t \in Type, CreateSchema(r, x, t)
  PROVE  IInv'
<1>0. PICK s \in System : s = req[r].sys
  BY CommitSystem DEF CreateSchema, Writes
<1> DEFINE row == [exists |-> TRUE, sys |-> s, type |-> t, doc |-> req[r].doc]
<1>1. req[r].pc = "write" /\ req[r].doc \in Document /\ s \in Systems /\ x \notin Schemas
      /\ CommitWrite(r) /\ UNCHANGED <<system, entity, overlay>>
  BY <1>0 DEF CreateSchema, Writes, IInv, Shape, SchemaOp
<1>2. /\ s \in System /\ req' \in [Request -> Local] /\ \A q \in Request : Settled(q, s)
      /\ anomaly' \in [System -> SUBSET Anomaly] /\ \A u \in System \ {s} : anomaly'[u] = anomaly[u]
      /\ anomaly[s] \subseteq anomaly'[s]
      /\ "renamed" \in anomaly'[s] => "renamed" \in anomaly[s]
  BY <1>0, <1>1, CommitFacts
<1>3. \A y \in Schemas : ~(schema[y].sys = s /\ schema[y].type = t)
  BY <1>0 DEF CreateSchema
<1>4. schema \in [Schema -> SchemaRow] /\ schema' = [schema EXCEPT ![x] = row]
  BY <1>0 DEF CreateSchema, IInv, TypeOK
<1>5. row \in SchemaRow /\ row.exists /\ row.sys = s /\ row.type = t /\ row.doc \in Document
  BY <1>0, <1>1, <1>2 DEF SchemaRow
<1> HIDE DEF row
<1>6. /\ schema' \in [Schema -> SchemaRow] /\ schema'[x] = row
      /\ \A y \in Schema \ {x} : schema'[y] = schema[y]
  BY <1>0, <1>4, <1>5
<1>7. TypeOK'
  BY <1>1, <1>2, <1>5, <1>6 DEF IInv, TypeOK
<1>8. References'
  BY <1>1, <1>5, <1>6 DEF IInv, References, Systems, Schemas
<1>9. UniqueKeys'
  BY <1>1, <1>3, <1>5, <1>6 DEF IInv, UniqueKeys, Systems, Schemas
<1>10. SystemHolds(s)
  BY <1>2, IInvParts
<1>11. \A e \in Entity : \A y \in Governing(s, e) : y # x /\ y \in Governing(s, e)' /\ schema'[y] = schema[y]
  BY <1>1, <1>6 DEF Governing, Schemas
<1>12. SchemaKeptOf(s)'
  BY <1>1, <1>2, <1>10, <1>11 DEF SystemHolds, SchemaKeptOf
<1>13. PrefixedOf(s)' /\ NameOf(s)'
  BY <1>1, <1>2, <1>10 DEF SystemHolds, PrefixedOf, NameOf
<1>14. \A u \in System \ {s} : Frame(u)
  BY <1>1, <1>2, <1>5, <1>6 DEF Frame, Schemas
<1> QED
  BY <1>2, <1>7, <1>8, <1>9, <1>12, <1>13, <1>14, OneSystem DEF SystemHolds

LEMMA UpdateSchemaInv ==
  ASSUME IInv, NEW r \in Request, NEW x \in Schema, UpdateSchema(r, x)
  PROVE  IInv'
<1>0. PICK s \in System : s = req[r].sys
  BY CommitSystem DEF UpdateSchema, Writes
<1> DEFINE row == [schema[x] EXCEPT !.doc = req[r].doc]
           unchecked(e) == [overlay[s][e] EXCEPT !.checked = FALSE]
           rows == [e \in Entity |-> IF e \in Governed(x) THEN unchecked(e) ELSE overlay[s][e]]
<1>1. /\ req[r].pc = "write" /\ req[r].doc \in Document /\ x \in Schemas /\ schema[x].sys = s
      /\ CommitWrite(r) /\ UNCHANGED <<system, entity>>
  BY <1>0 DEF UpdateSchema, Writes, IInv, Shape, SchemaOp
<1>2. /\ s \in System /\ req' \in [Request -> Local] /\ \A q \in Request : Settled(q, s)
      /\ anomaly' \in [System -> SUBSET Anomaly] /\ \A u \in System \ {s} : anomaly'[u] = anomaly[u]
      /\ anomaly[s] \subseteq anomaly'[s]
      /\ "renamed" \in anomaly'[s] => "renamed" \in anomaly[s]
  BY <1>0, <1>1, CommitFacts
<1>3. /\ schema \in [Schema -> SchemaRow] /\ schema' = [schema EXCEPT ![x] = row]
      /\ overlay \in [System -> [Entity -> OverlayRow]] /\ overlay' = [overlay EXCEPT ![s] = rows]
  BY <1>0, <1>2 DEF UpdateSchema, IInv, TypeOK
<1>4. /\ row \in SchemaRow /\ row.exists = schema[x].exists /\ row.sys = schema[x].sys
      /\ row.type = schema[x].type /\ row.doc = req[r].doc
  BY <1>0, <1>1, <1>3 DEF SchemaRow
<1>5. \A e \in Entity : /\ unchecked(e) \in OverlayRow /\ ~unchecked(e).checked
                        /\ unchecked(e).exists = overlay[s][e].exists
                        /\ unchecked(e).val = overlay[s][e].val
  <2> SUFFICES ASSUME NEW e \in Entity
               PROVE  /\ unchecked(e) \in OverlayRow /\ ~unchecked(e).checked
                      /\ unchecked(e).exists = overlay[s][e].exists
                      /\ unchecked(e).val = overlay[s][e].val
    OBVIOUS
  <2>1. overlay[s][e] \in OverlayRow
    BY <1>0, <1>3
  <2> QED
    BY <2>1 DEF OverlayRow
<1> HIDE DEF unchecked, row
<1>6. rows \in [Entity -> OverlayRow]
  BY <1>0, <1>2, <1>3, <1>5
<1>7. \A e \in Entity : /\ rows[e].exists = overlay[s][e].exists /\ rows[e].val = overlay[s][e].val
                        /\ rows[e].checked => e \notin Governed(x) /\ overlay[s][e].checked
  BY <1>2, <1>3, <1>5
<1> HIDE DEF rows
<1>8. /\ schema' \in [Schema -> SchemaRow] /\ schema'[x] = row
      /\ \A y \in Schema \ {x} : schema'[y] = schema[y]
      /\ overlay' \in [System -> [Entity -> OverlayRow]] /\ overlay'[s] = rows
      /\ \A u \in System \ {s} : overlay'[u] = overlay[u]
  BY <1>2, <1>3, <1>4, <1>6
<1>9. TypeOK'
  <2>1. \A y \in Schema : schema'[y].exists => /\ schema'[y].sys \in System
                                               /\ schema'[y].type \in Type
                                               /\ schema'[y].doc \in Document
    BY <1>1, <1>4, <1>8 DEF IInv, TypeOK
  <2>2. \A u \in System, e \in Entity : overlay'[u][e].exists => overlay'[u][e].val \in Value
    BY <1>7, <1>8 DEF IInv, TypeOK
  <2> QED
    BY <1>1, <1>2, <1>8, <2>1, <2>2 DEF IInv, TypeOK
<1>10. References'
  BY <1>1, <1>4, <1>7, <1>8 DEF IInv, References, Systems, Schemas
<1>11. UniqueKeys'
  BY <1>1, <1>4, <1>8 DEF IInv, UniqueKeys, Systems, Schemas
<1>12. SystemHolds(s)
  BY <1>2, IInvParts
<1>13. \A e \in Entity : Governing(s, e)' = Governing(s, e)
  BY <1>1, <1>4, <1>8 DEF Governing, Schemas
<1>14. \A e \in Entity : overlay[s][e].exists /\ x \in Governing(s, e) => e \in Governed(x)
  BY <1>1 DEF Governing, Governed
<1>15. SchemaKeptOf(s)'
  <2> SUFFICES ASSUME NEW e \in Entity, overlay'[s][e].exists,
                      anomaly'[s] \cap {"overtaken", "blind"} = {}
               PROVE  \E y \in Governing(s, e) : overlay'[s][e].checked =>
                                                  overlay'[s][e].val \in Valid[schema'[y].doc]
    BY <1>13 DEF SchemaKeptOf
  <2>1. overlay[s][e].exists /\ anomaly[s] \cap {"overtaken", "blind"} = {}
    BY <1>2, <1>7, <1>8
  <2>2. PICK y \in Governing(s, e) : overlay[s][e].checked => overlay[s][e].val \in Valid[schema[y].doc]
    BY <1>12, <2>1 DEF SystemHolds, SchemaKeptOf
  <2>3. CASE y = x
    BY <1>7, <1>8, <1>14, <2>1, <2>2, <2>3
  <2>4. CASE y # x
    BY <1>7, <1>8, <2>2, <2>4 DEF Governing, Schemas
  <2> QED
    BY <2>3, <2>4
<1>16. PrefixedOf(s)' /\ NameOf(s)'
  BY <1>1, <1>2, <1>7, <1>8, <1>12 DEF SystemHolds, PrefixedOf, NameOf
<1>17. \A u \in System \ {s} : Frame(u)
  BY <1>1, <1>2, <1>4, <1>8 DEF Frame, Schemas
<1> QED
  BY <1>2, <1>9, <1>10, <1>11, <1>15, <1>16, <1>17, OneSystem DEF SystemHolds

LEMMA DeleteSchemaInv ==
  ASSUME IInv, NEW r \in Request, DeleteSchema(r)
  PROVE  IInv'
<1>0. PICK s \in System : s = req[r].sys
  BY CommitSystem DEF DeleteSchema, Writes
<1>a. PICK x \in Schema : x = req[r].id
  BY DEF DeleteSchema, Schemas
<1>1. /\ req[r].pc = "write" /\ req[r].op = "delete_schema" /\ x \in Schemas
      /\ CommitWrite(r) /\ UNCHANGED <<system, entity, overlay>>
      /\ schema \in [Schema -> SchemaRow] /\ schema' = [schema EXCEPT ![x] = NoSchema]
  BY <1>0, <1>a DEF DeleteSchema, Writes, IInv, TypeOK
<1>2. /\ s \in System /\ req' \in [Request -> Local] /\ \A q \in Request : Settled(q, s)
      /\ anomaly' \in [System -> SUBSET Anomaly] /\ \A u \in System \ {s} : anomaly'[u] = anomaly[u]
      /\ anomaly[s] \subseteq anomaly'[s]
      /\ req[r].fresh \/ "overtaken" \in anomaly'[s]
      /\ "renamed" \in anomaly'[s] => "renamed" \in anomaly[s]
  BY <1>0, <1>a, <1>1, CommitFacts
<1>3. NoSchema \in SchemaRow /\ ~NoSchema.exists
  BY DEF NoSchema, SchemaRow
<1>4. /\ x \in Schema /\ schema' \in [Schema -> SchemaRow] /\ ~schema'[x].exists
      /\ \A y \in Schema \ {x} : schema'[y] = schema[y]
  BY <1>0, <1>a, <1>1, <1>3 DEF Schemas
<1>5. schema[x].sys = s
  BY <1>0, <1>a DEF DeleteSchema
<1>6. req[r].fresh => "blind" \in anomaly[s] \/ Governed(x) = {}
  BY <1>0, <1>a, <1>1 DEF IInv, ReadHolds
<1>7. TypeOK'
  BY <1>1, <1>2, <1>4 DEF IInv, TypeOK
<1>8. References'
  BY <1>1, <1>4 DEF IInv, References, Systems, Schemas
<1>9. UniqueKeys'
  BY <1>1, <1>4 DEF IInv, UniqueKeys, Systems, Schemas
<1>10. SystemHolds(s)
  BY <1>2, IInvParts
<1>11. SchemaKeptOf(s)'
  <2> SUFFICES ASSUME NEW e \in Entity, overlay'[s][e].exists,
                      anomaly'[s] \cap {"overtaken", "blind"} = {}
               PROVE  \E y \in Governing(s, e)' : overlay'[s][e].checked =>
                                                   overlay'[s][e].val \in Valid[schema'[y].doc]
    BY DEF SchemaKeptOf
  <2>1. overlay[s][e].exists /\ anomaly[s] \cap {"overtaken", "blind"} = {}
    BY <1>1, <1>2
  <2>2. PICK y \in Governing(s, e) : overlay[s][e].checked => overlay[s][e].val \in Valid[schema[y].doc]
    BY <1>10, <2>1 DEF SystemHolds, SchemaKeptOf
  <2>3. y # x
    BY <1>2, <1>5, <1>6, <2>1, <2>2 DEF Governed, Governing
  <2>4. y \in Governing(s, e)' /\ schema'[y] = schema[y]
    BY <1>4, <2>2, <2>3 DEF Governing, Schemas
  <2> QED
    BY <1>1, <2>2, <2>4
<1>12. PrefixedOf(s)' /\ NameOf(s)'
  BY <1>1, <1>2, <1>10 DEF SystemHolds, PrefixedOf, NameOf
<1>13. \A u \in System \ {s} : Frame(u)
  BY <1>1, <1>2, <1>4, <1>5 DEF Frame, Schemas
<1> QED
  BY <1>2, <1>7, <1>8, <1>9, <1>11, <1>12, <1>13, OneSystem DEF SystemHolds

\* The overlay of system s on entity e is written by request r, or removed.
LEMMA WrittenOverlayInv ==
  ASSUME IInv, NEW r \in Request, NEW s \in System, NEW e \in Entity, NEW row \in OverlayRow,
         req[r].pc = "write", s = req[r].sys, CommitWrite(r),
         UNCHANGED <<system, schema, entity>>,
         overlay' = [overlay EXCEPT ![s][e] = row],
         row.exists => /\ e \in entity /\ s \in Systems /\ row.val \in Value
                       /\ req[r].fresh => /\ KeysIn[row.val] \subseteq Prefixed[system[s].name]
                                          /\ \E x \in Governing(s, e) : row.val \in Valid[schema[x].doc]
  PROVE  IInv'
<1>1. /\ req' \in [Request -> Local] /\ \A q \in Request : Settled(q, s)
      /\ anomaly' \in [System -> SUBSET Anomaly] /\ \A u \in System \ {s} : anomaly'[u] = anomaly[u]
      /\ anomaly[s] \subseteq anomaly'[s]
      /\ req[r].fresh \/ "overtaken" \in anomaly'[s]
      /\ "renamed" \in anomaly'[s] => "renamed" \in anomaly[s]
  BY CommitFacts
<1>2. overlay \in [System -> [Entity -> OverlayRow]]
  BY DEF IInv, TypeOK
<1>3. /\ overlay' \in [System -> [Entity -> OverlayRow]] /\ overlay'[s][e] = row
      /\ \A f \in Entity \ {e} : overlay'[s][f] = overlay[s][f]
      /\ \A u \in System \ {s} : overlay'[u] = overlay[u]
  BY <1>2
<1>4. TypeOK'
  <2>1. ASSUME NEW u \in System, NEW f \in Entity, overlay'[u][f].exists
        PROVE  overlay'[u][f].val \in Value
    BY <1>3, <2>1 DEF IInv, TypeOK
  <2> QED
    BY <1>1, <1>3, <2>1 DEF IInv, TypeOK
<1>5. References'
  <2>1. ASSUME NEW u \in System, NEW f \in Entity, overlay'[u][f].exists
        PROVE  f \in entity /\ u \in Systems
    BY <1>3, <2>1 DEF IInv, References
  <2> QED
    BY <2>1 DEF IInv, References, Systems, Schemas
<1>6. UniqueKeys'
  BY DEF IInv, UniqueKeys, Systems, Schemas
<1>7. SystemHolds(s)
  BY IInvParts
<1>8. SchemaKeptOf(s)'
  <2> SUFFICES ASSUME NEW f \in Entity, overlay'[s][f].exists,
                      anomaly'[s] \cap {"overtaken", "blind"} = {}
               PROVE  \E x \in Governing(s, f) : overlay'[s][f].checked =>
                                                  overlay'[s][f].val \in Valid[schema[x].doc]
    BY DEF SchemaKeptOf, Governing, Schemas
  <2>1. CASE f = e
    BY <1>1, <1>3, <2>1
  <2>2. CASE f # e
    BY <1>1, <1>3, <1>7, <2>2 DEF SystemHolds, SchemaKeptOf
  <2> QED
    BY <2>1, <2>2
<1>9. PrefixedOf(s)'
  <2> SUFFICES ASSUME NEW f \in Entity, overlay'[s][f].exists,
                      anomaly'[s] \cap {"overtaken", "renamed"} = {}
               PROVE  KeysIn[overlay'[s][f].val] \subseteq Prefixed[system[s].name]
    BY DEF PrefixedOf
  <2>1. CASE f = e
    BY <1>1, <1>3, <2>1
  <2>2. CASE f # e
    BY <1>1, <1>3, <1>7, <2>2 DEF SystemHolds, PrefixedOf
  <2> QED
    BY <2>1, <2>2
<1>10. NameOf(s)'
  BY <1>1, <1>7 DEF SystemHolds, NameOf
<1>11. \A u \in System \ {s} : Frame(u)
  BY <1>1, <1>3 DEF Frame
<1> QED
  BY <1>1, <1>4, <1>5, <1>6, <1>8, <1>9, <1>10, <1>11, OneSystem DEF SystemHolds

\* What an overlay request that is about to write has validated.
LEMMA Validated ==
  ASSUME IInv, NEW r \in Request, req[r].pc = "write", req[r].op \in OverlayOp
  PROVE  /\ req[r].ent \in Entity /\ req[r].sys \in System /\ req[r].val \in Value
         /\ req[r].fresh =>
              /\ KeysIn[req[r].val] \subseteq Prefixed[system[req[r].sys].name]
              /\ \E x \in Governing(req[r].sys, req[r].ent) : req[r].val \in Valid[schema[x].doc]
BY DEF IInv, Shape, ReadHolds

LEMMA SetOverlayInv ==
  ASSUME IInv, NEW r \in Request, CreateOverlay(r) \/ UpdateOverlay(r)
  PROVE  IInv'
<1>1. req[r].pc = "write" /\ req[r].op \in OverlayOp
  BY DEF CreateOverlay, UpdateOverlay, Writes, OverlayOp
<1>2. PICK s \in System, e \in Entity : s = req[r].sys /\ e = req[r].ent
  BY <1>1, Validated
<1> DEFINE row == [exists |-> TRUE, val |-> req[r].val, checked |-> TRUE]
<1>3. row \in OverlayRow /\ row.val = req[r].val /\ req[r].val \in Value
  BY <1>1, Validated DEF OverlayRow
<1>4. overlay' = [overlay EXCEPT ![s][e] = row]
  BY <1>2 DEF CreateOverlay, UpdateOverlay
<1>5. CommitWrite(r) /\ UNCHANGED <<system, schema, entity>>
  BY DEF CreateOverlay, UpdateOverlay
<1>6. e \in entity /\ s \in Systems
  BY <1>2 DEF CreateOverlay, UpdateOverlay, IInv, References
<1>7. req[r].fresh => /\ KeysIn[row.val] \subseteq Prefixed[system[s].name]
                      /\ \E x \in Governing(s, e) : row.val \in Valid[schema[x].doc]
  BY <1>1, <1>2, <1>3, Validated
<1> HIDE DEF row
<1> QED
  BY <1>1, <1>2, <1>3, <1>4, <1>5, <1>6, <1>7, WrittenOverlayInv

LEMMA DeleteOverlayInv ==
  ASSUME IInv, NEW r \in Request, NEW e \in Entity, DeleteOverlay(r, e)
  PROVE  IInv'
<1>1. req[r].pc = "write" /\ CommitWrite(r) /\ UNCHANGED <<system, schema, entity>>
  BY DEF DeleteOverlay, Writes
<1>2. PICK s \in System : s = req[r].sys
  BY <1>1, CommitSystem
<1>3. overlay' = [overlay EXCEPT ![s][e] = NoOverlay]
  BY <1>2 DEF DeleteOverlay
<1>4. NoOverlay \in OverlayRow /\ ~NoOverlay.exists
  BY DEF NoOverlay, OverlayRow
<1> QED
  BY <1>1, <1>2, <1>3, <1>4, WrittenOverlayInv

\* A request that learns what HasOverlays answers: the history of its system
\* can only grow.
LEMMA HasOverlaysInv ==
  ASSUME IInv, NEW r \in Request, NEW x \in Schema, NEW blind \in BOOLEAN,
         HasOverlays(r, x, blind)
  PROVE  IInv'
<1>0. PICK s \in System : s = schema[x].sys
  BY DEF HasOverlays, Schemas, IInv, TypeOK
<1> DEFINE k == [Idle EXCEPT !.pc = "write", !.op = "delete_schema", !.sys = s, !.id = x]
<1>1. k \in Local /\ k.pc = "write" /\ k.op = "delete_schema" /\ k.sys = s /\ k.id = x
  BY IdleFacts DEF Local, Op
<1>2. /\ x \in Schemas /\ req[r] = Idle /\ req' = [req EXCEPT ![r] = k]
      /\ anomaly' = IF Governed(x) = {} THEN anomaly
                    ELSE [anomaly EXCEPT ![s] = @ \cup {"blind"}]
      /\ UNCHANGED <<system, schema, entity, overlay>>
  BY <1>0 DEF HasOverlays
<1> HIDE DEF k
<1>3. req' \in [Request -> Local] /\ req'[r] = k /\ \A q \in Request \ {r} : req'[q] = req[q]
  BY <1>1, <1>2 DEF IInv, TypeOK
<1>4. anomaly \in [System -> SUBSET Anomaly] /\ "blind" \in Anomaly
  BY DEF IInv, TypeOK, Anomaly
<1>5. /\ anomaly' \in [System -> SUBSET Anomaly]
      /\ \A t \in System : anomaly[t] \subseteq anomaly'[t]
      /\ \A t \in System : "renamed" \in anomaly'[t] => "renamed" \in anomaly[t]
      /\ "blind" \in anomaly'[s] \/ Governed(x) = {}
  BY <1>2, <1>4
<1>6. TypeOK' /\ References' /\ UniqueKeys'
  BY <1>2, <1>3, <1>5 DEF IInv, TypeOK, References, UniqueKeys, Systems, Schemas
<1>7. SchemaKept'
  <2> SUFFICES ASSUME NEW t \in System, NEW e \in Entity, overlay[t][e].exists,
                      anomaly'[t] \cap {"overtaken", "blind"} = {}
               PROVE  \E y \in Governing(t, e) : overlay[t][e].checked =>
                                                  overlay[t][e].val \in Valid[schema[y].doc]
    BY <1>2 DEF SchemaKept, Governing, Schemas
  <2>1. anomaly[t] \cap {"overtaken", "blind"} = {}
    BY <1>5
  <2> QED
    BY <2>1 DEF IInv, SchemaKept
<1>8. KeysPrefixed' /\ NameIsExternalId'
  BY <1>2, <1>5 DEF IInv, KeysPrefixed, NameIsExternalId, Systems
<1>9. RequestHolds(r)'
  <2>1. Shape(r)'
    BY <1>1, <1>3 DEF Shape, Op, OverlayOp, SchemaOp
  <2>2. s \in Systems
    BY <1>0, <1>2 DEF IInv, References
  <2>3. ReadHolds(r)'
    BY <1>0, <1>1, <1>2, <1>3, <1>5, <2>2 DEF ReadHolds, OverlayOp, SchemaOp, Systems, Schemas, Governed
  <2> QED
    BY <2>1, <2>3 DEF RequestHolds
<1>10. ASSUME NEW q \in Request \ {r} PROVE RequestHolds(q)'
  <2>1. Shape(q)'
    BY <1>3 DEF IInv, Shape
  <2>2. ASSUME req[q].fresh PROVE ReadHolds(q)'
    <3>1. ReadHolds(q)
      BY <2>2 DEF IInv
    <3>2. req[q].op = "delete_schema" => req[q].sys \in System
      BY DEF IInv, Shape, Idle
    <3>3. req[q].op = "delete_schema" /\ "blind" \in anomaly[req[q].sys] =>
            "blind" \in anomaly'[req[q].sys]
      BY <1>5, <3>2
    <3> QED
      BY <1>2, <1>3, <3>1, <3>3 DEF ReadHolds, Systems, Schemas, Governing, Governed
  <2> QED
    BY <1>3, <2>1, <2>2 DEF RequestHolds
<1> QED
  BY <1>6, <1>7, <1>8, <1>9, <1>10 DEF IInv, RequestHolds

LEMMA CreateEntityInv ==
  ASSUME IInv, NEW e \in Entity, CreateEntity(e)
  PROVE  IInv'
<1>a. TypeOK' /\ References' /\ UniqueKeys'
  BY DEF CreateEntity, IInv, TypeOK, References, UniqueKeys, Systems, Schemas
<1>b. SchemaKept'
  BY DEF CreateEntity, IInv, SchemaKept, Schemas, Governing
<1>c. KeysPrefixed' /\ NameIsExternalId'
  BY DEF CreateEntity, IInv, KeysPrefixed, NameIsExternalId, Systems
<1>1. TypeOK' /\ References' /\ UniqueKeys' /\ SchemaKept' /\ KeysPrefixed' /\ NameIsExternalId'
  BY <1>a, <1>b, <1>c
<1>2. \A q \in Request : RequestHolds(q)'
  BY DEF CreateEntity, IInv, RequestHolds, Shape, ReadHolds, Systems, Schemas, Governing, Governed
<1> QED
  BY <1>1, <1>2 DEF IInv, RequestHolds

\* Overlays only disappear, of all systems at once.
LEMMA DeleteEntityInv ==
  ASSUME IInv, NEW e \in Entity, DeleteEntity(e)
  PROVE  IInv'
<1>1. /\ overlay \in [System -> [Entity -> OverlayRow]]
      /\ overlay' = [s \in System |-> [overlay[s] EXCEPT ![e] = NoOverlay]]
      /\ entity' = entity \ {e}
      /\ UNCHANGED <<system, schema, req, anomaly>>
  BY DEF DeleteEntity, IInv, TypeOK
<1>2. NoOverlay \in OverlayRow /\ ~NoOverlay.exists
  BY DEF NoOverlay, OverlayRow
<1>3. overlay' \in [System -> [Entity -> OverlayRow]]
  BY <1>1, <1>2
<1>4. \A s \in System, f \in Entity : overlay'[s][f].exists =>
        f # e /\ overlay[s][f].exists /\ overlay'[s][f] = overlay[s][f]
  BY <1>1, <1>2
<1>5. TypeOK'
  BY <1>1, <1>3, <1>4 DEF IInv, TypeOK
<1>6. References' /\ UniqueKeys'
  BY <1>1, <1>4 DEF IInv, References, UniqueKeys, Systems, Schemas
<1>a. SchemaKept'
  BY <1>1, <1>4 DEF IInv, SchemaKept, Schemas, Governing
<1>b. KeysPrefixed'
  BY <1>1, <1>4 DEF IInv, KeysPrefixed
<1>c. NameIsExternalId'
  BY <1>1 DEF IInv, NameIsExternalId, Systems
<1>7. SchemaKept' /\ KeysPrefixed' /\ NameIsExternalId'
  BY <1>a, <1>b, <1>c
<1>8. ASSUME NEW q \in Request PROVE RequestHolds(q)'
  <2>1. Shape(q)'
    BY <1>1 DEF IInv, Shape
  <2>2. ASSUME req[q].fresh PROVE ReadHolds(q)'
    <3>1. ReadHolds(q)
      BY <2>2 DEF IInv
    <3>2. req[q].op = "delete_schema" /\ Governed(req[q].id) = {} => Governed(req[q].id)' = {}
      <4> SUFFICES ASSUME req[q].op = "delete_schema", Governed(req[q].id) = {}
                   PROVE  Governed(req[q].id)' = {}
        OBVIOUS
      <4>1. req[q].id \in Schema /\ schema[req[q].id].sys \in System
        BY <3>1 DEF ReadHolds, Schemas, IInv, TypeOK
      <4> QED
        BY <1>1, <1>4, <4>1 DEF Governed
    <3> QED
      BY <1>1, <3>1, <3>2 DEF ReadHolds, Systems, Schemas, Governing
  <2> QED
    BY <1>1, <2>1, <2>2 DEF RequestHolds
<1> QED
  BY <1>5, <1>6, <1>7, <1>8 DEF IInv, RequestHolds

LEMMA InitInv ==
  ASSUME Init
  PROVE  IInv
<1>1. NoSystem \in SystemRow /\ ~NoSystem.exists
  BY DEF NoSystem, SystemRow
<1>2. NoSchema \in SchemaRow /\ ~NoSchema.exists
  BY DEF NoSchema, SchemaRow
<1>3. NoOverlay \in OverlayRow /\ ~NoOverlay.exists
  BY DEF NoOverlay, OverlayRow
<1>4. /\ \A s \in System : ~system[s].exists
      /\ \A x \in Schema : ~schema[x].exists
      /\ \A s \in System, e \in Entity : ~overlay[s][e].exists
  BY <1>1, <1>2, <1>3 DEF Init
<1>5. TypeOK
  BY <1>1, <1>2, <1>3, <1>4, IdleFacts DEF Init, TypeOK
<1>6. References /\ UniqueKeys /\ SchemaKept /\ KeysPrefixed /\ NameIsExternalId
  BY <1>4 DEF References, UniqueKeys, SchemaKept, KeysPrefixed, NameIsExternalId, Systems, Schemas
<1>7. \A q \in Request : RequestHolds(q)
  BY IdleFacts DEF Init
<1> QED
  BY <1>5, <1>6, <1>7 DEF IInv, RequestHolds

LEMMA NextInv ==
  ASSUME IInv, [Next]_vars
  PROVE  IInv'
<1>1. CASE SystemStep
  BY <1>1, CreateSystemInv, CreateSystemEntityInv, UpdateSystemEntityInv, DeleteSystemInv
  DEF SystemStep
<1>2. ASSUME NEW r \in Request, PatchStep(r)
      PROVE  IInv'
  BY <1>2, ReadSystemInv, PatchSystemInv DEF PatchStep
<1>3. ASSUME NEW r \in Request, SchemaStep(r)
      PROVE  IInv'
  BY <1>3, ResolveSystemNameInv, CreateSchemaInv, UpdateSchemaInv, HasOverlaysInv, DeleteSchemaInv
  DEF SchemaStep
<1>4. ASSUME NEW r \in Request, OverlayStep(r)
      PROVE  IInv'
  BY <1>4, ResolveCallerSystemInv, ResolveEntityInv, ResolveOverlaySchemaInv, SetOverlayInv,
     DeleteOverlayInv
  DEF OverlayStep
<1>5. ASSUME NEW e \in Entity, CreateEntity(e) \/ DeleteEntity(e)
      PROVE  IInv'
  BY <1>5, CreateEntityInv, DeleteEntityInv
<1>6. CASE UNCHANGED vars
  <2>1. TypeOK' /\ References' /\ UniqueKeys' /\ KeysPrefixed' /\ NameIsExternalId'
    BY <1>6 DEF vars, IInv, TypeOK, References, UniqueKeys, KeysPrefixed, NameIsExternalId,
                Systems, Schemas
  <2>2. SchemaKept'
    BY <1>6 DEF vars, IInv, SchemaKept, Governing, Schemas
  <2>3. \A q \in Request : RequestHolds(q)'
    BY <1>6 DEF vars, IInv, RequestHolds, Shape, ReadHolds, Systems, Schemas, Governing, Governed
  <2> QED
    BY <2>1, <2>2, <2>3 DEF IInv, RequestHolds
<1> QED
  BY <1>1, <1>2, <1>3, <1>4, <1>5, <1>6, FailInv DEF Next

\* What a request has read holds until somebody else writes anything of its
\* system; with the foreign keys and unique keys of the database, that makes
\* the checks of the services enough for the system's overlays.
THEOREM IInvHolds == Spec => []IInv
<1>1. Init => IInv
  BY InitInv
<1>2. IInv /\ [Next]_vars => IInv'
  BY NextInv
<1> QED
  BY <1>1, <1>2, PTL DEF Spec

\* Every row and every request has the columns that the code scans.
THEOREM TypeCorrect == Spec => []TypeOK
<1>1. IInv => TypeOK
  BY DEF IInv
<1> QED
  BY <1>1, IInvHolds, PTL

\* An overlay has a governing schema, which accepts it unless the schema was
\* updated since (overlayschema.Delete, overlay.Create and Update), as long
\* as no request of its system overtook another one and none asked blindly.
THEOREM OverlaysKeepSchema == Spec => []SchemaKept
<1>1. IInv => SchemaKept
  BY DEF IInv
<1> QED
  BY <1>1, IInvHolds, PTL

\* Overlays of different systems on one entity have different keys
\* (validateOverlayNamespacePrefix with the unique external_id), unless a name
\* is nested in another one, or a system was renamed or overtaken.
THEOREM KeysDoNotCollide == Spec => []NamespacesDisjoint
<1>1. ASSUME IInv, NEW e \in Entity, NEW s \in System, NEW t \in System, s # t,
             overlay[s][e].exists, overlay[t][e].exists,
             (anomaly[s] \cup anomaly[t]) \cap {"overtaken", "renamed"} = {},
             ~Nested(system[s].name, system[t].name)
      PROVE  KeysIn[overlay[s][e].val] \cap KeysIn[overlay[t][e].val] = {}
  <2>1. s \in Systems /\ t \in Systems
    BY <1>1 DEF IInv, References
  <2>2. system[s].name = system[s].ext /\ system[t].name = system[t].ext
    BY <1>1, <2>1 DEF IInv, NameIsExternalId
  <2>3. system[s].name # system[t].name
    BY <1>1, <2>1, <2>2 DEF IInv, UniqueKeys
  <2>4. Prefixed[system[s].name] \cap Prefixed[system[t].name] = {}
    BY <1>1, <2>3 DEF Nested
  <2>5. /\ KeysIn[overlay[s][e].val] \subseteq Prefixed[system[s].name]
        /\ KeysIn[overlay[t][e].val] \subseteq Prefixed[system[t].name]
    BY <1>1 DEF IInv, KeysPrefixed
  <2> QED
    BY <2>4, <2>5
<1>2. IInv => NamespacesDisjoint
  BY <1>1 DEF NamespacesDisjoint
<1> QED
  BY <1>2, IInvHolds, PTL

\* Only UpdateSystemEntity and PatchSystem write the row of a system that
\* exists.
LEMMA SystemWritten ==
  ASSUME IInv, Next, NEW s \in System, system[s].exists, system'[s].exists,
         system'[s] # system[s]
  PROVE  \/ \E n \in Name, a \in BOOLEAN : UpdateSystemEntity(s, n, a)
         \/ \E r \in Request : PatchSystem(r) /\ req[r].sys = s
<1>1. system \in [System -> SystemRow]
  BY DEF IInv, TypeOK
<1>2. CASE SystemStep
  <2>1. PICK t \in System :
          \/ \E n \in Name : CreateSystem(t, n)
          \/ \E n, x \in Name, a \in BOOLEAN : CreateSystemEntity(t, n, x, a)
          \/ \E n \in Name, a \in BOOLEAN : UpdateSystemEntity(t, n, a)
          \/ DeleteSystem(t)
    BY <1>2 DEF SystemStep
  <2>2. s = t
    BY <1>1, <2>1 DEF CreateSystem, CreateSystemEntity, UpdateSystemEntity, DeleteSystem
  <2>3. ~\E n \in Name : CreateSystem(t, n)
    BY <2>2 DEF CreateSystem, Systems
  <2>4. ~\E n, x \in Name, a \in BOOLEAN : CreateSystemEntity(t, n, x, a)
    BY <2>2 DEF CreateSystemEntity, Systems
  <2>5. ~DeleteSystem(t)
    BY <1>1, <2>2 DEF DeleteSystem, NoSystem
  <2> QED
    BY <2>1, <2>2, <2>3, <2>4, <2>5
<1>3. ASSUME NEW r \in Request, PatchStep(r)
      PROVE  PatchSystem(r) /\ req[r].sys = s
  <2>1. PatchSystem(r)
    BY <1>3 DEF PatchStep, ReadSystem, Start
  <2>2. req[r].sys = s
    BY <1>1, <2>1 DEF PatchSystem, Systems
  <2> QED
    BY <2>1, <2>2
<1>4. \A r \in Request : ~SchemaStep(r)
  BY DEF SchemaStep, ResolveSystemName, Start, CreateSchema, UpdateSchema, HasOverlays, DeleteSchema
<1>5. \A r \in Request : ~OverlayStep(r)
  BY DEF OverlayStep, ResolveCallerSystem, Start, ResolveEntity, ResolveOverlaySchema,
         CreateOverlay, UpdateOverlay, DeleteOverlay
<1>6. \A r \in Request : ~Fail(r)
  BY DEF Fail
<1>7. \A e \in Entity : ~CreateEntity(e) /\ ~DeleteEntity(e)
  BY DEF CreateEntity, DeleteEntity
<1> QED
  BY <1>2, <1>3, <1>4, <1>5, <1>6, <1>7 DEF Next

\* A deactivated system is only made active again by who says so, or by a
\* PATCH whose read of the row was overtaken (system.Patch).
THEOREM DeactivationIsKept == Spec => DeactivationHolds
<1> DEFINE Reactivated(s) ==
       \/ \E r \in Request :
            /\ req[r].op = "patch"
            /\ req[r].sys = s
            /\ req'[r] = Idle
            /\ \/ "active" \in req[r].sets
               \/ ~req[r].fresh
       \/ \E n \in Name : UpdateSystemEntity(s, n, TRUE)
<1>1. ASSUME IInv, Next, NEW s \in System, system[s].exists, system'[s].exists,
             ~system[s].active, system'[s].active
      PROVE  Reactivated(s)
  <2>1. \/ \E n \in Name, a \in BOOLEAN : UpdateSystemEntity(s, n, a)
        \/ \E r \in Request : PatchSystem(r) /\ req[r].sys = s
    BY <1>1, SystemWritten
  <2>2. ASSUME NEW n \in Name, NEW a \in BOOLEAN, UpdateSystemEntity(s, n, a)
        PROVE  Reactivated(s)
    <3>1. a
      BY <1>1, <2>2 DEF UpdateSystemEntity, IInv, TypeOK, SystemRow
    <3>2. a = TRUE
      BY <3>1
    <3> QED
      BY <2>2, <3>2
  <2>3. ASSUME NEW r \in Request, PatchSystem(r), req[r].sys = s
        PROVE  Reactivated(s)
    <3>1. req[r].op = "patch" /\ req'[r] = Idle
      BY <2>3 DEF PatchSystem, Writes, Touched
    <3>2. req[r].active
      BY <1>1, <2>3 DEF PatchSystem, IInv, TypeOK
    <3>3. req[r].fresh => "active" \in req[r].sets
      BY <1>1, <2>3, <3>1, <3>2 DEF IInv, ReadHolds
    <3> QED
      BY <2>3, <3>1, <3>3
  <2> QED
    BY <2>1, <2>2, <2>3
<1>2. IInv /\ [Next]_vars =>
        [\A s \in System :
           /\ system[s].exists /\ system'[s].exists
           /\ ~system[s].active /\ system'[s].active
           => Reactivated(s)]_vars
  BY <1>1
<1> QED
  BY <1>2, IInvHolds, PTL DEF Spec, DeactivationHolds

\* The steps that write the overlays of a system, but for DeleteEntity, which
\* takes those of an entity that is gone.
LEMMA OverlayWritten ==
  ASSUME IInv, Next, NEW s \in System, NEW e \in Entity, e \in entity',
         overlay'[s][e].exists # overlay[s][e].exists \/ overlay'[s][e].val # overlay[s][e].val
  PROVE  \E r \in Request :
           /\ CreateOverlay(r) \/ UpdateOverlay(r) \/ (\E f \in Entity : DeleteOverlay(r, f))
           /\ req[r].sys = s
<1>1. overlay \in [System -> [Entity -> OverlayRow]]
  BY DEF IInv, TypeOK
<1>2. ~SystemStep
  BY DEF SystemStep, CreateSystem, CreateSystemEntity, UpdateSystemEntity, DeleteSystem
<1>3. \A r \in Request : ~PatchStep(r) /\ ~Fail(r)
  BY DEF PatchStep, ReadSystem, Start, PatchSystem, Fail
<1>4. \A f \in Entity : ~CreateEntity(f) /\ ~DeleteEntity(f)
  <2>1. \A f \in Entity : ~CreateEntity(f)
    BY DEF CreateEntity
  <2>2. ASSUME NEW f \in Entity, DeleteEntity(f) PROVE FALSE
    BY <1>1, <2>2 DEF DeleteEntity
  <2> QED
    BY <2>1, <2>2
<1>5. ASSUME NEW r \in Request PROVE ~SchemaStep(r)
  <2>1. ASSUME NEW x \in Schema, UpdateSchema(r, x) PROVE FALSE
    <3>1. overlay[s][e] \in OverlayRow
      BY <1>1
    <3>2. \/ overlay'[s][e] = overlay[s][e]
          \/ overlay'[s][e] = [overlay[s][e] EXCEPT !.checked = FALSE]
      BY <1>1, <2>1 DEF UpdateSchema
    <3>3. overlay'[s][e].exists = overlay[s][e].exists /\ overlay'[s][e].val = overlay[s][e].val
      BY <3>1, <3>2 DEF OverlayRow
    <3> QED
      BY <3>3
  <2> QED
    BY <2>1 DEF SchemaStep, ResolveSystemName, Start, CreateSchema, HasOverlays, DeleteSchema
<1>6. ASSUME NEW r \in Request, OverlayStep(r)
      PROVE  /\ CreateOverlay(r) \/ UpdateOverlay(r) \/ (\E f \in Entity : DeleteOverlay(r, f))
             /\ req[r].sys = s
  <2>1. CreateOverlay(r) \/ UpdateOverlay(r) \/ (\E f \in Entity : DeleteOverlay(r, f))
    BY <1>6 DEF OverlayStep, ResolveCallerSystem, Start, ResolveEntity, ResolveOverlaySchema
  <2>2. req[r].sys = s
    BY <1>1, <2>1 DEF CreateOverlay, UpdateOverlay, DeleteOverlay
  <2> QED
    BY <2>1, <2>2
<1> QED
  BY <1>2, <1>3, <1>4, <1>5, <1>6 DEF Next

\* Only requests that passed resolveCallerSystem write a system's overlays,
\* and while the system is not active only requests that passed before.
THEOREM OwnersWriteOverlays == Spec => OverlaysWrittenByOwner
<1> DEFINE Changed(s, e) ==
       \/ overlay'[s][e].exists # overlay[s][e].exists
       \/ overlay'[s][e].val # overlay[s][e].val
     Owner(s) ==
       \E r \in Request :
         /\ req[r].sys = s
         /\ req'[r] = Idle
         /\ req[r].op \in OverlayOp \cup {"delete_overlay"}
         /\ \/ system[s].active
            \/ ~req[r].fresh
<1>1. ASSUME IInv, Next, NEW e \in Entity, NEW s \in System, Changed(s, e), e \in entity'
      PROVE  Owner(s)
  <2>1. PICK r \in Request :
          /\ CreateOverlay(r) \/ UpdateOverlay(r) \/ (\E f \in Entity : DeleteOverlay(r, f))
          /\ req[r].sys = s
    BY <1>1, OverlayWritten
  <2>2. req[r].op \in OverlayOp \cup {"delete_overlay"}
    BY <2>1 DEF CreateOverlay, UpdateOverlay, DeleteOverlay, Writes, OverlayOp
  <2>3. req'[r] = Idle
    BY <2>1 DEF CreateOverlay, UpdateOverlay, DeleteOverlay, CommitWrite, Touched
  <2>4. req[r].fresh => system[s].active
    BY <1>1, <2>1, <2>2 DEF IInv, ReadHolds
  <2> QED
    BY <2>1, <2>2, <2>3, <2>4
<1>2. IInv /\ [Next]_vars =>
        [\A e \in Entity, s \in System :
           /\ overlay'[s][e].exists # overlay[s][e].exists \/ overlay'[s][e].val # overlay[s][e].val
           /\ e \in entity'
           => Owner(s)]_vars
  BY <1>1
<1> QED
  BY <1>2, IInvHolds, PTL DEF Spec, OverlaysWrittenByOwner
=============================================================================
