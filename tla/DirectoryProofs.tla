---------------------------- MODULE DirectoryProofs ----------------------------
(***************************************************************************)
(* Theorems about Directory, for any types, entities, requests and JSON    *)
(* Schemas.                                                                *)
(*                                                                         *)
(* The argument: what a request checked is about a type, by its id, and    *)
(* about entities, by theirs.  An id is not given again while a request    *)
(* holds it, so that a step of another request either leaves a held row's  *)
(* type, name, scope and key as they are (Same...), or removes the row and *)
(* a foreign key refuses what the request does next; a revision of the     *)
(* type takes the freshness.                                               *)
(***************************************************************************)
EXTENDS Directory, TLAPS

\* The step neither creates nor changes the type with id t.
SameType(t) == t \in Types' => t \in Types /\ type'[t] = type[t]

\* The step neither creates the entity with id e nor changes what it is.
SameEntity(e) ==
  e \in Entities' =>
    e \in Entities /\ entity'[e].type = entity[e].type /\ entity'[e].ext = entity[e].ext

RequestHolds(r) == Shape(r) /\ CheckHolds(r)

\* The rows: everything in the invariant but the requests.
RowsHold ==
  /\ TypeOK /\ References /\ UniqueKeys /\ SystemsAgree /\ Conforming /\ Declared
  /\ staleEntity \subseteq Entities /\ staleRelation \subseteq relation

LEMMA IInvParts == IInv <=> RowsHold /\ \A r \in Request : RequestHolds(r)
BY DEF IInv, RowsHold, RequestHolds

LEMMA IdleFacts ==
  /\ Idle \in Local /\ Idle.pc = "idle" /\ Idle.op = "none" /\ Idle.type = None
  /\ Idle.id = None /\ Idle.link = None /\ Idle.fresh
  /\ \A r \in Request : req[r] = Idle => RequestHolds(r)
<1>1. Idle \in Local
  BY DEF Idle, Local
<1>2. \A r \in Request : req[r] = Idle => Shape(r) /\ CheckHolds(r)
  BY DEF Shape, CheckHolds, Idle
<1> QED
  BY <1>1, <1>2 DEF RequestHolds, Idle

\* What holds of a request that has nothing in hand.
LEMMA IdleHolds ==
  ASSUME NEW r \in Request, req'[r] = Idle
  PROVE  RequestHolds(r)'
BY DEF RequestHolds, Shape, CheckHolds, Idle

\* What a request checked still holds when the rows it holds stay the same.
LEMMA RequestFrame ==
  ASSUME IInv, References', NEW q \in Request, req'[q] = req[q],
         SameType(req[q].type), \A e \in Entities : SameType(entity[e].type),
         SameEntity(req[q].id),
         req[q].op = "relate" => SameEntity(req[q].link.sub) /\ SameEntity(req[q].link.tgt)
  PROVE  RequestHolds(q)'
<1>1. Shape(q) /\ CheckHolds(q)
  BY DEF IInv
<1>2. Shape(q)'
  BY <1>1 DEF Shape
<1>3. ASSUME NEW e, e \in Entities', SameEntity(e)
      PROVE  e \in Entities /\ entity'[e].ext = entity[e].ext
             /\ type'[entity'[e].type] = type[entity[e].type]
  BY <1>3 DEF SameEntity, SameType, References
<1>4. req[q].type \in Types' => req[q].type \in Types /\ type'[req[q].type] = type[req[q].type]
  BY DEF SameType
<1>5. req[q].id \in Entities' =>
        /\ req[q].id \in Entities /\ entity'[req[q].id].ext = entity[req[q].id].ext
        /\ type'[entity'[req[q].id].type] = type[entity[req[q].id].type]
  BY <1>3
<1>6. req[q].op = "relate" /\ {req[q].link.sub, req[q].link.tgt} \subseteq Entities' =>
        /\ {req[q].link.sub, req[q].link.tgt} \subseteq Entities
        /\ type'[entity'[req[q].link.sub].type] = type[entity[req[q].link.sub].type]
        /\ type'[entity'[req[q].link.tgt].type] = type[entity[req[q].link.tgt].type]
  BY <1>3
<1>7. CheckHolds(q)'
  BY <1>1, <1>4, <1>5, <1>6 DEF CheckHolds, ScopeAllows
<1> QED
  BY <1>2, <1>7 DEF RequestHolds

\* A step that only changes what one request knows.
LEMMA OneRequest ==
  ASSUME IInv, NEW r \in Request, NEW n \in Local, req' = [req EXCEPT ![r] = n],
         UNCHANGED <<type, entity, relation, stale>>, RequestHolds(r)'
  PROVE  IInv'
<1>1. TypeOK'
  BY DEF IInv, TypeOK, stale
<1>2. References' /\ UniqueKeys' /\ SystemsAgree' /\ Conforming' /\ Declared'
  BY DEF IInv, References, UniqueKeys, SystemsAgree, SystemAccepted, Conforming, Declared,
         Types, Entities, stale
<1>3. (staleEntity \subseteq Entities /\ staleRelation \subseteq relation)'
  BY DEF IInv, Entities, stale
<1>4. ASSUME NEW q \in Request PROVE RequestHolds(q)'
  <2>1. CASE q # r
    <3>1. req'[q] = req[q]
      BY <2>1 DEF IInv, TypeOK
    <3>2. (\A t : SameType(t)) /\ \A e : SameEntity(e)
      BY DEF SameType, SameEntity, Types, Entities
    <3> QED
      BY <1>2, <3>1, <3>2, RequestFrame
  <2> QED
    BY <2>1
<1> QED
  BY <1>1, <1>2, <1>3, <1>4 DEF IInv, RequestHolds

LEMMA InitInv == Init => IInv
<1> SUFFICES ASSUME Init PROVE IInv
  OBVIOUS
<1> DEFINE row == [exists |-> TRUE, name |-> SystemName, scope |-> "global",
                   doc |-> SystemDoc, rels |-> NoRelations]
<1>1. row \in TypeRow /\ NoType \in TypeRow /\ NoEntity \in EntityRow
      /\ row.exists /\ ~NoType.exists /\ ~NoEntity.exists
      /\ row.name \in TypeName /\ row.doc \in Document /\ row.rels \in RelDocument
  BY DirectoryAssumption DEF TypeRow, NoType, EntityRow, NoEntity, Scope
<1>2. type = [t \in TypeId |-> IF t = SystemType THEN row ELSE NoType]
  BY DEF Init
<1> HIDE DEF row
<1>3. TypeOK
  BY <1>1, <1>2, IdleFacts DEF Init, TypeOK
<1>4. Entities = {} /\ Types \subseteq {SystemType}
  BY <1>1, <1>2 DEF Init, Entities, Types
<1>5. \A r \in Request : RequestHolds(r)
  BY IdleFacts DEF Init
<1> QED
  BY <1>3, <1>4, <1>5 DEF Init, IInv, References, UniqueKeys, SystemsAgree, Conforming, Declared,
                          RequestHolds

-----------------------------------------------------------------------------
(***************************************************************************)
(* Steps of one request that write no row.                                 *)
(***************************************************************************)
LEMMA FailInv ==
  ASSUME IInv, NEW r \in Request, Fail(r)
  PROVE  IInv'
<1>1. req'[r] = Idle
  BY DEF Fail, IInv, TypeOK
<1> QED
  BY <1>1, IdleFacts, IdleHolds, OneRequest DEF Fail

LEMMA HasEntitiesInv ==
  ASSUME IInv, NEW r \in Request, NEW t \in TypeId, NEW blind \in BOOLEAN, HasEntities(r, t, blind)
  PROVE  IInv'
<1> DEFINE k == [Idle EXCEPT !.pc = "delete", !.op = "delete_type", !.type = t]
<1>1. k \in Local /\ k.pc = "delete" /\ k.op = "delete_type" /\ k.type = t
  BY IdleFacts DEF Local, Op
<1>2. req' = [req EXCEPT ![r] = k] /\ UNCHANGED <<type, entity, relation, stale>>
  BY DEF HasEntities
<1> HIDE DEF k
<1>3. req'[r] = k
  BY <1>2 DEF IInv, TypeOK
<1>4. RequestHolds(r)'
  BY <1>1, <1>3 DEF RequestHolds, Shape, CheckHolds
<1> QED
  BY <1>1, <1>2, <1>4, OneRequest

\* A write that was resolved: its type accepts it.
LEMMA ResolveTypeInv ==
  ASSUME IInv, NEW r \in Request, NEW q \in Local,
         (q.op = "create" \/ q.op = "upsert") /\ q.named \in TypeName /\ q.ext \in ExternalId
           /\ q.val \in Value,
         ResolveType(r, q)
  PROVE  IInv'
<1>1. PICK t \in Types :
        /\ type[t].name = q.named
        /\ ScopeAllows(type[t].scope, q.sys)
        /\ q.val \in Valid[type[t].doc]
        /\ req' = [req EXCEPT ![r] = [q EXCEPT !.pc = IF q.op = "upsert" THEN "lookup" ELSE "insert",
                                               !.type = t, !.fresh = TRUE]]
        /\ UNCHANGED <<type, entity, relation, stale>>
  BY DEF ResolveType
<1> DEFINE pc == IF q.op = "upsert" THEN "lookup" ELSE "insert"
           k == [q EXCEPT !.pc = pc, !.type = t, !.fresh = TRUE]
<1>2. (pc = "lookup" /\ q.op = "upsert") \/ (pc = "insert" /\ q.op = "create")
  OBVIOUS
<1>3. req' = [req EXCEPT ![r] = k] /\ t \in TypeId
  BY <1>1 DEF Types
<1> HIDE DEF pc
<1>4. /\ k \in Local /\ k.pc = pc /\ k.type = t /\ k.op = q.op /\ k.named = q.named
      /\ k.ext = q.ext /\ k.val = q.val /\ k.sys = q.sys
  BY <1>2, <1>3 DEF Local
<1> HIDE DEF k
<1>5. req'[r] = k
  BY <1>3 DEF IInv, TypeOK
<1>6. Shape(r)'
  BY <1>2, <1>3, <1>4, <1>5 DEF Shape
<1>7. CheckHolds(r)'
  BY <1>1, <1>2, <1>4, <1>5 DEF CheckHolds
<1> QED
  BY <1>1, <1>3, <1>4, <1>6, <1>7, OneRequest DEF RequestHolds

LEMMA StartWriteInv ==
  ASSUME IInv, NEW r \in Request, NEW op \in {"create", "upsert"}, NEW n \in TypeName,
         NEW x \in ExternalId, NEW v \in Value, NEW caller \in Entities \cup {None},
         NEW s \in Entities \cup {None}, StartWrite(r, op, n, x, v, caller, s)
  PROVE  IInv'
<1> DEFINE es == EffectiveSystem(caller, s)
           q == [Idle EXCEPT !.op = op, !.named = n, !.ext = x, !.val = v, !.sys = es]
<1>1. es \in Entity \cup {None}
  BY DEF EffectiveSystem, Entities
<1>2. ResolveType(r, q)
  BY DEF StartWrite
<1> HIDE DEF es
<1>3. q \in Local /\ q.op = op /\ q.named = n /\ q.ext = x /\ q.val = v
  BY <1>1, IdleFacts DEF Local, Op
<1> HIDE DEF q
<1> QED
  BY <1>2, <1>3, ResolveTypeInv

LEMMA ResolveAgainInv ==
  ASSUME IInv, NEW r \in Request, ResolveAgain(r)
  PROVE  IInv'
<1>1. req[r] \in Local /\ req[r].op = "create" /\ Shape(r)
  BY DEF ResolveAgain, IInv, TypeOK, Shape
<1>2. req[r].named \in TypeName /\ req[r].ext \in ExternalId /\ req[r].val \in Value
  BY <1>1 DEF Shape
<1> QED
  BY <1>1, <1>2, ResolveTypeInv DEF ResolveAgain

LEMMA LookUpEntityInv ==
  ASSUME IInv, NEW r \in Request, NEW blind \in BOOLEAN, LookUpEntity(r, blind)
  PROVE  IInv'
<1>1. req[r] \in Local /\ req[r].pc = "lookup" /\ req[r].op = "upsert" /\ Shape(r) /\ CheckHolds(r)
  BY DEF LookUpEntity, IInv, TypeOK, Shape
<1>2. req[r].named \in TypeName /\ req[r].ext \in ExternalId /\ req[r].val \in Value
  BY <1>1 DEF Shape
<1>3. CASE \E e \in OfType(req[r].type) :
             /\ entity[e].ext = req[r].ext
             /\ req' = [req EXCEPT ![r] = [@ EXCEPT !.pc = "read", !.type = None, !.sys = None, !.id = e]]
  <2>1. PICK e \in OfType(req[r].type) :
          /\ entity[e].ext = req[r].ext
          /\ req' = [req EXCEPT ![r] = [req[r] EXCEPT !.pc = "read", !.type = None, !.sys = None, !.id = e]]
    BY <1>3 DEF IInv, TypeOK
  <2> DEFINE k == [req[r] EXCEPT !.pc = "read", !.type = None, !.sys = None, !.id = e]
  <2>2. e \in Entities /\ e \in Entity /\ entity[e].type = req[r].type /\ req[r].type \in Types
    BY DEF OfType, Entities, IInv, References
  <2>3. /\ k \in Local /\ k.pc = "read" /\ k.id = e /\ k.op = "upsert" /\ k.named = req[r].named
        /\ k.ext = req[r].ext /\ k.val = req[r].val
    BY <1>1, <2>2 DEF Local
  <2>4. req' = [req EXCEPT ![r] = k]
    BY <2>1
  <2> HIDE DEF k
  <2>5. req'[r] = k /\ UNCHANGED <<type, entity, relation, stale>>
    BY <2>4 DEF IInv, TypeOK, LookUpEntity
  <2>6. type[entity[e].type].name = req[r].named
    BY <1>1, <2>2 DEF CheckHolds
  <2>7. Shape(r)'
    BY <1>2, <2>2, <2>3, <2>5 DEF Shape
  <2>8. CheckHolds(r)'
    BY <2>1, <2>3, <2>5, <2>6 DEF CheckHolds
  <2> QED
    BY <2>3, <2>4, <2>5, <2>7, <2>8, OneRequest DEF RequestHolds
<1>4. CASE req' = [req EXCEPT ![r] = [@ EXCEPT !.pc = "resolve", !.op = "create", !.type = None]]
  <2> DEFINE k == [req[r] EXCEPT !.pc = "resolve", !.op = "create", !.type = None]
  <2>1. /\ k \in Local /\ k.pc = "resolve" /\ k.op = "create" /\ k.named = req[r].named
        /\ k.ext = req[r].ext /\ k.val = req[r].val
    BY <1>1 DEF Local, Op
  <2>2. req' = [req EXCEPT ![r] = k]
    BY <1>4 DEF IInv, TypeOK
  <2> HIDE DEF k
  <2>3. req'[r] = k /\ UNCHANGED <<type, entity, relation, stale>>
    BY <2>2 DEF IInv, TypeOK, LookUpEntity
  <2>4. RequestHolds(r)'
    BY <1>2, <2>1, <2>3 DEF RequestHolds, Shape, CheckHolds
  <2> QED
    BY <2>1, <2>2, <2>3, <2>4, OneRequest
<1> QED
  BY <1>3, <1>4 DEF LookUpEntity

LEMMA StartUpdateInv ==
  ASSUME IInv, NEW r \in Request, NEW e \in Entity, NEW v \in Value, StartUpdate(r, e, v)
  PROVE  IInv'
<1> DEFINE k == [Idle EXCEPT !.pc = "read", !.op = "update", !.id = e, !.val = v]
<1>1. k \in Local /\ k.pc = "read" /\ k.op = "update" /\ k.id = e /\ k.val = v
  BY IdleFacts DEF Local, Op
<1>2. req' = [req EXCEPT ![r] = k] /\ UNCHANGED <<type, entity, relation, stale>>
  BY DEF StartUpdate
<1> HIDE DEF k
<1>3. req'[r] = k
  BY <1>2 DEF IInv, TypeOK
<1>4. RequestHolds(r)'
  BY <1>1, <1>3 DEF RequestHolds, Shape, CheckHolds
<1> QED
  BY <1>1, <1>2, <1>4, OneRequest

LEMMA ReadEntityInv ==
  ASSUME IInv, NEW r \in Request, ReadEntity(r)
  PROVE  IInv'
<1> DEFINE k == [req[r] EXCEPT !.pc = "write", !.fresh = TRUE]
<1>1. /\ req[r] \in Local /\ req[r].pc = "read" /\ Shape(r) /\ CheckHolds(r)
      /\ req[r].id \in Entities /\ req[r].val \in Valid[type[entity[req[r].id].type].doc]
  BY DEF ReadEntity, IInv, TypeOK
<1>2. /\ k \in Local /\ k.pc = "write" /\ k.op = req[r].op /\ k.named = req[r].named
      /\ k.ext = req[r].ext /\ k.val = req[r].val /\ k.id = req[r].id
  BY <1>1 DEF Local
<1>3. req' = [req EXCEPT ![r] = k] /\ UNCHANGED <<type, entity, relation, stale>>
  BY DEF ReadEntity, IInv, TypeOK
<1> HIDE DEF k
<1>4. req'[r] = k
  BY <1>3 DEF IInv, TypeOK
<1>5. Shape(r)'
  BY <1>1, <1>2, <1>4 DEF Shape
<1>6. CheckHolds(r)'
  BY <1>1, <1>2, <1>3, <1>4 DEF CheckHolds, Shape
<1> QED
  BY <1>2, <1>3, <1>5, <1>6, OneRequest DEF RequestHolds

LEMMA CheckRelationInv ==
  ASSUME IInv, NEW r \in Request, NEW l \in RelationRow, CheckRelation(r, l)
  PROVE  IInv'
<1> DEFINE k == [Idle EXCEPT !.pc = "insert", !.op = "relate", !.link = l]
<1>1. k \in Local /\ k.pc = "insert" /\ k.op = "relate" /\ k.link = l
  BY IdleFacts DEF Local, Op
<1>2. req' = [req EXCEPT ![r] = k] /\ UNCHANGED <<type, entity, relation, stale>>
  BY DEF CheckRelation
<1> HIDE DEF k
<1>3. req'[r] = k
  BY <1>2 DEF IInv, TypeOK
<1>4. Shape(r)'
  BY <1>1, <1>3 DEF Shape
<1>5. CheckHolds(r)'
  BY <1>1, <1>2, <1>3 DEF CheckHolds, CheckRelation
<1> QED
  BY <1>1, <1>2, <1>4, <1>5, OneRequest DEF RequestHolds

-----------------------------------------------------------------------------
(***************************************************************************)
(* Steps that write rows.                                                  *)
(***************************************************************************)

\* The step ends request q or leaves what it holds as it is.
Undisturbed(q) ==
  \/ req'[q] = Idle
  \/ /\ req'[q] = req[q]
     /\ SameType(req[q].type)
     /\ SameEntity(req[q].id)
     /\ req[q].op = "relate" => SameEntity(req[q].link.sub) /\ SameEntity(req[q].link.tgt)

LEMMA RowStep ==
  ASSUME IInv, RowsHold', \A e \in Entities : SameType(entity[e].type),
         \A q \in Request : Undisturbed(q)
  PROVE  IInv'
<1>1. ASSUME NEW q \in Request PROVE RequestHolds(q)'
  <2>1. References'
    BY DEF RowsHold
  <2> QED
    BY <2>1, IdleHolds, RequestFrame DEF Undisturbed
<1> QED
  BY <1>1 DEF IInv, RowsHold, RequestHolds

\* The ids of a request are among those held.
LEMMA HeldIds ==
  ASSUME IInv, NEW q \in Request
  PROVE  /\ req[q].type \in HeldTypes
         /\ req[q].id \in HeldEntities
         /\ req[q].op = "relate" => {req[q].link.sub, req[q].link.tgt} \subseteq HeldEntities
BY DEF HeldTypes, HeldEntities

LEMMA CreateTypeInv ==
  ASSUME IInv, NEW t \in TypeId, NEW n \in TypeName, NEW scope \in Scope, NEW d \in Document,
         NEW o \in RelDocument, CreateType(t, n, scope, d, o)
  PROVE  IInv'
<1> DEFINE row == [exists |-> TRUE, name |-> n, scope |-> scope, doc |-> d, rels |-> o]
<1>1. row \in TypeRow /\ row.exists /\ row.name = n /\ row.doc = d /\ row.rels = o
  BY DEF TypeRow
<1>2. type' = [type EXCEPT ![t] = row] /\ UNCHANGED <<entity, relation, req, stale>>
  BY DEF CreateType
<1> HIDE DEF row
<1>3. /\ type' \in [TypeId -> TypeRow] /\ type'[t] = row
      /\ \A u \in TypeId \ {t} : type'[u] = type[u]
  BY <1>1, <1>2 DEF IInv, TypeOK
<1>4. t \notin Types /\ t \notin HeldTypes /\ \A u \in Types : type[u].name # n
  BY DEF CreateType
<1>5. Types' = Types \cup {t} /\ \A u \in Types : type'[u] = type[u]
  BY <1>1, <1>3, <1>4 DEF Types
<1>6. Entities' = Entities /\ \A e \in Entities : entity[e].type \in Types
  BY <1>2 DEF Entities, IInv, References
<1>7. TypeOK'
  BY <1>1, <1>2, <1>3 DEF IInv, TypeOK, stale
<1>8. References'
  BY <1>2, <1>5, <1>6 DEF IInv, References
<1>9. UniqueKeys'
  BY <1>1, <1>2, <1>3, <1>4, <1>5, <1>6 DEF IInv, UniqueKeys
<1>10. \A s : SystemAccepted(s) => SystemAccepted(s)'
  BY <1>2, <1>5, <1>6 DEF SystemAccepted
<1>11. SystemsAgree'
  BY <1>2, <1>5, <1>6, <1>10 DEF IInv, SystemsAgree, ScopeAllows
<1>12. Conforming' /\ Declared'
  BY <1>2, <1>5, <1>6 DEF IInv, Conforming, Declared, References, stale
<1>13. RowsHold'
  BY <1>2, <1>6, <1>7, <1>8, <1>9, <1>11, <1>12 DEF RowsHold, IInv, stale
<1>14. \A u : u # t => SameType(u)
  BY <1>5 DEF SameType
<1>15. \A q \in Request : Undisturbed(q)
  BY <1>2, <1>4, <1>6, <1>14, HeldIds DEF Undisturbed, SameEntity
<1> QED
  BY <1>4, <1>6, <1>13, <1>14, <1>15, RowStep

\* A revision keeps name and scope; whoever has checked against the type is
\* no longer fresh.
LEMMA UpdateTypeInv ==
  ASSUME IInv, NEW t \in TypeId, NEW d \in Document, NEW o \in RelDocument, UpdateType(t, d, o)
  PROVE  IInv'
<1> DEFINE row == [type[t] EXCEPT !.doc = d, !.rels = o]
<1>1. type[t] \in TypeRow /\ t \in Types
  BY DEF UpdateType, IInv, TypeOK
<1>2. /\ row \in TypeRow /\ row.exists = type[t].exists /\ row.name = type[t].name
      /\ row.scope = type[t].scope /\ row.doc = d /\ row.rels = o
  BY <1>1 DEF TypeRow
<1>3. type' = [type EXCEPT ![t] = row] /\ UNCHANGED <<entity, relation>>
  BY DEF UpdateType, IInv, TypeOK
<1> HIDE DEF row
<1>4. /\ type' \in [TypeId -> TypeRow] /\ type'[t] = row
      /\ \A u \in TypeId \ {t} : type'[u] = type[u]
  BY <1>2, <1>3 DEF IInv, TypeOK
<1>5. /\ Types' = Types /\ Entities' = Entities
      /\ \A u \in TypeId : type'[u].name = type[u].name /\ type'[u].scope = type[u].scope
  BY <1>1, <1>2, <1>3, <1>4 DEF Types, Entities
<1>6. \A e \in Entities : entity[e].type \in Types /\ entity[e].type \in TypeId
  BY DEF IInv, References, Types
<1>7. /\ staleEntity' = staleEntity \cup OfType(t)
      /\ staleRelation' = staleRelation \cup {l \in relation : entity[l.sub].type = t}
  BY DEF UpdateType
<1>8. ASSUME NEW q \in Request
      PROVE  /\ req'[q] \in Local /\ req'[q].pc = req[q].pc /\ req'[q].op = req[q].op
             /\ req'[q].named = req[q].named /\ req'[q].type = req[q].type /\ req'[q].ext = req[q].ext
             /\ req'[q].val = req[q].val /\ req'[q].sys = req[q].sys /\ req'[q].id = req[q].id
             /\ req'[q].link = req[q].link /\ (req'[q].fresh => req[q].fresh /\ ~Checked(q, t))
             /\ (req[q] = Idle => req'[q] = Idle)
  <2>1. req[q] \in Local
    BY DEF IInv, TypeOK
  <2>2. CASE Checked(q, t)
    <3>1. req'[q] = [req[q] EXCEPT !.fresh = FALSE]
      BY <2>2 DEF UpdateType
    <3>2. req[q] # Idle
      BY <2>2, IdleFacts DEF Checked
    <3> QED
      BY <2>1, <3>1, <3>2 DEF Local
  <2>3. CASE ~Checked(q, t)
    BY <2>1, <2>3 DEF UpdateType
  <2> QED
    BY <2>2, <2>3
<1>9. TypeOK'
  <2>1. req' \in [Request -> Local]
    BY <1>8 DEF UpdateType
  <2>2. staleEntity' \in SUBSET Entity /\ staleRelation' \in SUBSET RelationRow
    BY <1>7 DEF OfType, Entities, IInv, TypeOK
  <2>3. \A u \in TypeId : type'[u].exists => type'[u].name \in TypeName /\ type'[u].doc \in Document
                                               /\ type'[u].rels \in RelDocument
    BY <1>2, <1>4 DEF IInv, TypeOK
  <2> QED
    BY <1>3, <1>4, <2>1, <2>2, <2>3 DEF IInv, TypeOK
<1>10. References' /\ UniqueKeys'
  BY <1>3, <1>5, <1>6 DEF IInv, References, UniqueKeys, Types
<1>11. \A s : SystemAccepted(s) => SystemAccepted(s)'
  BY <1>3, <1>5, <1>6 DEF SystemAccepted
<1>12. SystemsAgree'
  BY <1>3, <1>5, <1>6, <1>11 DEF IInv, SystemsAgree, ScopeAllows
<1>13. Conforming' /\ Declared'
  <2>1. \A e \in Entities \ staleEntity' : type'[entity[e].type] = type[entity[e].type]
    BY <1>4, <1>6, <1>7 DEF OfType
  <2>2. \A l \in relation \ staleRelation' :
          type'[entity[l.sub].type] = type[entity[l.sub].type]
    BY <1>4, <1>6, <1>7 DEF IInv, References
  <2>3. \A l \in relation : type'[entity[l.tgt].type].name = type[entity[l.tgt].type].name
    BY <1>5, <1>6 DEF IInv, References
  <2> QED
    BY <1>3, <1>5, <1>7, <2>1, <2>2, <2>3 DEF IInv, Conforming, Declared
<1>14. (staleEntity \subseteq Entities /\ staleRelation \subseteq relation)'
  BY <1>3, <1>5, <1>7 DEF IInv, OfType
<1>15. ASSUME NEW q \in Request PROVE RequestHolds(q)'
  <2>1. Shape(q) /\ CheckHolds(q)
    BY DEF IInv
  <2>2. Shape(q)'
    BY <1>8, <2>1 DEF Shape
  <2>3. req'[q].fresh /\ req[q].pc = "insert" /\ req[q].op = "create" /\ req[q].type \in Types =>
          type'[req[q].type] = type[req[q].type]
    BY <1>4, <1>8 DEF Checked, Types
  <2>4. req'[q].fresh /\ req[q].pc = "write" /\ req[q].id \in Entities =>
          type'[entity[req[q].id].type] = type[entity[req[q].id].type]
    BY <1>4, <1>6, <1>8 DEF Checked
  <2>5. req'[q].fresh /\ req[q].op = "relate" /\ {req[q].link.sub, req[q].link.tgt} \subseteq Entities =>
          /\ type'[entity[req[q].link.sub].type] = type[entity[req[q].link.sub].type]
          /\ type'[entity[req[q].link.tgt].type].name = type[entity[req[q].link.tgt].type].name
    BY <1>4, <1>5, <1>6, <1>8 DEF Checked
  <2>6. req[q].type \in Types => /\ type'[req[q].type].name = type[req[q].type].name
                                 /\ type'[req[q].type].scope = type[req[q].type].scope
    BY <1>5 DEF Types
  <2>7. req[q].id \in Entities =>
          type'[entity[req[q].id].type].name = type[entity[req[q].id].type].name
    BY <1>5, <1>6
  <2> DEFINE n == req'[q]
  <2>8. /\ n.pc = req[q].pc /\ n.op = req[q].op /\ n.named = req[q].named /\ n.type = req[q].type
        /\ n.ext = req[q].ext /\ n.val = req[q].val /\ n.sys = req[q].sys /\ n.id = req[q].id
        /\ n.link = req[q].link /\ (n.fresh => req[q].fresh)
    BY <1>8
  <2>9. n = req'[q] /\ entity' = entity /\ Types' = Types /\ Entities' = Entities
    BY <1>3, <1>5
  <2> HIDE DEF n
  <2>10. n.pc = "insert" /\ n.op = "create" /\ n.type \in Types' =>
           /\ ScopeAllows(type'[n.type].scope, n.sys)
           /\ n.fresh => n.val \in Valid[type'[n.type].doc]
    BY <2>1, <2>3, <2>6, <2>8, <2>9 DEF CheckHolds, ScopeAllows
  <2>11. n.pc = "write" /\ n.id \in Entities' /\ n.fresh =>
           n.val \in Valid[type'[entity'[n.id].type].doc]
    BY <2>1, <2>4, <2>8, <2>9 DEF CheckHolds
  <2>12. n.op = "relate" /\ {n.link.sub, n.link.tgt} \subseteq Entities' /\ n.fresh =>
           type'[entity'[n.link.tgt].type].name
             \in Targets[type'[entity'[n.link.sub].type].rels][n.link.rel]
    BY <2>1, <2>5, <2>8, <2>9 DEF CheckHolds
  <2>13. /\ n.pc = "lookup" /\ n.type \in Types' => type'[n.type].name = n.named
         /\ n.pc \in {"read", "write"} /\ n.op = "upsert" /\ n.id \in Entities' =>
              type'[entity'[n.id].type].name = n.named /\ entity'[n.id].ext = n.ext
    BY <2>1, <2>6, <2>7, <2>8, <2>9 DEF CheckHolds
  <2>14. CheckHolds(q)'
    BY <2>9, <2>10, <2>11, <2>12, <2>13 DEF CheckHolds
  <2> QED
    BY <2>2, <2>14 DEF RequestHolds
<1> QED
  BY <1>9, <1>10, <1>12, <1>13, <1>14, <1>15 DEF IInv, RequestHolds

\* What ending request r does to the requests.
LEMMA EndRequest ==
  ASSUME IInv, NEW r \in Request, req' = [req EXCEPT ![r] = Idle]
  PROVE  /\ req' \in [Request -> Local] /\ req'[r] = Idle
         /\ \A q \in Request \ {r} : req'[q] = req[q]
BY IdleFacts DEF IInv, TypeOK

LEMMA DeleteTypeInv ==
  ASSUME IInv, NEW r \in Request, DeleteType(r)
  PROVE  IInv'
<1> DEFINE t == req[r].type
<1>1. /\ t \in Types /\ t \in TypeId /\ OfType(t) = {} /\ type' = [type EXCEPT ![t] = NoType]
      /\ req' = [req EXCEPT ![r] = Idle] /\ UNCHANGED <<entity, relation, stale>>
  BY DEF DeleteType, Types
<1> HIDE DEF t
<1>2. NoType \in TypeRow /\ ~NoType.exists
  BY DEF NoType, TypeRow, Scope
<1>3. /\ type' \in [TypeId -> TypeRow] /\ type'[t] = NoType
      /\ \A u \in TypeId \ {t} : type'[u] = type[u]
  BY <1>1, <1>2 DEF IInv, TypeOK
<1>4. Types' = Types \ {t} /\ Entities' = Entities /\ \A u \in Types' : type'[u] = type[u]
  BY <1>1, <1>2, <1>3 DEF Types, Entities
<1>5. \A e \in Entities : entity[e].type \in Types /\ entity[e].type # t
  BY <1>1 DEF IInv, References, OfType
<1>6. TypeOK'
  BY <1>1, <1>2, <1>3, EndRequest DEF IInv, TypeOK, stale
<1>7. References' /\ UniqueKeys'
  BY <1>1, <1>4, <1>5 DEF IInv, References, UniqueKeys
<1>8. \A s : SystemAccepted(s) => SystemAccepted(s)'
  BY <1>1, <1>4, <1>5 DEF SystemAccepted
<1>9. SystemsAgree'
  BY <1>1, <1>4, <1>5, <1>8 DEF IInv, SystemsAgree, ScopeAllows
<1>10. Conforming' /\ Declared'
  BY <1>1, <1>4, <1>5 DEF IInv, Conforming, Declared, References, stale
<1>11. RowsHold'
  BY <1>1, <1>4, <1>6, <1>7, <1>9, <1>10 DEF RowsHold, IInv, stale
<1>12. \A u : SameType(u)
  BY <1>4 DEF SameType
<1>13. \A q \in Request : Undisturbed(q)
  BY <1>1, <1>4, <1>12, EndRequest DEF Undisturbed, SameEntity
<1> QED
  BY <1>11, <1>12, <1>13, RowStep

LEMMA InsertEntityInv ==
  ASSUME IInv, NEW r \in Request, NEW e \in Entity, InsertEntity(r, e)
  PROVE  IInv'
<1> DEFINE q == req[r]
           row == [exists |-> TRUE, type |-> q.type, ext |-> q.ext, val |-> q.val, sys |-> q.sys]
<1>1. /\ q \in Local /\ Shape(r) /\ CheckHolds(r) /\ q.pc = "insert" /\ q.op = "create"
      /\ e \notin Entities /\ e \notin HeldEntities /\ q.type \in Types /\ SystemAccepted(q.sys)
      /\ \A f \in OfType(q.type) : entity[f].ext # q.ext
      /\ entity' = [entity EXCEPT ![e] = row]
      /\ staleEntity' = IF q.fresh THEN staleEntity ELSE staleEntity \cup {e}
      /\ req' = [req EXCEPT ![r] = Idle] /\ UNCHANGED <<type, relation, staleRelation>>
  BY DEF InsertEntity, IInv, TypeOK
<1>2. /\ q.type \in TypeId /\ q.ext \in ExternalId /\ q.val \in Value
      /\ ScopeAllows(type[q.type].scope, q.sys) /\ (q.fresh => q.val \in Valid[type[q.type].doc])
  BY <1>1 DEF Shape, CheckHolds
<1>3. /\ row \in EntityRow /\ row.exists /\ row.type = q.type /\ row.ext = q.ext /\ row.val = q.val
      /\ row.sys = q.sys
  BY <1>1, <1>2 DEF Local, EntityRow
<1> HIDE DEF q, row
<1>4. /\ entity' \in [Entity -> EntityRow] /\ entity'[e] = row
      /\ \A f \in Entity \ {e} : entity'[f] = entity[f]
  BY <1>1, <1>3 DEF IInv, TypeOK
<1>5. Types' = Types /\ Entities' = Entities \cup {e} /\ \A f \in Entities : entity'[f] = entity[f]
  BY <1>1, <1>3, <1>4 DEF Types, Entities
<1>6. TypeOK'
  <2>1. staleEntity' \in SUBSET Entity
    BY <1>1 DEF IInv, TypeOK
  <2> QED
    BY <1>1, <1>2, <1>3, <1>4, <2>1, EndRequest DEF IInv, TypeOK
<1>7. References'
  BY <1>1, <1>3, <1>4, <1>5 DEF IInv, References
<1>8. UniqueKeys'
  <2>1. \A f \in Entities : entity[f].type = row.type => entity[f].ext # row.ext
    BY <1>1, <1>3 DEF OfType
  <2> QED
    BY <1>1, <1>4, <1>5, <2>1 DEF IInv, UniqueKeys
<1>9. \A s : SystemAccepted(s) => SystemAccepted(s)'
  BY <1>1, <1>5 DEF SystemAccepted
<1>10. SystemsAgree'
  BY <1>1, <1>2, <1>3, <1>4, <1>5, <1>9 DEF IInv, SystemsAgree, ScopeAllows
<1>11. Conforming'
  <2>1. e \notin staleEntity' => q.fresh
    BY <1>1
  <2>2. \A f \in Entities : f \notin staleEntity' => f \notin staleEntity
    BY <1>1
  <2> QED
    BY <1>1, <1>2, <1>3, <1>4, <1>5, <2>1, <2>2 DEF IInv, Conforming
<1>12. Declared'
  BY <1>1, <1>5 DEF IInv, Declared, References
<1>13. RowsHold'
  BY <1>1, <1>5, <1>6, <1>7, <1>8, <1>10, <1>11, <1>12 DEF RowsHold, IInv
<1>14. (\A t : SameType(t)) /\ \A f : f # e => SameEntity(f)
  BY <1>1, <1>5 DEF SameType, SameEntity
<1>15. \A p \in Request : Undisturbed(p)
  BY <1>1, <1>14, HeldIds, EndRequest DEF Undisturbed
<1> QED
  BY <1>13, <1>14, <1>15, RowStep

LEMMA UpdateEntityInv ==
  ASSUME IInv, NEW r \in Request, UpdateEntity(r)
  PROVE  IInv'
<1> DEFINE e == req[r].id
           v == req[r].val
           row == [entity[e] EXCEPT !.val = v]
<1>1. /\ Shape(r) /\ CheckHolds(r) /\ req[r].pc = "write" /\ e \in Entities /\ v \in Value
      /\ entity[e] \in EntityRow
  BY DEF UpdateEntity, IInv, TypeOK, Shape, Entities
<1>2. /\ row \in EntityRow /\ row.exists /\ row.type = entity[e].type /\ row.ext = entity[e].ext
      /\ row.val = v /\ row.sys = entity[e].sys
  BY <1>1 DEF EntityRow, Entities
<1>3. /\ entity' = [entity EXCEPT ![e] = row] /\ req' = [req EXCEPT ![r] = Idle]
      /\ UNCHANGED <<type, relation, staleRelation>>
      /\ staleEntity' = IF req[r].fresh THEN staleEntity \ {e} ELSE staleEntity \cup {e}
  BY DEF UpdateEntity, IInv, TypeOK
<1>4. req[r].fresh => v \in Valid[type[entity[e].type].doc]
  BY <1>1 DEF CheckHolds
<1> HIDE DEF e, v, row
<1>5. /\ entity' \in [Entity -> EntityRow] /\ entity'[e] = row
      /\ \A f \in Entity \ {e} : entity'[f] = entity[f]
  BY <1>1, <1>2, <1>3 DEF IInv, TypeOK, Entities
<1>6. /\ Types' = Types /\ Entities' = Entities
      /\ \A f \in Entities : /\ entity'[f].type = entity[f].type /\ entity'[f].ext = entity[f].ext
                             /\ entity'[f].sys = entity[f].sys
  BY <1>1, <1>2, <1>3, <1>5 DEF Types, Entities
<1>7. TypeOK'
  <2>1. staleEntity' \in SUBSET Entity
    BY <1>1, <1>3 DEF IInv, TypeOK, Entities
  <2>2. \A f \in Entity : entity'[f].exists => /\ entity'[f].type \in TypeId
                                               /\ entity'[f].ext \in ExternalId
                                               /\ entity'[f].val \in Value
    BY <1>1, <1>2, <1>5 DEF IInv, TypeOK, Entities
  <2> QED
    BY <1>3, <1>5, <2>1, <2>2, EndRequest DEF IInv, TypeOK
<1>8. References' /\ UniqueKeys'
  BY <1>3, <1>6 DEF IInv, References, UniqueKeys
<1>9. \A s : SystemAccepted(s) => SystemAccepted(s)'
  BY <1>3, <1>6 DEF SystemAccepted
<1>10. SystemsAgree'
  BY <1>3, <1>6, <1>9 DEF IInv, SystemsAgree, ScopeAllows
<1>11. Conforming'
  <2>1. e \notin staleEntity' => req[r].fresh
    BY <1>3
  <2>2. \A f \in Entities \ {e} : f \notin staleEntity' => f \notin staleEntity
    BY <1>3
  <2>3. \A f \in Entities \ {e} : entity'[f] = entity[f]
    BY <1>5 DEF Entities
  <2> QED
    BY <1>2, <1>3, <1>4, <1>5, <1>6, <2>1, <2>2, <2>3 DEF IInv, Conforming
<1>12. Declared'
  BY <1>3, <1>6 DEF IInv, Declared, References
<1>13. RowsHold'
  BY <1>1, <1>3, <1>6, <1>7, <1>8, <1>10, <1>11, <1>12 DEF RowsHold, IInv
<1>14. (\A t : SameType(t)) /\ \A f : SameEntity(f)
  BY <1>3, <1>6 DEF SameType, SameEntity
<1>15. \A p \in Request : Undisturbed(p)
  BY <1>3, <1>14, EndRequest DEF Undisturbed
<1> QED
  BY <1>13, <1>14, <1>15, RowStep

\* No entity keeps the deleted one as its system, nor does a relation that
\* stays.
LEMMA DeleteEntityInv ==
  ASSUME IInv, NEW e \in Entity, DeleteEntity(e)
  PROVE  IInv'
<1>1. /\ e \in Entities /\ entity' = [entity EXCEPT ![e] = NoEntity]
      /\ relation' = relation \ Attached(e) /\ staleEntity' = staleEntity \ {e}
      /\ staleRelation' = staleRelation \ Attached(e) /\ UNCHANGED <<type, req>>
      /\ \A f \in Entities \ {e} : entity[f].sys # e
      /\ \A l \in relation \ Attached(e) : l.sys # e
  BY DEF DeleteEntity
<1>2. NoEntity \in EntityRow /\ ~NoEntity.exists
  BY DEF NoEntity, EntityRow
<1>3. /\ entity' \in [Entity -> EntityRow] /\ entity'[e] = NoEntity
      /\ \A f \in Entity \ {e} : entity'[f] = entity[f]
  BY <1>1, <1>2 DEF IInv, TypeOK
<1>4. Types' = Types /\ Entities' = Entities \ {e} /\ \A f \in Entities' : entity'[f] = entity[f]
  BY <1>1, <1>2, <1>3 DEF Types, Entities
<1>5. \A l \in relation' : l \in relation /\ l.sub # e /\ l.tgt # e
  BY <1>1 DEF Attached
<1>6. TypeOK'
  BY <1>1, <1>2, <1>3 DEF IInv, TypeOK
<1>7. References' /\ UniqueKeys'
  BY <1>1, <1>4, <1>5 DEF IInv, References, UniqueKeys
<1>8. \A s : s # e /\ SystemAccepted(s) => SystemAccepted(s)'
  BY <1>1, <1>4 DEF SystemAccepted
<1>9. SystemsAgree'
  BY <1>1, <1>4, <1>8 DEF IInv, SystemsAgree, ScopeAllows
<1>10. Conforming'
  BY <1>1, <1>4 DEF IInv, Conforming
<1>11. Declared'
  BY <1>1, <1>4, <1>5 DEF IInv, Declared, References
<1>12. RowsHold'
  BY <1>1, <1>4, <1>6, <1>7, <1>9, <1>10, <1>11 DEF RowsHold, IInv
<1>13. (\A t : SameType(t)) /\ \A f : SameEntity(f)
  BY <1>1, <1>4 DEF SameType, SameEntity
<1>14. \A q \in Request : Undisturbed(q)
  BY <1>1, <1>13 DEF Undisturbed
<1> QED
  BY <1>12, <1>13, <1>14, RowStep

LEMMA InsertRelationInv ==
  ASSUME IInv, NEW r \in Request, InsertRelation(r)
  PROVE  IInv'
<1> DEFINE l == req[r].link
<1>1. /\ CheckHolds(r) /\ l \in RelationRow /\ req[r].op = "relate"
      /\ {l.sub, l.tgt} \subseteq Entities /\ SystemAccepted(l.sys)
      /\ relation' = relation \cup {l} /\ req' = [req EXCEPT ![r] = Idle]
      /\ staleRelation' = IF req[r].fresh THEN staleRelation ELSE staleRelation \cup {l}
      /\ UNCHANGED <<type, entity, staleEntity>>
  BY DEF InsertRelation, IInv, Shape
<1>2. req[r].fresh =>
        type[entity[l.tgt].type].name \in Targets[type[entity[l.sub].type].rels][l.rel]
  BY <1>1 DEF CheckHolds
<1> HIDE DEF l
<1>3. Types' = Types /\ Entities' = Entities
  BY <1>1 DEF Types, Entities
<1>4. TypeOK'
  <2>1. relation' \in SUBSET RelationRow /\ staleRelation' \in SUBSET RelationRow
    BY <1>1 DEF IInv, TypeOK
  <2> QED
    BY <1>1, <2>1, EndRequest DEF IInv, TypeOK
<1>5. References' /\ UniqueKeys'
  BY <1>1, <1>3 DEF IInv, References, UniqueKeys
<1>6. \A s : SystemAccepted(s) => SystemAccepted(s)'
  BY <1>1, <1>3 DEF SystemAccepted
<1>7. SystemsAgree'
  BY <1>1, <1>3, <1>6 DEF IInv, SystemsAgree, ScopeAllows
<1>8. Conforming'
  BY <1>1, <1>3 DEF IInv, Conforming
<1>9. Declared'
  BY <1>1, <1>2 DEF IInv, Declared
<1>10. staleRelation' \subseteq relation'
  BY <1>1 DEF IInv
<1>11. RowsHold'
  BY <1>1, <1>3, <1>4, <1>5, <1>7, <1>8, <1>9, <1>10 DEF RowsHold, IInv
<1>12. (\A t : SameType(t)) /\ \A f : SameEntity(f)
  BY <1>1, <1>3 DEF SameType, SameEntity
<1>13. \A q \in Request : Undisturbed(q)
  BY <1>1, <1>12, EndRequest DEF Undisturbed
<1> QED
  BY <1>11, <1>12, <1>13, RowStep

LEMMA DeleteRelationInv ==
  ASSUME IInv, NEW l \in relation, DeleteRelation(l)
  PROVE  IInv'
<1>1. /\ relation' = relation \ {l} /\ staleRelation' = staleRelation \ {l}
      /\ UNCHANGED <<type, entity, req, staleEntity>>
  BY DEF DeleteRelation
<1>2. Types' = Types /\ Entities' = Entities
  BY <1>1 DEF Types, Entities
<1>3. TypeOK'
  BY <1>1 DEF IInv, TypeOK
<1>4. References' /\ UniqueKeys'
  BY <1>1, <1>2 DEF IInv, References, UniqueKeys
<1>5. SystemsAgree'
  BY <1>1, <1>2 DEF IInv, SystemsAgree, SystemAccepted
<1>6. Conforming' /\ Declared'
  BY <1>1, <1>2 DEF IInv, Conforming, Declared
<1>7. RowsHold'
  BY <1>1, <1>2, <1>3, <1>4, <1>5, <1>6 DEF RowsHold, IInv
<1>8. (\A t : SameType(t)) /\ \A f : SameEntity(f)
  BY <1>1, <1>2 DEF SameType, SameEntity
<1>9. \A q \in Request : Undisturbed(q)
  BY <1>1, <1>8 DEF Undisturbed
<1> QED
  BY <1>7, <1>8, <1>9, RowStep

-----------------------------------------------------------------------------
LEMMA StutterInv ==
  ASSUME IInv, UNCHANGED vars
  PROVE  IInv'
<1>1. /\ type' = type /\ entity' = entity /\ relation' = relation /\ req' = req
      /\ staleEntity' = staleEntity /\ staleRelation' = staleRelation
  BY DEF vars, stale
<1>2. RowsHold'
  BY <1>1 DEF IInv, RowsHold, TypeOK, References, UniqueKeys, SystemsAgree, SystemAccepted,
              Conforming, Declared, Types, Entities
<1>3. (\A t : SameType(t)) /\ \A f : SameEntity(f)
  BY <1>1 DEF SameType, SameEntity, Types, Entities
<1> QED
  BY <1>1, <1>2, <1>3, RowStep DEF Undisturbed

LEMMA NextInv ==
  ASSUME IInv, [Next]_vars
  PROVE  IInv'
<1>1. ASSUME TypeStep PROVE IInv'
  BY <1>1, CreateTypeInv, UpdateTypeInv DEF TypeStep
<1>2. ASSUME NEW r \in Request, WriteStep(r) PROVE IInv'
  BY <1>2, StartWriteInv, ResolveAgainInv, LookUpEntityInv, InsertEntityInv, StartUpdateInv,
     ReadEntityInv, UpdateEntityInv DEF WriteStep
<1>3. ASSUME NEW r \in Request,
             \/ \E t \in TypeId, blind \in BOOLEAN : HasEntities(r, t, blind)
             \/ DeleteType(r)
             \/ \E l \in RelationRow : CheckRelation(r, l)
             \/ InsertRelation(r)
             \/ Fail(r)
      PROVE  IInv'
  BY <1>3, HasEntitiesInv, DeleteTypeInv, CheckRelationInv, InsertRelationInv, FailInv
<1>4. ASSUME (\E e \in Entity : DeleteEntity(e)) \/ (\E l \in relation : DeleteRelation(l))
      PROVE  IInv'
  BY <1>4, DeleteEntityInv, DeleteRelationInv
<1> QED
  BY <1>1, <1>2, <1>3, <1>4, StutterInv DEF Next

\* Whatever is interleaved, requests rely on what they checked only as long
\* as it holds (entity.Service, entitytype.Service, relation.Service).
THEOREM IInvHolds == Spec => []IInv
BY InitInv, NextInv, PTL DEF Spec

\* The rows and what requests hold are as declared (entity/model.go).
THEOREM TypeCorrect == Spec => []TypeOK
<1>1. IInv => TypeOK
  BY DEF IInv
<1> QED
  BY <1>1, IInvHolds, PTL

\* Scope and system of entities agree, and what system_id names is a System,
\* whatever became of type and system between the read and the insertion
\* (entity.validateScopeConstraints).
THEOREM ScopeAndSystemAgree == Spec => []SystemsAgree
<1>1. IInv => SystemsAgree
  BY DEF IInv
<1> QED
  BY <1>1, IInvHolds, PTL

\* An entity conforms to its type but for a revision since, or during, its
\* last write (entity.Service Create and Update).
THEOREM EntitiesConform == Spec => []Conforming
<1>1. IInv => Conforming
  BY DEF IInv
<1> QED
  BY <1>1, IInvHolds, PTL

\* A relation is declared by the type of its subject but for a revision of
\* that type since, or during, its creation (relation.Service Create).
THEOREM RelationsAreDeclared == Spec => []Declared
<1>1. IInv => Declared
  BY DEF IInv
<1> QED
  BY <1>1, IInvHolds, PTL

\* A bulk upsert writes the entity it names and gives it what its type
\* accepted (entity.Service createOrUpdate).
THEOREM UpsertsAreExact == Spec => UpsertIsExact
<1>1. ASSUME IInv, NEW r \in Request, UpdateEntity(r)
      PROVE  /\ req[r].op = "upsert" =>
                  /\ type[entity[req[r].id].type].name = req[r].named
                  /\ entity[req[r].id].ext = req[r].ext
             /\ req[r].fresh => req[r].val \in Valid[type[entity[req[r].id].type].doc]
  <2>1. CheckHolds(r) /\ req[r].pc = "write" /\ req[r].id \in Entities
    BY <1>1 DEF IInv, UpdateEntity
  <2> QED
    BY <2>1 DEF CheckHolds
<1>2. IInv /\ [Next]_vars =>
        [\A r \in Request : UpdateEntity(r) =>
           /\ req[r].op = "upsert" =>
                /\ type[entity[req[r].id].type].name = req[r].named
                /\ entity[req[r].id].ext = req[r].ext
           /\ req[r].fresh => req[r].val \in Valid[type[entity[req[r].id].type].doc]]_vars
  BY <1>1
<1> QED
  BY <1>2, IInvHolds, PTL DEF Spec, UpsertIsExact
=============================================================================
