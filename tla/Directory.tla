------------------------------ MODULE Directory ------------------------------
(***************************************************************************)
(* Entity types, entities and relations (src/internal/entitytype, entity,  *)
(* relation): the typed graph that the retrieval API serves.               *)
(*                                                                         *)
(* The type of a new entity is read on the pool before the transaction     *)
(* that inserts the row, and an upsert looks its entity up there too; what *)
(* a transaction has read it does not lock.  PostgreSQL enforces foreign   *)
(* and unique keys and a trigger on system_id; that properties conform to  *)
(* the type, that a relation is declared by it and that scope and system   *)
(* agree is only checked in what was read before.  A request is a sequence *)
(* of reads and one step that commits.                                     *)
(*                                                                         *)
(* Ids are UUIDs.  An element of TypeId or Entity that neither exists nor  *)
(* is held by a request stands for the next new one.  Nothing in these     *)
(* packages reads is_builtin: a seeded row is like any other.              *)
(***************************************************************************)
EXTENDS Integers, FiniteSets

CONSTANTS
  TypeId,        \* ids of entity type definitions
  TypeName,      \* names of types
  Entity,        \* ids of entities
  ExternalId,    \* external ids
  Value,         \* JSON objects, the properties of entities
  Document,      \* JSON Schemas, the allowed properties of a type
  Valid,         \* Valid[d]: the values that document d admits
  RelationType,  \* names of relations
  RelDocument,   \* JSON objects, the allowed relations of a type
  Targets,       \* Targets[o][n]: the target_types of relation n in object o
  Request,       \* concurrent requests
  SystemType,    \* the id of the seeded type System
  SystemName,    \* its name
  SystemDoc,     \* its allowed properties
  NoRelations,   \* its allowed relations: {}
  None           \* no such thing

ASSUME DirectoryAssumption ==
  /\ Valid \in [Document -> SUBSET Value]
  /\ Targets \in [RelDocument -> [RelationType -> SUBSET TypeName]]
  /\ SystemType \in TypeId
  /\ SystemName \in TypeName
  /\ SystemDoc \in Document
  /\ NoRelations \in RelDocument
  /\ None \notin TypeId \cup TypeName \cup Entity \cup ExternalId \cup Value
                   \cup Document \cup RelDocument \cup RelationType

VARIABLES
  type,          \* type[t]: the row t of entity_type_definition
  entity,        \* entity[e]: the row e of entity
  relation,      \* the rows of relation, identified by their unique keys
  req,           \* req[r]: the local state of request r
  staleEntity,   \* entities whose type was revised since they were
                 \* validated against it (history)
  staleRelation  \* relations whose subject's type was (history)

stale == <<staleEntity, staleRelation>>
vars == <<type, entity, relation, req, stale>>

Scope == {"global", "system_scoped"}

TypeRow == [exists : BOOLEAN, name : TypeName \cup {None}, scope : Scope,
            doc : Document \cup {None}, rels : RelDocument \cup {None}]
EntityRow == [exists : BOOLEAN, type : TypeId \cup {None}, ext : ExternalId \cup {None},
              val : Value \cup {None}, sys : Entity \cup {None}]
RelationRow == [sub : Entity, rel : RelationType, tgt : Entity, sys : Entity \cup {None}]

NoType == [exists |-> FALSE, name |-> None, scope |-> "global", doc |-> None, rels |-> None]
NoEntity == [exists |-> FALSE, type |-> None, ext |-> None, val |-> None, sys |-> None]

(***************************************************************************)
(* A request: where it is, and what it was given or has read.  named is    *)
(* the type's name, type its id, id the entity to write; link the relation *)
(* to insert.  fresh is history: the type it was checked against has not   *)
(* been revised since.                                                     *)
(***************************************************************************)
Op == {"create", "upsert", "update", "relate", "delete_type"}

Local == [pc : {"idle", "resolve", "lookup", "insert", "read", "write", "delete"},
          op : Op \cup {"none"}, named : TypeName \cup {None}, type : TypeId \cup {None},
          ext : ExternalId \cup {None}, val : Value \cup {None}, sys : Entity \cup {None},
          id : Entity \cup {None}, link : RelationRow \cup {None}, fresh : BOOLEAN]

Idle == [pc |-> "idle", op |-> "none", named |-> None, type |-> None, ext |-> None,
         val |-> None, sys |-> None, id |-> None, link |-> None, fresh |-> TRUE]

TypeOK ==
  /\ type \in [TypeId -> TypeRow]
  /\ entity \in [Entity -> EntityRow]
  /\ relation \in SUBSET RelationRow
  /\ req \in [Request -> Local]
  /\ staleEntity \in SUBSET Entity
  /\ staleRelation \in SUBSET RelationRow
  /\ \A t \in TypeId : type[t].exists => /\ type[t].name \in TypeName
                                         /\ type[t].doc \in Document
                                         /\ type[t].rels \in RelDocument
  /\ \A e \in Entity : entity[e].exists => /\ entity[e].type \in TypeId
                                           /\ entity[e].ext \in ExternalId
                                           /\ entity[e].val \in Value

\* The migration seeds the type System, on which scopes depend.
Init ==
  /\ type = [t \in TypeId |->
               IF t = SystemType
               THEN [exists |-> TRUE, name |-> SystemName, scope |-> "global",
                     doc |-> SystemDoc, rels |-> NoRelations]
               ELSE NoType]
  /\ entity = [e \in Entity |-> NoEntity]
  /\ relation = {}
  /\ req = [r \in Request |-> Idle]
  /\ staleEntity = {}
  /\ staleRelation = {}

Types == {t \in TypeId : type[t].exists}
Entities == {e \in Entity : entity[e].exists}
OfType(t) == {e \in Entities : entity[e].type = t}

\* What the database accepts as system_id: the foreign key, and the trigger
\* assert_system_id_targets_system_entity.
SystemAccepted(s) ==
  s = None \/ (s \in Entities /\ type[entity[s].type].name = SystemName)

\* A caller bound to a system may leave the field out and may not name
\* another one; a caller without one passes anything.
EffectiveSystem(caller, s) == IF caller = None THEN s ELSE caller
MayTarget(caller, s) == caller = None \/ s \in {None, caller}

\* Global types have no system, system-scoped ones must have one.
ScopeAllows(scope, s) == (scope = "system_scoped") <=> (s # None)

\* The ids that requests hold.
HeldTypes == {req[r].type : r \in Request}
HeldEntities ==
  UNION {{req[r].id, req[r].sys} \cup
         (IF req[r].op = "relate" THEN {req[r].link.sub, req[r].link.tgt, req[r].link.sys} ELSE {})
         : r \in Request}

\* Request r ends without effect: a read found nothing, a validation or a
\* constraint refused it, the database failed, or the process stopped.
Fail(r) ==
  /\ req[r] # Idle
  /\ req' = [req EXCEPT ![r] = Idle]
  /\ UNCHANGED <<type, entity, relation, stale>>
-----------------------------------------------------------------------------
(***************************************************************************)
(* Entity types.                                                           *)
(***************************************************************************)
CreateType(t, n, scope, d, o) ==
  /\ t \notin Types \cup HeldTypes
  /\ \A u \in Types : type[u].name # n
  /\ type' = [type EXCEPT ![t] = [exists |-> TRUE, name |-> n, scope |-> scope,
                                  doc |-> d, rels |-> o]]
  /\ UNCHANGED <<entity, relation, req, stale>>

\* Request r holds a check against type t.
Checked(r, t) ==
  \/ req[r].pc = "insert" /\ req[r].op = "create" /\ req[r].type = t
  \/ req[r].pc = "write" /\ entity[req[r].id].type = t
  \/ req[r].op = "relate" /\ entity[req[r].link.sub].type = t

\* Both documents are replaced; nothing stored is validated again.
UpdateType(t, d, o) ==
  /\ t \in Types
  /\ type' = [type EXCEPT ![t].doc = d, ![t].rels = o]
  /\ req' = [r \in Request |-> IF Checked(r, t) THEN [req[r] EXCEPT !.fresh = FALSE] ELSE req[r]]
  /\ staleEntity' = staleEntity \cup OfType(t)
  /\ staleRelation' = staleRelation \cup {l \in relation : entity[l.sub].type = t}
  /\ UNCHANGED <<entity, relation>>

\* GetByID and HasEntities run on the pool.  Row-level security hides the
\* entities of systems from a connection where no scope was ever set (blind).
HasEntities(r, t, blind) ==
  /\ req[r] = Idle
  /\ t \in Types
  /\ \A e \in OfType(t) : blind /\ entity[e].sys # None
  /\ req' = [req EXCEPT ![r] = [Idle EXCEPT !.pc = "delete", !.op = "delete_type", !.type = t]]
  /\ UNCHANGED <<type, entity, relation, stale>>

\* Mutant: the question asked before the transaction is relied on.
DeleteTypeUnguarded(r) ==
  /\ req[r].pc = "delete"
  /\ req[r].type \in Types
  /\ type' = [type EXCEPT ![req[r].type] = NoType]
  /\ req' = [req EXCEPT ![r] = Idle]
  /\ UNCHANGED <<entity, relation, stale>>

\* The foreign key of entity refuses the deletion of a type in use.
DeleteType(r) ==
  /\ req[r].pc = "delete"
  /\ req[r].type \in Types
  /\ OfType(req[r].type) = {}
  /\ type' = [type EXCEPT ![req[r].type] = NoType]
  /\ req' = [req EXCEPT ![r] = Idle]
  /\ UNCHANGED <<entity, relation, stale>>
-----------------------------------------------------------------------------
(***************************************************************************)
(* Entities.  An item of a bulk request is a request of its own: its       *)
(* failure is recorded and the batch goes on.                              *)
(***************************************************************************)

\* q is the request r with its input: its type, by name, accepts it.
ResolveType(r, q) ==
  \E t \in Types :
    /\ type[t].name = q.named
    /\ ScopeAllows(type[t].scope, q.sys)
    /\ q.val \in Valid[type[t].doc]
    /\ req' = [req EXCEPT ![r] = [q EXCEPT !.pc = IF q.op = "upsert" THEN "lookup" ELSE "insert",
                                           !.type = t, !.fresh = TRUE]]
    /\ UNCHANGED <<type, entity, relation, stale>>

\* Create, and createOrUpdate for an item of a bulk upsert.
StartWrite(r, op, n, x, v, caller, s) ==
  /\ req[r] = Idle
  /\ MayTarget(caller, s)
  /\ ResolveType(r, [Idle EXCEPT !.op = op, !.named = n, !.ext = x, !.val = v,
                                 !.sys = EffectiveSystem(caller, s)])

\* An upsert that found no entity calls Create, which starts again.
ResolveAgain(r) ==
  /\ req[r].pc = "resolve"
  /\ ResolveType(r, req[r])

\* Mutant: any entity with the external id is taken for the one to update.
LookUpEntityByExternalId(r, blind) ==
  /\ req[r].pc = "lookup"
  /\ \E e \in Entities :
       /\ entity[e].ext = req[r].ext
       /\ req' = [req EXCEPT ![r] = [@ EXCEPT !.pc = "read", !.op = "upsert", !.type = None, !.id = e]]
  /\ UNCHANGED <<type, entity, relation, stale>>

\* The entity of this type and external id, read on the pool; blind as above.
LookUpEntity(r, blind) ==
  LET found == {e \in OfType(req[r].type) :
                  entity[e].ext = req[r].ext /\ ~(blind /\ entity[e].sys # None)}
  IN
  /\ req[r].pc = "lookup"
  /\ \/ \E e \in found :
          req' = [req EXCEPT ![r] = [@ EXCEPT !.pc = "read", !.type = None, !.sys = None, !.id = e]]
     \/ /\ found = {}
        /\ req' = [req EXCEPT ![r] = [@ EXCEPT !.pc = "resolve", !.op = "create", !.type = None]]
  /\ UNCHANGED <<type, entity, relation, stale>>

\* Mutant: the row is inserted for the type that has the name by now.
InsertEntityByName(r, e) ==
  /\ req[r].pc = "insert" /\ req[r].op = "create"
  /\ e \notin Entities \cup HeldEntities
  /\ SystemAccepted(req[r].sys)
  /\ \E t \in Types :
       /\ type[t].name = req[r].named
       /\ \A f \in OfType(t) : entity[f].ext # req[r].ext
       /\ entity' = [entity EXCEPT ![e] = [exists |-> TRUE, type |-> t, ext |-> req[r].ext,
                                           val |-> req[r].val, sys |-> req[r].sys]]
  /\ staleEntity' = IF req[r].fresh THEN staleEntity ELSE staleEntity \cup {e}
  /\ req' = [req EXCEPT ![r] = Idle]
  /\ UNCHANGED <<type, relation, staleRelation>>

InsertEntity(r, e) ==
  /\ req[r].pc = "insert" /\ req[r].op = "create"
  /\ e \notin Entities \cup HeldEntities
  /\ req[r].type \in Types
  /\ \A f \in OfType(req[r].type) : entity[f].ext # req[r].ext
  /\ SystemAccepted(req[r].sys)
  /\ entity' = [entity EXCEPT ![e] = [exists |-> TRUE, type |-> req[r].type, ext |-> req[r].ext,
                                      val |-> req[r].val, sys |-> req[r].sys]]
  /\ staleEntity' = IF req[r].fresh THEN staleEntity ELSE staleEntity \cup {e}
  /\ req' = [req EXCEPT ![r] = Idle]
  /\ UNCHANGED <<type, relation, staleRelation>>

StartUpdate(r, e, v) ==
  /\ req[r] = Idle
  /\ e \in Entities
  /\ req' = [req EXCEPT ![r] = [Idle EXCEPT !.pc = "read", !.op = "update", !.id = e, !.val = v]]
  /\ UNCHANGED <<type, entity, relation, stale>>

\* Mutant: an update trusts the validation that an upsert did before.
ReadEntityUnvalidated(r) ==
  /\ req[r].pc = "read"
  /\ req[r].id \in Entities
  /\ req' = [req EXCEPT ![r].pc = "write", ![r].fresh = TRUE]
  /\ UNCHANGED <<type, entity, relation, stale>>

\* Within the transaction: GetByID, the type by the name it returns, the
\* validation.  Neither the type of an entity nor the name of a type changes.
ReadEntity(r) ==
  /\ req[r].pc = "read"
  /\ req[r].id \in Entities
  /\ req[r].val \in Valid[type[entity[req[r].id].type].doc]
  /\ req' = [req EXCEPT ![r].pc = "write", ![r].fresh = TRUE]
  /\ UNCHANGED <<type, entity, relation, stale>>

\* UPDATE sets the properties; type, external_id and system_id stay.
UpdateEntity(r) ==
  /\ req[r].pc = "write"
  /\ req[r].id \in Entities
  /\ entity' = [entity EXCEPT ![req[r].id].val = req[r].val]
  /\ staleEntity' = IF req[r].fresh THEN staleEntity \ {req[r].id} ELSE staleEntity \cup {req[r].id}
  /\ req' = [req EXCEPT ![r] = Idle]
  /\ UNCHANGED <<type, relation, staleRelation>>

\* The relations that go with their subject or target: ON DELETE CASCADE.
Attached(e) == {l \in relation : l.sub = e \/ l.tgt = e}

\* The foreign keys of system_id have no ON DELETE.  A relation that goes
\* with e does not keep it.
DeleteEntity(e) ==
  /\ e \in Entities
  /\ \A f \in Entities \ {e} : entity[f].sys # e
  /\ \A l \in relation \ Attached(e) : l.sys # e
  /\ entity' = [entity EXCEPT ![e] = NoEntity]
  /\ relation' = relation \ Attached(e)
  /\ staleEntity' = staleEntity \ {e}
  /\ staleRelation' = staleRelation \ Attached(e)
  /\ UNCHANGED <<type, req>>
-----------------------------------------------------------------------------
(***************************************************************************)
(* Relations.                                                              *)
(***************************************************************************)

\* Mutant: the target may be of any type.
CheckRelationAnyTarget(r, l) ==
  /\ req[r] = Idle
  /\ l.sub # l.tgt /\ {l.sub, l.tgt} \subseteq Entities
  /\ Targets[type[entity[l.sub].type].rels][l.rel] # {}
  /\ req' = [req EXCEPT ![r] = [Idle EXCEPT !.pc = "insert", !.op = "relate", !.link = l]]
  /\ UNCHANGED <<type, entity, relation, stale>>

\* getSubjectInfo, extractRelationEntry and getTargetTypeName, in the
\* transaction.  The type name of the target never changes and the foreign key
\* asks again whether it exists: its read makes no step of its own.
CheckRelation(r, l) ==
  /\ req[r] = Idle
  /\ l.sub # l.tgt /\ {l.sub, l.tgt} \subseteq Entities
  /\ type[entity[l.tgt].type].name \in Targets[type[entity[l.sub].type].rels][l.rel]
  /\ req' = [req EXCEPT ![r] = [Idle EXCEPT !.pc = "insert", !.op = "relate", !.link = l]]
  /\ UNCHANGED <<type, entity, relation, stale>>

InsertRelation(r) ==
  LET l == req[r].link IN
  /\ req[r].pc = "insert" /\ req[r].op = "relate"
  /\ {l.sub, l.tgt} \subseteq Entities
  /\ SystemAccepted(l.sys)
  /\ l \notin relation
  /\ relation' = relation \cup {l}
  /\ staleRelation' = IF req[r].fresh THEN staleRelation ELSE staleRelation \cup {l}
  /\ req' = [req EXCEPT ![r] = Idle]
  /\ UNCHANGED <<type, entity, staleEntity>>

DeleteRelation(l) ==
  /\ l \in relation
  /\ relation' = relation \ {l}
  /\ staleRelation' = staleRelation \ {l}
  /\ UNCHANGED <<type, entity, req, staleEntity>>
-----------------------------------------------------------------------------
TypeStep ==
  \E t \in TypeId, d \in Document, o \in RelDocument :
    \/ \E n \in TypeName, scope \in Scope : CreateType(t, n, scope, d, o)
    \/ UpdateType(t, d, o)

WriteStep(r) ==
  \/ \E op \in {"create", "upsert"}, n \in TypeName, x \in ExternalId, v \in Value,
       caller, s \in Entities \cup {None} : StartWrite(r, op, n, x, v, caller, s)
  \/ ResolveAgain(r)
  \/ \E blind \in BOOLEAN : LookUpEntity(r, blind)
  \/ \E e \in Entity : InsertEntity(r, e)
  \/ \E e \in Entity, v \in Value : StartUpdate(r, e, v)
  \/ ReadEntity(r)
  \/ UpdateEntity(r)

Next ==
  \/ TypeStep
  \/ \E r \in Request :
       \/ \E t \in TypeId, blind \in BOOLEAN : HasEntities(r, t, blind)
       \/ DeleteType(r)
       \/ WriteStep(r)
       \/ \E l \in RelationRow : CheckRelation(r, l)
       \/ InsertRelation(r)
       \/ Fail(r)
  \/ \E e \in Entity : DeleteEntity(e)
  \/ \E l \in relation : DeleteRelation(l)

Spec == Init /\ [][Next]_vars
-----------------------------------------------------------------------------
(***************************************************************************)
(* Properties.                                                             *)
(***************************************************************************)

\* Foreign keys: what entities and relations refer to exists.
References ==
  /\ \A e \in Entities : entity[e].type \in Types
  /\ \A l \in relation : {l.sub, l.tgt} \subseteq Entities

\* Unique keys: names of types, external ids within a type.  Two upserts of
\* one key that both found nothing do not leave two entities.
UniqueKeys ==
  /\ \A t, u \in Types : type[t].name = type[u].name => t = u
  /\ \A e, f \in Entities :
       entity[e].type = entity[f].type /\ entity[e].ext = entity[f].ext => e = f

\* An entity of a system-scoped type belongs to a system and one of a global
\* type to none (validateScopeConstraints), whatever became of the type between
\* the read and the insertion; what system_id names is and stays a System.
SystemsAgree ==
  /\ \A e \in Entities : ScopeAllows(type[entity[e].type].scope, entity[e].sys)
  /\ \A e \in Entities : SystemAccepted(entity[e].sys)
  /\ \A l \in relation : SystemAccepted(l.sys)

\* Every entity conforms to its type (FR-ENT-003), unless the type was revised
\* since the entity was last written or while it was being written.
Conforming ==
  \A e \in Entities \ staleEntity : entity[e].val \in Valid[type[entity[e].type].doc]

\* Every relation is declared by the type of its subject for the type of its
\* target (FR-REL-002), under the same condition.
Declared ==
  \A l \in relation \ staleRelation :
    type[entity[l.tgt].type].name \in Targets[type[entity[l.sub].type].rels][l.rel]

\* A bulk upsert changes the properties of no entity but the one it names by
\* type and external id, and gives it properties which that type accepted.
UpsertIsExact ==
  [][\A r \in Request : UpdateEntity(r) =>
       /\ req[r].op = "upsert" =>
            /\ type[entity[req[r].id].type].name = req[r].named
            /\ entity[req[r].id].ext = req[r].ext
       /\ req[r].fresh => req[r].val \in Valid[type[entity[req[r].id].type].doc]]_vars

(***************************************************************************)
(* The inductive invariant: what requests hold has the shape their step    *)
(* needs, and what they checked holds as long as they are fresh.           *)
(***************************************************************************)
Shape(r) ==
  LET q == req[r] IN
  /\ q.pc = "idle" => q = Idle
  /\ q.op \in {"create", "upsert"} =>
       q.named \in TypeName /\ q.ext \in ExternalId /\ q.val \in Value
  /\ q.pc = "lookup" => q.op = "upsert"
  /\ q.pc = "resolve" => q.op = "create"
  /\ q.pc = "lookup" \/ (q.pc = "insert" /\ q.op = "create") => q.type \in TypeId
  /\ q.pc = "insert" => q.op \in {"create", "relate"}
  /\ q.pc \in {"read", "write"} => q.op \in {"upsert", "update"} /\ q.id \in Entity /\ q.val \in Value
  /\ q.op = "relate" => q.pc = "insert" /\ q.link \in RelationRow
  /\ q.pc = "delete" => q.type \in TypeId

CheckHolds(r) ==
  LET q == req[r] IN
  /\ q.pc = "insert" /\ q.op = "create" /\ q.type \in Types =>
       /\ ScopeAllows(type[q.type].scope, q.sys)
       /\ q.fresh => q.val \in Valid[type[q.type].doc]
  /\ q.pc = "write" /\ q.id \in Entities /\ q.fresh =>
       q.val \in Valid[type[entity[q.id].type].doc]
  /\ q.op = "relate" /\ {q.link.sub, q.link.tgt} \subseteq Entities /\ q.fresh =>
       type[entity[q.link.tgt].type].name \in Targets[type[entity[q.link.sub].type].rels][q.link.rel]
  /\ q.pc = "lookup" /\ q.type \in Types => type[q.type].name = q.named
  /\ q.pc \in {"read", "write"} /\ q.op = "upsert" /\ q.id \in Entities =>
       /\ type[entity[q.id].type].name = q.named
       /\ entity[q.id].ext = q.ext

IInv ==
  /\ TypeOK
  /\ References
  /\ UniqueKeys
  /\ SystemsAgree
  /\ Conforming
  /\ Declared
  /\ staleEntity \subseteq Entities /\ staleRelation \subseteq relation
  /\ \A r \in Request : Shape(r) /\ CheckHolds(r)
=============================================================================
