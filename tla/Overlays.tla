------------------------------- MODULE Overlays -------------------------------
(***************************************************************************)
(* Systems, overlay schemas and property overlays (src/internal/system,    *)
(* overlayschema, overlay, and entity where it writes systems).            *)
(*                                                                         *)
(* An overlay is written after three reads that no transaction holds       *)
(* together: the caller's system, the entity, the schema.  PostgreSQL      *)
(* enforces foreign keys and unique keys; that an overlay has a schema,    *)
(* conforms to it, is prefixed with its system's name and belongs to an    *)
(* active system is only checked in what was read before.  A request is a  *)
(* sequence of reads and one step that commits: a row its transaction      *)
(* writes stays locked until then.                                         *)
(*                                                                         *)
(* Ids are UUIDs.  An element of System, Schema or Entity that neither     *)
(* exists nor is held by a request stands for the next new one.            *)
(***************************************************************************)
EXTENDS Integers, FiniteSets

CONSTANTS
  System,    \* ids of entities of type System
  Name,      \* names of systems
  Key,       \* keys of JSON objects
  Prefixed,  \* Prefixed[n]: the keys that begin with name n and a dot
  Value,     \* JSON objects, the properties of overlays
  Document,  \* JSON Schemas, the allowed properties of overlay schemas
  KeysIn,    \* KeysIn[v]: top-level keys of a value; keys a document declares
  Valid,     \* Valid[d]: the values that document d admits
  Entity,    \* ids of the entities that overlays extend
  Type,      \* entity types
  TypeOf,    \* TypeOf[e]: the type of entity e
  Schema,    \* ids of overlay schemas
  Request,   \* concurrent requests
  None       \* no such thing

ASSUME OverlaysAssumption ==
  /\ Prefixed \in [Name -> SUBSET Key]
  /\ KeysIn \in [Value \cup Document -> SUBSET Key]
  /\ Valid \in [Document -> SUBSET Value]
  /\ TypeOf \in [Entity -> Type]
  /\ None \notin System \cup Name \cup Value \cup Document \cup Entity \cup Type \cup Schema

VARIABLES
  system,   \* system[s]: the entity s of type System
  schema,   \* schema[x]: the row x of system_overlay_schema
  entity,   \* the entities that exist
  overlay,  \* overlay[s][e]: the row of property_overlay with these keys
  req,      \* req[r]: the local state of request r
  anomaly   \* anomaly[s]: what befell the writes of system s (history)

vars == <<system, schema, entity, overlay, req, anomaly>>

(***************************************************************************)
(* Rows.  ext is external_id, which is unique; name, of which prefixes are *)
(* made, is a property.  An overlay is identified by the columns of its    *)
(* unique key.  checked is history: the schema was not updated since the   *)
(* overlay was last written.                                               *)
(***************************************************************************)
SystemRow == [exists : BOOLEAN, name : Name \cup {None}, ext : Name \cup {None},
              active : BOOLEAN]
SchemaRow == [exists : BOOLEAN, sys : System \cup {None}, type : Type \cup {None},
              doc : Document \cup {None}]
OverlayRow == [exists : BOOLEAN, val : Value \cup {None}, checked : BOOLEAN]

NoSystem == [exists |-> FALSE, name |-> None, ext |-> None, active |-> FALSE]
NoSchema == [exists |-> FALSE, sys |-> None, type |-> None, doc |-> None]
NoOverlay == [exists |-> FALSE, val |-> None, checked |-> FALSE]

(***************************************************************************)
(* A request: where it is, what it does, for which system, and what it has *)
(* read or decided: the properties to write, or the schema to delete.      *)
(* sets says which fields a PATCH of a system contains.  fresh is history: *)
(* nobody else wrote anything of its system since its first read.          *)
(***************************************************************************)
SchemaOp == {"create_schema", "update_schema"}
OverlayOp == {"create_overlay", "update_overlay"}
Op == {"patch", "delete_schema", "delete_overlay"} \cup SchemaOp \cup OverlayOp

Local == [pc : {"idle", "entity", "schema", "write"}, op : Op \cup {"none"},
          sys : System \cup {None}, name : Name \cup {None}, active : BOOLEAN,
          sets : SUBSET {"name", "active"}, id : Schema \cup {None},
          ent : Entity \cup {None}, doc : Document \cup {None}, val : Value \cup {None},
          fresh : BOOLEAN]

Idle == [pc |-> "idle", op |-> "none", sys |-> None, name |-> None, active |-> FALSE,
         sets |-> {}, id |-> None, ent |-> None, doc |-> None, val |-> None,
         fresh |-> TRUE]

Anomaly == {"overtaken", "blind", "renamed"}

TypeOK ==
  /\ system \in [System -> SystemRow]
  /\ schema \in [Schema -> SchemaRow]
  /\ entity \in SUBSET Entity
  /\ overlay \in [System -> [Entity -> OverlayRow]]
  /\ req \in [Request -> Local]
  /\ anomaly \in [System -> SUBSET Anomaly]
  /\ \A s \in System : system[s].exists => {system[s].name, system[s].ext} \subseteq Name
  /\ \A x \in Schema : schema[x].exists => /\ schema[x].sys \in System
                                     /\ schema[x].type \in Type
                                     /\ schema[x].doc \in Document
  /\ \A s \in System, e \in Entity : overlay[s][e].exists => overlay[s][e].val \in Value

Init ==
  /\ system = [s \in System |-> NoSystem]
  /\ schema = [x \in Schema |-> NoSchema]
  /\ entity = {}
  /\ overlay = [s \in System |-> [e \in Entity |-> NoOverlay]]
  /\ req = [r \in Request |-> Idle]
  /\ anomaly = [s \in System |-> {}]

Systems == {s \in System : system[s].exists}
Schemas == {x \in Schema : schema[x].exists}

\* The schemas that govern overlays of entity e by system s: the unique key
\* leaves at most one.
Governing(s, e) == {x \in Schemas : schema[x].sys = s /\ schema[x].type = TypeOf[e]}

\* The overlays that schema x governs, as HasOverlays joins them.
Governed(x) == {e \in Entity : overlay[schema[x].sys][e].exists /\ TypeOf[e] = schema[x].type}

\* The name is free for system s under the unique key of external_id.
FreeName(s, n) == \A t \in Systems \ {s} : system[t].ext # n

(***************************************************************************)
(* Requests of one system, and what one of them does to the others.        *)
(***************************************************************************)
Held(f) == {req[r][f] : r \in Request}

\* Request r starts; `with` is its local state.
Start(r, with) ==
  /\ req[r] = Idle
  /\ req' = [req EXCEPT ![r] = with]
  /\ UNCHANGED <<system, schema, entity, overlay, anomaly>>

\* System s is written: by request r, which ends, or by None.
Touched(s, r) ==
  [q \in Request |-> IF q = r THEN Idle
                     ELSE IF req[q].sys = s THEN [req[q] EXCEPT !.fresh = FALSE]
                     ELSE req[q]]

Writes(r, op) == req[r].pc = "write" /\ req[r].op = op

\* Request r commits: req and anomaly, beside the row it writes.
CommitWrite(r) ==
  /\ req' = Touched(req[r].sys, r)
  /\ anomaly' = IF req[r].fresh THEN anomaly
                ELSE [anomaly EXCEPT ![req[r].sys] = @ \cup {"overtaken"}]

\* Request r ends without effect: a read found nothing, a validation or a
\* constraint refused it, the database failed, or the process stopped.
Fail(r) ==
  /\ req[r] # Idle
  /\ req' = [req EXCEPT ![r] = Idle]
  /\ UNCHANGED <<system, schema, entity, overlay, anomaly>>
-----------------------------------------------------------------------------
(***************************************************************************)
(* Systems: POST and PATCH /systems, and the generic entity API, which     *)
(* writes entities of type System too and keeps name and external_id       *)
(* apart.                                                                  *)
(***************************************************************************)
CreateSystem(s, n) ==
  /\ s \notin Systems \cup Held("sys")
  /\ FreeName(s, n)
  /\ system' = [system EXCEPT ![s] = [exists |-> TRUE, name |-> n, ext |-> n, active |-> TRUE]]
  /\ anomaly' = [anomaly EXCEPT ![s] = {}]
  /\ UNCHANGED <<schema, entity, overlay, req>>

CreateSystemEntity(s, n, x, a) ==
  /\ s \notin Systems \cup Held("sys")
  /\ FreeName(s, x)
  /\ system' = [system EXCEPT ![s] = [exists |-> TRUE, name |-> n, ext |-> x, active |-> a]]
  /\ anomaly' = [anomaly EXCEPT ![s] = IF n = x THEN {} ELSE {"renamed"}]
  /\ UNCHANGED <<schema, entity, overlay, req>>

\* The properties are replaced; external_id stays.
UpdateSystemEntity(s, n, a) ==
  /\ s \in Systems
  /\ system' = [system EXCEPT ![s].name = n, ![s].active = a]
  /\ req' = Touched(s, None)
  /\ anomaly' = [anomaly EXCEPT ![s] = IF n = system[s].name THEN @ ELSE @ \cup {"renamed"}]
  /\ UNCHANGED <<schema, entity, overlay>>

\* Mutant: the overlays of the system do not count as use.
DeleteSystemWithOverlays(s) ==
  /\ s \in Systems
  /\ \A x \in Schemas : schema[x].sys # s
  /\ system' = [system EXCEPT ![s] = NoSystem]
  /\ req' = Touched(s, None)
  /\ UNCHANGED <<schema, entity, overlay, anomaly>>

\* Foreign keys without ON DELETE refuse the deletion of a system in use.
DeleteSystem(s) ==
  /\ s \in Systems
  /\ \A x \in Schemas : schema[x].sys # s
  /\ \A e \in Entity : ~overlay[s][e].exists
  /\ system' = [system EXCEPT ![s] = NoSystem]
  /\ req' = Touched(s, None)
  /\ UNCHANGED <<schema, entity, overlay, anomaly>>

\* Mutant: a field that is not set has the zero value of the request.
ReadSystemNoName(r, s, fields, n, a) ==
  /\ s \in Systems
  /\ Start(r, [Idle EXCEPT !.pc = "write", !.op = "patch", !.sys = s, !.sets = fields,
                 !.name = IF "name" \in fields THEN n ELSE None,
                 !.active = IF "active" \in fields THEN a ELSE system[s].active])

\* Mutant: a PATCH that does not set active makes the system active.
ReadSystemActive(r, s, fields, n, a) ==
  /\ s \in Systems
  /\ Start(r, [Idle EXCEPT !.pc = "write", !.op = "patch", !.sys = s, !.sets = fields,
                 !.name = IF "name" \in fields THEN n ELSE system[s].name,
                 !.active = IF "active" \in fields THEN a ELSE TRUE])

\* Patch reads the row without a lock and applies its fields to what it read.
ReadSystem(r, s, fields, n, a) ==
  /\ s \in Systems
  /\ Start(r, [Idle EXCEPT !.pc = "write", !.op = "patch", !.sys = s, !.sets = fields,
                 !.name = IF "name" \in fields THEN n ELSE system[s].name,
                 !.active = IF "active" \in fields THEN a ELSE system[s].active])

\* Its UPDATE writes every field, name into external_id too.
PatchSystem(r) ==
  LET s == req[r].sys IN
  /\ Writes(r, "patch")
  /\ s \in Systems
  /\ FreeName(s, req[r].name)
  /\ system' = [system EXCEPT ![s] = [exists |-> TRUE, name |-> req[r].name,
                                      ext |-> req[r].name, active |-> req[r].active]]
  /\ req' = Touched(s, r)
  /\ anomaly' = [anomaly EXCEPT ![s] = IF req[r].name = system[s].name THEN @
                                       ELSE @ \cup {"renamed"}]
  /\ UNCHANGED <<schema, entity, overlay>>
-----------------------------------------------------------------------------
(***************************************************************************)
(* Overlay schemas.  Create and Update validate the declared properties    *)
(* against the name of the system, which need not be active.               *)
(***************************************************************************)
\* Mutant: the prefix of declared properties is not checked.
ResolveSystemNameAnyKey(r, op, s, d) ==
  /\ op \in SchemaOp
  /\ s \in Systems
  /\ Start(r, [Idle EXCEPT !.pc = "write", !.op = op, !.sys = s, !.doc = d])

ResolveSystemName(r, op, s, d) ==
  /\ op \in SchemaOp
  /\ s \in Systems
  /\ KeysIn[d] \subseteq Prefixed[system[s].name]
  /\ Start(r, [Idle EXCEPT !.pc = "write", !.op = op, !.sys = s, !.doc = d])

CreateSchema(r, x, t) ==
  /\ Writes(r, "create_schema")
  /\ x \notin Schemas \cup Held("id")
  /\ req[r].sys \in Systems
  /\ \A y \in Schemas : ~(schema[y].sys = req[r].sys /\ schema[y].type = t)
  /\ schema' = [schema EXCEPT ![x] = [exists |-> TRUE, sys |-> req[r].sys, type |-> t, doc |-> req[r].doc]]
  /\ CommitWrite(r)
  /\ UNCHANGED <<system, entity, overlay>>

\* Existing overlays are not validated again.
UpdateSchema(r, x) ==
  LET s == req[r].sys IN
  /\ Writes(r, "update_schema")
  /\ x \in Schemas /\ schema[x].sys = s
  /\ schema' = [schema EXCEPT ![x].doc = req[r].doc]
  /\ overlay' = [overlay EXCEPT ![s] = [e \in Entity |->
                   IF e \in Governed(x) THEN [@[e] EXCEPT !.checked = FALSE] ELSE @[e]]]
  /\ CommitWrite(r)
  /\ UNCHANGED <<system, entity>>

\* Mutant: nobody asks.
HasOverlaysUnasked(r, x, blind) ==
  /\ x \in Schemas
  /\ Start(r, [Idle EXCEPT !.pc = "write", !.op = "delete_schema",
                 !.sys = schema[x].sys, !.id = x])

\* Delete asks the pool, not its transaction, whether overlays exist.  A
\* connection on which app.current_system_id was never set shows none.
HasOverlays(r, x, blind) ==
  LET s == schema[x].sys IN
  /\ x \in Schemas
  /\ blind \/ Governed(x) = {}
  /\ req[r] = Idle
  /\ req' = [req EXCEPT ![r] = [Idle EXCEPT !.pc = "write", !.op = "delete_schema",
                                  !.sys = s, !.id = x]]
  /\ anomaly' = IF Governed(x) = {} THEN anomaly
                ELSE [anomaly EXCEPT ![s] = @ \cup {"blind"}]
  /\ UNCHANGED <<system, schema, entity, overlay>>

DeleteSchema(r) ==
  /\ Writes(r, "delete_schema")
  /\ req[r].id \in Schemas /\ schema[req[r].id].sys = req[r].sys
  /\ schema' = [schema EXCEPT ![req[r].id] = NoSchema]
  /\ CommitWrite(r)
  /\ UNCHANGED <<system, entity, overlay>>
-----------------------------------------------------------------------------
(***************************************************************************)
(* Property overlays.                                                      *)
(***************************************************************************)
\* Mutant: the system need not be active.
ResolveCallerSystemInactive(r, op, s) ==
  /\ s \in Systems
  /\ op \in OverlayOp \cup {"delete_overlay"}
  /\ Start(r, [Idle EXCEPT !.pc = IF op \in OverlayOp THEN "entity" ELSE "write",
                 !.op = op, !.sys = s, !.name = system[s].name])

ResolveCallerSystem(r, op, s) ==
  /\ s \in Systems /\ system[s].active
  /\ op \in OverlayOp \cup {"delete_overlay"}
  /\ Start(r, [Idle EXCEPT !.pc = IF op \in OverlayOp THEN "entity" ELSE "write",
                 !.op = op, !.sys = s, !.name = system[s].name])

ResolveEntity(r, e) ==
  /\ req[r].pc = "entity"
  /\ e \in entity
  /\ req' = [req EXCEPT ![r].pc = "schema", ![r].ent = e]
  /\ UNCHANGED <<system, schema, entity, overlay, anomaly>>

\* Mutant: the keys of the properties need no prefix.
ResolveOverlaySchemaAnyKey(r, v) ==
  /\ req[r].pc = "schema"
  /\ \E x \in Governing(req[r].sys, req[r].ent) : v \in Valid[schema[x].doc]
  /\ req' = [req EXCEPT ![r].pc = "write", ![r].val = v]
  /\ UNCHANGED <<system, schema, entity, overlay, anomaly>>

\* The schema is read and the properties are validated, prefix first.
ResolveOverlaySchema(r, v) ==
  /\ req[r].pc = "schema"
  /\ KeysIn[v] \subseteq Prefixed[req[r].name]
  /\ \E x \in Governing(req[r].sys, req[r].ent) : v \in Valid[schema[x].doc]
  /\ req' = [req EXCEPT ![r].pc = "write", ![r].val = v]
  /\ UNCHANGED <<system, schema, entity, overlay, anomaly>>

CreateOverlay(r) ==
  /\ Writes(r, "create_overlay")
  /\ req[r].ent \in entity
  /\ req[r].sys \in Systems
  /\ ~overlay[req[r].sys][req[r].ent].exists
  /\ overlay' = [overlay EXCEPT ![req[r].sys][req[r].ent] =
                   [exists |-> TRUE, val |-> req[r].val, checked |-> TRUE]]
  /\ CommitWrite(r)
  /\ UNCHANGED <<system, schema, entity>>

UpdateOverlay(r) ==
  /\ Writes(r, "update_overlay")
  /\ overlay[req[r].sys][req[r].ent].exists
  /\ overlay' = [overlay EXCEPT ![req[r].sys][req[r].ent] =
                   [exists |-> TRUE, val |-> req[r].val, checked |-> TRUE]]
  /\ CommitWrite(r)
  /\ UNCHANGED <<system, schema, entity>>

DeleteOverlay(r, e) ==
  /\ Writes(r, "delete_overlay")
  /\ overlay[req[r].sys][e].exists
  /\ overlay' = [overlay EXCEPT ![req[r].sys][e] = NoOverlay]
  /\ CommitWrite(r)
  /\ UNCHANGED <<system, schema, entity>>

CreateEntity(e) ==
  /\ e \notin entity \cup Held("ent")
  /\ entity' = entity \cup {e}
  /\ UNCHANGED <<system, schema, overlay, req, anomaly>>

\* Overlays go with their entity: ON DELETE CASCADE.
DeleteEntity(e) ==
  /\ e \in entity
  /\ entity' = entity \ {e}
  /\ overlay' = [s \in System |-> [overlay[s] EXCEPT ![e] = NoOverlay]]
  /\ UNCHANGED <<system, schema, req, anomaly>>
-----------------------------------------------------------------------------
SystemStep ==
  \E s \in System :
    \/ \E n \in Name : CreateSystem(s, n)
    \/ \E n, x \in Name, a \in BOOLEAN : CreateSystemEntity(s, n, x, a)
    \/ \E n \in Name, a \in BOOLEAN : UpdateSystemEntity(s, n, a)
    \/ DeleteSystem(s)

PatchStep(r) ==
  \/ \E s \in System, fields \in SUBSET {"name", "active"}, n \in Name, a \in BOOLEAN :
       ReadSystem(r, s, fields, n, a)
  \/ PatchSystem(r)

SchemaStep(r) ==
  \/ \E op \in SchemaOp, s \in System, d \in Document : ResolveSystemName(r, op, s, d)
  \/ \E x \in Schema, t \in Type : CreateSchema(r, x, t)
  \/ \E x \in Schema : UpdateSchema(r, x)
  \/ \E x \in Schema, blind \in BOOLEAN : HasOverlays(r, x, blind)
  \/ DeleteSchema(r)

OverlayStep(r) ==
  \/ \E op \in Op, s \in System : ResolveCallerSystem(r, op, s)
  \/ \E e \in Entity : ResolveEntity(r, e)
  \/ \E v \in Value : ResolveOverlaySchema(r, v)
  \/ CreateOverlay(r)
  \/ UpdateOverlay(r)
  \/ \E e \in Entity : DeleteOverlay(r, e)

Next ==
  \/ SystemStep
  \/ \E r \in Request : PatchStep(r) \/ SchemaStep(r) \/ OverlayStep(r) \/ Fail(r)
  \/ \E e \in Entity : CreateEntity(e) \/ DeleteEntity(e)

Spec == Init /\ [][Next]_vars
-----------------------------------------------------------------------------
(***************************************************************************)
(* Properties.                                                             *)
(***************************************************************************)

\* Foreign keys: what schemas and overlays refer to exists.
References ==
  /\ \A x \in Schemas : schema[x].sys \in Systems
  /\ \A e \in Entity, s \in System : overlay[s][e].exists => e \in entity /\ s \in Systems

\* Unique keys: external_id of systems, system and type of schemas.
UniqueKeys ==
  /\ \A s, t \in Systems : system[s].ext = system[t].ext => s = t
  /\ \A x, y \in Schemas :
       schema[x].sys = schema[y].sys /\ schema[x].type = schema[y].type => x = y

\* Every overlay is governed by a schema of its system, which accepts it
\* unless the schema was updated since: FR-OVL-003, and "fails if property
\* overlays validated by this schema still exist" (overlayschema.Delete).  It
\* is lost only by a request that another one of its system overtook between
\* read and write, or when HasOverlays was asked on a fresh connection.
SchemaKept ==
  \A e \in Entity, s \in System :
    overlay[s][e].exists /\ anomaly[s] \cap {"overtaken", "blind"} = {} =>
      \E x \in Governing(s, e) : overlay[s][e].checked => overlay[s][e].val \in Valid[schema[x].doc]

\* Overlays of two systems on one entity share no key, which is what lets the
\* retrieval API merge without conflicts.  It takes that no name is the
\* beginning of another up to a dot, that name and external_id agree, and
\* that a system keeps its name.
Nested(n, m) == n # m /\ Prefixed[n] \cap Prefixed[m] # {}
NamespacesDisjoint ==
  \A e \in Entity, s, t \in System :
    /\ s # t
    /\ overlay[s][e].exists /\ overlay[t][e].exists
    /\ (anomaly[s] \cup anomaly[t]) \cap {"overtaken", "renamed"} = {}
    => \/ KeysIn[overlay[s][e].val] \cap KeysIn[overlay[t][e].val] = {}
       \/ Nested(system[s].name, system[t].name)

\* A system that was deactivated (FR-SYS-003) becomes active again only by a
\* request that says so, or by a PATCH that had read it before: Patch writes
\* back the fields it does not set.
DeactivationHolds ==
  [][\A s \in System :
       /\ system[s].exists /\ system'[s].exists
       /\ ~system[s].active /\ system'[s].active
       => \/ \E r \in Request :
               /\ req[r].op = "patch"
               /\ req[r].sys = s
               /\ req'[r] = Idle
               /\ \/ "active" \in req[r].sets
                  \/ ~req[r].fresh
          \/ \E n \in Name : UpdateSystemEntity(s, n, TRUE)]_vars

\* Only a system's own requests write its overlays (FR-OVL-008), and once it
\* is not active only those that it had let in before, except that overlays
\* go with their entity.
OverlaysWrittenByOwner ==
  [][\A e \in Entity, s \in System :
       /\ overlay'[s][e].exists # overlay[s][e].exists \/ overlay'[s][e].val # overlay[s][e].val
       /\ e \in entity'
       => \E r \in Request :
            /\ req[r].sys = s
            /\ req'[r] = Idle
            /\ req[r].op \in OverlayOp \cup {"delete_overlay"}
            /\ \/ system[s].active
               \/ ~req[r].fresh]_vars
-----------------------------------------------------------------------------
(***************************************************************************)
(* The inductive invariant: what a request has read still holds as long as *)
(* nobody else wrote anything of its system.                               *)
(***************************************************************************)
ReadHolds(r) ==
  LET q == req[r] IN
  /\ q.pc # "idle" => q.sys \in Systems
  /\ q.op \in OverlayOp \cup {"delete_overlay"} =>
       system[q.sys].active /\ q.name = system[q.sys].name
  /\ q.op = "patch" => "active" \in q.sets \/ q.active = system[q.sys].active
  /\ q.op \in SchemaOp => KeysIn[q.doc] \subseteq Prefixed[system[q.sys].name]
  /\ q.op \in OverlayOp /\ q.pc = "write" =>
       /\ KeysIn[q.val] \subseteq Prefixed[q.name]
       /\ \E x \in Governing(q.sys, q.ent) : q.val \in Valid[schema[x].doc]
  /\ q.op = "delete_schema" =>
       /\ q.id \in Schemas /\ schema[q.id].sys = q.sys
       /\ "blind" \in anomaly[q.sys] \/ Governed(q.id) = {}

Shape(r) ==
  LET q == req[r] IN
  /\ q.pc = "idle" => q = Idle
  /\ q.pc # "idle" => q.sys \in System /\ q.op \in Op
  /\ q.pc \in {"entity", "schema"} => q.op \in OverlayOp /\ q.name \in Name
  /\ q.op = "patch" => q.name \in Name
  /\ q.op = "delete_schema" => q.id \in Schema
  /\ q.op \in SchemaOp => q.doc \in Document
  /\ q.op \in OverlayOp /\ q.pc = "write" => q.val \in Value
  /\ q.op \in OverlayOp /\ q.pc # "entity" => q.ent \in Entity

NameIsExternalId ==
  \A s \in Systems : "renamed" \notin anomaly[s] => system[s].name = system[s].ext

KeysPrefixed ==
  \A e \in Entity, s \in System :
    overlay[s][e].exists /\ anomaly[s] \cap {"overtaken", "renamed"} = {} =>
      KeysIn[overlay[s][e].val] \subseteq Prefixed[system[s].name]

IInv ==
  /\ TypeOK
  /\ References
  /\ UniqueKeys
  /\ SchemaKept
  /\ NameIsExternalId
  /\ KeysPrefixed
  /\ \A r \in Request : Shape(r) /\ (req[r].fresh => ReadHolds(r))
=============================================================================
