-------------------------- MODULE ScimProvisioning --------------------------
(***************************************************************************)
(* Users and groups as identity providers write them through SCIM          *)
(* (src/internal/scim/users, scim/groups), next to the generic entity and  *)
(* relation API and to the bootstrap of administrators (src/internal/auth/ *)
(* bootstrap.go), which write the same rows.                               *)
(*                                                                         *)
(* A SCIM request is one transaction at READ COMMITTED: it reads the row   *)
(* and, for a group, its members, computes what to store and replaces what *)
(* is stored by that.  The UPDATE of the entity locks its row until the    *)
(* commit; the read before does not.                                       *)
(*                                                                         *)
(* Of the properties of a user only `active` is kept.  An element of User  *)
(* or Group that neither exists nor is held stands for the next new one.   *)
(* Every entity has at most one link: nothing in the code adds a second.   *)
(***************************************************************************)
EXTENDS Integers, FiniteSets

CONSTANTS
  User,      \* ids of entities of type User
  Group,     \* ids of entities of type Group
  Admin,     \* the seeded group oad:admin
  Provider,  \* identity providers
  Subject,   \* what providers call their users and groups
  BootKey,   \* the provider and subject of the bootstrap_admins entry
  Request,   \* concurrent SCIM requests
  Process,   \* server processes that start
  None       \* no such thing

Key == Provider \X Subject

ASSUME ScimAssumption ==
  /\ User \cap Group = {}
  /\ Admin \in Group
  /\ BootKey \in Key
  /\ None \notin User \cup Group \cup Provider \cup Key

VARIABLES
  entity,      \* entity[x]: the row of entity, with its external identity
  active,      \* the users whose property active is true
  member,      \* <<m, g>>: the relation m member_of g, without a system
  req,         \* req[r]: the local state of SCIM request r
  boot,        \* boot[w]: where Apply is in process w
  dueMembers,  \* dueMembers[g]: the members that the acknowledged changes of
               \* group g add up to (history)
  dueActive,   \* the users whose last acknowledged value of active is true
  raced,       \* users and groups that a PATCH wrote after others did (history)
  foreign      \* members that the relation API added (history)

history == <<dueMembers, dueActive, raced, foreign>>
vars == <<entity, active, member, req, boot, history>>

Principal == User \cup Group
Kind(x) == IF x \in User THEN User ELSE Group

(***************************************************************************)
(* Rows.  external_id is "scim:provider:subject" or "bootstrap:provider:   *)
(* subject"; the generic API may write either, and its rows have no link.  *)
(***************************************************************************)
ExternalId == {"scim", "bootstrap"} \X Key
EntityRow == [exists : BOOLEAN, ext : ExternalId \cup {None}, link : Key \cup {None}]
NoEntity == [exists |-> FALSE, ext |-> None, link |-> None]

(***************************************************************************)
(* What a request does to the members of a group: it keeps what is there   *)
(* without `drop`, or nothing, and adds `add`.  Every list of PATCH        *)
(* operations comes to this (module ScimPatch); PUT keeps nothing.         *)
(***************************************************************************)
Change == [keep : BOOLEAN, drop : SUBSET Principal, add : SUBSET Principal]
NoChange == [keep |-> TRUE, drop |-> {}, add |-> {}]
Effect(c, S) == (IF c.keep THEN S \ c.drop ELSE {}) \cup c.add

(***************************************************************************)
(* A request: whose it is, which entity it writes, the members or the      *)
(* value of active it will store.  sets says whether a PATCH of a user     *)
(* contains active.  fresh is history: nobody else wrote the entity or its *)
(* members since it was read.                                              *)
(***************************************************************************)
Local == [op : {"idle", "create_group", "write_group", "write_user"},
          prov : Provider \cup {None}, key : Key \cup {None}, id : Principal \cup {None},
          change : Change, members : SUBSET Principal,
          sets : BOOLEAN, active : BOOLEAN, fresh : BOOLEAN]

Idle == [op |-> "idle", prov |-> None, key |-> None, id |-> None, change |-> NoChange,
         members |-> {}, sets |-> FALSE, active |-> FALSE, fresh |-> TRUE]

Boot == [pc : {"start", "create", "role", "relate", "done", "failed"},
         id : Principal \cup {None}, fresh : BOOLEAN]
NotStarted == [pc |-> "start", id |-> None, fresh |-> TRUE]

TypeOK ==
  /\ entity \in [Principal -> EntityRow]
  /\ active \in SUBSET User
  /\ member \in SUBSET (Principal \X Group)
  /\ req \in [Request -> Local]
  /\ boot \in [Process -> Boot]
  /\ dueMembers \in [Group -> SUBSET Principal]
  /\ dueActive \in SUBSET User
  /\ raced \in SUBSET Principal
  /\ foreign \in SUBSET (Principal \X Group)

\* The migration seeds oad:admin; no other row is given its external id.
Init ==
  /\ entity = [x \in Principal |-> IF x = Admin THEN [NoEntity EXCEPT !.exists = TRUE] ELSE NoEntity]
  /\ active = {}
  /\ member = {}
  /\ req = [r \in Request |-> Idle]
  /\ boot = [w \in Process |-> NotStarted]
  /\ dueMembers = [g \in Group |-> {}]
  /\ dueActive = {}
  /\ raced = {}
  /\ foreign = {}

Entities == {x \in Principal : entity[x].exists}
Members(g) == {m \in Principal : <<m, g>> \in member}
GroupsOf(x) == {g \in Group : <<x, g>> \in member}

\* The rows of provider p: GetByEntityID and ValidateMembers join the link.
Linked(p) == {x \in Entities : entity[x].link # None /\ entity[x].link[1] = p}

\* Unique keys: (type, external id) and (provider, subject).
FreeExternalId(x, ext) == \A y \in Entities : Kind(y) = Kind(x) => entity[y].ext # ext
FreeLink(k) == \A y \in Entities : entity[y].link # k

Held == {req[r].id : r \in Request} \cup {boot[w].id : w \in Process}
          \cup UNION {req[r].members : r \in Request}
New(x) == x \notin Entities \cup Held /\ x # Admin

\* The rows on which Apply depends.
BootRows == {Admin} \cup {x \in Principal : entity[x].link = BootKey}

(***************************************************************************)
(* What a commit that writes the rows and members of X does to those who   *)
(* have read: request r, when it is one that commits, ends.                *)
(***************************************************************************)
Committed(r, X) ==
  req' = [q \in Request |-> IF q = r THEN Idle
                            ELSE IF req[q].id \in X THEN [req[q] EXCEPT !.fresh = FALSE]
                            ELSE req[q]]

Touched(w, X) ==
  IF boot[w].pc \in {"create", "role", "relate"} /\ X \cap (BootRows \cup BootRows') # {}
  THEN [boot[w] EXCEPT !.fresh = FALSE]
  ELSE boot[w]

BootTouched(X) == boot' = [w \in Process |-> Touched(w, X)]

\* Request r ends without effect: a read found nothing, a validation or a
\* constraint refused it, the database failed, or the process stopped.
Fail(r) ==
  /\ req[r] # Idle
  /\ req' = [req EXCEPT ![r] = Idle]
  /\ UNCHANGED <<entity, active, member, boot, history>>
-----------------------------------------------------------------------------
(***************************************************************************)
(* Rows that appear and disappear.                                         *)
(***************************************************************************)
InsertRow(x, ext, link, a) ==
  /\ New(x)
  /\ FreeExternalId(x, ext)
  /\ link # None => FreeLink(link)
  /\ entity' = [entity EXCEPT ![x] = [exists |-> TRUE, ext |-> ext, link |-> link]]
  /\ active' = IF a THEN active \cup {x} ELSE active
  /\ dueActive' = IF a THEN dueActive \cup {x} ELSE dueActive
  /\ UNCHANGED <<raced, foreign>>

Insert(x, ext, link, a) ==
  /\ InsertRow(x, ext, link, a)
  /\ Committed(None, {x})
  /\ BootTouched({x})
  /\ UNCHANGED <<member, dueMembers>>

\* Relations go with their subject or target: ON DELETE CASCADE.
Remove(x) ==
  /\ entity' = [entity EXCEPT ![x] = NoEntity]
  /\ active' = active \ {x}
  /\ dueActive' = dueActive \ {x}
  /\ member' = {l \in member : l[1] # x /\ l[2] # x}
  /\ dueMembers' = [g \in Group |-> IF g = x THEN {} ELSE dueMembers[g] \ {x}]
  /\ raced' = raced \ {x}
  /\ foreign' = {l \in foreign : l[1] # x /\ l[2] # x}
  /\ Committed(None, {x} \cup GroupsOf(x))
  /\ BootTouched({x} \cup GroupsOf(x))

\* POST /Users.
CreateUser(u, k, a) == Insert(u, <<"scim", k>>, k, a)

\* POST /Groups: the members are validated, then the rows inserted.
ValidateNewMembers(r, k, M) ==
  /\ req[r] = Idle
  /\ M \subseteq Linked(k[1])
  /\ req' = [req EXCEPT ![r] = [Idle EXCEPT !.op = "create_group", !.prov = k[1], !.key = k,
                                            !.members = M]]
  /\ UNCHANGED <<entity, active, member, boot, history>>

CreateGroup(r, g) ==
  /\ req[r].op = "create_group"
  /\ req[r].members \subseteq Entities
  /\ InsertRow(g, <<"scim", req[r].key>>, req[r].key, FALSE)
  /\ member' = member \cup (req[r].members \X {g})
  /\ dueMembers' = [dueMembers EXCEPT ![g] = req[r].members]
  /\ Committed(r, {g})
  /\ BootTouched({g})

\* Mutant: the link goes, the row stays.
DeleteLinkOnly(x, p) ==
  /\ x \in Linked(p)
  /\ entity' = [entity EXCEPT ![x].link = None]
  /\ Committed(None, {x})
  /\ BootTouched({x})
  /\ UNCHANGED <<active, member, history>>

\* DELETE /Users and /Groups: the link goes, and the row with the last link.
\* A group without a link, oad:admin among them, is not found.
Delete(x, p) ==
  /\ x \in Linked(p)
  /\ Remove(x)

\* The generic entity API writes users and groups too; it does not look at
\* is_builtin.
CreateEntity(x, ext, a) == (x \in Group => ~a) /\ Insert(x, ext, None, a)
DeleteEntity(x) == x \in Entities /\ Remove(x)

UpdateEntity(u, a) ==
  /\ u \in Entities \cap User
  /\ active' = IF a THEN active \cup {u} ELSE active \ {u}
  /\ dueActive' = IF a THEN dueActive \cup {u} ELSE dueActive \ {u}
  /\ raced' = raced \ {u}
  /\ Committed(None, {u})
  /\ UNCHANGED <<entity, member, boot, dueMembers, foreign>>
-----------------------------------------------------------------------------
(***************************************************************************)
(* PUT and PATCH of users.                                                 *)
(***************************************************************************)

\* Mutant: a PATCH without active stores the default.
ReadUserDefault(r, p, u, sets, a) ==
  /\ req[r] = Idle
  /\ u \in Linked(p) \cap User
  /\ req' = [req EXCEPT ![r] = [Idle EXCEPT !.op = "write_user", !.prov = p, !.id = u, !.sets = sets,
                                            !.active = IF sets THEN a ELSE TRUE]]
  /\ UNCHANGED <<entity, active, member, boot, history>>

\* sets = FALSE: a PATCH that does not contain active.
ReadUser(r, p, u, sets, a) ==
  /\ req[r] = Idle
  /\ u \in Linked(p) \cap User
  /\ req' = [req EXCEPT ![r] = [Idle EXCEPT !.op = "write_user", !.prov = p, !.id = u, !.sets = sets,
                                            !.active = IF sets THEN a ELSE u \in active]]
  /\ UNCHANGED <<entity, active, member, boot, history>>

WriteUser(r) ==
  LET q == req[r] IN
  /\ q.op = "write_user"
  /\ q.id \in Linked(q.prov)
  /\ active' = IF q.active THEN active \cup {q.id} ELSE active \ {q.id}
  /\ dueActive' = IF ~q.sets THEN dueActive
                  ELSE IF q.active THEN dueActive \cup {q.id} ELSE dueActive \ {q.id}
  /\ raced' = IF q.sets THEN raced \ {q.id}
              ELSE IF q.fresh THEN raced ELSE raced \cup {q.id}
  /\ Committed(r, {q.id})
  /\ UNCHANGED <<entity, member, boot, dueMembers, foreign>>
-----------------------------------------------------------------------------
(***************************************************************************)
(* PUT and PATCH of groups, and the relation API.                          *)
(***************************************************************************)

\* Mutant: only the members that the request names are validated.
ReadGroupNamed(r, p, g, c) ==
  /\ req[r] = Idle
  /\ g \in Linked(p) \cap Group
  /\ req' = [req EXCEPT ![r] = [Idle EXCEPT !.op = "write_group", !.prov = p, !.id = g, !.change = c,
                                            !.members = Effect(c, Members(g))]]
  /\ UNCHANGED <<entity, active, member, boot, history>>

\* The group, its members, ApplyPatch, ValidateMembers.  A link stays as long
\* as its entity, and whether a new member still exists is asked again by its
\* foreign key: the reads make one step.
ReadGroup(r, p, g, c) ==
  /\ req[r] = Idle
  /\ g \in Linked(p) \cap Group
  /\ Effect(c, Members(g)) \subseteq Linked(p)
  /\ req' = [req EXCEPT ![r] = [Idle EXCEPT !.op = "write_group", !.prov = p, !.id = g, !.change = c,
                                            !.members = Effect(c, Members(g))]]
  /\ UNCHANGED <<entity, active, member, boot, history>>

\* Mutant: members that are stored and not wanted are not deleted.
ReplaceGroupAddOnly(r) ==
  LET q == req[r] IN
  /\ q.op = "write_group"
  /\ q.id \in Linked(q.prov)
  /\ q.members \subseteq Entities
  /\ member' = member \cup (q.members \X {q.id})
  /\ dueMembers' = [dueMembers EXCEPT ![q.id] = Effect(q.change, @)]
  /\ raced' = IF ~q.change.keep THEN raced \ {q.id}
              ELSE IF q.fresh THEN raced ELSE raced \cup {q.id}
  /\ Committed(r, {q.id})
  /\ UNCHANGED <<entity, active, boot, dueActive, foreign>>

\* repo.Replace: UPDATE of the row, then reconcileMembers on what is stored by
\* now, in one transaction: a writer of the same group waits, and what the
\* relation API does meanwhile might as well come after.
ReplaceGroup(r) ==
  LET q == req[r] IN
  /\ q.op = "write_group"
  /\ q.id \in Linked(q.prov)
  /\ q.members \subseteq Entities
  /\ member' = {l \in member : l[2] # q.id} \cup (q.members \X {q.id})
  /\ dueMembers' = [dueMembers EXCEPT ![q.id] = Effect(q.change, @)]
  /\ raced' = IF ~q.change.keep THEN raced \ {q.id}
              ELSE IF q.fresh THEN raced ELSE raced \cup {q.id}
  /\ foreign' = {l \in foreign : l[2] # q.id}
  /\ Committed(r, {q.id})
  /\ UNCHANGED <<entity, active, boot, dueActive>>

\* POST /relations: the type User declares member_of, with target Group.
CreateRelation(u, g) ==
  /\ u \in Entities \cap User /\ g \in Entities \cap Group
  /\ <<u, g>> \notin member
  /\ UNCHANGED <<entity, active, dueActive, raced>>
  /\ member' = member \cup {<<u, g>>}
  /\ dueMembers' = [dueMembers EXCEPT ![g] = @ \cup {u}]
  /\ foreign' = foreign \cup {<<u, g>>}
  /\ Committed(None, {g})
  /\ BootTouched({g})

DeleteRelation(m, g) ==
  /\ <<m, g>> \in member
  /\ UNCHANGED <<entity, active, dueActive, raced>>
  /\ member' = member \ {<<m, g>>}
  /\ dueMembers' = [dueMembers EXCEPT ![g] = @ \ {m}]
  /\ foreign' = foreign \ {<<m, g>>}
  /\ Committed(None, {g})
  /\ BootTouched({g})
-----------------------------------------------------------------------------
(***************************************************************************)
(* Bootstrap.Apply for one entry, at the start of a process.  An error     *)
(* stops the process, which may be started again.                          *)
(***************************************************************************)
BootRead(w, pc, x) == boot' = [boot EXCEPT ![w] = [pc |-> pc, id |-> x, fresh |-> TRUE]]

\* Mutant: an entity with the external id is taken for the bootstrap user.
FindEntityIDByExternalId(w) ==
  LET found == {x \in Entities : entity[x].ext = <<"bootstrap", BootKey>>} IN
  /\ boot[w].pc = "start"
  /\ \/ found = {} /\ BootRead(w, "create", None)
     \/ \E x \in found : BootRead(w, "role", x)
  /\ UNCHANGED <<entity, active, member, req, history>>

FindEntityID(w) ==
  LET found == {x \in Entities : entity[x].link = BootKey} IN
  /\ boot[w].pc = "start"
  /\ \/ found = {} /\ BootRead(w, "create", None)
     \/ \E x \in found : BootRead(w, "role", x)
  /\ UNCHANGED <<entity, active, member, req, history>>

BootCommit(w, X, pc, x) ==
  boot' = [v \in Process |-> IF v = w THEN [pc |-> pc, id |-> x, fresh |-> TRUE] ELSE Touched(v, X)]

CreateBootstrapUser(w, u) ==
  /\ boot[w].pc = "create"
  /\ InsertRow(u, <<"bootstrap", BootKey>>, BootKey, TRUE)
  /\ Committed(None, {u})
  /\ BootCommit(w, {u}, "role", u)
  /\ UNCHANGED <<member, dueMembers>>

\* Mutant: the relation is created without asking whether it is there.
HasAdminRelationNever(w) ==
  /\ boot[w].pc = "role"
  /\ boot' = [boot EXCEPT ![w].pc = "relate"]
  /\ UNCHANGED <<entity, active, member, req, history>>

HasAdminRelation(w) ==
  /\ boot[w].pc = "role"
  /\ IF <<boot[w].id, Admin>> \in member THEN BootRead(w, "done", None)
                                        ELSE boot' = [boot EXCEPT ![w].pc = "relate"]
  /\ UNCHANGED <<entity, active, member, req, history>>

CanRelate(w) == boot[w].id \in Entities /\ Admin \in Entities /\ <<boot[w].id, Admin>> \notin member

CreateAdminRelation(w) ==
  /\ boot[w].pc = "relate" /\ CanRelate(w)
  /\ UNCHANGED <<entity, active, dueActive, raced>>
  /\ member' = member \cup {<<boot[w].id, Admin>>}
  /\ dueMembers' = [dueMembers EXCEPT ![Admin] = @ \cup {boot[w].id}]
  /\ foreign' = foreign \cup {<<boot[w].id, Admin>>}
  /\ Committed(None, {Admin})
  /\ BootCommit(w, {Admin}, "done", None)

\* A unique or a foreign key refuses the row, or oad:admin is not there.
Refused(w) ==
  \/ boot[w].pc = "create" /\ ~(FreeLink(BootKey) /\ \A y \in Entities \cap User :
                                   entity[y].ext # <<"bootstrap", BootKey>>)
  \/ boot[w].pc = "relate" /\ ~CanRelate(w)

ApplyFails(w) ==
  /\ Refused(w)
  /\ BootRead(w, "failed", None)
  /\ UNCHANGED <<entity, active, member, req, history>>

\* The process starts, again or after it stopped anywhere in Apply.
Restart(w) ==
  /\ boot[w].pc # "start"
  /\ boot' = [boot EXCEPT ![w] = NotStarted]
  /\ UNCHANGED <<entity, active, member, req, history>>
-----------------------------------------------------------------------------
UserStep(r) ==
  \/ \E p \in Provider, u \in User, sets, a \in BOOLEAN : (~sets => ~a) /\ ReadUser(r, p, u, sets, a)
  \/ WriteUser(r)

\* Changes that differ: what goes anyway is not dropped, nor what is added.
Changes == {c \in Change : c.drop \cap c.add = {} /\ (~c.keep => c.drop = {})}

GroupStep(r) ==
  \/ \E k \in Key, M \in SUBSET Principal : ValidateNewMembers(r, k, M)
  \/ \E g \in Group : CreateGroup(r, g)
  \/ \E p \in Provider, g \in Group, c \in Changes : ReadGroup(r, p, g, c)
  \/ ReplaceGroup(r)

RowStep ==
  \/ \E u \in User, k \in Key, a \in BOOLEAN : CreateUser(u, k, a)
  \/ \E x \in Principal, p \in Provider : Delete(x, p)
  \/ \E x \in Principal, ext \in ExternalId, a \in BOOLEAN : CreateEntity(x, ext, a)
  \/ \E x \in Principal : DeleteEntity(x)
  \/ \E u \in User, a \in BOOLEAN : UpdateEntity(u, a)

RelationStep == \E x \in Principal, g \in Group : CreateRelation(x, g) \/ DeleteRelation(x, g)

BootStep(w) ==
  \/ FindEntityID(w)
  \/ \E u \in User : CreateBootstrapUser(w, u)
  \/ HasAdminRelation(w)
  \/ CreateAdminRelation(w)
  \/ ApplyFails(w)
  \/ Restart(w)

Next ==
  \/ \E r \in Request : UserStep(r) \/ GroupStep(r) \/ Fail(r)
  \/ RowStep
  \/ RelationStep
  \/ \E w \in Process : BootStep(w)

Spec == Init /\ [][Next]_vars
-----------------------------------------------------------------------------
(***************************************************************************)
(* Properties.                                                             *)
(***************************************************************************)

\* The members of a group are what the acknowledged changes add up to, as
\* long as no PATCH stored a list it had computed before another write:
\* the transaction of PATCH reads without a lock (groups/service.go Patch).
MembersAccounted == \A g \in Group \ raced : Members(g) = dueMembers[g]

\* So is the value of active: a PATCH of something else stores the value it
\* has read (users/service.go Patch).
ActiveAccounted == \A u \in User \ raced : u \in active <=> u \in dueActive

\* A provider's group has no other provider's users or groups, those aside
\* that came through the relation API (groups/repository.go ValidateMembers
\* and Delete, whose link and row go together).
MembersOfProvider ==
  \A g \in Group \cap Entities :
    entity[g].link # None =>
      \A m \in Members(g) : <<m, g>> \in foreign \/ m \in Linked(entity[g].link[1])

\* When Apply ends well, the entity that the login of the bootstrap
\* administrator resolves to is a member of oad:admin (bootstrap.go
\* applyOne), whoever else provisions or relates it meanwhile.
BootstrapGrantsAdmin ==
  [][\A w \in Process :
       boot[w].pc # "done" /\ boot'[w].pc = "done" =>
         \E x \in Entities' : entity'[x].link = BootKey /\ <<x, Admin>> \in member']_vars

\* "Safe to call repeatedly" (bootstrap.go Apply): it fails only when its
\* rows were written since it read them, when oad:admin was deleted, or when
\* an entity without a link has the external id of the bootstrap user.
BootstrapFailsOnlyByRace ==
  [][\A w \in Process :
       boot[w].pc # "failed" /\ boot'[w].pc = "failed" =>
         \/ ~boot[w].fresh
         \/ Admin \notin Entities
         \/ \E u \in Entities : entity[u].link = None /\ entity[u].ext = <<"bootstrap", BootKey>>]_vars

\* What requests hold, as long as nobody wrote since they read, or whatever is
\* written.
HeldChanges ==
  \A r \in Request :
    LET q == req[r] IN
    /\ q.op = "write_group" /\ (q.fresh \/ ~q.change.keep) =>
         q.members = Effect(q.change, Members(q.id))
    /\ q.op = "write_user" /\ q.fresh /\ ~q.sets => (q.active <=> q.id \in active)

\* Members that requests hold are of the provider, or gone; what a request
\* writes is a group, or a user.
HeldMembers ==
  \A r \in Request :
    /\ req[r].op \in {"create_group", "write_group"} =>
         req[r].members \cap Entities \subseteq Linked(req[r].prov)
    /\ req[r].op = "create_group" => req[r].key \in Key /\ req[r].key[1] = req[r].prov
    /\ req[r].op = "write_group" => req[r].id \in Group
    /\ req[r].op = "write_user" => req[r].id \in User

\* What a process holds is the linked entity, or gone; as long as nobody wrote
\* since it read, it is there and not yet an administrator.
HeldUser ==
  \A w \in Process :
    LET b == boot[w] IN
    /\ b.pc \in {"role", "relate"} /\ b.id \in Entities => entity[b.id].link = BootKey
    /\ b.fresh => /\ b.pc = "create" => FreeLink(BootKey)
                  /\ b.pc \in {"role", "relate"} => b.id \in Entities
                  /\ b.pc = "relate" => <<b.id, Admin>> \notin member

\* Only entities are active or related; a link is that of the external id,
\* and oad:admin has none.
RowsOfEntities ==
  /\ active \cup dueActive \subseteq Entities
  /\ \A g \in Group : Members(g) \subseteq Entities /\ (g \in Entities \/ Members(g) = {})
  /\ \A x \in Principal :
       /\ ~entity[x].exists => entity[x] = NoEntity
       /\ entity[x].link # None => entity[x].ext[2] = entity[x].link
  /\ entity[Admin].link = None

\* Inductive.
IInv == TypeOK /\ RowsOfEntities /\ MembersAccounted /\ ActiveAccounted /\ MembersOfProvider
          /\ HeldChanges /\ HeldMembers /\ HeldUser
=============================================================================
