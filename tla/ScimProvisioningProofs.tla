------------------------ MODULE ScimProvisioningProofs ------------------------
(***************************************************************************)
(* Theorems about ScimProvisioning, for any users, groups, providers,      *)
(* requests and processes.                                                 *)
(*                                                                         *)
(* The argument: each step that commits names the rows X that it writes,   *)
(* leaves the others as they are (Outside) and takes the freshness of the  *)
(* requests and processes that have read one of X.  What is held and still *)
(* fresh is therefore about rows the step did not write.                   *)
(***************************************************************************)
EXTENDS ScimProvisioning, TLAPS

\* The parts of the invariant that concern one request, and one process.
RequestHolds(r) ==
  LET q == req[r] IN
  /\ q.op = "write_group" /\ (q.fresh \/ ~q.change.keep) =>
       q.members = Effect(q.change, Members(q.id))
  /\ q.op = "write_user" /\ q.fresh /\ ~q.sets => (q.active <=> q.id \in active)
  /\ q.op \in {"create_group", "write_group"} => q.members \cap Entities \subseteq Linked(q.prov)
  /\ q.op = "create_group" => q.key \in Key /\ q.key[1] = q.prov
  /\ q.op = "write_group" => q.id \in Group
  /\ q.op = "write_user" => q.id \in User

ProcessHolds(w) ==
  LET b == boot[w] IN
  /\ b.pc \in {"role", "relate"} /\ b.id \in Entities => entity[b.id].link = BootKey
  /\ b.fresh => /\ b.pc = "create" => FreeLink(BootKey)
                /\ b.pc \in {"role", "relate"} => b.id \in Entities
                /\ b.pc = "relate" => <<b.id, Admin>> \notin member

\* The rows, and the history that accounts for them.
RowsHold ==
  TypeOK /\ RowsOfEntities /\ MembersAccounted /\ ActiveAccounted /\ MembersOfProvider

\* The step writes at most the rows and members of X.
Outside(X) ==
  \A x \in Principal \ X :
    entity'[x] = entity[x] /\ (x \in active' <=> x \in active) /\ Members(x)' = Members(x)

\* A held id is given to no other entity.
HeldKept ==
  \A x \in Held : x \in Entities' => x \in Entities /\ entity'[x].link = entity[x].link

LEMMA IInvParts ==
  IInv <=> /\ RowsHold
           /\ \A r \in Request : RequestHolds(r)
           /\ \A w \in Process : ProcessHolds(w)
<1>1. HeldChanges /\ HeldMembers <=> \A r \in Request : RequestHolds(r)
  BY DEF HeldChanges, HeldMembers, RequestHolds
<1>2. HeldUser <=> \A w \in Process : ProcessHolds(w)
  BY DEF HeldUser, ProcessHolds
<1> QED
  BY <1>1, <1>2 DEF IInv, RowsHold

LEMMA IdleFacts ==
  /\ Idle \in Local /\ Idle.op = "idle" /\ Idle.id = None /\ Idle.members = {}
  /\ NotStarted \in Boot /\ NotStarted.pc = "start" /\ NotStarted.id = None
  /\ NoEntity \in EntityRow /\ ~NoEntity.exists /\ NoEntity.link = None
BY DEF Idle, Local, NoChange, Change, NotStarted, Boot, NoEntity, EntityRow

LEMMA IdleHolds ==
  ASSUME NEW r \in Request, req'[r] = Idle
  PROVE  RequestHolds(r)'
BY DEF RequestHolds, Idle

\* What a commit leaves to the requests.
LEMMA CommittedHolds ==
  ASSUME IInv, NEW r, NEW X, Committed(r, X), Outside(X), HeldKept
  PROVE  req' \in [Request -> Local] /\ \A q \in Request : RequestHolds(q)'
<1> SUFFICES ASSUME NEW q \in Request
             PROVE  req'[q] \in Local /\ RequestHolds(q)'
  BY DEF Committed
<1>1. req[q] \in Local /\ RequestHolds(q)
  BY IInvParts DEF IInv, TypeOK
<1>2. CASE q = r
  <2>1. req'[q] = Idle
    BY <1>2 DEF Committed
  <2> QED
    BY <2>1, IdleFacts, IdleHolds
<1>3. CASE q # r
  <2>1. PICK n : n = req'[q]
    OBVIOUS
  <2>2. n = req[q] \/ n = [req[q] EXCEPT !.fresh = FALSE]
    BY <1>3, <2>1 DEF Committed
  <2>3. /\ n \in Local /\ n.op = req[q].op /\ n.prov = req[q].prov /\ n.key = req[q].key
        /\ n.id = req[q].id /\ n.change = req[q].change /\ n.members = req[q].members
        /\ n.sets = req[q].sets /\ n.active = req[q].active /\ (n.fresh => req[q].fresh)
    BY <1>1, <2>2 DEF Local
  <2>4. n.fresh => req[q].id \notin X
    BY <1>1, <1>3, <2>1 DEF Committed, Local
  <2>5. n.fresh /\ n.id \in Principal => Members(n.id)' = Members(n.id) /\ (n.id \in active' <=> n.id \in active)
    BY <2>3, <2>4 DEF Outside
  <2>6. n.op = "write_group" => n.id \in Group /\ n.id \in Principal
    BY <1>1, <2>3 DEF RequestHolds, Principal
  <2>7. n.op = "write_user" => n.id \in User /\ n.id \in Principal
    BY <1>1, <2>3 DEF RequestHolds, Principal
  <2>8. n.op = "write_group" /\ (n.fresh \/ ~n.change.keep) =>
          n.members = Effect(n.change, Members(n.id)')
    BY <1>1, <2>3, <2>5, <2>6 DEF RequestHolds, Effect
  <2>9. n.fresh /\ n.op = "write_user" /\ ~n.sets => (n.active <=> n.id \in active')
    BY <1>1, <2>3, <2>5, <2>7 DEF RequestHolds
  <2>10. n.op \in {"create_group", "write_group"} => n.members \cap Entities' \subseteq Linked(n.prov)'
    <3>1. n.members \subseteq Held
      BY <2>3 DEF Held
    <3>2. \A x \in n.members \cap Entities' : x \in Entities /\ entity'[x].link = entity[x].link
      BY <3>1 DEF HeldKept
    <3>3. n.op \in {"create_group", "write_group"} => n.members \cap Entities \subseteq Linked(n.prov)
      BY <1>1, <2>3 DEF RequestHolds
    <3> QED
      BY <3>2, <3>3 DEF Linked
  <2>11. n.op = "create_group" => n.key \in Key /\ n.key[1] = n.prov
    BY <1>1, <2>3 DEF RequestHolds
  <2>12. RequestHolds(q)'
    BY <2>1, <2>6, <2>7, <2>8, <2>9, <2>10, <2>11 DEF RequestHolds, Effect
  <2> QED
    BY <2>1, <2>3, <2>12
<1> QED
  BY <1>2, <1>3

\* What it leaves to a process in Apply.
LEMMA TouchedHolds ==
  ASSUME IInv, NEW w \in Process, NEW X, boot'[w] = Touched(w, X), Outside(X), HeldKept
  PROVE  boot'[w] \in Boot /\ ProcessHolds(w)'
<1>1. boot[w] \in Boot /\ ProcessHolds(w)
  BY IInvParts DEF IInv, TypeOK
<1>2. PICK n : n = boot'[w]
  OBVIOUS
<1>3. n = boot[w] \/ n = [boot[w] EXCEPT !.fresh = FALSE]
  BY <1>2 DEF Touched
<1>4. n \in Boot /\ n.pc = boot[w].pc /\ n.id = boot[w].id /\ (n.fresh => boot[w].fresh)
  BY <1>1, <1>3 DEF Boot
<1>5. n.fresh /\ n.pc \in {"create", "role", "relate"} => X \cap BootRows = {} /\ X \cap BootRows' = {}
  BY <1>1, <1>2, <1>4 DEF Touched, Boot
<1>6. n.pc \in {"role", "relate"} /\ n.id \in Entities' => n.id \in Entities /\ entity'[n.id].link = BootKey
  <2>1. boot[w].id \in {boot[v].id : v \in Process}
    OBVIOUS
  <2>2. n.id \in Held
    BY <1>4, <2>1 DEF Held
  <2> QED
    BY <1>1, <1>4, <2>2 DEF ProcessHolds, HeldKept
<1>7. n.fresh /\ n.pc = "create" => FreeLink(BootKey)'
  BY <1>1, <1>4, <1>5 DEF ProcessHolds, FreeLink, BootRows, Outside, Entities
<1>8. n.fresh /\ n.pc \in {"role", "relate"} => n.id \in Entities'
  BY <1>1, <1>4, <1>5 DEF ProcessHolds, BootRows, Outside, Entities
<1>9. n.fresh /\ n.pc = "relate" => <<n.id, Admin>> \notin member'
  <2> SUFFICES ASSUME n.fresh, n.pc = "relate" PROVE <<n.id, Admin>> \notin member'
    OBVIOUS
  <2>1. Admin \notin X /\ Admin \in Principal
    BY <1>5, ScimAssumption DEF BootRows, Principal
  <2>2. n.id \in Principal /\ n.id \notin Members(Admin)
    BY <1>1, <1>4 DEF ProcessHolds, Entities, Members
  <2> QED
    BY <2>1, <2>2 DEF Outside, Members
<1>10. ProcessHolds(w)'
  BY <1>2, <1>6, <1>7, <1>8, <1>9 DEF ProcessHolds
<1> QED
  BY <1>2, <1>4, <1>10

\* A process that did not move, when rows and members of oad:admin did not.
LEMMA ProcessFrame ==
  ASSUME IInv, NEW w \in Process, boot'[w] = boot[w], entity' = entity,
         Members(Admin)' = Members(Admin)
  PROVE  ProcessHolds(w)'
<1>1. ProcessHolds(w)
  BY IInvParts
<1>2. Entities' = Entities /\ FreeLink(BootKey)' = FreeLink(BootKey)
  BY DEF Entities, FreeLink
<1>3. \A x \in Entities : <<x, Admin>> \in member' <=> <<x, Admin>> \in member
  BY DEF Members, Entities
<1> QED
  BY <1>1, <1>2, <1>3 DEF ProcessHolds

-----------------------------------------------------------------------------
(***************************************************************************)
(* What steps do to the rows.                                              *)
(***************************************************************************)

\* A row appears, with the members M.
LEMMA InsertRows ==
  ASSUME IInv, NEW x \in Principal, NEW ext \in ExternalId, NEW link \in Key \cup {None},
         NEW a \in BOOLEAN, a => x \in User, link # None => ext[2] = link,
         InsertRow(x, ext, link, a),
         NEW M \in SUBSET Entities, M = {} \/ x \in Group, link # None => M \subseteq Linked(link[1]),
         member' \in SUBSET (Principal \X Group), Members(x)' = M,
         \A y \in Principal \ {x} : Members(y)' = Members(y),
         dueMembers' \in [Group -> SUBSET Principal],
         \A g \in Group \ {x} : dueMembers'[g] = dueMembers[g],
         x \in Group => dueMembers'[x] = M \/ (M = {} /\ dueMembers'[x] = dueMembers[x]),
         req' \in [Request -> Local], boot' \in [Process -> Boot]
  PROVE  RowsHold'
<1> DEFINE row == [exists |-> TRUE, ext |-> ext, link |-> link]
<1>1. row \in EntityRow /\ row.exists /\ row.link = link /\ row.ext = ext
  BY DEF EntityRow
<1>2. entity' = [entity EXCEPT ![x] = row] /\ x \notin Entities /\ x # Admin
  BY DEF InsertRow, New
<1> HIDE DEF row
<1>3. /\ entity' \in [Principal -> EntityRow] /\ entity'[x] = row
      /\ \A y \in Principal \ {x} : entity'[y] = entity[y]
  BY <1>1, <1>2 DEF IInv, TypeOK
<1>4. Entities' = Entities \cup {x} /\ \A y \in Entities : entity'[y] = entity[y]
  BY <1>1, <1>2, <1>3 DEF Entities
<1>5. /\ active' = IF a THEN active \cup {x} ELSE active
      /\ dueActive' = IF a THEN dueActive \cup {x} ELSE dueActive
      /\ UNCHANGED <<raced, foreign>>
  BY DEF InsertRow
<1>6. TypeOK'
  <2>1. active' \in SUBSET User /\ dueActive' \in SUBSET User
    BY <1>5 DEF IInv, TypeOK
  <2> QED
    BY <1>3, <1>5, <2>1 DEF IInv, TypeOK
<1>7. RowsOfEntities'
  <2>1. (active \cup dueActive)' \subseteq Entities'
    BY <1>4, <1>5 DEF IInv, RowsOfEntities
  <2>2. \A g \in Group : Members(g)' \subseteq Entities' /\ (g \in Entities' \/ Members(g)' = {})
    BY <1>4 DEF IInv, RowsOfEntities, Principal
  <2>3. \A y \in Principal :
          /\ ~entity'[y].exists => entity'[y] = NoEntity
          /\ entity'[y].link # None => entity'[y].ext[2] = entity'[y].link
    BY <1>1, <1>3 DEF IInv, RowsOfEntities
  <2>4. entity'[Admin].link = None
    BY <1>2, <1>3, ScimAssumption DEF IInv, RowsOfEntities, Principal
  <2> QED
    BY <2>1, <2>2, <2>3, <2>4 DEF RowsOfEntities
<1>8. MembersAccounted'
  <2>1. x \in Group => Members(x) = {}
    BY <1>2 DEF IInv, RowsOfEntities
  <2> QED
    BY <1>5, <2>1 DEF IInv, MembersAccounted, Principal
<1>9. ActiveAccounted'
  BY <1>5 DEF IInv, ActiveAccounted
<1>10. \A p : Linked(p) \subseteq Linked(p)'
  BY <1>4 DEF Linked
<1>11. MembersOfProvider'
  <2>1. ASSUME NEW g \in Group, g \in Entities', entity'[g].link # None, NEW m \in Members(g)'
        PROVE  <<m, g>> \in foreign' \/ m \in Linked(entity[g].link[1])'
    <3>1. PICK k : k = entity'[g].link
      OBVIOUS
    <3>2. CASE g = x
      <4>1. k = link /\ m \in Linked(k[1])
        BY <1>1, <1>3, <2>1, <3>1, <3>2
      <4> QED
        BY <1>10, <3>1, <4>1
    <3>3. CASE g # x
      <4>1. g \in Entities /\ g \in Principal /\ entity'[g] = entity[g] /\ m \in Members(g)
        BY <1>4, <2>1, <3>3 DEF Principal
      <4>2. <<m, g>> \in foreign \/ m \in Linked(k[1])
        BY <2>1, <3>1, <4>1 DEF IInv, MembersOfProvider
      <4> QED
        BY <1>5, <1>10, <3>1, <4>2
    <3> QED
      BY <3>2, <3>3
  <2> QED
    BY <2>1 DEF MembersOfProvider
<1> QED
  BY <1>6, <1>7, <1>8, <1>9, <1>11 DEF RowsHold

\* A new id is none that is held.
LEMMA InsertOutside ==
  ASSUME IInv, NEW x \in Principal, NEW ext, NEW link, NEW a, InsertRow(x, ext, link, a),
         \A y \in Principal \ {x} : Members(y)' = Members(y)
  PROVE  Outside({x}) /\ HeldKept
<1>1. /\ \A y \in Principal \ {x} : entity'[y] = entity[y]
      /\ x \notin Held /\ (active' = active \/ active' = active \cup {x})
  BY DEF InsertRow, New, IInv, TypeOK
<1> QED
  BY <1>1 DEF Outside, HeldKept, Entities

LEMMA RemoveMembers ==
  ASSUME TypeOK, NEW x, Remove(x)
  PROVE  /\ member' \in SUBSET (Principal \X Group)
         /\ Members(x)' = {} /\ \A g : g # x => Members(g)' = Members(g) \ {x}
BY DEF Remove, TypeOK, Members

LEMMA RemoveRows ==
  ASSUME IInv, NEW x \in Principal, Remove(x),
         req' \in [Request -> Local], boot' \in [Process -> Boot]
  PROVE  RowsHold'
<1>1. /\ entity' = [entity EXCEPT ![x] = NoEntity]
      /\ active' = active \ {x} /\ dueActive' = dueActive \ {x} /\ raced' = raced \ {x}
      /\ dueMembers' = [g \in Group |-> IF g = x THEN {} ELSE dueMembers[g] \ {x}]
      /\ foreign' = {l \in foreign : l[1] # x /\ l[2] # x}
  BY DEF Remove
<1>2. /\ member' \in SUBSET (Principal \X Group)
      /\ Members(x)' = {} /\ \A g : g # x => Members(g)' = Members(g) \ {x}
  BY RemoveMembers DEF IInv
<1>3. /\ entity' \in [Principal -> EntityRow] /\ entity'[x] = NoEntity
      /\ \A y \in Principal \ {x} : entity'[y] = entity[y]
  BY <1>1, IdleFacts DEF IInv, TypeOK
<1>4. Entities' = Entities \ {x} /\ \A y \in Entities' : entity'[y] = entity[y]
  BY <1>3, IdleFacts DEF Entities
<1>5. dueMembers' \in [Group -> SUBSET Principal]
  BY <1>1 DEF IInv, TypeOK
<1>6. TypeOK'
  <2>1. /\ active' \in SUBSET User /\ dueActive' \in SUBSET User /\ raced' \in SUBSET Principal
        /\ foreign' \in SUBSET (Principal \X Group)
    BY <1>1 DEF IInv, TypeOK
  <2> QED
    BY <1>2, <1>3, <1>5, <2>1 DEF TypeOK
<1>7. RowsOfEntities'
  <2>1. (active \cup dueActive)' \subseteq Entities'
    BY <1>1, <1>4 DEF IInv, RowsOfEntities
  <2>2. \A g \in Group : Members(g)' \subseteq Entities' /\ (g \in Entities' \/ Members(g)' = {})
    <3> SUFFICES ASSUME NEW g \in Group
                 PROVE  Members(g)' \subseteq Entities' /\ (g \in Entities' \/ Members(g)' = {})
      OBVIOUS
    <3>1. Members(g) \subseteq Entities /\ (g \in Entities \/ Members(g) = {})
      BY DEF IInv, RowsOfEntities
    <3> QED
      BY <1>2, <1>4, <3>1
  <2>3. \A y \in Principal :
          /\ ~entity'[y].exists => entity'[y] = NoEntity
          /\ entity'[y].link # None => entity'[y].ext[2] = entity'[y].link
    BY <1>3, IdleFacts DEF IInv, RowsOfEntities
  <2>4. entity'[Admin].link = None
    BY <1>3, IdleFacts, ScimAssumption DEF IInv, RowsOfEntities, Principal
  <2> QED
    BY <2>1, <2>2, <2>3, <2>4 DEF RowsOfEntities
<1>8. MembersAccounted'
  <2> SUFFICES ASSUME NEW g \in Group, g \notin raced' PROVE Members(g)' = dueMembers'[g]
    BY DEF MembersAccounted
  <2>1. CASE g = x
    BY <1>1, <1>2, <2>1
  <2>2. CASE g # x
    <3>1. Members(g) = dueMembers[g]
      BY <1>1, <2>2 DEF IInv, MembersAccounted
    <3> QED
      BY <1>1, <1>2, <2>2, <3>1
  <2> QED
    BY <2>1, <2>2
<1>9. ActiveAccounted'
  BY <1>1 DEF IInv, ActiveAccounted
<1>10. MembersOfProvider'
  <2>1. ASSUME NEW g \in Group, g \in Entities', entity'[g].link # None, NEW m \in Members(g)'
        PROVE  <<m, g>> \in foreign' \/ m \in Linked(entity[g].link[1])'
    <3>1. PICK k : k = entity'[g].link
      OBVIOUS
    <3>2. g # x /\ g \in Entities /\ entity'[g] = entity[g]
      BY <1>4, <2>1
    <3>3. m \in Members(g) /\ m # x
      BY <1>2, <2>1, <3>2
    <3>4. <<m, g>> \in foreign \/ m \in Linked(k[1])
      BY <2>1, <3>1, <3>2, <3>3 DEF IInv, MembersOfProvider
    <3>5. m \in Linked(k[1]) => m \in Linked(k[1])'
      BY <1>4, <3>3 DEF Linked
    <3>6. <<m, g>> \in foreign => <<m, g>> \in foreign'
      BY <1>1, <3>2, <3>3
    <3> QED
      BY <3>1, <3>4, <3>5, <3>6
  <2> QED
    BY <2>1 DEF MembersOfProvider
<1> QED
  BY <1>6, <1>7, <1>8, <1>9, <1>10 DEF RowsHold

\* The groups that lose a member are among those a removal writes.
LEMMA RemoveOutside ==
  ASSUME IInv, NEW x \in Principal, Remove(x)
  PROVE  Outside({x} \cup GroupsOf(x)) /\ HeldKept
<1>1. /\ \A y \in Principal \ {x} : entity'[y] = entity[y]
      /\ ~entity'[x].exists /\ active' = active \ {x}
  BY IdleFacts DEF Remove, IInv, TypeOK
<1>2. \A g \in Principal : g # x /\ g \notin GroupsOf(x) => Members(g)' = Members(g)
  <2> SUFFICES ASSUME NEW g \in Principal, g # x, g \notin GroupsOf(x)
               PROVE  Members(g)' = Members(g)
    OBVIOUS
  <2>1. x \notin Members(g)
    BY DEF Members, GroupsOf, IInv, TypeOK
  <2>2. Members(g)' = Members(g) \ {x}
    BY RemoveMembers DEF IInv
  <2> QED
    BY <2>1, <2>2
<1> QED
  BY <1>1, <1>2 DEF Outside, HeldKept, Entities

\* The members of group g become M.
LEMMA MemberRows ==
  ASSUME IInv, NEW g \in Group, g \in Entities, UNCHANGED <<entity, active, dueActive>>,
         NEW M \in SUBSET Entities, member' \in SUBSET (Principal \X Group), Members(g)' = M,
         \A h \in Group \ {g} : Members(h)' = Members(h),
         dueMembers' \in [Group -> SUBSET Principal],
         \A h \in Group \ {g} : dueMembers'[h] = dueMembers[h],
         raced' \in SUBSET Principal, \A y : y # g => (y \in raced' <=> y \in raced),
         g \notin raced' => M = dueMembers'[g],
         foreign' \in SUBSET (Principal \X Group),
         \A m, h : h # g /\ <<m, h>> \in foreign => <<m, h>> \in foreign',
         entity[g].link # None => \A m \in M : <<m, g>> \in foreign' \/ m \in Linked(entity[g].link[1]),
         req' \in [Request -> Local], boot' \in [Process -> Boot]
  PROVE  RowsHold'
<1>1. Entities' = Entities /\ \A p : Linked(p)' = Linked(p)
  BY DEF Entities, Linked
<1>2. TypeOK'
  BY DEF IInv, TypeOK
<1>3. RowsOfEntities'
  BY <1>1 DEF IInv, RowsOfEntities
<1>4. MembersAccounted'
  BY DEF IInv, MembersAccounted
<1>5. ActiveAccounted'
  BY ScimAssumption DEF IInv, ActiveAccounted
<1>6. MembersOfProvider'
  BY <1>1 DEF IInv, MembersOfProvider
<1> QED
  BY <1>2, <1>3, <1>4, <1>5, <1>6 DEF RowsHold

\* The value of active of user u becomes b.
LEMMA ActiveRows ==
  ASSUME IInv, NEW u \in User, u \in Entities, UNCHANGED <<entity, member, dueMembers, foreign>>,
         NEW b \in BOOLEAN, active' = IF b THEN active \cup {u} ELSE active \ {u},
         dueActive' \in {dueActive, dueActive \cup {u}, dueActive \ {u}},
         raced' \in {raced, raced \cup {u}, raced \ {u}},
         u \notin raced' => (b <=> u \in dueActive'),
         req' \in [Request -> Local], boot' \in [Process -> Boot]
  PROVE  RowsHold' /\ Outside({u}) /\ HeldKept
<1>1. Entities' = Entities /\ (\A p : Linked(p)' = Linked(p)) /\ \A y : Members(y)' = Members(y)
  BY DEF Entities, Linked, Members
<1>2. TypeOK'
  BY DEF IInv, TypeOK, Principal
<1>3. RowsOfEntities'
  BY <1>1 DEF IInv, RowsOfEntities
<1>4. MembersAccounted'
  BY <1>1, ScimAssumption DEF IInv, MembersAccounted
<1>5. ActiveAccounted'
  BY DEF IInv, ActiveAccounted
<1>6. MembersOfProvider'
  BY <1>1 DEF IInv, MembersOfProvider
<1>7. Outside({u}) /\ HeldKept
  BY <1>1 DEF Outside, HeldKept
<1> QED
  BY <1>2, <1>3, <1>4, <1>5, <1>6, <1>7 DEF RowsHold

\* The invariant from its parts, for the next state.
LEMMA Parts ==
  ASSUME RowsHold', \A q \in Request : RequestHolds(q)', \A w \in Process : ProcessHolds(w)'
  PROVE  IInv'
<1>1. HeldChanges' /\ HeldMembers'
  BY DEF HeldChanges, HeldMembers, RequestHolds
<1>2. HeldUser'
  BY DEF HeldUser, ProcessHolds
<1> QED
  BY <1>1, <1>2 DEF IInv, RowsHold

LEMMA BootTyped ==
  ASSUME IInv, NEW X, BootTouched(X), Outside(X), HeldKept
  PROVE  boot' \in [Process -> Boot] /\ \A w \in Process : ProcessHolds(w)'
<1> SUFFICES ASSUME NEW w \in Process PROVE boot'[w] \in Boot /\ ProcessHolds(w)'
  BY DEF BootTouched
<1>1. boot'[w] = Touched(w, X)
  BY DEF BootTouched
<1> QED
  BY <1>1, TouchedHolds

LEMMA BootCommitted ==
  ASSUME IInv, NEW w \in Process, NEW X, NEW pc \in {"role", "done"}, NEW x \in Principal \cup {None},
         BootCommit(w, X, pc, x), Outside(X), HeldKept
  PROVE  /\ boot' \in [Process -> Boot]
         /\ boot'[w].pc = pc /\ boot'[w].id = x /\ boot'[w].fresh
         /\ \A v \in Process \ {w} : ProcessHolds(v)'
<1>1. boot'[w] = [pc |-> pc, id |-> x, fresh |-> TRUE] /\ boot'[w] \in Boot
  BY DEF BootCommit, Boot
<1>2. ASSUME NEW v \in Process, v # w PROVE boot'[v] \in Boot /\ ProcessHolds(v)'
  <2>1. boot'[v] = Touched(v, X)
    BY <1>2 DEF BootCommit
  <2> QED
    BY <2>1, TouchedHolds
<1>3. boot' \in [Process -> Boot]
  BY <1>1, <1>2 DEF BootCommit
<1> QED
  BY <1>1, <1>2, <1>3

-----------------------------------------------------------------------------
(***************************************************************************)
(* Rows that appear and disappear.                                         *)
(***************************************************************************)
LEMMA SameMembers ==
  ASSUME UNCHANGED member
  PROVE  \A y : Members(y)' = Members(y)
BY DEF Members

LEMMA NoMembers ==
  ASSUME IInv, NEW x \in Principal, x \notin Entities
  PROVE  Members(x) = {}
<1>1. CASE x \in Group
  BY <1>1 DEF IInv, RowsOfEntities
<1>2. CASE x \notin Group
  BY <1>2 DEF IInv, TypeOK, Members
<1> QED
  BY <1>1, <1>2

LEMMA InsertInv ==
  ASSUME IInv, NEW x \in Principal, NEW ext \in ExternalId, NEW link \in Key \cup {None},
         NEW a \in BOOLEAN, a => x \in User, link # None => ext[2] = link, Insert(x, ext, link, a)
  PROVE  IInv'
<1>1. InsertRow(x, ext, link, a) /\ Committed(None, {x}) /\ BootTouched({x})
      /\ member' = member /\ dueMembers' = dueMembers
  BY DEF Insert
<1>2. \A y : Members(y)' = Members(y)
  BY <1>1, SameMembers
<1>3. Outside({x}) /\ HeldKept
  BY <1>1, <1>2, InsertOutside
<1>4. req' \in [Request -> Local] /\ \A q \in Request : RequestHolds(q)'
  BY <1>1, <1>3, CommittedHolds
<1>5. boot' \in [Process -> Boot] /\ \A w \in Process : ProcessHolds(w)'
  BY <1>1, <1>3, BootTyped
<1>6. Members(x)' = {}
  BY <1>1, <1>2, NoMembers DEF InsertRow, New
<1>7. /\ {} \in SUBSET Entities /\ (link # None => {} \subseteq Linked(link[1]))
      /\ member' \in SUBSET (Principal \X Group) /\ dueMembers' \in [Group -> SUBSET Principal]
      /\ \A g \in Group : dueMembers'[g] = dueMembers[g]
  BY <1>1 DEF IInv, TypeOK
<1>8. RowsHold'
  <2> DEFINE M == {}
  <2>1. M \in SUBSET Entities /\ Members(x)' = M /\ M = {} /\ (link # None => M \subseteq Linked(link[1]))
    BY <1>6, <1>7
  <2> HIDE DEF M
  <2> QED
    BY <1>1, <1>2, <1>4, <1>5, <1>7, <2>1, InsertRows
<1> QED
  BY <1>4, <1>5, <1>8, Parts

LEMMA CreateUserInv ==
  ASSUME IInv, NEW u \in User, NEW k \in Key, NEW a \in BOOLEAN, CreateUser(u, k, a)
  PROVE  IInv'
<1> DEFINE ext == <<"scim", k>>
<1>1. u \in Principal /\ ext \in ExternalId /\ ext[2] = k
  BY DEF Principal, ExternalId
<1>2. Insert(u, ext, k, a)
  BY DEF CreateUser
<1> HIDE DEF ext
<1> QED
  BY <1>1, <1>2, InsertInv

LEMMA CreateEntityInv ==
  ASSUME IInv, NEW x \in Principal, NEW ext \in ExternalId, NEW a \in BOOLEAN, CreateEntity(x, ext, a)
  PROVE  IInv'
<1>1. Insert(x, ext, None, a) /\ (a => x \in User)
  BY DEF CreateEntity, Principal
<1> QED
  BY <1>1, InsertInv

LEMMA RemoveInv ==
  ASSUME IInv, NEW x \in Principal, Remove(x)
  PROVE  IInv'
<1> DEFINE X == {x} \cup GroupsOf(x)
<1>1. Committed(None, X) /\ BootTouched(X)
  BY DEF Remove
<1>2. Outside(X) /\ HeldKept
  BY RemoveOutside
<1> HIDE DEF X
<1>3. req' \in [Request -> Local] /\ \A q \in Request : RequestHolds(q)'
  BY <1>1, <1>2, CommittedHolds
<1>4. boot' \in [Process -> Boot] /\ \A w \in Process : ProcessHolds(w)'
  BY <1>1, <1>2, BootTyped
<1>5. RowsHold'
  BY <1>3, <1>4, RemoveRows
<1> QED
  BY <1>3, <1>4, <1>5, Parts

LEMMA CreateGroupInv ==
  ASSUME IInv, NEW r \in Request, NEW g \in Group, CreateGroup(r, g)
  PROVE  IInv'
<1> DEFINE k == req[r].key
           ext == <<"scim", k>>
           M == req[r].members
<1>1. /\ RequestHolds(r) /\ req[r] \in Local /\ req[r].op = "create_group"
  BY IInvParts DEF CreateGroup, IInv, TypeOK
<1>2. /\ InsertRow(g, ext, k, FALSE) /\ M \subseteq Entities
      /\ member' = member \cup (M \X {g}) /\ dueMembers' = [dueMembers EXCEPT ![g] = M]
      /\ Committed(r, {g}) /\ BootTouched({g})
  BY DEF CreateGroup
<1>3. k \in Key /\ ext \in ExternalId /\ ext[2] = k /\ M \subseteq Linked(k[1]) /\ g \in Principal
      /\ M \in SUBSET Entities /\ M \subseteq Principal
  BY <1>1, <1>2 DEF RequestHolds, Local, ExternalId, Principal
<1> HIDE DEF k, ext, M
<1>4. member' \in SUBSET (Principal \X Group) /\ \A y \in Principal \ {g} : Members(y)' = Members(y)
  BY <1>2, <1>3 DEF Members, IInv, TypeOK
<1>5. Members(g)' = M
  <2>1. Members(g) = {}
    BY <1>2, <1>3, NoMembers DEF InsertRow, New
  <2> QED
    BY <1>2, <1>3, <2>1 DEF Members
<1>6. /\ dueMembers' \in [Group -> SUBSET Principal] /\ dueMembers'[g] = M
      /\ \A h \in Group \ {g} : dueMembers'[h] = dueMembers[h]
  BY <1>2, <1>3 DEF IInv, TypeOK
<1>7. Outside({g}) /\ HeldKept
  BY <1>2, <1>3, <1>4, InsertOutside
<1>8. req' \in [Request -> Local] /\ \A q \in Request : RequestHolds(q)'
  BY <1>2, <1>7, CommittedHolds
<1>9. boot' \in [Process -> Boot] /\ \A w \in Process : ProcessHolds(w)'
  BY <1>2, <1>7, BootTyped
<1>10. RowsHold'
  BY <1>2, <1>3, <1>4, <1>5, <1>6, <1>8, <1>9, InsertRows
<1> QED
  BY <1>8, <1>9, <1>10, Parts

-----------------------------------------------------------------------------
(***************************************************************************)
(* Changes of active and of members.                                       *)
(***************************************************************************)

\* A step that leaves the rows of entities and the processes alone.
LEMMA ProcessesFrame ==
  ASSUME IInv, UNCHANGED <<entity, boot>>, Members(Admin)' = Members(Admin)
  PROVE  boot' \in [Process -> Boot] /\ \A w \in Process : ProcessHolds(w)'
BY ProcessFrame DEF IInv, TypeOK

LEMMA UpdateEntityInv ==
  ASSUME IInv, NEW u \in User, NEW a \in BOOLEAN, UpdateEntity(u, a)
  PROVE  IInv'
<1>1. /\ u \in Entities /\ Committed(None, {u})
      /\ UNCHANGED <<entity, member, boot, dueMembers, foreign>>
      /\ active' = IF a THEN active \cup {u} ELSE active \ {u}
      /\ dueActive' \in {dueActive, dueActive \cup {u}, dueActive \ {u}}
      /\ raced' \in {raced, raced \cup {u}, raced \ {u}}
      /\ (a <=> u \in dueActive')
  BY DEF UpdateEntity
<1>2. Members(Admin)' = Members(Admin)
  BY <1>1, SameMembers
<1>3. Outside({u}) /\ HeldKept
  BY <1>1, SameMembers DEF Outside, HeldKept, Entities
<1>4. req' \in [Request -> Local] /\ \A q \in Request : RequestHolds(q)'
  BY <1>1, <1>3, CommittedHolds
<1>5. boot' \in [Process -> Boot] /\ \A w \in Process : ProcessHolds(w)'
  BY <1>1, <1>2, ProcessesFrame
<1>6. RowsHold'
  BY <1>1, <1>4, <1>5, ActiveRows
<1> QED
  BY <1>4, <1>5, <1>6, Parts

LEMMA WriteUserInv ==
  ASSUME IInv, NEW r \in Request, WriteUser(r)
  PROVE  IInv'
<1>1. RequestHolds(r) /\ req[r] \in Local /\ req[r].op = "write_user"
  BY IInvParts DEF WriteUser, IInv, TypeOK
<1>2. PICK u \in User : u = req[r].id
  BY <1>1 DEF RequestHolds
<1>3. PICK b \in BOOLEAN : b = req[r].active
  BY <1>1 DEF Local
<1>4. /\ u \in Entities /\ Committed(r, {u})
      /\ UNCHANGED <<entity, member, boot, dueMembers, foreign>>
      /\ active' = IF b THEN active \cup {u} ELSE active \ {u}
      /\ dueActive' \in {dueActive, dueActive \cup {u}, dueActive \ {u}}
      /\ raced' \in {raced, raced \cup {u}, raced \ {u}}
  BY <1>2, <1>3 DEF WriteUser, Linked
<1>5. u \notin raced' => (b <=> u \in dueActive')
  <2> SUFFICES ASSUME u \notin raced' PROVE b <=> u \in dueActive'
    OBVIOUS
  <2>1. CASE req[r].sets
    BY <1>2, <1>3, <2>1 DEF WriteUser
  <2>2. CASE ~req[r].sets
    <3>1. req[r].fresh /\ u \notin raced /\ dueActive' = dueActive
      BY <1>2, <2>2 DEF WriteUser
    <3>2. b <=> u \in active
      BY <1>1, <1>2, <1>3, <2>2, <3>1 DEF RequestHolds
    <3> QED
      BY <3>1, <3>2 DEF IInv, ActiveAccounted
  <2> QED
    BY <2>1, <2>2
<1>6. Members(Admin)' = Members(Admin)
  BY <1>4, SameMembers
<1>7. Outside({u}) /\ HeldKept
  BY <1>4, SameMembers DEF Outside, HeldKept, Entities
<1>8. req' \in [Request -> Local] /\ \A q \in Request : RequestHolds(q)'
  BY <1>4, <1>7, CommittedHolds
<1>9. boot' \in [Process -> Boot] /\ \A w \in Process : ProcessHolds(w)'
  BY <1>4, <1>6, ProcessesFrame
<1>10. RowsHold'
  BY <1>4, <1>5, <1>8, <1>9, ActiveRows
<1> QED
  BY <1>8, <1>9, <1>10, Parts

\* A step that changes members of group g only.
LEMMA MembersOutside ==
  ASSUME IInv, NEW g \in Group, UNCHANGED <<entity, active>>,
         member' \in SUBSET (Principal \X Group),
         \A h \in Group \ {g} : Members(h)' = Members(h)
  PROVE  Outside({g}) /\ HeldKept
<1>1. \A y \in Principal \ Group : Members(y)' = Members(y)
  BY DEF Members, IInv, TypeOK
<1> QED
  BY <1>1 DEF Outside, HeldKept, Entities

LEMMA ReplaceGroupInv ==
  ASSUME IInv, NEW r \in Request, ReplaceGroup(r)
  PROVE  IInv'
<1>1. RequestHolds(r) /\ req[r] \in Local /\ req[r].op = "write_group"
  BY IInvParts DEF ReplaceGroup, IInv, TypeOK
<1>2. PICK g \in Group : g = req[r].id
  BY <1>1 DEF RequestHolds
<1>3. PICK M \in SUBSET Principal : M = req[r].members
  BY <1>1 DEF Local
<1>4. PICK c \in Change : c = req[r].change
  BY <1>1 DEF Local
<1>5. /\ g \in Linked(req[r].prov) /\ g \in Entities /\ M \subseteq Entities
      /\ member' = {l \in member : l[2] # g} \cup (M \X {g})
      /\ dueMembers' = [dueMembers EXCEPT ![g] = Effect(c, dueMembers[g])]
      /\ raced' = IF ~c.keep THEN raced \ {g} ELSE IF req[r].fresh THEN raced ELSE raced \cup {g}
      /\ foreign' = {l \in foreign : l[2] # g}
      /\ Committed(r, {g}) /\ UNCHANGED <<entity, active, boot, dueActive>>
  BY <1>2, <1>3, <1>4 DEF ReplaceGroup, Linked
<1>6. M \subseteq Linked(req[r].prov) /\ (req[r].fresh => M = Effect(c, Members(g)))
  BY <1>1, <1>2, <1>3, <1>4, <1>5 DEF RequestHolds
<1>7. /\ member' \in SUBSET (Principal \X Group) /\ Members(g)' = M
      /\ \A h \in Group \ {g} : Members(h)' = Members(h)
  BY <1>5 DEF Members, IInv, TypeOK
<1>8. /\ dueMembers' \in [Group -> SUBSET Principal] /\ dueMembers'[g] = Effect(c, dueMembers[g])
      /\ \A h \in Group \ {g} : dueMembers'[h] = dueMembers[h]
  BY <1>5 DEF Effect, Change, IInv, TypeOK
<1>9. raced' \in SUBSET Principal /\ \A y : y # g => (y \in raced' <=> y \in raced)
  BY <1>5 DEF IInv, TypeOK, Principal
<1>10. g \notin raced' => M = dueMembers'[g]
  <2> SUFFICES ASSUME g \notin raced' PROVE M = dueMembers'[g]
    OBVIOUS
  <2>1. CASE ~c.keep
    <3>1. M = c.add
      BY <1>1, <1>3, <1>4, <2>1 DEF RequestHolds, Effect
    <3> QED
      BY <1>8, <2>1, <3>1 DEF Effect
  <2>2. CASE c.keep
    <3>1. req[r].fresh /\ g \notin raced
      BY <1>5, <2>2
    <3> QED
      BY <1>6, <1>8, <3>1 DEF IInv, MembersAccounted
  <2> QED
    BY <2>1, <2>2
<1>11. \A m \in M : m \in Linked(req[r].prov) /\ entity[g].link[1] = req[r].prov
  BY <1>5, <1>6 DEF Linked
<1>12. /\ foreign' \in SUBSET (Principal \X Group)
       /\ \A m, h : h # g /\ <<m, h>> \in foreign => <<m, h>> \in foreign'
  BY <1>5 DEF IInv, TypeOK
<1>13. g # Admin
  BY <1>5 DEF Linked, IInv, RowsOfEntities
<1>14. Members(Admin)' = Members(Admin)
  BY <1>7, <1>13, ScimAssumption
<1>15. Outside({g}) /\ HeldKept
  BY <1>5, <1>7, MembersOutside
<1>16. req' \in [Request -> Local] /\ \A q \in Request : RequestHolds(q)'
  BY <1>5, <1>15, CommittedHolds
<1>17. boot' \in [Process -> Boot] /\ \A w \in Process : ProcessHolds(w)'
  BY <1>5, <1>14, ProcessesFrame
<1>18. RowsHold'
  BY <1>5, <1>7, <1>8, <1>9, <1>10, <1>11, <1>12, <1>16, <1>17, MemberRows
<1> QED
  BY <1>16, <1>17, <1>18, Parts

\* One member of group g added, or removed.
LEMMA OneMember ==
  ASSUME IInv, NEW m \in Principal, NEW g \in Group, m \in Entities, g \in Entities,
         UNCHANGED <<entity, active, dueActive, raced>>,
         \/ /\ member' = member \cup {<<m, g>>}
            /\ dueMembers' = [dueMembers EXCEPT ![g] = @ \cup {m}]
            /\ foreign' = foreign \cup {<<m, g>>}
         \/ /\ member' = member \ {<<m, g>>}
            /\ dueMembers' = [dueMembers EXCEPT ![g] = @ \ {m}]
            /\ foreign' = foreign \ {<<m, g>>}
  PROVE  /\ Outside({g}) /\ HeldKept
         /\ req' \in [Request -> Local] /\ boot' \in [Process -> Boot] => RowsHold'
<1>1. PICK M : M = Members(g)'
  OBVIOUS
<1>2. /\ \/ M = Members(g) \cup {m} /\ dueMembers'[g] = dueMembers[g] \cup {m}
         \/ M = Members(g) \ {m} /\ dueMembers'[g] = dueMembers[g] \ {m}
      /\ member' \in SUBSET (Principal \X Group)
      /\ \A h \in Group \ {g} : Members(h)' = Members(h)
      /\ dueMembers' \in [Group -> SUBSET Principal]
      /\ \A h \in Group \ {g} : dueMembers'[h] = dueMembers[h]
      /\ foreign' \in SUBSET (Principal \X Group)
      /\ \A n, h : h # g /\ <<n, h>> \in foreign => <<n, h>> \in foreign'
  BY <1>1 DEF IInv, TypeOK, Members
<1>3. Members(g) \subseteq Entities
  BY DEF IInv, RowsOfEntities
<1>4. M \in SUBSET Entities
  BY <1>2, <1>3
<1>5. g \notin raced => M = dueMembers'[g]
  BY <1>2 DEF IInv, MembersAccounted
<1>6. entity[g].link # None => \A n \in M : <<n, g>> \in foreign' \/ n \in Linked(entity[g].link[1])
  <2> SUFFICES ASSUME entity[g].link # None, NEW n \in M
               PROVE  <<n, g>> \in foreign' \/ n \in Linked(entity[g].link[1])
    OBVIOUS
  <2>1. n \in Members(g) => <<n, g>> \in foreign \/ n \in Linked(entity[g].link[1])
    BY DEF IInv, MembersOfProvider
  <2>2. CASE foreign' = foreign \cup {<<m, g>>} /\ member' = member \cup {<<m, g>>}
    <3>1. n \in Members(g) \/ n = m
      BY <1>1, <2>2 DEF Members
    <3> QED
      BY <2>1, <2>2, <3>1
  <2>3. CASE foreign' = foreign \ {<<m, g>>} /\ member' = member \ {<<m, g>>}
    <3>1. n \in Members(g) /\ n # m
      BY <1>1, <2>3 DEF Members
    <3> QED
      BY <2>1, <2>3, <3>1
  <2> QED
    BY <2>2, <2>3
<1>7. Outside({g}) /\ HeldKept
  BY <1>2, MembersOutside
<1>8. raced' \in SUBSET Principal /\ \A y : y # g => (y \in raced' <=> y \in raced)
  BY DEF IInv, TypeOK
<1>9. ASSUME req' \in [Request -> Local], boot' \in [Process -> Boot] PROVE RowsHold'
  BY <1>1, <1>2, <1>4, <1>5, <1>6, <1>8, <1>9, MemberRows
<1> QED
  BY <1>7, <1>9

\* Relations have entities for subject and target.
LEMMA MemberEntities ==
  ASSUME IInv, NEW m, NEW g, <<m, g>> \in member
  PROVE  m \in Principal /\ g \in Group /\ m \in Entities /\ g \in Entities
<1>1. m \in Principal /\ g \in Group
  BY DEF IInv, TypeOK
<1>2. m \in Members(g)
  BY <1>1 DEF Members
<1> QED
  BY <1>1, <1>2 DEF IInv, RowsOfEntities

LEMMA RelationInv ==
  ASSUME IInv, NEW m \in Principal, NEW g \in Group, CreateRelation(m, g) \/ DeleteRelation(m, g)
  PROVE  IInv'
<1>1. m \in Entities /\ g \in Entities
  BY MemberEntities DEF CreateRelation, DeleteRelation
<1>2. /\ UNCHANGED <<entity, active, dueActive, raced>> /\ Committed(None, {g}) /\ BootTouched({g})
      /\ \/ /\ member' = member \cup {<<m, g>>}
            /\ dueMembers' = [dueMembers EXCEPT ![g] = @ \cup {m}]
            /\ foreign' = foreign \cup {<<m, g>>}
         \/ /\ member' = member \ {<<m, g>>}
            /\ dueMembers' = [dueMembers EXCEPT ![g] = @ \ {m}]
            /\ foreign' = foreign \ {<<m, g>>}
  BY DEF CreateRelation, DeleteRelation
<1>3. /\ Outside({g}) /\ HeldKept
      /\ req' \in [Request -> Local] /\ boot' \in [Process -> Boot] => RowsHold'
  BY <1>1, <1>2, OneMember
<1>4. req' \in [Request -> Local] /\ \A q \in Request : RequestHolds(q)'
  BY <1>2, <1>3, CommittedHolds
<1>5. boot' \in [Process -> Boot] /\ \A w \in Process : ProcessHolds(w)'
  BY <1>2, <1>3, BootTyped
<1> QED
  BY <1>3, <1>4, <1>5, Parts

-----------------------------------------------------------------------------
(***************************************************************************)
(* Bootstrap.                                                              *)
(***************************************************************************)

LEMMA CreateAdminRelationInv ==
  ASSUME IInv, NEW w \in Process, CreateAdminRelation(w)
  PROVE  IInv'
<1>1. PICK m \in Principal : m = boot[w].id
  BY DEF CreateAdminRelation, CanRelate, Entities
<1>2. /\ m \in Entities /\ Admin \in Entities /\ Admin \in Group
      /\ UNCHANGED <<entity, active, dueActive, raced>>
      /\ member' = member \cup {<<m, Admin>>}
      /\ dueMembers' = [dueMembers EXCEPT ![Admin] = @ \cup {m}]
      /\ foreign' = foreign \cup {<<m, Admin>>}
      /\ Committed(None, {Admin}) /\ BootCommit(w, {Admin}, "done", None)
  BY <1>1, ScimAssumption DEF CreateAdminRelation, CanRelate
<1>3. /\ Outside({Admin}) /\ HeldKept
      /\ req' \in [Request -> Local] /\ boot' \in [Process -> Boot] => RowsHold'
  BY <1>2, OneMember
<1>4. req' \in [Request -> Local] /\ \A q \in Request : RequestHolds(q)'
  BY <1>2, <1>3, CommittedHolds
<1>5. /\ boot' \in [Process -> Boot] /\ boot'[w].pc = "done"
      /\ \A v \in Process \ {w} : ProcessHolds(v)'
  BY <1>2, <1>3, BootCommitted
<1>6. ProcessHolds(w)'
  BY <1>5 DEF ProcessHolds
<1> QED
  BY <1>3, <1>4, <1>5, <1>6, Parts

LEMMA CreateBootstrapUserInv ==
  ASSUME IInv, NEW w \in Process, NEW u \in User, CreateBootstrapUser(w, u)
  PROVE  IInv'
<1> DEFINE ext == <<"bootstrap", BootKey>>
<1>1. /\ InsertRow(u, ext, BootKey, TRUE) /\ Committed(None, {u}) /\ BootCommit(w, {u}, "role", u)
      /\ member' = member /\ dueMembers' = dueMembers
  BY DEF CreateBootstrapUser
<1>2. u \in Principal /\ ext \in ExternalId /\ ext[2] = BootKey /\ BootKey \in Key
  BY ScimAssumption DEF Principal, ExternalId
<1> HIDE DEF ext
<1>3. \A y : Members(y)' = Members(y)
  BY <1>1, SameMembers
<1>4. Outside({u}) /\ HeldKept
  BY <1>1, <1>2, <1>3, InsertOutside
<1>5. req' \in [Request -> Local] /\ \A q \in Request : RequestHolds(q)'
  BY <1>1, <1>4, CommittedHolds
<1>6. /\ boot' \in [Process -> Boot] /\ boot'[w].pc = "role" /\ boot'[w].id = u /\ boot'[w].fresh
      /\ \A v \in Process \ {w} : ProcessHolds(v)'
  BY <1>1, <1>2, <1>4, BootCommitted
<1>7. ProcessHolds(w)'
  <2>1. u \in Entities' /\ entity'[u].link = BootKey
    BY <1>1, <1>2 DEF InsertRow, Entities, IInv, TypeOK
  <2> QED
    BY <1>6, <2>1 DEF ProcessHolds
<1>8. RowsHold'
  <2> DEFINE M == {}
  <2>1. /\ M \in SUBSET Entities /\ Members(u)' = M /\ M = {} /\ M \subseteq Linked(BootKey[1])
        /\ member' \in SUBSET (Principal \X Group) /\ dueMembers' \in [Group -> SUBSET Principal]
        /\ \A g \in Group : dueMembers'[g] = dueMembers[g]
    BY <1>1, <1>2, <1>3, NoMembers DEF InsertRow, New, IInv, TypeOK
  <2> HIDE DEF M
  <2> QED
    BY <1>1, <1>2, <1>3, <1>5, <1>6, <2>1, InsertRows
<1> QED
  BY <1>5, <1>6, <1>7, <1>8, Parts

LEMMA RowsFrame ==
  ASSUME IInv, UNCHANGED <<entity, active, member, history>>,
         req' \in [Request -> Local], boot' \in [Process -> Boot]
  PROVE  RowsHold'
BY DEF IInv, RowsHold, TypeOK, RowsOfEntities, MembersAccounted, ActiveAccounted, MembersOfProvider,
       Entities, Members, Linked, history

\* A step of one process that writes no row.
LEMMA OneProcess ==
  ASSUME IInv, NEW w \in Process, NEW n \in Boot, boot' = [boot EXCEPT ![w] = n],
         UNCHANGED <<entity, active, member, req, history>>, ProcessHolds(w)'
  PROVE  IInv'
<1>1. boot' \in [Process -> Boot] /\ \A v \in Process \ {w} : boot'[v] = boot[v]
  BY DEF IInv, TypeOK
<1>2. Members(Admin)' = Members(Admin)
  BY SameMembers
<1>3. \A v \in Process : ProcessHolds(v)'
  BY <1>1, <1>2, ProcessFrame
<1>4. RowsHold'
  BY <1>1, RowsFrame DEF IInv, TypeOK
<1>5. \A q \in Request : RequestHolds(q)'
  BY IInvParts DEF RequestHolds, Members, Entities, Linked, Effect
<1> QED
  BY <1>3, <1>4, <1>5, Parts

LEMMA BootReadInv ==
  ASSUME IInv, NEW w \in Process, NEW pc \in {"start", "create", "role", "done", "failed"},
         NEW x \in Principal \cup {None}, BootRead(w, pc, x),
         UNCHANGED <<entity, active, member, req, history>>,
         pc = "create" => FreeLink(BootKey),
         pc = "role" => x \in Entities /\ entity[x].link = BootKey
  PROVE  IInv'
<1> DEFINE n == [pc |-> pc, id |-> x, fresh |-> TRUE]
<1>1. n \in Boot /\ n.pc = pc /\ n.id = x /\ boot' = [boot EXCEPT ![w] = n]
  BY DEF BootRead, Boot
<1> HIDE DEF n
<1>2. boot'[w] = n
  BY <1>1 DEF IInv, TypeOK
<1>3. ProcessHolds(w)'
  BY <1>1, <1>2 DEF ProcessHolds, FreeLink, Entities
<1> QED
  BY <1>1, <1>3, OneProcess

LEMMA FindEntityIDInv ==
  ASSUME IInv, NEW w \in Process, FindEntityID(w)
  PROVE  IInv'
<1>1. CASE BootRead(w, "create", None) /\ {x \in Entities : entity[x].link = BootKey} = {}
  <2>1. FreeLink(BootKey)
    BY <1>1 DEF FreeLink
  <2> QED
    BY <1>1, <2>1, BootReadInv DEF FindEntityID
<1>2. CASE \E x \in Entities : entity[x].link = BootKey /\ BootRead(w, "role", x)
  <2>1. PICK x \in Entities : entity[x].link = BootKey /\ BootRead(w, "role", x)
    BY <1>2
  <2>2. x \in Principal
    BY DEF Entities
  <2> QED
    BY <2>1, <2>2, BootReadInv DEF FindEntityID
<1> QED
  BY <1>1, <1>2 DEF FindEntityID

LEMMA HasAdminRelationInv ==
  ASSUME IInv, NEW w \in Process, HasAdminRelation(w)
  PROVE  IInv'
<1>1. CASE BootRead(w, "done", None)
  BY <1>1, BootReadInv DEF HasAdminRelation
<1>2. CASE <<boot[w].id, Admin>> \notin member /\ boot' = [boot EXCEPT ![w].pc = "relate"]
  <2> DEFINE n == [boot[w] EXCEPT !.pc = "relate"]
  <2>1. boot[w] \in Boot /\ ProcessHolds(w) /\ boot[w].pc = "role"
    BY IInvParts DEF IInv, TypeOK, HasAdminRelation
  <2>2. n \in Boot /\ n.pc = "relate" /\ n.id = boot[w].id /\ n.fresh = boot[w].fresh
    BY <2>1 DEF Boot
  <2>3. boot' = [boot EXCEPT ![w] = n]
    BY <1>2 DEF IInv, TypeOK
  <2> HIDE DEF n
  <2>4. boot'[w] = n /\ UNCHANGED <<entity, active, member, req, history>>
    BY <2>3 DEF IInv, TypeOK, HasAdminRelation
  <2>5. ProcessHolds(w)'
    BY <1>2, <2>1, <2>2, <2>4 DEF ProcessHolds, Entities
  <2> QED
    BY <2>2, <2>3, <2>4, <2>5, OneProcess
<1> QED
  BY <1>1, <1>2 DEF HasAdminRelation

LEMMA ApplyEndsInv ==
  ASSUME IInv, NEW w \in Process, ApplyFails(w) \/ Restart(w)
  PROVE  IInv'
<1>1. CASE ApplyFails(w)
  BY <1>1, BootReadInv DEF ApplyFails
<1>2. CASE Restart(w)
  <2>1. BootRead(w, "start", None)
    BY <1>2 DEF Restart, BootRead, NotStarted
  <2> QED
    BY <1>2, <2>1, BootReadInv DEF Restart
<1> QED
  BY <1>1, <1>2

-----------------------------------------------------------------------------
(***************************************************************************)
(* Reads of requests.                                                      *)
(***************************************************************************)
LEMMA OneRequest ==
  ASSUME IInv, NEW r \in Request, NEW n \in Local, req' = [req EXCEPT ![r] = n],
         UNCHANGED <<entity, active, member, boot, history>>, RequestHolds(r)'
  PROVE  IInv'
<1>1. req' \in [Request -> Local] /\ \A q \in Request \ {r} : req'[q] = req[q]
  BY DEF IInv, TypeOK
<1>2. \A q \in Request : RequestHolds(q)'
  <2> SUFFICES ASSUME NEW q \in Request, q # r PROVE RequestHolds(q)'
    OBVIOUS
  <2>1. req'[q] = req[q] /\ RequestHolds(q)
    BY <1>1, IInvParts
  <2> QED
    BY <2>1 DEF RequestHolds, Members, Entities, Linked, Effect
<1>3. RowsHold'
  BY <1>1, RowsFrame DEF IInv, TypeOK
<1>4. \A w \in Process : ProcessHolds(w)'
  BY SameMembers, ProcessesFrame
<1> QED
  BY <1>2, <1>3, <1>4, Parts

LEMMA FailInv ==
  ASSUME IInv, NEW r \in Request, Fail(r)
  PROVE  IInv'
<1>1. req'[r] = Idle
  BY DEF Fail, IInv, TypeOK
<1> QED
  BY <1>1, IdleFacts, IdleHolds, OneRequest DEF Fail

LEMMA ValidateNewMembersInv ==
  ASSUME IInv, NEW r \in Request, NEW k \in Key, NEW M \in SUBSET Principal,
         ValidateNewMembers(r, k, M)
  PROVE  IInv'
<1> DEFINE n == [Idle EXCEPT !.op = "create_group", !.prov = k[1], !.key = k, !.members = M]
<1>1. k[1] \in Provider
  BY DEF Key
<1>2. n \in Local /\ n.op = "create_group" /\ n.prov = k[1] /\ n.key = k /\ n.members = M
  BY <1>1, IdleFacts DEF Local
<1>3. /\ req' = [req EXCEPT ![r] = n] /\ UNCHANGED <<entity, active, member, boot, history>>
      /\ M \subseteq Linked(k[1])
  BY DEF ValidateNewMembers
<1> HIDE DEF n
<1>4. req'[r] = n
  BY <1>3 DEF IInv, TypeOK
<1>5. RequestHolds(r)'
  BY <1>2, <1>3, <1>4 DEF RequestHolds, Linked, Entities
<1> QED
  BY <1>2, <1>3, <1>5, OneRequest

LEMMA ReadUserInv ==
  ASSUME IInv, NEW r \in Request, NEW p \in Provider, NEW u \in User, NEW sets \in BOOLEAN,
         NEW a \in BOOLEAN, ReadUser(r, p, u, sets, a)
  PROVE  IInv'
<1> DEFINE b == IF sets THEN a ELSE u \in active
           n == [Idle EXCEPT !.op = "write_user", !.prov = p, !.id = u, !.sets = sets, !.active = b]
<1>1. b \in BOOLEAN /\ u \in Principal /\ (~sets => (b <=> u \in active))
  <2>1. CASE sets
    BY <2>1 DEF Principal
  <2>2. CASE ~sets
    BY <2>2 DEF Principal
  <2> QED
    BY <2>1, <2>2
<1>2. req' = [req EXCEPT ![r] = n] /\ UNCHANGED <<entity, active, member, boot, history>>
  BY DEF ReadUser
<1> HIDE DEF b
<1>3. n \in Local /\ n.op = "write_user" /\ n.id = u /\ n.sets = sets /\ n.active = b
  BY <1>1, IdleFacts DEF Local
<1> HIDE DEF n
<1>4. req'[r] = n
  BY <1>2 DEF IInv, TypeOK
<1>5. RequestHolds(r)'
  BY <1>1, <1>2, <1>3, <1>4 DEF RequestHolds
<1> QED
  BY <1>2, <1>3, <1>5, OneRequest

LEMMA ReadGroupInv ==
  ASSUME IInv, NEW r \in Request, NEW p \in Provider, NEW g \in Group, NEW c \in Change,
         ReadGroup(r, p, g, c)
  PROVE  IInv'
<1>1. PICK M : M = Effect(c, Members(g))
  OBVIOUS
<1>2. M \subseteq Linked(p) /\ M \subseteq Principal /\ g \in Principal
  BY <1>1 DEF ReadGroup, Linked, Entities, Principal
<1>3. PICK n : n = [Idle EXCEPT !.op = "write_group", !.prov = p, !.id = g, !.change = c, !.members = M]
  OBVIOUS
<1>4. n \in Local /\ n.op = "write_group" /\ n.prov = p /\ n.id = g /\ n.change = c /\ n.members = M
  BY <1>2, <1>3, IdleFacts DEF Local
<1>5. req' = [req EXCEPT ![r] = n] /\ UNCHANGED <<entity, active, member, boot, history>>
  BY <1>1, <1>3 DEF ReadGroup
<1>6. req'[r] = n
  BY <1>5 DEF IInv, TypeOK
<1>7. RequestHolds(r)'
  <2>1. Members(g)' = Members(g) /\ Linked(p)' = Linked(p) /\ Entities' = Entities
    BY <1>5, SameMembers DEF Linked, Entities
  <2>2. M = Effect(c, Members(g)')
    BY <1>1, <2>1
  <2>3. M \cap Entities' \subseteq Linked(p)'
    BY <1>2, <2>1
  <2>4. /\ req'[r].op = "write_group" /\ req'[r].prov = p /\ req'[r].id = g
        /\ req'[r].change = c /\ req'[r].members = M
    BY <1>4, <1>6
  <2> QED
    BY <2>2, <2>3, <2>4 DEF RequestHolds, Effect
<1> QED
  BY <1>4, <1>5, <1>7, OneRequest

-----------------------------------------------------------------------------
(***************************************************************************)
(* The invariant, and what it makes true of all behaviours.                *)
(***************************************************************************)
LEMMA InitInv == Init => IInv
<1> SUFFICES ASSUME Init PROVE IInv
  OBVIOUS
<1> DEFINE seed == [NoEntity EXCEPT !.exists = TRUE]
<1>1. /\ seed \in EntityRow /\ seed.exists /\ seed.link = None
      /\ NoEntity \in EntityRow /\ NoEntity.link = None
  BY DEF NoEntity, EntityRow
<1>2. entity = [x \in Principal |-> IF x = Admin THEN seed ELSE NoEntity]
  BY DEF Init
<1> HIDE DEF seed
<1>3. /\ entity \in [Principal -> EntityRow]
      /\ \A x \in Principal : entity[x].link = None /\ (~entity[x].exists => entity[x] = NoEntity)
  BY <1>1, <1>2
<1>4. RowsHold
  <2>1. TypeOK
    BY <1>3, IdleFacts DEF Init, TypeOK
  <2>2. \A x : Members(x) = {}
    BY DEF Init, Members
  <2>3. RowsOfEntities
    BY <1>3, <2>2, ScimAssumption DEF Init, RowsOfEntities, Principal
  <2>4. MembersAccounted /\ ActiveAccounted
    BY <2>2 DEF Init, MembersAccounted, ActiveAccounted
  <2>5. MembersOfProvider
    BY <2>2 DEF MembersOfProvider
  <2> QED
    BY <2>1, <2>3, <2>4, <2>5 DEF RowsHold
<1>5. \A r \in Request : RequestHolds(r)
  BY IdleFacts DEF Init, RequestHolds
<1>6. \A w \in Process : ProcessHolds(w)
  BY IdleFacts DEF Init, ProcessHolds
<1> QED
  BY <1>4, <1>5, <1>6, IInvParts

LEMMA StutterInv ==
  ASSUME IInv, UNCHANGED vars
  PROVE  IInv'
<1>1. UNCHANGED <<entity, active, member, req, boot, history>>
  BY DEF vars
<1>2. RowsHold'
  BY <1>1, RowsFrame DEF IInv, TypeOK
<1>3. \A r \in Request : RequestHolds(r)'
  BY <1>1, IInvParts DEF RequestHolds, Members, Entities, Linked, Effect
<1>4. \A w \in Process : ProcessHolds(w)'
  BY <1>1, SameMembers, ProcessesFrame
<1> QED
  BY <1>2, <1>3, <1>4, IInvParts, Parts

LEMMA NextInv ==
  ASSUME IInv, [Next]_vars
  PROVE  IInv'
<1>1. ASSUME NEW r \in Request, UserStep(r) PROVE IInv'
  BY <1>1, ReadUserInv, WriteUserInv DEF UserStep
<1>2. ASSUME NEW r \in Request, GroupStep(r) PROVE IInv'
  <2>1. Changes \subseteq Change
    BY DEF Changes
  <2> QED
    BY <1>2, <2>1, ValidateNewMembersInv, CreateGroupInv, ReadGroupInv, ReplaceGroupInv DEF GroupStep
<1>3. ASSUME RowStep PROVE IInv'
  BY <1>3, CreateUserInv, CreateEntityInv, RemoveInv, UpdateEntityInv DEF RowStep, Delete, DeleteEntity
<1>4. ASSUME RelationStep PROVE IInv'
  BY <1>4, RelationInv DEF RelationStep
<1>5. ASSUME NEW w \in Process, BootStep(w) PROVE IInv'
  BY <1>5, FindEntityIDInv, CreateBootstrapUserInv, HasAdminRelationInv, CreateAdminRelationInv,
     ApplyEndsInv DEF BootStep
<1> QED
  BY <1>1, <1>2, <1>3, <1>4, <1>5, FailInv, StutterInv DEF Next

\* Whatever is interleaved, requests and processes rely on what they read
\* only as long as nobody wrote it (users/service.go, groups/service.go,
\* bootstrap.go).
THEOREM IInvHolds == Spec => []IInv
BY InitInv, NextInv, PTL DEF Spec

\* Rows, requests and processes are as declared.
THEOREM TypeCorrect == Spec => []TypeOK
<1>1. IInv => TypeOK
  BY DEF IInv
<1> QED
  BY <1>1, IInvHolds, PTL

\* The members of a group are what the acknowledged changes add up to, but
\* for a PATCH that stored what it had computed before another write
\* (groups/service.go Patch, repository.go reconcileMembers).
THEOREM MembersAreAccounted == Spec => []MembersAccounted
<1>1. IInv => MembersAccounted
  BY DEF IInv
<1> QED
  BY <1>1, IInvHolds, PTL

\* So is the value of active (users/service.go Patch, repository.go Replace).
THEOREM ActiveIsAccounted == Spec => []ActiveAccounted
<1>1. IInv => ActiveAccounted
  BY DEF IInv
<1> QED
  BY <1>1, IInvHolds, PTL

\* No provider's group has another's member through SCIM, whatever goes and
\* comes between validation and insertion (groups/repository.go
\* ValidateMembers).
THEOREM ProvidersStayApart == Spec => []MembersOfProvider
<1>1. IInv => MembersOfProvider
  BY DEF IInv
<1> QED
  BY <1>1, IInvHolds, PTL

-----------------------------------------------------------------------------
(***************************************************************************)
(* Bootstrap: where a process in Apply may go.                             *)
(***************************************************************************)
LEMMA CommitKeepsPlace ==
  ASSUME IInv, NEW w \in Process, boot'[w] = boot[w] \/ \E X : boot'[w] = Touched(w, X)
  PROVE  boot'[w].pc = boot[w].pc
<1>1. boot[w] \in Boot
  BY DEF IInv, TypeOK
<1> QED
  BY <1>1 DEF Touched, Boot

\* Only its own steps move a process.
LEMMA OwnSteps ==
  ASSUME IInv, [Next]_vars, NEW w \in Process
  PROVE  boot'[w].pc = boot[w].pc \/ BootStep(w)
<1>1. ASSUME NEW v \in Process, v # w, BootStep(v)
      PROVE  boot'[w] = boot[w] \/ \E X : boot'[w] = Touched(w, X)
  <2>1. CASE (\E u \in User : CreateBootstrapUser(v, u)) \/ CreateAdminRelation(v)
    BY <1>1, <2>1 DEF CreateBootstrapUser, CreateAdminRelation, BootCommit
  <2>2. CASE FindEntityID(v) \/ HasAdminRelation(v) \/ ApplyFails(v) \/ Restart(v)
    BY <1>1, <2>2 DEF FindEntityID, HasAdminRelation, ApplyFails, Restart, BootRead, IInv, TypeOK
  <2> QED
    BY <1>1, <2>1, <2>2 DEF BootStep
<1>2. ASSUME NEW r \in Request, UserStep(r) \/ Fail(r)
      PROVE  boot'[w] = boot[w]
  BY <1>2 DEF UserStep, ReadUser, WriteUser, Fail
<1>3. ASSUME NEW r \in Request, GroupStep(r)
      PROVE  boot'[w] = boot[w] \/ \E X : boot'[w] = Touched(w, X)
  BY <1>3 DEF GroupStep, ValidateNewMembers, CreateGroup, BootTouched, ReadGroup, ReplaceGroup
<1>4. ASSUME RowStep
      PROVE  boot'[w] = boot[w] \/ \E X : boot'[w] = Touched(w, X)
  BY <1>4 DEF RowStep, CreateUser, CreateEntity, Insert, Delete, DeleteEntity, Remove, BootTouched,
              UpdateEntity
<1>5. ASSUME RelationStep
      PROVE  boot'[w] = boot[w] \/ \E X : boot'[w] = Touched(w, X)
  BY <1>5 DEF RelationStep, CreateRelation, DeleteRelation, BootTouched
<1>6. CASE UNCHANGED vars
  BY <1>6 DEF vars
<1> QED
  BY <1>1, <1>2, <1>3, <1>4, <1>5, <1>6, CommitKeepsPlace DEF Next

LEMMA BootReads ==
  ASSUME IInv, NEW w \in Process, NEW pc, NEW x, BootRead(w, pc, x)
  PROVE  boot'[w].pc = pc
BY DEF BootRead, IInv, TypeOK

LEMMA StepsOfApply ==
  ASSUME IInv, NEW w \in Process, BootStep(w)
  PROVE  /\ boot'[w].pc = "done" => CreateAdminRelation(w) \/
              (boot[w].pc = "role" /\ <<boot[w].id, Admin>> \in member /\ UNCHANGED <<entity, member>>)
         /\ boot'[w].pc = "failed" => Refused(w)
<1>1. CASE FindEntityID(w)
  <2>1. boot'[w].pc \in {"create", "role"}
    BY <1>1, BootReads DEF FindEntityID
  <2> QED
    BY <2>1
<1>2. CASE \E u \in User : CreateBootstrapUser(w, u)
  <2>1. boot'[w].pc = "role"
    BY <1>2 DEF CreateBootstrapUser, BootCommit
  <2> QED
    BY <2>1
<1>3. CASE HasAdminRelation(w)
  <2>1. CASE <<boot[w].id, Admin>> \in member
    BY <1>3, <2>1, BootReads DEF HasAdminRelation
  <2>2. CASE <<boot[w].id, Admin>> \notin member
    <3>1. boot'[w] = [boot[w] EXCEPT !.pc = "relate"] /\ boot[w] \in Boot
      BY <1>3, <2>2 DEF HasAdminRelation, IInv, TypeOK
    <3>2. boot'[w].pc = "relate"
      BY <3>1 DEF Boot
    <3> QED
      BY <3>2
  <2> QED
    BY <2>1, <2>2
<1>4. CASE CreateAdminRelation(w)
  <2>1. boot'[w].pc = "done"
    BY <1>4 DEF CreateAdminRelation, BootCommit
  <2> QED
    BY <1>4, <2>1
<1>5. CASE ApplyFails(w)
  <2>1. boot'[w].pc = "failed"
    BY <1>5, BootReads DEF ApplyFails
  <2> QED
    BY <1>5, <2>1 DEF ApplyFails
<1>6. CASE Restart(w)
  <2>1. boot'[w].pc = "start"
    BY <1>6, IdleFacts DEF Restart, IInv, TypeOK
  <2> QED
    BY <2>1
<1> QED
  BY <1>1, <1>2, <1>3, <1>4, <1>5, <1>6 DEF BootStep

\* When Apply ends well, the entity of the bootstrap login is a member of
\* oad:admin, in any interleaving of processes, SCIM and the generic API
\* (bootstrap.go applyOne).
THEOREM BootstrapGrants == Spec => BootstrapGrantsAdmin
<1>1. ASSUME IInv, [Next]_vars, NEW w \in Process, boot[w].pc # "done", boot'[w].pc = "done"
      PROVE  \E x \in Entities' : entity'[x].link = BootKey /\ <<x, Admin>> \in member'
  <2>1. BootStep(w) /\ ProcessHolds(w)
    BY <1>1, OwnSteps, IInvParts
  <2>2. CASE CreateAdminRelation(w)
    <3>1. /\ boot[w].id \in Entities /\ boot[w].pc = "relate" /\ entity' = entity
          /\ <<boot[w].id, Admin>> \in member'
      BY <2>2 DEF CreateAdminRelation, CanRelate
    <3> QED
      BY <2>1, <3>1 DEF ProcessHolds, Entities
  <2>3. CASE /\ boot[w].pc = "role" /\ <<boot[w].id, Admin>> \in member
             /\ UNCHANGED <<entity, member>>
    <3>1. boot[w].id \in Entities
      BY <1>1, <2>3, MemberEntities
    <3> QED
      BY <2>1, <2>3, <3>1 DEF ProcessHolds, Entities
  <2> QED
    BY <1>1, <2>1, <2>2, <2>3, StepsOfApply
<1>2. IInv /\ [Next]_vars =>
        [\A w \in Process :
           boot[w].pc # "done" /\ boot'[w].pc = "done" =>
             \E x \in Entities' : entity'[x].link = BootKey /\ <<x, Admin>> \in member']_vars
  BY <1>1
<1> QED
  BY <1>2, IInvHolds, PTL DEF Spec, BootstrapGrantsAdmin

\* Apply fails only by a race, without oad:admin, or for an entity that the
\* generic API gave the bootstrap user's external id (bootstrap.go Apply).
THEOREM BootstrapFailures == Spec => BootstrapFailsOnlyByRace
<1>1. ASSUME IInv, [Next]_vars, NEW w \in Process, boot[w].pc # "failed", boot'[w].pc = "failed"
      PROVE  \/ ~boot[w].fresh
             \/ Admin \notin Entities
             \/ \E u \in Entities : entity[u].link = None /\ entity[u].ext = <<"bootstrap", BootKey>>
  <2>1. Refused(w) /\ ProcessHolds(w)
    BY <1>1, OwnSteps, StepsOfApply, IInvParts
  <2> SUFFICES ASSUME boot[w].fresh, Admin \in Entities
               PROVE  \E u \in Entities :
                        entity[u].link = None /\ entity[u].ext = <<"bootstrap", BootKey>>
    OBVIOUS
  <2>2. boot[w].pc = "create"
    BY <2>1 DEF Refused, CanRelate, ProcessHolds
  <2>3. FreeLink(BootKey)
    BY <2>1, <2>2 DEF ProcessHolds
  <2>4. PICK u \in Entities : entity[u].ext = <<"bootstrap", BootKey>>
    BY <2>1, <2>2, <2>3 DEF Refused
  <2>5. entity[u].link # None => entity[u].link = BootKey
    <3>1. u \in Principal
      BY DEF Entities
    <3>2. entity[u].link # None => entity[u].ext[2] = entity[u].link
      BY <1>1, <3>1 DEF IInv, RowsOfEntities
    <3>3. PICK e : e = <<"bootstrap", BootKey>>
      OBVIOUS
    <3>4. e[2] = BootKey
      BY <3>3
    <3> QED
      BY <2>4, <3>2, <3>3, <3>4
  <2> QED
    BY <2>3, <2>4, <2>5 DEF FreeLink
<1>2. IInv /\ [Next]_vars =>
        [\A w \in Process :
           boot[w].pc # "failed" /\ boot'[w].pc = "failed" =>
             \/ ~boot[w].fresh
             \/ Admin \notin Entities
             \/ \E u \in Entities : entity[u].link = None /\ entity[u].ext = <<"bootstrap", BootKey>>]_vars
  BY <1>1
<1> QED
  BY <1>2, IInvHolds, PTL DEF Spec, BootstrapFailsOnlyByRace
=============================================================================
