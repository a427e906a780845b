---------------------------- MODULE IdentityCache ----------------------------
(***************************************************************************)
(* The identity cache of src/internal/auth/cache.go together with the five *)
(* reads of the resolver it wraps (auth/resolver.go) and the writers that  *)
(* change what those reads return.                                         *)
(*                                                                         *)
(* The cache is a map from a user to a list element plus an LRU list of    *)
(* elements, both under one mutex; the mutex is released while the         *)
(* resolver queries PostgreSQL, so any number of resolutions, hits,        *)
(* invalidations and directory writes interleave with a resolution.        *)
(*                                                                         *)
(* An identity is modelled by how long it has been wrong: age = 0 while    *)
(* every fact it was built from still holds in the directory, and          *)
(* 1 + (clock ticks since the first of them changed) afterwards.  Facts    *)
(* are the five things the resolver reads, in that order.                  *)
(***************************************************************************)
EXTENDS Integers, Sequences, SequencesExt

CONSTANTS
  Key,         \* the users, i.e. the "<provider>:<sub>" keys
  Request,     \* the HTTP requests (goroutines) that authenticate with a JWT
  Writer,      \* the SCIM requests of this process that mutate a user
  Elem,        \* the list elements the cache can hold at once
  Capacity,    \* OAD_IDENTITY_CACHE_SIZE
  TTL,         \* OAD_IDENTITY_CACHE_TTL, in clock ticks
  MaxResolve,  \* longest time from a miss to the store, in clock ticks
  None         \* "no element", "no key": the Go zero value

ASSUME CacheAssumption ==
  /\ Capacity \in Nat \ {0}
  /\ TTL \in Nat
  /\ MaxResolve \in Nat
  /\ None \notin Key \cup Elem

VARIABLES
  items,    \* items[k]: the element the map holds for k, or None
  lru,      \* the LRU list, front first
  entry,    \* entry[e]: the cachedEntry stored in element e
  req,      \* req[r]: the local state of request r
  status,   \* status[k]: what the directory says of user k
  writer    \* writer[w]: the user w has changed but not yet invalidated

vars == <<items, lru, entry, req, status, writer>>

(***************************************************************************)
(* The resolver's reads, and where each stands in the order of a           *)
(* resolution.  A request whose pc is f is about to read f.                *)
(***************************************************************************)
Fact == {"link", "active", "groups", "group_ids", "systems"}
Reading == Fact \cup {"store"}
Rank == [link |-> 1, active |-> 2, groups |-> 3, group_ids |-> 4,
         systems |-> 5, store |-> 6]

AgeLimit == TTL + MaxResolve + 2   \* ages are not counted further than this
Age == 0 .. AgeLimit
Outcome == {"none", "identity", "not_provisioned", "disabled", "error"}

NoEntry == [key |-> None, age |-> 0, left |-> 0, dead |-> FALSE, raced |-> FALSE]
Idle == [pc |-> "idle", key |-> None, age |-> 0, elapsed |-> 0,
         dead |-> FALSE, raced |-> FALSE, out |-> "none"]
Started(k) == [pc |-> "link", key |-> k, age |-> 0, elapsed |-> 0,
               dead |-> FALSE, raced |-> FALSE, out |-> "none"]
Served(k, out, age, dead, raced) ==
  [pc |-> "served", key |-> k, age |-> age, elapsed |-> 0,
   dead |-> dead, raced |-> raced, out |-> out]

(***************************************************************************)
(* left is expiresAt - now.  dead and raced are history: dead says that    *)
(* Invalidate(key) ran after the identity had become wrong, raced that it  *)
(* ran while the identity was being resolved.                              *)
(***************************************************************************)
Entry == [key : Key \cup {None}, age : Age, left : 0 .. TTL,
          dead : BOOLEAN, raced : BOOLEAN]
Local == [pc : Reading \cup {"idle", "served"}, key : Key \cup {None}, age : Age,
          elapsed : 0 .. MaxResolve, dead : BOOLEAN, raced : BOOLEAN, out : Outcome]

TypeOK ==
  /\ items \in [Key -> Elem \cup {None}]
  /\ lru \in Seq(Elem)
  /\ entry \in [Elem -> Entry]
  /\ req \in [Request -> Local]
  /\ status \in [Key -> {"absent", "disabled", "active"}]
  /\ writer \in [Writer -> Key \cup {None}]

Init ==
  /\ items = [k \in Key |-> None]
  /\ lru = <<>>
  /\ entry = [e \in Elem |-> NoEntry]
  /\ req = [r \in Request |-> Idle]
  /\ status \in [Key -> {"absent", "disabled", "active"}]
  /\ writer = [w \in Writer |-> None]

InFlight(r) == req[r].pc \in Reading

\* Mutant: a cached identity is served whatever its expiry.
LiveForever(k) == items[k] # None

Live(k) == items[k] # None /\ entry[items[k]].left > 0

(***************************************************************************)
(* container/list: the list without element e, and the list with e moved   *)
(* to its front.                                                           *)
(***************************************************************************)
Unlinked(s, e) ==
  LET i == CHOOSE j \in DOMAIN s : s[j] = e IN RemoveAt(s, i)

Fronted(s, e) == <<e>> \o Unlinked(s, e)

(***************************************************************************)
(* Resolve, first critical section.                                        *)
(***************************************************************************)
ResolveHit(r, k) ==
  /\ req[r].pc = "idle"
  /\ Live(k)
  /\ lru' = Fronted(lru, items[k])
  /\ req' = [req EXCEPT ![r] =
               Served(k, "identity", entry[items[k]].age, entry[items[k]].dead,
                      entry[items[k]].raced)]
  /\ UNCHANGED <<items, entry, status, writer>>

DropItem(k) ==
  IF items[k] = None
  THEN UNCHANGED <<items, lru>>
  ELSE /\ items' = [items EXCEPT ![k] = None]
       /\ lru' = Unlinked(lru, items[k])

ResolveMiss(r, k) ==
  /\ req[r].pc = "idle"
  /\ ~Live(k)
  /\ DropItem(k)
  /\ entry' = [e \in Elem |-> IF e = items[k] THEN NoEntry ELSE entry[e]]
  /\ req' = [req EXCEPT ![r] = Started(k)]
  /\ UNCHANGED <<status, writer>>

(***************************************************************************)
(* IdentityResolver.Resolve: five separate queries, no transaction.        *)
(***************************************************************************)
Goto(r, pc) == req' = [req EXCEPT ![r].pc = pc]

Fail(r, out) ==
  req' = [req EXCEPT ![r] = Served(req[r].key, out, 0, FALSE, FALSE)]

FindEntityID(r) ==
  /\ req[r].pc = "link"
  /\ IF status[req[r].key] = "absent" THEN Fail(r, "not_provisioned") ELSE Goto(r, "active")
  /\ UNCHANGED <<items, lru, entry, status, writer>>

\* Mutant: the account's active flag is not consulted.
IsActiveUnchecked(r) ==
  /\ req[r].pc = "active"
  /\ Goto(r, "groups")
  /\ UNCHANGED <<items, lru, entry, status, writer>>

\* Before this read only "link" can have changed.  The entity found is then gone, or
\* it lives on, active, for the link of another provider.
IsActive(r) ==
  /\ req[r].pc = "active"
  /\ IF req[r].age > 0 THEN Fail(r, "not_provisioned") \/ Goto(r, "groups")
     ELSE IF status[req[r].key] = "disabled" THEN Fail(r, "disabled")
     ELSE Goto(r, "groups")
  /\ UNCHANGED <<items, lru, entry, status, writer>>

Groups(r) ==
  /\ req[r].pc = "groups"
  /\ Goto(r, "group_ids")
  /\ UNCHANGED <<items, lru, entry, status, writer>>

\* Two queries: the ids of the groups by their external ids, none if there are no
\* groups, then the systems that user and groups have a role in.
AllowedSystems(r) ==
  /\ \/ req[r].pc = "group_ids" /\ Goto(r, "systems")
     \/ req[r].pc = "systems" /\ Goto(r, "store")
  /\ UNCHANGED <<items, lru, entry, status, writer>>

\* Any of the five queries can fail; nothing is cached then.
QueryFails(r) ==
  /\ req[r].pc \in Fact
  /\ Fail(r, "error")
  /\ UNCHANGED <<items, lru, entry, status, writer>>

(***************************************************************************)
(* Resolve, second critical section: evict from the back until there is    *)
(* room, forgetting the evicted keys, then push the new element.           *)
(***************************************************************************)
\* Mutant: room is made only when the cache is already over its capacity.
KeptOffByOne == IF Len(lru) <= Capacity THEN lru ELSE SubSeq(lru, 1, Capacity - 1)

Kept == IF Len(lru) < Capacity THEN lru ELSE SubSeq(lru, 1, Capacity - 1)
Evicted == {lru[i] : i \in Capacity .. Len(lru)}

\* Mutant: eviction unlinks the element but leaves its key in the map.
ForgottenNone == {}

Forgotten == {entry[x].key : x \in Evicted}

\* Mutant: the entry outlives its time to live by a tick.
CachedTooLong(q) ==
  [key |-> q.key, age |-> q.age, left |-> TTL + 1, dead |-> q.dead, raced |-> q.raced]

Cached(q) ==
  [key |-> q.key, age |-> q.age, left |-> TTL, dead |-> q.dead, raced |-> q.raced]

Store(r) ==
  /\ req[r].pc = "store"
  /\ \E e \in Elem :
       /\ \A i \in DOMAIN Kept : Kept[i] # e
       /\ lru' = <<e>> \o Kept
       /\ items' = [k \in Key |->
                      IF k = req[r].key THEN e
                      ELSE IF k \in Forgotten THEN None
                      ELSE items[k]]
       /\ entry' = [x \in Elem |->
                      IF x = e THEN Cached(req[r])
                      ELSE IF x \in Evicted THEN NoEntry
                      ELSE entry[x]]
  /\ req' = [req EXCEPT ![r] = Served(@.key, "identity", @.age, @.dead, @.raced)]
  /\ UNCHANGED <<status, writer>>

Respond(r) ==
  /\ req[r].pc = "served"
  /\ req' = [req EXCEPT ![r] = Idle]
  /\ UNCHANGED <<items, lru, entry, status, writer>>

(***************************************************************************)
(* Directory writes.  Supersede(k, f): fact f of user k changes, so every  *)
(* identity of k that was built from the old value is wrong from now on.   *)
(***************************************************************************)
Wrong(age) == IF age = 0 THEN 1 ELSE age

Supersede(k, f) ==
  /\ req' = [r \in Request |->
               IF InFlight(r) /\ req[r].key = k /\ Rank[req[r].pc] > Rank[f]
               THEN [req[r] EXCEPT !.age = Wrong(@)]
               ELSE req[r]]
  /\ entry' = [e \in Elem |->
                 IF entry[e].key = k THEN [entry[e] EXCEPT !.age = Wrong(@)] ELSE entry[e]]

\* A SCIM PUT or PATCH of user k that sets active, one that changes nothing the
\* resolver reads, or a DELETE, which removes the link first.
ChangeUser(k) ==
  /\ status[k] # "absent"
  /\ \/ /\ UNCHANGED <<status, req, entry>>
     \/ /\ status' = [status EXCEPT ![k] = IF @ = "active" THEN "disabled" ELSE "active"]
        /\ Supersede(k, "active")
     \/ /\ status' = [status EXCEPT ![k] = "absent"]
        /\ Supersede(k, "link")

\* SCIM POST /Users or the bootstrap: no invalidation, errors are not cached.
Provision(k) ==
  /\ status[k] = "absent"
  /\ \E s \in {"active", "disabled"} : status' = [status EXCEPT ![k] = s]
  /\ UNCHANGED <<items, lru, entry, req, writer>>

\* Replace, Patch and Delete of scim/users: commit here, invalidate in a later step.
CommitUser(w, k) ==
  /\ writer[w] = None
  /\ ChangeUser(k)
  /\ writer' = [writer EXCEPT ![w] = k]
  /\ UNCHANGED <<items, lru>>

\* The same operations on another instance, or on the same entity through the link of
\* another provider: their invalidation does not reach k here.
CommitUserElsewhere(k) ==
  /\ ChangeUser(k)
  /\ UNCHANGED <<items, lru, writer>>

\* Group membership, entities with the external id of a group, and role grants: SCIM
\* Groups, relations, creation and deletion of entities.
\* None of them invalidates.
CommitGraph(k, f) ==
  /\ f \in {"groups", "group_ids", "systems"}
  /\ status[k] # "absent"
  /\ Supersede(k, f)
  /\ UNCHANGED <<items, lru, status, writer>>

\* History: an identity that is already wrong has now been invalidated as well.
Killed(c) == IF c.age > 0 THEN [c EXCEPT !.dead = TRUE] ELSE c

\* Mutant: the invalidation does not remove the entry.
InvalidateNothing(w) ==
  /\ writer[w] # None
  /\ entry' = [e \in Elem |-> IF entry[e].key = writer[w] THEN Killed(entry[e]) ELSE entry[e]]
  /\ writer' = [writer EXCEPT ![w] = None]
  /\ UNCHANGED <<items, lru, req, status>>

Invalidate(w) ==
  /\ writer[w] # None
  /\ LET k == writer[w] IN
       /\ DropItem(k)
       /\ entry' = [e \in Elem |->
                      IF e = items[k] THEN NoEntry
                      ELSE IF entry[e].key = k THEN Killed(entry[e])
                      ELSE entry[e]]
       /\ req' = [r \in Request |->
                    IF InFlight(r) /\ req[r].key = k
                    THEN [Killed(req[r]) EXCEPT !.raced = TRUE]
                    ELSE req[r]]
  /\ writer' = [writer EXCEPT ![w] = None]
  /\ UNCHANGED status

(***************************************************************************)
(* One tick of the wall clock.  MaxResolve bounds how long a resolution    *)
(* may take; nothing in the code does.                                     *)
(***************************************************************************)
Older(age) == IF age = 0 \/ age = AgeLimit THEN age ELSE age + 1

Tick ==
  /\ \A r \in Request : InFlight(r) => req[r].elapsed < MaxResolve
  /\ entry' = [e \in Elem |->
                 [entry[e] EXCEPT !.age = Older(@), !.left = IF @ > 0 THEN @ - 1 ELSE 0]]
  /\ req' = [r \in Request |->
               IF InFlight(r)
               THEN [req[r] EXCEPT !.age = Older(@), !.elapsed = @ + 1]
               ELSE req[r]]
  /\ UNCHANGED <<items, lru, status, writer>>

Resolving(r) ==
  \/ FindEntityID(r) \/ IsActive(r) \/ Groups(r) \/ AllowedSystems(r)
  \/ QueryFails(r) \/ Store(r)

Next ==
  \/ \E r \in Request, k \in Key : ResolveHit(r, k) \/ ResolveMiss(r, k)
  \/ \E r \in Request : Resolving(r) \/ Respond(r)
  \/ \E w \in Writer : Invalidate(w) \/ \E k \in Key : CommitUser(w, k)
  \/ \E k \in Key : Provision(k) \/ CommitUserElsewhere(k)
  \/ \E k \in Key, f \in Fact : CommitGraph(k, f)
  \/ Tick

Spec == Init /\ [][Next]_vars

(***************************************************************************)
(* Properties.                                                             *)
(***************************************************************************)

\* The map and the list agree: the element the map holds for a user is in the
\* list exactly once and carries that user's entry, so the elements evicted,
\* moved and removed through the map are the ones the list knows (cache.go:44-53,
\* 63-73, 84-87).  Elements the map no longer holds may remain in the list.
CacheCoherent ==
  /\ \A i, j \in DOMAIN lru : lru[i] = lru[j] => i = j
  /\ \A k \in Key : items[k] # None =>
       /\ \E i \in DOMAIN lru : lru[i] = items[k]
       /\ entry[items[k]].key = k

\* The cache never holds more elements than its capacity, those the map has
\* lost track of included (cache.go:63).
CapacityRespected == Len(lru) <= Capacity

\* An identity taken from the cache stopped being right less than
\* TTL + MaxResolve ticks before the request got it, one resolved for the request
\* at most MaxResolve: the time to live runs from the store, not from the reads
\* (cache.go:46, 71).
Fresh(age) == age <= MaxResolve + TTL \/ age <= MaxResolve + 1
StalenessBounded ==
  \A r \in Request : req[r].pc = "served" => Fresh(req[r].age)

\* After Invalidate(k), the map offers a superseded identity of k only if the
\* resolution that stored it was already running when Invalidate ran
\* (cache.go:57-74 against 83-88).
StaleOnlyByRace ==
  \A k \in Key : items[k] # None /\ entry[items[k]].dead => entry[items[k]].raced

\* An identity nothing has superseded belongs to a user who is provisioned and
\* active: failures are never cached and a disabled user is never stored
\* (cache.go:57-60, resolver.go:49-60).
CurrentIsActive ==
  \A e \in Elem : entry[e].key # None /\ entry[e].age = 0 => status[entry[e].key] = "active"

(***************************************************************************)
(* The inductive invariant: what holds of a resolution in flight, so that  *)
(* what it stores keeps the properties above.  An identity in flight has   *)
(* been wrong for no longer than the resolution has run; whatever survived *)
(* the read of active is active until it is superseded.                    *)
(***************************************************************************)
RequestOK(q) ==
  /\ q.pc \in Reading =>
       /\ q.key \in Key
       /\ q.age > 0 => q.age <= q.elapsed + 1
       /\ q.dead => q.raced
  /\ q.pc = "active" /\ q.age = 0 => status[q.key] # "absent"
  /\ q.pc \in {"groups", "group_ids", "systems", "store"} /\ q.age = 0 => status[q.key] = "active"
  /\ q.pc = "served" => Fresh(q.age)

EntryOK(c) == c.left > 0 /\ c.age > 0 => c.age + c.left <= TTL + MaxResolve + 1

\* Everything the code maintains from step to step about the map, the list, the
\* stored identities and the resolutions in flight (cache.go:40-89).
IInv ==
  /\ TypeOK
  /\ CacheCoherent
  /\ CapacityRespected
  /\ StaleOnlyByRace
  /\ CurrentIsActive
  /\ \A r \in Request : RequestOK(req[r])
  /\ \A e \in Elem : EntryOK(entry[e])

=============================================================================
