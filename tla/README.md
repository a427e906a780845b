# A formal model of OAD

OAD (Open Authoritative Directory) is an HTTP server over PostgreSQL that keeps a directory of
typed entities and relations for authorization systems, takes users and groups in over SCIM, and
notifies subscribers of changes by webhook. This directory holds TLA+ models of its concurrent
parts, the TLC configurations that check them on small instances, and theorems that TLAPS proves
for every instance. Paths below are relative to `src/`.

## 1. The system

| Component | State | Operations | Interacts with |
|---|---|---|---|
| Identity cache (`internal/auth/cache.go`) | map key -> list element, LRU list, both under one mutex; entries with an expiry | `Resolve`, `Invalidate` | resolver on a miss; SCIM users invalidate it; the middleware takes identities from it |
| Identity resolver (`internal/auth/resolver.go`) | none; reads links, entities, relations | `Resolve`: five queries without a transaction | the directory tables |
| Authentication middleware (`internal/api/middleware/auth.go`, `internal/auth/identity.go`, `mtls.go`, `jwt.go`) | the `Identity` object in the request's context | token or certificate -> identity, `X-OAD-System-Id` -> `ActiveSystemID` | cache; every handler reads the identity |
| Role and scope checks (`internal/api/middleware/authz.go`, `internal/api/router.go`) | none | predicates on the identity | middleware |
| System scope, row-level security (`internal/db/scope.go`, `migrations/000001_initial_schema.up.sql`) | `app.current_system_id` on each pooled connection | `WithSystemScope`, `WithAuthScope`, four policies | every write, some reads |
| Audit log (`internal/audit/audit.go`) | append-only table | `Write`, `WriteFromContext`, in the transaction of the mutation | read by the dispatcher and by the changelog |
| Webhook dispatcher (`internal/webhook/dispatcher.go`, `repository.go`) | `webhook_delivery` rows; the batch in memory | `enqueue`, `dispatch`, every 5 s in every process | audit log, subscriptions, subscribers' HTTP endpoints |
| Webhook subscriptions (`internal/webhook/service.go`) | `webhook_subscription` rows | create, update, delete | dispatcher, audit log |
| Entities, relations (`internal/entity`, `internal/relation`) | tables | CRUD, bulk upsert, cascades | types, audit log |
| Entity types (`internal/entitytype`) | table, JSON schemas | CRUD with checks for use | entities, relations |
| Systems (`internal/system`) | entities of type System: `external_id` and properties `name`, `active` | create, patch | the entity API writes the same rows; overlays, schemas |
| Overlay schemas (`internal/overlayschema`) | table, one JSON schema per system and entity type | create, update, delete after a check for use | systems, overlays |
| Property overlays (`internal/overlay`) | table, one row per entity and system | create, update, delete, scoped to the caller's system | overlay schemas, scope |
| SCIM users and groups (`internal/scim/users`, `internal/scim/groups`) | entities, links of providers, membership relations | POST, PUT, PATCH, DELETE | cache invalidation, audit log |
| SCIM parser, PATCH (`internal/scim/parser`, `*/patch.go`, `*/filter.go`) | none | filter text -> expression -> SQL; PATCH of properties and members | SCIM services |
| Bootstrap (`internal/auth/bootstrap.go`) | users and admin relations, at start-up | `Apply` | SCIM creates the same users |
| Retrieval (`internal/retrieval`) | retrieval log | lookup, filter, changelog, export | entities, audit log |
| Configuration (`internal/config`) | a value | defaults < file < environment < flags | start-up |
| Server process (`cmd/oad/cmd/run.go`, `internal/db/db.go`) | pool, dispatcher goroutine | start, stop | all |

Also in the repository and without state that a model would say anything about: API handlers,
errors, logging, metrics, validation, static SCIM schemas, the user list, the management UI.

**What is hard.** Many requests and several processes run at once, and most of the sequences in
this code are *read, decide, write* with something released in between: the cache's mutex during a
resolution, the database transaction between the two halves of a dispatcher cycle, the read of a
schema before the transaction that relies on it. Objects and connections are shared: one `Identity`
between all requests of a caller, one connection between consecutive transactions. Processes crash
between a post and its record. `PROJECT.json` lists each such place with its line under `hazards`.

**What makes each part correct.**

- *Cache*: map and list agree; never more elements than the capacity; an identity is wrong for a
  bounded time only; an invalidation is undone only by a resolution already under way; nobody
  disabled is cached as active.
- *Identity and scope*: nobody works in a system he may not work in; row, transaction and audit
  entry agree as far as the code ensures it; no scope stays on a connection.
- *Webhooks*: each entry is queued for the subscribers of its system, once, within its window;
  each row is attempted until delivered or given up; what a row says happened did happen.
- *Overlays*: an overlay has a schema of its system that accepts it; overlays of different systems
  share no key; only an active system writes its overlays; a deactivation lasts.
- *Directory*: foreign and unique keys hold by the database; that an entity conforms to its type,
  that a relation is declared, that scope and system agree, and that an upsert writes the entity it
  names, rest on reads made before the transaction.
- *SCIM*: what is stored is what the acknowledged requests add up to; providers share no members;
  a filter means in SQL what it says, and a list of PATCH operations comes to one change.
- *Bootstrap*: when `Apply` ends well, the bootstrap login is an administrator; it fails only for
  a reason.
- *Changelog and export*: a reader knows which entities it holds as they are stored, and which rows
  an export may have left out.

## 2. The modules

| Module | What it is |
|---|---|
| `IdentityCache` | the cache, the resolver's five reads, the directory writes |
| `IdentityCacheProofs` | its theorems |
| `MCIdentityCache` | instances for TLC, statements of the design document |
| `WebhookDispatch` | the dispatcher and the subscription operations |
| `DeliveryLifecycle` | what the webhook subsystem promises of one notification |
| `WebhookDispatchProofs` | its theorems: for any number of dispatchers, for one, and that one implements `DeliveryLifecycle` |
| `MCWebhookDispatch` | instances, statements of documents and comments |
| `RequestScope` | identity object, system header, transaction scope, row-level security, audit entry |
| `RequestScopeProofs` | its theorems |
| `MCRequestScope` | instances, statements of documents and comments |
| `Overlays` | systems, overlay schemas, property overlays, and the entities they refer to |
| `OverlaysProofs` | its theorems |
| `MCOverlays` | instances for TLC |
| `Directory` | entity types, entities, relations and the requests that write them |
| `DirectoryProofs` | its theorems |
| `MCDirectory` | instances for TLC |
| `ScimProvisioning` | SCIM users and groups, the generic API on the same rows, the bootstrap of administrators |
| `ScimProvisioningProofs` | its theorems |
| `MCScimProvisioning` | instances for TLC |
| `Changelog` | transactions with timestamps, a reader of the changelog, a reader of the export |
| `ChangelogProofs` | its theorems |
| `MCChangelog` | instances for TLC |
| `ScimFilter` | the parser of SCIM filters, their translation to SQL, and the grammar both are compared with |
| `ScimPatch` | PATCH of members and attributes, operation by operation |
| `ScimInputsProofs` | the theorems of both |
| `MCScimInputs` | instances of both |

Operators whose comment begins with "Mutant" are variants of the definition after them, each with a
plausible mistake; no specification uses them. They document what each property guards against.

### IdentityCache

| Model | Code |
|---|---|
| `items`, `lru`, `entry` | `IdentityCache.items`, `.lru`, the `cachedEntry` of an element |
| `req[r].pc` | where `Resolve` is: before the first critical section, before one of the five queries, before the second critical section, served |
| `status[k]` | whether user `k` has a link, and its `active` property |
| `writer[w]` | a SCIM handler between its COMMIT and its `Invalidate` |
| `ResolveHit`, `ResolveMiss` | `cache.go:43-55`, one critical section |
| `FindEntityID`, `IsActive`, `Groups`, `AllowedSystems`, `QueryFails` | `resolver.go:48-70`, one step a query, two for `AllowedSystems` |
| `Store` | `cache.go:62-74`, one critical section, evictions included |
| `CommitUser`, `Invalidate` | PUT, PATCH, DELETE of a user; two steps because they are |
| `CommitUserElsewhere`, `CommitGraph` | writes that never invalidate here |
| `Tick` | the wall clock |

An identity is modelled by how long it has been wrong, `age`: 0 while each fact it was built from
still holds, then 1 plus the ticks since the first one changed. That is all the properties tell
apart; what the facts say is not modelled. `dead` and `raced` are history variables. Ages stop at
`AgeLimit`, which is above every bound a property mentions. `MaxResolve` bounds the length of a
resolution: nothing in the code does, and the staleness bound is stated in terms of it.

### WebhookDispatch

| Model | Code |
|---|---|
| `sub`, `rows` | tables `webhook_subscription`, `webhook_delivery` (in the order of `created_at`) |
| `log`, `expired` | committed audit entries; those beyond the 24 hours of `FindUndelivered` |
| `disp[d]` | the locals of one dispatcher: pairs found, batch, row under way, its answer |
| `FindUndelivered`, `CreateDeliveries` | the two transactions of `enqueue` |
| `FindPending`, `Attempt`, `UpdateDelivery` | `dispatch` and, per row, the post and the record of its outcome |
| `Crash` | the process stops anywhere and starts again |
| `CreateSubscription`, `UpdateSubscription`, `DeleteSubscription` | `webhook/service.go`, each with its audit entry |
| `Mutation` | any other mutation, by its audit entry |
| `Expire`, `FallDue` | time |

Audit entries are numbered by timestamp and may commit in any order. A deleted row keeps its place
with status `gone`, so that indices stay valid. `CreateDeliveries` takes all or nothing: PostgreSQL
aborts the transaction at the first failed INSERT. `Fault` stands for a crash, a failed database
call and a request that cannot be built; there are at most `MaxFaults`. `posts` and `acked` are
history. `FindUndelivered` and `FindPending` join `webhook_subscription` on any connection of the
pool; `blind` is one on which no scope was ever set, where row-level security shows no subscription
and so no pair and no row. It is chosen anew at every look and never bounded: a process that serves
no scoped request can have such connections only. That a transaction commits within
the 24 hours of its entry's timestamp is assumed.

`DeliveryLifecycle` is the abstract specification: new, open, then delivered or given up after at
most `MaxRetries` recorded attempts, removed with the subscription. A single dispatcher implements
it (`ImplementsLifecycle`); two do not, as the divergences below show.

### RequestScope

| Model | Code |
|---|---|
| `cached`, `object` | which `Identity` struct the cache hands out; the structs, by address |
| `conn[c]` | `current_setting('app.current_system_id', true)`: `"unset"` is NULL |
| `AuthenticateCached`, `AuthenticateNew` | `resolveJWT`, `MTLSAuthenticator.Authenticate` |
| `SelectSystem` | the header, written into the shared struct |
| `ResolveCallerSystem`, `Begin`, `Insert`, `WriteAudit`, `Commit` | `overlay.Service.Create`, which reads the struct three times |
| `Read` | a read without a scope (`handler/stats.go`) |
| `Forget`, `Reconnect` | the identity leaves the cache; the pool replaces a connection |

`Allowed` is constant: what a change of `AllowedSystems` does to cached identities is the subject
of `IdentityCache`. A database role that bypasses row-level security is not modelled. The checks of
an overlay's entity, schema and properties may fail at any time (what they read is the subject of
`Overlays`).

### Overlays

| Model | Code |
|---|---|
| `system[s]` | an entity of type System: its `external_id` (`ext`, unique), and `name`, `active` of its properties |
| `schema[x]`, `overlay[s][e]` | rows of `system_overlay_schema`, `property_overlay`; the latter by its unique key |
| `entity` | the entities that overlays extend; each has a type, `TypeOf` |
| `req[r]` | the locals of a service call between two statements: what it read, what it will write |
| `CreateSystem`; `ReadSystem`, `PatchSystem` | `system/service.go`: `Create`; the SELECT and the UPDATE of `Patch` |
| `CreateSystemEntity`, `UpdateSystemEntity`, `DeleteSystem` | `entity/service.go` for an entity of type System |
| `ResolveSystemName`, `CreateSchema`, `UpdateSchema` | `overlayschema/service.go`: read and validation, then the transaction |
| `HasOverlays`, `DeleteSchema` | the question on the pool, then the transaction |
| `ResolveCallerSystem`, `ResolveEntity`, `ResolveOverlaySchema` | the three reads and the validation of `overlay/service.go` |
| `CreateOverlay`, `UpdateOverlay`, `DeleteOverlay` | the transactions |
| `CreateEntity`, `DeleteEntity` | entities come and go, their overlays with them (ON DELETE CASCADE) |
| `Fail` | any error return, a lost connection, a stopped process |

A JSON Schema is the set of values it admits (`Valid`), and of a JSON object only its top-level
keys matter beside (`KeysIn`), because that is what the two validations look at. `Prefixed` is a
constant, so that nested names (`a` and `a.b`) are among the instances. Which system a request acts
for is given here: how a concurrent request can change it is the subject of `RequestScope`. An
`UPDATE` of an overlay that was deleted and created again meanwhile fails in the code and may
succeed in the model, which has no row ids for overlays.

`fresh`, `checked` and `anomaly` are history. A property that the code keeps only while no request
overtakes another one says so with them, and so states exactly what the code relies on:
`"overtaken"` is set when a request commits after somebody else wrote something of its system since
its first read, `"blind"` when `HasOverlays` was asked on a connection that row-level security shows
nothing, `"renamed"` when a system's `name` changes or differs from its `external_id`.

### Directory

| Model | Code |
|---|---|
| `type`, `entity`, `relation` | rows of `entity_type_definition`, `entity`, `relation`; the last by its unique key |
| `req[r]` | the locals of a service call between two statements |
| `CreateType`, `UpdateType` | `entitytype/service.go`, one transaction each |
| `HasEntities`, `DeleteType` | the question on the pool, then the transaction with its foreign key |
| `StartWrite`, `ResolveAgain`, `InsertEntity` | `entity.Service.Create`: type and scope before the transaction, the INSERT in it |
| `LookUpEntity` | `createOrUpdate` of a bulk upsert: what it finds is updated, else `Create` starts again |
| `StartUpdate`, `ReadEntity`, `UpdateEntity` | `Update`: read and validation in the transaction, without a lock |
| `DeleteEntity`, `DeleteRelation` | the DELETEs, with what cascades and what refuses them |
| `CheckRelation`, `InsertRelation` | `relation.Service.Create` |
| `Fail` | any error return, a lost connection, a stopped process |

A JSON Schema is the set of values it admits, the allowed relations of a type a function to the
names of target types. An id that neither exists nor is held by a request stands for the next new
one, so that ids are never given twice to whoever remembers one. `blind` is a connection on which
no scope was ever set: there row-level security hides the rows of systems from a read outside a
transaction. `staleEntity`, `staleRelation` and `fresh` are history: they say which rows are excused
because their type was revised. Cascaded relations leave no audit entry in the code; the model has
no audit log.

### ScimProvisioning

| Model | Code |
|---|---|
| `entity[x]`, `member` | the row of a user or group with its external id and link; the relations `member_of` |
| `active` | the property of that name; the others are left out |
| `req[r]` | a SCIM transaction between its reads and its writes: what it will store |
| `CreateUser`, `Delete` | POST and DELETE, one commit each; DELETE takes the link, and with the last link the row |
| `ValidateNewMembers`, `CreateGroup` | `groups/service.go` `Create` |
| `ReadUser`, `WriteUser` | PUT (`sets`) and PATCH of a user: `Replace` stores all properties |
| `ReadGroup`, `ReplaceGroup` | PUT and PATCH of a group: members read, computed, validated; then `reconcileMembers` |
| `CreateEntity`, `UpdateEntity`, `DeleteEntity`, `CreateRelation`, `DeleteRelation` | the generic API on the same rows |
| `FindEntityID`, `CreateBootstrapUser`, `HasAdminRelation`, `CreateAdminRelation`, `ApplyFails`, `Restart` | `bootstrap.go` `applyOne` in processes that start |

What a request does to a list of members is a `Change`: keep what is there but for some, or keep
nothing, and add some. `ScimPatch` shows that every list of PATCH operations comes to one (its
`PatchIsChange`), so that one action stands for all of them. `dueMembers` and `dueActive` are
history: what the acknowledged requests add up to. `raced` holds the rows on which a PATCH stored
what it had computed from an older state, and `foreign` the members that the relation API added.
Every row has at most one link, because nothing in the code adds a second; SCIM accepts a group as
a member of a group, itself included. That oad:admin is built in protects it from nothing: SCIM
does not find it (no link), the generic API deletes it like any other row, although
`docs/data-model.md:142` and `:187` and `docs/design/scim-ingest.md:46` call such rows protected.
`FindEntityID` does not ask for the type: a SCIM group that has the bootstrap login's subject is
made an administrator. `HasAdminRelation` and `CreateAdminRelation` look for the external id
`oad:admin` of any type, and the former accepts a relation of any system; in the model no other row
has that external id (with two, the INSERT adds a relation to each), and a membership has no
system.

### Changelog

| Model | Code |
|---|---|
| `now`, `tx[w]` | the database clock; when a transaction began, which is `now()` throughout it |
| `row[x]` | an entity: a value and `created_at` |
| `log` | `audit_log`, each entry with that timestamp and the system of the writer |
| `Begin`, `Create`, `Update`, `Delete`, `Rollback` | any mutation: BEGIN, then commit with row and entry |
| `cursor`, `got`, `ListChangelog` | a client of `GET /changelog` that pages by offset and goes on from the newest timestamp |
| `export`, `StartExport`, `ExportPage` | a client of `GET /export` that pages by offset |

The client is not in the repository; that it pages until a page is not full and then continues
from the newest timestamp it has seen is what the parameters of the endpoint are for. Entries of
one timestamp have no order, so a page may hold any of them. `missing` is history: the entities of
whose changes such a client cannot know, because an entry was committed late (behind what was
read), tied with another, overtaken by a transaction that began later, or filed under a system
whose entries the reader is not shown. The last is no rare case: an entry names the writer's
system, so what an administrator bound to another system does to a shared entity is hidden.
`cuts` counts the rows deleted before the export's position; `ExportComplete` says that the
export misses no more than that. The export shows rows of every system, the changelog only the
entries the reader may see. An export page runs on any connection of the pool: on one that never
had a scope it numbers and shows global rows only (`blind`, `Shown`), while no policy covers
`audit_log`. `export.blind` remembers of which kind the pages were. If none was blind,
`ExportComplete` is about all rows, if all were, about the global ones; an export with pages of
both kinds promises nothing, because the two number the rows differently.

### ScimFilter, ScimPatch

`ScimFilter` starts from tokens: characters, quotes and escapes are below it (`\uXXXX` is not
unescaped by the lexer; the properties would not see it).

| Model | Code |
|---|---|
| `ParseOperator`, `ParseComparison` | `parseComparison`, `parseValue`, with the position returned instead of kept |
| `ParseAtom`, `ParseAnd`, `ParseOr` | the functions of those names |
| `Extended`, `Loop` | one turn of the loop in `parseAnd` and `parseOr`, and all of them |
| `ParseNested` | the recursion: what `parseOr` returns from every position, one level of parentheses after the other |
| `Parse` | `Parse`, with its check of trailing tokens |
| `Build`, `BuildAtom`, `BuildLogic`, `FilterToSQL` | `users/filter.go` `build`, `buildAtom`, `FilterToSQL` |
| `List`, `ShiftPlaceholders` | the condition behind the query's own, its placeholders shifted |
| `Grammar`, `Phrases` | the reference: the grammar that the comment of package `parser` gives |

The parse functions call each other, and so does `build`. Their recursion is written as functions
over numbers that have at most the length of the input as a bound: levels of parentheses, turns of
a loop, nodes of a tree. A tree is the list of its nodes with the operands first, in the order in
which the calls of `build` return; `sqls` are the conditions that were returned and that a caller
still has to put together. The grammar is a set of phrases (from where, up to where, read as
what), closed under its rules, and is no parser: it starts from no position, looks at nothing
ahead, and would have several readings of an ambiguous list. It reads the filter and the SQL
condition alike, because both put "and" before "or" and read operators of one kind from the left.

`ScimPatch` applies operations one by one to a list of members and to attributes. A value of null is
an empty list; the keys of an operation without a path are operations in any order, as Go iterates
over a map; `removeMember` removes the first occurrence only, which is enough because no list ever
has two.

## 3. The runs

| Run | Instance | Shows |
|---|---|---|
| `cache_lru` | 2 users, 2 requests, 3 elements, capacity 2 | map and list agree, capacity |
| `cache_stale` | 1 user, 2 requests, 1 SCIM writer, TTL 2, MaxResolve 1 | staleness bounds, inductive invariant |
| `webhook` | 2 subscriptions of 2 systems, 3 entries of 3, batches of 2 and 1, 3 attempts, 2 faults, polling | safety, inductive invariant, refinement of `DeliveryLifecycle`; pairs of an aborted batch are queued later |
| `webhook_live` | 2 dispatchers, 2 entries, batches of 1, 1 fault, fairness | liveness, with rows that two dispatchers overwrite |
| `scope` | 2 requests, 2 callers, 3 systems, 2 connections | scope properties, inductive invariant |
| `scope_header` | 2 requests of one JWT caller | a concurrent header decides (identity.go:22) |
| `overlays` | 1 system, 1 name, 2 schemas, 2 documents, 2 values, 2 requests | schema of an overlay, deactivation, ownership, inductive invariant |
| `overlays_names` | 2 systems, 2 names, 2 schemas, 1 request | keys of two systems' overlays are disjoint |
| `directory` | 2 types, 2 documents, 2 entities, 1 external id, 2 requests | keys, conformance, declared relations, scope and system, exact upserts, inductive invariant |
| `scim` | 1 user, 1 group and oad:admin, 2 providers, 2 subjects, 1 request, 1 process | accounted members and `active`, providers apart, bootstrap |
| `changelog` | 2 entities, 2 systems, 2 writers, 3 writes, pages of 1 | what a reader of changelog and export may miss |
| `scim_inputs` | filters of up to 11 tokens; 3 members, values of up to 2 | filters mean in SQL what they say; PATCH is a `Change` |

**Bounds.** Two requests are what it takes for a race in the cache, and a third element lets a
duplicate push out another user's entry; capacity 2 is the least at which an orphan and its
successor are both in the list. TTL 2 and MaxResolve 1 make an identity expire, be served stale and
be resolved slowly. Of three attempts one is a retry and not the last; two subscriptions fill a
batch, and one of them can be deleted and abort the other's row; two faults put a crash at each
point and another one in the recovery. Where a batch of entries is full and leaves one over,
`MCWebhookBatch.cfg` has a third pair. Two connections and three `Identity` objects for two requests let each be reused while the
other is busy. For overlays, two requests make every overtaking possible, and since a step writes
one system, one system is enough for all that concerns a system alone; one of the two documents
refuses a value that the other accepts. Disjoint keys take two systems and two names, and every
call of either in any order; what one request has read can still be overtaken there by the calls
that take one step (the entity API). Its state constraint, `NoAnomaly`, stops
where `NamespacesDisjoint` no longer says anything, and `overlays` goes on. The names of the
instance are not nested; the theorem covers those that are.

For the directory, two requests and two ids of each kind are what it takes for one to be deleted
and created again under the other's feet; one document refuses what the other accepts, one object
of relations declares a relation and the other none. `SystemUnrevised` leaves the seeded type's
documents alone (its deletion stays in); the other type is revised. For SCIM, a PATCH is overtaken
by the calls that take one step and by another PATCH in `MCScimRequests.cfg`; two providers are
needed to mix members, two subjects to provision and bootstrap different ones, and since a process
may restart, one process and a SCIM client write whatever a second process would. `Bounded` limits
how many relations there are at a time (`MaxMembers`, `MaxForeign`), how many members one PATCH
names (`MaxChanged`), and does not run a PUT or PATCH while a process is in `Apply`: the two write
other rows. None of them limits how long the system runs. For the changelog, three writes over
three instants give late, tied and overtaken entries, and pages of 1 make every read a page of its
own (`MCChangelogAdmin.cfg` has pages of 2 and three entities). Filters of 11 tokens nest
parentheses twice and mix both operators.

Deadlock is checked but in `scim_inputs`: none of the other systems may stop, and a filter ends at
`MaxTokens`.

**Fairness** (`webhook`, `webhook_live`). `Run` polls for ever and `cycle` never blocks for ever
(the HTTP client has a timeout), so each dispatcher's cycle is weakly fair (`PollingSpec`). Time
passes, so a waiting retry falls due (`FairSpec`). Nothing else is fair: nobody has to mutate
anything, faults are possible but bounded, and entries need not expire. Which connection a look gets
is not fair either, so `EveryEventEnqueued` and `EveryRowSettles` have a premise: one process at
least that keeps looking keeps getting connections that show it the subscriptions
(`FindsSubscriptions`, `FindsRows`). The code does nothing to bring this about. It is so once each
connection of the process has served a request with a scope; `MCWebhookBlind.cfg` shows what happens
otherwise.

`Overlays`, `Directory`, `ScimProvisioning` and `Changelog` have safety properties only and no
fairness: any request may fail at any point, and no client has to read on.

**Divergences.** The runs with expectation `violation` each state a sentence of the documentation
or a comment that the code does not keep; `PROJECT.json` quotes it. Thirteen more are kept as
configurations to run by hand, with the same modules:

| Configuration | Sentence | What happens |
|---|---|---|
| `MCIdentityCacheGroups.cfg` | docs/design/db-authoritative-auth.md:215-220 | changes of groups and relations invalidate nothing |
| `MCIdentityCacheTwice.cfg` | the same, line 268 | two concurrent misses leave an orphaned element |
| `MCWebhookPosts.cfg` | docs/requirements.md:89 | two processes post a row more often than the maximum |
| `MCWebhookInactive.cfg` | docs/data-model.md:262 | rows queued before a deactivation are posted after it |
| `MCScopeAbsent.cfg` | docs/design/db-authoritative-auth.md:252 | a request without the header inherits an earlier one's system |
| `MCScopeAudit.cfg` | docs/requirements.md:87 | the audit entry names another system than the overlay |
| `MCIdentityCacheRace.cfg` | docs/design/db-authoritative-auth.md:265 | a resolution already running undoes an invalidation |
| `MCWebhookTwice.cfg` | internal/webhook/dispatcher.go:103 | two processes give one pair two rows |
| `MCWebhookRemaining.cfg` | internal/webhook/dispatcher.go:122 | one failed INSERT loses the batch |
| `MCWebhookBlind.cfg` | internal/webhook/dispatcher.go:90-92 | a process whose connections never had a scope queues nothing |
| `MCChangelogExport.cfg` | docs/requirements.md:79 | an export on such connections leaves out the rows of systems |
| `MCDirectoryBuiltin.cfg` | docs/data-model.md:142 | a built-in type is revised and deleted through the API |
| `MCScopeUnset.cfg` | migrations/000001_initial_schema.up.sql:428 | an unscoped read on a fresh connection sees nothing |

Larger instances that pass, to run by hand as well (minutes each): `MCDirectoryValues.cfg`
(two values, an unrevised seed no longer assumed), `MCWebhookBatch.cfg` (three pairs, with one fault
and two attempts), `MCScimUsers.cfg` (two users),
`MCScimRequests.cfg` (two requests), `MCChangelogAdmin.cfg` (a reader without a system, pages of 2),
`MCScimInputsTokens.cfg` (patterns, two columns, two kinds of literals). They also check the
inductive invariants of `ScimProvisioning` and `Changelog`.

The premises of the properties of `Overlays` are divergences too, reached in the states the runs
explore. A schema can be deleted under an overlay, by a race or by a blind question, although
`overlayschema/service.go:146` says deletion "fails if property overlays validated by this schema
still exist". "Key uniqueness is guaranteed by namespace" (`docs/data-model.md:394`) holds only as
long as no system is renamed and no name is nested in another. A PATCH that sets only a description
can make a system active again that another PATCH has just deactivated.

## 4. The proofs

Every theorem holds for every value of the constants that satisfies the module's assumption
(`CacheAssumption`, `DispatchAssumption`, `ScopeAssumption`, `OverlaysAssumption`,
`DirectoryAssumption`, `ScimAssumption`, `ChangelogAssumption`, `FilterAssumption`, `PatchAssumption`: capacities, limits and page sizes
are positive, the dispatcher's sets and the members of groups finite, ids of entities in an order where an order matters, the
seeded rows among the rows, attributes of one or two identifiers, `None` none of the elements). Nothing else is assumed, except where a theorem
says `Single`: then one process dispatches. A bound that only TLC needs (`MaxFaults`) is a
constant as well, so that the theorems hold for any number of faults.

| Module | Theorems | Argument |
|---|---|---|
| `IdentityCacheProofs` | `IInvHolds`, `TypeCorrect`, `MapAndListAgree`, `NeverOverCapacity`, `StalenessIsBounded`, `OnlyRacesSurvive`, `CachedUsersAreActive` | below |
| `RequestScopeProofs` | `IInvHolds`, `TypeCorrect`, `StaysWithinPermitted`, `RowInTransactionScope`, `CertificateCallersExact`, `NoScopeLeftOver` | below |
| `WebhookDispatchProofs` | any number of dispatchers: `IInvHolds`, `TypeCorrect`, `OutcomesAreTrue`, `RowsStayInScope`; one: `SingleInvHolds`, `OneRowEach`, `PostsAreAccounted`, `NothingPostedWhenDone`, `DispatcherImplementsLifecycle` | below |
| `OverlaysProofs` | `IInvHolds`, `TypeCorrect`, `OverlaysKeepSchema`, `KeysDoNotCollide`, `DeactivationIsKept`, `OwnersWriteOverlays` | below |
| `DirectoryProofs` | `IInvHolds`, `TypeCorrect`, `ScopeAndSystemAgree`, `EntitiesConform`, `RelationsAreDeclared`, `UpsertsAreExact` | below |
| `ScimProvisioningProofs` | `IInvHolds`, `TypeCorrect`, `MembersAreAccounted`, `ActiveIsAccounted`, `ProvidersStayApart`, `BootstrapGrants`, `BootstrapFailures` | below |
| `ChangelogProofs` | `IInvHolds`, `TypeCorrect`, `ExportLosesOnlyCuts`, `ChangelogFollows` | below |
| `ScimInputsProofs` | `ParseIsGrammar`, `FiltersMeanThemselves`, `PatchesAreChanges` | below |

Each module proves, action by action, that an inductive invariant is kept, and derives the
properties from it. The properties alone are not inductive, because what a step writes was read
several steps earlier:

- *Cache*. Staleness of a served identity depends on what the running resolution has read so far,
  so the invariant bounds the age of a resolution's partial result by the time it has taken
  (`RequestOK`) and the age of an entry by the time since it was stored (`EntryOK`). Map and list
  agree only because a list element whose map entry was replaced is never in the map again.
- *Scope*. A transaction runs on a connection that nobody else has and was begun with the system
  the request resolved (`SystemsOK`, `ConnectionsOK`); a certificate caller's object is in no other
  request's hands (`CertificateOK`); an object holds only systems its caller may work in, whoever
  wrote them (`ObjectsOK`).
- *Webhooks*. With several dispatchers nothing a dispatcher remembers need be current. What holds
  is weaker and enough: the attempts it remembers are fewer than the maximum, and the answer it
  holds was really given (`SnapshotOK`); a row that awaits an attempt has one left (`RowOK`). With
  one dispatcher the memory is current as well, but for rows removed with their subscription
  (`SnapshotFresh`). The two together give the refinement: `UpdateDelivery` of a row that still
  exists is `Try`, `CreateDeliveries` is `TakeUp`, `DeleteSubscription` is `Remove`, every other
  step is none. `MCWebhookTwice.cfg` shows that the premise `Single` is needed.

- *Overlays*. That an overlay written now is accepted by a schema that exists now was established
  by reads of earlier states, so the invariant says of each request that what it read still holds
  as long as it is fresh (`ReadHolds`). Whatever could falsify that writes the request's system and
  ends the freshness; a step leaves all other systems as they are (`Frame`), and one lemma
  (`OneSystem`) turns the two into the invariant for every action that commits. Disjoint keys follow
  from uniqueness of `external_id` and, while nothing was renamed, its agreement with the name. The
  two action properties follow from the invariant before the step.
- *Directory*. What a request has checked concerns rows it does not lock. It is kept in the
  invariant (`CheckHolds`) with two excuses: the row is gone, or the type was revised and the
  request is no longer fresh. It is enough because ids are not given again: an entity that exists
  before and after a step has the type it had (`SameEntity`), a type the name and the scope
  (`SameType`), and whoever holds an id does not meet another row under it. `RequestFrame` states
  this once for all actions that leave a request alone.
- *SCIM and bootstrap*. Each commit names the rows and members `X` that it writes, leaves the
  others as they are (`Outside`), gives no held id to another entity (`HeldKept`) and ends the
  freshness of whoever has read one of `X`; two lemmas (`CommittedHolds`, `TouchedHolds`) turn this
  into what every request and every process still hold, and an action has only to say what it does
  to the rows. Members of another provider cannot come in because a held member that exists is
  linked to the provider, or gone (`HeldMembers`), and the foreign key refuses the latter. That
  `Apply` fails only by a race follows from what a fresh process holds (`HeldUser`) and from links
  being those of the external ids.
- *Changelog and export*. The export's positions number the rows its connections show without gaps
  (`PositionInjective` and a counting argument), so that a page that is not full is the last
  (`PageIsFull`); as long as all pages were of one kind, the rows shown to them and passed without
  having been given out number at most `cuts`, because a deletion moves at most one row across the
  offset. For the changelog, the entries that the reader can know of and has not got
  have at least `offset` entries before them (`CursorFollows`), whatever is committed meanwhile:
  each new one is behind everything received or counted as missing.
- *Filters*. There is nothing to keep from step to step: every list of tokens has the property
  (`FilterMeans`), and the steps only make lists of tokens. `ParseIsGrammar` has two halves. What a
  parse function returns is a phrase of the grammar (`NestedOutcome`), because the phrases are
  closed under the rules although their length is bounded (`PhrasesAreClosed`). And every phrase
  is read, in full, unless it is followed by an operator that binds more strongly or goes on
  (`NestedReads`): so no other reading exists either, and the grammar is unambiguous. For the SQL
  condition, `Spells` says that a text with placeholders means a tree wherever it stands, its
  arguments in place; that is kept by more arguments (`SpellsOnMore`), by parentheses around two of
  them (`SidesSpell`), and by every node that `Build` visits (`PhrasesBuild`, over all phrases).
  `QueryMeans` then places it behind the query's own comparison, with all numbers one higher, and
  `ParseIsGrammar`, of the text bound this time, says that there is no second meaning.
- *PATCH*. `PatchIsChange` is inductive but for the types. What `mergeMembers` makes of two lists
  (`MergeMembersAdds`) is an induction over the second; that `removeMember` takes the member out
  needs that it is there once (`RemoveMemberRemoves`), which the invariant says.

Inductions are over the numbers up to a bound. The induction theorems of the library take a
predicate as a parameter, which the provers at hand cannot instantiate; `InductUpTo` is about a set
instead and comes from `NatLessThanWellFounded` and `WFMin`. By it, each recursive function is
shown to exist and to follow its equations (`LoopFollows`, `NestedFollows`, `PhrasesFollow`,
`BuiltFollows`, `MergedFollows`), and everything else uses the equations.

TLC checks each inductive invariant too: as an invariant of `cache_stale`, `webhook`, `scope`,
`overlays` and `directory`, and of the larger configurations by hand for `ScimProvisioning` and
`Changelog`. `MaxTokens` and `MaxValue` bound the runs of `scim_inputs`; the theorems hold for every
value of them.

*Only model-checked*: the liveness properties `EveryEventEnqueued` and `EveryRowSettles`, which need
fairness, hence `ENABLED`, which this prover does not handle; and the divergences, which are
counterexamples of TLC. Every invariant and every action property that a run checks is a theorem,
and so is the refinement.

## 5. What is not modelled

`PROJECT.json` lists each component with its status. Not modelled for good: HTTP handlers and
encoding, validation of request bodies, logging, metrics, the management UI and the static SCIM
schemas, which keep no state; token verification, which is a library's; configuration, a single
pass of assignments by one thread before anything runs; migrations other than the tables and
policies the modules use; the arithmetic of the backoff as far as a retry simply falls due some
time later. PostgreSQL is modelled by what READ COMMITTED gives the statements used: a statement
sees what was committed when it began, a transaction commits as a whole or not at all.

Of modelled components: properties of SCIM users other than `active`; lookup, the merge of overlays
and the property filter of the retrieval API, which are one query each; escapes in filters and in
LIKE patterns, and the text of PATCH paths; the retrieval log, which nothing reads. Changes of
groups through SCIM invalidate no cached identity (a TODO in the code): `MCIdentityCacheGroups.cfg`
shows what that means.

## 6. Plan

What is left, the most consequential first.

1. **`IdentityResolution`** (`internal/auth/resolver.go`, `internal/api/middleware/authz.go`):
   groups, systems and roles that a graph of relations yields, against a reference definition, and
   the authorization predicates over them; composed with `IdentityCache`, which has only their age.
2. **Scope of requests and directory together**: `RequestScope` gives the system a write runs in,
   `Directory` and `Overlays` take it as given; the composition would say which rows a request with
   a concurrently changed header can write.
3. **Lookup and merge** (`internal/retrieval`): the view of an entity with the overlays of several
   systems against a reference definition, next to writers.
4. **Pure algorithms**: `Backoff` (widths and cap), and the lexer below `ScimFilter`.
