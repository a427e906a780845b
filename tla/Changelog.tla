------------------------------ MODULE Changelog -----------------------------
(***************************************************************************)
(* What a policy engine can follow of the directory: the changelog         *)
(* (retrieval/service.go ListChangelog) and the export (Export).           *)
(*                                                                         *)
(* Every write is a transaction with one audit entry.  The entry's         *)
(* timestamp and the row's created_at are DEFAULT now(), which PostgreSQL  *)
(* gives the time at which the transaction began; readers see neither      *)
(* before it commits.  A reader pages by LIMIT and OFFSET over what is     *)
(* committed at the time of each page.  An export page runs on any         *)
(* connection of the pool: row-level security shows it every row where     *)
(* app.current_system_id is empty, and global rows only where it is NULL,  *)
(* on a connection that never had a scope (blind).  The policies do not    *)
(* cover audit_log.  Writers set the scope of their transaction.           *)
(***************************************************************************)
EXTENDS Integers, FiniteSets

CONSTANTS
  Entity,    \* entities, numbered as their ids are ordered
  System,    \* systems
  Value,     \* properties of an entity
  Home,      \* Home[x]: the system of entity x, or None: a global entity
  Caller,    \* the active system of the reader, or None: a platform admin
  Writer,    \* concurrent transactions
  Limit,     \* the size of a page
  MaxTime,   \* the clock stops here: a bound of the model
  None       \* no such thing

Time == 0..MaxTime
Scope == System \cup {None}

ASSUME ChangelogAssumption ==
  /\ Entity \subseteq Nat
  /\ Home \in [Entity -> Scope]
  /\ Caller \in Scope
  /\ None \notin System \cup Value \cup Nat \cup [val : Value, created : Nat]
  /\ Limit \in Nat \ {0}
  /\ MaxTime \in Nat

VARIABLES
  now,       \* the database clock
  row,       \* row[x]: the row of entity x
  tx,        \* tx[w]: when transaction w began, or None
  log,       \* audit_log: a set, the order is the query's
  cursor,    \* what the reader of the changelog asks next
  got,       \* the entries it has received
  export,    \* a reader that pages through the export
  missing    \* the entities of whose changes the reader cannot know (history)

vars == <<now, row, tx, log, cursor, got, export, missing>>

Row == [val : Value, created : Time]
Entry == [x : Entity, val : Value \cup {None}, ts : Time, sys : Scope]

\* base: the rows there since the export began.  blind: whether pages were read
\* blind, or not, or some each.  cuts: how many rows that it had passed were
\* deleted (history).
Export == [on : BOOLEAN, offset : Nat, base : SUBSET Entity, got : SUBSET Entity,
           blind : SUBSET BOOLEAN, cuts : Nat]
NotExporting == [on |-> FALSE, offset |-> 0, base |-> {}, got |-> {}, blind |-> {}, cuts |-> 0]

TypeOK ==
  /\ now \in Time
  /\ row \in [Entity -> Row \cup {None}]
  /\ tx \in [Writer -> Time \cup {None}]
  /\ log \in SUBSET Entry
  /\ cursor \in [since : Time, offset : Nat]
  /\ got \in SUBSET Entry
  /\ export \in Export
  /\ missing \in SUBSET Entity

Init ==
  /\ now = 0
  /\ row = [x \in Entity |-> None]
  /\ tx = [w \in Writer |-> None]
  /\ log = {}
  /\ cursor = [since |-> 0, offset |-> 0]
  /\ got = {}
  /\ export = NotExporting
  /\ missing = {}

Rows == {x \in Entity : row[x] # None}
-----------------------------------------------------------------------------
(***************************************************************************)
(* Writers.  s is the active system of the caller whose transaction it is. *)
(***************************************************************************)

\* BEGIN.  Two transactions may begin within the resolution of the clock.
Begin(w) ==
  /\ tx[w] = None
  /\ \E t \in {now, now + 1} \ {0} :
       /\ t <= MaxTime
       /\ now' = t
       /\ tx' = [tx EXCEPT ![w] = t]
  /\ UNCHANGED <<row, log, cursor, got, export, missing>>

\* The policy entity_system_isolation: global rows and those of the system.
MayWrite(s, x) == s = None \/ Home[x] \in {None, s}

\* What the reader is shown: the entries of its system and those without one.
Visible(e) == Caller = None \/ e.sys \in {None, Caller}

\* Entries with one timestamp have no order: pages may repeat one of them and
\* leave out another.
Tied(e) == {f.x : f \in {f \in log : f.ts = e.ts}}

\* The reader cannot follow a row once it was not shown one of its entries or
\* had read on, or the order of the entries is not that of the commits.
Unknown(e) ==
  \/ ~Visible(e)
  \/ \E f \in got : f.ts > e.ts
  \/ \E f \in log : f.x = e.x /\ f.ts > e.ts
  \/ Tied(e) # {}

\* Entries that have one timestamp and are alike are not told apart: there is
\* no second one.
Commit(w, x, val, s) ==
  LET e == [x |-> x, val |-> val, ts |-> tx[w], sys |-> s] IN
  /\ e \notin log
  /\ log' = log \cup {e}
  /\ missing' = missing \cup Tied(e) \cup IF Unknown(e) THEN {x} ELSE {}
  /\ tx' = [tx EXCEPT ![w] = None]
  /\ UNCHANGED <<now, cursor, got>>

Create(w, x, val, s) ==
  /\ tx[w] # None /\ x \notin Rows /\ MayWrite(s, x)
  /\ row' = [row EXCEPT ![x] = [val |-> val, created |-> tx[w]]]
  /\ Commit(w, x, val, s)
  /\ UNCHANGED export

Update(w, x, val, s) ==
  /\ tx[w] # None /\ x \in Rows /\ MayWrite(s, x)
  /\ row' = [row EXCEPT ![x].val = val]
  /\ Commit(w, x, val, s)
  /\ UNCHANGED export

\* The policy entity_system_isolation on a connection outside a transaction.
Shown(blind) == {x \in Rows : blind => Home[x] = None}

\* Where x is in the order of the export: by created_at, then by id.
Before(y, x) == row[y].created < row[x].created \/ (row[y].created = row[x].created /\ y < x)
Position(x, blind) == Cardinality({y \in Shown(blind) : Before(y, x)})

\* No page has been read otherwise.
AllPages(blind) == export.blind \subseteq {blind}

\* The pages so far have passed row x.
PagesPassed(x) ==
  export.on /\ \E blind \in BOOLEAN :
                 AllPages(blind) /\ x \in Shown(blind) /\ Position(x, blind) < export.offset

Delete(w, x, s) ==
  /\ tx[w] # None /\ x \in Rows /\ MayWrite(s, x)
  /\ row' = [row EXCEPT ![x] = None]
  /\ export' = [export EXCEPT !.base = @ \ {x},
                              !.cuts = IF PagesPassed(x) THEN @ + 1 ELSE @]
  /\ Commit(w, x, None, s)

Rollback(w) ==
  /\ tx[w] # None
  /\ tx' = [tx EXCEPT ![w] = None]
  /\ UNCHANGED <<now, row, log, cursor, got, export, missing>>
-----------------------------------------------------------------------------
(***************************************************************************)
(* GET /changelog.  The answer is a page of the entries after `since`,     *)
(* ordered by timestamp; of entries with one timestamp any may come first. *)
(***************************************************************************)
\* Mutant: entries without a system are left out.
AfterOwn(since) == {e \in log : e.ts > since /\ (Caller = None \/ e.sys = Caller)}

After(since) == {e \in log : e.ts > since /\ Visible(e)}

Pages(S, offset) ==
  {P \in SUBSET S :
     \E Q \in SUBSET (S \ P) :
       /\ Cardinality(Q) = offset
       /\ Cardinality(P) = Limit \/ P = S \ Q
       /\ Cardinality(P) <= Limit
       /\ \A q \in Q, p \in P : q.ts <= p.ts
       /\ \A p \in Q \cup P, r \in S \ (Q \cup P) : p.ts <= r.ts}
    \cup IF offset >= Cardinality(S) THEN {{}} ELSE {}

Newest(S) == {e \in S : \A f \in S : f.ts <= e.ts}

\* The reader pages by offset until a page is not full, and goes on from the
\* newest timestamp it has seen; as long as there is none, from where it is.
ListChangelog ==
  \E P \in Pages(After(cursor.since), cursor.offset) :
    /\ got' = got \cup P
    /\ \/ Cardinality(P) = Limit /\ cursor' = [cursor EXCEPT !.offset = @ + Limit]
       \/ /\ Cardinality(P) # Limit
          /\ \E e \in Newest(got') : cursor' = [since |-> e.ts, offset |-> 0]
    /\ UNCHANGED <<now, row, tx, log, export, missing>>
-----------------------------------------------------------------------------
(***************************************************************************)
(* GET /export: rows of every system, ordered by created_at and id.        *)
(***************************************************************************)

StartExport ==
  /\ ~export.on
  /\ export' = [NotExporting EXCEPT !.on = TRUE, !.base = Rows]
  /\ UNCHANGED <<now, row, tx, log, cursor, got, missing>>

Page(offset, blind) ==
  {x \in Shown(blind) : offset <= Position(x, blind) /\ Position(x, blind) < offset + Limit}

\* Mutant: the next page starts one row late.
ExportPageLate(blind) ==
  LET P == Page(export.offset, blind) IN
  /\ export.on
  /\ export' = [export EXCEPT !.got = @ \cup P, !.blind = @ \cup {blind},
                              !.on = (Cardinality(P) = Limit), !.offset = @ + Limit + 1]
  /\ UNCHANGED <<now, row, tx, log, cursor, got, missing>>

\* A page that is not full is the last.
ExportPage(blind) ==
  LET P == Page(export.offset, blind) IN
  /\ export.on
  /\ export' = [export EXCEPT !.got = @ \cup P, !.blind = @ \cup {blind},
                              !.on = (Cardinality(P) = Limit), !.offset = @ + Limit]
  /\ UNCHANGED <<now, row, tx, log, cursor, got, missing>>
-----------------------------------------------------------------------------
Write(w) ==
  \/ Begin(w)
  \/ \E x \in Entity, val \in Value, s \in Scope : Create(w, x, val, s) \/ Update(w, x, val, s)
  \/ \E x \in Entity, s \in Scope : Delete(w, x, s)
  \/ Rollback(w)

Next ==
  \/ \E w \in Writer : Write(w)
  \/ ListChangelog
  \/ StartExport
  \/ \E blind \in BOOLEAN : ExportPage(blind)

Spec == Init /\ [][Next]_vars
-----------------------------------------------------------------------------
(***************************************************************************)
(* Properties.                                                             *)
(***************************************************************************)

NewestValue(E) == IF E = {} THEN None ELSE (CHOOSE e \in Newest(E) : TRUE).val
Latest(S, x) == NewestValue({e \in S : e.x = x})

Stored(x) == IF row[x] = None THEN None ELSE row[x].val

\* A reader that goes on from the newest timestamp it has seen holds, for
\* every entity whose entries are that old, what is stored: but for those of
\* which an entry was committed after a newer one had been read, was filed
\* under another system, or was overtaken by the entry of a transaction that
\* began later and committed earlier (retrieval/repository.go ListChangelog).
ReplicaFollows ==
  \A x \in Entity \ missing :
    (\A e \in log : e.x = x => e.ts <= cursor.since) => Latest(got, x) = Stored(x)

\* Of the rows that were there from the beginning of an export to its end,
\* and that its connections show, it has left out no more than rows it had
\* passed were deleted meanwhile (retrieval/repository.go ExportEntities).  If
\* no page was blind these are all rows, if all were blind the global ones; an
\* export with pages of both kinds says nothing, since they number the rows
\* differently.
ExportComplete ==
  ~export.on =>
    \A blind \in BOOLEAN :
      export.blind = {blind} =>
        Cardinality({x \in export.base \ export.got : x \in Shown(blind)}) <= export.cuts

\* Rows that the pages have passed without giving them out.
Behind(blind) ==
  {x \in export.base \ export.got : x \in Shown(blind) /\ Position(x, blind) < export.offset}

\* Where the export is: what it has not got is still ahead, or was moved
\* behind it by a row deleted.
ExportAhead ==
  /\ export.base \subseteq Rows /\ IsFiniteSet(Rows)
  /\ export.on => \A blind \in BOOLEAN : AllPages(blind) => Cardinality(Behind(blind)) <= export.cuts

\* An entity that the reader can know of: its entries were shown to it, none
\* shares its timestamp, and the newest says what is stored.
LogFollows ==
  /\ IsFiniteSet(log)
  /\ \A e \in log : e.x \notin missing => Visible(e) /\ \A f \in log \ {e} : f.ts # e.ts
  /\ \A x \in Entity \ missing : Latest(log, x) = Stored(x)

\* Entries up to the newest one received, since the pages began.
Passed == {e \in After(cursor.since) : \E f \in got : e.ts <= f.ts}
Rank(e) == Cardinality({f \in After(cursor.since) : f.ts < e.ts})

\* Where the reader of the changelog is: it goes on from what it has, and the
\* entries it can know of and has not got are on pages still to come.
CursorFollows ==
  /\ got \subseteq log
  /\ cursor.since = 0 \/ \E f \in got : f.ts = cursor.since
  /\ cursor.offset <= Cardinality(Passed)
  /\ \A e \in log \ got : e.x \notin missing => e.ts > cursor.since /\ Rank(e) >= cursor.offset

\* Transactions do not begin at the instant from which readers start.
BegunLater == (\A w \in Writer : tx[w] # 0) /\ \A e \in log : e.ts > 0

\* Inductive.
IInv == TypeOK /\ ExportAhead /\ ExportComplete /\ BegunLater /\ LogFollows /\ CursorFollows
=============================================================================
