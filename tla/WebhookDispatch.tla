--------------------------- MODULE WebhookDispatch ---------------------------
(***************************************************************************)
(* The webhook dispatcher of src/internal/webhook (dispatcher.go,          *)
(* repository.go) and the subscription operations it runs against          *)
(* (service.go).                                                           *)
(*                                                                         *)
(* Every API process runs one dispatcher.  A cycle has two halves: enqueue *)
(* finds (audit entry, subscription) pairs without a delivery row and      *)
(* inserts one for each in a single transaction; dispatch finds rows that  *)
(* are ready, posts each and records the outcome.  Each half reads first   *)
(* and writes later, in different transactions, and nothing locks a row in *)
(* between: subscriptions come and go, and other dispatchers do the same   *)
(* work.                                                                   *)
(*                                                                         *)
(* Both reads join webhook_subscription on any connection of the pool.     *)
(* Where app.current_system_id was never set it is NULL, and the policy    *)
(* of that table shows no row (blind); nothing makes it anything else as   *)
(* long as the connection serves no request that sets a scope.             *)
(***************************************************************************)
EXTENDS Integers, Sequences, FiniteSets, SequencesExt

CONSTANTS
  Sub,            \* webhook subscriptions
  System,         \* systems
  SubSystem,      \* SubSystem[s]: the system of subscription s
  Event,          \* audit log entries, numbered by timestamp
  EventSystem,    \* EventSystem[e]: the scope of entry e, None when unscoped
  Dispatcher,     \* the processes that run a dispatcher
  EnqueueLimit,   \* enqueueBatchSize
  DispatchLimit,  \* dispatchBatchSize
  MaxRetries,     \* maxRetries
  MaxFaults,      \* bound on crashes and failed database calls
  None            \* no system

ASSUME DispatchAssumption ==
  /\ SubSystem \in [Sub -> System]
  /\ EventSystem \in [Event -> System \cup {None}]
  /\ None \notin System
  /\ IsFiniteSet(Event) /\ Event = 1 .. Cardinality(Event)
  /\ IsFiniteSet(Sub)
  /\ EnqueueLimit \in Nat \ {0} /\ DispatchLimit \in Nat \ {0}
  /\ MaxRetries \in Nat \ {0}
  /\ MaxFaults \in Nat

VARIABLES
  sub,      \* sub[s]: whether subscription s exists and is active
  log,      \* the audit entries committed so far
  expired,  \* entries up to this one are more than 24 hours old
  rows,     \* webhook_delivery, in the order of created_at
  disp,     \* disp[d]: where dispatcher d is in its cycle
  faults    \* crashes and failed calls so far

vars == <<sub, log, expired, rows, disp, faults>>

(***************************************************************************)
(* A delivery row.  retry is next_retry_at: none (NULL), waiting or due.   *)
(* posts and acked are history: the requests sent for the row, and whether *)
(* the subscriber ever answered one of them with 2xx.  A row whose         *)
(* subscription was deleted keeps its place with status "gone".            *)
(***************************************************************************)
Row == [sub : Sub, event : Event,
        status : {"pending", "delivered", "failed", "gone"},
        attempts : 0 .. MaxRetries, retry : {"none", "waiting", "due"},
        posts : Nat, acked : BOOLEAN]

NewRow(p) == [sub |-> p.sub, event |-> p.event, status |-> "pending",
              attempts |-> 0, retry |-> "none", posts |-> 0, acked |-> FALSE]

(***************************************************************************)
(* A dispatcher.  pairs is what FindUndelivered returned; batch maps the   *)
(* rows FindPending returned and not yet attempted to the attempts they    *)
(* had then; at is the row being attempted and ok the answer it got.       *)
(***************************************************************************)
Pair == [sub : Sub, event : Event]
Idle == [pc |-> "find_undelivered", pairs |-> {}, batch |-> [i \in {} |-> 0],
         at |-> 0, ok |-> FALSE]

Batch == UNION {[B -> 0 .. MaxRetries] : B \in SUBSET (DOMAIN rows)}

Process == [pc : {"find_undelivered", "create_deliveries", "find_pending", "attempt",
                  "update_delivery"},
            pairs : SUBSET Pair,
            batch : Batch,
            at : Nat, ok : BOOLEAN]

TypeOK ==
  /\ sub \in [Sub -> {"none", "active", "inactive", "deleted"}]
  /\ log \in SUBSET Event
  /\ expired \in 0 .. Cardinality(Event)
  /\ rows \in Seq(Row)
  /\ disp \in [Dispatcher -> Process]
  /\ faults \in 0 .. MaxFaults

Init ==
  /\ sub = [s \in Sub |-> "none"]
  /\ log = {}
  /\ expired = 0
  /\ rows = <<>>
  /\ disp = [d \in Dispatcher |-> Idle]
  /\ faults = 0

\* A crash, or a database call that fails.
Fault ==
  /\ faults < MaxFaults
  /\ faults' = faults + 1

NoFault == UNCHANGED faults

\* What ORDER BY ... LIMIT n returns: n elements of S none of which is after one left out.
Oldest(S, n, time) ==
  {B \in SUBSET S :
     /\ Cardinality(B) = IF Cardinality(S) <= n THEN Cardinality(S) ELSE n
     /\ \A b \in B, c \in S \ B : time[b] <= time[c]}

\* What a connection shows of the join with webhook_subscription.
Shown(S, blind) == IF blind THEN {} ELSE S

(***************************************************************************)
(* enqueue.                                                                *)
(***************************************************************************)
HasRow(p) == \E i \in DOMAIN rows : rows[i].sub = p.sub /\ rows[i].event = p.event

\* Mutant: the entry's system is not compared with the subscription's.
UndeliveredAnySystem ==
  {p \in Pair : p.event \in log /\ p.event > expired /\ sub[p.sub] = "active" /\ ~HasRow(p)}

\* Mutant: pairs that have a row already are not left out.
UndeliveredAgain ==
  {p \in Pair : /\ p.event \in log /\ p.event > expired /\ sub[p.sub] = "active"
                /\ SubSystem[p.sub] = EventSystem[p.event]}

\* Mutant: the oldest entry of the window is left out.
UndeliveredShortWindow ==
  {p \in Pair : /\ p.event \in log /\ p.event > expired + 1 /\ sub[p.sub] = "active"
                /\ SubSystem[p.sub] = EventSystem[p.event] /\ ~HasRow(p)}

Undelivered ==
  {p \in Pair :
     /\ p.event \in log
     /\ p.event > expired
     /\ sub[p.sub] = "active"
     /\ SubSystem[p.sub] = EventSystem[p.event]
     /\ ~HasRow(p)}

FindUndelivered(d, blind) ==
  /\ disp[d].pc = "find_undelivered"
  /\ \/ \E P \in Oldest(Shown(Undelivered, blind), EnqueueLimit, [p \in Undelivered |-> p.event]) :
          /\ disp' = [disp EXCEPT ![d] =
                        [@ EXCEPT !.pairs = P,
                                  !.pc = IF P = {} THEN "find_pending"
                                         ELSE "create_deliveries"]]
          /\ NoFault
     \/ /\ disp' = [disp EXCEPT ![d].pc = "find_pending"]
        /\ Fault
  /\ UNCHANGED <<sub, log, expired, rows>>

\* One transaction: the first INSERT that fails aborts it, so that the INSERTs
\* after it fail as well and COMMIT rolls back.  An INSERT fails on the foreign key
\* when the subscription has been deleted; ON CONFLICT has no constraint to act on.
Insertable(P) == \A p \in P : sub[p.sub] # "deleted"

\* Mutant: a batch that was aborted is tried again as it is.
CreateDeliveriesAgain(d) ==
  /\ disp[d].pc = "create_deliveries"
  /\ \/ /\ Insertable(disp[d].pairs)
        /\ \E q \in SetToSeqs(disp[d].pairs) :
             rows' = rows \o [i \in DOMAIN q |-> NewRow(q[i])]
        /\ disp' = [disp EXCEPT ![d] = [@ EXCEPT !.pc = "find_pending", !.pairs = {}]]
     \/ ~Insertable(disp[d].pairs) /\ UNCHANGED <<rows, disp>>
  /\ UNCHANGED <<sub, log, expired, faults>>

CreateDeliveries(d) ==
  /\ disp[d].pc = "create_deliveries"
  /\ \/ /\ Insertable(disp[d].pairs)
        /\ \E q \in SetToSeqs(disp[d].pairs) :
             rows' = rows \o [i \in DOMAIN q |-> NewRow(q[i])]
        /\ NoFault
     \/ /\ ~Insertable(disp[d].pairs)
        /\ UNCHANGED rows
        /\ NoFault
     \/ /\ UNCHANGED rows
        /\ Fault
  /\ disp' = [disp EXCEPT ![d] = [@ EXCEPT !.pc = "find_pending", !.pairs = {}]]
  /\ UNCHANGED <<sub, log, expired>>

(***************************************************************************)
(* dispatch.                                                               *)
(***************************************************************************)
\* Mutant: failed rows are retried whether or not a retry is scheduled.
ReadyAnyFailed == {i \in DOMAIN rows : rows[i].status \in {"pending", "failed"}}

\* Mutant: failed rows are never retried.
ReadyNoRetry == {i \in DOMAIN rows : rows[i].status = "pending"}

Ready == {i \in DOMAIN rows : \/ rows[i].status = "pending"
                              \/ rows[i].status = "failed" /\ rows[i].retry = "due"}

FindPending(d, blind) ==
  /\ disp[d].pc = "find_pending"
  /\ \/ \E B \in Oldest(Shown(Ready, blind), DispatchLimit, [i \in Ready |-> i]) :
          /\ disp' = [disp EXCEPT ![d] =
                        [@ EXCEPT !.pc = IF B = {} THEN "find_undelivered" ELSE "attempt",
                                  !.batch = [i \in B |-> rows[i].attempts]]]
          /\ NoFault
     \/ /\ disp' = [disp EXCEPT ![d].pc = "find_undelivered"]
        /\ Fault
  /\ UNCHANGED <<sub, log, expired, rows>>

\* The row of the batch that is attempted next, and the dispatcher once it has
\* finished with row i of its batch.
First(batch) == {i \in DOMAIN batch : \A j \in DOMAIN batch : i <= j}

After(batch, i) ==
  [pc |-> IF DOMAIN batch = {i} THEN "find_undelivered" ELSE "attempt", pairs |-> {},
   batch |-> [j \in DOMAIN batch \ {i} |-> batch[j]], at |-> 0, ok |-> FALSE]

Posted(x, ok) ==
  LET y == [x EXCEPT !.posts = @ + 1] IN IF ok THEN [y EXCEPT !.acked = TRUE] ELSE y

\* attempt up to the answer.  The row is not read again: it may have been recorded
\* by another dispatcher, or be gone.  An answer that is not 2xx, a timeout and an
\* error are the same to the dispatcher.  A request that cannot be built is skipped.
Attempt(d) ==
  /\ disp[d].pc = "attempt"
  /\ \E i \in First(disp[d].batch) :
     \/ /\ \E ok \in BOOLEAN :
             /\ rows' = [rows EXCEPT ![i] = Posted(@, ok)]
             /\ disp' = [disp EXCEPT ![d] =
                           [@ EXCEPT !.pc = "update_delivery", !.at = i, !.ok = ok]]
        /\ NoFault
     \/ /\ UNCHANGED rows
        /\ disp' = [disp EXCEPT ![d] = After(@.batch, i)]
        /\ Fault
  /\ UNCHANGED <<sub, log, expired>>

\* Mutant: a failed attempt is always given another one.
RecordedForever(x, n, ok) ==
  [x EXCEPT !.status = IF ok THEN "delivered" ELSE "failed",
            !.attempts = n,
            !.retry = IF ok THEN "none" ELSE "waiting"]

\* Mutant: the last attempt is not made.
RecordedOneShort(x, n, ok) ==
  [x EXCEPT !.status = IF ok THEN "delivered" ELSE "failed",
            !.attempts = n,
            !.retry = IF ~ok /\ n + 1 < MaxRetries THEN "waiting" ELSE "none"]

\* Mutant: the outcome is recorded but the attempt is not counted.
RecordedUncounted(x, n, ok) ==
  [x EXCEPT !.status = IF ok THEN "delivered" ELSE "failed",
            !.retry = IF ~ok /\ n < MaxRetries THEN "waiting" ELSE "none"]

\* Mutant: every attempt that got an answer counts as delivered.
RecordedAnyAnswer(x, n, ok) ==
  [x EXCEPT !.status = "delivered", !.attempts = n, !.retry = "none"]

\* What UpdateDelivery writes after the n-th attempt.
Recorded(x, n, ok) ==
  [x EXCEPT !.status = IF ok THEN "delivered" ELSE "failed",
            !.attempts = n,
            !.retry = IF ~ok /\ n < MaxRetries THEN "waiting" ELSE "none"]

UpdateDelivery(d) ==
  /\ disp[d].pc = "update_delivery"
  /\ LET i == disp[d].at IN
     /\ \/ /\ rows[i].status # "gone"
           /\ rows' = [rows EXCEPT ![i] = Recorded(@, disp[d].batch[i] + 1, disp[d].ok)]
           /\ NoFault
        \/ /\ rows[i].status = "gone"
           /\ UNCHANGED rows
           /\ NoFault
        \/ /\ UNCHANGED rows
           /\ Fault
     /\ disp' = [disp EXCEPT ![d] = After(@.batch, i)]
  /\ UNCHANGED <<sub, log, expired>>

Cycle(d) ==
  \/ \E blind \in BOOLEAN : FindUndelivered(d, blind) \/ FindPending(d, blind)
  \/ CreateDeliveries(d) \/ Attempt(d) \/ UpdateDelivery(d)

\* The process stops at any point and starts again at the beginning of a cycle.
Crash(d) ==
  /\ disp[d].pc # "find_undelivered"
  /\ disp' = [disp EXCEPT ![d] = Idle]
  /\ Fault
  /\ UNCHANGED <<sub, log, expired, rows>>

(***************************************************************************)
(* The rest of the server: every mutation commits an audit entry with the *)
(* caller's active system in the same transaction (audit.go                *)
(* WriteFromContext).  The subscription operations need an active system   *)
(* (RequireSystemScope); it is the subscription's when the transaction     *)
(* begins but, as RequestScope shows, may be another one by the time the   *)
(* entry is written.                                                       *)
(***************************************************************************)
Audit(y) == \E e \in Event \ log : EventSystem[e] = y /\ log' = log \cup {e}

Mutation ==
  /\ \E y \in System \cup {None} : Audit(y)
  /\ UNCHANGED <<sub, expired, rows, disp, faults>>

CreateSubscription(s) ==
  /\ sub[s] = "none"
  /\ sub' = [sub EXCEPT ![s] = "active"]
  /\ \E y \in System : Audit(y)
  /\ UNCHANGED <<expired, rows, disp, faults>>

UpdateSubscription(s) ==
  /\ sub[s] \in {"active", "inactive"}
  /\ \E b \in {"active", "inactive"} : sub' = [sub EXCEPT ![s] = b]
  /\ \E y \in System : Audit(y)
  /\ UNCHANGED <<expired, rows, disp, faults>>

\* ON DELETE CASCADE takes the subscription's delivery rows with it.
DeleteSubscription(s) ==
  /\ sub[s] \in {"active", "inactive"}
  /\ sub' = [sub EXCEPT ![s] = "deleted"]
  /\ rows' = [i \in DOMAIN rows |->
                IF rows[i].sub = s THEN [rows[i] EXCEPT !.status = "gone", !.retry = "none"]
                ELSE rows[i]]
  /\ \E y \in System : Audit(y)
  /\ UNCHANGED <<expired, disp, faults>>

\* Time: an entry leaves the window of FindUndelivered, a retry falls due.
Expire ==
  /\ expired + 1 \in log
  /\ expired' = expired + 1
  /\ UNCHANGED <<sub, log, rows, disp, faults>>

FallDue(p) ==
  /\ \E i \in DOMAIN rows :
       /\ rows[i].sub = p.sub /\ rows[i].event = p.event
       /\ rows[i].retry = "waiting"
       /\ rows' = [rows EXCEPT ![i].retry = "due"]
  /\ UNCHANGED <<sub, log, expired, disp, faults>>

Next ==
  \/ \E d \in Dispatcher : Cycle(d) \/ Crash(d)
  \/ Mutation
  \/ \E s \in Sub : CreateSubscription(s) \/ UpdateSubscription(s) \/ DeleteSubscription(s)
  \/ Expire
  \/ \E p \in Pair : FallDue(p)

Spec == Init /\ [][Next]_vars

\* Run polls for ever.  Nobody has to mutate anything.
PollingSpec == Spec /\ \A d \in Dispatcher : WF_vars(Cycle(d))

\* And time passes.
FairSpec == PollingSpec /\ \A p \in Pair : WF_vars(FallDue(p))

(***************************************************************************)
(* Properties.                                                             *)
(***************************************************************************)
Done(x) == x.status = "delivered" \/ (x.status = "failed" /\ x.retry = "none")
Attempting(d, i) == disp[d].pc = "update_delivery" /\ disp[d].at = i

\* A subscriber's row is marked delivered only if that subscriber answered 2xx to a
\* post of that row, and a row that is given up has had all its attempts, whichever
\* dispatcher recorded what from whatever snapshot (dispatcher.go:196-223).
OutcomeIsTrue ==
  \A i \in DOMAIN rows :
    /\ rows[i].status = "delivered" => rows[i].acked
    /\ rows[i].status = "failed" /\ rows[i].retry = "none" => rows[i].attempts = MaxRetries

\* A subscription is only ever posted entries of its own system that were committed
\* (repository.go:161-163).
RowsInScope ==
  \A i \in DOMAIN rows :
    rows[i].event \in log /\ SubSystem[rows[i].sub] = EventSystem[rows[i].event]

\* "Each (auditLogID, subscriptionID) pair gets its own delivery row"
\* (dispatcher.go:103): one row, not several.
OneRowPerPair ==
  \A i, j \in DOMAIN rows :
    rows[i].sub = rows[j].sub /\ rows[i].event = rows[j].event => i = j

\* Every post of a row that still exists is one of its recorded attempts, the attempt
\* under way, or one whose recording a crash or a failed update lost
\* (dispatcher.go:184-241).
PostsAccounted ==
  \A i \in DOMAIN rows : rows[i].status # "gone" =>
    rows[i].posts <= rows[i].attempts + faults
                       + Cardinality({d \in Dispatcher : Attempting(d, i)})

\* Once a row is delivered or given up, it is never posted again
\* (repository.go:216-217).
NoPostWhenDone ==
  [][\A i \in DOMAIN rows : Done(rows[i]) => rows'[i].posts = rows[i].posts]_vars

\* What a process needs of its pool: if it looks again and again, it does so again and
\* again on a connection that served a scoped request before.  The code has nothing that
\* brings this about, so it is a premise of the properties and no fairness of the
\* specification.
FindsSubscriptions(d) ==
  []<><<FindUndelivered(d, TRUE)>>_vars => []<><<FindUndelivered(d, FALSE)>>_vars

FindsRows(d) == []<><<FindPending(d, TRUE)>>_vars => []<><<FindPending(d, FALSE)>>_vars

Enqueued(p) ==
  p.event \in log /\ sub[p.sub] = "active"
    ~> HasRow(p) \/ sub[p.sub] # "active" \/ p.event <= expired

\* An entry committed while its system has an active subscriber gets a delivery row,
\* unless it leaves the 24 hour window or the subscriber stops being one, as long as one
\* process is not shown an empty table for ever: the pairs of a batch that was aborted
\* are found again (repository.go:158-171, dispatcher.go:93-135).
EveryEventEnqueued ==
  (\E d \in Dispatcher : FindsSubscriptions(d)) =>
    \A p \in Pair : SubSystem[p.sub] = EventSystem[p.event] => Enqueued(p)

Settles(p) ==
  HasRow(p) ~> \A i \in DOMAIN rows :
                 rows[i].sub = p.sub /\ rows[i].event = p.event =>
                   Done(rows[i]) \/ rows[i].status = "gone"

\* Every delivery row is delivered, given up, or removed with its subscription, as long as
\* one process is not shown an empty table for ever (dispatcher.go:138-242).
EveryRowSettles == (\E d \in Dispatcher : FindsRows(d)) => \A p \in Pair : Settles(p)

(***************************************************************************)
(* The inductive invariant, for any number of dispatchers.                 *)
(***************************************************************************)

\* What its columns say of a delivery row is consistent, whoever wrote them.
RowOK(x) ==
  /\ x.event \in log /\ SubSystem[x.sub] = EventSystem[x.event]
  /\ x.status = "gone" <=> sub[x.sub] = "deleted"
  /\ x.status = "delivered" => x.acked
  /\ x.status = "failed" /\ x.retry = "none" => x.attempts = MaxRetries
  /\ x.status = "pending" \/ x.retry # "none" => x.attempts < MaxRetries
  /\ x.retry # "none" => x.status = "failed"

\* What a dispatcher remembers was true when it read it.
SnapshotOK(d) ==
  /\ \A p \in disp[d].pairs : p.event \in log /\ SubSystem[p.sub] = EventSystem[p.event]
  /\ \A i \in DOMAIN disp[d].batch : disp[d].batch[i] < MaxRetries
  /\ disp[d].pc = "update_delivery" =>
       disp[d].at \in DOMAIN disp[d].batch /\ (disp[d].ok => rows[disp[d].at].acked)

\* What makes outcomes true and keeps them in scope although dispatchers overwrite each
\* other's (dispatcher.go:88-242, repository.go:158-260).
IInv ==
  /\ TypeOK
  /\ \A i \in DOMAIN rows : RowOK(rows[i])
  /\ \A d \in Dispatcher : SnapshotOK(d)

(***************************************************************************)
(* With a single dispatcher, what it remembers stays true.                 *)
(***************************************************************************)
SnapshotFresh(d) ==
  /\ disp[d].pc = "create_deliveries" => \A p \in disp[d].pairs : ~HasRow(p)
  /\ \A i \in DOMAIN disp[d].batch :
       ~Done(rows[i]) /\ (rows[i].status # "gone" => disp[d].batch[i] = rows[i].attempts)

\* Nobody but the dispatcher itself makes its snapshot of pairs and rows stale, except
\* by removing a subscription (dispatcher.go:88-242).
SingleInv ==
  /\ OneRowPerPair
  /\ PostsAccounted
  /\ \A d \in Dispatcher : SnapshotFresh(d)

(***************************************************************************)
(* The refinement of DeliveryLifecycle by a single dispatcher: a           *)
(* notification is as far as its delivery row.                             *)
(***************************************************************************)
RowOf(s, e) == CHOOSE i \in DOMAIN rows : rows[i].sub = s /\ rows[i].event = e

Phase(s, e) ==
  IF sub[s] = "deleted" THEN "removed"
  ELSE IF ~HasRow([sub |-> s, event |-> e]) THEN "new"
  ELSE LET x == rows[RowOf(s, e)] IN
       IF ~Done(x) THEN "open" ELSE IF x.status = "delivered" THEN "delivered" ELSE "given_up"

Tries(s, e) ==
  IF sub[s] # "deleted" /\ HasRow([sub |-> s, event |-> e])
  THEN rows[RowOf(s, e)].attempts ELSE 0

Lifecycle == INSTANCE DeliveryLifecycle
  WITH phase <- [s \in Sub |-> [e \in Event |-> Phase(s, e)]],
       tries <- [s \in Sub |-> [e \in Event |-> Tries(s, e)]]

\* A single dispatcher, crashing and restarting at any point, takes every
\* notification through its life cycle (dispatcher.go:88-242).
ImplementsLifecycle == Lifecycle!Spec

=============================================================================
