------------------------- MODULE WebhookDispatchProofs -------------------------
(***************************************************************************)
(* Theorems about WebhookDispatch for every set of subscriptions, entries  *)
(* and systems, every batch limit and maximum of attempts, any number of   *)
(* dispatchers, and any number of crashes and failed calls.                *)
(***************************************************************************)
EXTENDS WebhookDispatch, FiniteSetTheorems, SequenceTheorems, TLAPS

(***************************************************************************)
(* Lemmas.                                                                 *)
(***************************************************************************)

\* There are finitely many pairs of a subscription and an entry.
LEMMA PairsFinite == IsFiniteSet(Pair)
<1> DEFINE f == [x \in Sub \X Event |-> [sub |-> x[1], event |-> x[2]]]
<1>1. IsFiniteSet(Sub \X Event)
  BY FS_Product, DispatchAssumption
<1>2. f \in Surjection(Sub \X Event, Pair)
  <2>1. f \in [Sub \X Event -> Pair]
    BY DEF Pair
  <2>2. ASSUME NEW p \in Pair PROVE \E x \in Sub \X Event : f[x] = p
    <3>1. <<p.sub, p.event>> \in Sub \X Event /\ f[<<p.sub, p.event>>] = p
      BY DEF Pair
    <3> QED
      BY <3>1
  <2> QED
    BY <2>1, <2>2 DEF Surjection
<1> QED
  BY <1>1, <1>2, FS_Surjection

\* Entries are numbered from 1.
LEMMA EventsAreNumbers ==
  /\ Cardinality(Event) \in Nat
  /\ Event = 1 .. Cardinality(Event)
BY FS_CardinalityType, DispatchAssumption

\* The rows a dispatcher picked, with their attempts.
LEMMA BatchType ==
  ASSUME NEW B \in SUBSET (DOMAIN rows), NEW f \in [B -> 0 .. MaxRetries]
  PROVE  f \in Batch
BY DEF Batch

\* What is known of a dispatcher's state.
LEMMA ProcessType ==
  ASSUME NEW x \in Process
  PROVE  /\ x.pc \in {"find_undelivered", "create_deliveries", "find_pending", "attempt",
                      "update_delivery"}
         /\ x.pairs \in SUBSET Pair
         /\ DOMAIN x.batch \in SUBSET (DOMAIN rows)
         /\ \A i \in DOMAIN x.batch : x.batch[i] \in 0 .. MaxRetries
         /\ x.batch = [i \in DOMAIN x.batch |-> x.batch[i]]
         /\ x.at \in Nat /\ x.ok \in BOOLEAN
<1>1. x.batch \in Batch
  BY DEF Process
<1>2. PICK B \in SUBSET (DOMAIN rows) : x.batch \in [B -> 0 .. MaxRetries]
  BY <1>1 DEF Batch
<1>3. DOMAIN x.batch = B
  BY <1>2
<1> QED
  BY <1>2, <1>3 DEF Process

\* A dispatcher at the beginning of a cycle has read nothing.
LEMMA IdleType == Idle \in Process
<1>1. Idle.batch \in [{} -> 0 .. MaxRetries]
  BY DEF Idle
<1>2. Idle.batch \in Batch
  BY <1>1, BatchType
<1> QED
  BY <1>2 DEF Idle, Process

\* A dispatcher that has finished with one row of its batch (dispatcher.go:143-150).
LEMMA AfterType ==
  ASSUME NEW x \in Process, NEW i
  PROVE  /\ After(x.batch, i) \in Process
         /\ After(x.batch, i).pc \in {"find_undelivered", "attempt"}
         /\ After(x.batch, i).pairs = {}
         /\ DOMAIN After(x.batch, i).batch = DOMAIN x.batch \ {i}
         /\ \A j \in DOMAIN x.batch \ {i} : After(x.batch, i).batch[j] = x.batch[j]
<1> DEFINE b == [j \in DOMAIN x.batch \ {i} |-> x.batch[j]]
<1>1. b \in [DOMAIN x.batch \ {i} -> 0 .. MaxRetries] /\ DOMAIN x.batch \ {i} \in SUBSET (DOMAIN rows)
  BY ProcessType
<1>2. b \in Batch
  BY <1>1, BatchType
<1>3. After(x.batch, i).batch = b
  BY DEF After
<1> QED
  BY <1>2, <1>3 DEF After, Process

\* Rows are only added, never taken away, so what dispatchers remember keeps its type.
LEMMA ProcessMonotonic ==
  ASSUME DOMAIN rows \subseteq DOMAIN rows'
  PROVE  Process \subseteq Process'
<1>1. Batch \subseteq Batch'
  BY DEF Batch
<1> QED
  BY <1>1 DEF Process

\* One row is replaced.
LEMMA RowReplaced ==
  ASSUME rows \in Seq(Row), NEW i \in DOMAIN rows, NEW x \in Row,
         rows' = [rows EXCEPT ![i] = x]
  PROVE  /\ rows' \in Seq(Row)
         /\ DOMAIN rows' = DOMAIN rows
         /\ rows'[i] = x
         /\ \A j \in DOMAIN rows \ {i} : rows'[j] = rows[j]
BY ExceptSeq, LenProperties

\* Some rows are replaced.
LEMMA RowsReplaced ==
  ASSUME rows \in Seq(Row), DOMAIN rows' = DOMAIN rows,
         rows' = [i \in DOMAIN rows |-> rows'[i]],
         \A i \in DOMAIN rows : rows'[i] \in Row
  PROVE  rows' \in Seq(Row)
<1>1. Len(rows) \in Nat /\ DOMAIN rows = 1 .. Len(rows)
  BY LenProperties
<1>2. rows' \in [1 .. Len(rows) -> Row]
  BY <1>1
<1> QED
  BY <1>1, <1>2, SeqDef

\* Rows that nobody writes stay consistent as entries are added to the log.
LEMMA RowsKept ==
  ASSUME IInv, UNCHANGED rows, log \subseteq log',
         \A s \in Sub : sub'[s] = "deleted" <=> sub[s] = "deleted"
  PROVE  \A i \in DOMAIN rows' : RowOK(rows[i])'
<1>1. \A i \in DOMAIN rows : rows[i] \in Row
  BY LenProperties, ElementOfSeq DEF IInv, TypeOK
<1>2. \A i \in DOMAIN rows : rows[i].sub \in Sub
  BY <1>1 DEF Row
<1> QED
  BY <1>2 DEF IInv, RowOK

\* What dispatchers remember stays true as rows and entries are added and answers come.
LEMMA SnapshotsKept ==
  ASSUME IInv, UNCHANGED disp, log \subseteq log', DOMAIN rows \subseteq DOMAIN rows',
         \A i \in DOMAIN rows : rows[i].acked => rows'[i].acked
  PROVE  disp' \in [Dispatcher -> Process'] /\ \A d \in Dispatcher : SnapshotOK(d)'
<1>1. \A d \in Dispatcher : disp[d] \in Process /\ disp[d] \in Process'
  BY ProcessMonotonic DEF IInv, TypeOK
<1>2. \A d \in Dispatcher : DOMAIN disp[d].batch \in SUBSET (DOMAIN rows)
  BY <1>1, ProcessType
<1> QED
  BY <1>1, <1>2 DEF IInv, TypeOK, SnapshotOK

\* The same when dispatcher d goes on with state x.
LEMMA SnapshotReplaced ==
  ASSUME IInv, NEW d \in Dispatcher, NEW x \in Process',
         disp' = [disp EXCEPT ![d] = x],
         log \subseteq log', DOMAIN rows \subseteq DOMAIN rows',
         \A i \in DOMAIN rows : rows[i].acked => rows'[i].acked,
         \A p \in x.pairs : p.event \in log' /\ SubSystem[p.sub] = EventSystem[p.event],
         \A i \in DOMAIN x.batch : x.batch[i] < MaxRetries,
         x.pc = "update_delivery" =>
           x.at \in DOMAIN x.batch /\ (x.ok => rows'[x.at].acked)
  PROVE  /\ disp' \in [Dispatcher -> Process']
         /\ disp'[d] = x
         /\ \A e \in Dispatcher \ {d} : disp'[e] = disp[e]
         /\ \A e \in Dispatcher : SnapshotOK(e)'
<1>1. \A e \in Dispatcher : disp[e] \in Process /\ disp[e] \in Process'
  BY ProcessMonotonic DEF IInv, TypeOK
<1>2. \A e \in Dispatcher : DOMAIN disp[e].batch \in SUBSET (DOMAIN rows)
  BY <1>1, ProcessType
<1>3. /\ disp' \in [Dispatcher -> Process']
      /\ disp'[d] = x
      /\ \A e \in Dispatcher \ {d} : disp'[e] = disp[e]
  BY <1>1 DEF IInv, TypeOK
<1>4. ASSUME NEW e \in Dispatcher PROVE SnapshotOK(e)'
  <2>1. CASE e = d
    BY <1>3, <2>1 DEF SnapshotOK
  <2>2. CASE e # d
    <3>1. disp'[e] = disp[e] /\ SnapshotOK(e)
      BY <1>3, <2>2 DEF IInv
    <3>2. DOMAIN disp[e].batch \in SUBSET (DOMAIN rows)
      BY <1>2
    <3> QED
      BY <3>1, <3>2 DEF SnapshotOK
  <2> QED
    BY <2>1, <2>2
<1> QED
  BY <1>3, <1>4

\* A fault is counted.
LEMMA FaultsType ==
  ASSUME IInv, Fault \/ NoFault
  PROVE  faults' \in 0 .. MaxFaults /\ faults <= faults'
BY DispatchAssumption DEF IInv, TypeOK, Fault, NoFault

(***************************************************************************)
(* Every step preserves the invariant.                                     *)
(***************************************************************************)

\* Only committed entries of the subscription's own system are found
\* (repository.go:158-171).
LEMMA FindUndeliveredStep ==
  ASSUME IInv, NEW d \in Dispatcher, NEW blind \in BOOLEAN, FindUndelivered(d, blind)
  PROVE  IInv'
<1>1. UNCHANGED <<sub, log, expired, rows>> /\ (Fault \/ NoFault)
  BY DEF FindUndelivered
<1>2. disp[d] \in Process /\ SnapshotOK(d) /\ disp[d].pc = "find_undelivered"
  BY DEF IInv, TypeOK, FindUndelivered
<1>3. disp' \in [Dispatcher -> Process'] /\ \A e \in Dispatcher : SnapshotOK(e)'
  <2>1. ASSUME NEW P \in Oldest(Shown(Undelivered, blind), EnqueueLimit, [p \in Undelivered |-> p.event]),
               disp' = [disp EXCEPT ![d] =
                         [@ EXCEPT !.pairs = P,
                                   !.pc = IF P = {} THEN "find_pending"
                                          ELSE "create_deliveries"]]
        PROVE  disp' \in [Dispatcher -> Process'] /\ \A e \in Dispatcher : SnapshotOK(e)'
    <3> DEFINE c == IF P = {} THEN "find_pending" ELSE "create_deliveries"
               x == [disp[d] EXCEPT !.pairs = P, !.pc = c]
    <3>1. disp' = [disp EXCEPT ![d] = x]
      BY <2>1
    <3>2. c \in {"find_pending", "create_deliveries"}
      OBVIOUS
    <3> HIDE DEF c
    <3>3. P \subseteq Undelivered
      BY <2>1 DEF Oldest, Shown
    <3>4. /\ P \in SUBSET Pair
          /\ \A p \in P : p.event \in log /\ SubSystem[p.sub] = EventSystem[p.event]
      BY <3>3 DEF Undelivered
    <3>5. /\ x \in Process'
          /\ x.pairs = P /\ x.batch = disp[d].batch /\ x.pc = c
      BY <1>1, <1>2, <3>2, <3>4 DEF Process, Batch
    <3> HIDE DEF x
    <3> QED
      BY <1>1, <1>2, <3>1, <3>2, <3>4, <3>5, SnapshotReplaced DEF SnapshotOK
  <2>2. ASSUME disp' = [disp EXCEPT ![d].pc = "find_pending"]
        PROVE  disp' \in [Dispatcher -> Process'] /\ \A e \in Dispatcher : SnapshotOK(e)'
    <3> DEFINE x == [disp[d] EXCEPT !.pc = "find_pending"]
    <3>1. disp' = [disp EXCEPT ![d] = x]
      BY <2>2
    <3>2. /\ x \in Process'
          /\ x.pairs = disp[d].pairs /\ x.batch = disp[d].batch /\ x.pc = "find_pending"
      BY <1>1, <1>2 DEF Process, Batch
    <3> HIDE DEF x
    <3> QED
      BY <1>1, <1>2, <3>1, <3>2, SnapshotReplaced DEF SnapshotOK
  <2> QED
    BY <2>1, <2>2 DEF FindUndelivered
<1>4. \A i \in DOMAIN rows' : RowOK(rows[i])'
  BY <1>1, RowsKept
<1>5. TypeOK'
  BY <1>1, <1>3, FaultsType DEF IInv, TypeOK
<1> QED
  BY <1>3, <1>4, <1>5 DEF IInv

\* The rows a batch takes have attempts left (repository.go:212-219).
LEMMA FindPendingStep ==
  ASSUME IInv, NEW d \in Dispatcher, NEW blind \in BOOLEAN, FindPending(d, blind)
  PROVE  IInv'
<1>1. UNCHANGED <<sub, log, expired, rows>> /\ (Fault \/ NoFault)
  BY DEF FindPending
<1>2. disp[d] \in Process /\ SnapshotOK(d)
  BY DEF IInv, TypeOK
<1>3. disp' \in [Dispatcher -> Process'] /\ \A e \in Dispatcher : SnapshotOK(e)'
  <2>1. ASSUME NEW B \in Oldest(Shown(Ready, blind), DispatchLimit, [i \in Ready |-> i]),
               disp' = [disp EXCEPT ![d] =
                         [@ EXCEPT !.pc = IF B = {} THEN "find_undelivered" ELSE "attempt",
                                   !.batch = [i \in B |-> rows[i].attempts]]]
        PROVE  disp' \in [Dispatcher -> Process'] /\ \A e \in Dispatcher : SnapshotOK(e)'
    <3> DEFINE c == IF B = {} THEN "find_undelivered" ELSE "attempt"
               b == [i \in B |-> rows[i].attempts]
               x == [disp[d] EXCEPT !.pc = c, !.batch = b]
    <3>1. disp' = [disp EXCEPT ![d] = x]
      BY <2>1
    <3>2. c \in {"find_undelivered", "attempt"}
      OBVIOUS
    <3>3. B \subseteq Ready
      BY <2>1 DEF Oldest, Shown
    <3>4. \A i \in DOMAIN rows : rows[i] \in Row
      BY LenProperties, ElementOfSeq DEF IInv, TypeOK
    <3>5. \A i \in B : i \in DOMAIN rows /\ rows[i].attempts \in 0 .. MaxRetries
                       /\ rows[i].attempts < MaxRetries
      <4> SUFFICES ASSUME NEW i \in B
                   PROVE  i \in DOMAIN rows /\ rows[i].attempts \in 0 .. MaxRetries
                          /\ rows[i].attempts < MaxRetries
        OBVIOUS
      <4>1. i \in DOMAIN rows /\ (rows[i].status = "pending" \/ rows[i].retry # "none")
        BY <3>3 DEF Ready
      <4> QED
        BY <3>4, <4>1 DEF IInv, RowOK, Row
    <3>6. b \in [B -> 0 .. MaxRetries] /\ B \in SUBSET (DOMAIN rows)
      BY <3>5
    <3>7. b \in Batch
      BY <3>6, BatchType
    <3>8. DOMAIN b = B /\ \A i \in B : b[i] < MaxRetries
      BY <3>5
    <3> HIDE DEF c, b
    <3>9. /\ x \in Process'
          /\ x.pairs = disp[d].pairs /\ x.batch = b /\ x.pc = c
      BY <1>1, <1>2, <3>2, <3>7 DEF Process, Batch
    <3> HIDE DEF x
    <3> QED
      BY <1>1, <1>2, <3>1, <3>2, <3>8, <3>9, SnapshotReplaced DEF SnapshotOK
  <2>2. ASSUME disp' = [disp EXCEPT ![d].pc = "find_undelivered"]
        PROVE  disp' \in [Dispatcher -> Process'] /\ \A e \in Dispatcher : SnapshotOK(e)'
    <3> DEFINE x == [disp[d] EXCEPT !.pc = "find_undelivered"]
    <3>1. disp' = [disp EXCEPT ![d] = x]
      BY <2>2
    <3>2. /\ x \in Process'
          /\ x.pairs = disp[d].pairs /\ x.batch = disp[d].batch /\ x.pc = "find_undelivered"
      BY <1>1, <1>2 DEF Process, Batch
    <3> HIDE DEF x
    <3> QED
      BY <1>1, <1>2, <3>1, <3>2, SnapshotReplaced DEF SnapshotOK
  <2> QED
    BY <2>1, <2>2 DEF FindPending
<1>4. \A i \in DOMAIN rows' : RowOK(rows[i])'
  BY <1>1, RowsKept
<1>5. TypeOK'
  BY <1>1, <1>3, FaultsType DEF IInv, TypeOK
<1> QED
  BY <1>3, <1>4, <1>5 DEF IInv

\* The rows of a batch of pairs (repository.go:190-200).
LEMMA NewRowsType ==
  ASSUME NEW P \in SUBSET Pair, NEW q \in SetToSeqs(P)
  PROVE  /\ [i \in DOMAIN q |-> NewRow(q[i])] \in Seq(Row)
         /\ DOMAIN q = 1 .. Cardinality(P) /\ Cardinality(P) \in Nat
         /\ Len([i \in DOMAIN q |-> NewRow(q[i])]) = Cardinality(P)
         /\ \A i \in DOMAIN q : q[i] \in P
         /\ \A i, j \in DOMAIN q : q[i] = q[j] => i = j
<1> DEFINE n == [i \in DOMAIN q |-> NewRow(q[i])]
<1>1. Cardinality(P) \in Nat
  BY PairsFinite, FS_Subset, FS_CardinalityType
<1>2. /\ DOMAIN q = 1 .. Cardinality(P)
      /\ \A i \in DOMAIN q : q[i] \in P
      /\ \A i, j \in DOMAIN q : q[i] = q[j] => i = j
  BY DEF SetToSeqs
<1>3. \A p \in Pair : NewRow(p) \in Row
  BY DispatchAssumption DEF NewRow, Row, Pair
<1>4. n \in [1 .. Cardinality(P) -> Row]
  BY <1>2, <1>3
<1>5. n \in Seq(Row)
  BY <1>1, <1>4, SeqDef
<1>6. Len(n) = Cardinality(P)
  BY <1>1, <1>4, <1>5, LenProperties
<1> QED
  BY <1>1, <1>2, <1>5, <1>6

\* Appending the rows of a batch of pairs.
LEMMA RowsAppended ==
  ASSUME rows \in Seq(Row), NEW P \in SUBSET Pair, NEW q \in SetToSeqs(P),
         rows' = rows \o [i \in DOMAIN q |-> NewRow(q[i])]
  PROVE  /\ rows' \in Seq(Row)
         /\ DOMAIN rows \subseteq DOMAIN rows'
         /\ \A i \in DOMAIN rows : rows'[i] = rows[i]
         /\ \A i \in DOMAIN rows' \ DOMAIN rows :
              /\ i - Len(rows) \in DOMAIN q /\ q[i - Len(rows)] \in P
              /\ rows'[i] = NewRow(q[i - Len(rows)])
<1> DEFINE n == [i \in DOMAIN q |-> NewRow(q[i])]
<1>1. /\ n \in Seq(Row) /\ Len(n) = Cardinality(P) /\ Cardinality(P) \in Nat
      /\ DOMAIN q = 1 .. Cardinality(P)
      /\ \A i \in DOMAIN q : q[i] \in P
      /\ \A i \in DOMAIN q : n[i] = NewRow(q[i])
  BY NewRowsType
<1>2. rows' = rows \o n
  OBVIOUS
<1> HIDE DEF n
<1>3. /\ rows' \in Seq(Row)
      /\ Len(rows') = Len(rows) + Len(n)
      /\ \A i \in 1 .. Len(rows) + Len(n) :
           rows'[i] = IF i <= Len(rows) THEN rows[i] ELSE n[i - Len(rows)]
  <2>1. /\ rows \o n \in Seq(Row)
        /\ Len(rows \o n) = Len(rows) + Len(n)
        /\ \A i \in 1 .. Len(rows) + Len(n) :
             (rows \o n)[i] = IF i <= Len(rows) THEN rows[i] ELSE n[i - Len(rows)]
    BY <1>1, ConcatProperties
  <2> QED
    BY <1>2, <2>1
<1>4. /\ Len(rows) \in Nat /\ DOMAIN rows = 1 .. Len(rows)
      /\ DOMAIN rows' = 1 .. Len(rows) + Len(n)
  BY <1>1, <1>3, LenProperties
<1>5. DOMAIN rows \subseteq DOMAIN rows' /\ \A i \in DOMAIN rows : rows'[i] = rows[i]
  BY <1>1, <1>3, <1>4
<1>6. ASSUME NEW i \in DOMAIN rows' \ DOMAIN rows
      PROVE  /\ i - Len(rows) \in DOMAIN q /\ q[i - Len(rows)] \in P
             /\ rows'[i] = NewRow(q[i - Len(rows)])
  <2>1. i \in 1 .. Len(rows) + Len(n) /\ ~(i <= Len(rows))
    BY <1>1, <1>4
  <2>2. i - Len(rows) \in DOMAIN q
    BY <1>1, <1>4, <2>1
  <2> QED
    BY <1>1, <1>3, <2>1, <2>2
<1> QED
  BY <1>3, <1>5, <1>6

\* New rows are of the pairs found, for subscriptions that were not deleted since
\* (dispatcher.go:110-135, repository.go:190-200).
LEMMA CreateDeliveriesStep ==
  ASSUME IInv, NEW d \in Dispatcher, CreateDeliveries(d)
  PROVE  IInv'
<1> DEFINE x == [disp[d] EXCEPT !.pc = "find_pending", !.pairs = {}]
<1>1. UNCHANGED <<sub, log, expired>> /\ (Fault \/ NoFault) /\ disp' = [disp EXCEPT ![d] = x]
  BY DEF CreateDeliveries
<1>2. disp[d] \in Process /\ SnapshotOK(d) /\ disp[d].pairs \in SUBSET Pair
  BY DEF IInv, TypeOK, Process
<1>3. rows \in Seq(Row)
  BY DEF IInv, TypeOK
<1>4. /\ rows' \in Seq(Row)
      /\ DOMAIN rows \subseteq DOMAIN rows'
      /\ \A i \in DOMAIN rows : rows'[i] = rows[i]
      /\ \A i \in DOMAIN rows' : RowOK(rows[i])'
  <2>1. CASE UNCHANGED rows
    BY <1>1, <1>3, <2>1, RowsKept
  <2>2. ASSUME Insertable(disp[d].pairs), NEW q \in SetToSeqs(disp[d].pairs),
               rows' = rows \o [i \in DOMAIN q |-> NewRow(q[i])]
        PROVE  /\ rows' \in Seq(Row)
               /\ DOMAIN rows \subseteq DOMAIN rows'
               /\ \A i \in DOMAIN rows : rows'[i] = rows[i]
               /\ \A i \in DOMAIN rows' : RowOK(rows[i])'
    <3>1. /\ rows' \in Seq(Row)
          /\ DOMAIN rows \subseteq DOMAIN rows'
          /\ \A i \in DOMAIN rows : rows'[i] = rows[i]
          /\ \A i \in DOMAIN rows' \ DOMAIN rows :
               \E p \in disp[d].pairs : rows'[i] = NewRow(p)
      BY <1>2, <1>3, <2>2, RowsAppended
    <3>2. ASSUME NEW i \in DOMAIN rows' PROVE RowOK(rows[i])'
      <4>1. CASE i \in DOMAIN rows
        BY <1>1, <3>1, <4>1 DEF IInv, RowOK
      <4>2. CASE i \notin DOMAIN rows
        <5>1. PICK p \in disp[d].pairs : rows'[i] = NewRow(p)
          BY <3>1, <4>2
        <5>2. /\ p.event \in log /\ SubSystem[p.sub] = EventSystem[p.event]
              /\ sub[p.sub] # "deleted"
          BY <1>2, <2>2, <5>1 DEF SnapshotOK, Insertable
        <5> QED
          BY <1>1, <5>1, <5>2, DispatchAssumption DEF RowOK, NewRow
      <4> QED
        BY <4>1, <4>2
    <3> QED
      BY <3>1, <3>2
  <2> QED
    BY <2>1, <2>2 DEF CreateDeliveries
<1>5. disp' \in [Dispatcher -> Process'] /\ \A e \in Dispatcher : SnapshotOK(e)'
  <2>1. /\ x \in Process
        /\ x.pairs = {} /\ x.batch = disp[d].batch /\ x.pc = "find_pending"
    BY <1>2 DEF Process
  <2>2. x \in Process'
    BY <1>4, <2>1, ProcessMonotonic
  <2> HIDE DEF x
  <2> QED
    BY <1>1, <1>2, <1>4, <2>1, <2>2, SnapshotReplaced DEF SnapshotOK
<1>6. TypeOK'
  BY <1>1, <1>4, <1>5, FaultsType DEF IInv, TypeOK
<1> QED
  BY <1>4, <1>5, <1>6 DEF IInv

\* What a post changes of its row (dispatcher.go:184-196).
LEMMA PostedType ==
  ASSUME NEW x \in Row, NEW ok \in BOOLEAN
  PROVE  /\ Posted(x, ok) \in Row
         /\ Posted(x, ok).sub = x.sub /\ Posted(x, ok).event = x.event
         /\ Posted(x, ok).status = x.status /\ Posted(x, ok).attempts = x.attempts
         /\ Posted(x, ok).retry = x.retry /\ Posted(x, ok).posts = x.posts + 1
         /\ x.acked \/ ok => Posted(x, ok).acked
<1> DEFINE y == [x EXCEPT !.posts = @ + 1]
<1>1. Posted(x, ok) = IF ok THEN [y EXCEPT !.acked = TRUE] ELSE y
  BY DEF Posted
<1>2. /\ y \in Row
      /\ y.sub = x.sub /\ y.event = x.event /\ y.status = x.status
      /\ y.attempts = x.attempts /\ y.retry = x.retry
      /\ y.posts = x.posts + 1 /\ (x.acked => y.acked)
  BY DEF Row
<1> HIDE DEF y
<1>3. CASE ok
  <2> DEFINE z == [y EXCEPT !.acked = TRUE]
  <2>1. /\ z \in Row
        /\ z.sub = y.sub /\ z.event = y.event /\ z.status = y.status
        /\ z.attempts = y.attempts /\ z.retry = y.retry /\ z.posts = y.posts
        /\ z.acked
    BY <1>2 DEF Row
  <2> HIDE DEF z
  <2>2. Posted(x, ok) = z
    BY <1>1, <1>3 DEF z
  <2> QED
    BY <1>2, <2>1, <2>2
<1>4. CASE ~ok
  BY <1>1, <1>2, <1>4
<1> QED
  BY <1>3, <1>4

\* The answer is that of the row attempted (dispatcher.go:154-212).
LEMMA AttemptStep ==
  ASSUME IInv, NEW d \in Dispatcher, Attempt(d)
  PROVE  IInv'
<1>1. UNCHANGED <<sub, log, expired>> /\ (Fault \/ NoFault) /\ disp[d].pc = "attempt"
  BY DEF Attempt
<1>2. disp[d] \in Process /\ SnapshotOK(d) /\ rows \in Seq(Row)
  BY DEF IInv, TypeOK
<1>3. PICK i \in First(disp[d].batch) :
        \/ \E ok \in BOOLEAN :
             /\ rows' = [rows EXCEPT ![i] = Posted(@, ok)]
             /\ disp' = [disp EXCEPT ![d] =
                           [@ EXCEPT !.pc = "update_delivery", !.at = i, !.ok = ok]]
        \/ /\ UNCHANGED rows
           /\ disp' = [disp EXCEPT ![d] = After(@.batch, i)]
  BY DEF Attempt
<1>4. /\ i \in DOMAIN disp[d].batch /\ i \in DOMAIN rows /\ i \in Nat
      /\ rows[i] \in Row
  <2>1. i \in DOMAIN disp[d].batch /\ i \in DOMAIN rows
    BY <1>2, ProcessType DEF First
  <2> QED
    BY <1>2, <2>1, LenProperties, ElementOfSeq
<1>5. ASSUME NEW ok \in BOOLEAN,
             rows' = [rows EXCEPT ![i] = Posted(@, ok)],
             disp' = [disp EXCEPT ![d] =
                        [@ EXCEPT !.pc = "update_delivery", !.at = i, !.ok = ok]]
      PROVE  IInv'
  <2> DEFINE x == [disp[d] EXCEPT !.pc = "update_delivery", !.at = i, !.ok = ok]
             y == Posted(rows[i], ok)
  <2>1. disp' = [disp EXCEPT ![d] = x] /\ rows' = [rows EXCEPT ![i] = y]
    BY <1>5
  <2>2. /\ x \in Process
        /\ x.pairs = disp[d].pairs /\ x.batch = disp[d].batch
        /\ x.pc = "update_delivery" /\ x.at = i /\ x.ok = ok
    BY <1>2, <1>4 DEF Process
  <2>3. /\ y \in Row
        /\ y.sub = rows[i].sub /\ y.event = rows[i].event
        /\ y.status = rows[i].status /\ y.attempts = rows[i].attempts
        /\ y.retry = rows[i].retry
        /\ rows[i].acked \/ ok => y.acked
    BY <1>4, PostedType
  <2> HIDE DEF x, y
  <2>4. /\ rows' \in Seq(Row) /\ DOMAIN rows' = DOMAIN rows
        /\ rows'[i] = y /\ \A j \in DOMAIN rows \ {i} : rows'[j] = rows[j]
    BY <1>2, <1>4, <2>1, <2>3, RowReplaced
  <2>5. \A j \in DOMAIN rows : rows[j].acked => rows'[j].acked
    BY <2>3, <2>4
  <2>6. disp' \in [Dispatcher -> Process'] /\ \A e \in Dispatcher : SnapshotOK(e)'
    <3>1. x \in Process'
      BY <2>2, <2>4, ProcessMonotonic
    <3>2. x.pc = "update_delivery" =>
            x.at \in DOMAIN x.batch /\ (x.ok => rows'[x.at].acked)
      BY <1>4, <2>2, <2>3, <2>4
    <3>3. /\ \A p \in x.pairs : p.event \in log' /\ SubSystem[p.sub] = EventSystem[p.event]
          /\ \A j \in DOMAIN x.batch : x.batch[j] < MaxRetries
      BY <1>1, <1>2, <2>2 DEF SnapshotOK
    <3> QED
      BY <1>1, <2>1, <2>4, <2>5, <3>1, <3>2, <3>3, SnapshotReplaced
  <2>7. ASSUME NEW j \in DOMAIN rows' PROVE RowOK(rows[j])'
    <3>1. RowOK(rows[j])
      BY <2>4 DEF IInv
    <3>2. CASE j = i
      BY <1>1, <2>3, <2>4, <3>1, <3>2 DEF RowOK
    <3>3. CASE j # i
      BY <1>1, <2>4, <3>1, <3>3 DEF RowOK
    <3> QED
      BY <3>2, <3>3
  <2>8. TypeOK'
    BY <1>1, <2>4, <2>6, FaultsType DEF IInv, TypeOK
  <2> QED
    BY <2>6, <2>7, <2>8 DEF IInv
<1>6. ASSUME UNCHANGED rows, disp' = [disp EXCEPT ![d] = After(@.batch, i)]
      PROVE  IInv'
  <2> DEFINE x == After(disp[d].batch, i)
  <2>1. disp' = [disp EXCEPT ![d] = x]
    BY <1>6
  <2>2. /\ x \in Process
        /\ x.pc \in {"find_undelivered", "attempt"} /\ x.pairs = {}
        /\ DOMAIN x.batch = DOMAIN disp[d].batch \ {i}
        /\ \A j \in DOMAIN disp[d].batch \ {i} : x.batch[j] = disp[d].batch[j]
    BY <1>2, AfterType
  <2> HIDE DEF x
  <2>3. x \in Process'
    BY <1>6, <2>2, ProcessMonotonic
  <2>4. disp' \in [Dispatcher -> Process'] /\ \A e \in Dispatcher : SnapshotOK(e)'
    BY <1>1, <1>2, <1>6, <2>1, <2>2, <2>3, SnapshotReplaced DEF SnapshotOK
  <2>5. \A j \in DOMAIN rows' : RowOK(rows[j])'
    BY <1>1, <1>6, RowsKept
  <2>6. TypeOK'
    BY <1>1, <1>6, <2>4, FaultsType DEF IInv, TypeOK
  <2> QED
    BY <2>4, <2>5, <2>6 DEF IInv
<1> QED
  BY <1>3, <1>5, <1>6

\* What UpdateDelivery writes (dispatcher.go:214-241).
LEMMA RecordedType ==
  ASSUME NEW x \in Row, NEW n \in 1 .. MaxRetries, NEW ok \in BOOLEAN
  PROVE  /\ Recorded(x, n, ok) \in Row
         /\ Recorded(x, n, ok).sub = x.sub /\ Recorded(x, n, ok).event = x.event
         /\ Recorded(x, n, ok).acked = x.acked /\ Recorded(x, n, ok).posts = x.posts
         /\ Recorded(x, n, ok).attempts = n
         /\ Recorded(x, n, ok).status = IF ok THEN "delivered" ELSE "failed"
         /\ Recorded(x, n, ok).retry = IF ~ok /\ n < MaxRetries THEN "waiting" ELSE "none"
<1> DEFINE s == IF ok THEN "delivered" ELSE "failed"
           w == IF ~ok /\ n < MaxRetries THEN "waiting" ELSE "none"
           y == [x EXCEPT !.status = s, !.attempts = n, !.retry = w]
<1>1. s \in {"delivered", "failed"} /\ w \in {"waiting", "none"} /\ n \in 0 .. MaxRetries
  BY DispatchAssumption
<1>2. Recorded(x, n, ok) = y
  BY DEF Recorded
<1> HIDE DEF s, w
<1>3. /\ y \in Row
      /\ y.sub = x.sub /\ y.event = x.event /\ y.acked = x.acked /\ y.posts = x.posts
      /\ y.attempts = n /\ y.status = s /\ y.retry = w
  BY <1>1 DEF Row
<1> HIDE DEF y
<1> QED
  BY <1>2, <1>3 DEF s, w

\* The outcome recorded is that of the post just made, and the attempts are those the
\* batch found and one more, whatever others recorded since (dispatcher.go:214-241).
LEMMA UpdateDeliveryStep ==
  ASSUME IInv, NEW d \in Dispatcher, UpdateDelivery(d)
  PROVE  IInv'
<1> DEFINE i == disp[d].at
           x == After(disp[d].batch, i)
           y == Recorded(rows[i], disp[d].batch[i] + 1, disp[d].ok)
<1>1. /\ UNCHANGED <<sub, log, expired>> /\ (Fault \/ NoFault)
      /\ disp[d].pc = "update_delivery"
      /\ disp' = [disp EXCEPT ![d] = x]
      /\ \/ rows[i].status # "gone" /\ rows' = [rows EXCEPT ![i] = y]
         \/ UNCHANGED rows
  BY DEF UpdateDelivery
<1>2. disp[d] \in Process /\ SnapshotOK(d) /\ rows \in Seq(Row)
  BY DEF IInv, TypeOK
<1>3. /\ i \in DOMAIN disp[d].batch /\ i \in DOMAIN rows
      /\ rows[i] \in Row /\ RowOK(rows[i])
  <2>1. i \in DOMAIN disp[d].batch /\ i \in DOMAIN rows
    BY <1>1, <1>2, ProcessType DEF SnapshotOK
  <2> QED
    BY <1>2, <2>1, LenProperties, ElementOfSeq DEF IInv
<1>4. /\ disp[d].batch[i] + 1 \in 1 .. MaxRetries
      /\ disp[d].ok \in BOOLEAN /\ (disp[d].ok => rows[i].acked)
  <2>1. disp[d].batch[i] \in 0 .. MaxRetries /\ disp[d].ok \in BOOLEAN
    BY <1>2, <1>3, ProcessType
  <2>2. disp[d].batch[i] < MaxRetries /\ (disp[d].ok => rows[i].acked)
    BY <1>1, <1>2, <1>3 DEF SnapshotOK
  <2> QED
    BY <2>1, <2>2, DispatchAssumption
<1>5. /\ y \in Row
      /\ y.sub = rows[i].sub /\ y.event = rows[i].event /\ y.acked = rows[i].acked
      /\ y.attempts = disp[d].batch[i] + 1
      /\ y.status = IF disp[d].ok THEN "delivered" ELSE "failed"
      /\ y.retry = IF ~disp[d].ok /\ disp[d].batch[i] + 1 < MaxRetries THEN "waiting"
                   ELSE "none"
  BY <1>3, <1>4, RecordedType
<1> HIDE DEF i, y
<1>6. /\ x \in Process
      /\ x.pc \in {"find_undelivered", "attempt"} /\ x.pairs = {}
      /\ DOMAIN x.batch = DOMAIN disp[d].batch \ {i}
      /\ \A j \in DOMAIN disp[d].batch \ {i} : x.batch[j] = disp[d].batch[j]
  BY <1>2, AfterType
<1> HIDE DEF x
<1>7. /\ rows' \in Seq(Row) /\ DOMAIN rows' = DOMAIN rows
      /\ \A j \in DOMAIN rows : rows[j].acked => rows'[j].acked
      /\ \A j \in DOMAIN rows' : RowOK(rows[j])'
  <2>1. CASE UNCHANGED rows
    BY <1>1, <1>2, <2>1, RowsKept
  <2>2. CASE rows[i].status # "gone" /\ rows' = [rows EXCEPT ![i] = y]
    <3>1. /\ rows' \in Seq(Row) /\ DOMAIN rows' = DOMAIN rows
          /\ rows'[i] = y /\ \A j \in DOMAIN rows \ {i} : rows'[j] = rows[j]
      BY <1>2, <1>3, <1>5, <2>2, RowReplaced
    <3>2. ASSUME NEW j \in DOMAIN rows PROVE RowOK(rows[j])'
      <4>1. CASE j = i
        <5>1. y.status = "delivered" => y.acked
          BY <1>4, <1>5
        <5>2. /\ y.status # "gone"
              /\ sub[y.sub] # "deleted"
              /\ y.event \in log /\ SubSystem[y.sub] = EventSystem[y.event]
          BY <1>3, <1>5, <2>2 DEF RowOK
        <5>3. /\ y.status = "failed" /\ y.retry = "none" => y.attempts = MaxRetries
              /\ y.status = "pending" \/ y.retry # "none" => y.attempts < MaxRetries
              /\ y.retry # "none" => y.status = "failed"
          BY <1>4, <1>5, DispatchAssumption
        <5> QED
          BY <1>1, <3>1, <4>1, <5>1, <5>2, <5>3 DEF RowOK
      <4>2. CASE j # i
        BY <1>1, <3>1, <4>2 DEF IInv, RowOK
      <4> QED
        BY <4>1, <4>2
    <3> QED
      BY <1>5, <3>1, <3>2
  <2> QED
    BY <1>1, <2>1, <2>2
<1>8. disp' \in [Dispatcher -> Process'] /\ \A e \in Dispatcher : SnapshotOK(e)'
  <2>1. x \in Process'
    BY <1>6, <1>7, ProcessMonotonic
  <2> QED
    BY <1>1, <1>2, <1>6, <1>7, <2>1, SnapshotReplaced DEF SnapshotOK
<1>9. TypeOK'
  BY <1>1, <1>7, <1>8, FaultsType DEF IInv, TypeOK
<1> QED
  BY <1>7, <1>8, <1>9 DEF IInv

\* A process that starts again remembers nothing.
LEMMA CrashStep ==
  ASSUME IInv, NEW d \in Dispatcher, Crash(d)
  PROVE  IInv'
<1>1. UNCHANGED <<sub, log, expired, rows>> /\ Fault /\ disp' = [disp EXCEPT ![d] = Idle]
  BY DEF Crash
<1>2. /\ Idle \in Process
      /\ Idle.pc = "find_undelivered" /\ Idle.pairs = {} /\ DOMAIN Idle.batch = {}
  BY IdleType DEF Idle
<1>3. Idle \in Process'
  BY <1>1, <1>2, ProcessMonotonic
<1>4. disp' \in [Dispatcher -> Process'] /\ \A e \in Dispatcher : SnapshotOK(e)'
  BY <1>1, <1>2, <1>3, SnapshotReplaced
<1>5. \A i \in DOMAIN rows' : RowOK(rows[i])'
  BY <1>1, RowsKept
<1>6. TypeOK'
  BY <1>1, <1>4, FaultsType DEF IInv, TypeOK
<1> QED
  BY <1>4, <1>5, <1>6 DEF IInv

\* An entry is added to the log, and no other.
LEMMA AuditProperties ==
  ASSUME IInv, NEW y, Audit(y)
  PROVE  log' \in SUBSET Event /\ log \subseteq log'
BY DEF Audit, IInv, TypeOK

\* A mutation elsewhere.
LEMMA MutationStep ==
  ASSUME IInv, Mutation
  PROVE  IInv'
<1>1. UNCHANGED <<sub, expired, rows, disp, faults>>
  BY DEF Mutation
<1>2. log' \in SUBSET Event /\ log \subseteq log'
  BY AuditProperties DEF Mutation
<1>3. disp' \in [Dispatcher -> Process'] /\ \A e \in Dispatcher : SnapshotOK(e)'
  BY <1>1, <1>2, SnapshotsKept
<1>4. \A i \in DOMAIN rows' : RowOK(rows[i])'
  BY <1>1, <1>2, RowsKept
<1>5. TypeOK'
  BY <1>1, <1>2, <1>3 DEF IInv, TypeOK
<1> QED
  BY <1>3, <1>4, <1>5 DEF IInv

\* A subscription is created or changed; rows queued for it stay as they are
\* (webhook/service.go:47-155).
LEMMA SubscriptionStep ==
  ASSUME IInv, NEW s \in Sub, CreateSubscription(s) \/ UpdateSubscription(s)
  PROVE  IInv'
<1>1. UNCHANGED <<expired, rows, disp, faults>>
  BY DEF CreateSubscription, UpdateSubscription
<1>2. /\ sub' \in [Sub -> {"none", "active", "inactive", "deleted"}]
      /\ \A t \in Sub : sub'[t] = "deleted" <=> sub[t] = "deleted"
  BY DEF CreateSubscription, UpdateSubscription, IInv, TypeOK
<1>3. log' \in SUBSET Event /\ log \subseteq log'
  BY AuditProperties DEF CreateSubscription, UpdateSubscription
<1>4. disp' \in [Dispatcher -> Process'] /\ \A e \in Dispatcher : SnapshotOK(e)'
  BY <1>1, <1>3, SnapshotsKept
<1>5. \A i \in DOMAIN rows' : RowOK(rows[i])'
  BY <1>1, <1>2, <1>3, RowsKept
<1>6. TypeOK'
  BY <1>1, <1>2, <1>3, <1>4 DEF IInv, TypeOK
<1> QED
  BY <1>4, <1>5, <1>6 DEF IInv

\* A row whose subscription is removed, and one whose retry falls due.
LEMMA RowChanges ==
  ASSUME NEW x \in Row
  PROVE  /\ [x EXCEPT !.status = "gone", !.retry = "none"] \in Row
         /\ [x EXCEPT !.status = "gone", !.retry = "none"].sub = x.sub
         /\ [x EXCEPT !.status = "gone", !.retry = "none"].event = x.event
         /\ [x EXCEPT !.status = "gone", !.retry = "none"].status = "gone"
         /\ [x EXCEPT !.status = "gone", !.retry = "none"].retry = "none"
         /\ [x EXCEPT !.status = "gone", !.retry = "none"].acked = x.acked
         /\ [x EXCEPT !.status = "gone", !.retry = "none"].posts = x.posts
         /\ [x EXCEPT !.status = "gone", !.retry = "none"].attempts = x.attempts
         /\ [x EXCEPT !.retry = "due"] \in Row
         /\ [x EXCEPT !.retry = "due"].sub = x.sub
         /\ [x EXCEPT !.retry = "due"].event = x.event
         /\ [x EXCEPT !.retry = "due"].status = x.status
         /\ [x EXCEPT !.retry = "due"].retry = "due"
         /\ [x EXCEPT !.retry = "due"].acked = x.acked
         /\ [x EXCEPT !.retry = "due"].posts = x.posts
         /\ [x EXCEPT !.retry = "due"].attempts = x.attempts
BY DEF Row

\* What DeleteSubscription does to the rows (webhook/service.go:158-182).
LEMMA RowsRemoved ==
  ASSUME IInv, NEW s \in Sub, DeleteSubscription(s)
  PROVE  /\ rows' \in Seq(Row) /\ DOMAIN rows' = DOMAIN rows
         /\ \A i \in DOMAIN rows :
              /\ rows'[i].sub = rows[i].sub /\ rows'[i].event = rows[i].event
              /\ rows'[i].acked = rows[i].acked /\ rows'[i].posts = rows[i].posts
              /\ rows'[i].attempts = rows[i].attempts
              /\ rows[i].sub # s => rows'[i] = rows[i]
              /\ rows[i].sub = s => rows'[i].status = "gone" /\ rows'[i].retry = "none"
<1>1. rows \in Seq(Row)
  BY DEF IInv, TypeOK
<1>2. \A i \in DOMAIN rows : rows[i] \in Row
  BY <1>1, LenProperties, ElementOfSeq
<1>3. /\ DOMAIN rows' = DOMAIN rows
      /\ rows' = [i \in DOMAIN rows |-> rows'[i]]
      /\ \A i \in DOMAIN rows :
           rows'[i] = IF rows[i].sub = s
                      THEN [rows[i] EXCEPT !.status = "gone", !.retry = "none"]
                      ELSE rows[i]
  BY DEF DeleteSubscription
<1>4. ASSUME NEW i \in DOMAIN rows
      PROVE  /\ rows'[i] \in Row
             /\ rows'[i].sub = rows[i].sub /\ rows'[i].event = rows[i].event
             /\ rows'[i].acked = rows[i].acked /\ rows'[i].posts = rows[i].posts
             /\ rows'[i].attempts = rows[i].attempts
             /\ rows[i].sub # s => rows'[i] = rows[i]
             /\ rows[i].sub = s => rows'[i].status = "gone" /\ rows'[i].retry = "none"
  <2>1. rows[i] \in Row
    BY <1>2
  <2>2. CASE rows[i].sub = s
    <3> DEFINE x == [rows[i] EXCEPT !.status = "gone", !.retry = "none"]
    <3>1. /\ x \in Row
          /\ x.sub = rows[i].sub /\ x.event = rows[i].event
          /\ x.status = "gone" /\ x.retry = "none"
          /\ x.acked = rows[i].acked /\ x.posts = rows[i].posts
          /\ x.attempts = rows[i].attempts
      BY <2>1, RowChanges
    <3>2. rows'[i] = x
      BY <1>3, <2>2
    <3> HIDE DEF x
    <3> QED
      BY <2>2, <3>1, <3>2
  <2>3. CASE rows[i].sub # s
    BY <1>3, <2>1, <2>3
  <2> QED
    BY <2>2, <2>3
<1>5. rows' \in Seq(Row)
  BY <1>1, <1>3, <1>4, RowsReplaced
<1> QED
  BY <1>3, <1>4, <1>5

\* The rows of a subscription go with it (migration 000001:307-317).
LEMMA DeleteSubscriptionStep ==
  ASSUME IInv, NEW s \in Sub, DeleteSubscription(s)
  PROVE  IInv'
<1>1. UNCHANGED <<expired, disp, faults>>
  BY DEF DeleteSubscription
<1>2. /\ sub' \in [Sub -> {"none", "active", "inactive", "deleted"}]
      /\ sub'[s] = "deleted" /\ \A t \in Sub \ {s} : sub'[t] = sub[t]
  BY DEF DeleteSubscription, IInv, TypeOK
<1>3. log' \in SUBSET Event /\ log \subseteq log'
  BY AuditProperties DEF DeleteSubscription
<1>4. /\ rows' \in Seq(Row) /\ DOMAIN rows' = DOMAIN rows
      /\ \A i \in DOMAIN rows :
           /\ rows'[i].sub = rows[i].sub /\ rows'[i].event = rows[i].event
           /\ rows'[i].acked = rows[i].acked
           /\ rows[i].sub # s => rows'[i] = rows[i]
           /\ rows[i].sub = s => rows'[i].status = "gone" /\ rows'[i].retry = "none"
  BY RowsRemoved
<1>5. disp' \in [Dispatcher -> Process'] /\ \A e \in Dispatcher : SnapshotOK(e)'
  BY <1>1, <1>3, <1>4, SnapshotsKept
<1>6. ASSUME NEW i \in DOMAIN rows PROVE RowOK(rows[i])'
  <2>1. rows[i] \in Row /\ RowOK(rows[i])
    BY LenProperties, ElementOfSeq DEF IInv, TypeOK
  <2>2. rows[i].sub \in Sub
    BY <2>1 DEF Row
  <2>3. CASE rows[i].sub = s
    BY <1>2, <1>3, <1>4, <2>1, <2>3 DEF RowOK
  <2>4. CASE rows[i].sub # s
    BY <1>2, <1>3, <1>4, <2>1, <2>2, <2>4 DEF RowOK
  <2> QED
    BY <2>3, <2>4
<1>7. TypeOK'
  BY <1>1, <1>2, <1>3, <1>4, <1>5 DEF IInv, TypeOK
<1> QED
  BY <1>4, <1>5, <1>6, <1>7 DEF IInv

\* An entry leaves the window of FindUndelivered.
LEMMA ExpireStep ==
  ASSUME IInv, Expire
  PROVE  IInv'
<1>1. UNCHANGED <<sub, log, rows, disp, faults>>
  BY DEF Expire
<1>2. expired' \in 0 .. Cardinality(Event)
  BY EventsAreNumbers DEF Expire, IInv, TypeOK
<1>3. disp' \in [Dispatcher -> Process'] /\ \A e \in Dispatcher : SnapshotOK(e)'
  BY <1>1, SnapshotsKept
<1>4. \A i \in DOMAIN rows' : RowOK(rows[i])'
  BY <1>1, RowsKept
<1>5. TypeOK'
  BY <1>1, <1>2, <1>3 DEF IInv, TypeOK
<1> QED
  BY <1>3, <1>4, <1>5 DEF IInv

\* What FallDue does to the rows (repository.go:216-217).
LEMMA RowsDue ==
  ASSUME IInv, NEW p, FallDue(p)
  PROVE  /\ rows' \in Seq(Row) /\ DOMAIN rows' = DOMAIN rows
         /\ \A i \in DOMAIN rows :
              /\ rows'[i].sub = rows[i].sub /\ rows'[i].event = rows[i].event
              /\ rows'[i].acked = rows[i].acked /\ rows'[i].posts = rows[i].posts
              /\ rows'[i].attempts = rows[i].attempts /\ rows'[i].status = rows[i].status
              /\ \/ rows'[i].retry = rows[i].retry
                 \/ rows[i].retry = "waiting" /\ rows'[i].retry = "due"
<1>1. PICK i \in DOMAIN rows : rows[i].retry = "waiting" /\ rows' = [rows EXCEPT ![i].retry = "due"]
  BY DEF FallDue
<1> DEFINE x == [rows[i] EXCEPT !.retry = "due"]
<1>2. rows \in Seq(Row) /\ rows[i] \in Row
  BY LenProperties, ElementOfSeq DEF IInv, TypeOK
<1>3. /\ x \in Row
      /\ x.sub = rows[i].sub /\ x.event = rows[i].event /\ x.status = rows[i].status
      /\ x.retry = "due" /\ x.acked = rows[i].acked /\ x.posts = rows[i].posts
      /\ x.attempts = rows[i].attempts
  BY <1>2, RowChanges
<1>4. rows' = [rows EXCEPT ![i] = x]
  BY <1>1
<1> HIDE DEF x
<1>5. /\ rows' \in Seq(Row) /\ DOMAIN rows' = DOMAIN rows
      /\ rows'[i] = x /\ \A j \in DOMAIN rows \ {i} : rows'[j] = rows[j]
  BY <1>2, <1>3, <1>4, RowReplaced
<1> QED
  BY <1>1, <1>3, <1>5

\* A retry falls due.
LEMMA FallDueStep ==
  ASSUME IInv, NEW p, FallDue(p)
  PROVE  IInv'
<1>1. UNCHANGED <<sub, log, expired, disp, faults>>
  BY DEF FallDue
<1>2. /\ rows' \in Seq(Row) /\ DOMAIN rows' = DOMAIN rows
      /\ \A i \in DOMAIN rows :
           /\ rows'[i].sub = rows[i].sub /\ rows'[i].event = rows[i].event
           /\ rows'[i].acked = rows[i].acked
           /\ rows'[i].attempts = rows[i].attempts /\ rows'[i].status = rows[i].status
           /\ \/ rows'[i].retry = rows[i].retry
              \/ rows[i].retry = "waiting" /\ rows'[i].retry = "due"
  BY RowsDue
<1>3. disp' \in [Dispatcher -> Process'] /\ \A e \in Dispatcher : SnapshotOK(e)'
  BY <1>1, <1>2, SnapshotsKept
<1>4. \A i \in DOMAIN rows' : RowOK(rows[i])'
  BY <1>1, <1>2 DEF IInv, RowOK
<1>5. TypeOK'
  BY <1>1, <1>2, <1>3 DEF IInv, TypeOK
<1> QED
  BY <1>3, <1>4, <1>5 DEF IInv

(***************************************************************************)
(* The theorems for any number of dispatchers.                             *)
(***************************************************************************)

\* The invariant holds before anything happened.
LEMMA InitIInv == Init => IInv
<1> SUFFICES ASSUME Init PROVE IInv
  OBVIOUS
<1>1. rows \in Seq(Row) /\ DOMAIN rows = {}
  BY EmptySeq, LenProperties DEF Init
<1>2. /\ Idle \in Process
      /\ Idle.pc = "find_undelivered" /\ Idle.pairs = {} /\ DOMAIN Idle.batch = {}
  BY IdleType DEF Idle
<1>3. TypeOK
  BY <1>1, <1>2, EventsAreNumbers, DispatchAssumption DEF Init, TypeOK
<1>4. \A d \in Dispatcher : SnapshotOK(d)
  BY <1>2 DEF Init, SnapshotOK
<1> QED
  BY <1>1, <1>3, <1>4 DEF IInv

\* Every step of a dispatcher, of the subscription service or of time preserves it.
LEMMA NextIInv == IInv /\ [Next]_vars => IInv'
<1> SUFFICES ASSUME IInv, [Next]_vars PROVE IInv'
  OBVIOUS
<1>1. ASSUME NEW d \in Dispatcher, Cycle(d) \/ Crash(d) PROVE IInv'
  BY <1>1, FindUndeliveredStep, CreateDeliveriesStep, FindPendingStep, AttemptStep,
     UpdateDeliveryStep, CrashStep DEF Cycle
<1>2. CASE Mutation
  BY <1>2, MutationStep
<1>3. ASSUME NEW s \in Sub,
             CreateSubscription(s) \/ UpdateSubscription(s) \/ DeleteSubscription(s)
      PROVE  IInv'
  BY <1>3, SubscriptionStep, DeleteSubscriptionStep
<1>4. CASE Expire
  BY <1>4, ExpireStep
<1>5. ASSUME NEW p \in Pair, FallDue(p) PROVE IInv'
  BY <1>5, FallDueStep
<1>6. CASE UNCHANGED vars
  <2>1. UNCHANGED <<sub, log, expired, rows, disp, faults>>
    BY <1>6 DEF vars
  <2>2. disp' \in [Dispatcher -> Process'] /\ \A e \in Dispatcher : SnapshotOK(e)'
    BY <2>1, SnapshotsKept
  <2>3. \A i \in DOMAIN rows' : RowOK(rows[i])'
    BY <2>1, RowsKept
  <2> QED
    BY <2>1, <2>2, <2>3 DEF IInv, TypeOK
<1> QED
  BY <1>1, <1>2, <1>3, <1>4, <1>5, <1>6 DEF Next

\* The inductive invariant holds in every reachable state, however many dispatchers
\* overwrite each other's outcomes (dispatcher.go:88-242, repository.go:158-260).
THEOREM IInvHolds == Spec => []IInv
<1>1. Init => IInv
  BY InitIInv
<1>2. IInv /\ [Next]_vars => IInv'
  BY NextIInv
<1> QED
  BY <1>1, <1>2, PTL DEF Spec

\* Every variable keeps its type; no row is ever recorded with more than MaxRetries
\* attempts.
THEOREM TypeCorrect == Spec => []TypeOK
<1>1. IInv => TypeOK
  BY DEF IInv
<1> QED
  BY <1>1, IInvHolds, PTL

\* A row marked delivered was answered 2xx, and one given up has had all its attempts,
\* whichever of the dispatchers recorded it last (dispatcher.go:196-223).
THEOREM OutcomesAreTrue == Spec => []OutcomeIsTrue
<1>1. IInv => OutcomeIsTrue
  BY DEF IInv, RowOK, OutcomeIsTrue
<1> QED
  BY <1>1, IInvHolds, PTL

\* Rows are only made of committed entries, for subscriptions of the entry's system
\* (repository.go:158-171).
THEOREM RowsStayInScope == Spec => []RowsInScope
<1>1. IInv => RowsInScope
  BY DEF IInv, RowOK, RowsInScope
<1> QED
  BY <1>1, IInvHolds, PTL

(***************************************************************************)
(* A single dispatcher: the lemmas.                                        *)
(***************************************************************************)

\* There is one dispatcher: one process runs.
Single == \A d, e \in Dispatcher : d = e

\* The dispatchers that have posted row i and not recorded the answer.
Sending(i) == {d \in Dispatcher : Attempting(d, i)}

\* A set of dispatchers has one element at most.
LEMMA SingleCardinality ==
  ASSUME Single, NEW S \in SUBSET Dispatcher
  PROVE  Cardinality(S) = IF S = {} THEN 0 ELSE 1
<1>1. CASE S = {}
  BY <1>1, FS_EmptySet
<1>2. CASE S # {}
  <2>1. PICK d : S = {d}
    BY <1>2 DEF Single
  <2> QED
    BY <1>2, <2>1, FS_Singleton
<1> QED
  BY <1>1, <1>2

\* The posts of a row, as PostsAccounted says, for one dispatcher d.
LEMMA PostsOfOne ==
  ASSUME Single, NEW d \in Dispatcher, NEW i
  PROVE  Cardinality(Sending(i)) = IF Attempting(d, i) THEN 1 ELSE 0
<1>1. Sending(i) \in SUBSET Dispatcher /\ (Sending(i) = {} <=> ~Attempting(d, i))
  BY DEF Sending, Single
<1> QED
  BY <1>1, SingleCardinality

\* The same in the next state.
LEMMA PostsOfOneNext ==
  ASSUME Single, NEW d \in Dispatcher, NEW i
  PROVE  Cardinality(Sending(i))' = IF Attempting(d, i)' THEN 1 ELSE 0
<1>1. Sending(i)' \in SUBSET Dispatcher /\ (Sending(i)' = {} <=> ~Attempting(d, i)')
  BY DEF Sending, Single
<1> QED
  BY <1>1, SingleCardinality

\* Steps that change neither what a row is for nor what it counts.
LEMMA PairsKept ==
  ASSUME DOMAIN rows' = DOMAIN rows,
         \A i \in DOMAIN rows :
           rows'[i].sub = rows[i].sub /\ rows'[i].event = rows[i].event
  PROVE  /\ OneRowPerPair => OneRowPerPair'
         /\ \A p \in Pair : HasRow(p)' <=> HasRow(p)
BY DEF OneRowPerPair, HasRow

\* Whatever happens beside the dispatcher, its snapshot stays fresh: rows are removed
\* or fall due, nothing else (webhook/service.go:158-182).
LEMMA SingleKept ==
  ASSUME IInv, SingleInv, UNCHANGED <<disp, faults>>, DOMAIN rows' = DOMAIN rows,
         \A i \in DOMAIN rows :
           /\ rows'[i].sub = rows[i].sub /\ rows'[i].event = rows[i].event
           /\ rows'[i].posts = rows[i].posts /\ rows'[i].attempts = rows[i].attempts
           /\ rows'[i].status # "gone" =>
                rows[i].status # "gone" /\ (Done(rows[i])' => Done(rows[i]))
  PROVE  SingleInv'
<1>1. OneRowPerPair'
  BY PairsKept DEF SingleInv
<1>2. PostsAccounted'
  BY DEF SingleInv, PostsAccounted, Attempting
<1>3. ASSUME NEW d \in Dispatcher PROVE SnapshotFresh(d)'
  <2>1. SnapshotFresh(d) /\ disp[d] \in Process
    BY DEF SingleInv, IInv, TypeOK
  <2>2. DOMAIN disp[d].batch \in SUBSET (DOMAIN rows) /\ disp[d].pairs \in SUBSET Pair
    BY <2>1, ProcessType
  <2>3. disp[d].pc = "create_deliveries" => \A p \in disp[d].pairs : ~HasRow(p)'
    BY <2>1, <2>2, PairsKept DEF SnapshotFresh
  <2>4. ASSUME NEW i \in DOMAIN disp[d].batch
        PROVE  ~Done(rows[i])' /\ (rows'[i].status # "gone" => disp[d].batch[i] = rows'[i].attempts)
    <3>1. i \in DOMAIN rows
      BY <2>2
    <3>2. CASE rows'[i].status = "gone"
      BY <3>2 DEF Done
    <3>3. CASE rows'[i].status # "gone"
      BY <2>1, <3>1, <3>3 DEF SnapshotFresh
    <3> QED
      BY <3>2, <3>3
  <2> QED
    BY <2>3, <2>4 DEF SnapshotFresh
<1> QED
  BY <1>1, <1>2, <1>3 DEF SingleInv

\* A step of the dispatcher outside posts and their records.
LEMMA PostsKept ==
  ASSUME Single, IInv, PostsAccounted, NEW d \in Dispatcher,
         UNCHANGED rows, Fault \/ NoFault,
         disp'[d].pc # "update_delivery",
         disp[d].pc # "update_delivery" \/ Fault
  PROVE  PostsAccounted'
<1> SUFFICES ASSUME NEW i \in DOMAIN rows, rows[i].status # "gone"
             PROVE  rows[i].posts <= rows[i].attempts + faults' + Cardinality(Sending(i))'
  BY DEF PostsAccounted, Sending
<1>1. rows[i].posts <= rows[i].attempts + faults + Cardinality(Sending(i))
  BY DEF PostsAccounted, Sending
<1>2. Cardinality(Sending(i))' = 0
  BY PostsOfOneNext DEF Attempting
<1>3. Cardinality(Sending(i)) = IF Attempting(d, i) THEN 1 ELSE 0
  BY PostsOfOne
<1>4. rows[i].posts \in Nat /\ rows[i].attempts \in Nat /\ faults \in Nat
  <2>1. rows[i] \in Row /\ faults \in 0 .. MaxFaults
    BY LenProperties, ElementOfSeq DEF IInv, TypeOK
  <2> QED
    BY <2>1, DispatchAssumption DEF Row
<1>5. CASE disp[d].pc # "update_delivery"
  <2>1. Cardinality(Sending(i)) = 0
    BY <1>3, <1>5 DEF Attempting
  <2> QED
    BY <1>1, <1>2, <1>4, <2>1 DEF Fault, NoFault
<1>6. CASE Fault
  BY <1>1, <1>2, <1>3, <1>4, <1>6 DEF Fault
<1> QED
  BY <1>5, <1>6

(***************************************************************************)
(* Every step of a single dispatcher keeps its snapshot fresh.             *)
(***************************************************************************)

\* The pairs found have no row (repository.go:158-171).
LEMMA SingleFindUndelivered ==
  ASSUME Single, IInv, SingleInv, NEW d \in Dispatcher, NEW blind \in BOOLEAN, FindUndelivered(d, blind)
  PROVE  SingleInv'
<1>1. UNCHANGED rows /\ (Fault \/ NoFault) /\ disp[d].pc = "find_undelivered"
  BY DEF FindUndelivered
<1>2. disp[d] \in Process /\ SnapshotFresh(d)
  BY DEF IInv, TypeOK, SingleInv
<1>3. /\ disp'[d].batch = disp[d].batch
      /\ disp'[d].pc \in {"find_pending", "create_deliveries"}
      /\ disp'[d].pc = "create_deliveries" => disp'[d].pairs \subseteq Undelivered
  <2>1. ASSUME NEW P \in Oldest(Shown(Undelivered, blind), EnqueueLimit, [p \in Undelivered |-> p.event]),
               disp' = [disp EXCEPT ![d] =
                         [@ EXCEPT !.pairs = P,
                                   !.pc = IF P = {} THEN "find_pending"
                                          ELSE "create_deliveries"]]
        PROVE  /\ disp'[d].batch = disp[d].batch
               /\ disp'[d].pc \in {"find_pending", "create_deliveries"}
               /\ disp'[d].pairs \subseteq Undelivered
    <3> DEFINE c == IF P = {} THEN "find_pending" ELSE "create_deliveries"
               x == [disp[d] EXCEPT !.pairs = P, !.pc = c]
    <3>1. c \in {"find_pending", "create_deliveries"}
      OBVIOUS
    <3> HIDE DEF c
    <3>2. x.batch = disp[d].batch /\ x.pc = c /\ x.pairs = P
      BY <1>2 DEF Process
    <3>3. disp'[d] = x
      BY <2>1 DEF IInv, TypeOK, c
    <3> HIDE DEF x
    <3>4. P \subseteq Undelivered
      BY <2>1 DEF Oldest, Shown
    <3> QED
      BY <3>1, <3>2, <3>3, <3>4
  <2>2. ASSUME disp' = [disp EXCEPT ![d].pc = "find_pending"]
        PROVE  disp'[d].batch = disp[d].batch /\ disp'[d].pc = "find_pending"
    BY <1>2, <2>2 DEF IInv, TypeOK, Process
  <2> QED
    BY <2>1, <2>2 DEF FindUndelivered
<1>4. SnapshotFresh(d)'
  <2>1. disp'[d].pc = "create_deliveries" => \A p \in disp'[d].pairs : ~HasRow(p)'
    BY <1>1, <1>3 DEF Undelivered, HasRow
  <2> QED
    BY <1>1, <1>2, <1>3, <2>1 DEF SnapshotFresh, Done
<1>5. OneRowPerPair'
  BY <1>1 DEF SingleInv, OneRowPerPair
<1>6. PostsAccounted'
  BY <1>1, <1>3, PostsKept DEF SingleInv
<1>7. \A e \in Dispatcher : SnapshotFresh(e)'
  BY <1>4 DEF Single
<1> QED
  BY <1>5, <1>6, <1>7 DEF SingleInv

\* The rows found are not done, and their attempts are those just read
\* (repository.go:212-219).
LEMMA SingleFindPending ==
  ASSUME Single, IInv, SingleInv, NEW d \in Dispatcher, NEW blind \in BOOLEAN, FindPending(d, blind)
  PROVE  SingleInv'
<1>1. UNCHANGED rows /\ (Fault \/ NoFault) /\ disp[d].pc = "find_pending"
  BY DEF FindPending
<1>2. disp[d] \in Process /\ SnapshotFresh(d)
  BY DEF IInv, TypeOK, SingleInv
<1>3. /\ disp'[d].pc \in {"find_undelivered", "attempt"}
      /\ \/ disp'[d].batch = disp[d].batch
         \/ /\ DOMAIN disp'[d].batch \subseteq Ready
            /\ \A i \in DOMAIN disp'[d].batch : disp'[d].batch[i] = rows[i].attempts
  <2>1. ASSUME NEW B \in Oldest(Shown(Ready, blind), DispatchLimit, [i \in Ready |-> i]),
               disp' = [disp EXCEPT ![d] =
                         [@ EXCEPT !.pc = IF B = {} THEN "find_undelivered" ELSE "attempt",
                                   !.batch = [i \in B |-> rows[i].attempts]]]
        PROVE  /\ disp'[d].pc \in {"find_undelivered", "attempt"}
               /\ DOMAIN disp'[d].batch \subseteq Ready
               /\ \A i \in DOMAIN disp'[d].batch : disp'[d].batch[i] = rows[i].attempts
    <3> DEFINE c == IF B = {} THEN "find_undelivered" ELSE "attempt"
               b == [i \in B |-> rows[i].attempts]
               x == [disp[d] EXCEPT !.pc = c, !.batch = b]
    <3>1. c \in {"find_undelivered", "attempt"}
      OBVIOUS
    <3>2. DOMAIN b = B /\ \A i \in B : b[i] = rows[i].attempts
      OBVIOUS
    <3>3. B \subseteq Ready
      BY <2>1 DEF Oldest, Shown
    <3>4. disp'[d] = x
      BY <2>1 DEF IInv, TypeOK
    <3> HIDE DEF c, b
    <3>5. x.pc = c /\ x.batch = b
      BY <1>2 DEF Process
    <3> HIDE DEF x
    <3> QED
      BY <3>1, <3>2, <3>3, <3>4, <3>5
  <2>2. ASSUME disp' = [disp EXCEPT ![d].pc = "find_undelivered"]
        PROVE  disp'[d].batch = disp[d].batch /\ disp'[d].pc = "find_undelivered"
    BY <1>2, <2>2 DEF IInv, TypeOK, Process
  <2> QED
    BY <2>1, <2>2 DEF FindPending
<1>4. SnapshotFresh(d)'
  BY <1>1, <1>2, <1>3 DEF SnapshotFresh, Done, Ready
<1>5. OneRowPerPair'
  BY <1>1 DEF SingleInv, OneRowPerPair
<1>6. PostsAccounted'
  BY <1>1, <1>3, PostsKept DEF SingleInv
<1>7. \A e \in Dispatcher : SnapshotFresh(e)'
  BY <1>4 DEF Single
<1> QED
  BY <1>5, <1>6, <1>7 DEF SingleInv

\* A crash at any point: what was posted and not recorded is one of the faults.
LEMMA SingleCrash ==
  ASSUME Single, IInv, SingleInv, NEW d \in Dispatcher, Crash(d)
  PROVE  SingleInv'
<1>1. UNCHANGED rows /\ Fault /\ disp'[d] = Idle
  BY DEF Crash, IInv, TypeOK
<1>2. Idle.pc = "find_undelivered" /\ DOMAIN Idle.batch = {}
  BY DEF Idle
<1>3. SnapshotFresh(d)'
  BY <1>1, <1>2 DEF SnapshotFresh
<1>4. OneRowPerPair'
  BY <1>1 DEF SingleInv, OneRowPerPair
<1>5. PostsAccounted'
  BY <1>1, <1>2, PostsKept DEF SingleInv
<1>6. \A e \in Dispatcher : SnapshotFresh(e)'
  BY <1>3 DEF Single
<1> QED
  BY <1>4, <1>5, <1>6 DEF SingleInv

\* The pairs still have no row when their rows are inserted, all of them different
\* (dispatcher.go:93-135).
LEMMA SingleCreateDeliveries ==
  ASSUME Single, IInv, SingleInv, NEW d \in Dispatcher, CreateDeliveries(d)
  PROVE  SingleInv'
<1>1. (Fault \/ NoFault) /\ disp[d].pc = "create_deliveries"
  BY DEF CreateDeliveries
<1>2. /\ disp[d] \in Process /\ SnapshotFresh(d) /\ rows \in Seq(Row)
      /\ disp[d].pairs \in SUBSET Pair /\ DOMAIN disp[d].batch \in SUBSET (DOMAIN rows)
  BY ProcessType DEF IInv, TypeOK, SingleInv
<1>3. disp'[d].pc = "find_pending" /\ disp'[d].batch = disp[d].batch
  <2> DEFINE x == [disp[d] EXCEPT !.pc = "find_pending", !.pairs = {}]
  <2>1. disp'[d] = x
    BY DEF CreateDeliveries, IInv, TypeOK
  <2>2. x.pc = "find_pending" /\ x.batch = disp[d].batch
    BY <1>2 DEF Process
  <2> HIDE DEF x
  <2> QED
    BY <2>1, <2>2
<1>4. CASE UNCHANGED rows
  <2>1. SnapshotFresh(d)'
    BY <1>2, <1>3, <1>4 DEF SnapshotFresh, Done
  <2>2. OneRowPerPair'
    BY <1>4 DEF SingleInv, OneRowPerPair
  <2>3. PostsAccounted'
    BY <1>1, <1>3, <1>4, PostsKept DEF SingleInv
  <2>4. \A e \in Dispatcher : SnapshotFresh(e)'
    BY <2>1 DEF Single
  <2> QED
    BY <2>2, <2>3, <2>4 DEF SingleInv
<1>5. ASSUME NEW q \in SetToSeqs(disp[d].pairs),
             rows' = rows \o [i \in DOMAIN q |-> NewRow(q[i])]
      PROVE  SingleInv'
  <2>1. /\ rows' \in Seq(Row)
        /\ DOMAIN rows \subseteq DOMAIN rows'
        /\ \A i \in DOMAIN rows : rows'[i] = rows[i]
        /\ \A i \in DOMAIN rows' \ DOMAIN rows :
             /\ i - Len(rows) \in DOMAIN q /\ q[i - Len(rows)] \in disp[d].pairs
             /\ rows'[i] = NewRow(q[i - Len(rows)])
    BY <1>2, <1>5, RowsAppended
  <2>2. \A i, j \in DOMAIN q : q[i] = q[j] => i = j
    BY <1>2, NewRowsType
  <2>3. \A i \in DOMAIN rows' \ DOMAIN rows :
          /\ rows'[i].sub = q[i - Len(rows)].sub /\ rows'[i].event = q[i - Len(rows)].event
          /\ rows'[i].posts = 0 /\ rows'[i].attempts = 0
    BY <2>1 DEF NewRow
  <2>4. /\ Len(rows) \in Nat
        /\ \A i \in DOMAIN rows' : i \in Nat
    BY <1>2, <2>1, LenProperties
  <2>5. OneRowPerPair'
    <3> SUFFICES ASSUME NEW i \in DOMAIN rows', NEW j \in DOMAIN rows',
                        rows'[i].sub = rows'[j].sub, rows'[i].event = rows'[j].event
                 PROVE  i = j
      BY DEF OneRowPerPair
    <3>1. CASE i \in DOMAIN rows /\ j \in DOMAIN rows
      BY <2>1, <3>1 DEF SingleInv, OneRowPerPair
    <3>2. ASSUME NEW k \in DOMAIN rows, NEW l \in DOMAIN rows' \ DOMAIN rows,
                 rows'[k].sub = rows'[l].sub, rows'[k].event = rows'[l].event
          PROVE  FALSE
      <4>1. q[l - Len(rows)] \in disp[d].pairs /\ ~HasRow(q[l - Len(rows)])
        BY <1>1, <1>2, <2>1 DEF SnapshotFresh
      <4>2. HasRow(q[l - Len(rows)])
        BY <2>1, <2>3, <3>2 DEF HasRow
      <4> QED
        BY <4>1, <4>2
    <3>3. CASE i \notin DOMAIN rows /\ j \notin DOMAIN rows
      <4>1. q[i - Len(rows)] \in Pair /\ q[j - Len(rows)] \in Pair
        BY <1>2, <2>1, <3>3
      <4>2. q[i - Len(rows)] = q[j - Len(rows)]
        BY <2>3, <3>3, <4>1 DEF Pair
      <4>3. i - Len(rows) = j - Len(rows)
        BY <2>1, <2>2, <3>3, <4>2
      <4> QED
        BY <2>4, <4>3
    <3> QED
      BY <3>1, <3>2, <3>3
  <2>6. PostsAccounted'
    <3> SUFFICES ASSUME NEW i \in DOMAIN rows', rows'[i].status # "gone"
                 PROVE  rows'[i].posts <= rows'[i].attempts + faults' + Cardinality(Sending(i))'
      BY DEF PostsAccounted, Sending
    <3>1. Cardinality(Sending(i))' = 0
      BY <1>3, PostsOfOneNext DEF Attempting
    <3>2. faults \in Nat /\ faults' \in Nat /\ faults <= faults'
      BY <1>1, FaultsType, DispatchAssumption DEF IInv, TypeOK
    <3>3. CASE i \in DOMAIN rows
      <4>1. Cardinality(Sending(i)) = 0
        BY <1>1, PostsOfOne DEF Attempting
      <4>2. rows[i].posts <= rows[i].attempts + faults + Cardinality(Sending(i))
        BY <2>1, <3>3 DEF SingleInv, PostsAccounted, Sending
      <4>3. rows[i].posts \in Nat /\ rows[i].attempts \in Nat
        <5>1. rows[i] \in Row
          BY <1>2, <3>3, LenProperties, ElementOfSeq
        <5> QED
          BY <5>1, DispatchAssumption DEF Row
      <4> QED
        BY <2>1, <3>1, <3>2, <3>3, <4>1, <4>2, <4>3
    <3>4. CASE i \notin DOMAIN rows
      BY <2>3, <3>1, <3>2, <3>4
    <3> QED
      BY <3>3, <3>4
  <2>7. SnapshotFresh(d)'
    BY <1>2, <1>3, <2>1 DEF SnapshotFresh, Done
  <2>8. \A e \in Dispatcher : SnapshotFresh(e)'
    BY <2>7 DEF Single
  <2> QED
    BY <2>5, <2>6, <2>8 DEF SingleInv
<1> QED
  BY <1>4, <1>5 DEF CreateDeliveries

\* A row stays open while it is posted (dispatcher.go:154-212).
LEMMA SingleAttempt ==
  ASSUME Single, IInv, SingleInv, NEW d \in Dispatcher, Attempt(d)
  PROVE  /\ SingleInv'
         /\ \A i \in DOMAIN rows : Done(rows[i]) => rows'[i].posts = rows[i].posts
<1>1. (Fault \/ NoFault) /\ disp[d].pc = "attempt"
  BY DEF Attempt
<1>2. /\ disp[d] \in Process /\ SnapshotFresh(d) /\ rows \in Seq(Row)
      /\ DOMAIN disp[d].batch \in SUBSET (DOMAIN rows)
  BY ProcessType DEF IInv, TypeOK, SingleInv
<1>3. PICK i \in First(disp[d].batch) :
        \/ /\ \E ok \in BOOLEAN :
                /\ rows' = [rows EXCEPT ![i] = Posted(@, ok)]
                /\ disp' = [disp EXCEPT ![d] =
                              [@ EXCEPT !.pc = "update_delivery", !.at = i, !.ok = ok]]
           /\ NoFault
        \/ /\ UNCHANGED rows
           /\ disp' = [disp EXCEPT ![d] = After(@.batch, i)]
           /\ Fault
  BY DEF Attempt
<1>4. i \in DOMAIN disp[d].batch /\ i \in DOMAIN rows /\ rows[i] \in Row
  <2>1. i \in DOMAIN disp[d].batch /\ i \in DOMAIN rows
    BY <1>2 DEF First
  <2> QED
    BY <1>2, <2>1, ElementOfSeq, LenProperties
<1>5. ASSUME NEW ok \in BOOLEAN,
             rows' = [rows EXCEPT ![i] = Posted(@, ok)],
             disp' = [disp EXCEPT ![d] =
                        [@ EXCEPT !.pc = "update_delivery", !.at = i, !.ok = ok]],
             NoFault
      PROVE  /\ SingleInv'
             /\ \A j \in DOMAIN rows : Done(rows[j]) => rows'[j].posts = rows[j].posts
  <2> DEFINE x == [disp[d] EXCEPT !.pc = "update_delivery", !.at = i, !.ok = ok]
             y == Posted(rows[i], ok)
  <2>1. disp'[d] = x /\ rows' = [rows EXCEPT ![i] = y]
    BY <1>5 DEF IInv, TypeOK
  <2>2. x.batch = disp[d].batch /\ x.pc = "update_delivery" /\ x.at = i
    BY <1>2 DEF Process
  <2>3. /\ y \in Row
        /\ y.sub = rows[i].sub /\ y.event = rows[i].event
        /\ y.status = rows[i].status /\ y.attempts = rows[i].attempts
        /\ y.retry = rows[i].retry /\ y.posts = rows[i].posts + 1
    BY <1>4, PostedType
  <2> HIDE DEF x, y
  <2>4. /\ DOMAIN rows' = DOMAIN rows
        /\ rows'[i] = y /\ \A j \in DOMAIN rows \ {i} : rows'[j] = rows[j]
    BY <1>2, <1>4, <2>1, <2>3, RowReplaced
  <2>5. \A j \in DOMAIN rows :
          /\ rows'[j].sub = rows[j].sub /\ rows'[j].event = rows[j].event
          /\ rows'[j].status = rows[j].status /\ rows'[j].attempts = rows[j].attempts
          /\ rows'[j].retry = rows[j].retry
    BY <2>3, <2>4
  <2>6. OneRowPerPair'
    BY <2>4, <2>5, PairsKept DEF SingleInv
  <2>7. PostsAccounted'
    <3> SUFFICES ASSUME NEW j \in DOMAIN rows, rows[j].status # "gone"
                 PROVE  rows'[j].posts <= rows'[j].attempts + faults' + Cardinality(Sending(j))'
      BY <2>4, <2>5 DEF PostsAccounted, Sending
    <3>1. Cardinality(Sending(j)) = 0
      BY <1>1, PostsOfOne DEF Attempting
    <3>2. Cardinality(Sending(j))' = IF j = i THEN 1 ELSE 0
      BY <2>1, <2>2, PostsOfOneNext DEF Attempting
    <3>3. rows[j].posts <= rows[j].attempts + faults + Cardinality(Sending(j))
      BY DEF SingleInv, PostsAccounted, Sending
    <3>4. rows[j].posts \in Nat /\ rows[j].attempts \in Nat /\ faults \in Nat
      <4>1. rows[j] \in Row /\ faults \in 0 .. MaxFaults
        BY <1>2, LenProperties, ElementOfSeq DEF IInv, TypeOK
      <4> QED
        BY <4>1, DispatchAssumption DEF Row
    <3>5. faults' = faults
      BY <1>5 DEF NoFault
    <3>6. CASE j = i
      BY <2>3, <2>4, <3>1, <3>2, <3>3, <3>4, <3>5, <3>6
    <3>7. CASE j # i
      BY <2>4, <3>1, <3>2, <3>3, <3>4, <3>5, <3>7
    <3> QED
      BY <3>6, <3>7
  <2>8. SnapshotFresh(d)'
    BY <1>2, <2>1, <2>2, <2>5 DEF SnapshotFresh, Done
  <2>9. \A e \in Dispatcher : SnapshotFresh(e)'
    BY <2>8 DEF Single
  <2>10. ASSUME NEW j \in DOMAIN rows, Done(rows[j]) PROVE rows'[j].posts = rows[j].posts
    <3>1. j # i
      BY <1>2, <1>4, <2>10 DEF SnapshotFresh
    <3> QED
      BY <2>4, <3>1
  <2> QED
    BY <2>6, <2>7, <2>9, <2>10 DEF SingleInv
<1>6. ASSUME UNCHANGED rows, disp' = [disp EXCEPT ![d] = After(@.batch, i)], Fault
      PROVE  SingleInv'
  <2> DEFINE x == After(disp[d].batch, i)
  <2>1. disp'[d] = x
    BY <1>6 DEF IInv, TypeOK
  <2>2. /\ x.pc \in {"find_undelivered", "attempt"}
        /\ DOMAIN x.batch = DOMAIN disp[d].batch \ {i}
        /\ \A j \in DOMAIN disp[d].batch \ {i} : x.batch[j] = disp[d].batch[j]
    BY <1>2, AfterType
  <2> HIDE DEF x
  <2>3. SnapshotFresh(d)'
    BY <1>2, <1>6, <2>1, <2>2 DEF SnapshotFresh, Done
  <2>4. OneRowPerPair'
    BY <1>6 DEF SingleInv, OneRowPerPair
  <2>5. PostsAccounted'
    BY <1>6, <2>1, <2>2, PostsKept DEF SingleInv
  <2>6. \A e \in Dispatcher : SnapshotFresh(e)'
    BY <2>3 DEF Single
  <2> QED
    BY <2>4, <2>5, <2>6 DEF SingleInv
<1> QED
  BY <1>3, <1>5, <1>6

\* The record counts exactly the post it is about (dispatcher.go:214-241).
LEMMA SingleUpdateDelivery ==
  ASSUME Single, IInv, SingleInv, NEW d \in Dispatcher, UpdateDelivery(d)
  PROVE  /\ SingleInv'
         /\ \A j \in DOMAIN rows : rows'[j].posts = rows[j].posts
<1> DEFINE i == disp[d].at
           x == After(disp[d].batch, i)
           y == Recorded(rows[i], disp[d].batch[i] + 1, disp[d].ok)
<1>1. /\ disp[d].pc = "update_delivery"
      /\ disp'[d] = x
      /\ \/ rows[i].status # "gone" /\ rows' = [rows EXCEPT ![i] = y] /\ NoFault
         \/ rows[i].status = "gone" /\ UNCHANGED rows /\ NoFault
         \/ UNCHANGED rows /\ Fault
  BY DEF UpdateDelivery, IInv, TypeOK
<1>2. /\ disp[d] \in Process /\ SnapshotFresh(d) /\ SnapshotOK(d) /\ rows \in Seq(Row)
      /\ DOMAIN disp[d].batch \in SUBSET (DOMAIN rows)
  BY ProcessType DEF IInv, TypeOK, SingleInv
<1>3. i \in DOMAIN disp[d].batch /\ i \in DOMAIN rows /\ rows[i] \in Row
  <2>1. i \in DOMAIN disp[d].batch /\ i \in DOMAIN rows
    BY <1>1, <1>2 DEF SnapshotOK
  <2> QED
    BY <1>2, <2>1, LenProperties, ElementOfSeq
<1>4. disp[d].batch[i] + 1 \in 1 .. MaxRetries /\ disp[d].ok \in BOOLEAN
  <2>1. disp[d].batch[i] \in 0 .. MaxRetries /\ disp[d].ok \in BOOLEAN
    BY <1>2, <1>3, ProcessType
  <2>2. disp[d].batch[i] < MaxRetries
    BY <1>2, <1>3 DEF SnapshotOK
  <2> QED
    BY <2>1, <2>2, DispatchAssumption
<1>5. /\ y \in Row
      /\ y.sub = rows[i].sub /\ y.event = rows[i].event /\ y.posts = rows[i].posts
      /\ y.attempts = disp[d].batch[i] + 1
  BY <1>3, <1>4, RecordedType
<1>6. rows[i].status # "gone" => disp[d].batch[i] = rows[i].attempts
  BY <1>2, <1>3 DEF SnapshotFresh
<1>7. i = disp[d].at
  OBVIOUS
<1> HIDE DEF i, y
<1>8. /\ x.pc \in {"find_undelivered", "attempt"} /\ x.pairs = {}
      /\ DOMAIN x.batch = DOMAIN disp[d].batch \ {i}
      /\ \A j \in DOMAIN disp[d].batch \ {i} : x.batch[j] = disp[d].batch[j]
  BY <1>2, AfterType
<1> HIDE DEF x
<1>9. \A j \in DOMAIN rows :
        /\ Cardinality(Sending(j)) = IF j = i THEN 1 ELSE 0
        /\ Cardinality(Sending(j))' = 0
  BY <1>1, <1>7, <1>8, PostsOfOne, PostsOfOneNext DEF Attempting
<1>10. ASSUME NEW j \in DOMAIN rows
       PROVE  rows[j].posts \in Nat /\ rows[j].attempts \in Nat /\ faults \in Nat
  <2>1. rows[j] \in Row /\ faults \in 0 .. MaxFaults
    BY <1>2, LenProperties, ElementOfSeq DEF IInv, TypeOK
  <2> QED
    BY <2>1, DispatchAssumption DEF Row
<1>11. ASSUME UNCHANGED rows,
              \A j \in DOMAIN rows : rows[j].status # "gone" =>
                rows[j].posts <= rows[j].attempts + faults'
       PROVE  SingleInv'
  <2>1. SnapshotFresh(d)'
    BY <1>1, <1>2, <1>8, <1>11 DEF SnapshotFresh, Done
  <2>2. \A e \in Dispatcher : SnapshotFresh(e)'
    BY <2>1 DEF Single
  <2>3. OneRowPerPair'
    BY <1>11 DEF SingleInv, OneRowPerPair
  <2>4. PostsAccounted'
    <3> SUFFICES ASSUME NEW j \in DOMAIN rows, rows[j].status # "gone"
                 PROVE  rows[j].posts <= rows[j].attempts + faults' + Cardinality(Sending(j))'
      BY <1>11 DEF PostsAccounted, Sending
    <3>1. faults' \in Nat
      BY <1>1, <1>10 DEF Fault, NoFault
    <3> QED
      BY <1>9, <1>10, <1>11, <3>1
  <2> QED
    BY <2>2, <2>3, <2>4 DEF SingleInv
<1>12. \A j \in DOMAIN rows : rows[j].status # "gone" =>
         rows[j].posts <= rows[j].attempts + faults + Cardinality(Sending(j))
  BY DEF SingleInv, PostsAccounted, Sending
<1>13. CASE UNCHANGED rows /\ Fault
  <2>1. \A j \in DOMAIN rows : rows[j].status # "gone" =>
          rows[j].posts <= rows[j].attempts + faults'
    BY <1>9, <1>10, <1>12, <1>13 DEF Fault
  <2> QED
    BY <1>11, <1>13, <2>1
<1>14. CASE rows[i].status = "gone" /\ UNCHANGED rows /\ NoFault
  <2>1. \A j \in DOMAIN rows : rows[j].status # "gone" =>
          rows[j].posts <= rows[j].attempts + faults'
    BY <1>9, <1>10, <1>12, <1>14 DEF NoFault
  <2> QED
    BY <1>11, <1>14, <2>1
<1>15. CASE rows[i].status # "gone" /\ rows' = [rows EXCEPT ![i] = y] /\ NoFault
  <2>1. /\ DOMAIN rows' = DOMAIN rows
        /\ rows'[i] = y /\ \A j \in DOMAIN rows \ {i} : rows'[j] = rows[j]
    BY <1>2, <1>3, <1>5, <1>15, RowReplaced
  <2>2. \A j \in DOMAIN rows :
          /\ rows'[j].sub = rows[j].sub /\ rows'[j].event = rows[j].event
          /\ rows'[j].posts = rows[j].posts
    BY <1>5, <2>1
  <2>3. OneRowPerPair'
    BY <2>1, <2>2, PairsKept DEF SingleInv
  <2>4. PostsAccounted'
    <3> SUFFICES ASSUME NEW j \in DOMAIN rows, rows'[j].status # "gone"
                 PROVE  rows'[j].posts <= rows'[j].attempts + faults' + Cardinality(Sending(j))'
      BY <2>1 DEF PostsAccounted, Sending
    <3>1. faults' = faults
      BY <1>15 DEF NoFault
    <3>2. CASE j = i
      BY <1>5, <1>6, <1>9, <1>10, <1>12, <1>15, <2>1, <3>1, <3>2
    <3>3. CASE j # i
      BY <1>9, <1>10, <1>12, <2>1, <3>1, <3>3
    <3> QED
      BY <3>2, <3>3
  <2>5. SnapshotFresh(d)'
    BY <1>1, <1>2, <1>8, <2>1 DEF SnapshotFresh, Done
  <2>6. \A e \in Dispatcher : SnapshotFresh(e)'
    BY <2>5 DEF Single
  <2> QED
    BY <2>2, <2>3, <2>4, <2>6 DEF SingleInv
<1> QED
  BY <1>1, <1>13, <1>14, <1>15

(***************************************************************************)
(* The theorems for a single dispatcher.                                   *)
(***************************************************************************)

\* Before anything happened there is nothing to be stale.
LEMMA SingleInit ==
  ASSUME Init
  PROVE  SingleInv
<1>1. DOMAIN rows = {}
  BY DEF Init
<1>2. \A d \in Dispatcher : disp[d].pc = "find_undelivered" /\ DOMAIN disp[d].batch = {}
  BY DEF Init, Idle
<1> QED
  BY <1>1, <1>2 DEF SingleInv, OneRowPerPair, PostsAccounted, SnapshotFresh

\* Every step keeps the snapshot fresh, and posts no row that is done.
LEMMA SingleNext ==
  ASSUME Single, IInv, SingleInv, [Next]_vars
  PROVE  /\ SingleInv'
         /\ \A i \in DOMAIN rows : Done(rows[i]) => rows'[i].posts = rows[i].posts
<1>1. ASSUME NEW d \in Dispatcher, Cycle(d) \/ Crash(d)
      PROVE  /\ SingleInv'
             /\ \A i \in DOMAIN rows : Done(rows[i]) => rows'[i].posts = rows[i].posts
  <2>1. CASE \E blind \in BOOLEAN : FindUndelivered(d, blind)
    BY <2>1, SingleFindUndelivered DEF FindUndelivered
  <2>2. CASE CreateDeliveries(d)
    <3>1. SingleInv'
      BY <2>2, SingleCreateDeliveries
    <3>2. disp[d].pairs \in SUBSET Pair /\ rows \in Seq(Row)
      BY DEF IInv, TypeOK, Process
    <3>3. \A i \in DOMAIN rows : rows'[i] = rows[i]
      BY <2>2, <3>2, RowsAppended DEF CreateDeliveries
    <3> QED
      BY <3>1, <3>3
  <2>3. CASE \E blind \in BOOLEAN : FindPending(d, blind)
    BY <2>3, SingleFindPending DEF FindPending
  <2>4. CASE Attempt(d)
    BY <2>4, SingleAttempt
  <2>5. CASE UpdateDelivery(d)
    BY <2>5, SingleUpdateDelivery
  <2>6. CASE Crash(d)
    BY <2>6, SingleCrash DEF Crash
  <2> QED
    BY <1>1, <2>1, <2>2, <2>3, <2>4, <2>5, <2>6 DEF Cycle
<1>2. ASSUME UNCHANGED <<rows, disp, faults>>
      PROVE  /\ SingleInv'
             /\ \A i \in DOMAIN rows : Done(rows[i]) => rows'[i].posts = rows[i].posts
  BY <1>2, SingleKept DEF Done
<1>3. ASSUME NEW s \in Sub, DeleteSubscription(s)
      PROVE  /\ SingleInv'
             /\ \A i \in DOMAIN rows : Done(rows[i]) => rows'[i].posts = rows[i].posts
  <2>1. /\ DOMAIN rows' = DOMAIN rows
        /\ \A i \in DOMAIN rows :
             /\ rows'[i].sub = rows[i].sub /\ rows'[i].event = rows[i].event
             /\ rows'[i].posts = rows[i].posts /\ rows'[i].attempts = rows[i].attempts
             /\ rows[i].sub # s => rows'[i] = rows[i]
             /\ rows[i].sub = s => rows'[i].status = "gone"
    BY <1>3, RowsRemoved
  <2>2. UNCHANGED <<disp, faults>>
    BY <1>3 DEF DeleteSubscription
  <2>3. \A i \in DOMAIN rows :
          rows'[i].status # "gone" =>
            rows[i].status # "gone" /\ (Done(rows[i])' => Done(rows[i]))
    BY <2>1 DEF Done
  <2> QED
    BY <2>1, <2>2, <2>3, SingleKept
<1>4. ASSUME NEW p \in Pair, FallDue(p)
      PROVE  /\ SingleInv'
             /\ \A i \in DOMAIN rows : Done(rows[i]) => rows'[i].posts = rows[i].posts
  <2>1. /\ DOMAIN rows' = DOMAIN rows
        /\ \A i \in DOMAIN rows :
             /\ rows'[i].sub = rows[i].sub /\ rows'[i].event = rows[i].event
             /\ rows'[i].posts = rows[i].posts /\ rows'[i].attempts = rows[i].attempts
             /\ rows'[i].status = rows[i].status
             /\ \/ rows'[i].retry = rows[i].retry
                \/ rows[i].retry = "waiting" /\ rows'[i].retry = "due"
    BY <1>4, RowsDue
  <2>2. UNCHANGED <<disp, faults>>
    BY <1>4 DEF FallDue
  <2>3. \A i \in DOMAIN rows : Done(rows[i])' => Done(rows[i])
    BY <2>1 DEF Done
  <2> QED
    BY <2>1, <2>2, <2>3, SingleKept
<1> QED
  BY <1>1, <1>2, <1>3, <1>4
     DEF Next, vars, Mutation, CreateSubscription, UpdateSubscription, Expire

\* What a single dispatcher remembers is never stale (dispatcher.go:88-242).
THEOREM SingleInvHolds ==
  ASSUME Single
  PROVE  Spec => []SingleInv
<1>1. Init => SingleInv
  BY SingleInit
<1>2. IInv /\ SingleInv /\ [Next]_vars => SingleInv'
  BY SingleNext
<1> QED
  BY <1>1, <1>2, IInvHolds, PTL DEF Spec

\* With a single dispatcher each pair of an entry and a subscription gets one row,
\* although nothing in the database enforces it (dispatcher.go:103,
\* repository.go:190-200).
THEOREM OneRowEach ==
  ASSUME Single
  PROVE  Spec => []OneRowPerPair
<1>1. SingleInv => OneRowPerPair
  BY DEF SingleInv
<1> QED
  BY <1>1, SingleInvHolds, PTL

\* With a single dispatcher, every post is a recorded attempt, the one under way, or one
\* that a crash or a failed update lost: without faults a row is posted at most
\* MaxRetries times (dispatcher.go:184-241).
THEOREM PostsAreAccounted ==
  ASSUME Single
  PROVE  Spec => []PostsAccounted
<1>1. SingleInv => PostsAccounted
  BY DEF SingleInv
<1> QED
  BY <1>1, SingleInvHolds, PTL

\* With a single dispatcher a row that is delivered or given up is never posted again
\* (repository.go:216-217).
THEOREM NothingPostedWhenDone ==
  ASSUME Single
  PROVE  Spec => NoPostWhenDone
<1>1. IInv /\ SingleInv /\ [Next]_vars =>
        [\A i \in DOMAIN rows : Done(rows[i]) => rows'[i].posts = rows[i].posts]_vars
  BY SingleNext
<1> QED
  BY <1>1, IInvHolds, SingleInvHolds, PTL DEF Spec, NoPostWhenDone

-----------------------------------------------------------------------------
(***************************************************************************)
(* A single dispatcher implements DeliveryLifecycle, for every set of      *)
(* subscriptions and entries, every batch limit and maximum of attempts.   *)
(* First, lemmas about the mapping.                                        *)
(***************************************************************************)

\* How far a row is, and how far and how often tried a notification is, as functions.
PhaseOf(x) ==
  IF ~Done(x) THEN "open" ELSE IF x.status = "delivered" THEN "delivered" ELSE "given_up"

Phases == [s \in Sub |-> [e \in Event |-> Phase(s, e)]]
TriesMade == [s \in Sub |-> [e \in Event |-> Tries(s, e)]]

\* The row of a notification is the only one with its subscription and entry.
LEMMA PhaseOfRow ==
  ASSUME OneRowPerPair, NEW s, NEW e, NEW i \in DOMAIN rows,
         rows[i].sub = s, rows[i].event = e, sub[s] # "deleted"
  PROVE  Phase(s, e) = PhaseOf(rows[i]) /\ Tries(s, e) = rows[i].attempts
<1>1. HasRow([sub |-> s, event |-> e])
  BY DEF HasRow
<1>2. RowOf(s, e) \in DOMAIN rows /\ rows[RowOf(s, e)].sub = s /\ rows[RowOf(s, e)].event = e
  BY DEF RowOf
<1>3. RowOf(s, e) = i
  BY <1>2 DEF OneRowPerPair
<1> QED
  BY <1>1, <1>3 DEF Phase, Tries, PhaseOf

\* The same in the next state.
LEMMA PhaseOfRowNext ==
  ASSUME OneRowPerPair', NEW CONSTANT s, NEW CONSTANT e, NEW CONSTANT i, i \in DOMAIN rows',
         rows'[i].sub = s, rows'[i].event = e, sub'[s] # "deleted"
  PROVE  Phase(s, e)' = PhaseOf(rows[i])' /\ Tries(s, e)' = rows'[i].attempts
<1>1. HasRow([sub |-> s, event |-> e])'
  BY DEF HasRow
<1>2. /\ RowOf(s, e)' \in DOMAIN rows'
      /\ rows'[RowOf(s, e)'].sub = s /\ rows'[RowOf(s, e)'].event = e
  BY DEF RowOf
<1>3. RowOf(s, e)' = i
  BY <1>2 DEF OneRowPerPair
<1> QED
  BY <1>1, <1>3 DEF Phase, Tries, PhaseOf

\* A notification without a row, or whose subscription was removed.
LEMMA PhaseWithoutRow ==
  ASSUME NEW CONSTANT s, NEW CONSTANT e
  PROVE  /\ sub[s] = "deleted" => Phase(s, e) = "removed" /\ Tries(s, e) = 0
         /\ sub'[s] = "deleted" => Phase(s, e)' = "removed" /\ Tries(s, e)' = 0
         /\ sub[s] # "deleted" /\ ~HasRow([sub |-> s, event |-> e]) =>
              Phase(s, e) = "new" /\ Tries(s, e) = 0
         /\ sub'[s] # "deleted" /\ ~HasRow([sub |-> s, event |-> e])' =>
              Phase(s, e)' = "new" /\ Tries(s, e)' = 0
BY DEF Phase, Tries

\* A step after which a notification still has its row, or none, and the row is as far
\* as before, leaves the notification alone.
LEMMA PhaseKept ==
  ASSUME OneRowPerPair, OneRowPerPair', NEW CONSTANT s, NEW CONSTANT e,
         sub'[s] = "deleted" <=> sub[s] = "deleted",
         HasRow([sub |-> s, event |-> e])' => HasRow([sub |-> s, event |-> e]),
         \A i \in DOMAIN rows :
           rows[i].sub = s /\ rows[i].event = e /\ sub[s] # "deleted" =>
             /\ i \in DOMAIN rows'
             /\ rows'[i].sub = s /\ rows'[i].event = e
             /\ rows'[i].attempts = rows[i].attempts
             /\ PhaseOf(rows[i])' = PhaseOf(rows[i])
  PROVE  Phase(s, e)' = Phase(s, e) /\ Tries(s, e)' = Tries(s, e)
<1>1. CASE sub[s] = "deleted"
  BY <1>1, PhaseWithoutRow
<1>2. CASE sub[s] # "deleted" /\ ~HasRow([sub |-> s, event |-> e])
  BY <1>2, PhaseWithoutRow
<1>3. CASE sub[s] # "deleted" /\ HasRow([sub |-> s, event |-> e])
  <2>1. PICK i \in DOMAIN rows : rows[i].sub = s /\ rows[i].event = e
    BY <1>3 DEF HasRow
  <2>2. Phase(s, e) = PhaseOf(rows[i]) /\ Tries(s, e) = rows[i].attempts
    BY <1>3, <2>1, PhaseOfRow
  <2>3. Phase(s, e)' = PhaseOf(rows[i])' /\ Tries(s, e)' = rows'[i].attempts
    BY <1>3, <2>1, PhaseOfRowNext
  <2> QED
    BY <1>3, <2>1, <2>2, <2>3
<1> QED
  BY <1>1, <1>2, <1>3

(***************************************************************************)
(* Steps that leave every notification as it is.                           *)
(***************************************************************************)

\* What a step of the system must keep to be none of the life cycle.
LEMMA AllKept ==
  ASSUME OneRowPerPair, OneRowPerPair', DOMAIN rows' = DOMAIN rows,
         \A s \in Sub : sub'[s] = "deleted" <=> sub[s] = "deleted",
         \A i \in DOMAIN rows :
           /\ rows'[i].sub = rows[i].sub /\ rows'[i].event = rows[i].event
           /\ rows'[i].attempts = rows[i].attempts
           /\ PhaseOf(rows[i])' = PhaseOf(rows[i])
  PROVE  UNCHANGED <<Phases, TriesMade>>
<1>1. ASSUME NEW CONSTANT s \in Sub, NEW CONSTANT e \in Event
      PROVE  Phase(s, e)' = Phase(s, e) /\ Tries(s, e)' = Tries(s, e)
  <2>1. HasRow([sub |-> s, event |-> e])' => HasRow([sub |-> s, event |-> e])
    BY DEF HasRow
  <2> QED
    BY <2>1, PhaseKept
<1> QED
  BY <1>1 DEF Phases, TriesMade

\* The rows are as they were, but for posts and answers.
LEMMA RowsUntouched ==
  ASSUME OneRowPerPair, OneRowPerPair', UNCHANGED rows,
         \A s \in Sub : sub'[s] = "deleted" <=> sub[s] = "deleted"
  PROVE  UNCHANGED <<Phases, TriesMade>>
<1>1. \A i \in DOMAIN rows : PhaseOf(rows[i])' = PhaseOf(rows[i])
  BY DEF PhaseOf, Done
<1> QED
  BY <1>1, AllKept

\* A post changes neither the status of a row nor its attempts.
LEMMA AttemptStutters ==
  ASSUME IInv, OneRowPerPair, OneRowPerPair', NEW d \in Dispatcher, Attempt(d)
  PROVE  UNCHANGED <<Phases, TriesMade>>
<1>1. PICK i \in First(disp[d].batch) :
        (\E ok \in BOOLEAN : rows' = [rows EXCEPT ![i] = Posted(@, ok)]) \/ UNCHANGED rows
  BY DEF Attempt
<1>2. rows \in Seq(Row) /\ UNCHANGED sub
  BY DEF IInv, TypeOK, Attempt
<1>3. ASSUME NEW ok \in BOOLEAN, rows' = [rows EXCEPT ![i] = Posted(@, ok)]
      PROVE  UNCHANGED <<Phases, TriesMade>>
  <2>1. i \in DOMAIN rows
    BY ProcessType DEF IInv, TypeOK, First
  <2>2. rows[i] \in Row
    BY <1>2, <2>1, LenProperties, ElementOfSeq
  <2> DEFINE y == Posted(rows[i], ok)
  <2>3. /\ y \in Row
        /\ y.sub = rows[i].sub /\ y.event = rows[i].event /\ y.attempts = rows[i].attempts
        /\ y.status = rows[i].status /\ y.retry = rows[i].retry
    BY <2>2, PostedType
  <2>4. rows' = [rows EXCEPT ![i] = y]
    BY <1>3
  <2> HIDE DEF y
  <2>5. DOMAIN rows' = DOMAIN rows /\ rows'[i] = y /\ \A j \in DOMAIN rows \ {i} : rows'[j] = rows[j]
    BY <1>2, <2>1, <2>3, <2>4, RowReplaced
  <2>6. \A j \in DOMAIN rows :
          /\ rows'[j].sub = rows[j].sub /\ rows'[j].event = rows[j].event
          /\ rows'[j].attempts = rows[j].attempts
          /\ PhaseOf(rows[j])' = PhaseOf(rows[j])
    BY <2>3, <2>5 DEF PhaseOf, Done
  <2> QED
    BY <1>2, <2>5, <2>6, AllKept
<1> QED
  BY <1>1, <1>2, <1>3, RowsUntouched

\* A retry falls due: the row was failed and has another attempt, before and after.
LEMMA FallDueStutters ==
  ASSUME IInv, OneRowPerPair, OneRowPerPair', NEW p, FallDue(p)
  PROVE  UNCHANGED <<Phases, TriesMade>>
<1>1. /\ DOMAIN rows' = DOMAIN rows
      /\ \A i \in DOMAIN rows :
           /\ rows'[i].sub = rows[i].sub /\ rows'[i].event = rows[i].event
           /\ rows'[i].attempts = rows[i].attempts /\ rows'[i].status = rows[i].status
           /\ \/ rows'[i].retry = rows[i].retry
              \/ rows[i].retry = "waiting" /\ rows'[i].retry = "due"
  BY RowsDue
<1>2. \A i \in DOMAIN rows : PhaseOf(rows[i])' = PhaseOf(rows[i])
  BY <1>1 DEF PhaseOf, Done
<1>3. UNCHANGED sub
  BY DEF FallDue
<1> QED
  BY <1>1, <1>2, <1>3, AllKept

(***************************************************************************)
(* Steps of the life cycle.                                                *)
(***************************************************************************)

\* Whatever its state, a notification is in one of the phases.
LEMMA PhaseTypeNext ==
  ASSUME NEW CONSTANT s, NEW CONSTANT e
  PROVE  Phase(s, e)' \in Lifecycle!Phase
BY DEF Phase, Lifecycle!Phase

\* CreateDeliveries takes up the notifications it inserts rows for, which are pending.
LEMMA CreateDeliveriesTakesUp ==
  ASSUME IInv, OneRowPerPair, OneRowPerPair', NEW d \in Dispatcher, CreateDeliveries(d)
  PROVE  Lifecycle!TakeUp
<1>1. UNCHANGED sub /\ disp[d].pairs \in SUBSET Pair /\ rows \in Seq(Row)
  BY DEF CreateDeliveries, IInv, TypeOK, Process
<1>2. /\ DOMAIN rows \subseteq DOMAIN rows'
      /\ \A i \in DOMAIN rows : rows'[i] = rows[i]
      /\ \A i \in DOMAIN rows' \ DOMAIN rows :
           rows'[i].status = "pending" /\ rows'[i].attempts = 0
  <2>1. CASE UNCHANGED rows
    BY <2>1
  <2>2. ASSUME NEW q \in SetToSeqs(disp[d].pairs),
               rows' = rows \o [i \in DOMAIN q |-> NewRow(q[i])]
        PROVE  /\ DOMAIN rows \subseteq DOMAIN rows'
               /\ \A i \in DOMAIN rows : rows'[i] = rows[i]
               /\ \A i \in DOMAIN rows' \ DOMAIN rows :
                    rows'[i].status = "pending" /\ rows'[i].attempts = 0
    BY <1>1, <2>2, RowsAppended DEF NewRow
  <2> QED
    BY <2>1, <2>2 DEF CreateDeliveries
<1>3. ASSUME NEW CONSTANT s \in Sub, NEW CONSTANT e \in Event
      PROVE  /\ Tries(s, e)' = Tries(s, e)
             /\ Phase(s, e)' # Phase(s, e) => Phase(s, e) = "new" /\ Phase(s, e)' = "open"
  <2> DEFINE p == [sub |-> s, event |-> e]
  <2>1. CASE HasRow(p)' => HasRow(p)
    <3>1. \A i \in DOMAIN rows : PhaseOf(rows[i])' = PhaseOf(rows[i])
      BY <1>2 DEF PhaseOf, Done
    <3> QED
      BY <1>1, <1>2, <2>1, <3>1, PhaseKept
  <2>2. CASE HasRow(p)' /\ ~HasRow(p) /\ sub[s] # "deleted"
    <3>1. PICK i \in DOMAIN rows' : rows'[i].sub = s /\ rows'[i].event = e
      BY <2>2 DEF HasRow
    <3>2. i \notin DOMAIN rows
      BY <1>2, <2>2, <3>1 DEF HasRow
    <3>3. Phase(s, e)' = PhaseOf(rows[i])' /\ Tries(s, e)' = rows'[i].attempts
      BY <1>1, <2>2, <3>1, PhaseOfRowNext
    <3>4. PhaseOf(rows[i])' = "open" /\ rows'[i].attempts = 0
      BY <1>2, <3>1, <3>2 DEF PhaseOf, Done
    <3>5. Phase(s, e) = "new" /\ Tries(s, e) = 0
      BY <2>2, PhaseWithoutRow
    <3> QED
      BY <3>3, <3>4, <3>5
  <2>3. CASE sub[s] = "deleted"
    BY <1>1, <2>3, PhaseWithoutRow
  <2> QED
    BY <2>1, <2>2, <2>3
<1>4. \A s \in Sub, e \in Event : Phase(s, e)' \in Lifecycle!Phase
  BY PhaseTypeNext
<1>5. UNCHANGED TriesMade
  BY <1>3 DEF TriesMade
<1> QED
  BY <1>3, <1>4, <1>5 DEF Lifecycle!TakeUp, TriesMade

\* A function of a subscription and an entry, and another that differs in one place.
OfPairs(f) == f = [s \in Sub |-> [e \in Event |-> f[s][e]]]

LEMMA OneUpdated ==
  ASSUME NEW f, NEW g, NEW s \in Sub, NEW e \in Event, NEW v,
         OfPairs(f), OfPairs(g), g[s][e] = v,
         \A t \in Sub, u \in Event : t # s \/ u # e => g[t][u] = f[t][u]
  PROVE  g = [f EXCEPT ![s][e] = v]
<1> DEFINE h == [f EXCEPT ![s][e] = v]
<1>1. h = [t \in Sub |-> h[t]] /\ \A t \in Sub : h[t] = [u \in Event |-> h[t][u]]
  BY DEF OfPairs
<1>2. \A t \in Sub, u \in Event : h[t][u] = g[t][u]
  BY DEF OfPairs
<1> SUFFICES g = h
  OBVIOUS
<1> HIDE DEF h
<1>3. g = [t \in Sub |-> g[t]] /\ \A t \in Sub : g[t] = [u \in Event |-> g[t][u]]
  BY DEF OfPairs
<1>4. \A t \in Sub : h[t] = g[t]
  BY <1>1, <1>2, <1>3
<1> QED
  BY <1>1, <1>3, <1>4

\* UpdateDelivery of a row that exists tries its notification once.
LEMMA UpdateDeliveryTries ==
  ASSUME IInv, SingleInv, OneRowPerPair', NEW d \in Dispatcher, UpdateDelivery(d),
         ~UNCHANGED rows
  PROVE  \E s \in Sub, e \in Event : Lifecycle!Try(s, e)
<1>0. PICK i : i = disp[d].at
  OBVIOUS
<1> DEFINE n == disp[d].batch[i] + 1
           y == Recorded(rows[i], n, disp[d].ok)
<1>1. /\ disp[d].pc = "update_delivery" /\ UNCHANGED sub
      /\ rows[i].status # "gone" /\ rows' = [rows EXCEPT ![i] = y]
  BY <1>0 DEF UpdateDelivery
<1>2. /\ disp[d] \in Process /\ SnapshotFresh(d) /\ SnapshotOK(d) /\ rows \in Seq(Row)
      /\ DOMAIN disp[d].batch \in SUBSET (DOMAIN rows)
  BY ProcessType DEF IInv, TypeOK, SingleInv
<1>3. i \in DOMAIN disp[d].batch /\ i \in DOMAIN rows /\ rows[i] \in Row /\ RowOK(rows[i])
  <2>1. i \in DOMAIN disp[d].batch /\ i \in DOMAIN rows
    BY <1>0, <1>1, <1>2 DEF SnapshotOK
  <2> QED
    BY <1>2, <2>1, LenProperties, ElementOfSeq DEF IInv
<1>4. n \in 1 .. MaxRetries /\ disp[d].ok \in BOOLEAN
  <2>1. disp[d].batch[i] \in 0 .. MaxRetries /\ disp[d].ok \in BOOLEAN
    BY <1>2, <1>3, ProcessType
  <2>2. disp[d].batch[i] < MaxRetries
    BY <1>2, <1>3 DEF SnapshotOK
  <2> QED
    BY <2>1, <2>2, DispatchAssumption
<1>5. n = rows[i].attempts + 1 /\ ~Done(rows[i])
  BY <1>1, <1>2, <1>3 DEF SnapshotFresh
<1>6. /\ y \in Row
      /\ y.sub = rows[i].sub /\ y.event = rows[i].event /\ y.attempts = n
      /\ y.status = IF disp[d].ok THEN "delivered" ELSE "failed"
      /\ y.retry = IF ~disp[d].ok /\ n < MaxRetries THEN "waiting" ELSE "none"
  BY <1>3, <1>4, RecordedType
<1> HIDE DEF n, y
<1>7. DOMAIN rows' = DOMAIN rows /\ rows'[i] = y /\ \A j \in DOMAIN rows \ {i} : rows'[j] = rows[j]
  BY <1>1, <1>2, <1>3, <1>6, RowReplaced
<1>8. PICK s \in Sub, e \in Event : s = rows[i].sub /\ e = rows[i].event
  BY <1>3 DEF Row
<1>9. sub[s] # "deleted"
  BY <1>1, <1>3, <1>8 DEF RowOK
<1>10. Phase(s, e) = "open" /\ Tries(s, e) = rows[i].attempts
  BY <1>3, <1>5, <1>8, <1>9, PhaseOfRow DEF SingleInv, PhaseOf
<1>11. Phase(s, e)' = PhaseOf(y) /\ Tries(s, e)' = n
  <2>1. Phase(s, e)' = PhaseOf(rows[i])' /\ Tries(s, e)' = rows'[i].attempts
    BY <1>1, <1>3, <1>6, <1>7, <1>8, <1>9, PhaseOfRowNext
  <2>2. PhaseOf(rows[i])' = PhaseOf(y)
    BY <1>7 DEF PhaseOf, Done
  <2> QED
    BY <1>6, <1>7, <2>1, <2>2
<1>12. \/ PhaseOf(y) = "delivered"
       \/ PhaseOf(y) = "open" /\ n < MaxRetries
       \/ PhaseOf(y) = "given_up" /\ n = MaxRetries
  BY <1>4, <1>6, DispatchAssumption DEF PhaseOf, Done
<1>13. ASSUME NEW CONSTANT t \in Sub, NEW CONSTANT f \in Event, t # s \/ f # e
       PROVE  Phase(t, f)' = Phase(t, f) /\ Tries(t, f)' = Tries(t, f)
  <2>1. HasRow([sub |-> t, event |-> f])' => HasRow([sub |-> t, event |-> f])
    BY <1>3, <1>6, <1>7 DEF HasRow
  <2>2. \A j \in DOMAIN rows : rows[j].sub = t /\ rows[j].event = f =>
          /\ j \in DOMAIN rows' /\ rows'[j] = rows[j] /\ PhaseOf(rows[j])' = PhaseOf(rows[j])
    BY <1>7, <1>8, <1>13 DEF PhaseOf, Done
  <2> QED
    BY <1>1, <2>1, <2>2, PhaseKept DEF SingleInv
<1>14. TriesMade' = [TriesMade EXCEPT ![s][e] = n]
  <2> DEFINE f == TriesMade
             g == TriesMade'
  <2>1. /\ OfPairs(f) /\ OfPairs(g)
        /\ g[s][e] = n
        /\ \A t \in Sub, u \in Event : t # s \/ u # e => g[t][u] = f[t][u]
    BY <1>8, <1>11, <1>13 DEF TriesMade, OfPairs
  <2> SUFFICES g = [f EXCEPT ![s][e] = n]
    OBVIOUS
  <2> HIDE DEF f, g
  <2> QED
    BY <1>8, <2>1, OneUpdated
<1>15. Phases' = [Phases EXCEPT ![s][e] = PhaseOf(y)]
  <2> DEFINE f == Phases
             g == Phases'
             v == PhaseOf(y)
  <2>1. /\ OfPairs(f) /\ OfPairs(g)
        /\ g[s][e] = v
        /\ \A t \in Sub, u \in Event : t # s \/ u # e => g[t][u] = f[t][u]
    BY <1>8, <1>11, <1>13 DEF Phases, OfPairs
  <2> SUFFICES g = [f EXCEPT ![s][e] = v]
    OBVIOUS
  <2> HIDE DEF f, g, v
  <2> QED
    BY <1>8, <2>1, OneUpdated
<1>16. PhaseOf(y) = "open" => UNCHANGED Phases
  <2>1. Phases = [t \in Sub |-> [f \in Event |-> Phases[t][f]]] /\ Phases[s][e] = "open"
    BY <1>8, <1>10 DEF Phases
  <2> QED
    BY <1>8, <1>15, <2>1
<1>17. Phases[s][e] = "open" /\ TriesMade[s][e] + 1 = n
  BY <1>5, <1>8, <1>10 DEF Phases, TriesMade
<1>18. Lifecycle!Try(s, e)
  BY <1>4, <1>12, <1>14, <1>15, <1>16, <1>17, DispatchAssumption
     DEF Lifecycle!Try, Phases, TriesMade
<1> QED
  BY <1>8, <1>18

\* DeleteSubscription removes every notification of the subscription.
LEMMA DeleteSubscriptionRemoves ==
  ASSUME IInv, OneRowPerPair, OneRowPerPair', NEW CONSTANT s \in Sub, DeleteSubscription(s)
  PROVE  Lifecycle!Remove(s)
<1>1. /\ DOMAIN rows' = DOMAIN rows
      /\ \A i \in DOMAIN rows :
           /\ rows'[i].sub = rows[i].sub /\ rows'[i].event = rows[i].event
           /\ rows'[i].attempts = rows[i].attempts
           /\ rows[i].sub # s => rows'[i] = rows[i]
  BY RowsRemoved
<1>2. sub'[s] = "deleted" /\ \A t \in Sub : t # s => sub'[t] = sub[t]
  BY DEF DeleteSubscription, IInv, TypeOK
<1>3. \A e \in Event : Phase(s, e)' = "removed" /\ Tries(s, e)' = 0
  BY <1>2, PhaseWithoutRow
<1>4. ASSUME NEW CONSTANT t \in Sub, NEW CONSTANT e \in Event, t # s
      PROVE  Phase(t, e)' = Phase(t, e) /\ Tries(t, e)' = Tries(t, e)
  <2>1. HasRow([sub |-> t, event |-> e])' => HasRow([sub |-> t, event |-> e])
    BY <1>1 DEF HasRow
  <2>2. \A j \in DOMAIN rows : rows[j].sub = t /\ rows[j].event = e =>
          /\ j \in DOMAIN rows' /\ rows'[j] = rows[j] /\ PhaseOf(rows[j])' = PhaseOf(rows[j])
    BY <1>1, <1>4 DEF PhaseOf, Done
  <2> QED
    BY <1>2, <1>4, <2>1, <2>2, PhaseKept
<1>5. Phases' = [Phases EXCEPT ![s] = [e \in Event |-> "removed"]]
  BY <1>3, <1>4 DEF Phases
<1>6. TriesMade' = [TriesMade EXCEPT ![s] = [e \in Event |-> 0]]
  BY <1>3, <1>4 DEF TriesMade
<1> QED
  BY <1>5, <1>6 DEF Lifecycle!Remove, Phases, TriesMade

(***************************************************************************)
(* The refinement.                                                         *)
(***************************************************************************)

\* Nothing has been taken up when the system starts.
LEMMA InitLifecycle ==
  ASSUME Init
  PROVE  Lifecycle!Init
<1>1. DOMAIN rows = {} /\ \A s \in Sub : sub[s] # "deleted"
  BY DEF Init
<1>2. \A s \in Sub, e \in Event : Phase(s, e) = "new" /\ Tries(s, e) = 0
  BY <1>1 DEF Phase, Tries, HasRow
<1> QED
  BY <1>2 DEF Lifecycle!Init

\* Every step of a single dispatcher and of its surroundings is one of the life cycle, or
\* none.
LEMMA NextLifecycle ==
  ASSUME Single, IInv, SingleInv, SingleInv', [Next]_vars
  PROVE  Lifecycle!Next \/ UNCHANGED Lifecycle!vars
<1>1. OneRowPerPair /\ OneRowPerPair'
  BY DEF SingleInv
<1>2. UNCHANGED <<Phases, TriesMade>> => UNCHANGED Lifecycle!vars
  BY DEF Phases, TriesMade, Lifecycle!vars
<1>3. ASSUME UNCHANGED <<rows, sub>>
      PROVE  UNCHANGED <<Phases, TriesMade>>
  BY <1>1, <1>3, RowsUntouched
<1>4. ASSUME NEW d \in Dispatcher, Cycle(d)
      PROVE  Lifecycle!Next \/ UNCHANGED Lifecycle!vars
  <2>1. CASE \E blind \in BOOLEAN : FindUndelivered(d, blind)
    BY <1>2, <1>3, <2>1 DEF FindUndelivered
  <2>2. CASE CreateDeliveries(d)
    BY <1>1, <2>2, CreateDeliveriesTakesUp DEF Lifecycle!Next
  <2>3. CASE \E blind \in BOOLEAN : FindPending(d, blind)
    BY <1>2, <1>3, <2>3 DEF FindPending
  <2>4. CASE Attempt(d)
    BY <1>1, <1>2, <2>4, AttemptStutters
  <2>5. CASE UpdateDelivery(d) /\ UNCHANGED rows
    BY <1>2, <1>3, <2>5 DEF UpdateDelivery
  <2>6. CASE UpdateDelivery(d) /\ ~UNCHANGED rows
    BY <1>1, <2>6, UpdateDeliveryTries DEF Lifecycle!Next
  <2> QED
    BY <1>4, <2>1, <2>2, <2>3, <2>4, <2>5, <2>6 DEF Cycle
<1>5. ASSUME NEW s \in Sub, CreateSubscription(s) \/ UpdateSubscription(s)
      PROVE  UNCHANGED <<Phases, TriesMade>>
  <2>1. UNCHANGED rows
    BY <1>5 DEF CreateSubscription, UpdateSubscription
  <2>2. \A t \in Sub : sub'[t] = "deleted" <=> sub[t] = "deleted"
    BY <1>5 DEF CreateSubscription, UpdateSubscription, IInv, TypeOK
  <2> QED
    BY <1>1, <2>1, <2>2, RowsUntouched
<1>6. ASSUME NEW s \in Sub, DeleteSubscription(s)
      PROVE  Lifecycle!Next
  BY <1>1, <1>6, DeleteSubscriptionRemoves DEF Lifecycle!Next
<1>7. ASSUME NEW p \in Pair, FallDue(p)
      PROVE  UNCHANGED <<Phases, TriesMade>>
  BY <1>1, <1>7, FallDueStutters
<1>8. ASSUME NEW d \in Dispatcher, Crash(d)
      PROVE  UNCHANGED <<Phases, TriesMade>>
  BY <1>3, <1>8 DEF Crash
<1> QED
  BY <1>2, <1>3, <1>4, <1>5, <1>6, <1>7, <1>8 DEF Next, vars, Mutation, Expire

\* A single dispatcher, crashing and restarting at any point and running against
\* subscriptions that come and go, takes each notification up once, tries it at most
\* MaxRetries times and then delivers it or gives it up for good (dispatcher.go:88-242).
THEOREM DispatcherImplementsLifecycle ==
  ASSUME Single
  PROVE  Spec => ImplementsLifecycle
<1>1. Init => Lifecycle!Init
  BY InitLifecycle
<1>2. IInv /\ SingleInv /\ SingleInv' /\ [Next]_vars => [Lifecycle!Next]_Lifecycle!vars
  BY NextLifecycle
<1> QED
  BY <1>1, <1>2, IInvHolds, SingleInvHolds, PTL DEF Spec, ImplementsLifecycle, Lifecycle!Spec

================================================================================
