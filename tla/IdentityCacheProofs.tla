------------------------- MODULE IdentityCacheProofs -------------------------
(***************************************************************************)
(* Theorems about IdentityCache for every set of users, requests, writers  *)
(* and elements, every capacity, time to live and resolution time.         *)
(***************************************************************************)
EXTENDS IdentityCache, SequenceTheorems, TLAPS

(***************************************************************************)
(* Lemmas about the list operations.                                       *)
(***************************************************************************)

\* No element occurs twice in s.
Distinct(s) == \A i, j \in DOMAIN s : s[i] = s[j] => i = j

\* e occurs in s.
Has(s, e) == \E i \in DOMAIN s : s[i] = e

\* Removing position i shifts the later elements one place forward
\* (container/list Remove).
LEMMA RemoveAtProperties ==
  ASSUME NEW S, NEW s \in Seq(S), NEW i \in 1 .. Len(s)
  PROVE  /\ RemoveAt(s, i) \in Seq(S)
         /\ Len(RemoveAt(s, i)) = Len(s) - 1
         /\ \A j \in 1 .. Len(s) - 1 :
              RemoveAt(s, i)[j] = IF j < i THEN s[j] ELSE s[j + 1]
<1> DEFINE a == SubSeq(s, 1, i - 1)
           b == SubSeq(s, i + 1, Len(s))
<1>1. Len(s) \in Nat /\ \A j \in 1 .. Len(s) : s[j] \in S
  BY LenProperties, ElementOfSeq
<1>2. /\ a \in Seq(S)
      /\ Len(a) = i - 1
      /\ \A j \in 1 .. i - 1 : a[j] = s[j]
  <2>1. \A j \in 1 .. i - 1 : s[j] \in S
    BY <1>1
  <2>2. /\ a \in Seq(S)
        /\ Len(a) = IF 1 <= i - 1 THEN i - 1 - 1 + 1 ELSE 0
        /\ \A j \in 1 .. i - 1 - 1 + 1 : a[j] = s[1 + j - 1]
    BY <1>1, <2>1, SubSeqProperties
  <2> QED
    BY <1>1, <2>2
<1>3. /\ b \in Seq(S)
      /\ Len(b) = Len(s) - i
      /\ \A j \in 1 .. Len(s) - i : b[j] = s[i + j]
  <2>1. \A j \in i + 1 .. Len(s) : s[j] \in S
    BY <1>1
  <2>2. /\ b \in Seq(S)
        /\ Len(b) = IF i + 1 <= Len(s) THEN Len(s) - (i + 1) + 1 ELSE 0
        /\ \A j \in 1 .. Len(s) - (i + 1) + 1 : b[j] = s[i + 1 + j - 1]
    BY <1>1, <2>1, SubSeqProperties
  <2> QED
    BY <1>1, <2>2
<1> DEFINE c == a \o b
<1>4. /\ c \in Seq(S)
      /\ Len(c) = Len(a) + Len(b)
      /\ \A j \in 1 .. Len(a) + Len(b) :
           c[j] = IF j <= Len(a) THEN a[j] ELSE b[j - Len(a)]
  BY <1>2, <1>3, ConcatProperties
<1> HIDE DEF a, b, c
<1>5. Len(c) = Len(s) - 1
  BY <1>1, <1>2, <1>3, <1>4
<1>6. ASSUME NEW j \in 1 .. Len(s) - 1
      PROVE  c[j] = IF j < i THEN s[j] ELSE s[j + 1]
  <2>1. j \in Int /\ i \in Int /\ Len(s) \in Int /\ 1 <= j /\ j <= Len(s) - 1 /\ 1 <= i /\ i <= Len(s)
    BY <1>1
  <2>2. j \in 1 .. Len(a) + Len(b)
    BY <2>1, <1>2, <1>3
  <2>3. c[j] = IF j <= i - 1 THEN a[j] ELSE b[j - (i - 1)]
    BY <2>2, <1>2, <1>4
  <2>4. CASE j < i
    BY <2>1, <2>3, <2>4, <1>2
  <2>5. CASE j >= i
    <3>1. j - (i - 1) \in 1 .. Len(s) - i /\ i + (j - (i - 1)) = j + 1
      BY <2>1, <2>5
    <3>2. b[j - (i - 1)] = s[j + 1]
      BY <3>1, <1>3
    <3> QED
      BY <2>1, <2>3, <2>5, <3>2
  <2> QED
    BY <2>1, <2>4, <2>5
<1>7. RemoveAt(s, i) = c
  BY DEF RemoveAt, a, b, c
<1> QED
  BY <1>4, <1>5, <1>6, <1>7

\* Unlinking an element of a list without duplicates removes it and no other.
LEMMA UnlinkedProperties ==
  ASSUME NEW S, NEW s \in Seq(S), NEW e, Has(s, e), Distinct(s)
  PROVE  /\ Unlinked(s, e) \in Seq(S)
         /\ Len(Unlinked(s, e)) = Len(s) - 1
         /\ Distinct(Unlinked(s, e))
         /\ ~Has(Unlinked(s, e), e)
         /\ \A x : x # e /\ Has(s, x) => Has(Unlinked(s, e), x)
<1> DEFINE i == CHOOSE j \in DOMAIN s : s[j] = e
           u == Unlinked(s, e)
<1>1. Len(s) \in Nat /\ DOMAIN s = 1 .. Len(s)
  BY LenProperties
<1>2. i \in 1 .. Len(s) /\ s[i] = e
  BY <1>1 DEF Has
<1>3. u = RemoveAt(s, i)
  BY DEF Unlinked
<1> HIDE DEF i, u
<1>4. /\ u \in Seq(S)
      /\ Len(u) = Len(s) - 1
      /\ \A j \in 1 .. Len(s) - 1 : u[j] = IF j < i THEN s[j] ELSE s[j + 1]
  BY <1>2, <1>3, RemoveAtProperties
<1>5. DOMAIN u = 1 .. Len(s) - 1
  BY <1>4, LenProperties
<1>6. Distinct(u)
  BY <1>1, <1>2, <1>4, <1>5 DEF Distinct
<1>7. ~Has(u, e)
  BY <1>1, <1>2, <1>4, <1>5 DEF Distinct, Has
<1>8. ASSUME NEW x, x # e, Has(s, x) PROVE Has(u, x)
  <2>1. PICK j \in 1 .. Len(s) : s[j] = x
    BY <1>1, <1>8 DEF Has
  <2>2. CASE j < i
    BY <2>1, <2>2, <1>1, <1>2, <1>4, <1>5 DEF Has
  <2>3. CASE j > i
    <3>1. j - 1 \in 1 .. Len(s) - 1 /\ u[j - 1] = x
      BY <2>1, <2>3, <1>1, <1>2, <1>4
    <3> QED
      BY <3>1, <1>5 DEF Has
  <2> QED
    BY <2>1, <2>2, <2>3, <1>1, <1>2, <1>8
<1> QED
  BY <1>4, <1>6, <1>7, <1>8 DEF u

\* Pushing a new element to the front of a list without duplicates.
LEMMA PushFrontProperties ==
  ASSUME NEW S, NEW s \in Seq(S), NEW e \in S, ~Has(s, e), Distinct(s)
  PROVE  /\ <<e>> \o s \in Seq(S)
         /\ Len(<<e>> \o s) = Len(s) + 1
         /\ Distinct(<<e>> \o s)
         /\ Has(<<e>> \o s, e)
         /\ \A x : Has(s, x) => Has(<<e>> \o s, x)
         /\ \A x : Has(<<e>> \o s, x) => x = e \/ Has(s, x)
<1> DEFINE p == <<e>> \o s
<1>1. <<e>> \in Seq(S) /\ Len(<<e>>) = 1 /\ <<e>>[1] = e
  OBVIOUS
<1>2. Len(s) \in Nat /\ DOMAIN s = 1 .. Len(s)
  BY LenProperties
<1>3. /\ p \in Seq(S)
      /\ Len(p) = 1 + Len(s)
      /\ \A i \in 1 .. 1 + Len(s) : p[i] = IF i <= 1 THEN <<e>>[i] ELSE s[i - 1]
  BY <1>1, ConcatProperties
<1>4. DOMAIN p = 1 .. 1 + Len(s)
  BY <1>3, LenProperties
<1> HIDE DEF p
<1>5. p[1] = e /\ \A i \in 2 .. 1 + Len(s) : p[i] = s[i - 1]
  BY <1>1, <1>2, <1>3
<1>6. Distinct(p)
  <2> SUFFICES ASSUME NEW i \in 1 .. 1 + Len(s), NEW j \in 1 .. 1 + Len(s), p[i] = p[j]
               PROVE  i = j
    BY <1>4 DEF Distinct
  <2>1. \A m \in 2 .. 1 + Len(s) : m - 1 \in DOMAIN s /\ p[m] = s[m - 1] /\ p[m] # e
    BY <1>2, <1>5 DEF Has
  <2>2. CASE i = 1 \/ j = 1
    BY <2>1, <2>2, <1>2, <1>5
  <2>3. CASE i # 1 /\ j # 1
    <3>1. s[i - 1] = s[j - 1] /\ i - 1 \in DOMAIN s /\ j - 1 \in DOMAIN s
      BY <2>1, <2>3, <1>2
    <3>2. i - 1 = j - 1
      BY <3>1 DEF Distinct
    <3> QED
      BY <3>2, <1>2
  <2> QED
    BY <2>2, <2>3
<1>7. Has(p, e)
  BY <1>2, <1>4, <1>5 DEF Has
<1>8. ASSUME NEW x, Has(s, x) PROVE Has(p, x)
  <2>1. PICK i \in 1 .. Len(s) : s[i] = x
    BY <1>2, <1>8 DEF Has
  <2>2. i + 1 \in 1 .. 1 + Len(s) /\ p[i + 1] = x
    BY <2>1, <1>2, <1>5
  <2> QED
    BY <2>2, <1>4 DEF Has
<1>9. ASSUME NEW x, Has(p, x) PROVE x = e \/ Has(s, x)
  BY <1>2, <1>4, <1>5, <1>9 DEF Has
<1> QED
  BY <1>2, <1>3, <1>6, <1>7, <1>8, <1>9 DEF p

\* A prefix of a list without duplicates, and what is cut off.
LEMMA PrefixProperties ==
  ASSUME NEW S, NEW s \in Seq(S), NEW n \in 0 .. Len(s), Distinct(s)
  PROVE  /\ SubSeq(s, 1, n) \in Seq(S)
         /\ Len(SubSeq(s, 1, n)) = n
         /\ Distinct(SubSeq(s, 1, n))
         /\ \A x : Has(s, x) => Has(SubSeq(s, 1, n), x) \/ \E i \in n + 1 .. Len(s) : s[i] = x
<1> DEFINE p == SubSeq(s, 1, n)
<1>1. Len(s) \in Nat /\ DOMAIN s = 1 .. Len(s) /\ \A j \in 1 .. Len(s) : s[j] \in S
  BY LenProperties, ElementOfSeq
<1>2. /\ p \in Seq(S)
      /\ Len(p) = IF 1 <= n THEN n - 1 + 1 ELSE 0
      /\ \A i \in 1 .. n - 1 + 1 : p[i] = s[1 + i - 1]
  BY <1>1, SubSeqProperties
<1> HIDE DEF p
<1>3. Len(p) = n /\ DOMAIN p = 1 .. n /\ \A i \in 1 .. n : p[i] = s[i]
  BY <1>1, <1>2, LenProperties
<1>4. Distinct(p)
  BY <1>1, <1>3 DEF Distinct
<1>5. ASSUME NEW x, Has(s, x)
      PROVE  Has(p, x) \/ \E i \in n + 1 .. Len(s) : s[i] = x
  <2>1. PICK i \in 1 .. Len(s) : s[i] = x
    BY <1>1, <1>5 DEF Has
  <2> QED
    BY <2>1, <1>1, <1>3 DEF Has
<1> QED
  BY <1>2, <1>3, <1>4, <1>5 DEF p

-----------------------------------------------------------------------------
(***************************************************************************)
(* The inductive invariant.                                                *)
(***************************************************************************)
USE DEF Reading, Fact, Age, AgeLimit, Outcome

\* Initially nothing is cached and nothing is in flight.
LEMMA InitIInv == Init => IInv
<1> SUFFICES ASSUME Init PROVE IInv
  OBVIOUS
<1> USE CacheAssumption DEF Init
<1>1. NoEntry \in Entry /\ Idle \in Local
  BY DEF NoEntry, Idle, Entry, Local
<1>2. TypeOK
  BY <1>1 DEF TypeOK
<1>3. CacheCoherent /\ CapacityRespected /\ StaleOnlyByRace
  BY DEF CacheCoherent, CapacityRespected, StaleOnlyByRace
<1>4. CurrentIsActive
  BY DEF CurrentIsActive, NoEntry
<1>5. \A r \in Request : RequestOK(req[r])
  BY DEF RequestOK, Idle
<1>6. \A e \in Elem : EntryOK(entry[e])
  BY DEF EntryOK, NoEntry
<1> QED
  BY <1>2, <1>3, <1>4, <1>5, <1>6 DEF IInv

\* A step that only moves one request on preserves the invariant if the new
\* local state is a legal one.
LEMMA LocalStep ==
  ASSUME IInv, NEW r \in Request, NEW q \in Local, RequestOK(q),
         req' = [req EXCEPT ![r] = q],
         UNCHANGED <<items, lru, entry, status, writer>>
  PROVE  IInv'
<1>1. TypeOK'
  BY DEF IInv, TypeOK
<1>2. CacheCoherent' /\ CapacityRespected' /\ StaleOnlyByRace' /\ CurrentIsActive'
  BY DEF IInv, CacheCoherent, CapacityRespected, StaleOnlyByRace, CurrentIsActive
<1>3. ASSUME NEW x \in Request PROVE RequestOK(req[x])'
  <2>1. req'[x] = IF x = r THEN q ELSE req[x]
    BY DEF IInv, TypeOK
  <2> QED
    BY <2>1 DEF IInv, RequestOK, Fresh
<1>4. \A e \in Elem : EntryOK(entry[e])'
  BY DEF IInv, EntryOK
<1> QED
  BY <1>1, <1>2, <1>3, <1>4 DEF IInv

\* The reads of the resolver and the response (resolver.go:48-90).
LEMMA ResolverStep ==
  ASSUME IInv, NEW r \in Request,
         FindEntityID(r) \/ IsActive(r) \/ Groups(r) \/ AllowedSystems(r)
           \/ QueryFails(r) \/ Respond(r)
  PROVE  IInv'
<1> USE CacheAssumption
<1>0. req[r] \in Local /\ RequestOK(req[r]) /\ status \in [Key -> {"absent", "disabled", "active"}]
  BY DEF IInv, TypeOK
<1>1. ASSUME NEW out \in Outcome, req[r].pc \in Reading, Fail(r, out),
             UNCHANGED <<items, lru, entry, status, writer>>
      PROVE  IInv'
  <2> DEFINE q == Served(req[r].key, out, 0, FALSE, FALSE)
  <2>1. q \in Local /\ RequestOK(q)
    BY <1>0 DEF Local, Served, RequestOK, Fresh
  <2>2. req' = [req EXCEPT ![r] = q]
    BY <1>1 DEF Fail
  <2> QED
    BY <1>1, <2>1, <2>2, LocalStep
<1>2. ASSUME NEW pc \in Reading, Goto(r, pc),
             RequestOK([req[r] EXCEPT !.pc = pc]),
             UNCHANGED <<items, lru, entry, status, writer>>
      PROVE  IInv'
  <2> DEFINE q == [req[r] EXCEPT !.pc = pc]
  <2>1. q \in Local
    BY <1>0 DEF Local
  <2>2. req' = [req EXCEPT ![r] = q]
    BY <1>2 DEF Goto
  <2> QED
    BY <1>2, <2>1, <2>2, LocalStep
<1>3. CASE FindEntityID(r)
  <2>1. status[req[r].key] # "absent" => RequestOK([req[r] EXCEPT !.pc = "active"])
    BY <1>0, <1>3 DEF FindEntityID, RequestOK, Local
  <2> QED
    BY <1>1, <1>2, <1>3, <2>1 DEF FindEntityID
<1>4. CASE IsActive(r)
  <2>1. status[req[r].key] # "disabled" \/ req[r].age > 0 =>
          RequestOK([req[r] EXCEPT !.pc = "groups"])
    BY <1>0, <1>4 DEF IsActive, RequestOK, Local
  <2>2. req[r].age > 0 \/ req[r].age = 0
    BY <1>0 DEF Local
  <2> QED
    BY <1>1, <1>2, <1>4, <2>1, <2>2 DEF IsActive
<1>5. CASE Groups(r)
  <2>1. RequestOK([req[r] EXCEPT !.pc = "group_ids"])
    BY <1>0, <1>5 DEF Groups, RequestOK, Local
  <2> QED
    BY <1>2, <1>5, <2>1 DEF Groups
<1>6. CASE AllowedSystems(r)
  <2>1. req[r].pc = "group_ids" => RequestOK([req[r] EXCEPT !.pc = "systems"])
    BY <1>0, <1>6 DEF RequestOK, Local
  <2>2. req[r].pc = "systems" => RequestOK([req[r] EXCEPT !.pc = "store"])
    BY <1>0, <1>6 DEF RequestOK, Local
  <2> QED
    BY <1>2, <1>6, <2>1, <2>2 DEF AllowedSystems
<1>7. CASE QueryFails(r)
  BY <1>1, <1>7 DEF QueryFails
<1>8. CASE Respond(r)
  <2>1. Idle \in Local /\ RequestOK(Idle)
    BY DEF Idle, Local, RequestOK
  <2> QED
    BY <1>8, <2>1, LocalStep DEF Respond
<1> QED
  BY <1>3, <1>4, <1>5, <1>6, <1>7, <1>8

\* A hit moves the element to the front and hands out an identity that is still
\* fresh enough (cache.go:44-51).
LEMMA ResolveHitStep ==
  ASSUME IInv, NEW r \in Request, NEW k \in Key, ResolveHit(r, k)
  PROVE  IInv'
<1> USE CacheAssumption
<1> DEFINE e == items[k]
           q == Served(k, "identity", entry[e].age, entry[e].dead, entry[e].raced)
<1>1. e \in Elem /\ entry[e] \in Entry /\ EntryOK(entry[e]) /\ entry[e].left > 0
  BY DEF IInv, TypeOK, ResolveHit, Live
<1>2. q \in Local /\ RequestOK(q)
  <2>2. /\ entry[e].age \in Age /\ entry[e].left \in 0 .. TTL
        /\ entry[e].dead \in BOOLEAN /\ entry[e].raced \in BOOLEAN
    BY <1>1 DEF Entry
  <2>3. q \in Local
    BY <2>2 DEF Local, Served
  <2>4. q.pc = "served" /\ q.age = entry[e].age
    BY DEF Served
  <2>5. Fresh(q.age)
    BY <1>1, <2>2, <2>4 DEF EntryOK, Fresh
  <2> QED
    BY <2>3, <2>4, <2>5 DEF RequestOK
<1>3. lru \in Seq(Elem) /\ Distinct(lru) /\ Has(lru, e)
  BY <1>1 DEF IInv, TypeOK, CacheCoherent, Distinct, Has
<1>4. /\ Unlinked(lru, e) \in Seq(Elem)
      /\ Len(Unlinked(lru, e)) = Len(lru) - 1
      /\ Distinct(Unlinked(lru, e))
      /\ ~Has(Unlinked(lru, e), e)
      /\ \A x : x # e /\ Has(lru, x) => Has(Unlinked(lru, e), x)
  BY <1>3, UnlinkedProperties
<1>5. /\ lru' = Fronted(lru, e)
      /\ req' = [req EXCEPT ![r] = q]
      /\ UNCHANGED <<items, entry, status, writer>>
  BY DEF ResolveHit
<1> HIDE DEF e, q
<1>6. /\ lru' \in Seq(Elem)
      /\ Len(lru') = Len(Unlinked(lru, e)) + 1
      /\ Distinct(lru')
      /\ Has(lru', e)
      /\ \A x : Has(Unlinked(lru, e), x) => Has(lru', x)
  BY <1>1, <1>4, <1>5, PushFrontProperties DEF Fronted
<1>7. TypeOK'
  BY <1>2, <1>5, <1>6 DEF IInv, TypeOK
<1>8. CacheCoherent'
  <2>1. \A x \in Elem : Has(lru, x) => Has(lru', x)
    BY <1>4, <1>6
  <2> QED
    BY <2>1, <1>5, <1>6 DEF IInv, TypeOK, CacheCoherent, Distinct, Has
<1>9. CapacityRespected'
  BY <1>3, <1>4, <1>6, LenProperties DEF IInv, CapacityRespected
<1>10. StaleOnlyByRace' /\ CurrentIsActive'
  BY <1>5 DEF IInv, StaleOnlyByRace, CurrentIsActive
<1>11. ASSUME NEW x \in Request PROVE RequestOK(req[x])'
  <2>1. req'[x] = IF x = r THEN q ELSE req[x]
    BY <1>5 DEF IInv, TypeOK
  <2> QED
    BY <2>1, <1>2, <1>5 DEF IInv, RequestOK, Fresh
<1>12. \A x \in Elem : EntryOK(entry[x])'
  BY <1>5 DEF IInv, EntryOK
<1> QED
  BY <1>7, <1>8, <1>9, <1>10, <1>11, <1>12 DEF IInv

\* Removing a user's element through the map leaves the other users' elements in
\* the list (cache.go:52-53, 85-86).
LEMMA DropItemProperties ==
  ASSUME IInv, NEW k \in Key, DropItem(k)
  PROVE  /\ items' \in [Key -> Elem \cup {None}]
         /\ items'[k] = None
         /\ \A j \in Key : items'[j] # None =>
              /\ items'[j] = items[j]
              /\ items[j] # items[k]
              /\ Has(lru', items[j])
         /\ lru' \in Seq(Elem)
         /\ Distinct(lru')
         /\ Len(lru') <= Capacity
<1> USE CacheAssumption
<1>1. /\ items \in [Key -> Elem \cup {None}]
      /\ lru \in Seq(Elem) /\ Len(lru) \in Nat /\ Len(lru) <= Capacity
      /\ Distinct(lru)
      /\ \A j \in Key : items[j] # None => Has(lru, items[j]) /\ entry[items[j]].key = j
  BY LenProperties DEF IInv, TypeOK, CacheCoherent, CapacityRespected, Distinct, Has
<1>2. CASE items[k] = None
  BY <1>1, <1>2 DEF DropItem
<1>3. CASE items[k] # None
  <2>1. items' = [items EXCEPT ![k] = None] /\ lru' = Unlinked(lru, items[k])
    BY <1>3 DEF DropItem
  <2>2. /\ Unlinked(lru, items[k]) \in Seq(Elem)
        /\ Len(Unlinked(lru, items[k])) = Len(lru) - 1
        /\ Distinct(Unlinked(lru, items[k]))
        /\ \A x : x # items[k] /\ Has(lru, x) => Has(Unlinked(lru, items[k]), x)
    BY <1>1, <1>3, UnlinkedProperties
  <2>3. ASSUME NEW j \in Key, items'[j] # None
        PROVE  items'[j] = items[j] /\ items[j] # items[k] /\ Has(lru', items[j])
    <3>1. j # k /\ items'[j] = items[j]
      BY <1>1, <2>1, <2>3
    <3>2. entry[items[j]].key = j /\ entry[items[k]].key = k /\ Has(lru, items[j])
      BY <1>1, <1>3, <2>3, <3>1
    <3> QED
      BY <2>1, <2>2, <3>1, <3>2
  <2> QED
    BY <1>1, <2>1, <2>2, <2>3
<1> QED
  BY <1>2, <1>3

\* A miss unlinks an expired element and starts a resolution (cache.go:44-57).
LEMMA ResolveMissStep ==
  ASSUME IInv, NEW r \in Request, NEW k \in Key, ResolveMiss(r, k)
  PROVE  IInv'
<1> USE CacheAssumption
<1>1. /\ DropItem(k)
      /\ entry' = [e \in Elem |-> IF e = items[k] THEN NoEntry ELSE entry[e]]
      /\ req' = [req EXCEPT ![r] = Started(k)]
      /\ UNCHANGED <<status, writer>>
  BY DEF ResolveMiss
<1>2. /\ items' \in [Key -> Elem \cup {None}]
      /\ \A j \in Key : items'[j] # None =>
           items'[j] = items[j] /\ items[j] # items[k] /\ Has(lru', items[j])
      /\ lru' \in Seq(Elem) /\ Distinct(lru') /\ Len(lru') <= Capacity
  BY <1>1, DropItemProperties
<1>3. Started(k) \in Local /\ RequestOK(Started(k))' /\ NoEntry \in Entry
  BY DEF Started, Local, RequestOK, NoEntry, Entry
<1>4. TypeOK'
  BY <1>1, <1>2, <1>3 DEF IInv, TypeOK
<1>5. \A j \in Key : items'[j] # None => items[j] \in Elem /\ entry'[items'[j]] = entry[items[j]]
  BY <1>1, <1>2 DEF IInv, TypeOK
<1>6. CacheCoherent' /\ CapacityRespected' /\ StaleOnlyByRace'
  BY <1>2, <1>5 DEF IInv, CacheCoherent, CapacityRespected, StaleOnlyByRace, Distinct, Has
<1>7. CurrentIsActive' /\ \A e \in Elem : EntryOK(entry[e])'
  BY <1>1 DEF IInv, CurrentIsActive, EntryOK, NoEntry
<1>8. ASSUME NEW x \in Request PROVE RequestOK(req[x])'
  <2>1. req'[x] = IF x = r THEN Started(k) ELSE req[x]
    BY <1>1 DEF IInv, TypeOK
  <2>2. CASE x = r
    BY <1>3, <2>1, <2>2 DEF RequestOK, Fresh
  <2>3. CASE x # r
    BY <1>1, <2>1, <2>3 DEF IInv, RequestOK, Fresh
  <2> QED
    BY <2>2, <2>3
<1> QED
  BY <1>4, <1>6, <1>7, <1>8 DEF IInv

\* Storing evicts from the back, forgets the evicted keys and pushes one element;
\* what remains in the map is what remains in the list (cache.go:63-73).
LEMMA StoreStep ==
  ASSUME IInv, NEW r \in Request, Store(r)
  PROVE  IInv'
<1> USE CacheAssumption
<1> DEFINE q == req[r]
           n == Cached(q)
           v == Served(q.key, "identity", q.age, q.dead, q.raced)
<1>1. PICK e \in Elem :
        /\ \A i \in DOMAIN Kept : Kept[i] # e
        /\ lru' = <<e>> \o Kept
        /\ items' = [k \in Key |->
                       IF k = q.key THEN e
                       ELSE IF k \in Forgotten THEN None
                       ELSE items[k]]
        /\ entry' = [x \in Elem |-> IF x = e THEN n
                                    ELSE IF x \in Evicted THEN NoEntry
                                    ELSE entry[x]]
  BY DEF Store
<1>2. q.pc = "store" /\ req' = [req EXCEPT ![r] = v] /\ UNCHANGED <<status, writer>>
  BY DEF Store
<1>3. /\ items \in [Key -> Elem \cup {None}]
      /\ entry \in [Elem -> Entry]
      /\ lru \in Seq(Elem) /\ Len(lru) \in Nat /\ DOMAIN lru = 1 .. Len(lru)
      /\ Len(lru) <= Capacity
      /\ Distinct(lru)
      /\ \A j \in Key : items[j] # None => Has(lru, items[j]) /\ entry[items[j]].key = j
  BY LenProperties DEF IInv, TypeOK, CacheCoherent, CapacityRespected, Distinct, Has
<1>4. /\ q \in Local /\ q.key \in Key /\ q.age \in Age /\ q.dead \in BOOLEAN /\ q.raced \in BOOLEAN
      /\ q.age > 0 => q.age <= MaxResolve + 1
      /\ q.dead => q.raced
      /\ q.age = 0 => status[q.key] = "active"
  BY <1>2 DEF IInv, TypeOK, RequestOK, Local
<1>5. /\ n \in Entry /\ EntryOK(n) /\ NoEntry \in Entry /\ EntryOK(NoEntry)
      /\ v \in Local /\ v.pc = "served" /\ Fresh(v.age)
  BY <1>4 DEF Cached, Entry, EntryOK, NoEntry, Local, Served, Fresh
<1>6. /\ Kept \in Seq(Elem) /\ Len(Kept) <= Capacity - 1 /\ Len(Kept) \in Nat
      /\ Distinct(Kept)
      /\ \A x : Has(lru, x) => Has(Kept, x) \/ x \in Evicted
  <2>1. CASE Len(lru) < Capacity
    BY <1>3, <2>1 DEF Kept
  <2>2. CASE Len(lru) >= Capacity
    <3>1. Kept = SubSeq(lru, 1, Capacity - 1) /\ Capacity - 1 \in 0 .. Len(lru)
      BY <1>3, <2>2 DEF Kept
    <3>2. /\ SubSeq(lru, 1, Capacity - 1) \in Seq(Elem)
          /\ Len(SubSeq(lru, 1, Capacity - 1)) = Capacity - 1
          /\ Distinct(SubSeq(lru, 1, Capacity - 1))
          /\ \A x : Has(lru, x) => \/ Has(SubSeq(lru, 1, Capacity - 1), x)
                                  \/ \E i \in Capacity - 1 + 1 .. Len(lru) : lru[i] = x
      BY <1>3, <3>1, PrefixProperties
    <3> QED
      BY <3>1, <3>2 DEF Evicted
  <2> QED
    BY <1>3, <2>1, <2>2
<1>7. /\ lru' \in Seq(Elem)
      /\ Len(lru') = Len(Kept) + 1
      /\ Distinct(lru')
      /\ Has(lru', e)
      /\ \A x : Has(Kept, x) => Has(lru', x)
  <2>1. ~Has(Kept, e)
    BY <1>1 DEF Has
  <2> QED
    BY <1>1, <1>6, <2>1, PushFrontProperties
<1> HIDE DEF q, n, v
<1>8. TypeOK'
  BY <1>1, <1>2, <1>3, <1>5, <1>7 DEF IInv, TypeOK
<1>9. ASSUME NEW k \in Key, items'[k] # None
      PROVE  /\ Has(lru', items'[k])
             /\ entry'[items'[k]].key = k
             /\ entry'[items'[k]].dead => entry'[items'[k]].raced
  <2>1. CASE k = q.key
    BY <1>1, <1>4, <1>7, <2>1 DEF n, Cached
  <2>2. CASE k # q.key
    <3>1. /\ items'[k] = items[k] /\ ~\E x \in Evicted : entry[x].key = k
          /\ items[k] \in Elem
      BY <1>1, <1>3, <1>9, <2>2 DEF Forgotten
    <3>2. Has(lru, items[k]) /\ entry[items[k]].key = k
      BY <1>3, <1>9, <3>1
    <3>3. Has(Kept, items[k]) /\ items[k] \notin Evicted /\ items[k] # e
      BY <1>1, <1>6, <3>1, <3>2 DEF Has
    <3>4. Has(lru', items[k]) /\ entry'[items[k]] = entry[items[k]]
      BY <1>1, <1>7, <3>1, <3>3
    <3>5. entry[items[k]].dead => entry[items[k]].raced
      BY <1>9, <3>1 DEF IInv, StaleOnlyByRace
    <3> QED
      BY <3>1, <3>2, <3>4, <3>5
  <2> QED
    BY <2>1, <2>2
<1>10. CacheCoherent' /\ StaleOnlyByRace' /\ CapacityRespected'
  BY <1>6, <1>7, <1>9 DEF CacheCoherent, StaleOnlyByRace, CapacityRespected, Distinct, Has
<1>11. CurrentIsActive'
  <2> SUFFICES ASSUME NEW x \in Elem, entry'[x].key # None, entry'[x].age = 0
               PROVE  status'[entry'[x].key] = "active"
    BY DEF CurrentIsActive
  <2>1. CASE x = e
    <3>1. entry'[x].key = q.key /\ entry'[x].age = q.age
      BY <1>1, <2>1 DEF n, Cached
    <3> QED
      BY <1>2, <1>4, <3>1
  <2>2. CASE x # e
    <3>1. entry'[x] = entry[x]
      BY <1>1, <2>2 DEF NoEntry
    <3> QED
      BY <1>2, <3>1 DEF IInv, CurrentIsActive
  <2> QED
    BY <2>1, <2>2
<1>12. \A x \in Elem : EntryOK(entry[x])'
  BY <1>1, <1>5 DEF IInv, EntryOK
<1>13. ASSUME NEW x \in Request PROVE RequestOK(req[x])'
  <2>1. req'[x] = IF x = r THEN v ELSE req[x]
    BY <1>2 DEF IInv, TypeOK
  <2>2. CASE x = r
    BY <1>5, <2>1, <2>2 DEF RequestOK, Fresh
  <2>3. CASE x # r
    BY <1>2, <2>1, <2>3 DEF IInv, RequestOK, Fresh
  <2> QED
    BY <2>2, <2>3
<1> QED
  BY <1>8, <1>10, <1>11, <1>12, <1>13 DEF IInv

\* A directory write supersedes every identity built from the fact it changes, so
\* no identity that counts as right contradicts the directory.
LEMMA SupersedeStep ==
  ASSUME IInv, NEW k \in Key, NEW f \in Fact, Supersede(k, f),
         status' \in [Key -> {"absent", "disabled", "active"}],
         \A j \in Key : j # k => status'[j] = status[j],
         \/ status'[k] = status[k]
         \/ f = "active" /\ status'[k] # "absent"
         \/ f = "link",
         writer' \in [Writer -> Key \cup {None}],
         UNCHANGED <<items, lru>>
  PROVE  IInv'
<1> USE CacheAssumption
<1>1. /\ \A r \in Request : req[r] \in Local /\ RequestOK(req[r])
      /\ \A e \in Elem : entry[e] \in Entry /\ EntryOK(entry[e])
  BY DEF IInv, TypeOK
<1>2. ASSUME NEW r \in Request
      PROVE  req'[r] \in Local /\ RequestOK(req[r])'
  <2> DEFINE q == req[r]
             hit == q.pc \in Reading /\ q.key = k /\ Rank[q.pc] > Rank[f]
  <2>1. req'[r] = IF hit THEN [q EXCEPT !.age = Wrong(@)] ELSE q
    BY DEF Supersede, InFlight
  <2>2. q \in Local /\ RequestOK(q) /\ q.age \in Age
    BY <1>1 DEF Local
  <2>3. CASE hit
    <3>1. /\ req'[r] = [q EXCEPT !.age = Wrong(q.age)]
          /\ q.pc \in Reading /\ Wrong(q.age) \in Age /\ Wrong(q.age) > 0
          /\ Wrong(q.age) <= q.elapsed + 1
      BY <2>1, <2>2, <2>3 DEF Wrong, Local, RequestOK
    <3>2. req'[r] \in Local
      BY <2>2, <3>1 DEF Local
    <3>3. req'[r].pc = q.pc /\ req'[r].key = q.key /\ req'[r].elapsed = q.elapsed
          /\ req'[r].dead = q.dead /\ req'[r].raced = q.raced /\ req'[r].age = Wrong(q.age)
      BY <2>2, <3>1 DEF Local
    <3>4. RequestOK(req[r])'
      BY <2>2, <3>1, <3>3 DEF RequestOK
    <3> QED
      BY <3>2, <3>4
  <2>4. CASE ~hit
    <3>1. req'[r] = q
      BY <2>1, <2>4
    <3>2. q.pc = "active" /\ q.age = 0 => status'[q.key] # "absent"
      BY <2>2, <2>4 DEF RequestOK, Rank
    <3>3. q.pc \in {"groups", "group_ids", "systems", "store"} /\ q.age = 0 => status'[q.key] = "active"
      BY <2>2, <2>4 DEF RequestOK, Rank
    <3> QED
      BY <2>2, <3>1, <3>2, <3>3 DEF RequestOK, Fresh
  <2> QED
    BY <2>3, <2>4
<1>3. ASSUME NEW e \in Elem
      PROVE  /\ entry'[e] \in Entry /\ EntryOK(entry[e])'
             /\ entry'[e].key = entry[e].key
             /\ entry'[e].dead = entry[e].dead /\ entry'[e].raced = entry[e].raced
             /\ entry'[e].key # None /\ entry'[e].age = 0 => status'[entry'[e].key] = "active"
  <2> DEFINE c == entry[e]
  <2>1. entry'[e] = IF c.key = k THEN [c EXCEPT !.age = Wrong(@)] ELSE c
    BY DEF Supersede
  <2>2. c \in Entry /\ EntryOK(c) /\ c.age \in Age /\ c.left \in 0 .. TTL
    BY <1>1 DEF Entry
  <2>3. CASE c.key = k
    <3>1. entry'[e] = [c EXCEPT !.age = Wrong(c.age)] /\ Wrong(c.age) \in Age /\ Wrong(c.age) > 0
      BY <2>1, <2>2, <2>3 DEF Wrong
    <3>2. entry'[e].age = Wrong(c.age) /\ entry'[e].left = c.left /\ entry'[e].key = c.key
          /\ entry'[e].dead = c.dead /\ entry'[e].raced = c.raced /\ entry'[e] \in Entry
      BY <2>2, <3>1 DEF Entry
    <3>3. EntryOK(entry[e])'
      BY <2>2, <3>2 DEF EntryOK, Wrong
    <3> QED
      BY <3>1, <3>2, <3>3
  <2>4. CASE c.key # k
    <3>1. entry'[e] = c /\ c.key \in Key \cup {None}
      BY <2>1, <2>2, <2>4 DEF Entry
    <3> QED
      BY <2>2, <2>4, <3>1 DEF IInv, CurrentIsActive, EntryOK
  <2> QED
    BY <2>3, <2>4
<1>4. DOMAIN req' = Request /\ DOMAIN entry' = Elem
      /\ req' = [r \in Request |-> req'[r]] /\ entry' = [e \in Elem |-> entry'[e]]
  BY DEF Supersede
<1>5. TypeOK'
  BY <1>2, <1>3, <1>4 DEF IInv, TypeOK
<1>6. CacheCoherent' /\ StaleOnlyByRace' /\ CapacityRespected' /\ CurrentIsActive'
  BY <1>3 DEF IInv, TypeOK, CacheCoherent, StaleOnlyByRace, CapacityRespected, CurrentIsActive
<1> QED
  BY <1>2, <1>3, <1>5, <1>6 DEF IInv

\* The writes of users, wherever they are made, and of groups and grants.
LEMMA WriteStep ==
  ASSUME IInv, NEW k \in Key,
         \/ \E w \in Writer : CommitUser(w, k)
         \/ CommitUserElsewhere(k)
         \/ \E f \in Fact : CommitGraph(k, f)
         \/ Provision(k)
  PROVE  IInv'
<1>1. status \in [Key -> {"absent", "disabled", "active"}] /\ writer \in [Writer -> Key \cup {None}]
  BY DEF IInv, TypeOK
<1>2. ASSUME ChangeUser(k), UNCHANGED <<items, lru>>, writer' \in [Writer -> Key \cup {None}]
      PROVE  IInv'
  <2>1. CASE UNCHANGED <<status, req, entry>>
    BY <1>2, <2>1 DEF IInv, TypeOK, CacheCoherent, CapacityRespected, StaleOnlyByRace,
                      CurrentIsActive, RequestOK, EntryOK
  <2>2. CASE /\ status' = [status EXCEPT ![k] = IF @ = "active" THEN "disabled" ELSE "active"]
             /\ Supersede(k, "active")
    BY <1>1, <1>2, <2>2, SupersedeStep
  <2>3. CASE status' = [status EXCEPT ![k] = "absent"] /\ Supersede(k, "link")
    BY <1>1, <1>2, <2>3, SupersedeStep
  <2> QED
    BY <1>2, <2>1, <2>2, <2>3 DEF ChangeUser
<1>3. ASSUME NEW w \in Writer, CommitUser(w, k) PROVE IInv'
  BY <1>1, <1>2, <1>3 DEF CommitUser
<1>4. CASE CommitUserElsewhere(k)
  BY <1>1, <1>2, <1>4 DEF CommitUserElsewhere
<1>5. ASSUME NEW f \in Fact, CommitGraph(k, f) PROVE IInv'
  BY <1>1, <1>5, SupersedeStep DEF CommitGraph
<1>6. CASE Provision(k)
  <2>1. /\ status[k] = "absent" /\ UNCHANGED <<items, lru, entry, req, writer>>
        /\ status' \in [Key -> {"absent", "disabled", "active"}]
        /\ \A j \in Key : j # k => status'[j] = status[j]
        /\ status'[k] # "absent"
    BY <1>1, <1>6 DEF Provision
  <2>2. TypeOK' /\ CacheCoherent' /\ CapacityRespected' /\ StaleOnlyByRace'
    BY <2>1 DEF IInv, TypeOK, CacheCoherent, CapacityRespected, StaleOnlyByRace
  <2>3. ASSUME NEW r \in Request PROVE RequestOK(req[r])'
    BY <2>1 DEF IInv, RequestOK, Fresh
  <2>4. CurrentIsActive' /\ \A e \in Elem : EntryOK(entry[e])'
    BY <2>1 DEF IInv, TypeOK, Entry, CurrentIsActive, EntryOK
  <2> QED
    BY <2>2, <2>3, <2>4 DEF IInv
<1> QED
  BY <1>3, <1>4, <1>5, <1>6

\* An invalidation takes the user's element out of the map; an identity of that
\* user still being resolved is marked as having raced with it (cache.go:81-89).
LEMMA InvalidateStep ==
  ASSUME IInv, NEW w \in Writer, Invalidate(w)
  PROVE  IInv'
<1> USE CacheAssumption
<1> DEFINE k == writer[w]
<1>1. /\ k \in Key
      /\ DropItem(k)
      /\ entry' = [e \in Elem |->
                     IF e = items[k] THEN NoEntry
                     ELSE IF entry[e].key = k THEN Killed(entry[e])
                     ELSE entry[e]]
      /\ req' = [r \in Request |->
                   IF InFlight(r) /\ req[r].key = k
                   THEN [Killed(req[r]) EXCEPT !.raced = TRUE]
                   ELSE req[r]]
      /\ writer' = [writer EXCEPT ![w] = None]
      /\ UNCHANGED status
  BY DEF IInv, TypeOK, Invalidate
<1> HIDE DEF k
<1>2. /\ items' \in [Key -> Elem \cup {None}]
      /\ items'[k] = None
      /\ \A j \in Key : items'[j] # None =>
           items'[j] = items[j] /\ items[j] # items[k] /\ Has(lru', items[j])
      /\ lru' \in Seq(Elem) /\ Distinct(lru') /\ Len(lru') <= Capacity
  BY <1>1, DropItemProperties
<1>3. ASSUME NEW e \in Elem
      PROVE  /\ entry'[e] \in Entry /\ EntryOK(entry[e])'
             /\ entry'[e].key # None /\ entry'[e].age = 0 => status'[entry'[e].key] = "active"
  <2> DEFINE c == entry[e]
  <2>1. c \in Entry /\ EntryOK(c) /\ (c.key # None /\ c.age = 0 => status[c.key] = "active")
    BY DEF IInv, TypeOK, CurrentIsActive
  <2>2. CASE e = items[k]
    <3>1. entry'[e] = NoEntry
      BY <1>1, <2>2
    <3>2. NoEntry \in Entry /\ EntryOK(NoEntry) /\ NoEntry.key = None
      BY DEF NoEntry, Entry, EntryOK
    <3> QED
      BY <3>1, <3>2 DEF EntryOK
  <2>3. CASE e # items[k] /\ c.key = k
    <3>1. entry'[e] = IF c.age > 0 THEN [c EXCEPT !.dead = TRUE] ELSE c
      BY <1>1, <2>3 DEF Killed
    <3>2. /\ entry'[e].key = c.key /\ entry'[e].age = c.age /\ entry'[e].left = c.left
          /\ entry'[e] \in Entry
      BY <2>1, <3>1 DEF Entry
    <3> QED
      BY <1>1, <2>1, <3>2 DEF EntryOK
  <2>4. CASE e # items[k] /\ c.key # k
    <3>1. entry'[e] = c
      BY <1>1, <2>4
    <3> QED
      BY <1>1, <2>1, <3>1 DEF EntryOK
  <2> QED
    BY <2>2, <2>3, <2>4
<1>4. ASSUME NEW r \in Request
      PROVE  req'[r] \in Local /\ RequestOK(req[r])'
  <2> DEFINE q == req[r]
             hit == InFlight(r) /\ q.key = k
  <2>1. q \in Local /\ RequestOK(q)
    BY DEF IInv, TypeOK
  <2>2. CASE hit
    <3> DEFINE d == IF q.age > 0 THEN [q EXCEPT !.dead = TRUE] ELSE q
    <3>1. req'[r] = [d EXCEPT !.raced = TRUE]
      BY <1>1, <2>2 DEF Killed
    <3>2. d \in Local /\ d.pc = q.pc /\ d.key = q.key /\ d.age = q.age /\ d.elapsed = q.elapsed
      BY <2>1 DEF Local
    <3> HIDE DEF d
    <3>3. /\ req'[r].pc = q.pc /\ req'[r].key = q.key /\ req'[r].age = q.age
          /\ req'[r].elapsed = q.elapsed /\ req'[r].raced = TRUE /\ req'[r] \in Local
      BY <3>1, <3>2 DEF Local
    <3> QED
      BY <1>1, <2>1, <3>3 DEF RequestOK, Fresh
  <2>3. CASE ~hit
    <3>1. req'[r] = q
      BY <1>1, <2>3
    <3> QED
      BY <1>1, <2>1, <3>1 DEF RequestOK, Fresh
  <2> QED
    BY <2>2, <2>3
<1>5. TypeOK'
  <2>1. writer' \in [Writer -> Key \cup {None}] /\ status' \in [Key -> {"absent", "disabled", "active"}]
    BY <1>1 DEF IInv, TypeOK
  <2>2. entry' \in [Elem -> Entry] /\ req' \in [Request -> Local]
    BY <1>1, <1>3, <1>4
  <2> QED
    BY <1>2, <2>1, <2>2 DEF TypeOK
<1>6. ASSUME NEW j \in Key, items'[j] # None
      PROVE  /\ Has(lru', items'[j])
             /\ entry'[items'[j]].key = j
             /\ entry'[items'[j]].dead => entry'[items'[j]].raced
  <2>1. items'[j] = items[j] /\ items[j] # items[k] /\ items[j] # None /\ items[j] \in Elem
    BY <1>2, <1>6 DEF IInv, TypeOK
  <2>2. entry[items[j]].key = j /\ (entry[items[j]].dead => entry[items[j]].raced)
    BY <2>1 DEF IInv, CacheCoherent, StaleOnlyByRace
  <2>3. entry'[items[j]] = entry[items[j]]
    BY <1>1, <1>2, <1>6, <2>1, <2>2
  <2> QED
    BY <1>2, <1>6, <2>1, <2>2, <2>3
<1>7. CacheCoherent' /\ StaleOnlyByRace' /\ CapacityRespected' /\ CurrentIsActive'
  BY <1>2, <1>3, <1>6
     DEF CacheCoherent, StaleOnlyByRace, CapacityRespected, CurrentIsActive, Distinct, Has
<1> QED
  BY <1>3, <1>4, <1>5, <1>7 DEF IInv

\* A tick makes what is wrong older and what is cached expire by the same amount,
\* so their sum is still bounded (cache.go:46, 71).
LEMMA TickStep ==
  ASSUME IInv, Tick
  PROVE  IInv'
<1> USE CacheAssumption
<1>1. ASSUME NEW e \in Elem
      PROVE  /\ entry'[e] \in Entry /\ EntryOK(entry[e])'
             /\ entry'[e].key = entry[e].key
             /\ entry'[e].dead = entry[e].dead /\ entry'[e].raced = entry[e].raced
             /\ entry'[e].age = 0 => entry[e].age = 0
  <2> DEFINE c == entry[e]
             left == IF c.left > 0 THEN c.left - 1 ELSE 0
  <2>1. c \in Entry /\ EntryOK(c) /\ c.age \in Age /\ c.left \in 0 .. TTL
    BY DEF IInv, TypeOK, Entry
  <2>2. entry'[e] = [c EXCEPT !.age = Older(c.age), !.left = left]
    BY DEF Tick
  <2>3. Older(c.age) \in Age /\ left \in 0 .. TTL
    BY <2>1 DEF Older
  <2> HIDE DEF left
  <2>4. /\ entry'[e].age = Older(c.age) /\ entry'[e].left = left /\ entry'[e].key = c.key
        /\ entry'[e].dead = c.dead /\ entry'[e].raced = c.raced /\ entry'[e] \in Entry
    BY <2>1, <2>2, <2>3 DEF Entry
  <2>5. EntryOK(entry[e])'
    BY <2>1, <2>4 DEF EntryOK, Older, left
  <2>6. Older(c.age) = 0 => c.age = 0
    BY <2>1 DEF Older
  <2> QED
    BY <2>4, <2>5, <2>6
<1>2. ASSUME NEW r \in Request
      PROVE  req'[r] \in Local /\ RequestOK(req[r])'
  <2> DEFINE q == req[r]
  <2>1. q \in Local /\ RequestOK(q) /\ q.age \in Age /\ q.elapsed \in 0 .. MaxResolve
    BY DEF IInv, TypeOK, Local
  <2>2. CASE InFlight(r)
    <3>1. req'[r] = [q EXCEPT !.age = Older(q.age), !.elapsed = q.elapsed + 1] /\ q.elapsed < MaxResolve
      BY <2>2 DEF Tick
    <3>2. Older(q.age) \in Age /\ q.elapsed + 1 \in 0 .. MaxResolve
      BY <2>1, <3>1 DEF Older
    <3>3. /\ req'[r].pc = q.pc /\ req'[r].key = q.key /\ req'[r].age = Older(q.age)
          /\ req'[r].elapsed = q.elapsed + 1 /\ req'[r].dead = q.dead /\ req'[r].raced = q.raced
          /\ req'[r] \in Local
      BY <2>1, <3>1, <3>2 DEF Local
    <3>4. /\ Older(q.age) = 0 => q.age = 0
          /\ q.pc \in Reading /\ Older(q.age) > 0 => Older(q.age) <= q.elapsed + 1 + 1
      BY <2>1 DEF Older, RequestOK
    <3>5. q.pc # "served" /\ UNCHANGED status
      BY <2>2 DEF InFlight, Tick
    <3> QED
      BY <2>1, <3>3, <3>4, <3>5 DEF RequestOK
  <2>3. CASE ~InFlight(r)
    <3>1. req'[r] = q /\ UNCHANGED status
      BY <2>3 DEF Tick
    <3> QED
      BY <2>1, <3>1 DEF RequestOK, Fresh
  <2> QED
    BY <2>2, <2>3
<1>3. UNCHANGED <<items, lru, status, writer>>
  BY DEF Tick
<1>4. TypeOK'
  <2>1. entry' \in [Elem -> Entry] /\ req' \in [Request -> Local]
    BY <1>1, <1>2 DEF Tick
  <2> QED
    BY <1>3, <2>1 DEF IInv, TypeOK
<1>5. CacheCoherent' /\ CapacityRespected' /\ StaleOnlyByRace'
  BY <1>1, <1>3 DEF IInv, TypeOK, CacheCoherent, CapacityRespected, StaleOnlyByRace
<1>6. CurrentIsActive'
  BY <1>1, <1>3 DEF IInv, CurrentIsActive
<1> QED
  BY <1>1, <1>2, <1>4, <1>5, <1>6 DEF IInv

\* Every step of the cache, the resolver, the writers and the clock preserves the
\* inductive invariant (cache.go:40-89).
THEOREM IInvHolds == Spec => []IInv
<1>1. Init => IInv
  BY InitIInv
<1>2. IInv /\ [Next]_vars => IInv'
  <2> SUFFICES ASSUME IInv, [Next]_vars PROVE IInv'
    OBVIOUS
  <2>1. ASSUME NEW r \in Request, NEW k \in Key, ResolveHit(r, k) \/ ResolveMiss(r, k)
        PROVE  IInv'
    BY <2>1, ResolveHitStep, ResolveMissStep
  <2>2. ASSUME NEW r \in Request, Resolving(r) \/ Respond(r)
        PROVE  IInv'
    BY <2>2, ResolverStep, StoreStep DEF Resolving
  <2>3. ASSUME NEW w \in Writer, Invalidate(w) \/ \E k \in Key : CommitUser(w, k)
        PROVE  IInv'
    BY <2>3, InvalidateStep, WriteStep
  <2>4. ASSUME NEW k \in Key, Provision(k) \/ CommitUserElsewhere(k)
        PROVE  IInv'
    BY <2>4, WriteStep
  <2>5. ASSUME NEW k \in Key, NEW f \in Fact, CommitGraph(k, f)
        PROVE  IInv'
    BY <2>5, WriteStep
  <2>6. CASE Tick
    BY <2>6, TickStep
  <2>7. CASE UNCHANGED vars
    BY <2>7 DEF vars, IInv, TypeOK, CacheCoherent, CapacityRespected, StaleOnlyByRace,
                CurrentIsActive, RequestOK, EntryOK, Fresh
  <2> QED
    BY <2>1, <2>2, <2>3, <2>4, <2>5, <2>6, <2>7 DEF Next
<1> QED
  BY <1>1, <1>2, PTL DEF Spec

\* The state of the cache, its entries, the requests and the writers is always
\* well formed (cache.go:12-25).
THEOREM TypeCorrect == Spec => []TypeOK
<1>1. IInv => TypeOK
  BY DEF IInv
<1> QED
  BY <1>1, IInvHolds, PTL

\* The map and the LRU list never disagree, whatever misses, hits, evictions and
\* invalidations interleave (cache.go:44-73, 84-87).
THEOREM MapAndListAgree == Spec => []CacheCoherent
<1>1. IInv => CacheCoherent
  BY DEF IInv
<1> QED
  BY <1>1, IInvHolds, PTL

\* The cache never holds more than Capacity elements (cache.go:63).
THEOREM NeverOverCapacity == Spec => []CapacityRespected
<1>1. IInv => CapacityRespected
  BY DEF IInv
<1> QED
  BY <1>1, IInvHolds, PTL

\* No request is served an identity that has been wrong for longer than a time to
\* live plus a resolution (cache.go:46, 71).
THEOREM StalenessIsBounded == Spec => []StalenessBounded
<1>1. IInv => StalenessBounded
  BY DEF IInv, StalenessBounded, RequestOK
<1> QED
  BY <1>1, IInvHolds, PTL

\* An identity that survives its invalidation was being resolved when the
\* invalidation ran (cache.go:57-74, 83-88).
THEOREM OnlyRacesSurvive == Spec => []StaleOnlyByRace
<1>1. IInv => StaleOnlyByRace
  BY DEF IInv
<1> QED
  BY <1>1, IInvHolds, PTL

\* What is cached and not superseded is the identity of an active user
\* (cache.go:57-60, resolver.go:49-60).
THEOREM CachedUsersAreActive == Spec => []CurrentIsActive
<1>1. IInv => CurrentIsActive
  BY DEF IInv
<1> QED
  BY <1>1, IInvHolds, PTL
=============================================================================
