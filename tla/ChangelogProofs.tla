---------------------------- MODULE ChangelogProofs ----------------------------
(***************************************************************************)
(* Theorems about Changelog, for any entities, systems, writers and page   *)
(* sizes.                                                                  *)
(***************************************************************************)
EXTENDS Changelog, FiniteSetTheorems, TLAPS

\* Cardinalities of finite sets.
LEMMA Smaller ==
  ASSUME NEW T, IsFiniteSet(T), NEW S, S \subseteq T
  PROVE  /\ IsFiniteSet(S) /\ Cardinality(S) \in Nat /\ Cardinality(T) \in Nat
         /\ Cardinality(S) <= Cardinality(T)
BY FS_Subset, FS_CardinalityType

LEMMA StrictlySmaller ==
  ASSUME NEW T, IsFiniteSet(T), NEW S, S \subseteq T, NEW x \in T, x \notin S
  PROVE  Cardinality(S) < Cardinality(T)
<1>1. S \subseteq T \ {x}
  OBVIOUS
<1>2. IsFiniteSet(T \ {x}) /\ Cardinality(T \ {x}) = Cardinality(T) - 1
  BY FS_RemoveElement
<1> QED
  BY <1>1, <1>2, Smaller

LEMMA OneMore ==
  ASSUME NEW T, IsFiniteSet(T), NEW S, NEW x, S \subseteq T \cup {x}
  PROVE  IsFiniteSet(S) /\ Cardinality(S) \in Nat /\ Cardinality(S) <= Cardinality(T) + 1
<1>1. Cardinality(T) \in Nat
  BY FS_CardinalityType
<1>2. IsFiniteSet(T \cup {x}) /\ Cardinality(T \cup {x}) <= Cardinality(T) + 1
  BY <1>1, FS_AddElement
<1> QED
  BY <1>1, <1>2, Smaller

-----------------------------------------------------------------------------
(***************************************************************************)
(* The order of the export: positions number the rows.                     *)
(***************************************************************************)
LEMMA RowFacts ==
  ASSUME TypeOK
  PROVE  /\ \A x \in Rows : x \in Nat /\ row[x] \in Row /\ row[x].created \in Nat
         /\ \A x, y \in Rows : ~Before(x, x) /\ (x # y => Before(x, y) \/ Before(y, x))
         /\ \A x, y, z \in Rows : Before(x, y) /\ Before(y, z) => Before(x, z)
<1>1. \A x \in Rows : x \in Nat /\ row[x] \in Row /\ row[x].created \in Nat
  BY ChangelogAssumption DEF TypeOK, Rows, Row, Time
<1> QED
  BY <1>1 DEF Before

LEMMA ShownFacts ==
  ASSUME IsFiniteSet(Rows), NEW blind
  PROVE  Shown(blind) \subseteq Rows /\ IsFiniteSet(Shown(blind))
<1>1. Shown(blind) \subseteq Rows
  BY DEF Shown
<1> QED
  BY <1>1, Smaller

LEMMA PositionFacts ==
  ASSUME TypeOK, IsFiniteSet(Rows), NEW blind, NEW x \in Shown(blind)
  PROVE  Position(x, blind) \in Nat /\ Position(x, blind) < Cardinality(Shown(blind))
<1>1. {y \in Shown(blind) : Before(y, x)} \subseteq Shown(blind) /\ x \notin {y \in Shown(blind) : Before(y, x)}
  BY RowFacts, ShownFacts
<1> QED
  BY <1>1, Smaller, StrictlySmaller, ShownFacts DEF Position

LEMMA PositionGrows ==
  ASSUME TypeOK, IsFiniteSet(Rows), NEW blind, NEW x \in Shown(blind), NEW y \in Shown(blind), Before(x, y)
  PROVE  Position(x, blind) < Position(y, blind)
<1> DEFINE S(z) == {v \in Shown(blind) : Before(v, z)}
<1>1. S(x) \subseteq S(y) /\ x \in S(y) /\ x \notin S(x) /\ IsFiniteSet(S(y))
  BY RowFacts, Smaller, ShownFacts
<1> QED
  BY <1>1, StrictlySmaller DEF Position

LEMMA PositionInjective ==
  ASSUME TypeOK, IsFiniteSet(Rows), NEW blind, NEW x \in Shown(blind), NEW y \in Shown(blind),
         Position(x, blind) = Position(y, blind)
  PROVE  x = y
<1>1. Position(x, blind) \in Nat /\ Position(y, blind) \in Nat
  BY PositionFacts
<1> QED
  BY <1>1, PositionGrows, RowFacts, ShownFacts

\* When there is a row beyond a page, the page is full.
LEMMA PageIsFull ==
  ASSUME TypeOK, IsFiniteSet(Rows), NEW blind, NEW o \in Nat, NEW z \in Shown(blind),
         o + Limit <= Position(z, blind)
  PROVE  Cardinality(Page(o, blind)) = Limit
<1> DEFINE S == Shown(blind)
           n == Cardinality(S)
           P == Page(o, blind)
           f == [x \in S |-> Position(x, blind)]
           g == [x \in P |-> Position(x, blind)]
<1>1. n \in Nat /\ Limit \in Nat \ {0} /\ o + Limit < n
  BY FS_CardinalityType, PositionFacts, ShownFacts, ChangelogAssumption
<1>2. IsFiniteSet(0 .. n - 1) /\ Cardinality(0 .. n - 1) = n
  <2> HIDE DEF n
  <2>1. IsFiniteSet(0 .. n - 1) /\ Cardinality(0 .. n - 1) = IF 0 > n - 1 THEN 0 ELSE n - 1 - 0 + 1
    BY <1>1, FS_Interval
  <2> QED
    BY <1>1, <2>1
<1>3. f \in Injection(S, 0 .. n - 1)
  <2>1. f \in [S -> 0 .. n - 1]
    BY <1>1, PositionFacts
  <2> QED
    BY <2>1, PositionInjective DEF Injection, IsInjective
<1>4. f \in Surjection(S, 0 .. n - 1)
  <2>1. IsFiniteSet(S)
    BY ShownFacts
  <2> HIDE DEF f
  <2> QED
    BY <1>2, <1>3, <2>1, FS_Injection
<1>5. \A i \in 0 .. n - 1 : \E x \in S : Position(x, blind) = i
  BY <1>4 DEF Surjection
<1>6. g \in Bijection(P, o .. o + Limit - 1)
  <2>1. g \in [P -> o .. o + Limit - 1]
    BY <1>1, PositionFacts DEF Page
  <2>2. \A x, y \in P : g[x] = g[y] => x = y
    BY PositionInjective DEF Page
  <2>3. \A i \in o .. o + Limit - 1 : \E x \in P : g[x] = i
    BY <1>1, <1>5 DEF Page
  <2> QED
    BY <2>1, <2>2, <2>3 DEF Bijection, Injection, Surjection, IsInjective
<1>7. P \subseteq S /\ IsFiniteSet(P)
  BY Smaller, ShownFacts DEF Page
<1>8. Cardinality(o .. o + Limit - 1) = Limit
  BY <1>1, FS_Interval
<1>9. ExistsBijection(P, o .. o + Limit - 1)
  BY <1>6 DEF ExistsBijection
<1> QED
  BY <1>7, <1>8, <1>9, FS_Bijection

-----------------------------------------------------------------------------
(***************************************************************************)
(* What steps leave to the export.  Each lemma is about the exports all of *)
(* whose pages were blind, or all of whose pages were not.                 *)
(***************************************************************************)
ExportHolds == ExportAhead /\ ExportComplete

\* What an export that is over has left out.
Left(blind) == {x \in export.base \ export.got : x \in Shown(blind)}

LEMMA BehindFacts ==
  ASSUME TypeOK, ExportAhead, NEW blind \in BOOLEAN
  PROVE  /\ IsFiniteSet(Behind(blind)) /\ Cardinality(Behind(blind)) \in Nat
         /\ Behind(blind) \subseteq Left(blind) /\ IsFiniteSet(Left(blind))
         /\ export.base \subseteq Rows /\ IsFiniteSet(Rows)
         /\ export.offset \in Nat /\ export.cuts \in Nat
         /\ export.on /\ AllPages(blind) => Cardinality(Behind(blind)) <= export.cuts
<1>1. export.offset \in Nat /\ export.cuts \in Nat
  BY DEF TypeOK, Export
<1>2. Behind(blind) \subseteq Left(blind) /\ Left(blind) \subseteq Rows /\ export.base \subseteq Rows /\ IsFiniteSet(Rows)
  BY DEF Behind, Left, Shown, ExportAhead
<1>3. IsFiniteSet(Left(blind))
  BY <1>2, Smaller
<1>4. IsFiniteSet(Behind(blind)) /\ Cardinality(Behind(blind)) \in Nat
  BY <1>2, <1>3, Smaller
<1>5. export.on /\ AllPages(blind) => Cardinality(Behind(blind)) <= export.cuts
  BY DEF ExportAhead
<1> QED
  BY <1>1, <1>2, <1>3, <1>4, <1>5

\* What the invariant says of the exports of one kind, for all kinds.
LEMMA ExportParts ==
  ASSUME export.base \subseteq Rows, IsFiniteSet(Rows),
         \A blind \in BOOLEAN :
           /\ export.on /\ AllPages(blind) => Cardinality(Behind(blind)) <= export.cuts
           /\ ~export.on /\ export.blind = {blind} => Cardinality(Left(blind)) <= export.cuts
  PROVE  ExportHolds
BY DEF ExportHolds, ExportAhead, ExportComplete, Left

\* Rows appear or change; those there keep their created_at.
LEMMA RowsGrow ==
  ASSUME TypeOK, TypeOK', ExportHolds, export' = export, Rows \subseteq Rows', IsFiniteSet(Rows'),
         \A x \in Rows : row'[x].created = row[x].created
  PROVE  ExportHolds'
<1>1. ASSUME NEW blind \in BOOLEAN
      PROVE  /\ (export.on /\ AllPages(blind) => Cardinality(Behind(blind)) <= export.cuts)'
             /\ (~export.on /\ export.blind = {blind} => Cardinality(Left(blind)) <= export.cuts)'
  <2>1. Shown(blind) \subseteq Shown(blind)' /\ IsFiniteSet(Shown(blind)') /\ Shown(blind) \subseteq Rows
    <3>1. Shown(blind) \subseteq Shown(blind)' /\ Shown(blind)' \subseteq Rows' /\ Shown(blind) \subseteq Rows
      BY DEF Shown
    <3> QED
      BY <3>1, Smaller
  <2>2. \A x \in Shown(blind) : Position(x, blind) <= Position(x, blind)' /\ Position(x, blind) \in Nat
                                /\ Position(x, blind)' \in Nat
    <3> SUFFICES ASSUME NEW x \in Shown(blind)
                 PROVE  Position(x, blind) <= Position(x, blind)' /\ Position(x, blind) \in Nat
                        /\ Position(x, blind)' \in Nat
      OBVIOUS
    <3>1. PICK S : S = {y \in Shown(blind) : Before(y, x)}
      OBVIOUS
    <3>2. PICK T : T = {y \in Shown(blind)' : Before(y, x)'}
      OBVIOUS
    <3>3. S \subseteq T
      BY <2>1, <3>1, <3>2 DEF Before
    <3>4. IsFiniteSet(T)
      BY <2>1, <3>2, Smaller
    <3>5. Position(x, blind) = Cardinality(S) /\ Position(x, blind)' = Cardinality(T)
      BY <3>1, <3>2 DEF Position
    <3> QED
      BY <3>3, <3>4, <3>5, Smaller
  <2>3. export.base \cap Shown(blind)' = export.base \cap Shown(blind)
    BY <2>1, BehindFacts DEF ExportHolds, Shown
  <2>4. Behind(blind)' \subseteq Behind(blind) /\ Left(blind)' = Left(blind)
    <3>1. Left(blind)' = Left(blind)
      BY <2>3 DEF Left
    <3>2. ASSUME NEW x \in Behind(blind)' PROVE x \in Behind(blind)
      <4>1. x \in export.base \ export.got /\ x \in Shown(blind) /\ Position(x, blind)' < export.offset
        BY <2>3 DEF Behind
      <4>2. Position(x, blind) < export.offset
        BY <2>2, <4>1, BehindFacts DEF ExportHolds
      <4> QED
        BY <4>1, <4>2 DEF Behind
    <3> QED
      BY <3>1, <3>2
  <2>5. Cardinality(Behind(blind)') <= Cardinality(Behind(blind)) /\ Cardinality(Behind(blind)') \in Nat
    BY <2>4, BehindFacts, Smaller DEF ExportHolds
  <2>6. (export.on /\ AllPages(blind) => Cardinality(Behind(blind)) <= export.cuts)'
    BY <2>5, BehindFacts DEF ExportHolds, AllPages
  <2>7. (~export.on /\ export.blind = {blind} => Cardinality(Left(blind)) <= export.cuts)'
    BY <2>4 DEF ExportHolds, ExportComplete, Left
  <2> QED
    BY <2>6, <2>7
<1>2. (export.base \subseteq Rows)'
  BY DEF ExportHolds, ExportAhead
<1> QED
  BY <1>1, <1>2, ExportParts DEF ExportHolds, ExportAhead, ExportComplete, Left

LEMMA ExportFrame ==
  ASSUME ExportHolds, UNCHANGED <<row, export>>
  PROVE  ExportHolds'
<1>1. Rows' = Rows /\ \A blind \in BOOLEAN : Shown(blind)' = Shown(blind)
  BY DEF Rows, Shown
<1>2. \A blind \in BOOLEAN : Behind(blind)' = Behind(blind)
  BY <1>1 DEF Behind, Position, Before
<1> QED
  BY <1>1, <1>2 DEF ExportHolds, ExportAhead, ExportComplete, AllPages

LEMMA DeleteExport ==
  ASSUME TypeOK, TypeOK', ExportHolds, NEW w \in Writer, NEW x \in Entity, NEW s, Delete(w, x, s)
  PROVE  ExportHolds'
<1>1. /\ row' = [row EXCEPT ![x] = None] /\ x \in Rows
      /\ export' = [export EXCEPT !.base = @ \ {x}, !.cuts = IF PagesPassed(x) THEN @ + 1 ELSE @]
  BY DEF Delete
<1>2. Rows' = Rows \ {x} /\ \A y \in Rows' : row'[y] = row[y]
  BY <1>1 DEF Rows, TypeOK
<1>3. /\ export'.on = export.on /\ export'.offset = export.offset /\ export'.got = export.got
      /\ export'.base = export.base \ {x} /\ export'.blind = export.blind
      /\ export'.cuts = IF PagesPassed(x) THEN export.cuts + 1 ELSE export.cuts
  BY <1>1 DEF TypeOK, Export
<1>4. IsFiniteSet(Rows') /\ export'.base \subseteq Rows'
  BY <1>2, <1>3, BehindFacts, Smaller DEF ExportHolds
<1>5. export.offset \in Nat /\ export.cuts \in Nat /\ export.cuts <= export'.cuts
  BY <1>3 DEF TypeOK, Export
<1>6. ASSUME NEW blind \in BOOLEAN, export.on, AllPages(blind)
      PROVE  Cardinality(Behind(blind)') <= export'.cuts
  <2>1. Shown(blind)' = Shown(blind) \ {x} /\ IsFiniteSet(Shown(blind)) /\ IsFiniteSet(Rows)
        /\ Shown(blind)' \subseteq Rows' /\ Shown(blind) \subseteq Rows
    BY <1>2, BehindFacts, ShownFacts DEF Shown, ExportHolds
  <2>2. ASSUME NEW y \in Shown(blind)'
        PROVE  /\ Position(y, blind)' = IF x \in Shown(blind) /\ Before(x, y)
                                          THEN Position(y, blind) - 1 ELSE Position(y, blind)
               /\ Position(y, blind)' \in Nat /\ Position(y, blind) \in Nat
    <3>1. PICK S : S = {z \in Shown(blind) : Before(z, y)}
      OBVIOUS
    <3>2. PICK T : T = {z \in Shown(blind)' : Before(z, y)'}
      OBVIOUS
    <3>3. T = S \ {x} /\ (x \in S <=> x \in Shown(blind) /\ Before(x, y))
      BY <1>2, <2>1, <2>2, <3>1, <3>2 DEF Before
    <3>4. IsFiniteSet(S) /\ Cardinality(S) \in Nat
      BY <2>1, <3>1, Smaller
    <3>5. Cardinality(T) = IF x \in S THEN Cardinality(S) - 1 ELSE Cardinality(S)
      BY <3>3, <3>4, FS_RemoveElement
    <3>6. Position(y, blind) = Cardinality(S) /\ Position(y, blind)' = Cardinality(T)
      BY <3>1, <3>2 DEF Position
    <3>7. Cardinality(T) \in Nat
      BY <3>3, <3>4, Smaller
    <3> QED
      BY <3>3, <3>4, <3>5, <3>6, <3>7
  <2>3. /\ Cardinality(Behind(blind)) <= export.cuts /\ IsFiniteSet(Behind(blind))
        /\ Cardinality(Behind(blind)) \in Nat
    BY <1>6, BehindFacts DEF ExportHolds
  <2>4. \A y \in Behind(blind)' : /\ y \in Shown(blind)' /\ y \in Shown(blind) /\ y \in export.base \ export.got
                                  /\ Position(y, blind)' < export.offset
    BY <1>3, <2>1 DEF Behind
  <2>5. CASE x \in Shown(blind) /\ Position(x, blind) < export.offset
    <3>1. \A y \in Behind(blind)' \ Behind(blind) : Position(y, blind) = export.offset /\ y \in Shown(blind)
      <4> SUFFICES ASSUME NEW y \in Behind(blind)', y \notin Behind(blind)
                   PROVE  Position(y, blind) = export.offset /\ y \in Shown(blind)
        OBVIOUS
      <4>1. y \in Shown(blind)' /\ y \in Shown(blind) /\ ~(Position(y, blind) < export.offset)
            /\ Position(y, blind)' < export.offset
        BY <2>4 DEF Behind
      <4> QED
        BY <1>5, <2>2, <4>1
    <3>2. \A y, z \in Behind(blind)' \ Behind(blind) : y = z
      BY <2>1, <3>1, PositionInjective
    <3>3. PICK z : Behind(blind)' \subseteq Behind(blind) \cup {z}
      BY <3>2
    <3>4. /\ Cardinality(Behind(blind)') \in Nat
          /\ Cardinality(Behind(blind)') <= Cardinality(Behind(blind)) + 1
      BY <2>3, <3>3, OneMore
    <3>5. export'.cuts = export.cuts + 1
      BY <1>3, <1>6, <2>5 DEF PagesPassed
    <3> QED
      BY <1>5, <2>3, <3>4, <3>5
  <2>6. CASE ~(x \in Shown(blind) /\ Position(x, blind) < export.offset)
    <3>1. Behind(blind)' \subseteq Behind(blind)
      <4> SUFFICES ASSUME NEW y \in Behind(blind)' PROVE Position(y, blind) < export.offset
        BY <2>4 DEF Behind
      <4>1. y \in Shown(blind)' /\ y \in Shown(blind) /\ Position(y, blind)' < export.offset
        BY <2>4
      <4>2. x \in Shown(blind) /\ Before(x, y) =>
              Position(x, blind) \in Nat /\ Position(x, blind) < Position(y, blind)
        BY <2>1, <4>1, PositionFacts, PositionGrows
      <4> QED
        BY <1>5, <2>2, <2>6, <4>1, <4>2
    <3>2. Cardinality(Behind(blind)') \in Nat /\ Cardinality(Behind(blind)') <= Cardinality(Behind(blind))
      BY <2>3, <3>1, Smaller
    <3> QED
      BY <1>3, <1>5, <2>3, <3>2
  <2> QED
    BY <2>5, <2>6
<1>7. ASSUME NEW blind \in BOOLEAN, ~export.on, export.blind = {blind}
      PROVE  Cardinality(Left(blind)') <= export'.cuts
  <2>1. Cardinality(Left(blind)) <= export.cuts /\ IsFiniteSet(Left(blind))
    BY <1>7, BehindFacts DEF ExportHolds, ExportComplete, Left
  <2>2. Left(blind)' \subseteq Left(blind)
    BY <1>2, <1>3 DEF Left, Shown
  <2>3. /\ Cardinality(Left(blind)') \in Nat /\ Cardinality(Left(blind)) \in Nat
        /\ Cardinality(Left(blind)') <= Cardinality(Left(blind))
    BY <2>1, <2>2, Smaller
  <2>4. export'.cuts \in Nat
    BY <1>3, <1>5
  <2> QED
    BY <1>5, <2>1, <2>3, <2>4
<1>8. \A blind \in BOOLEAN :
        /\ (export.on /\ AllPages(blind) => Cardinality(Behind(blind)) <= export.cuts)'
        /\ (~export.on /\ export.blind = {blind} => Cardinality(Left(blind)) <= export.cuts)'
  BY <1>3, <1>6, <1>7 DEF AllPages
<1> QED
  BY <1>4, <1>8 DEF ExportHolds, ExportAhead, ExportComplete, Left

LEMMA StartExportHolds ==
  ASSUME TypeOK, ExportHolds, StartExport
  PROVE  ExportHolds'
<1>1. /\ export'.on /\ export'.offset = 0 /\ export'.base = Rows /\ export'.got = {} /\ export'.cuts = 0
      /\ row' = row
  BY DEF StartExport, NotExporting
<1>2. Rows' = Rows /\ IsFiniteSet(Rows)
  BY <1>1 DEF Rows, ExportHolds, ExportAhead
<1>3. ASSUME NEW blind \in BOOLEAN PROVE Cardinality(Behind(blind)') = 0
  <2>1. Shown(blind)' = Shown(blind) /\ \A x : Position(x, blind)' = Position(x, blind)
    BY <1>1, <1>2 DEF Shown, Position, Before
  <2>2. \A x \in Shown(blind) : Position(x, blind) \in Nat
    BY <1>2, PositionFacts
  <2>3. Behind(blind)' = {}
    BY <1>1, <2>1, <2>2 DEF Behind
  <2> QED
    BY <2>3, FS_EmptySet
<1> QED
  BY <1>1, <1>2, <1>3 DEF ExportHolds, ExportAhead, ExportComplete

LEMMA ExportPageHolds ==
  ASSUME TypeOK, ExportHolds, NEW b \in BOOLEAN, ExportPage(b)
  PROVE  ExportHolds'
<1>1. PICK P : P = Page(export.offset, b)
  OBVIOUS
<1>2. /\ export'.got = export.got \cup P /\ export'.on = (Cardinality(P) = Limit)
      /\ export'.blind = export.blind \cup {b}
      /\ export'.offset = export.offset + Limit /\ export'.base = export.base
      /\ export'.cuts = export.cuts /\ export.on /\ row' = row
  BY <1>1 DEF ExportPage, TypeOK, Export
<1>3. /\ Rows' = Rows /\ Shown(b)' = Shown(b) /\ IsFiniteSet(Rows) /\ export.base \subseteq Rows
      /\ \A x : Position(x, b)' = Position(x, b)
  BY <1>2 DEF Rows, Shown, Position, Before, ExportHolds, ExportAhead
<1>4. \A x \in Shown(b) : Position(x, b) \in Nat
  BY <1>3, PositionFacts
<1>5. Limit \in Nat /\ export.offset \in Nat /\ export.cuts \in Nat
  BY ChangelogAssumption, BehindFacts DEF ExportHolds
<1>6. ASSUME AllPages(b), NEW S, S \subseteq Behind(b)
      PROVE  Cardinality(S) <= export.cuts
  <2>1. /\ Cardinality(S) <= Cardinality(Behind(b)) /\ Cardinality(S) \in Nat
        /\ Cardinality(Behind(b)) \in Nat /\ Cardinality(Behind(b)) <= export.cuts
    BY <1>2, <1>6, BehindFacts, Smaller DEF ExportHolds
  <2> QED
    BY <1>5, <2>1
<1>7. Behind(b)' \subseteq Behind(b)
  <2> SUFFICES ASSUME NEW x \in Behind(b)' PROVE x \in Behind(b)
    OBVIOUS
  <2>1. /\ x \in export.base \ export.got /\ x \notin P /\ x \in Shown(b)
        /\ Position(x, b) < export.offset + Limit
    BY <1>2, <1>3 DEF Behind
  <2>2. Position(x, b) < export.offset
    BY <1>1, <1>4, <1>5, <2>1 DEF Page
  <2> QED
    BY <2>1, <2>2 DEF Behind
\* If all pages are of one kind, this page is of that kind too.
<1>8. ASSUME NEW blind \in BOOLEAN, export'.blind \subseteq {blind}
      PROVE  blind = b /\ AllPages(b)
  BY <1>2, <1>8 DEF AllPages
<1>9. ExportAhead'
  <2>1. ASSUME NEW blind \in BOOLEAN, AllPages(blind)' PROVE Cardinality(Behind(blind)') <= export'.cuts
    <3>1. blind = b /\ AllPages(b)
      BY <1>8, <2>1 DEF AllPages
    <3>2. Cardinality(Behind(b)') <= export.cuts
      BY <1>6, <1>7, <3>1
    <3> QED
      BY <1>2, <3>1, <3>2 DEF Behind, Shown, Position
  <2> QED
    BY <1>2, <1>3, <2>1 DEF ExportAhead
<1>10. ExportComplete'
  <2> SUFFICES ASSUME Cardinality(P) # Limit, NEW blind \in BOOLEAN, export'.blind = {blind}
               PROVE  Cardinality(Left(blind)') <= export'.cuts
    BY <1>2 DEF ExportComplete, Left
  <2>1. blind = b /\ AllPages(b)
    BY <1>8
  <2>2. \A x \in Shown(b) : ~(export.offset + Limit <= Position(x, b))
    BY <1>1, <1>3, <1>5, PageIsFull
  <2>3. Left(b)' \subseteq Behind(b)
    <3> SUFFICES ASSUME NEW x \in Left(b)' PROVE x \in Behind(b)
      OBVIOUS
    <3>1. x \in export.base \ export.got /\ x \notin P /\ x \in Shown(b)
      BY <1>2, <1>3 DEF Left
    <3>2. Position(x, b) < export.offset
      BY <1>1, <1>4, <1>5, <2>2, <3>1 DEF Page
    <3> QED
      BY <3>1, <3>2 DEF Behind
  <2>4. Cardinality(Left(b)') <= export.cuts
    BY <1>6, <2>1, <2>3
  <2> QED
    BY <1>2, <2>1, <2>4 DEF Left, Shown
<1> QED
  BY <1>9, <1>10 DEF ExportHolds

-----------------------------------------------------------------------------
(***************************************************************************)
(* What steps leave to the reader of the changelog.                        *)
(***************************************************************************)
ReaderHolds == BegunLater /\ LogFollows /\ CursorFollows

LEMMA ReaderFrame ==
  ASSUME ReaderHolds, UNCHANGED <<log, cursor, got, missing>>, \A w \in Writer : tx'[w] # 0,
         \A x \in Entity : Stored(x)' = Stored(x)
  PROVE  ReaderHolds'
BY DEF ReaderHolds, BegunLater, LogFollows, CursorFollows, Latest, NewestValue, Newest, Visible, Passed, Rank, After

LEMMA EntryFacts ==
  ASSUME TypeOK
  PROVE  /\ \A e \in log : e.x \in Entity /\ e.ts \in Nat
         /\ cursor.since \in Nat /\ cursor.offset \in Nat /\ Limit \in Nat \ {0}
BY ChangelogAssumption DEF TypeOK, Entry, Time

LEMMA CommitReader ==
  ASSUME TypeOK, ReaderHolds, NEW w \in Writer, NEW x \in Entity, NEW val \in Value \cup {None},
         NEW s \in Scope, tx[w] # None, Commit(w, x, val, s), Stored(x)' = val,
         \A y \in Entity \ {x} : Stored(y)' = Stored(y)
  PROVE  /\ ReaderHolds'
         /\ tx' \in [Writer -> Time \cup {None}] /\ log' \in SUBSET Entry /\ missing' \in SUBSET Entity
<1>1. PICK e : e = [x |-> x, val |-> val, ts |-> tx[w], sys |-> s]
  OBVIOUS
<1>2. /\ e \notin log /\ log' = log \cup {e}
      /\ missing' = missing \cup Tied(e) \cup IF Unknown(e) THEN {x} ELSE {}
      /\ tx' = [tx EXCEPT ![w] = None] /\ cursor' = cursor /\ got' = got
  BY <1>1 DEF Commit
<1>3. /\ tx[w] \in Time /\ tx[w] # 0 /\ e \in Entry /\ e.x = x /\ e.val = val /\ e.ts = tx[w]
      /\ e.ts \in Nat /\ e.ts > 0
  BY <1>1 DEF TypeOK, Entry, ReaderHolds, BegunLater, Time
<1>4. /\ tx' \in [Writer -> Time \cup {None}] /\ log' \in SUBSET Entry /\ missing' \in SUBSET Entity
      /\ \A v \in Writer : tx'[v] # 0
  <2>1. None # 0
    BY ChangelogAssumption
  <2>2. Tied(e) \subseteq Entity
    BY EntryFacts DEF Tied
  <2> QED
    BY <1>2, <1>3, <2>1, <2>2 DEF TypeOK, ReaderHolds, BegunLater
<1>5. \A f \in log : f.x \notin missing' => f.x \notin missing /\ f.ts # e.ts
  BY <1>2 DEF Tied
<1>6. x \notin missing' =>
        /\ x \notin missing /\ Visible(e)
        /\ \A f \in log : f.ts # e.ts
        /\ \A f \in log : f.x = x => f.ts < e.ts
        /\ \A f \in got : f.ts < e.ts
  <2> SUFFICES ASSUME x \notin missing'
               PROVE  /\ x \notin missing /\ Visible(e)
                      /\ \A f \in log : f.ts # e.ts
                      /\ \A f \in log : f.x = x => f.ts < e.ts
                      /\ \A f \in got : f.ts < e.ts
    OBVIOUS
  <2>1. ~Unknown(e) /\ x \notin missing
    BY <1>2
  <2>2. \A f \in log : f.ts # e.ts
    BY <2>1 DEF Unknown, Tied
  <2>3. got \subseteq log
    BY DEF ReaderHolds, CursorFollows
  <2> QED
    BY <1>3, <2>1, <2>2, <2>3, EntryFacts DEF Unknown
<1>7. BegunLater'
  BY <1>2, <1>3, <1>4 DEF ReaderHolds, BegunLater
<1>8. LogFollows'
  <2>1. IsFiniteSet(log')
    BY <1>2, FS_AddElement DEF ReaderHolds, LogFollows
  <2>2. ASSUME NEW f \in log', f.x \notin missing'
        PROVE  Visible(f) /\ \A h \in log' \ {f} : h.ts # f.ts
    <3>1. CASE f = e
      BY <1>2, <1>3, <1>6, <2>2, <3>1
    <3>2. CASE f # e
      BY <1>2, <1>5, <2>2, <3>2 DEF ReaderHolds, LogFollows
    <3> QED
      BY <3>1, <3>2
  <2>3. ASSUME NEW y \in Entity, y \notin missing'
        PROVE  Latest(log', y) = Stored(y)'
    <3>1. CASE y # x
      <4>1. {f \in log' : f.x = y} = {f \in log : f.x = y}
        BY <1>2, <1>3, <3>1
      <4>2. Latest(log', y) = Latest(log, y)
        BY <4>1 DEF Latest
      <4> QED
        BY <1>2, <2>3, <3>1, <4>2 DEF ReaderHolds, LogFollows
    <3>2. CASE y = x
      <4>1. PICK E : E = {f \in log' : f.x = y}
        OBVIOUS
      <4>2. e \in E /\ \A f \in E : f = e \/ (f.ts < e.ts /\ f.ts \in Nat)
        BY <1>2, <1>3, <1>6, <2>3, <3>2, <4>1, EntryFacts
      <4>3. Newest(E) = {e}
        BY <1>3, <4>2 DEF Newest
      <4>4. Latest(log', y) = e.val
        BY <4>1, <4>2, <4>3 DEF Latest, NewestValue
      <4> QED
        BY <1>3, <3>2, <4>4
    <3> QED
      BY <3>1, <3>2
  <2>4. \A f : Visible(f)' = Visible(f)
    BY DEF Visible
  <2> QED
    BY <2>1, <2>2, <2>3, <2>4 DEF LogFollows, Latest, NewestValue, Newest
<1>9. \A n : After(n) \subseteq After(n)' /\ IsFiniteSet(After(n)) /\ IsFiniteSet(After(n)')
  <2>1. \A n : After(n) \subseteq log /\ After(n)' \subseteq log' /\ After(n) \subseteq After(n)'
    BY <1>2 DEF After, Visible
  <2>2. IsFiniteSet(log) /\ IsFiniteSet(log')
    BY <1>8 DEF ReaderHolds, LogFollows
  <2> QED
    BY <2>1, <2>2, Smaller
<1>10. CursorFollows'
  <2>1. got' \subseteq log' /\ (cursor'.since = 0 \/ \E f \in got' : f.ts = cursor'.since)
    BY <1>2 DEF ReaderHolds, CursorFollows
  <2>2. cursor.offset \in Nat /\ cursor.offset <= Cardinality(Passed)
    BY EntryFacts DEF ReaderHolds, CursorFollows
  <2>3. cursor'.offset <= Cardinality(Passed')
    <3>1. Passed \subseteq Passed' /\ IsFiniteSet(Passed')
      <4>1. Passed \subseteq Passed' /\ Passed' \subseteq After(cursor.since)'
        BY <1>2, <1>9 DEF Passed
      <4> QED
        BY <1>9, <4>1, Smaller
    <3>2. /\ Cardinality(Passed) <= Cardinality(Passed')
          /\ Cardinality(Passed) \in Nat /\ Cardinality(Passed') \in Nat
      BY <3>1, Smaller
    <3> QED
      BY <1>2, <2>2, <3>2
  <2>4. ASSUME NEW f \in log', f \notin got, f.x \notin missing'
        PROVE  f.ts > cursor.since /\ Rank(f)' >= cursor.offset
    <3>1. PICK R : R = {h \in After(cursor.since) : h.ts < f.ts}
      OBVIOUS
    <3>2. PICK T : T = {h \in After(cursor.since)' : h.ts < f.ts}
      OBVIOUS
    <3>3. R \subseteq T /\ IsFiniteSet(T) /\ Rank(f) = Cardinality(R) /\ Rank(f)' = Cardinality(T)
      BY <1>2, <1>9, <3>1, <3>2, Smaller DEF Rank
    <3>4. /\ Cardinality(R) \in Nat /\ Cardinality(T) \in Nat /\ Cardinality(R) <= Cardinality(T)
      BY <3>3, Smaller
    <3>5. CASE f # e
      <4>1. f \in log /\ f.x \notin missing
        BY <1>2, <1>5, <2>4, <3>5
      <4>2. f.ts > cursor.since /\ Rank(f) >= cursor.offset
        BY <2>4, <4>1 DEF ReaderHolds, CursorFollows
      <4> QED
        BY <2>2, <3>3, <3>4, <4>2
    <3>6. CASE f = e
      <4>1. \A h \in got : h.ts < e.ts
        BY <1>3, <1>6, <2>4, <3>6
      <4>2. got \subseteq log
        BY DEF ReaderHolds, CursorFollows
      <4>3. f.ts > cursor.since
        BY <1>3, <3>6, <4>1, EntryFacts DEF ReaderHolds, CursorFollows
      <4>4. Passed \subseteq R
        <5> SUFFICES ASSUME NEW h \in After(cursor.since), NEW g \in got, h.ts <= g.ts
                     PROVE  h.ts < e.ts
          BY <3>1, <3>6 DEF Passed
        <5>1. h \in log /\ g \in log
          BY <4>2 DEF After
        <5> QED
          BY <1>3, <4>1, <5>1, EntryFacts
      <4>5. IsFiniteSet(R)
        BY <3>3, Smaller
      <4>6. Cardinality(Passed) <= Cardinality(R) /\ Cardinality(Passed) \in Nat
        BY <4>4, <4>5, Smaller
      <4> QED
        BY <2>2, <3>3, <3>4, <4>3, <4>6
    <3> QED
      BY <3>5, <3>6
  <2> QED
    BY <1>2, <2>1, <2>3, <2>4 DEF CursorFollows
<1> QED
  BY <1>4, <1>7, <1>8, <1>10 DEF ReaderHolds

\* A page: the entries that the reader can know of and has not got are not on
\* the pages that it has passed (<1>9), so they are on this one or after it.
LEMMA ListChangelogReader ==
  ASSUME TypeOK, ReaderHolds, ListChangelog
  PROVE  /\ ReaderHolds'
         /\ got' \in SUBSET Entry /\ cursor' \in [since : Time, offset : Nat]
<1>1. PICK S : S = After(cursor.since)
  OBVIOUS
<1>2. PICK P \in Pages(S, cursor.offset) :
        /\ got' = got \cup P
        /\ \/ Cardinality(P) = Limit /\ cursor' = [cursor EXCEPT !.offset = @ + Limit]
           \/ /\ Cardinality(P) # Limit
              /\ \E e \in Newest(got') : cursor' = [since |-> e.ts, offset |-> 0]
        /\ UNCHANGED <<now, row, tx, log, export, missing>>
  BY <1>1 DEF ListChangelog
<1>3. P \subseteq S /\ S \subseteq log /\ IsFiniteSet(log) /\ IsFiniteSet(S) /\ IsFiniteSet(P)
  BY <1>1, <1>2, Smaller DEF Pages, After, ReaderHolds, LogFollows
<1>4. /\ cursor.offset \in Nat /\ Limit \in Nat \ {0}
      /\ \A e \in log : e.ts \in Nat
  BY EntryFacts
<1>5. got' \subseteq log
  BY <1>2, <1>3 DEF ReaderHolds, CursorFollows
<1>6. got' \in SUBSET Entry /\ \A e \in got' : e.ts \in Time
  BY <1>5 DEF TypeOK, Entry
<1>7. PICK Q \in SUBSET (S \ P) :
        /\ Cardinality(Q) = cursor.offset \/ (P = {} /\ Q = S /\ cursor.offset >= Cardinality(S))
        /\ Cardinality(P) = Limit \/ P = S \ Q
        /\ \A q \in Q, p \in P : q.ts <= p.ts
        /\ \A p \in Q \cup P, r \in S \ (Q \cup P) : p.ts <= r.ts
  <2>1. CASE P = {} /\ cursor.offset >= Cardinality(S)
    BY <2>1
  <2>2. CASE ~(P = {} /\ cursor.offset >= Cardinality(S))
    BY <1>2, <2>2 DEF Pages
  <2> QED
    BY <2>1, <2>2
<1>8. IsFiniteSet(Q) /\ Cardinality(Q) \in Nat /\ Cardinality(Q) <= cursor.offset
  BY <1>3, <1>4, <1>7, Smaller
<1>9. ASSUME NEW e \in log, e \notin got, e.x \notin missing
      PROVE  e \in S \ Q /\ \A f \in log \ {e} : f.ts # e.ts
  <2>1. /\ e.ts > cursor.since /\ Rank(e) >= cursor.offset
        /\ Visible(e) /\ \A f \in log \ {e} : f.ts # e.ts
    BY <1>9 DEF ReaderHolds, CursorFollows, LogFollows
  <2>2. e \in S
    BY <1>1, <2>1 DEF After
  <2>3. ASSUME e \in Q PROVE FALSE
    <3>1. PICK R : R = {f \in S : f.ts < e.ts}
      OBVIOUS
    <3>2. R \subseteq Q
      <4> SUFFICES ASSUME NEW f \in S, f.ts < e.ts, f \notin Q PROVE FALSE
        BY <3>1
      <4>1. f.ts \in Nat /\ e.ts \in Nat
        BY <1>3, <1>4
      <4> QED
        BY <1>7, <2>3, <4>1
    <3>3. e \notin R /\ IsFiniteSet(R)
      BY <1>3, <1>4, <3>1, Smaller
    <3>4. Cardinality(R) < Cardinality(Q) /\ Cardinality(R) \in Nat
      BY <1>8, <2>3, <3>2, <3>3, StrictlySmaller, Smaller
    <3>5. Rank(e) = Cardinality(R)
      BY <1>1, <3>1 DEF Rank
    <3> QED
      BY <1>4, <1>8, <2>1, <3>4, <3>5
  <2> QED
    BY <2>1, <2>2, <2>3
<1>10. CASE Cardinality(P) = Limit /\ cursor' = [cursor EXCEPT !.offset = @ + Limit]
  <2>1. /\ cursor'.since = cursor.since /\ cursor'.offset = cursor.offset + Limit
        /\ cursor' \in [since : Time, offset : Nat]
    BY <1>4, <1>10 DEF TypeOK
  <2>2. P # {}
    BY <1>4, <1>10, FS_EmptySet
  <2>3. Cardinality(Q) = cursor.offset
    BY <1>7, <2>2
  <2>4. Cardinality(Q \cup P) = cursor.offset + Limit /\ IsFiniteSet(Q \cup P)
    <3>1. Cardinality(Q \cap P) = 0
      <4>1. Q \cap P = {}
        OBVIOUS
      <4> QED
        BY <4>1, FS_EmptySet
    <3>2. /\ IsFiniteSet(Q \cup P)
          /\ Cardinality(Q \cup P) = Cardinality(Q) + Cardinality(P) - Cardinality(Q \cap P)
      BY <1>3, <1>8, FS_Union
    <3> QED
      BY <1>4, <1>10, <2>3, <3>1, <3>2
  <2>5. After(cursor.since)' = S
    BY <1>1, <1>2, <2>1 DEF After, Visible
  <2>6. cursor'.offset <= Cardinality(Passed')
    <3>1. Q \cup P \subseteq Passed'
      <4>1. \A e \in Q \cup P : e \in S /\ \E f \in got' : e.ts <= f.ts
        BY <1>2, <1>3, <1>4, <1>7, <2>2
      <4> QED
        BY <2>1, <2>5, <4>1 DEF Passed
    <3>2. Passed' \subseteq S
      BY <2>1, <2>5 DEF Passed
    <3>3. IsFiniteSet(Passed')
      BY <1>3, <3>2, Smaller
    <3>4. Cardinality(Q \cup P) <= Cardinality(Passed')
      BY <3>1, <3>3, Smaller
    <3> QED
      BY <2>1, <2>4, <3>4
  <2>7. ASSUME NEW e \in log, e \notin got', e.x \notin missing
        PROVE  e.ts > cursor'.since /\ Rank(e)' >= cursor'.offset
    <3>1. e \in S \ (Q \cup P) /\ \A f \in log \ {e} : f.ts # e.ts
      BY <1>2, <1>9, <2>7
    <3>2. PICK R : R = {f \in S : f.ts < e.ts}
      OBVIOUS
    <3>3. Q \cup P \subseteq R
      <4> SUFFICES ASSUME NEW f \in Q \cup P PROVE f \in S /\ f.ts < e.ts
        BY <3>2
      <4>1. f \in S /\ f # e /\ f.ts <= e.ts
        BY <1>3, <1>7, <3>1
      <4>2. f.ts \in Nat /\ e.ts \in Nat /\ f.ts # e.ts
        BY <1>3, <1>4, <3>1, <4>1
      <4> QED
        BY <4>1, <4>2
    <3>4. IsFiniteSet(R)
      BY <1>3, <3>2, Smaller
    <3>5. Cardinality(Q \cup P) <= Cardinality(R)
      BY <3>3, <3>4, Smaller
    <3>6. Rank(e)' = Cardinality(R)
      BY <2>1, <2>5, <3>2 DEF Rank
    <3>7. e.ts > cursor.since
      BY <1>2, <2>7 DEF ReaderHolds, CursorFollows
    <3> QED
      BY <2>1, <2>4, <3>5, <3>6, <3>7
  <2>8. CursorFollows'
    BY <1>2, <1>5, <2>1, <2>6, <2>7 DEF ReaderHolds, CursorFollows
  <2> QED
    BY <1>2, <1>6, <2>1, <2>8 DEF ReaderHolds, BegunLater, LogFollows, Latest, NewestValue, Newest,
                                  Stored, Visible
<1>11. CASE /\ Cardinality(P) # Limit
            /\ \E e \in Newest(got') : cursor' = [since |-> e.ts, offset |-> 0]
  <2>1. PICK e \in got' : cursor' = [since |-> e.ts, offset |-> 0]
    BY <1>11 DEF Newest
  <2>2. cursor' \in [since : Time, offset : Nat] /\ cursor'.since = e.ts /\ cursor'.offset = 0
    BY <1>6, <2>1
  <2>3. \A f \in log \ got' : f.x \in missing
    BY <1>2, <1>7, <1>9, <1>11
  <2>4. IsFiniteSet(Passed')
    <3>1. Passed' \subseteq log
      BY <1>2 DEF Passed, After
    <3> QED
      BY <1>3, <3>1, Smaller
  <2>5. cursor'.offset <= Cardinality(Passed')
    BY <2>2, <2>4, FS_CardinalityType
  <2>6. CursorFollows'
    BY <1>2, <1>5, <2>1, <2>2, <2>3, <2>5 DEF CursorFollows
  <2> QED
    BY <1>2, <1>6, <2>2, <2>6 DEF ReaderHolds, BegunLater, LogFollows, Latest, NewestValue, Newest,
                                  Stored, Visible
<1> QED
  BY <1>2, <1>10, <1>11

-----------------------------------------------------------------------------
(***************************************************************************)
(* The invariant.                                                          *)
(***************************************************************************)
LEMMA IInvParts == IInv <=> TypeOK /\ ExportHolds /\ ReaderHolds
BY DEF IInv, ExportHolds, ReaderHolds

LEMMA NoneFacts ==
  /\ None \notin Row /\ None \notin Value /\ 0 \in Time /\ None # 0
BY ChangelogAssumption DEF Row, Time

LEMMA InitInv == Init => IInv
<1> SUFFICES ASSUME Init PROVE IInv
  OBVIOUS
<1>1. TypeOK
  BY NoneFacts DEF Init, TypeOK, Export, NotExporting
<1>2. Rows = {} /\ IsFiniteSet({}) /\ Cardinality({}) = 0
  BY FS_EmptySet DEF Init, Rows
<1>3. ExportHolds
  BY <1>2 DEF Init, NotExporting, ExportHolds, ExportAhead, ExportComplete
<1>4. LogFollows
  <2>1. \A x \in Entity : Latest(log, x) = None /\ Stored(x) = None
    <3> SUFFICES ASSUME NEW x \in Entity PROVE Latest(log, x) = None /\ Stored(x) = None
      OBVIOUS
    <3>1. {e \in log : e.x = x} = {}
      BY DEF Init
    <3> QED
      BY <3>1 DEF Init, Latest, NewestValue, Stored
  <2> QED
    BY <1>2, <2>1 DEF Init, LogFollows
<1>5. Passed = {}
  BY DEF Init, Passed
<1>6. ReaderHolds
  BY <1>2, <1>4, <1>5, NoneFacts DEF Init, ReaderHolds, BegunLater, CursorFollows
<1> QED
  BY <1>1, <1>3, <1>6, IInvParts

\* A step that leaves rows, log and readers alone.
LEMMA TransactionInv ==
  ASSUME IInv, UNCHANGED <<row, log, cursor, got, export, missing>>, now' \in Time,
         tx' \in [Writer -> Time \cup {None}], \A w \in Writer : tx'[w] # 0
  PROVE  IInv'
<1>1. TypeOK'
  BY DEF IInv, TypeOK
<1>2. ExportHolds'
  BY IInvParts, ExportFrame
<1>3. ReaderHolds'
  BY IInvParts, ReaderFrame DEF Stored
<1> QED
  BY <1>1, <1>2, <1>3 DEF IInv, ExportHolds, ReaderHolds

\* A step of the export.
LEMMA ExportInv ==
  ASSUME IInv, UNCHANGED <<now, row, tx, log, cursor, got, missing>>, export' \in Export, ExportHolds'
  PROVE  IInv'
<1>1. TypeOK'
  BY DEF IInv, TypeOK
<1>2. ReaderHolds'
  BY IInvParts, ReaderFrame DEF Stored, ReaderHolds, BegunLater
<1> QED
  BY <1>1, <1>2 DEF IInv, ExportHolds, ReaderHolds

\* A commit that writes row x.
LEMMA CommitInv ==
  ASSUME IInv, NEW w \in Writer, NEW x \in Entity, NEW val \in Value \cup {None}, NEW s \in Scope,
         tx[w] # None, Commit(w, x, val, s), Stored(x)' = val, row' \in [Entity -> Row \cup {None}],
         \A y \in Entity \ {x} : row'[y] = row[y], export' \in Export, TypeOK' => ExportHolds'
  PROVE  IInv'
<1>1. \A y \in Entity \ {x} : Stored(y)' = Stored(y)
  BY DEF Stored
<1>2. /\ ReaderHolds'
      /\ tx' \in [Writer -> Time \cup {None}] /\ log' \in SUBSET Entry /\ missing' \in SUBSET Entity
  BY <1>1, IInvParts, CommitReader
<1>3. TypeOK'
  BY <1>2 DEF IInv, TypeOK, Commit
<1> QED
  BY <1>2, <1>3 DEF IInv, ExportHolds, ReaderHolds

LEMMA CreateInv ==
  ASSUME IInv, NEW w \in Writer, NEW x \in Entity, NEW val \in Value, NEW s \in Scope,
         Create(w, x, val, s)
  PROVE  IInv'
<1> DEFINE r == [val |-> val, created |-> tx[w]]
<1>1. tx[w] \in Time /\ tx[w] # None
  BY DEF Create, IInv, TypeOK
<1>2. r \in Row /\ r.val = val
  BY <1>1 DEF Row
<1>3. row' = [row EXCEPT ![x] = r] /\ x \notin Rows /\ export' = export /\ Commit(w, x, val, s)
  BY DEF Create
<1> HIDE DEF r
<1>4. row' \in [Entity -> Row \cup {None}] /\ row'[x] = r /\ \A y \in Entity \ {x} : row'[y] = row[y]
  BY <1>2, <1>3 DEF IInv, TypeOK
<1>5. Stored(x)' = val
  BY <1>2, <1>4, NoneFacts DEF Stored
<1>6. Rows' = Rows \cup {x} /\ \A y \in Rows : row'[y] = row[y]
  BY <1>2, <1>3, <1>4, NoneFacts DEF Rows
<1>7. IsFiniteSet(Rows')
  BY <1>6, FS_AddElement DEF IInv, ExportAhead
<1>8. TypeOK' => ExportHolds'
  BY <1>3, <1>6, <1>7, IInvParts, RowsGrow
<1> QED
  BY <1>1, <1>3, <1>4, <1>5, <1>8, CommitInv DEF IInv, TypeOK

LEMMA UpdateInv ==
  ASSUME IInv, NEW w \in Writer, NEW x \in Entity, NEW val \in Value, NEW s \in Scope,
         Update(w, x, val, s)
  PROVE  IInv'
<1> DEFINE r == [row[x] EXCEPT !.val = val]
<1>1. tx[w] # None /\ x \in Rows /\ row[x] \in Row
  BY DEF Update, IInv, TypeOK, Rows
<1>2. r \in Row /\ r.val = val /\ r.created = row[x].created
  BY <1>1 DEF Row
<1>3. row' = [row EXCEPT ![x] = r] /\ export' = export /\ Commit(w, x, val, s)
  BY DEF Update, IInv, TypeOK
<1> HIDE DEF r
<1>4. row' \in [Entity -> Row \cup {None}] /\ row'[x] = r /\ \A y \in Entity \ {x} : row'[y] = row[y]
  BY <1>2, <1>3 DEF IInv, TypeOK
<1>5. Stored(x)' = val
  BY <1>2, <1>4, NoneFacts DEF Stored
<1>6. Rows' = Rows /\ \A y \in Rows : row'[y].created = row[y].created
  BY <1>1, <1>2, <1>4, NoneFacts DEF Rows
<1>7. IsFiniteSet(Rows')
  BY <1>6 DEF IInv, ExportAhead
<1>8. TypeOK' => ExportHolds'
  BY <1>3, <1>6, <1>7, IInvParts, RowsGrow
<1> QED
  BY <1>1, <1>3, <1>4, <1>5, <1>8, CommitInv DEF IInv, TypeOK

LEMMA DeleteInv ==
  ASSUME IInv, NEW w \in Writer, NEW x \in Entity, NEW s \in Scope, Delete(w, x, s)
  PROVE  IInv'
<1>1. tx[w] # None /\ row' = [row EXCEPT ![x] = None] /\ Commit(w, x, None, s)
  BY DEF Delete
<1>2. row' \in [Entity -> Row \cup {None}] /\ row'[x] = None /\ \A y \in Entity \ {x} : row'[y] = row[y]
  BY <1>1 DEF IInv, TypeOK
<1>3. Stored(x)' = None
  BY <1>2 DEF Stored
<1>4. export' \in Export
  <2>1. PICK c : c = IF PagesPassed(x) THEN export.cuts + 1 ELSE export.cuts
    OBVIOUS
  <2>2. export \in Export /\ c \in Nat
    BY <2>1 DEF IInv, TypeOK, Export
  <2>3. export' = [export EXCEPT !.base = @ \ {x}, !.cuts = c]
    BY <2>1, <2>2 DEF Delete, Export
  <2> QED
    BY <2>2, <2>3 DEF Export
<1>5. TypeOK' => ExportHolds'
  BY IInvParts, DeleteExport
<1> QED
  BY <1>1, <1>2, <1>3, <1>4, <1>5, CommitInv

LEMMA NextInv ==
  ASSUME IInv, [Next]_vars
  PROVE  IInv'
<1>1. ASSUME NEW w \in Writer, Begin(w) PROVE IInv'
  <2>1. PICK t \in {now, now + 1} \ {0} : t <= MaxTime /\ now' = t /\ tx' = [tx EXCEPT ![w] = t]
    BY <1>1 DEF Begin
  <2>2. t \in Time /\ t # 0
    BY <2>1, ChangelogAssumption DEF IInv, TypeOK, Time
  <2>3. tx' \in [Writer -> Time \cup {None}] /\ \A v \in Writer : tx'[v] # 0
    BY <2>1, <2>2 DEF IInv, TypeOK, BegunLater
  <2> QED
    BY <1>1, <2>1, <2>2, <2>3, TransactionInv DEF Begin
<1>2. ASSUME NEW w \in Writer, Rollback(w) PROVE IInv'
  <2>1. tx' \in [Writer -> Time \cup {None}] /\ \A v \in Writer : tx'[v] # 0
    BY <1>2, NoneFacts DEF Rollback, IInv, TypeOK, BegunLater
  <2>2. now' \in Time
    BY <1>2 DEF Rollback, IInv, TypeOK
  <2> QED
    BY <1>2, <2>1, <2>2, TransactionInv DEF Rollback
<1>3. ASSUME NEW w \in Writer, Write(w) PROVE IInv'
  BY <1>1, <1>2, <1>3, CreateInv, UpdateInv, DeleteInv DEF Write
<1>4. ASSUME ListChangelog PROVE IInv'
  <2>1. /\ ReaderHolds'
        /\ got' \in SUBSET Entry /\ cursor' \in [since : Time, offset : Nat]
        /\ UNCHANGED <<now, row, tx, log, export, missing>>
    BY <1>4, IInvParts, ListChangelogReader DEF ListChangelog
  <2>2. TypeOK'
    BY <2>1 DEF IInv, TypeOK
  <2>3. ExportHolds'
    BY <2>1, IInvParts, ExportFrame
  <2> QED
    BY <2>1, <2>2, <2>3 DEF IInv, ExportHolds, ReaderHolds
<1>5. ASSUME StartExport PROVE IInv'
  <2>1. export' \in Export
    BY <1>5 DEF StartExport, NotExporting, Export, Rows
  <2> QED
    BY <1>5, <2>1, IInvParts, StartExportHolds, ExportInv DEF StartExport
<1>6. ASSUME NEW blind \in BOOLEAN, ExportPage(blind) PROVE IInv'
  <2>1. export' \in Export
    <3>1. PICK P \in SUBSET Entity : export' = [export EXCEPT !.got = @ \cup P, !.blind = @ \cup {blind},
                               !.on = (Cardinality(P) = Limit), !.offset = @ + Limit]
      BY <1>6 DEF ExportPage, Page, Shown, Rows
    <3>2. PICK b \in BOOLEAN : b <=> Cardinality(P) = Limit
      OBVIOUS
    <3>3. (Cardinality(P) = Limit) = b
      BY <3>2
    <3>4. /\ export \in Export /\ export.got \cup P \in SUBSET Entity /\ export.offset + Limit \in Nat
          /\ export.blind \cup {blind} \in SUBSET BOOLEAN
      BY ChangelogAssumption DEF IInv, TypeOK, Export
    <3>5. export' = [export EXCEPT !.got = export.got \cup P, !.blind = export.blind \cup {blind},
                                   !.on = b, !.offset = export.offset + Limit]
      BY <3>1, <3>3, <3>4 DEF Export
    <3> QED
      BY <3>4, <3>5 DEF Export
  <2> QED
    BY <1>6, <2>1, IInvParts, ExportPageHolds, ExportInv DEF ExportPage
<1>7. CASE UNCHANGED vars
  BY <1>7, TransactionInv DEF vars, IInv, TypeOK, BegunLater
<1> QED
  BY <1>3, <1>4, <1>5, <1>6, <1>7 DEF Next

\* Whatever is interleaved, readers page through what writers commit as the
\* invariant says (retrieval/repository.go ListChangelog, ExportEntities).
THEOREM IInvHolds == Spec => []IInv
BY InitInv, NextInv, PTL DEF Spec

\* Rows, entries and readers are as declared.
THEOREM TypeCorrect == Spec => []TypeOK
<1>1. IInv => TypeOK
  BY DEF IInv
<1> QED
  BY <1>1, IInvHolds, PTL

\* For any page size and number of rows: of the rows that stay and that the
\* export's connections show (all, or the global ones where no scope was ever
\* set), it leaves out at most as many as rows it had passed are deleted
\* meanwhile (retrieval/repository.go ExportEntities).
THEOREM ExportLosesOnlyCuts == Spec => []ExportComplete
<1>1. IInv => ExportComplete
  BY DEF IInv
<1> QED
  BY <1>1, IInvHolds, PTL

\* A reader of the changelog that goes on from the newest timestamp holds what
\* is stored, but for the entities of which an entry was filed elsewhere, came
\* late, was tied or was overtaken (retrieval/repository.go ListChangelog).
THEOREM ChangelogFollows == Spec => []ReplicaFollows
<1>1. ASSUME IInv, NEW x \in Entity, x \notin missing,
             \A e \in log : e.x = x => e.ts <= cursor.since
      PROVE  Latest(got, x) = Stored(x)
  <2>1. \A e \in log \ got : e.x # x
    BY <1>1, EntryFacts DEF IInv, CursorFollows
  <2>2. {e \in got : e.x = x} = {e \in log : e.x = x}
    BY <1>1, <2>1 DEF IInv, CursorFollows
  <2>3. Latest(got, x) = Latest(log, x)
    BY <2>2 DEF Latest
  <2> QED
    BY <1>1, <2>3 DEF IInv, LogFollows
<1>2. IInv => ReplicaFollows
  BY <1>1 DEF ReplicaFollows
<1> QED
  BY <1>2, IInvHolds, PTL
=============================================================================
