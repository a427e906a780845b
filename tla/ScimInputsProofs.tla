-------------------------- MODULE ScimInputsProofs --------------------------
(***************************************************************************)
(* Theorems about ScimFilter and ScimPatch: filters of any length and any  *)
(* nesting, over any attributes, operators and values, and PATCH requests  *)
(* of any number of operations on any set of members.                      *)
(*                                                                         *)
(* Both rest on recursions over the natural numbers. The induction         *)
(* theorems of the library take an operator as their parameter; here       *)
(* induction is over a set, from well-foundedness, and each recursive      *)
(* function first gets its equations.                                      *)
(***************************************************************************)
EXTENDS ScimFilter, ScimPatch, FiniteSetTheorems, SequenceTheorems, WellFoundedInduction, TLAPS

(***************************************************************************)
(* Induction.                                                              *)
(***************************************************************************)

\* A set of numbers with a member has a least one.
LEMMA Least ==
  ASSUME NEW S \in SUBSET Nat, S # {}
  PROVE  \E m \in S : \A k \in S : m <= k
<1> DEFINE R == OpToRel(<, Nat)
<1>1. \A a, b \in Nat : <<a, b>> \in R <=> a < b
  BY DEF OpToRel
<1>2. IsWellFoundedOn(R, Nat)
  BY NatLessThanWellFounded
<1> HIDE DEF R
<1>3. PICK x \in S : \A y \in S : ~ (<<y, x>> \in R)
  BY <1>2, WFMin
<1>4. \A y \in S : ~ (y < x)
  BY <1>1, <1>3
<1>5. \A y \in S : x <= y
  BY <1>4
<1> QED BY <1>5

\* Induction over the numbers up to N: a set with 0 in it, and with every number whose
\* predecessor is in it, has them all.
LEMMA InductUpTo ==
  ASSUME NEW N \in Nat, NEW S, 0 \in S, \A n \in 1..N : n - 1 \in S => n \in S
  PROVE  0..N \subseteq S
<1> SUFFICES ASSUME (0..N) \ S # {} PROVE FALSE OBVIOUS
<1> DEFINE T == (0..N) \ S
<1>1. T \in SUBSET Nat /\ T # {} OBVIOUS
<1> HIDE DEF T
<1>2. PICK m \in T : \A k \in T : m <= k BY <1>1, Least
<1>3. m \in 1..N /\ m - 1 \in 0..N /\ m \notin S BY <1>2 DEF T
<1>4. m - 1 \in S BY <1>2, <1>3 DEF T
<1> QED BY <1>3, <1>4

(***************************************************************************)
(* The recursive functions of the parser, the grammar, the translation and *)
(* mergeMembers: they exist and follow their equations.                    *)
(***************************************************************************)

Turns(s, op, operands, i) ==
  CHOOSE left : left = [k \in 0..Len(s) |-> IF k = 0 THEN operands[i]
                                            ELSE Extended(s, op, operands, left[k - 1])]
Levels(s) ==
  CHOOSE level : level = [d \in 0..Len(s) |-> IF d = 0 THEN [i \in Position(s) |-> ErrorAt(i)]
                                              ELSE ParseOr(s, level[d - 1])]
UpTo(s) ==
  CHOOSE upTo : upTo = [n \in 0..Len(s) |-> IF n = 0 THEN NoPhrases
                                            ELSE LongerPhrases(s, upTo[n - 1])]
\* The builder that FilterToSQL starts with.
NewBuilder == [ok |-> TRUE, args |-> <<>>, sqls |-> <<>>]
Built(e) ==
  CHOOSE built : built = [k \in 0..Len(e) |-> IF k = 0 THEN NewBuilder
                                              ELSE Build(built[k - 1], e[k])]
Merged(base, toAdd) ==
  CHOOSE merged : merged = [n \in 0..Len(toAdd) |-> IF n = 0 THEN base
                                                    ELSE Merged1(merged[n - 1], toAdd[n])]

\* parseOr's and parseAnd's loops: each turn extends what the one before it left.
LEMMA LoopFollows ==
  ASSUME NEW s, NEW op, NEW operands, NEW i, Len(s) \in Nat
  PROVE  /\ Turns(s, op, operands, i)[0] = operands[i]
         /\ \A k \in 1..Len(s) : Turns(s, op, operands, i)[k] =
                                   Extended(s, op, operands, Turns(s, op, operands, i)[k - 1])
         /\ Loop(s, op, operands, i) = Turns(s, op, operands, i)[Len(s)]
<1> DEFINE N == Len(s)
           Step(k, r) == Extended(s, op, operands, r)
           Eq(f, m) == f = [k \in 0..m |-> IF k = 0 THEN operands[i] ELSE Step(k, f[k - 1])]
           S == {m \in 0..N : \E f : Eq(f, m)}
<1> HIDE DEF Step
<1>1. 0 \in S
  <2> DEFINE f == [k \in 0..0 |-> operands[i]]
  <2>1. Eq(f, 0) OBVIOUS
  <2> HIDE DEF f
  <2> QED BY <2>1
<1>2. ASSUME NEW m \in 1..N, m - 1 \in S PROVE m \in S
  <2>1. PICK f : Eq(f, m - 1) BY <1>2
  <2> DEFINE g == [k \in 0..m |-> IF k = m THEN Step(m, f[m - 1]) ELSE f[k]]
  <2>2. \A k \in 0..m : g[k] = IF k = 0 THEN operands[i] ELSE Step(k, g[k - 1])
    <3> SUFFICES ASSUME NEW k \in 0..m PROVE g[k] = IF k = 0 THEN operands[i] ELSE Step(k, g[k - 1])
      OBVIOUS
    <3>1. CASE k = 0 BY <2>1, <3>1
    <3>2. CASE k # 0 /\ k # m
      <4>1. k \in 0..(m - 1) /\ k - 1 \in 0..m /\ k - 1 # m BY <3>2
      <4> QED BY <2>1, <3>2, <4>1
    <3>3. CASE k = m
      <4>1. k # 0 /\ k - 1 \in 0..m /\ k - 1 # m BY <3>3
      <4> QED BY <3>3, <4>1
    <3> QED BY <3>1, <3>2, <3>3
  <2>3. g = [k \in 0..m |-> g[k]] OBVIOUS
  <2> HIDE DEF g
  <2>4. Eq(g, m) BY <2>2, <2>3
  <2> QED BY <2>4
<1>3. N \in S
  <2> HIDE DEF S, N
  <2>1. 0..N \subseteq S BY <1>1, <1>2, InductUpTo DEF N
  <2> QED BY <2>1 DEF N
<1>4. Eq(Turns(s, op, operands, i), N) BY <1>3 DEF Turns, Step
<1>5. 0 \in 0..N /\ \A k \in 1..N : k \in 0..N /\ k # 0 OBVIOUS
<1>6. Loop(s, op, operands, i) = Turns(s, op, operands, i)[N] BY DEF Loop, Turns
<1> QED BY <1>4, <1>5, <1>6 DEF Step

\* Each level of parentheses is parsed by means of the one below it.
LEMMA NestedFollows ==
  ASSUME NEW s, Len(s) \in Nat
  PROVE  /\ Levels(s)[0] = [i \in Position(s) |-> ErrorAt(i)]
         /\ \A k \in 1..Len(s) : Levels(s)[k] = ParseOr(s, Levels(s)[k - 1])
         /\ ParseNested(s) = Levels(s)[Len(s)]
<1> DEFINE N == Len(s)
           Step(k, r) == ParseOr(s, r)
           Eq(f, m) == f = [k \in 0..m |-> IF k = 0 THEN [i \in Position(s) |-> ErrorAt(i)]
                                                     ELSE Step(k, f[k - 1])]
           S == {m \in 0..N : \E f : Eq(f, m)}
<1> HIDE DEF Step
<1>1. 0 \in S
  <2> DEFINE f == [k \in 0..0 |-> [i \in Position(s) |-> ErrorAt(i)]]
  <2>1. Eq(f, 0) OBVIOUS
  <2> HIDE DEF f
  <2> QED BY <2>1
<1>2. ASSUME NEW m \in 1..N, m - 1 \in S PROVE m \in S
  <2>1. PICK f : Eq(f, m - 1) BY <1>2
  <2> DEFINE g == [k \in 0..m |-> IF k = m THEN Step(m, f[m - 1]) ELSE f[k]]
  <2>2. \A k \in 0..m : g[k] = IF k = 0 THEN [i \in Position(s) |-> ErrorAt(i)]
                                        ELSE Step(k, g[k - 1])
    <3> SUFFICES ASSUME NEW k \in 0..m
                 PROVE  g[k] = IF k = 0 THEN [i \in Position(s) |-> ErrorAt(i)]
                                        ELSE Step(k, g[k - 1])
      OBVIOUS
    <3>1. CASE k = 0 BY <2>1, <3>1
    <3>2. CASE k # 0 /\ k # m
      <4>1. k \in 0..(m - 1) /\ k - 1 \in 0..m /\ k - 1 # m BY <3>2
      <4> QED BY <2>1, <3>2, <4>1
    <3>3. CASE k = m
      <4>1. k # 0 /\ k - 1 \in 0..m /\ k - 1 # m BY <3>3
      <4> QED BY <3>3, <4>1
    <3> QED BY <3>1, <3>2, <3>3
  <2>3. g = [k \in 0..m |-> g[k]] OBVIOUS
  <2> HIDE DEF g
  <2>4. Eq(g, m) BY <2>2, <2>3
  <2> QED BY <2>4
<1>3. N \in S
  <2> HIDE DEF S, N
  <2>1. 0..N \subseteq S BY <1>1, <1>2, InductUpTo DEF N
  <2> QED BY <2>1 DEF N
<1>4. Eq(Levels(s), N) BY <1>3 DEF Levels, Step
<1>5. 0 \in 0..N /\ \A k \in 1..N : k \in 0..N /\ k # 0 OBVIOUS
<1>6. ParseNested(s) = Levels(s)[N] BY DEF ParseNested, Levels
<1> QED BY <1>4, <1>5, <1>6 DEF Step

\* The phrases of up to n tokens come from those of up to n - 1.
LEMMA PhrasesFollow ==
  ASSUME NEW s, Len(s) \in Nat
  PROVE  /\ UpTo(s)[0] = NoPhrases
         /\ \A k \in 1..Len(s) : UpTo(s)[k] = LongerPhrases(s, UpTo(s)[k - 1])
         /\ Phrases(s) = UpTo(s)[Len(s)]
<1> DEFINE N == Len(s)
           Step(k, r) == LongerPhrases(s, r)
           Eq(f, m) == f = [k \in 0..m |-> IF k = 0 THEN NoPhrases ELSE Step(k, f[k - 1])]
           S == {m \in 0..N : \E f : Eq(f, m)}
<1> HIDE DEF Step
<1>1. 0 \in S
  <2> DEFINE f == [k \in 0..0 |-> NoPhrases]
  <2>1. Eq(f, 0) OBVIOUS
  <2> HIDE DEF f
  <2> QED BY <2>1
<1>2. ASSUME NEW m \in 1..N, m - 1 \in S PROVE m \in S
  <2>1. PICK f : Eq(f, m - 1) BY <1>2
  <2> DEFINE g == [k \in 0..m |-> IF k = m THEN Step(m, f[m - 1]) ELSE f[k]]
  <2>2. \A k \in 0..m : g[k] = IF k = 0 THEN NoPhrases ELSE Step(k, g[k - 1])
    <3> SUFFICES ASSUME NEW k \in 0..m PROVE g[k] = IF k = 0 THEN NoPhrases ELSE Step(k, g[k - 1])
      OBVIOUS
    <3>1. CASE k = 0 BY <2>1, <3>1
    <3>2. CASE k # 0 /\ k # m
      <4>1. k \in 0..(m - 1) /\ k - 1 \in 0..m /\ k - 1 # m BY <3>2
      <4> QED BY <2>1, <3>2, <4>1
    <3>3. CASE k = m
      <4>1. k # 0 /\ k - 1 \in 0..m /\ k - 1 # m BY <3>3
      <4> QED BY <3>3, <4>1
    <3> QED BY <3>1, <3>2, <3>3
  <2>3. g = [k \in 0..m |-> g[k]] OBVIOUS
  <2> HIDE DEF g
  <2>4. Eq(g, m) BY <2>2, <2>3
  <2> QED BY <2>4
<1>3. N \in S
  <2> HIDE DEF S, N
  <2>1. 0..N \subseteq S BY <1>1, <1>2, InductUpTo DEF N
  <2> QED BY <2>1 DEF N
<1>4. Eq(UpTo(s), N) BY <1>3 DEF UpTo, Step
<1>5. 0 \in 0..N /\ \A k \in 1..N : k \in 0..N /\ k # 0 OBVIOUS
<1>6. Phrases(s) = UpTo(s)[N] BY DEF Phrases, UpTo
<1> QED BY <1>4, <1>5, <1>6 DEF Step

\* build visits one node after the other.
LEMMA BuiltFollows ==
  ASSUME NEW e, Len(e) \in Nat
  PROVE  /\ Built(e)[0] = NewBuilder
         /\ \A k \in 1..Len(e) : Built(e)[k] = Build(Built(e)[k - 1], e[k])
         /\ FilterToSQL(e) = Built(e)[Len(e)]
<1> DEFINE N == Len(e)
           Step(k, r) == Build(r, e[k])
           Eq(f, m) == f = [k \in 0..m |-> IF k = 0 THEN NewBuilder ELSE Step(k, f[k - 1])]
           S == {m \in 0..N : \E f : Eq(f, m)}
<1> HIDE DEF Step
<1>1. 0 \in S
  <2> DEFINE f == [k \in 0..0 |-> NewBuilder]
  <2>1. Eq(f, 0) OBVIOUS
  <2> HIDE DEF f
  <2> QED BY <2>1
<1>2. ASSUME NEW m \in 1..N, m - 1 \in S PROVE m \in S
  <2>1. PICK f : Eq(f, m - 1) BY <1>2
  <2> DEFINE g == [k \in 0..m |-> IF k = m THEN Step(m, f[m - 1]) ELSE f[k]]
  <2>2. \A k \in 0..m : g[k] = IF k = 0 THEN NewBuilder ELSE Step(k, g[k - 1])
    <3> SUFFICES ASSUME NEW k \in 0..m PROVE g[k] = IF k = 0 THEN NewBuilder ELSE Step(k, g[k - 1])
      OBVIOUS
    <3>1. CASE k = 0 BY <2>1, <3>1
    <3>2. CASE k # 0 /\ k # m
      <4>1. k \in 0..(m - 1) /\ k - 1 \in 0..m /\ k - 1 # m BY <3>2
      <4> QED BY <2>1, <3>2, <4>1
    <3>3. CASE k = m
      <4>1. k # 0 /\ k - 1 \in 0..m /\ k - 1 # m BY <3>3
      <4> QED BY <3>3, <4>1
    <3> QED BY <3>1, <3>2, <3>3
  <2>3. g = [k \in 0..m |-> g[k]] OBVIOUS
  <2> HIDE DEF g
  <2>4. Eq(g, m) BY <2>2, <2>3
  <2> QED BY <2>4
<1>3. N \in S
  <2> HIDE DEF S, N
  <2>1. 0..N \subseteq S BY <1>1, <1>2, InductUpTo DEF N
  <2> QED BY <2>1 DEF N
<1>4. Eq(Built(e), N) BY <1>3 DEF Built, Step
<1>5. 0 \in 0..N /\ \A k \in 1..N : k \in 0..N /\ k # 0 OBVIOUS
<1>6. FilterToSQL(e) = Built(e)[N] BY DEF FilterToSQL, Built, NewBuilder
<1> QED BY <1>4, <1>5, <1>6 DEF Step

\* mergeMembers goes through the list to add, one id after the other.
LEMMA MergedFollows ==
  ASSUME NEW base, NEW toAdd, Len(toAdd) \in Nat
  PROVE  /\ Merged(base, toAdd)[0] = base
         /\ \A k \in 1..Len(toAdd) : Merged(base, toAdd)[k] =
                                     Merged1(Merged(base, toAdd)[k - 1], toAdd[k])
         /\ MergeMembers(base, toAdd) = Merged(base, toAdd)[Len(toAdd)]
<1> DEFINE N == Len(toAdd)
           Step(k, r) == Merged1(r, toAdd[k])
           Eq(f, m) == f = [k \in 0..m |-> IF k = 0 THEN base ELSE Step(k, f[k - 1])]
           S == {m \in 0..N : \E f : Eq(f, m)}
<1> HIDE DEF Step
<1>1. 0 \in S
  <2> DEFINE f == [k \in 0..0 |-> base]
  <2>1. Eq(f, 0) OBVIOUS
  <2> HIDE DEF f
  <2> QED BY <2>1
<1>2. ASSUME NEW m \in 1..N, m - 1 \in S PROVE m \in S
  <2>1. PICK f : Eq(f, m - 1) BY <1>2
  <2> DEFINE g == [k \in 0..m |-> IF k = m THEN Step(m, f[m - 1]) ELSE f[k]]
  <2>2. \A k \in 0..m : g[k] = IF k = 0 THEN base ELSE Step(k, g[k - 1])
    <3> SUFFICES ASSUME NEW k \in 0..m PROVE g[k] = IF k = 0 THEN base ELSE Step(k, g[k - 1])
      OBVIOUS
    <3>1. CASE k = 0 BY <2>1, <3>1
    <3>2. CASE k # 0 /\ k # m
      <4>1. k \in 0..(m - 1) /\ k - 1 \in 0..m /\ k - 1 # m BY <3>2
      <4> QED BY <2>1, <3>2, <4>1
    <3>3. CASE k = m
      <4>1. k # 0 /\ k - 1 \in 0..m /\ k - 1 # m BY <3>3
      <4> QED BY <3>3, <4>1
    <3> QED BY <3>1, <3>2, <3>3
  <2>3. g = [k \in 0..m |-> g[k]] OBVIOUS
  <2> HIDE DEF g
  <2>4. Eq(g, m) BY <2>2, <2>3
  <2> QED BY <2>4
<1>3. N \in S
  <2> HIDE DEF S, N
  <2>1. 0..N \subseteq S BY <1>1, <1>2, InductUpTo DEF N
  <2> QED BY <2>1 DEF N
<1>4. Eq(Merged(base, toAdd), N) BY <1>3 DEF Merged, Step
<1>5. 0 \in 0..N /\ \A k \in 1..N : k \in 0..N /\ k # 0 OBVIOUS
<1>6. MergeMembers(base, toAdd) = Merged(base, toAdd)[N] BY DEF MergeMembers, Merged
<1> QED BY <1>4, <1>5, <1>6 DEF Step

(***************************************************************************)
(* The phrases of a list of tokens.                                        *)
(***************************************************************************)

Within(p, q) == p.atom \subseteq q.atom /\ p.conj \subseteq q.conj /\ p.disj \subseteq q.disj

\* What LongerPhrases is made of.
LEMMA LongerPhrasesHas ==
  ASSUME NEW s, NEW p
  PROVE  LET q == LongerPhrases(s, p)
         IN /\ q.atom = Comparisons(s) \cup InParentheses(s, p.disj)
            /\ q.conj = q.atom \cup Joined(s, "and", p.conj, p.atom)
            /\ q.disj = q.conj \cup Joined(s, "or", p.disj, p.conj)
BY DEF LongerPhrases

\* From more phrases come more.
LEMMA LongerPhrasesGrow ==
  ASSUME NEW s, NEW p, NEW q, Within(p, q)
  PROVE  Within(LongerPhrases(s, p), LongerPhrases(s, q))
<1>1. InParentheses(s, p.disj) \subseteq InParentheses(s, q.disj) BY DEF Within, InParentheses
<1>2. /\ Joined(s, "and", p.conj, p.atom) \subseteq Joined(s, "and", q.conj, q.atom)
      /\ Joined(s, "or", p.disj, p.conj) \subseteq Joined(s, "or", q.disj, q.conj)
  BY DEF Within, Joined
<1> QED BY <1>1, <1>2, LongerPhrasesHas DEF Within

\* The phrases of up to n tokens are among those of up to m, if n is not above m.
LEMMA UpToGrows ==
  ASSUME NEW s, Len(s) \in Nat, NEW n \in 0..Len(s), NEW m \in n..Len(s)
  PROVE  Within(UpTo(s)[n], UpTo(s)[m])
<1> DEFINE N == Len(s)
           U == UpTo(s)
<1>1. U[0] = NoPhrases /\ \A k \in 1..N : U[k] = LongerPhrases(s, U[k - 1]) BY PhrasesFollow
<1> HIDE DEF U
<1> DEFINE S == {k \in 0..N : k >= 1 => Within(U[k - 1], U[k])}
<1>2. 0 \in S OBVIOUS
<1>3. ASSUME NEW k \in 1..N, k - 1 \in S PROVE k \in S
  <2>1. CASE k = 1
    <3>1. Within(U[0], U[1]) BY <1>1 DEF Within, NoPhrases
    <3> QED BY <3>1, <2>1
  <2>2. CASE k # 1
    <3>1. k - 1 \in 1..N /\ Within(U[(k - 1) - 1], U[k - 1]) BY <1>3, <2>2
    <3>2. U[k - 1] = LongerPhrases(s, U[(k - 1) - 1]) /\ U[k] = LongerPhrases(s, U[k - 1])
      BY <1>1, <3>1
    <3>3. Within(U[k - 1], U[k]) BY <3>1, <3>2, LongerPhrasesGrow
    <3> QED BY <3>3
  <2> QED BY <2>1, <2>2
<1>4. 0..N \subseteq S
  <2> HIDE DEF S
  <2> QED BY <1>2, <1>3, InductUpTo
<1> DEFINE T == {k \in 0..N : k >= n => Within(U[n], U[k])}
<1>5. 0 \in T BY DEF Within
<1>6. ASSUME NEW k \in 1..N, k - 1 \in T PROVE k \in T
  <2>1. k >= 1 /\ k \in S BY <1>4
  <2>2. Within(U[k - 1], U[k]) BY <2>1
  <2>3. CASE k = n BY <2>3 DEF Within
  <2>4. CASE k > n BY <2>4, <1>6, <2>2 DEF Within
  <2> QED BY <2>3, <2>4
<1>7. 0..N \subseteq T
  <2> HIDE DEF T
  <2> QED BY <1>5, <1>6, InductUpTo
<1> QED BY <1>7 DEF U

\* A phrase of the list, as its first position, the one behind it and what it may be read as
Span(s, p) == /\ p.from \in 1..Len(s) /\ p.to \in 2..(Len(s) + 1) /\ p.from < p.to
              /\ p = Phrase(p.from, p.to, p.expr)

Inside(s, p) == \A q \in p.atom \cup p.conj \cup p.disj : Span(s, q)

\* A phrase with these ends is one of the list.
LEMMA PhraseIs ==
  ASSUME NEW s, Len(s) \in Nat, NEW i \in 1..Len(s), NEW j \in 2..(Len(s) + 1), i < j, NEW e
  PROVE  /\ Span(s, Phrase(i, j, e))
         /\ Phrase(i, j, e).from = i /\ Phrase(i, j, e).to = j /\ Phrase(i, j, e).expr = e
BY DEF Span, Phrase

\* A comparison lies within the list.
LEMMA ComparisonsInside ==
  ASSUME NEW T, NEW s \in Seq(T), NEW p \in Comparisons(s)
  PROVE  Span(s, p)
<1>1. DOMAIN s = 1..Len(s) /\ Len(s) \in Nat OBVIOUS
<1>2. \A q \in AttrPaths(s) : q.from \in 1..Len(s) /\ q.to \in (q.from + 1)..(q.from + 3)
  BY <1>1 DEF AttrPaths, Phrase
<1>3. \A i : KindAt(s, i) # EOF => i \in 1..Len(s) BY <1>1 DEF KindAt
<1>4. ASSUME NEW q \in AttrPaths(s), KindAt(s, q.to) = "pr",
             p = Phrase(q.from, q.to + 1, Atom(q.expr, "pr", ""))
      PROVE  Span(s, p)
  <2>1. q.to \in 1..Len(s) BY <1>3, <1>4 DEF EOF
  <2>2. q.from \in 1..Len(s) /\ q.to + 1 \in 2..(Len(s) + 1) /\ q.from < q.to + 1
    BY <2>1, <1>1, <1>2
  <2> QED BY <2>2, <1>1, <1>4, PhraseIs
<1>5. ASSUME NEW q \in AttrPaths(s), KindAt(s, q.to + 1) = "value",
             p = Phrase(q.from, q.to + 2, Atom(q.expr, s[q.to].v, s[q.to + 1].v))
      PROVE  Span(s, p)
  <2>1. q.to + 1 \in 1..Len(s) BY <1>3, <1>5 DEF EOF
  <2>2. q.from \in 1..Len(s) /\ q.to + 2 \in 2..(Len(s) + 1) /\ q.from < q.to + 2
    BY <2>1, <1>1, <1>2
  <2> QED BY <2>2, <1>1, <1>5, PhraseIs
<1> QED BY <1>4, <1>5 DEF Comparisons

\* What a phrase in parentheses is.
LEMMA InParenthesesIs ==
  ASSUME NEW s, NEW P, NEW q \in InParentheses(s, P)
  PROVE  \E p \in P : /\ KindAt(s, p.from - 1) = "(" /\ KindAt(s, p.to) = ")"
                      /\ q = Phrase(p.from - 1, p.to + 1, p.expr)
BY DEF InParentheses

\* What a phrase joined of two is.
LEMMA JoinedIs ==
  ASSUME NEW s, NEW op, NEW L, NEW R, NEW q \in Joined(s, op, L, R)
  PROVE  \E l \in L, r \in R : /\ KindAt(s, l.to) = op /\ r.from = l.to + 1
                               /\ q = Phrase(l.from, r.to, Logic(op, l.expr, r.expr))
BY DEF Joined

\* Longer phrases lie within the list too.
LEMMA LongerInside ==
  ASSUME NEW T, NEW s \in Seq(T), NEW p, Inside(s, p)
  PROVE  Inside(s, LongerPhrases(s, p))
<1>1. DOMAIN s = 1..Len(s) /\ Len(s) \in Nat OBVIOUS
<1>2. \A i : KindAt(s, i) # EOF => i \in 1..Len(s) BY <1>1 DEF KindAt
<1>3. ASSUME NEW q \in InParentheses(s, p.disj) PROVE Span(s, q)
  <2>1. PICK r \in p.disj : /\ KindAt(s, r.from - 1) = "(" /\ KindAt(s, r.to) = ")"
                            /\ q = Phrase(r.from - 1, r.to + 1, r.expr)
    BY InParenthesesIs
  <2>2. Span(s, r) /\ r.from - 1 \in 1..Len(s) /\ r.to \in 1..Len(s) BY <2>1, <1>2 DEF EOF, Inside
  <2> QED BY <2>1, <2>2, <1>1 DEF Span, Phrase
<1>4. ASSUME NEW op, NEW L, NEW R, \A x \in L \cup R : Span(s, x), NEW q \in Joined(s, op, L, R)
      PROVE  Span(s, q)
  <2>1. PICK l \in L, r \in R :
               r.from = l.to + 1 /\ q = Phrase(l.from, r.to, Logic(op, l.expr, r.expr))
    BY JoinedIs
  <2>2. Span(s, l) /\ Span(s, r) BY <1>4
  <2> QED BY <2>1, <2>2, <1>1 DEF Span, Phrase
<1>5. \A q \in Comparisons(s) : Span(s, q) BY ComparisonsInside
<1> DEFINE q == LongerPhrases(s, p)
<1>6. /\ q.atom = Comparisons(s) \cup InParentheses(s, p.disj)
      /\ q.conj = q.atom \cup Joined(s, "and", p.conj, p.atom)
      /\ q.disj = q.conj \cup Joined(s, "or", p.disj, p.conj)
  BY LongerPhrasesHas
<1> HIDE DEF q
<1>7. \A x \in q.atom : Span(s, x) BY <1>3, <1>5, <1>6
<1>8. \A x \in p.atom \cup p.conj \cup p.disj : Span(s, x) BY DEF Inside
<1>9. \A x \in Joined(s, "and", p.conj, p.atom) : Span(s, x) BY <1>4, <1>8
<1>10. \A x \in Joined(s, "or", p.disj, p.conj) : Span(s, x) BY <1>4, <1>8
<1>11. Inside(s, q) BY <1>6, <1>7, <1>9, <1>10 DEF Inside
<1> QED BY <1>11 DEF q

\* Phrases lie within the list; an atom is a conjunction, a conjunction a disjunction.
LEMMA UpToInside ==
  ASSUME NEW T, NEW s \in Seq(T), NEW n \in 0..Len(s)
  PROVE  /\ Inside(s, UpTo(s)[n])
         /\ UpTo(s)[n].atom \subseteq UpTo(s)[n].conj /\ UpTo(s)[n].conj \subseteq UpTo(s)[n].disj
<1> DEFINE N == Len(s)
           U == UpTo(s)
           S == {k \in 0..N : /\ Inside(s, U[k])
                              /\ U[k].atom \subseteq U[k].conj /\ U[k].conj \subseteq U[k].disj}
<1>1. N \in Nat OBVIOUS
<1>2. U[0] = NoPhrases /\ \A k \in 1..N : U[k] = LongerPhrases(s, U[k - 1]) BY <1>1, PhrasesFollow
<1> HIDE DEF U
<1>3. 0 \in S BY <1>1, <1>2 DEF NoPhrases, Inside
<1>4. ASSUME NEW k \in 1..N, k - 1 \in S PROVE k \in S
  <2>1. Inside(s, U[k]) BY <1>2, <1>4, LongerInside
  <2>2. U[k].atom \subseteq U[k].conj /\ U[k].conj \subseteq U[k].disj BY <1>2, LongerPhrasesHas
  <2> QED BY <2>1, <2>2
<1>5. 0..N \subseteq S
  <2> HIDE DEF S
  <2> QED BY <1>1, <1>3, <1>4, InductUpTo
<1> QED BY <1>5 DEF U

\* Each phrase is one already by its own length
InOwnLength(s, p) ==
  /\ \A q \in p.atom : q \in UpTo(s)[q.to - q.from].atom
  /\ \A q \in p.conj : q \in UpTo(s)[q.to - q.from].conj
  /\ \A q \in p.disj : q \in UpTo(s)[q.to - q.from].disj

\* If phrases are found by their own length, the longer ones that come from them are.
LEMMA LongerInOwnLength ==
  ASSUME NEW T, NEW s \in Seq(T), NEW p, Inside(s, p), InOwnLength(s, p)
  PROVE  InOwnLength(s, LongerPhrases(s, p))
<1> DEFINE N == Len(s)
           U == UpTo(s)
           x == LongerPhrases(s, p)
<1>1. N \in Nat OBVIOUS
<1>2. \A k \in 1..N : U[k] = LongerPhrases(s, U[k - 1]) BY <1>1, PhrasesFollow
<1>3. /\ \A k \in 1..N : U[k].atom = Comparisons(s) \cup InParentheses(s, U[k - 1].disj)
      /\ \A k \in 1..N : U[k].conj = U[k].atom \cup Joined(s, "and", U[k - 1].conj, U[k - 1].atom)
      /\ \A k \in 1..N : U[k].disj = U[k].conj \cup Joined(s, "or", U[k - 1].disj, U[k - 1].conj)
  BY <1>2, LongerPhrasesHas
<1>4. \A k, m \in 0..N : k <= m => Within(U[k], U[m]) BY <1>1, UpToGrows
<1>5. /\ x.atom = Comparisons(s) \cup InParentheses(s, p.disj)
      /\ x.conj = x.atom \cup Joined(s, "and", p.conj, p.atom)
      /\ x.disj = x.conj \cup Joined(s, "or", p.disj, p.conj)
  BY LongerPhrasesHas
<1>6. Inside(s, x) BY LongerInside
<1>7. /\ \A q \in p.atom : q \in U[q.to - q.from].atom
      /\ \A q \in p.conj : q \in U[q.to - q.from].conj
      /\ \A q \in p.disj : q \in U[q.to - q.from].disj
  BY DEF InOwnLength
<1> HIDE DEF U, x, N
<1>8. \A q \in x.atom \cup x.conj \cup x.disj : q.to - q.from \in 1..N
  BY <1>6, <1>1 DEF Inside, Span, N
<1>9. ASSUME NEW q \in x.atom PROVE q \in U[q.to - q.from].atom
  <2>1. CASE q \in Comparisons(s) BY <2>1, <1>3, <1>8
  <2>2. CASE q \in InParentheses(s, p.disj)
    <3>1. PICK r \in p.disj : /\ KindAt(s, r.from - 1) = "(" /\ KindAt(s, r.to) = ")"
                              /\ q = Phrase(r.from - 1, r.to + 1, r.expr)
      BY <2>2, InParenthesesIs
    <3>2. Span(s, r) BY DEF Inside
    <3> DEFINE m == r.to - r.from
               n == q.to - q.from
    <3>3. m \in 0..N /\ n \in 1..N /\ n - 1 \in 0..N /\ m <= n - 1
      BY <3>1, <3>2, <1>1, <1>8 DEF Span, Phrase, N
    <3>4. r \in U[m].disj BY <1>7
    <3> HIDE DEF m, n
    <3>5. r \in U[n - 1].disj BY <3>3, <3>4, <1>4 DEF Within
    <3>6. q \in InParentheses(s, U[n - 1].disj) BY <3>1, <3>5 DEF InParentheses
    <3>7. q \in U[n].atom BY <3>3, <3>6, <1>3
    <3> QED BY <3>7 DEF n
  <2> QED BY <2>1, <2>2, <1>5
<1>10. ASSUME NEW q \in x.conj PROVE q \in U[q.to - q.from].conj
  <2>1. CASE q \in x.atom BY <2>1, <1>9, <1>8, <1>3
  <2>2. CASE q \in Joined(s, "and", p.conj, p.atom)
    <3>1. PICK l \in p.conj, r \in p.atom :
            /\ KindAt(s, l.to) = "and" /\ r.from = l.to + 1
            /\ q = Phrase(l.from, r.to, Logic("and", l.expr, r.expr))
      BY <2>2, JoinedIs
    <3>2. Span(s, l) /\ Span(s, r) BY DEF Inside
    <3> DEFINE a == l.to - l.from
               b == r.to - r.from
               n == q.to - q.from
    <3>3. a \in 0..N /\ b \in 0..N /\ n \in 1..N /\ n - 1 \in 0..N /\ a <= n - 1 /\ b <= n - 1
      BY <3>1, <3>2, <1>1, <1>8 DEF Span, Phrase, N
    <3>4. l \in U[a].conj /\ r \in U[b].atom BY <1>7
    <3> HIDE DEF a, b, n
    <3>5. l \in U[n - 1].conj /\ r \in U[n - 1].atom BY <3>3, <3>4, <1>4 DEF Within
    <3>6. q \in Joined(s, "and", U[n - 1].conj, U[n - 1].atom) BY <3>1, <3>5 DEF Joined
    <3>7. q \in U[n].conj BY <3>3, <3>6, <1>3
    <3> QED BY <3>7 DEF n
  <2> QED BY <2>1, <2>2, <1>5
<1>11. ASSUME NEW q \in x.disj PROVE q \in U[q.to - q.from].disj
  <2>1. CASE q \in x.conj BY <2>1, <1>10, <1>8, <1>3
  <2>2. CASE q \in Joined(s, "or", p.disj, p.conj)
    <3>1. PICK l \in p.disj, r \in p.conj :
            /\ KindAt(s, l.to) = "or" /\ r.from = l.to + 1
            /\ q = Phrase(l.from, r.to, Logic("or", l.expr, r.expr))
      BY <2>2, JoinedIs
    <3>2. Span(s, l) /\ Span(s, r) BY DEF Inside
    <3> DEFINE a == l.to - l.from
               b == r.to - r.from
               n == q.to - q.from
    <3>3. a \in 0..N /\ b \in 0..N /\ n \in 1..N /\ n - 1 \in 0..N /\ a <= n - 1 /\ b <= n - 1
      BY <3>1, <3>2, <1>1, <1>8 DEF Span, Phrase, N
    <3>4. l \in U[a].disj /\ r \in U[b].conj BY <1>7
    <3> HIDE DEF a, b, n
    <3>5. l \in U[n - 1].disj /\ r \in U[n - 1].conj BY <3>3, <3>4, <1>4 DEF Within
    <3>6. q \in Joined(s, "or", U[n - 1].disj, U[n - 1].conj) BY <3>1, <3>5 DEF Joined
    <3>7. q \in U[n].disj BY <3>3, <3>6, <1>3
    <3> QED BY <3>7 DEF n
  <2> QED BY <2>1, <2>2, <1>5
<1> QED BY <1>9, <1>10, <1>11 DEF InOwnLength, U, x

\* A phrase is found by its own length.
LEMMA UpToInOwnLength ==
  ASSUME NEW T, NEW s \in Seq(T), NEW n \in 0..Len(s)
  PROVE  InOwnLength(s, UpTo(s)[n])
<1> DEFINE N == Len(s)
           U == UpTo(s)
           S == {k \in 0..N : InOwnLength(s, U[k])}
<1>1. N \in Nat OBVIOUS
<1>2. U[0] = NoPhrases /\ \A k \in 1..N : U[k] = LongerPhrases(s, U[k - 1]) BY <1>1, PhrasesFollow
<1>3. \A k \in 0..N : Inside(s, U[k]) BY UpToInside
<1> HIDE DEF U
<1>4. 0 \in S BY <1>1, <1>2 DEF NoPhrases, InOwnLength
<1>5. ASSUME NEW k \in 1..N, k - 1 \in S PROVE k \in S
  <2>1. Inside(s, U[k - 1]) BY <1>3, <1>5
  <2>2. InOwnLength(s, U[k]) BY <1>2, <1>5, <2>1, LongerInOwnLength
  <2> QED BY <2>2
<1>6. 0..N \subseteq S
  <2> HIDE DEF S
  <2> QED BY <1>1, <1>4, <1>5, InductUpTo
<1> QED BY <1>6 DEF U

\* The bound that Phrases puts on the length loses nothing: what comes from its phrases is
\* among them.
LEMMA PhrasesAreClosed ==
  ASSUME NEW T, NEW s \in Seq(T)
  PROVE  Within(LongerPhrases(s, Phrases(s)), Phrases(s)) /\ Inside(s, Phrases(s))
<1> DEFINE N == Len(s)
           P == Phrases(s)
           x == LongerPhrases(s, P)
<1>1. N \in Nat OBVIOUS
<1>2. P = UpTo(s)[N] BY <1>1, PhrasesFollow
<1>3. Inside(s, P) BY <1>1, <1>2, UpToInside
<1>4. InOwnLength(s, P) BY <1>1, <1>2, UpToInOwnLength
<1> HIDE DEF P
<1>5. Inside(s, x) /\ InOwnLength(s, x) BY <1>3, <1>4, LongerInside, LongerInOwnLength
<1> HIDE DEF x
<1>6. \A q \in x.atom \cup x.conj \cup x.disj : q.to - q.from \in 0..N
  BY <1>5, <1>1 DEF Inside, Span
<1>7. \A k \in 0..N : Within(UpTo(s)[k], P) BY <1>1, <1>2, UpToGrows
<1>8. Within(x, P) BY <1>5, <1>6, <1>7 DEF Within, InOwnLength
<1> QED BY <1>3, <1>8 DEF P, x

\* The rules of the grammar, each for the phrases of the list.
LEMMA PhrasesHave ==
  ASSUME NEW T, NEW s \in Seq(T)
  PROVE  LET P == Phrases(s)
         IN /\ Comparisons(s) \cup InParentheses(s, P.disj) \subseteq P.atom
            /\ P.atom \subseteq P.conj /\ Joined(s, "and", P.conj, P.atom) \subseteq P.conj
            /\ P.conj \subseteq P.disj /\ Joined(s, "or", P.disj, P.conj) \subseteq P.disj
<1> DEFINE P == Phrases(s)
           N == Len(s)
<1>1. N \in Nat /\ P = UpTo(s)[N] BY PhrasesFollow
<1>2. Within(LongerPhrases(s, P), P) BY PhrasesAreClosed
<1> HIDE DEF P, N
<1>3. P.atom \subseteq P.conj /\ P.conj \subseteq P.disj BY <1>1, UpToInside DEF N
<1>4. /\ Comparisons(s) \cup InParentheses(s, P.disj) \subseteq P.atom
      /\ Joined(s, "and", P.conj, P.atom) \subseteq P.conj
      /\ Joined(s, "or", P.disj, P.conj) \subseteq P.disj
  BY <1>2, LongerPhrasesHas DEF Within
<1> QED BY <1>3, <1>4 DEF P

(***************************************************************************)
(* The parser returns nothing but what the grammar has.                    *)
(***************************************************************************)

\* What a parse function may return from position i: a phrase of P, or an error.
Outcome(P, i, r) ==
  \/ \E p \in P : p.from = i /\ r = Parsed(p.expr, p.to)
  \/ \E j : r = ErrorAt(j)

\* The fields of a phrase.
LEMMA PhraseFields ==
  ASSUME NEW i, NEW j, NEW e
  PROVE  Phrase(i, j, e).from = i /\ Phrase(i, j, e).to = j /\ Phrase(i, j, e).expr = e
BY DEF Phrase

\* The fields of a result.
LEMMA ParsedFields ==
  ASSUME NEW e, NEW j
  PROVE  /\ Parsed(e, j).ok /\ Parsed(e, j).expr = e /\ Parsed(e, j).pos = j
         /\ ~ErrorAt(j).ok /\ ErrorAt(j).pos = j
BY DEF Parsed, ErrorAt

\* parseComparison behind the attribute: a comparison or an error.
LEMMA OperatorOutcome ==
  ASSUME NEW s, NEW q \in AttrPaths(s), NEW r, r = ParseOperator(s, q.expr, q.to)
  PROVE  Outcome(Comparisons(s), q.from, r)
<1>1. CASE KindAt(s, q.to) = "pr"
  <2>1. r = Parsed(Atom(q.expr, "pr", ""), q.to + 1) BY <1>1 DEF ParseOperator
  <2>2. Phrase(q.from, q.to + 1, Atom(q.expr, "pr", "")) \in Comparisons(s) BY <1>1 DEF Comparisons
  <2> QED BY <2>1, <2>2 DEF Outcome, Phrase
<1>2. CASE KindAt(s, q.to) = "op" /\ KindAt(s, q.to + 1) = "value"
  <2> DEFINE e == Atom(q.expr, s[q.to].v, s[q.to + 1].v)
  <2>1. r = Parsed(e, q.to + 2) BY <1>2 DEF ParseOperator
  <2>2. Phrase(q.from, q.to + 2, e) \in Comparisons(s) BY <1>2 DEF Comparisons
  <2> HIDE DEF e
  <2> QED BY <2>1, <2>2 DEF Outcome, Phrase
<1>3. CASE KindAt(s, q.to) = "op" /\ KindAt(s, q.to + 1) # "value"
  BY <1>3 DEF ParseOperator, Outcome
<1>4. CASE KindAt(s, q.to) # "pr" /\ KindAt(s, q.to) # "op"
  BY <1>4 DEF ParseOperator, Outcome
<1> QED BY <1>1, <1>2, <1>3, <1>4

\* parseComparison returns a comparison that is there, or an error.
LEMMA ComparisonOutcome ==
  ASSUME NEW T, NEW s \in Seq(T), NEW i
  PROVE  Outcome(Comparisons(s), i, ParseComparison(s, i))
<1>1. CASE KindAt(s, i) # "ident" BY <1>1 DEF ParseComparison, Outcome
<1>2. CASE KindAt(s, i) = "ident" /\ KindAt(s, i + 1) # "."
  <2> DEFINE q == Phrase(i, i + 1, <<s[i].v>>)
  <2>1. i \in DOMAIN s /\ s[i].kind = "ident" BY <1>2 DEF KindAt, EOF
  <2>2. q \in AttrPaths(s) BY <2>1 DEF AttrPaths
  <2>3. ParseComparison(s, i) = ParseOperator(s, <<s[i].v>>, i + 1) BY <1>2 DEF ParseComparison
  <2>4. q.from = i /\ q.to = i + 1 /\ q.expr = <<s[i].v>> BY DEF Phrase
  <2> HIDE DEF q
  <2> QED BY <2>2, <2>3, <2>4, OperatorOutcome
<1>3. CASE KindAt(s, i) = "ident" /\ KindAt(s, i + 1) = "." /\ KindAt(s, i + 2) = "ident"
  <2> DEFINE q == Phrase(i, i + 3, <<s[i].v, s[i + 2].v>>)
  <2>1. i \in DOMAIN s /\ s[i].kind = "ident" BY <1>3 DEF KindAt, EOF
  <2>2. q \in AttrPaths(s) BY <2>1, <1>3 DEF AttrPaths
  <2>3. ParseComparison(s, i) = ParseOperator(s, <<s[i].v, s[i + 2].v>>, i + 3)
    BY <1>3 DEF ParseComparison
  <2>4. q.from = i /\ q.to = i + 3 /\ q.expr = <<s[i].v, s[i + 2].v>> BY DEF Phrase
  <2> HIDE DEF q
  <2> QED BY <2>2, <2>3, <2>4, OperatorOutcome
<1>4. CASE KindAt(s, i) = "ident" /\ KindAt(s, i + 1) = "." /\ KindAt(s, i + 2) # "ident"
  BY <1>4 DEF ParseComparison, Outcome
<1> QED BY <1>1, <1>2, <1>3, <1>4

\* Whatever comparison is there, parseComparison returns it: a dot after the first identifier
\* is no operator.
LEMMA ComparisonRead ==
  ASSUME NEW T, NEW s \in Seq(T), NEW p \in Comparisons(s)
  PROVE  KindAt(s, p.from) = "ident" /\ ParseComparison(s, p.from) = Parsed(p.expr, p.to)
<1>1. PICK q \in AttrPaths(s) : /\ KindAt(s, q.to) # "." /\ p.from = q.from
                                /\ ParseOperator(s, q.expr, q.to) = Parsed(p.expr, p.to)
  <2>1. ASSUME NEW q \in AttrPaths(s), KindAt(s, q.to) = "pr",
               p = Phrase(q.from, q.to + 1, Atom(q.expr, "pr", ""))
        PROVE  p.from = q.from /\ ParseOperator(s, q.expr, q.to) = Parsed(p.expr, p.to)
    <3> DEFINE e == Atom(q.expr, "pr", "")
    <3>1. p = Phrase(q.from, q.to + 1, e) BY <2>1
    <3>2. ParseOperator(s, q.expr, q.to) = Parsed(e, q.to + 1) BY <2>1 DEF ParseOperator
    <3> HIDE DEF e
    <3> QED BY <3>1, <3>2, PhraseFields
  <2>2. ASSUME NEW q \in AttrPaths(s), KindAt(s, q.to) = "op", KindAt(s, q.to + 1) = "value",
               p = Phrase(q.from, q.to + 2, Atom(q.expr, s[q.to].v, s[q.to + 1].v))
        PROVE  p.from = q.from /\ ParseOperator(s, q.expr, q.to) = Parsed(p.expr, p.to)
    <3>1. /\ p.from = q.from /\ p.to = q.to + 2
          /\ p.expr = Atom(q.expr, s[q.to].v, s[q.to + 1].v)
      BY <2>2, PhraseFields
    <3> QED BY <3>1, <2>2 DEF ParseOperator
  <2>3. \/ \E q \in AttrPaths(s) : /\ KindAt(s, q.to) = "pr"
                                   /\ p = Phrase(q.from, q.to + 1, Atom(q.expr, "pr", ""))
        \/ \E q \in AttrPaths(s) :
             /\ KindAt(s, q.to) = "op" /\ KindAt(s, q.to + 1) = "value"
             /\ p = Phrase(q.from, q.to + 2, Atom(q.expr, s[q.to].v, s[q.to + 1].v))
    BY DEF Comparisons
  <2> QED BY <2>1, <2>2, <2>3
<1>2. p.from = q.from BY <1>1
<1>3. ParseOperator(s, q.expr, q.to) = Parsed(p.expr, p.to) BY <1>1
<1>4. KindAt(s, q.to) # "." BY <1>1
<1>5. CASE \E i \in DOMAIN s : s[i].kind = "ident" /\ q = Phrase(i, i + 1, <<s[i].v>>)
  <2>1. PICK i \in DOMAIN s : s[i].kind = "ident" /\ q = Phrase(i, i + 1, <<s[i].v>>) BY <1>5
  <2>2. q.from = i /\ q.to = i + 1 /\ q.expr = <<s[i].v>> BY <2>1 DEF Phrase
  <2>3. KindAt(s, i) = "ident" /\ KindAt(s, i + 1) # "." BY <2>1, <2>2, <1>4 DEF KindAt
  <2> QED BY <1>2, <1>3, <2>2, <2>3 DEF ParseComparison
<1>6. CASE \E i \in DOMAIN s :
             /\ s[i].kind = "ident" /\ KindAt(s, i + 1) = "." /\ KindAt(s, i + 2) = "ident"
                               /\ q = Phrase(i, i + 3, <<s[i].v, s[i + 2].v>>)
  <2>1. PICK i \in DOMAIN s :
               /\ s[i].kind = "ident" /\ KindAt(s, i + 1) = "." /\ KindAt(s, i + 2) = "ident"
                              /\ q = Phrase(i, i + 3, <<s[i].v, s[i + 2].v>>)
    BY <1>6
  <2>2. q.from = i /\ q.to = i + 3 /\ q.expr = <<s[i].v, s[i + 2].v>> BY <2>1 DEF Phrase
  <2>3. KindAt(s, i) = "ident" BY <2>1 DEF KindAt
  <2> QED BY <1>2, <1>3, <2>1, <2>2, <2>3 DEF ParseComparison
<1> QED BY <1>5, <1>6 DEF AttrPaths

\* The two sorts of outcome, told apart by ok.
LEMMA OutcomeIs ==
  ASSUME NEW P, NEW i, NEW r, Outcome(P, i, r)
  PROVE  /\ r.ok \in BOOLEAN
         /\ r.ok => \E p \in P : /\ p.from = i /\ p.expr = r.expr /\ p.to = r.pos
                                   /\ r = Parsed(p.expr, p.to)
         /\ ~r.ok => \E j : r = ErrorAt(j)
<1>1. ASSUME NEW j, r = ErrorAt(j) PROVE r.ok = FALSE BY <1>1 DEF ErrorAt
<1>2. ASSUME NEW p \in P, p.from = i, r = Parsed(p.expr, p.to)
      PROVE  r.ok = TRUE /\ p.expr = r.expr /\ p.to = r.pos
  BY <1>2 DEF Parsed
<1> QED BY <1>1, <1>2 DEF Outcome

\* An error is an outcome for any phrases.
LEMMA ErrorIsOutcome ==
  ASSUME NEW P, NEW i, NEW Q, NEW j, NEW r, Outcome(Q, j, r), ~r.ok
  PROVE  Outcome(P, i, r)
<1>1. \E k : r = ErrorAt(k) BY OutcomeIs
<1> QED BY <1>1 DEF Outcome

\* parseAtom returns an atom that is there, or an error, if the level below does so.
LEMMA AtomOutcome ==
  ASSUME NEW T, NEW s \in Seq(T), NEW P, Inside(s, P), Within(LongerPhrases(s, P), P),
         NEW inner, \A i \in Position(s) : Outcome(P.disj, i, inner[i]),
         NEW i \in Position(s)
  PROVE  Outcome(P.atom, i, ParseAtom(s, inner, i))
<1>1. DOMAIN s = 1..Len(s) /\ Len(s) \in Nat OBVIOUS
<1>2. Comparisons(s) \subseteq P.atom /\ InParentheses(s, P.disj) \subseteq P.atom
  BY LongerPhrasesHas DEF Within
<1>3. CASE KindAt(s, i) # "("
  BY <1>2, <1>3, ComparisonOutcome DEF ParseAtom, Outcome
<1>4. CASE KindAt(s, i) = "("
  <2> DEFINE e == inner[i + 1]
  <2>1. i \in 1..Len(s) BY <1>1, <1>4 DEF KindAt, EOF
  <2>2. i + 1 \in Position(s) BY <2>1, <1>1 DEF Position
  <2>3. Outcome(P.disj, i + 1, e) BY <2>2
  <2>4. ParseAtom(s, inner, i) = IF ~e.ok THEN e ELSE IF KindAt(s, e.pos) = ")"
                                 THEN Parsed(e.expr, e.pos + 1) ELSE ErrorAt(e.pos)
    BY <1>4 DEF ParseAtom
  <2> HIDE DEF e
  <2>5. CASE ~e.ok BY <2>3, <2>4, <2>5, OutcomeIs, ErrorIsOutcome
  <2>6. CASE e.ok /\ KindAt(s, e.pos) # ")" BY <2>4, <2>6 DEF Outcome
  <2>7. CASE e.ok /\ KindAt(s, e.pos) = ")"
    <3>1. PICK p \in P.disj : p.from = i + 1 /\ p.expr = e.expr /\ p.to = e.pos
       BY <2>3, <2>7, OutcomeIs
    <3>2. p.from - 1 = i BY <3>1, <2>1
    <3>3. Phrase(i, p.to + 1, p.expr) \in InParentheses(s, P.disj)
      BY <3>1, <3>2, <2>7, <1>4 DEF InParentheses
    <3>4. ParseAtom(s, inner, i) = Parsed(p.expr, p.to + 1) BY <2>4, <2>7, <3>1
    <3> QED BY <3>3, <3>4, <1>2 DEF Outcome, Phrase
  <2> QED BY <2>3, <2>5, <2>6, <2>7, OutcomeIs
<1> QED BY <1>3, <1>4

\* A loop returns what may be joined of its operands, or an error, if the operands do so.
LEMMA LoopOutcome ==
  ASSUME NEW T, NEW s \in Seq(T), NEW op \in {"and", "or"}, NEW X, NEW Y,
         \A p \in X \cup Y : Span(s, p), X \subseteq Y, Joined(s, op, Y, X) \subseteq Y,
         NEW operands, \A i \in Position(s) : Outcome(X, i, operands[i]),
         NEW i \in Position(s)
  PROVE  Outcome(Y, i, Loop(s, op, operands, i))
<1> DEFINE N == Len(s)
           left == Turns(s, op, operands, i)
           S == {k \in 0..N : Outcome(Y, i, left[k])}
<1>1. DOMAIN s = 1..N /\ N \in Nat OBVIOUS
<1>2. /\ left[0] = operands[i]
      /\ \A k \in 1..N : left[k] = Extended(s, op, operands, left[k - 1])
      /\ Loop(s, op, operands, i) = left[N]
  BY <1>1, LoopFollows
<1> HIDE DEF left
<1>3. 0 \in S BY <1>1, <1>2 DEF Outcome
<1>4. ASSUME NEW k \in 1..N, k - 1 \in S PROVE k \in S
  <2> DEFINE l == left[k - 1]
             r == operands[l.pos + 1]
  <2>1. Outcome(Y, i, l) BY <1>4
  <2>2. left[k] = IF ~l.ok \/ KindAt(s, l.pos) # op THEN l
                  ELSE IF r.ok THEN Parsed(Logic(op, l.expr, r.expr), r.pos) ELSE r
    BY <1>2 DEF Extended
  <2> HIDE DEF l
  <2>3. CASE ~l.ok \/ KindAt(s, l.pos) # op BY <2>1, <2>2, <2>3
  <2>4. CASE l.ok /\ KindAt(s, l.pos) = op
    <3>1. PICK p \in Y : p.from = i /\ p.expr = l.expr /\ p.to = l.pos BY <2>1, <2>4, OutcomeIs
    <3>2. l.pos \in 1..N BY <2>4, <1>1 DEF KindAt, EOF
    <3>3. l.pos + 1 \in Position(s) BY <3>2, <1>1 DEF Position
    <3>4. Outcome(X, l.pos + 1, r) BY <3>3
    <3>5. left[k] = IF r.ok THEN Parsed(Logic(op, l.expr, r.expr), r.pos) ELSE r BY <2>2, <2>4
    <3> HIDE DEF r
    <3>6. CASE ~r.ok BY <3>4, <3>5, <3>6, OutcomeIs, ErrorIsOutcome
    <3>7. CASE r.ok
      <4>1. PICK q \in X : q.from = l.pos + 1 /\ q.expr = r.expr /\ q.to = r.pos
        BY <3>4, <3>7, OutcomeIs
      <4> DEFINE x == Phrase(p.from, q.to, Logic(op, p.expr, q.expr))
      <4>2. x \in Joined(s, op, Y, X) BY <4>1, <3>1, <2>4 DEF Joined
      <4>3. x.from = i /\ x.to = r.pos /\ x.expr = Logic(op, l.expr, r.expr)
        BY <4>1, <3>1 DEF Phrase
      <4> HIDE DEF x
      <4> QED BY <4>2, <4>3, <3>5, <3>7 DEF Outcome
    <3> QED BY <3>4, <3>6, <3>7, OutcomeIs
  <2> QED BY <2>1, <2>3, <2>4, OutcomeIs
<1>5. 0..N \subseteq S
  <2> HIDE DEF S, N
  <2> QED BY <1>1, <1>3, <1>4, InductUpTo
<1> QED BY <1>1, <1>2, <1>5

\* The parser is sound: on every level and from every position it returns a reading that the
\* grammar has, or an error.
LEMMA NestedOutcome ==
  ASSUME NEW T, NEW s \in Seq(T), NEW d \in 0..Len(s), NEW i \in Position(s)
  PROVE  Outcome(Phrases(s).disj, i, Levels(s)[d][i])
<1> DEFINE N == Len(s)
           P == Phrases(s)
           L == Levels(s)
           S == {k \in 0..N : \A j \in Position(s) : Outcome(P.disj, j, L[k][j])}
<1>1. N \in Nat OBVIOUS
<1>2. /\ L[0] = [j \in Position(s) |-> ErrorAt(j)]
      /\ \A k \in 1..N : L[k] = ParseOr(s, L[k - 1])
  BY <1>1, NestedFollows
<1>3. Inside(s, P) /\ Within(LongerPhrases(s, P), P) BY PhrasesAreClosed
<1> HIDE DEF P, L
<1>4. /\ P.atom \subseteq P.conj /\ Joined(s, "and", P.conj, P.atom) \subseteq P.conj
      /\ P.conj \subseteq P.disj /\ Joined(s, "or", P.disj, P.conj) \subseteq P.disj
  BY PhrasesHave DEF P
<1>5. 0 \in S BY <1>1, <1>2 DEF Outcome
<1>6. ASSUME NEW k \in 1..N, k - 1 \in S PROVE k \in S
  <2> DEFINE A == ParseAtoms(s, L[k - 1])
             C == ParseAnd(s, L[k - 1])
  <2>1. \A j \in Position(s) : Outcome(P.disj, j, L[k - 1][j]) BY <1>6
  <2>2. ASSUME NEW j \in Position(s) PROVE Outcome(P.atom, j, A[j])
    <3>1. Outcome(P.atom, j, ParseAtom(s, L[k - 1], j)) BY <2>1, <1>3, AtomOutcome
    <3> QED BY <3>1 DEF ParseAtoms
  <2> HIDE DEF A
  <2>3. ASSUME NEW j \in Position(s) PROVE Outcome(P.conj, j, C[j])
    <3>1. C[j] = Loop(s, "and", A, j) BY DEF ParseAnd, A
    <3>2. \A p \in P.atom \cup P.conj : Span(s, p) BY <1>3 DEF Inside
    <3>3. Outcome(P.conj, j, Loop(s, "and", A, j)) BY <3>2, <2>2, <1>4, LoopOutcome
    <3> QED BY <3>1, <3>3
  <2> HIDE DEF C
  <2>4. ASSUME NEW j \in Position(s) PROVE Outcome(P.disj, j, L[k][j])
    <3>1. L[k][j] = Loop(s, "or", C, j) BY <1>2 DEF ParseOr, C
    <3>2. \A p \in P.conj \cup P.disj : Span(s, p) BY <1>3 DEF Inside
    <3>3. Outcome(P.disj, j, Loop(s, "or", C, j)) BY <3>2, <2>3, <1>4, LoopOutcome
    <3> QED BY <3>1, <3>3
  <2> QED BY <2>4
<1>7. 0..N \subseteq S
  <2> HIDE DEF S
  <2> QED BY <1>1, <1>5, <1>6, InductUpTo
<1> QED BY <1>7 DEF P, L

(***************************************************************************)
(* The parser reads all that the grammar has.                              *)
(***************************************************************************)

\* A loop that does not see its operator returns what it has.
LEMMA LoopStays ==
  ASSUME NEW s, Len(s) \in Nat, NEW op, NEW operands, NEW i, NEW k \in 0..Len(s), NEW e, NEW j,
         Turns(s, op, operands, i)[k] = Parsed(e, j), KindAt(s, j) # op
  PROVE  Loop(s, op, operands, i) = Parsed(e, j)
<1> DEFINE N == Len(s)
           left == Turns(s, op, operands, i)
           S == {m \in 0..N : m >= k => left[m] = Parsed(e, j)}
<1>1. /\ \A m \in 1..N : left[m] = Extended(s, op, operands, left[m - 1])
      /\ Loop(s, op, operands, i) = left[N]
  BY LoopFollows
<1>2. left[k] = Parsed(e, j) OBVIOUS
<1> HIDE DEF left
<1>3. 0 \in S BY <1>2
<1>4. ASSUME NEW m \in 1..N, m - 1 \in S PROVE m \in S
  <2>1. CASE m <= k BY <2>1, <1>2
  <2>2. CASE m > k
    <3>1. left[m - 1] = Parsed(e, j) BY <2>2, <1>4
    <3>2. left[m] = Extended(s, op, operands, Parsed(e, j)) BY <3>1, <1>1
    <3>3. left[m] = Parsed(e, j) BY <3>2, ParsedFields DEF Extended
    <3> QED BY <3>3
  <2> QED BY <2>1, <2>2
<1>5. 0..N \subseteq S
  <2> HIDE DEF S
  <2> QED BY <1>3, <1>4, InductUpTo
<1> QED BY <1>1, <1>5

\* A loop that sees its operator, and behind it an operand, joins the two.
LEMMA LoopGoesOn ==
  ASSUME NEW s, Len(s) \in Nat, NEW op, NEW operands, NEW i,
         NEW k \in 0..(Len(s) - 1), NEW l, NEW r,
         Turns(s, op, operands, i)[k] = Parsed(l.expr, l.to), KindAt(s, l.to) = op,
         r.from = l.to + 1, operands[r.from] = Parsed(r.expr, r.to)
  PROVE  Turns(s, op, operands, i)[k + 1] = Parsed(Logic(op, l.expr, r.expr), r.to)
<1> DEFINE t == Turns(s, op, operands, i)
<1>1. k + 1 \in 1..Len(s) /\ (k + 1) - 1 = k OBVIOUS
<1>2. t[k + 1] = Extended(s, op, operands, t[k]) BY <1>1, LoopFollows
<1> HIDE DEF t
<1>3. t[k + 1] = Extended(s, op, operands, Parsed(l.expr, l.to)) BY <1>2 DEF t
<1> QED BY <1>3, ParsedFields DEF Extended, t

\* What the functions of one level read of a set of phrases
ReadsAtoms(s, inner, P) == \A p \in P : ParseAtoms(s, inner)[p.from] = Parsed(p.expr, p.to)
ReadsConj(s, inner, P, n) ==
  \A p \in P : \E k \in 0..n :
     Turns(s, "and", ParseAtoms(s, inner), p.from)[k] = Parsed(p.expr, p.to)
ReadsDisj(s, inner, P, n) ==
  \A p \in P : KindAt(s, p.to) # "and" =>
     \E k \in 0..n : Turns(s, "or", ParseAnd(s, inner), p.from)[k] = Parsed(p.expr, p.to)
ReadsLevel(s, r, P) ==
  \A p \in P : KindAt(s, p.to) \notin {"and", "or"} => r[p.from] = Parsed(p.expr, p.to)
Reads(s, inner, p, n) ==
  /\ ReadsAtoms(s, inner, p.atom) /\ ReadsConj(s, inner, p.conj, n)
  /\ ReadsDisj(s, inner, p.disj, n) /\ ReadsLevel(s, ParseOr(s, inner), p.disj)

\* parseAtom reads every comparison, and every phrase in parentheses if the level below reads
\* what is in them.
LEMMA AtomsRead ==
  ASSUME NEW T, NEW s \in Seq(T), NEW inner, NEW P, \A p \in P : Span(s, p), ReadsLevel(s, inner, P)
  PROVE  ReadsAtoms(s, inner, Comparisons(s) \cup InParentheses(s, P))
<1>1. DOMAIN s = 1..Len(s) /\ Len(s) \in Nat OBVIOUS
<1>2. ASSUME NEW p \in Comparisons(s) PROVE ParseAtoms(s, inner)[p.from] = Parsed(p.expr, p.to)
  <2>1. KindAt(s, p.from) = "ident" /\ ParseComparison(s, p.from) = Parsed(p.expr, p.to)
    BY ComparisonRead
  <2>2. Span(s, p) BY ComparisonsInside
  <2>3. p.from \in Position(s) BY <2>2, <1>1 DEF Span, Position
  <2> QED BY <2>1, <2>3 DEF ParseAtoms, ParseAtom
<1>3. ASSUME NEW q \in InParentheses(s, P) PROVE ParseAtoms(s, inner)[q.from] = Parsed(q.expr, q.to)
  <2>1. PICK p \in P : /\ KindAt(s, p.from - 1) = "(" /\ KindAt(s, p.to) = ")"
                       /\ q = Phrase(p.from - 1, p.to + 1, p.expr)
    BY InParenthesesIs
  <2>2. q.from = p.from - 1 /\ q.to = p.to + 1 /\ q.expr = p.expr BY <2>1, PhraseFields
  <2>3. Span(s, p) OBVIOUS
  <2>4. q.from \in Position(s) /\ q.from + 1 = p.from
    BY <2>1, <2>2, <2>3, <1>1 DEF Span, Position, KindAt, EOF
  <2>5. inner[p.from] = Parsed(p.expr, p.to) BY <2>1 DEF ReadsLevel
  <2>6. ParseAtoms(s, inner)[q.from] = ParseAtom(s, inner, q.from) BY <2>4 DEF ParseAtoms
  <2>7. ParseAtom(s, inner, q.from) = Parsed(p.expr, p.to + 1)
    BY <2>1, <2>2, <2>4, <2>5, ParsedFields DEF ParseAtom
  <2> QED BY <2>2, <2>6, <2>7
<1> QED BY <1>2, <1>3 DEF ReadsAtoms

\* A level that reads the phrases of up to n - 1 tokens, on top of one that reads them too,
\* reads those of up to n.
LEMMA LongerRead ==
  ASSUME NEW T, NEW s \in Seq(T), NEW inner, NEW p, Inside(s, p), NEW n \in 1..Len(s),
         ReadsLevel(s, inner, p.disj), Reads(s, inner, p, n - 1)
  PROVE  Reads(s, inner, LongerPhrases(s, p), n)
<1> DEFINE N == Len(s)
           x == LongerPhrases(s, p)
           A == ParseAtoms(s, inner)
           C == ParseAnd(s, inner)
           onA(i) == Turns(s, "and", A, i)
           onC(i) == Turns(s, "or", C, i)
<1>1. N \in Nat /\ n \in 0..N /\ n - 1 \in 0..(N - 1) OBVIOUS
<1>2. /\ x.atom = Comparisons(s) \cup InParentheses(s, p.disj)
      /\ x.conj = x.atom \cup Joined(s, "and", p.conj, p.atom)
      /\ x.disj = x.conj \cup Joined(s, "or", p.disj, p.conj)
  BY LongerPhrasesHas
<1>3. Inside(s, x) BY LongerInside
<1>4. /\ \A q \in p.atom : A[q.from] = Parsed(q.expr, q.to)
      /\ \A q \in p.conj : \E k \in 0..(n - 1) : onA(q.from)[k] = Parsed(q.expr, q.to)
      /\ \A q \in p.disj : KindAt(s, q.to) # "and" =>
           \E k \in 0..(n - 1) : onC(q.from)[k] = Parsed(q.expr, q.to)
  BY DEF Reads, ReadsAtoms, ReadsConj, ReadsDisj
<1>5. \A i : onA(i)[0] = A[i] /\ onC(i)[0] = C[i] BY <1>1, LoopFollows
<1>6. \A i \in Position(s) : C[i] = Loop(s, "and", A, i) BY DEF ParseAnd
<1>7. \A i \in Position(s) : ParseOr(s, inner)[i] = Loop(s, "or", C, i) BY DEF ParseOr
<1> HIDE DEF x
<1>8. ReadsAtoms(s, inner, x.atom)
  <2>1. \A q \in p.disj : Span(s, q) BY DEF Inside
  <2> QED BY <2>1, <1>2, AtomsRead
<1>9. \A q \in x.atom \cup x.conj \cup x.disj : q.from \in Position(s)
  BY <1>1, <1>3 DEF Inside, Span, Position
<1> HIDE DEF A, C
<1>10. \A q \in x.conj : \E k \in 0..n : onA(q.from)[k] = Parsed(q.expr, q.to)
  <2>1. ASSUME NEW q \in x.atom PROVE onA(q.from)[0] = Parsed(q.expr, q.to)
    BY <1>5, <1>8 DEF ReadsAtoms, A
  <2>2. ASSUME NEW q \in Joined(s, "and", p.conj, p.atom)
        PROVE  \E k \in 0..n : onA(q.from)[k] = Parsed(q.expr, q.to)
    <3>1. PICK l \in p.conj, r \in p.atom :
            /\ KindAt(s, l.to) = "and" /\ r.from = l.to + 1
            /\ q = Phrase(l.from, r.to, Logic("and", l.expr, r.expr))
      BY JoinedIs
    <3> DEFINE e == Logic("and", l.expr, r.expr)
    <3>2. PICK k \in 0..(n - 1) : onA(l.from)[k] = Parsed(l.expr, l.to) BY <1>4
    <3>3. k \in 0..(N - 1) /\ k + 1 \in 0..n BY <1>1
    <3>4. A[r.from] = Parsed(r.expr, r.to) BY <1>4
    <3>5. onA(l.from)[k + 1] = Parsed(e, r.to) BY <3>1, <3>2, <3>3, <3>4, <1>1, LoopGoesOn
    <3>6. q = Phrase(l.from, r.to, e) BY <3>1
    <3> HIDE DEF e
    <3>7. q.from = l.from /\ q.to = r.to /\ q.expr = e BY <3>6, PhraseFields
    <3> QED BY <3>3, <3>5, <3>7
  <2> QED BY <2>1, <2>2, <1>1, <1>2
<1>11. \A q \in x.disj : KindAt(s, q.to) # "and" =>
         \E k \in 0..n : onC(q.from)[k] = Parsed(q.expr, q.to)
  <2>1. ASSUME NEW q \in x.conj, KindAt(s, q.to) # "and"
        PROVE  onC(q.from)[0] = Parsed(q.expr, q.to)
    <3>1. PICK k \in 0..n : onA(q.from)[k] = Parsed(q.expr, q.to) BY <1>10
    <3>2. Loop(s, "and", A, q.from) = Parsed(q.expr, q.to) BY <3>1, <2>1, <1>1, LoopStays
    <3> QED BY <3>2, <1>5, <1>6, <1>9
  <2>2. ASSUME NEW q \in Joined(s, "or", p.disj, p.conj), KindAt(s, q.to) # "and"
        PROVE  \E k \in 0..n : onC(q.from)[k] = Parsed(q.expr, q.to)
    <3>1. PICK l \in p.disj, r \in p.conj :
            /\ KindAt(s, l.to) = "or" /\ r.from = l.to + 1
            /\ q = Phrase(l.from, r.to, Logic("or", l.expr, r.expr))
      BY JoinedIs
    <3> DEFINE e == Logic("or", l.expr, r.expr)
    <3>2. PICK k \in 0..(n - 1) : onC(l.from)[k] = Parsed(l.expr, l.to) BY <1>4, <3>1
    <3>3. k \in 0..(N - 1) /\ k + 1 \in 0..n BY <1>1
    <3>4. q = Phrase(l.from, r.to, e) BY <3>1
    <3>5. C[r.from] = Parsed(r.expr, r.to)
      <4>1. r.to = q.to
        <5> HIDE DEF e
        <5> QED BY <3>4, PhraseFields
      <4>2. PICK m \in 0..(n - 1) : onA(r.from)[m] = Parsed(r.expr, r.to) BY <1>4
      <4>3. m \in 0..N BY <1>1
      <4>4. Loop(s, "and", A, r.from) = Parsed(r.expr, r.to)
        BY <4>1, <4>2, <4>3, <2>2, <1>1, LoopStays
      <4>5. r.from \in Position(s) BY <1>1 DEF Inside, Span, Position
      <4> QED BY <4>4, <4>5, <1>6
    <3>6. onC(l.from)[k + 1] = Parsed(e, r.to) BY <3>1, <3>2, <3>3, <3>5, <1>1, LoopGoesOn
    <3> HIDE DEF e
    <3>7. q.from = l.from /\ q.to = r.to /\ q.expr = e BY <3>4, PhraseFields
    <3> QED BY <3>3, <3>6, <3>7
  <2> QED BY <2>1, <2>2, <1>1, <1>2
<1>12. ReadsLevel(s, ParseOr(s, inner), x.disj)
  <2> SUFFICES ASSUME NEW q \in x.disj, KindAt(s, q.to) \notin {"and", "or"}
               PROVE  ParseOr(s, inner)[q.from] = Parsed(q.expr, q.to)
    BY DEF ReadsLevel
  <2>1. PICK k \in 0..n : onC(q.from)[k] = Parsed(q.expr, q.to) BY <1>11
  <2>2. k \in 0..N BY <1>1
  <2>3. Loop(s, "or", C, q.from) = Parsed(q.expr, q.to) BY <2>1, <2>2, <1>1, LoopStays
  <2> QED BY <2>3, <1>7, <1>9
<1> QED BY <1>8, <1>10, <1>11, <1>12 DEF Reads, ReadsConj, ReadsDisj, A, C, x

\* The parser is complete: from level n on it reads the phrases of up to n tokens.
LEMMA NestedReads ==
  ASSUME NEW T, NEW s \in Seq(T), NEW n \in 0..Len(s), NEW d \in 1..Len(s), d >= n
  PROVE  Reads(s, Levels(s)[d - 1], UpTo(s)[n], n)
<1> DEFINE N == Len(s)
           U == UpTo(s)
           L == Levels(s)
           S == {m \in 0..N : \A c \in 1..N : c >= m => Reads(s, L[c - 1], U[m], m)}
<1>1. N \in Nat OBVIOUS
<1>2. U[0] = NoPhrases /\ \A k \in 1..N : U[k] = LongerPhrases(s, U[k - 1]) BY <1>1, PhrasesFollow
<1>3. \A k \in 1..N : L[k] = ParseOr(s, L[k - 1]) BY <1>1, NestedFollows
<1>4. \A k \in 0..N : Inside(s, U[k]) BY UpToInside
<1> HIDE DEF U, L
<1>5. 0 \in S
  BY <1>1, <1>2 DEF NoPhrases, Reads, ReadsAtoms, ReadsConj, ReadsDisj, ReadsLevel
<1>6. ASSUME NEW m \in 1..N, m - 1 \in S PROVE m \in S
  <2> SUFFICES ASSUME NEW c \in 1..N, c >= m PROVE Reads(s, L[c - 1], U[m], m) OBVIOUS
  <2>1. Reads(s, L[c - 1], U[m - 1], m - 1) BY <1>6
  <2>2. ReadsLevel(s, L[c - 1], U[m - 1].disj)
    <3>1. CASE c = 1 BY <3>1, <1>2 DEF NoPhrases, ReadsLevel
    <3>2. CASE c > 1
      <4>1. c - 1 \in 1..N /\ c - 1 >= m - 1 BY <3>2
      <4>2. Reads(s, L[(c - 1) - 1], U[m - 1], m - 1) BY <4>1, <1>6
      <4> QED BY <4>1, <4>2, <1>3 DEF Reads
    <3> QED BY <3>1, <3>2
  <2>3. Inside(s, U[m - 1]) BY <1>4
  <2>4. Reads(s, L[c - 1], LongerPhrases(s, U[m - 1]), m) BY <2>1, <2>2, <2>3, LongerRead
  <2> QED BY <2>4, <1>2
<1>7. 0..N \subseteq S
  <2> HIDE DEF S
  <2> QED BY <1>1, <1>5, <1>6, InductUpTo
<1>8. n \in S BY <1>7
<1> QED BY <1>8 DEF U, L

\* Parse returns the one reading that the grammar has of the whole list, or fails and there
\* is none (parser/filter.go Parse): for lists of any length and any nesting.
THEOREM ParseIsGrammar ==
  ASSUME NEW T, NEW s \in Seq(T), \A i \in DOMAIN s : s[i].kind # EOF
  PROVE  Grammar(s) = IF Parse(s).ok THEN {Parse(s).expr} ELSE {}
<1> DEFINE N == Len(s)
           r == ParseNested(s)[1]
           P == Phrases(s)
<1>1. N \in Nat /\ DOMAIN s = 1..N /\ 1 \in Position(s) BY DEF Position
<1>2. r = Levels(s)[N][1] /\ P = UpTo(s)[N] BY <1>1, NestedFollows, PhrasesFollow
<1>3. Outcome(P.disj, 1, r) BY <1>1, <1>2, NestedOutcome
<1>4. \A i : KindAt(s, i) = EOF <=> i \notin 1..N BY <1>1 DEF KindAt
<1>5. Parse(s) = IF r.ok /\ KindAt(s, r.pos) # EOF THEN ErrorAt(r.pos) ELSE r BY DEF Parse
<1>6. Inside(s, P) BY PhrasesAreClosed
<1>7. \A e : e \in Grammar(s) <=> \E p \in P.disj : p.from = 1 /\ p.to = N + 1 /\ e = p.expr
  BY DEF Grammar
<1> HIDE DEF r, P
<1>8. ASSUME Parse(s).ok PROVE Parse(s).expr \in Grammar(s)
  <2>1. r.ok /\ KindAt(s, r.pos) = EOF /\ Parse(s) = r BY <1>5, <1>8, ParsedFields
  <2>2. PICK p \in P.disj : p.from = 1 /\ p.expr = r.expr /\ p.to = r.pos BY <1>3, <2>1, OutcomeIs
  <2>3. p.to = N + 1 BY <2>1, <2>2, <1>1, <1>4, <1>6 DEF Inside, Span
  <2> QED BY <2>1, <2>2, <2>3, <1>7
<1>9. ASSUME NEW e \in Grammar(s) PROVE Parse(s).ok /\ Parse(s).expr = e
  <2>1. PICK p \in P.disj : p.from = 1 /\ p.to = N + 1 /\ e = p.expr BY <1>7
  <2>2. N \in 1..N BY <2>1, <1>1, <1>6 DEF Inside, Span
  <2>3. Reads(s, Levels(s)[N - 1], P, N) BY <2>2, <1>2, NestedReads
  <2>4. Levels(s)[N] = ParseOr(s, Levels(s)[N - 1]) BY <2>2, <1>1, NestedFollows
  <2>5. KindAt(s, p.to) = EOF BY <2>1, <1>1, <1>4
  <2>6. r = Parsed(e, N + 1) BY <2>1, <2>3, <2>4, <2>5, <1>2 DEF Reads, ReadsLevel, EOF
  <2>7. Parse(s) = r BY <2>1, <2>5, <2>6, <1>5, ParsedFields
  <2> QED BY <2>6, <2>7, ParsedFields
<1> QED BY <1>8, <1>9

(***************************************************************************)
(* What a condition means: wherever it stands, its arguments in place, it  *)
(* may be read as an expression by itself.                                 *)
(***************************************************************************)

\* The tokens of a condition; one argument list begins with another.
SqlKind == {"ident", ".", "op", "pr", "$", "(", ")", "and", "or"}
SqlToken == [kind : SqlKind, v : Ident \cup CompareOp \cup PatternOp \cup {""} \cup Nat]
Prefix(A, B) == Len(A) <= Len(B) /\ \A i \in 1..Len(A) : B[i] = A[i]

\* The condition stands in t from p on
At(t, p, q, A) == /\ p \in Nat \ {0} /\ p + Len(q) <= Len(t) + 1
                  /\ \A i \in 1..Len(q) : t[p + (i - 1)] = Bound(q, A)[i]

\* Condition q, with arguments A, means e, whatever stands around it
Spells(q, A, e) ==
  /\ q \in Seq(SqlToken)
  /\ \A i \in 1..Len(q) : q[i].kind = "$" => q[i].v \in 1..Len(A)
  /\ \A T : \A t \in Seq(T), p \in Nat :
       At(t, p, q, A) => Phrase(p, p + Len(q), e) \in Phrases(t).atom

\* A token of a condition with its argument in place
InPlace(x, A) == IF x.kind = "$" THEN Tok("value", A[x.v]) ELSE x

\* A condition with its arguments in place, token by token.
LEMMA BoundIs ==
  ASSUME NEW T, NEW q \in Seq(T), NEW A
  PROVE  /\ Bound(q, A) \in Seq({InPlace(q[i], A) : i \in 1..Len(q)})
         /\ Len(Bound(q, A)) = Len(q)
         /\ \A i \in 1..Len(q) : Bound(q, A)[i] = InPlace(q[i], A)
BY DEF Bound, InPlace

\* One more at the end of a sequence.
LEMMA AppendOne ==
  ASSUME NEW S, NEW u \in Seq(S), NEW y \in S
  PROVE  LET v == u \o <<y>>
         IN /\ v \in Seq(S) /\ Len(v) = Len(u) + 1 /\ v[Len(u) + 1] = y
            /\ \A i \in 1..Len(u) : v[i] = u[i]
OBVIOUS

\* More arguments behind those a condition has do it no harm.
LEMMA SpellsOnMore ==
  ASSUME NEW q, NEW A, NEW e, NEW B, Spells(q, A, e), Prefix(A, B), Len(A) \in Nat, Len(B) \in Nat
  PROVE  Spells(q, B, e)
<1>1. q \in Seq(SqlToken) /\ \A i \in 1..Len(q) : q[i].kind = "$" => q[i].v \in 1..Len(A)
  BY DEF Spells
<1>2. \A i \in 1..Len(q) : q[i].kind = "$" => q[i].v \in 1..Len(B) BY <1>1 DEF Prefix
<1>3. \A i \in 1..Len(q) : Bound(q, B)[i] = Bound(q, A)[i]
  <2> SUFFICES ASSUME NEW i \in 1..Len(q) PROVE Bound(q, B)[i] = Bound(q, A)[i] OBVIOUS
  <2>1. q[i].kind = "$" => B[q[i].v] = A[q[i].v] BY <1>1 DEF Prefix
  <2>2. InPlace(q[i], B) = InPlace(q[i], A) BY <2>1 DEF InPlace
  <2> QED BY <1>1, <2>2, BoundIs
<1>4. \A t, p : At(t, p, q, B) => At(t, p, q, A) BY <1>3 DEF At
<1> QED BY <1>1, <1>2, <1>4 DEF Spells

\* Where a column stands, its attribute may be read.
LEMMA ColumnIs ==
  ASSUME NEW attr \in Supported
  PROVE  LET c == Column(attr)
         IN /\ c \in Seq(SqlToken) /\ \A i \in 1..Len(c) : c[i].kind # "$"
            /\ \A T : \A t \in Seq(T), p \in Nat \ {0} :
                 p + Len(c) <= Len(t) + 1 /\ (\A i \in 1..Len(c) : t[p + (i - 1)] = c[i])
                 => Phrase(p, p + Len(c), attr) \in AttrPaths(t)
<1> DEFINE c == Column(attr)
<1>1. CASE \E a \in Ident : attr = <<a>>
  <2>1. PICK a \in Ident : attr = <<a>> BY <1>1
  <2>2. c = <<Tok("ident", a)>> BY <2>1 DEF Column
  <2>3. Tok("ident", a) \in SqlToken /\ Tok("ident", a).kind = "ident" /\ Tok("ident", a).v = a
    BY DEF Tok, SqlToken, SqlKind
  <2>4. c \in Seq(SqlToken) /\ Len(c) = 1 /\ c[1] = Tok("ident", a) BY <2>2, <2>3
  <2>5. ASSUME NEW T, NEW t \in Seq(T), NEW p \in Nat \ {0}, p + 1 <= Len(t) + 1,
               t[p + (1 - 1)] = c[1]
        PROVE  Phrase(p, p + 1, attr) \in AttrPaths(t)
    <3>1. p \in DOMAIN t /\ t[p] = Tok("ident", a) BY <2>4, <2>5
    <3> QED BY <2>1, <2>3, <3>1 DEF AttrPaths
  <2> HIDE DEF c
  <2>6. \A i \in 1..Len(c) : c[i].kind # "$" BY <2>3, <2>4
  <2> QED BY <2>4, <2>5, <2>6 DEF c
<1>2. CASE \E a, b \in Ident : attr = <<a, b>>
  <2>1. PICK a, b \in Ident : attr = <<a, b>> BY <1>2
  <2> DEFINE x == Tok("ident", a)
             y == Tok(".", "")
             z == Tok("ident", b)
  <2>0. Len(attr) = 2 /\ attr[1] = a /\ attr[2] = b BY <2>1
  <2>2. c = <<x, y, z>> BY <2>0 DEF Column
  <2>3. /\ x \in SqlToken /\ x.kind = "ident" /\ x.v = a
        /\ y \in SqlToken /\ y.kind = "."
        /\ z \in SqlToken /\ z.kind = "ident" /\ z.v = b
    BY DEF Tok, SqlToken, SqlKind
  <2> HIDE DEF x, y, z, c
  <2>4. c \in Seq(SqlToken) /\ Len(c) = 3 /\ c[1] = x /\ c[2] = y /\ c[3] = z
    BY <2>2, <2>3
  <2>5. ASSUME NEW T, NEW t \in Seq(T), NEW p \in Nat \ {0}, p + 3 <= Len(t) + 1,
               \A i \in 1..3 : t[p + (i - 1)] = c[i]
        PROVE  Phrase(p, p + 3, attr) \in AttrPaths(t)
    <3>1. p \in DOMAIN t /\ p + 1 \in DOMAIN t /\ p + 2 \in DOMAIN t BY <2>5
    <3>2. t[p] = x /\ t[p + 1] = y /\ t[p + 2] = z
      <4>1. p + (1 - 1) = p /\ p + (2 - 1) = p + 1 /\ p + (3 - 1) = p + 2 OBVIOUS
      <4>2. 1 \in 1..3 /\ 2 \in 1..3 /\ 3 \in 1..3 OBVIOUS
      <4>3. t[p + (1 - 1)] = c[1] /\ t[p + (2 - 1)] = c[2] /\ t[p + (3 - 1)] = c[3] BY <2>5, <4>2
      <4> QED BY <2>4, <4>1, <4>3
    <3> QED BY <2>1, <2>3, <3>1, <3>2 DEF AttrPaths, KindAt
  <2>6. \A i \in 1..Len(c) : c[i].kind # "$" BY <2>3, <2>4
  <2> QED BY <2>4, <2>5, <2>6 DEF c
<1> QED BY <1>1, <1>2, FilterAssumption

\* The fields of a token.
LEMMA TokIs ==
  ASSUME NEW k, NEW v
  PROVE  Tok(k, v).kind = k /\ Tok(k, v).v = v
BY DEF Tok

\* The condition that build writes for pr means pr.
LEMMA PrSpells ==
  ASSUME NEW attr \in Supported, NEW A
  PROVE  Spells(Column(attr) \o <<Tok("pr", "")>>, A, Atom(attr, "pr", ""))
<1> DEFINE c == Column(attr)
           z == Tok("pr", "")
           q == c \o <<z>>
           n == Len(c)
<1>1. c \in Seq(SqlToken) /\ \A i \in 1..Len(c) : c[i].kind # "$" BY ColumnIs
<1>2. \A T : \A t \in Seq(T), p \in Nat \ {0} :
        p + Len(c) <= Len(t) + 1 /\ (\A i \in 1..Len(c) : t[p + (i - 1)] = c[i])
        => Phrase(p, p + Len(c), attr) \in AttrPaths(t)
  BY ColumnIs
<1>3. z \in SqlToken /\ z.kind = "pr" BY DEF Tok, SqlToken, SqlKind
<1> HIDE DEF c, z
<1>4. /\ q \in Seq(SqlToken) /\ Len(q) = n + 1 /\ n \in Nat
      /\ (\A i \in 1..n : q[i] = c[i]) /\ q[n + 1] = z
  BY <1>1, <1>3
<1> HIDE DEF q
<1>5. \A i \in 1..Len(q) : q[i].kind # "$" BY <1>1, <1>3, <1>4
<1>6. \A i \in 1..Len(q) : Bound(q, A)[i] = q[i] BY <1>4, <1>5, BoundIs DEF InPlace
<1>7. ASSUME NEW T, NEW t \in Seq(T), NEW p \in Nat, At(t, p, q, A)
      PROVE  Phrase(p, p + Len(q), Atom(attr, "pr", "")) \in Phrases(t).atom
  <2>1. p \in Nat \ {0} /\ p + (n + 1) <= Len(t) + 1 /\ \A i \in 1..(n + 1) : t[p + (i - 1)] = q[i]
    BY <1>4, <1>6, <1>7 DEF At
  <2>2. Phrase(p, p + n, attr) \in AttrPaths(t)
    <3>1. p + Len(c) <= Len(t) + 1 /\ \A i \in 1..Len(c) : t[p + (i - 1)] = c[i] BY <2>1, <1>4
    <3> QED BY <3>1, <2>1, <1>2
  <2>3. p + n \in DOMAIN t /\ t[p + n] = z
    <3>1. n + 1 \in 1..(n + 1) /\ p + ((n + 1) - 1) = p + n BY <1>4
    <3> QED BY <3>1, <2>1, <1>4
  <2>4. KindAt(t, p + n) = "pr" BY <2>3, <1>3 DEF KindAt
  <2> DEFINE x == Phrase(p, p + n, attr)
  <2>5. x.from = p /\ x.to = p + n /\ x.expr = attr BY PhraseFields
  <2>6. (p + n) + 1 = p + Len(q) BY <1>4
  <2>7. Phrase(x.from, x.to + 1, Atom(x.expr, "pr", "")) \in Comparisons(t)
    BY <2>2, <2>4, <2>5 DEF Comparisons
  <2> HIDE DEF x
  <2> QED BY <2>5, <2>6, <2>7, PhrasesHave
<1> QED BY <1>4, <1>5, <1>7 DEF Spells, q, c, z

\* The condition that build writes for a comparison means it, given the value as the next
\* argument.
LEMMA OpSpells ==
  ASSUME NEW attr \in Supported, NEW op \in CompareOp \cup PatternOp,
         NEW V, NEW A \in Seq(V), NEW val
  PROVE  Spells(Column(attr) \o <<Tok("op", op), Placeholder(Len(A) + 1)>>, Append(A, val),
                Atom(attr, op, val))
<1> DEFINE c == Column(attr)
           y == Tok("op", op)
           z == Placeholder(Len(A) + 1)
           q == c \o <<y, z>>
           n == Len(c)
           B == Append(A, val)
<1>1. c \in Seq(SqlToken) /\ \A i \in 1..Len(c) : c[i].kind # "$" BY ColumnIs
<1>2. \A T : \A t \in Seq(T), p \in Nat \ {0} :
        p + Len(c) <= Len(t) + 1 /\ (\A i \in 1..Len(c) : t[p + (i - 1)] = c[i])
        => Phrase(p, p + Len(c), attr) \in AttrPaths(t)
  BY ColumnIs
<1>0. Len(A) + 1 \in Nat OBVIOUS
<1>3. /\ y \in SqlToken /\ y.kind = "op" /\ y.v = op
      /\ z \in SqlToken /\ z.kind = "$" /\ z.v = Len(A) + 1
  <2> DEFINE k == Len(A) + 1
  <2> HIDE DEF k
  <2>1. k \in Nat BY <1>0 DEF k
  <2>2. Placeholder(k) \in SqlToken /\ Placeholder(k).kind = "$" /\ Placeholder(k).v = k
    BY <2>1 DEF Tok, Placeholder, SqlToken, SqlKind
  <2>3. y \in SqlToken /\ y.kind = "op" /\ y.v = op BY DEF Tok, SqlToken, SqlKind
  <2> QED BY <2>2, <2>3 DEF k
<1>4. Len(A) \in Nat /\ Len(B) = Len(A) + 1 /\ B[Len(A) + 1] = val OBVIOUS
<1> HIDE DEF c, y, z, B
<1>5. /\ q \in Seq(SqlToken) /\ Len(q) = n + 2 /\ n \in Nat
      /\ (\A i \in 1..n : q[i] = c[i]) /\ q[n + 1] = y /\ q[n + 2] = z
  BY <1>1, <1>3
<1> HIDE DEF q
<1>6. ASSUME NEW i \in 1..Len(q), i # n + 2 PROVE q[i].kind # "$"
  <2>1. i \in 1..n \/ i = n + 1
    <3>1. n \in Nat /\ Len(q) = n + 2 BY <1>5
    <3> HIDE DEF n
    <3> QED BY <3>1, <1>6
  <2>2. CASE i \in 1..n
    <3>1. q[i] = c[i] /\ c[i].kind # "$" BY <2>2, <1>1, <1>5
    <3> QED BY <3>1
  <2>3. CASE i = n + 1
    <3>1. q[i] = y BY <2>3, <1>5
    <3> QED BY <3>1, <1>3
  <2> QED BY <2>1, <2>2, <2>3
<1>7. /\ \A i \in 1..(n + 1) : Bound(q, B)[i] = q[i]
      /\ Bound(q, B)[n + 2] = Tok("value", val)
  <2>1. ASSUME NEW i \in 1..(n + 1) PROVE Bound(q, B)[i] = q[i]
    <3>1. i \in 1..Len(q) /\ i # n + 2 BY <1>5
    <3> QED BY <3>1, <1>5, <1>6, BoundIs DEF InPlace
  <2>2. n + 2 \in 1..Len(q) BY <1>5
  <2>3. Bound(q, B)[n + 2] = InPlace(z, B) BY <2>2, <1>5, BoundIs
  <2>4. InPlace(z, B) = Tok("value", val) BY <1>3, <1>4 DEF InPlace
  <2> QED BY <2>1, <2>3, <2>4
<1>8. ASSUME NEW T, NEW t \in Seq(T), NEW p \in Nat, At(t, p, q, B)
      PROVE  Phrase(p, p + Len(q), Atom(attr, op, val)) \in Phrases(t).atom
  <2>1. /\ p \in Nat \ {0} /\ p + (n + 2) <= Len(t) + 1
        /\ \A i \in 1..(n + 2) : t[p + (i - 1)] = Bound(q, B)[i]
    BY <1>5, <1>8 DEF At
  <2>2. Phrase(p, p + n, attr) \in AttrPaths(t)
    <3>1. \A i \in 1..n : i \in 1..(n + 2) /\ i \in 1..(n + 1) BY <1>5
    <3>2. p + Len(c) <= Len(t) + 1 /\ \A i \in 1..Len(c) : t[p + (i - 1)] = c[i]
      BY <3>1, <2>1, <1>5, <1>7
    <3> QED BY <3>2, <2>1, <1>2
  <2>3. /\ p + n \in DOMAIN t /\ t[p + n] = y
        /\ (p + n) + 1 \in DOMAIN t /\ t[(p + n) + 1] = Tok("value", val)
    <3>1. /\ n + 1 \in 1..(n + 2) /\ p + ((n + 1) - 1) = p + n /\ n + 1 \in 1..(n + 1)
          /\ n + 2 \in 1..(n + 2) /\ p + ((n + 2) - 1) = (p + n) + 1
      BY <1>5
    <3> QED BY <3>1, <2>1, <1>5, <1>7
  <2>4. /\ KindAt(t, p + n) = "op" /\ KindAt(t, (p + n) + 1) = "value"
        /\ t[p + n].v = op /\ t[(p + n) + 1].v = val
    BY <2>3, <1>3, TokIs DEF KindAt
  <2> DEFINE x == Phrase(p, p + n, attr)
  <2>5. x.from = p /\ x.to = p + n /\ x.expr = attr BY PhraseFields
  <2>6. (p + n) + 2 = p + Len(q) BY <1>5
  <2>7. Phrase(x.from, x.to + 2, Atom(x.expr, t[x.to].v, t[x.to + 1].v)) \in Comparisons(t)
    BY <2>2, <2>4, <2>5 DEF Comparisons
  <2> HIDE DEF x
  <2> QED BY <2>4, <2>5, <2>6, <2>7, PhrasesHave
<1>9. \A i \in 1..Len(q) : q[i].kind = "$" => q[i].v \in 1..Len(B) BY <1>3, <1>4, <1>5, <1>6
<1> QED BY <1>5, <1>8, <1>9 DEF Spells, q, c, y, z, B

\* Two conditions and an operator in parentheses mean the two joined, whatever is around
\* them.
LEMMA SidesSpell ==
  ASSUME NEW l, NEW r, NEW A, NEW e, NEW f, NEW op \in {"and", "or"},
         Spells(l, A, e), Spells(r, A, f)
  PROVE  Spells(Sides(l, op, r), A, Logic(op, e, f))
<1> DEFINE q == Sides(l, op, r)
           a == Len(l)
           b == Len(r)
<1>1. /\ l \in Seq(SqlToken) /\ \A i \in 1..a : l[i].kind = "$" => l[i].v \in 1..Len(A)
      /\ r \in Seq(SqlToken) /\ \A i \in 1..b : r[i].kind = "$" => r[i].v \in 1..Len(A)
  BY DEF Spells
<1>2. /\ \A T : \A t \in Seq(T), p \in Nat :
           At(t, p, l, A) => Phrase(p, p + a, e) \in Phrases(t).atom
      /\ \A T : \A t \in Seq(T), p \in Nat :
           At(t, p, r, A) => Phrase(p, p + b, f) \in Phrases(t).atom
  BY DEF Spells
<1>3. a \in Nat /\ b \in Nat BY <1>1
<1> DEFINE x == Tok("(", "")
           y == Tok(op, "")
           z == Tok(")", "")
<1>4. /\ x \in SqlToken /\ x.kind = "("
      /\ y \in SqlToken /\ y.kind = op
      /\ z \in SqlToken /\ z.kind = ")"
  BY DEF Tok, SqlToken, SqlKind
<1>5. q = <<x>> \o l \o <<y>> \o r \o <<z>> BY DEF Sides
<1> HIDE DEF q, x, y, z
<1>6. /\ q \in Seq(SqlToken) /\ Len(q) = a + b + 3
      /\ q[1] = x /\ q[a + 2] = y /\ q[a + b + 3] = z
      /\ \A i \in 1..a : q[i + 1] = l[i]
      /\ \A i \in 1..b : q[(a + 2) + i] = r[i]
  <2> DEFINE u == <<x>> \o l
             v == u \o <<y>>
             w == v \o r
  <2>1. /\ u \in Seq(SqlToken) /\ Len(u) = a + 1 /\ u[1] = x /\ \A i \in 1..a : u[i + 1] = l[i]
    BY <1>1, <1>4
  <2> HIDE DEF u
  <2>2. /\ v \in Seq(SqlToken) /\ Len(v) = a + 2 /\ v[a + 2] = y
        /\ \A i \in 1..(a + 1) : v[i] = u[i]
    <3>1. a + 1 + 1 = a + 2 BY <1>3
    <3> QED BY <2>1, <1>4, <3>1, AppendOne
  <2> HIDE DEF v
  <2>3. /\ w \in Seq(SqlToken) /\ Len(w) = a + b + 2
        /\ (\A i \in 1..(a + 2) : w[i] = v[i]) /\ \A i \in 1..b : w[(a + 2) + i] = r[i]
    <3>1. /\ w \in Seq(SqlToken) /\ Len(w) = Len(v) + b
          /\ \A i \in 1..(Len(v) + b) : w[i] = IF i <= Len(v) THEN v[i] ELSE r[i - Len(v)]
      BY <2>2, <1>1, ConcatProperties
    <3>2. \A i \in 1..(a + 2) : i \in 1..((a + 2) + b) /\ i <= a + 2 BY <1>3
    <3>3. \A i \in 1..b : /\ (a + 2) + i \in 1..((a + 2) + b) /\ ~((a + 2) + i <= a + 2)
                          /\ ((a + 2) + i) - (a + 2) = i
      BY <1>3
    <3>4. (a + 2) + b = a + b + 2 BY <1>3
    <3> QED BY <2>2, <3>1, <3>2, <3>3, <3>4
  <2> HIDE DEF w
  <2>4. q = w \o <<z>> BY <1>5 DEF u, v, w
  <2>5. /\ q \in Seq(SqlToken) /\ Len(q) = a + b + 3 /\ q[a + b + 3] = z
        /\ \A i \in 1..(a + b + 2) : q[i] = w[i]
    <3>1. a + b + 2 + 1 = a + b + 3 BY <1>3
    <3>0. w \in Seq(SqlToken) /\ z \in SqlToken BY <2>3, <1>4
    <3>2. LET v2 == w \o <<z>>
          IN /\ v2 \in Seq(SqlToken) /\ Len(v2) = Len(w) + 1 /\ v2[Len(w) + 1] = z
             /\ \A i \in 1..Len(w) : v2[i] = w[i]
      BY <3>0, AppendOne
    <3> QED BY <2>3, <2>4, <3>1, <3>2
  <2>6. 1 \in 1..(a + 1) /\ 1 \in 1..(a + 2) /\ 1 \in 1..(a + b + 2) /\ a + 2 \in 1..(a + 2)
        /\ a + 2 \in 1..(a + b + 2)
    BY <1>3
  <2>7. ASSUME NEW i \in 1..a PROVE q[i + 1] = l[i]
    <3>1. i + 1 \in 1..(a + 1) /\ i + 1 \in 1..(a + 2) /\ i + 1 \in 1..(a + b + 2) BY <1>3
    <3> QED BY <3>1, <2>1, <2>2, <2>3, <2>5
  <2>8. ASSUME NEW i \in 1..b PROVE q[(a + 2) + i] = r[i]
    <3>1. (a + 2) + i \in 1..(a + b + 2) BY <1>3
    <3> QED BY <3>1, <2>3, <2>5
  <2> QED BY <2>1, <2>2, <2>3, <2>5, <2>6, <2>7, <2>8
<1>7. \A i \in 1..Len(q) : \/ i = 1 \/ i = a + 2 \/ i = a + b + 3
                           \/ \E j \in 1..a : i = j + 1
                           \/ \E j \in 1..b : i = (a + 2) + j
  <2> SUFFICES ASSUME NEW i \in 1..(a + b + 3), i # 1, i # a + 2, i # a + b + 3
               PROVE  (\E j \in 1..a : i = j + 1) \/ \E j \in 1..b : i = (a + 2) + j
    BY <1>6
  <2>1. CASE i <= a + 1
    <3>1. i - 1 \in 1..a /\ i = (i - 1) + 1 BY <2>1, <1>3
    <3> QED BY <3>1
  <2>2. CASE i > a + 1
    <3>1. i - (a + 2) \in 1..b /\ i = (a + 2) + (i - (a + 2)) BY <2>2, <1>3
    <3> QED BY <3>1
  <2> QED BY <2>1, <2>2, <1>3
<1>8. \A i \in 1..Len(q) : q[i].kind = "$" => q[i].v \in 1..Len(A) BY <1>1, <1>4, <1>6, <1>7
<1>9. ASSUME NEW T, NEW t \in Seq(T), NEW p \in Nat, At(t, p, q, A)
      PROVE  Phrase(p, p + Len(q), Logic(op, e, f)) \in Phrases(t).atom
  <2>1. /\ p \in Nat \ {0} /\ p + (a + b + 3) <= Len(t) + 1
        /\ \A i \in 1..Len(q) : t[p + (i - 1)] = Bound(q, A)[i]
    BY <1>6, <1>9 DEF At
  <2>2. /\ t[p].kind = "(" /\ t[p + a + 1].kind = op /\ t[p + a + b + 2].kind = ")"
        /\ p \in DOMAIN t /\ p + a + 1 \in DOMAIN t /\ p + a + b + 2 \in DOMAIN t
    <3>1. /\ 1 \in 1..Len(q) /\ p + (1 - 1) = p
          /\ a + 2 \in 1..Len(q) /\ p + ((a + 2) - 1) = p + a + 1
          /\ a + b + 3 \in 1..Len(q) /\ p + ((a + b + 3) - 1) = p + a + b + 2
      BY <1>3, <1>6, <2>1
    <3>2. /\ Bound(q, A)[1] = x /\ Bound(q, A)[a + 2] = y /\ Bound(q, A)[a + b + 3] = z
      <4>0. q \in Seq(SqlToken) BY <1>6
      <4>1. \A i \in 1..Len(q) : Bound(q, A)[i] = InPlace(q[i], A) BY <4>0, BoundIs
      <4>2. InPlace(x, A) = x /\ InPlace(y, A) = y /\ InPlace(z, A) = z BY <1>4 DEF InPlace
      <4> QED BY <4>1, <4>2, <3>1, <1>6
    <3>3. p \in DOMAIN t /\ p + a + 1 \in DOMAIN t /\ p + a + b + 2 \in DOMAIN t BY <2>1, <1>3
    <3> QED BY <3>1, <3>2, <3>3, <2>1, <1>4
  <2>3. At(t, p + 1, l, A)
    <3>1. ASSUME NEW i \in 1..a PROVE t[(p + 1) + (i - 1)] = Bound(l, A)[i]
      <4>1. i + 1 \in 1..Len(q) /\ p + ((i + 1) - 1) = (p + 1) + (i - 1) BY <1>3, <1>6, <2>1
      <4>2. Bound(q, A)[i + 1] = InPlace(q[i + 1], A) BY <4>1, <1>6, BoundIs
      <4>3. Bound(l, A)[i] = InPlace(l[i], A) BY <1>1, BoundIs
      <4>4. q[i + 1] = l[i] BY <1>6
      <4> QED BY <4>1, <4>2, <4>3, <4>4, <2>1
    <3> QED BY <3>1, <2>1, <1>3 DEF At
  <2>4. At(t, p + a + 2, r, A)
    <3>1. ASSUME NEW i \in 1..b PROVE t[(p + a + 2) + (i - 1)] = Bound(r, A)[i]
      <4>1. (a + 2) + i \in 1..Len(q) /\ p + (((a + 2) + i) - 1) = (p + a + 2) + (i - 1)
        BY <1>3, <1>6, <2>1
      <4>2. Bound(q, A)[(a + 2) + i] = InPlace(q[(a + 2) + i], A) BY <4>1, <1>6, BoundIs
      <4>3. Bound(r, A)[i] = InPlace(r[i], A) BY <1>1, BoundIs
      <4>4. q[(a + 2) + i] = r[i] BY <1>6
      <4> QED BY <4>1, <4>2, <4>3, <4>4, <2>1
    <3> QED BY <3>1, <2>1, <1>3 DEF At
  <2> DEFINE P == Phrases(t)
             m == Phrase(p + 1, p + 1 + a, e)
             n == Phrase(p + a + 2, p + a + 2 + b, f)
             o == Phrase(m.from, n.to, Logic(op, m.expr, n.expr))
  <2>5. m \in P.atom /\ n \in P.atom BY <2>3, <2>4, <1>2, <1>3
  <2>6. /\ P.atom \subseteq P.conj /\ P.conj \subseteq P.disj
        /\ InParentheses(t, P.disj) \subseteq P.atom
        /\ Joined(t, "and", P.conj, P.atom) \subseteq P.conj
        /\ Joined(t, "or", P.disj, P.conj) \subseteq P.disj
    BY PhrasesHave
  <2>7. /\ m.from = p + 1 /\ m.to = p + 1 + a /\ m.expr = e
        /\ n.from = p + a + 2 /\ n.to = p + a + 2 + b /\ n.expr = f
    BY PhraseFields
  <2> HIDE DEF P, m, n
  <2>8. p + 1 + a = p + a + 1 /\ p + a + 2 = (p + a + 1) + 1 /\ p + a + 2 + b = p + a + b + 2
        /\ (p + a + b + 2) + 1 = p + Len(q) /\ (p + 1) - 1 = p
    <3>1. Len(q) = a + b + 3 BY <1>6
    <3> QED BY <1>3, <3>1
  <2>9. /\ KindAt(t, m.to) = op /\ n.from = m.to + 1
        /\ KindAt(t, n.to) = ")" /\ KindAt(t, m.from - 1) = "("
    BY <2>2, <2>7, <2>8 DEF KindAt
  <2>10. o \in P.disj
    <3>1. CASE op = "and" BY <3>1, <2>5, <2>6, <2>9 DEF Joined
    <3>2. CASE op = "or" BY <3>2, <2>5, <2>6, <2>9 DEF Joined
    <3> QED BY <3>1, <3>2
  <2>11. o.from = m.from /\ o.to = n.to /\ o.expr = Logic(op, e, f) BY <2>7, PhraseFields
  <2> HIDE DEF o
  <2>12. Phrase(o.from - 1, o.to + 1, o.expr) \in InParentheses(t, P.disj)
    BY <2>9, <2>10, <2>11 DEF InParentheses
  <2> QED BY <2>6, <2>7, <2>8, <2>11, <2>12 DEF P
<1> QED BY <1>6, <1>8, <1>9 DEF Spells, q

(***************************************************************************)
(* The translation, node by node: the conditions on the builder's stack    *)
(* mean the trees that were visited.                                       *)
(***************************************************************************)

\* Nodes of trees, and states of the builder
Comparison ==
  {a \in [node : {"atom"}, attr : Seq(Ident), op : {"pr"} \cup CompareOp \cup PatternOp,
          val : {""} \cup Literal] :
     IF a.op = "pr" THEN a.val = "" ELSE a.val \in Literal}
Node == Comparison \cup [node : {"and", "or"}]
Builder == [ok : BOOLEAN, args : Seq(Literal), sqls : Seq(Seq(SqlToken))]
AllTranslatable(e) == \A k \in 1..Len(e) : e[k].node = "atom" => Translatable(e[k])

\* What building a tree comes to
Pushes(b, e, c) ==
  /\ c \in Builder /\ c.ok /\ Prefix(b.args, c.args)
  /\ \E q : Spells(q, c.args, e) /\ c.sqls = Append(b.sqls, q)
Adds(b, e, c) == IF AllTranslatable(e) THEN Pushes(b, e, c) ELSE c.ok = FALSE

\* Visiting the nodes of e, from any state of the builder on, comes to that
Builds(e) ==
  /\ e \in Seq(Node)
  /\ \A g : \A m \in Nat :
       /\ g[m] \in Builder /\ g[m].ok
       /\ \A k \in 1..Len(e) : g[m + k] = Build(g[(m + k) - 1], e[k])
       => Adds(g[m], e, g[m + Len(e)])

\* The fields of a comparison.
LEMMA ComparisonIsAtom ==
  ASSUME NEW a \in Comparison
  PROVE  /\ a.node = "atom" /\ a.attr \in Seq(Ident)
         /\ Atom(a.attr, a.op, a.val) = <<a>>
         /\ \/ a.op = "pr" /\ a.val = ""
            \/ a.op # "pr" /\ a.op \in CompareOp \cup PatternOp /\ a.val \in Literal
<1>1. /\ a \in [node : {"atom"}, attr : Seq(Ident), op : {"pr"} \cup CompareOp \cup PatternOp,
               val : {""} \cup Literal]
      /\ IF a.op = "pr" THEN a.val = "" ELSE a.val \in Literal
  BY DEF Comparison
<1>2. a = AtomNode(a.attr, a.op, a.val) BY <1>1 DEF AtomNode
<1>3. Atom(a.attr, a.op, a.val) = <<a>> BY <1>2 DEF Atom
<1> QED BY <1>1, <1>3

\* A list is the beginning of itself and of itself with one more.
LEMMA PrefixAppend ==
  ASSUME NEW V, NEW A \in Seq(V), NEW x \in V
  PROVE  Append(A, x) \in Seq(V) /\ Prefix(A, A) /\ Prefix(A, Append(A, x))
BY DEF Prefix

\* build of a comparison adds a condition that means it, or fails.
LEMMA BuildAtomAdds ==
  ASSUME NEW a \in Comparison, NEW b \in Builder, b.ok
  PROVE  Adds(b, <<a>>, Build(b, a))
<1> DEFINE c == Build(b, a)
<1>1. /\ a.node = "atom" /\ Atom(a.attr, a.op, a.val) = <<a>>
      /\ \/ a.op = "pr" /\ a.val = ""
         \/ a.op # "pr" /\ a.op \in CompareOp \cup PatternOp /\ a.val \in Literal
  BY ComparisonIsAtom
<1>2. c = BuildAtom(b, a) BY <1>1 DEF Build
<1>3. AllTranslatable(<<a>>) <=> Translatable(a)
  <2> DEFINE e == <<a>>
  <2>1. Len(e) = 1 /\ e[1] = a OBVIOUS
  <2> HIDE DEF e
  <2>2. AllTranslatable(e) <=> \A k \in 1..1 : Translatable(a)
    <3>1. \A k \in 1..1 : e[k] = a BY <2>1
    <3> QED BY <1>1, <2>1, <3>1 DEF AllTranslatable
  <2> QED BY <2>2 DEF e
<1>4. /\ b.args \in Seq(Literal) /\ b.sqls \in Seq(Seq(SqlToken))
      /\ b = [ok |-> b.ok, args |-> b.args, sqls |-> b.sqls]
  BY DEF Builder
<1> HIDE DEF c
<1>5. CASE ~Translatable(a)
  <2>1. c.ok = FALSE BY <1>2, <1>4, <1>5 DEF BuildAtom
  <2> QED BY <1>3, <1>5, <2>1 DEF Adds, Pushes, c
<1>6. CASE Translatable(a) /\ a.op = "pr"
  <2> DEFINE q == Column(a.attr) \o <<Tok("pr", "")>>
  <2>1. c = [b EXCEPT !.sqls = Append(b.sqls, q)] BY <1>2, <1>6 DEF BuildAtom
  <2>2. Spells(q, b.args, <<a>>) BY <1>1, <1>6, PrSpells, FilterAssumption DEF Translatable
  <2> HIDE DEF q
  <2>3. q \in Seq(SqlToken) BY <2>2 DEF Spells
  <2>4. c.ok /\ c.args = b.args /\ c.sqls = Append(b.sqls, q) /\ c \in Builder
    <3> DEFINE z == Append(b.sqls, q)
    <3>1. z \in Seq(Seq(SqlToken)) BY <2>3, <1>4
    <3> HIDE DEF z
    <3>2. c = [b EXCEPT !.args = b.args, !.sqls = z] BY <2>1, <1>4 DEF z
    <3>3. c.ok = b.ok /\ c.args = b.args /\ c.sqls = z /\ c \in Builder
      BY <3>1, <3>2, <1>4 DEF Builder
    <3> QED BY <3>3 DEF z
  <2>5. Prefix(b.args, c.args) BY <2>4, <1>4 DEF Prefix
  <2> QED BY <1>3, <1>6, <2>2, <2>4, <2>5 DEF Adds, Pushes, c
<1>7. CASE Translatable(a) /\ a.op # "pr"
  <2> DEFINE q == Column(a.attr) \o <<Tok("op", a.op), Placeholder(Len(b.args) + 1)>>
  <2>1. c = [b EXCEPT !.args = Append(b.args, a.val), !.sqls = Append(b.sqls, q)]
    BY <1>2, <1>7 DEF BuildAtom
  <2>2. Spells(q, Append(b.args, a.val), <<a>>)
    BY <1>1, <1>4, <1>7, OpSpells DEF Translatable
  <2> HIDE DEF q
  <2>3. q \in Seq(SqlToken) BY <2>2 DEF Spells
  <2>4. Append(b.args, a.val) \in Seq(Literal) /\ Prefix(b.args, Append(b.args, a.val))
    BY <1>1, <1>4, <1>7, PrefixAppend
  <2>5. /\ c.ok /\ c.args = Append(b.args, a.val) /\ c.sqls = Append(b.sqls, q) /\ c \in Builder
    <3> DEFINE y == Append(b.args, a.val)
               z == Append(b.sqls, q)
    <3>1. z \in Seq(Seq(SqlToken)) BY <2>3, <1>4
    <3>2. y \in Seq(Literal) BY <2>4
    <3> HIDE DEF y, z
    <3>3. c = [b EXCEPT !.args = y, !.sqls = z] BY <2>1 DEF y, z
    <3>4. c.ok = b.ok /\ c.args = y /\ c.sqls = z /\ c \in Builder BY <3>1, <3>2, <3>3 DEF Builder
    <3> QED BY <3>4 DEF y, z
  <2> QED BY <1>3, <1>7, <2>2, <2>4, <2>5 DEF Adds, Pushes, c
<1> QED BY <1>5, <1>6, <1>7

\* The same, as a tree of one node.
LEMMA BuildsAtom ==
  ASSUME NEW a \in Comparison
  PROVE  Builds(<<a>>)
<1>1. <<a>> \in Seq(Node) /\ Len(<<a>>) = 1 /\ <<a>>[1] = a BY DEF Node
<1>2. ASSUME NEW g, NEW m \in Nat, g[m] \in Builder, g[m].ok,
             \A k \in 1..Len(<<a>>) : g[m + k] = Build(g[(m + k) - 1], <<a>>[k])
      PROVE  Adds(g[m], <<a>>, g[m + Len(<<a>>)])
  <2>1. g[m + 1] = Build(g[(m + 1) - 1], a) BY <1>1, <1>2
  <2>2. (m + 1) - 1 = m OBVIOUS
  <2>3. g[m + 1] = Build(g[m], a) BY <2>1, <2>2
  <2> QED BY <2>3, <1>1, <1>2, BuildAtomAdds
<1> QED BY <1>1, <1>2 DEF Builds

\* build of a LogicExpr, its sides built, adds a condition that means it.
LEMMA BuildLogicAdds ==
  ASSUME NEW b \in Builder, NEW c \in Builder, NEW d \in Builder, NEW e, NEW f,
         NEW op \in {"and", "or"},
         Pushes(b, e, c), Pushes(c, f, d)
  PROVE  Pushes(b, Logic(op, e, f), BuildLogic(d, op))
<1> DEFINE x == BuildLogic(d, op)
<1>1. PICK l : Spells(l, c.args, e) /\ c.sqls = Append(b.sqls, l) BY DEF Pushes
<1>2. PICK r : Spells(r, d.args, f) /\ d.sqls = Append(c.sqls, r) BY DEF Pushes
<1>3. Prefix(b.args, c.args) /\ Prefix(c.args, d.args) /\ d.ok BY DEF Pushes
<1>4. /\ b.args \in Seq(Literal) /\ c.args \in Seq(Literal) /\ d.args \in Seq(Literal)
      /\ b.sqls \in Seq(Seq(SqlToken)) /\ d = [ok |-> d.ok, args |-> d.args, sqls |-> d.sqls]
  BY DEF Builder
<1>5. l \in Seq(SqlToken) /\ r \in Seq(SqlToken) BY <1>1, <1>2 DEF Spells
<1>6. Spells(l, d.args, e)
  <2>1. Len(c.args) \in Nat /\ Len(d.args) \in Nat BY <1>4
  <2> QED BY <1>1, <1>3, <2>1, SpellsOnMore
<1> DEFINE q == Sides(l, op, r)
<1>7. Spells(q, d.args, Logic(op, e, f)) BY <1>2, <1>6, SidesSpell
<1>8. q \in Seq(SqlToken) BY <1>7 DEF Spells
<1> HIDE DEF q
<1>9. x = [d EXCEPT !.sqls = Append(b.sqls, q)]
  <2> DEFINE n == Len(b.sqls)
             z == d.sqls
  <2>1. n \in Nat /\ z \in Seq(Seq(SqlToken)) /\ Len(z) = n + 2 BY <1>1, <1>2, <1>4, <1>5
  <2>2. z[n + 1] = l /\ z[n + 2] = r /\ \A i \in 1..n : z[i] = b.sqls[i] BY <1>1, <1>2, <1>4, <1>5
  <2> HIDE DEF z, n
  <2>3. Len(z) - 2 = n /\ Len(z) - 1 = n + 1 BY <2>1
  <2>4. SubSeq(z, 1, n) = b.sqls
    <3>1. SubSeq(z, 1, n) \in Seq(Seq(SqlToken)) /\ Len(SubSeq(z, 1, n)) = n
          /\ \A i \in 1..n : SubSeq(z, 1, n)[i] = z[i]
      BY <2>1
    <3>2. b.sqls \in Seq(Seq(SqlToken)) /\ Len(b.sqls) = n BY <1>4 DEF n
    <3> QED BY <3>1, <3>2, <2>2, SeqEqual
  <2>5. x = [d EXCEPT !.sqls =
               Append(SubSeq(z, 1, Len(z) - 2), Sides(z[Len(z) - 1], op, z[Len(z)]))]
    BY <2>1 DEF BuildLogic, z
  <2> QED BY <2>1, <2>2, <2>3, <2>4, <2>5 DEF q
<1> HIDE DEF x
<1>10. x.ok /\ x.args = d.args /\ x.sqls = Append(b.sqls, q) /\ x \in Builder
  <2> DEFINE z == Append(b.sqls, q)
  <2>1. z \in Seq(Seq(SqlToken)) BY <1>4, <1>8
  <2> HIDE DEF z
  <2>2. x = [d EXCEPT !.args = d.args, !.sqls = z] BY <1>4, <1>9 DEF z
  <2>3. x.ok = d.ok /\ x.args = d.args /\ x.sqls = z /\ x \in Builder
    BY <2>1, <2>2, <1>4 DEF Builder
  <2> QED BY <2>3, <1>3 DEF z
<1>11. Prefix(b.args, d.args) BY <1>3, <1>4 DEF Prefix
<1> QED BY <1>7, <1>10, <1>11 DEF Pushes, x

\* A builder that failed has failed for good.
LEMMA FailedStays ==
  ASSUME NEW g, NEW m \in Nat, NEW n \in Nat, NEW e, g[m].ok = FALSE,
         \A k \in 1..n : g[m + k] = Build(g[(m + k) - 1], e[k])
  PROVE  g[m + n].ok = FALSE
<1> DEFINE S == {k \in 0..n : g[m + k].ok = FALSE}
<1>1. 0 \in S
  <2>1. m + 0 = m OBVIOUS
  <2> QED BY <2>1
<1>2. ASSUME NEW k \in 1..n, k - 1 \in S PROVE k \in S
  <2>1. m + (k - 1) = (m + k) - 1 OBVIOUS
  <2>2. g[m + k] = g[(m + k) - 1] BY <1>2, <2>1 DEF Build
  <2> QED BY <1>2, <2>1, <2>2
<1>3. 0..n \subseteq S
  <2> HIDE DEF S
  <2> QED BY <1>1, <1>2, InductUpTo
<1> QED BY <1>3

\* The nodes of a LogicExpr.
LEMMA LogicIs ==
  ASSUME NEW l \in Seq(Node), NEW r \in Seq(Node), NEW op \in {"and", "or"}
  PROVE  LET e == Logic(op, l, r)
             a == Len(l)
             b == Len(r)
         IN /\ e \in Seq(Node) /\ Len(e) = a + b + 1 /\ e[a + b + 1] = [node |-> op]
            /\ \A i \in 1..a : e[i] = l[i]
            /\ \A i \in 1..b : e[a + i] = r[i]
<1> DEFINE e == Logic(op, l, r)
           a == Len(l)
           b == Len(r)
           w == l \o r
           z == [node |-> op]
<1>1. a \in Nat /\ b \in Nat OBVIOUS
<1>2. /\ w \in Seq(Node) /\ Len(w) = a + b
      /\ \A i \in 1..(a + b) : w[i] = IF i <= a THEN l[i] ELSE r[i - a]
  BY ConcatProperties
<1>3. z \in Node BY DEF Node
<1>4. e = w \o <<z>> BY DEF Logic
<1> HIDE DEF w, e, z
<1>5. e \in Seq(Node) /\ Len(e) = a + b + 1 /\ e[a + b + 1] = z /\ \A i \in 1..(a + b) : e[i] = w[i]
  <2>1. w \in Seq(Node) /\ z \in Node BY <1>2, <1>3
  <2>2. LET v == w \o <<z>>
        IN /\ v \in Seq(Node) /\ Len(v) = Len(w) + 1 /\ v[Len(w) + 1] = z
           /\ \A i \in 1..Len(w) : v[i] = w[i]
    BY <2>1, AppendOne
  <2> QED BY <2>2, <1>2, <1>4
<1>6. \A i \in 1..a : e[i] = l[i]
  <2>1. \A i \in 1..a : i \in 1..(a + b) /\ i <= a BY <1>1
  <2> QED BY <2>1, <1>2, <1>5
<1>7. \A i \in 1..b : e[a + i] = r[i]
  <2>1. \A i \in 1..b : a + i \in 1..(a + b) /\ ~(a + i <= a) /\ (a + i) - a = i BY <1>1
  <2> QED BY <2>1, <1>2, <1>5
<1> QED BY <1>5, <1>6, <1>7 DEF z, e

\* Trees built of such trees are such trees.
LEMMA BuildsLogic ==
  ASSUME NEW l, NEW r, NEW op \in {"and", "or"}, Builds(l), Builds(r)
  PROVE  Builds(Logic(op, l, r))
<1> DEFINE e == Logic(op, l, r)
           a == Len(l)
           b == Len(r)
<1>1. l \in Seq(Node) /\ r \in Seq(Node) BY DEF Builds
<1>2. a \in Nat /\ b \in Nat BY <1>1
<1>3. /\ e \in Seq(Node) /\ Len(e) = a + b + 1 /\ e[a + b + 1] = [node |-> op]
      /\ (\A i \in 1..a : e[i] = l[i]) /\ \A i \in 1..b : e[a + i] = r[i]
  BY <1>1, LogicIs
<1> HIDE DEF e
<1>4. AllTranslatable(e) <=> AllTranslatable(l) /\ AllTranslatable(r)
  <2>1. \A i \in 1..a : i \in 1..(a + b + 1) BY <1>2
  <2>2. \A i \in 1..b : a + i \in 1..(a + b + 1) BY <1>2
  <2>3. \A k \in 1..(a + b + 1) : \/ k \in 1..a \/ k = a + b + 1 \/ \E i \in 1..b : k = a + i
    <3> SUFFICES ASSUME NEW k \in 1..(a + b + 1), k \notin 1..a, k # a + b + 1
                 PROVE  \E i \in 1..b : k = a + i
      OBVIOUS
    <3>1. k - a \in 1..b /\ k = a + (k - a) BY <1>2
    <3> QED BY <3>1
  <2>4. [node |-> op].node # "atom" OBVIOUS
  <2>5. ASSUME AllTranslatable(e) PROVE AllTranslatable(l) /\ AllTranslatable(r)
    BY <1>3, <2>1, <2>2, <2>5 DEF AllTranslatable
  <2>6. ASSUME AllTranslatable(l), AllTranslatable(r) PROVE AllTranslatable(e)
    <3> SUFFICES ASSUME NEW k \in 1..Len(e), e[k].node = "atom" PROVE Translatable(e[k])
      BY DEF AllTranslatable
    <3>1. CASE k \in 1..a BY <3>1, <1>3, <2>6 DEF AllTranslatable
    <3>2. CASE \E i \in 1..b : k = a + i BY <3>2, <1>3, <2>6 DEF AllTranslatable
    <3> QED BY <3>1, <3>2, <1>3, <2>3, <2>4
  <2> QED BY <2>5, <2>6
<1>5. ASSUME NEW g, NEW m \in Nat, g[m] \in Builder, g[m].ok,
             \A k \in 1..Len(e) : g[m + k] = Build(g[(m + k) - 1], e[k])
      PROVE  Adds(g[m], e, g[m + Len(e)])
  <2> DEFINE b0 == g[m]
             b1 == g[m + a]
             b2 == g[(m + a) + b]
             b3 == g[m + Len(e)]
  <2>1. \A k \in 1..(a + b + 1) : g[m + k] = Build(g[(m + k) - 1], e[k]) BY <1>3, <1>5
  <2>2. \A k \in 1..a : g[m + k] = Build(g[(m + k) - 1], l[k])
    <3>1. \A i \in 1..a : i \in 1..(a + b + 1) BY <1>2
    <3> QED BY <3>1, <2>1, <1>3
  <2>3. \A k \in 1..b : g[(m + a) + k] = Build(g[((m + a) + k) - 1], r[k])
    <3>1. \A k \in 1..b : a + k \in 1..(a + b + 1) /\ m + (a + k) = (m + a) + k BY <1>2
    <3> QED BY <3>1, <2>1, <1>3
  <2>4. b3 = Build(b2, [node |-> op])
    <3>1. /\ a + b + 1 \in 1..(a + b + 1) /\ m + (a + b + 1) = ((m + a) + b) + 1
          /\ (m + (a + b + 1)) - 1 = (m + a) + b
      BY <1>2
    <3> QED BY <3>1, <2>1, <1>3
  <2>5. Adds(b0, l, b1) BY <2>2, <1>5 DEF Builds
  <2>6. m + a \in Nat BY <1>2
  <2>7. b1 \in Builder /\ b1.ok => Adds(b1, r, b2) BY <2>3, <2>6 DEF Builds
  <2>8. b1.ok = FALSE => b2.ok = FALSE BY <2>3, <2>6, <1>2, FailedStays
  <2>9. b2.ok = FALSE => b3.ok = FALSE BY <2>4 DEF Build
  <2> HIDE DEF b0, b1, b2, b3
  <2>10. CASE ~AllTranslatable(l)
    <3>1. b1.ok = FALSE BY <2>5, <2>10 DEF Adds
    <3> QED BY <3>1, <2>8, <2>9, <2>10, <1>4 DEF Adds, b0, b3
  <2>11. CASE AllTranslatable(l) /\ ~AllTranslatable(r)
    <3>1. b1 \in Builder /\ b1.ok BY <2>5, <2>11 DEF Adds, Pushes
    <3>2. b2.ok = FALSE BY <3>1, <2>7, <2>11 DEF Adds
    <3> QED BY <3>2, <2>9, <2>11, <1>4 DEF Adds, b0, b3
  <2>12. CASE AllTranslatable(l) /\ AllTranslatable(r)
    <3>1. Pushes(b0, l, b1) BY <2>5, <2>12 DEF Adds
    <3>2. b1 \in Builder /\ b1.ok BY <3>1 DEF Pushes
    <3>3. Pushes(b1, r, b2) BY <3>2, <2>7, <2>12 DEF Adds
    <3>4. b2 \in Builder /\ b2.ok BY <3>3 DEF Pushes
    <3>5. b3 = BuildLogic(b2, op) BY <3>4, <2>4 DEF Build
    <3>6. b0 \in Builder BY <1>5 DEF b0
    <3>7. Pushes(b0, Logic(op, l, r), BuildLogic(b2, op))
      BY <3>1, <3>2, <3>3, <3>4, <3>6, BuildLogicAdds
    <3> QED BY <3>5, <3>7, <2>12, <1>4 DEF Adds, b0, b3, e
  <2> QED BY <2>10, <2>11, <2>12
<1> QED BY <1>3, <1>5 DEF Builds, e

\* What a token of a filter may be.
LEMMA TokenIs ==
  ASSUME NEW t \in Token
  PROVE  /\ t.kind = "ident" => t.v \in Ident
         /\ t.kind = "op" => t.v \in CompareOp \cup PatternOp
         /\ t.kind = "value" => t.v \in Literal
         /\ t.kind # EOF
<1>1. CASE t \in {Tok("ident", a) : a \in Ident} BY <1>1 DEF Tok, EOF
<1>2. CASE t \in {Tok("value", c) : c \in Literal} BY <1>2 DEF Tok, EOF
<1>3. CASE t \in {Tok("op", o) : o \in CompareOp \cup PatternOp} BY <1>3 DEF Tok, EOF
<1>4. CASE t \in {Tok(k, "") : k \in {"(", ")", ".", "pr", "and", "or"}}
  <2>1. PICK k \in {"(", ")", ".", "pr", "and", "or"} : t = Tok(k, "") BY <1>4
  <2>2. t.kind = k BY <2>1, TokIs
  <2> QED BY <2>2 DEF EOF
<1> QED BY <1>1, <1>2, <1>3, <1>4 DEF Token

\* build does what it should for a comparison.
LEMMA ComparisonsBuild ==
  ASSUME NEW s \in Seq(Token), NEW p \in Comparisons(s)
  PROVE  Builds(p.expr)
<1>1. \A i \in DOMAIN s : s[i] \in Token OBVIOUS
<1>2. \A q \in AttrPaths(s) : q.expr \in Seq(Ident)
  <2> SUFFICES ASSUME NEW q \in AttrPaths(s) PROVE q.expr \in Seq(Ident) OBVIOUS
  <2>1. ASSUME NEW i \in DOMAIN s, s[i].kind = "ident", q = Phrase(i, i + 1, <<s[i].v>>)
        PROVE  q.expr \in Seq(Ident)
    <3> DEFINE e == <<s[i].v>>
    <3>1. e \in Seq(Ident) BY <1>1, <2>1, TokenIs
    <3>2. q = Phrase(i, i + 1, e) BY <2>1
    <3> HIDE DEF e
    <3> QED BY <3>1, <3>2, PhraseFields
  <2>2. ASSUME NEW i \in DOMAIN s, s[i].kind = "ident", KindAt(s, i + 2) = "ident",
               q = Phrase(i, i + 3, <<s[i].v, s[i + 2].v>>)
        PROVE  q.expr \in Seq(Ident)
    <3> DEFINE e == <<s[i].v, s[i + 2].v>>
    <3>1. i + 2 \in DOMAIN s /\ s[i + 2].kind = "ident" BY <2>2 DEF KindAt, EOF
    <3>2. s[i].v \in Ident /\ s[i + 2].v \in Ident BY <1>1, <2>2, <3>1, TokenIs
    <3>3. e \in Seq(Ident) BY <3>2
    <3>4. q = Phrase(i, i + 3, e) BY <2>2
    <3> HIDE DEF e
    <3> QED BY <3>3, <3>4, PhraseFields
  <2> QED BY <2>1, <2>2 DEF AttrPaths
<1>3. ASSUME NEW a \in Seq(Ident) PROVE AtomNode(a, "pr", "") \in Comparison
  BY FilterAssumption DEF Comparison, AtomNode
<1>4. ASSUME NEW a \in Seq(Ident), NEW o \in CompareOp \cup PatternOp, NEW c \in Literal
      PROVE  AtomNode(a, o, c) \in Comparison
  <2>1. o # "pr" BY FilterAssumption
  <2> QED BY <2>1 DEF Comparison, AtomNode
<1>5. ASSUME NEW q \in AttrPaths(s), p = Phrase(q.from, q.to + 1, Atom(q.expr, "pr", ""))
      PROVE  Builds(p.expr)
  <2> DEFINE a == AtomNode(q.expr, "pr", "")
  <2>1. a \in Comparison BY <1>2, <1>3
  <2>2. p = Phrase(q.from, q.to + 1, <<a>>) BY <1>5 DEF Atom
  <2> HIDE DEF a
  <2>3. p.expr = <<a>> BY <2>2, PhraseFields
  <2> QED BY <2>1, <2>3, BuildsAtom
<1>6. ASSUME NEW q \in AttrPaths(s), KindAt(s, q.to) = "op", KindAt(s, q.to + 1) = "value",
             p = Phrase(q.from, q.to + 2, Atom(q.expr, s[q.to].v, s[q.to + 1].v))
      PROVE  Builds(p.expr)
  <2> DEFINE a == AtomNode(q.expr, s[q.to].v, s[q.to + 1].v)
  <2>1. /\ q.to \in DOMAIN s /\ s[q.to].kind = "op"
        /\ q.to + 1 \in DOMAIN s /\ s[q.to + 1].kind = "value"
    BY <1>6 DEF KindAt, EOF
  <2>2. s[q.to].v \in CompareOp \cup PatternOp /\ s[q.to + 1].v \in Literal BY <1>1, <2>1, TokenIs
  <2>3. a \in Comparison BY <1>2, <1>4, <2>2
  <2>4. p = Phrase(q.from, q.to + 2, <<a>>) BY <1>6 DEF Atom
  <2> HIDE DEF a
  <2>5. p.expr = <<a>> BY <2>4, PhraseFields
  <2> QED BY <2>3, <2>5, BuildsAtom
<1> QED BY <1>5, <1>6 DEF Comparisons

\* build does what it should for every reading of a filter: for every tree that the parser
\* may return.
LEMMA PhrasesBuild ==
  ASSUME NEW s \in Seq(Token), NEW n \in 0..Len(s), NEW p \in UpTo(s)[n].disj
  PROVE  Builds(p.expr)
<1> DEFINE N == Len(s)
           U == UpTo(s)
           S == {k \in 0..N : \A q \in U[k].disj : Builds(q.expr)}
<1>1. N \in Nat OBVIOUS
<1>2. U[0] = NoPhrases /\ \A k \in 1..N : U[k] = LongerPhrases(s, U[k - 1]) BY <1>1, PhrasesFollow
<1>3. \A k \in 0..N : U[k].atom \subseteq U[k].conj /\ U[k].conj \subseteq U[k].disj BY UpToInside
<1> HIDE DEF U
<1>4. 0 \in S BY <1>1, <1>2 DEF NoPhrases
<1>5. ASSUME NEW k \in 1..N, k - 1 \in S PROVE k \in S
  <2> DEFINE x == U[k - 1]
  <2>1. \A q \in x.atom \cup x.conj \cup x.disj : Builds(q.expr) BY <1>3, <1>5
  <2> HIDE DEF x
  <2>2. ASSUME NEW q \in InParentheses(s, x.disj) PROVE Builds(q.expr)
    <3>1. PICK r \in x.disj : q = Phrase(r.from - 1, r.to + 1, r.expr) BY InParenthesesIs
    <3> QED BY <3>1, <2>1, PhraseFields
  <2>3. ASSUME NEW op \in {"and", "or"}, NEW L \in {x.conj, x.disj}, NEW R \in {x.atom, x.conj},
               NEW q \in Joined(s, op, L, R)
        PROVE  Builds(q.expr)
    <3>1. PICK l \in L, r \in R : q = Phrase(l.from, r.to, Logic(op, l.expr, r.expr)) BY JoinedIs
    <3> DEFINE e == Logic(op, l.expr, r.expr)
    <3>2. Builds(l.expr) /\ Builds(r.expr) BY <2>1
    <3>3. Builds(e) BY <3>2, BuildsLogic
    <3>4. q = Phrase(l.from, r.to, e) BY <3>1
    <3> HIDE DEF e
    <3> QED BY <3>3, <3>4, PhraseFields
  <2>4. U[k] = LongerPhrases(s, x) BY <1>2 DEF x
  <2>5. /\ U[k].atom = Comparisons(s) \cup InParentheses(s, x.disj)
        /\ U[k].conj = U[k].atom \cup Joined(s, "and", x.conj, x.atom)
        /\ U[k].disj = U[k].conj \cup Joined(s, "or", x.disj, x.conj)
    BY <2>4, LongerPhrasesHas
  <2>6. \A q \in Comparisons(s) : Builds(q.expr) BY ComparisonsBuild
  <2>7. \A q \in Joined(s, "and", x.conj, x.atom) \cup Joined(s, "or", x.disj, x.conj) :
          Builds(q.expr)
    BY <2>3
  <2> QED BY <2>2, <2>5, <2>6, <2>7
<1>6. 0..N \subseteq S
  <2> HIDE DEF S
  <2> QED BY <1>1, <1>4, <1>5, InductUpTo
<1> QED BY <1>6 DEF U

\* FilterToSQL runs build from an empty builder.
LEMMA FilterToSQLAdds ==
  ASSUME NEW e, Builds(e)
  PROVE  Adds(NewBuilder, e, FilterToSQL(e))
<1> DEFINE g == Built(e)
           N == Len(e)
<1>1. N \in Nat BY DEF Builds
<1>2. /\ g[0] = NewBuilder /\ \A k \in 1..N : g[k] = Build(g[k - 1], e[k])
      /\ FilterToSQL(e) = g[N]
  BY <1>1, BuiltFollows
<1> HIDE DEF g
<1>3. NewBuilder \in Builder /\ NewBuilder.ok
  <2>1. <<>> \in Seq(Literal) /\ <<>> \in Seq(Seq(SqlToken)) OBVIOUS
  <2> QED BY <2>1 DEF NewBuilder, Builder
<1>4. \A k \in 1..N : g[0 + k] = Build(g[(0 + k) - 1], e[k])
  <2>1. \A k \in 1..N : 0 + k = k OBVIOUS
  <2> QED BY <2>1, <1>2
<1>5. Adds(g[0], e, g[0 + N]) BY <1>2, <1>3, <1>4 DEF Builds
<1>6. 0 + N = N BY <1>1
<1> QED BY <1>2, <1>5, <1>6

\* The query of List, whose first placeholder is its own and whose others were shifted by
\* one, is read as the caller's provider and the filter.
LEMMA QueryMeans ==
  ASSUME NEW V, NEW q, NEW e, NEW b, b.args \in Seq(V), b.sqls = <<q>>, Spells(q, b.args, e)
  PROVE  Grammar(Bound(List(b).sql, List(b).args)) = {Logic("and", OfProvider, e)}
<1> DEFINE A == b.args
           n == Len(q)
           h == ShiftPlaceholders(q, 1)
           x1 == Tok("ident", "provider")
           x2 == Tok("op", "eq")
           x3 == Placeholder(1)
           x4 == Tok("and", "")
           first == <<x1, x2, x3, x4>>
           sql == first \o h
           args == <<"caller">> \o A
           X == SqlToken \cup {x1, x2, x3, x4}
           t == Bound(sql, args)
<1>1. List(b).sql = sql /\ List(b).args = args
  <2>1. b.sqls[1] = q OBVIOUS
  <2> QED BY <2>1 DEF List
<1>2. q \in Seq(SqlToken) /\ n \in Nat /\ \A i \in 1..n : q[i].kind = "$" => q[i].v \in 1..Len(A)
  BY DEF Spells
<1>3. ASSUME NEW i \in 1..n PROVE q[i] \in SqlToken /\ q[i].kind \in SqlKind
  <2>1. q[i] \in SqlToken BY <1>2
  <2> QED BY <2>1 DEF SqlToken
<1>4. /\ x1.kind = "ident" /\ x1.v = "provider" /\ x2.kind = "op" /\ x2.v = "eq"
      /\ x3.kind = "$" /\ x3.v = 1 /\ x4.kind = "and"
  BY DEF Tok, Placeholder
<1>5. /\ args[1] = "caller"
      /\ \A i \in 1..Len(A) : args[i + 1] = A[i]
  OBVIOUS
<1>6. /\ h \in Seq(SqlToken) /\ Len(h) = n
      /\ \A i \in 1..n : h[i] = IF q[i].kind = "$" THEN Placeholder(q[i].v + 1) ELSE q[i]
  <2>1. DOMAIN h = 1..n BY <1>2 DEF ShiftPlaceholders
  <2>2. \A i \in 1..n : h[i] = IF q[i].kind = "$" THEN Placeholder(q[i].v + 1) ELSE q[i]
    BY <1>2 DEF ShiftPlaceholders
  <2>3. ASSUME NEW i \in 1..n PROVE h[i] \in SqlToken
    <3>1. CASE q[i].kind # "$" BY <3>1, <2>2, <1>3
    <3>2. CASE q[i].kind = "$"
      <4> DEFINE k == q[i].v + 1
      <4>1. k \in Nat BY <1>2, <3>2
      <4>2. h[i] = Placeholder(k) BY <2>2, <3>2
      <4> HIDE DEF k
      <4>3. Placeholder(k) \in SqlToken BY <4>1 DEF Placeholder, Tok, SqlToken, SqlKind
      <4> QED BY <4>2, <4>3
    <3> QED BY <3>1, <3>2
  <2>4. h = [i \in 1..n |-> h[i]] BY <2>1 DEF ShiftPlaceholders
  <2> HIDE DEF h
  <2>5. h \in [1..n -> SqlToken] BY <2>3, <2>4
  <2> QED BY <2>2, <2>5, <1>2
<1> HIDE DEF h, x1, x2, x3, x4, args, n
<1>7. /\ first \in Seq(X) /\ Len(first) = 4
      /\ first[1] = x1 /\ first[2] = x2 /\ first[3] = x3 /\ first[4] = x4
  OBVIOUS
<1> HIDE DEF first
<1>8. /\ sql \in Seq(X) /\ Len(sql) = 4 + n
      /\ sql[1] = x1 /\ sql[2] = x2 /\ sql[3] = x3 /\ sql[4] = x4
      /\ \A i \in 1..n : sql[4 + i] = h[i]
  <2>1. h \in Seq(X)
    <3>1. SqlToken \subseteq X OBVIOUS
    <3> HIDE DEF X
    <3> QED BY <3>1, <1>6
  <2> HIDE DEF X
  <2>2. /\ sql \in Seq(X) /\ Len(sql) = 4 + n
        /\ \A i \in 1..(4 + n) : sql[i] = IF i <= 4 THEN first[i] ELSE h[i - 4]
    <3>1. first \in Seq(X) BY <1>7
    <3>2. /\ sql \in Seq(X) /\ Len(sql) = Len(first) + Len(h)
          /\ \A i \in 1..(Len(first) + Len(h)) :
               sql[i] = IF i <= Len(first) THEN first[i] ELSE h[i - Len(first)]
      BY <2>1, <3>1, ConcatProperties
    <3> QED BY <3>2, <1>6, <1>7
  <2>3. 1 \in 1..(4 + n) /\ 2 \in 1..(4 + n) /\ 3 \in 1..(4 + n) /\ 4 \in 1..(4 + n) BY <1>2
  <2>4. \A i \in 1..n : 4 + i \in 1..(4 + n) /\ ~(4 + i <= 4) /\ (4 + i) - 4 = i BY <1>2
  <2> HIDE DEF sql
  <2>5. sql[1] = x1 /\ sql[2] = x2 /\ sql[3] = x3 /\ sql[4] = x4 BY <2>2, <2>3, <1>7
  <2>6. ASSUME NEW i \in 1..n PROVE sql[4 + i] = h[i] BY <2>2, <2>4
  <2> QED BY <2>2, <2>5, <2>6
<1> HIDE DEF sql, X
<1> DEFINE T == {InPlace(sql[i], args) : i \in 1..Len(sql)}
<1>9. t \in Seq(T) /\ Len(t) = 4 + n /\ \A i \in 1..(4 + n) : t[i] = InPlace(sql[i], args)
  BY <1>8, BoundIs
<1> HIDE DEF T, t
<1>10. /\ t[1] = x1 /\ t[2] = x2 /\ t[3] = Tok("value", "caller") /\ t[4] = x4
       /\ \A i \in 1..n : t[4 + i] = Bound(q, A)[i]
  <2>1. 1 \in 1..(4 + n) /\ 2 \in 1..(4 + n) /\ 3 \in 1..(4 + n) /\ 4 \in 1..(4 + n) BY <1>2
  <2>2. t[1] = x1 /\ t[2] = x2 /\ t[3] = Tok("value", "caller") /\ t[4] = x4
    BY <2>1, <1>4, <1>5, <1>8, <1>9 DEF InPlace
  <2>3. ASSUME NEW i \in 1..n PROVE t[4 + i] = Bound(q, A)[i]
    <3>1. 4 + i \in 1..(4 + n) BY <1>2
    <3>2. t[4 + i] = InPlace(h[i], args) BY <3>1, <1>8, <1>9
    <3>3. Bound(q, A)[i] = InPlace(q[i], A) BY <1>2, BoundIs DEF n
    <3>4. InPlace(h[i], args) = InPlace(q[i], A)
      <4>1. CASE q[i].kind # "$" BY <4>1, <1>6 DEF InPlace
      <4>2. CASE q[i].kind = "$"
        <5> DEFINE k == q[i].v
        <5>1. h[i] = Placeholder(k + 1) /\ k \in 1..Len(A) BY <4>2, <1>2, <1>6
        <5>2. args[k + 1] = A[k] BY <5>1, <1>5
        <5>3. Placeholder(k + 1).kind = "$" /\ Placeholder(k + 1).v = k + 1
          <6> DEFINE m == k + 1
          <6> HIDE DEF m
          <6>1. Placeholder(m).kind = "$" /\ Placeholder(m).v = m BY DEF Placeholder, Tok
          <6> QED BY <6>1 DEF m
        <5> QED BY <4>2, <5>1, <5>2, <5>3 DEF InPlace
      <4> QED BY <4>1, <4>2
    <3> QED BY <3>2, <3>3, <3>4
  <2> QED BY <2>2, <2>3
<1>11. \A i \in DOMAIN t : t[i].kind # EOF
  <2> SUFFICES ASSUME NEW i \in 1..(4 + n) PROVE t[i].kind # EOF BY <1>9
  <2>1. \A x : x.kind # EOF => InPlace(x, args).kind # EOF BY TokIs DEF InPlace, EOF
  <2>2. sql[i].kind # EOF
    <3>1. CASE i \in 1..4 BY <3>1, <1>4, <1>8 DEF EOF
    <3>2. CASE i > 4
      <4>1. i - 4 \in 1..n /\ i = 4 + (i - 4) BY <3>2, <1>2
      <4>2. sql[i] = h[i - 4] BY <4>1, <1>8
      <4>3. h[i - 4] \in SqlToken BY <4>1, <1>6
      <4>4. h[i - 4].kind \in SqlKind BY <4>3 DEF SqlToken
      <4> QED BY <4>2, <4>4 DEF SqlKind, EOF
    <3> QED BY <3>1, <3>2
  <2> QED BY <2>1, <2>2, <1>9
<1>12. Phrase(5, 5 + n, e) \in Phrases(t).atom
  <2>1. ASSUME NEW i \in 1..n PROVE t[5 + (i - 1)] = Bound(q, A)[i]
    <3>1. 5 + (i - 1) = 4 + i BY <1>2
    <3> QED BY <3>1, <1>10
  <2>2. At(t, 5, q, A) BY <2>1, <1>2, <1>9 DEF At, n
  <2> QED BY <2>2, <1>9 DEF Spells, n
<1>13. Phrase(1, 4, OfProvider) \in Comparisons(t)
  <2> DEFINE x == Phrase(1, 2, <<"provider">>)
  <2>1. 1 \in DOMAIN t /\ 2 \in DOMAIN t /\ 3 \in DOMAIN t BY <1>2, <1>9
  <2>2. t[1].kind = "ident" /\ t[1].v = "provider" /\ 1 + 1 = 2 BY <1>4, <1>10
  <2>3. x \in AttrPaths(t) BY <2>1, <2>2 DEF AttrPaths
  <2>4. x.from = 1 /\ x.to = 2 /\ x.expr = <<"provider">> BY PhraseFields
  <2> HIDE DEF x
  <2>5. /\ KindAt(t, 2) = "op" /\ t[2].v = "eq" /\ 2 + 1 = 3 /\ 2 + 2 = 4
        /\ KindAt(t, 3) = "value" /\ t[3].v = "caller"
    BY <2>1, <1>4, <1>10, TokIs DEF KindAt
  <2>6. Phrase(x.from, x.to + 2, Atom(x.expr, t[x.to].v, t[x.to + 1].v)) \in Comparisons(t)
    BY <2>3, <2>4, <2>5 DEF Comparisons
  <2>7. Phrase(1, 4, Atom(<<"provider">>, t[2].v, t[3].v)) \in Comparisons(t) BY <2>4, <2>5, <2>6
  <2> QED BY <2>5, <2>7 DEF OfProvider
<1>14. Logic("and", OfProvider, e) \in Grammar(t)
  <2> DEFINE P == Phrases(t)
             o == OfProvider
             l == Phrase(1, 4, o)
             r == Phrase(5, 5 + n, e)
             f == Logic("and", o, e)
             x == Phrase(1, 5 + n, f)
  <2>1. /\ Comparisons(t) \subseteq P.atom /\ P.atom \subseteq P.conj /\ P.conj \subseteq P.disj
        /\ Joined(t, "and", P.conj, P.atom) \subseteq P.conj
    BY <1>9, PhrasesHave
  <2>2. l \in P.conj /\ r \in P.atom BY <2>1, <1>12, <1>13
  <2>3. /\ l.from = 1 /\ l.to = 4 /\ l.expr = o /\ r.from = 5 /\ r.to = 5 + n /\ r.expr = e
        /\ x.from = 1 /\ x.to = 5 + n /\ x.expr = f
    BY PhraseFields
  <2>4. KindAt(t, 4) = "and" /\ 5 = 4 + 1
    <3>1. 4 \in DOMAIN t BY <1>2, <1>9
    <3> QED BY <3>1, <1>4, <1>10 DEF KindAt
  <2> HIDE DEF l, r, P, o
  <2>5. Phrase(l.from, r.to, Logic("and", l.expr, r.expr)) \in Joined(t, "and", P.conj, P.atom)
    BY <2>2, <2>3, <2>4 DEF Joined
  <2>6. x \in P.disj BY <2>1, <2>3, <2>5
  <2> HIDE DEF x
  <2>7. 5 + n = Len(t) + 1 BY <1>2, <1>9
  <2>8. f \in Grammar(t) BY <2>3, <2>6, <2>7 DEF Grammar, P
  <2> QED BY <2>8 DEF o
<1>15. Grammar(t) = IF Parse(t).ok THEN {Parse(t).expr} ELSE {} BY <1>9, <1>11, ParseIsGrammar
<1>16. Grammar(t) = {Logic("and", OfProvider, e)} BY <1>14, <1>15
<1> QED BY <1>1, <1>16 DEF t

\* Every list of tokens has the property.
LEMMA FilterMeans ==
  ASSUME tokens \in Seq(Token)
  PROVE  SqlMeansFilter
<1> DEFINE r == Parse(tokens)
           e == r.expr
           b == FilterToSQL(e)
<1>1. \A i \in DOMAIN tokens : tokens[i].kind # EOF
  <2>1. \A i \in DOMAIN tokens : tokens[i] \in Token OBVIOUS
  <2> QED BY <2>1, TokenIs
<1>2. Grammar(tokens) = IF r.ok THEN {e} ELSE {} BY <1>1, ParseIsGrammar
<1> HIDE DEF r
<1>3. ASSUME r.ok
      PROVE  /\ b.ok <=> \A n \in Range(e) : n.node = "atom" => Translatable(n)
             /\ b.ok => Grammar(Bound(List(b).sql, List(b).args)) = {Logic("and", OfProvider, e)}
  <2>1. e \in Grammar(tokens) BY <1>2, <1>3
  <2>2. Builds(e)
    <3>1. PICK p \in Phrases(tokens).disj : e = p.expr BY <2>1 DEF Grammar
    <3>2. Len(tokens) \in 0..Len(tokens) /\ Phrases(tokens) = UpTo(tokens)[Len(tokens)]
      BY PhrasesFollow
    <3> QED BY <3>1, <3>2, PhrasesBuild
  <2>3. Adds(NewBuilder, e, b) BY <2>2, FilterToSQLAdds
  <2>4. e \in Seq(Node) BY <2>2 DEF Builds
  <2> HIDE DEF b, e
  <2>5. AllTranslatable(e) <=> \A n \in Range(e) : n.node = "atom" => Translatable(n)
    BY <2>4 DEF AllTranslatable, Range
  <2>6. CASE ~AllTranslatable(e) BY <2>3, <2>5, <2>6 DEF Adds
  <2>7. CASE AllTranslatable(e)
    <3>1. Pushes(NewBuilder, e, b) BY <2>3, <2>7 DEF Adds
    <3>2. PICK q : Spells(q, b.args, e) /\ b.sqls = Append(NewBuilder.sqls, q) BY <3>1 DEF Pushes
    <3>3. b.sqls = <<q>>
      <4>1. q \in Seq(SqlToken) BY <3>2 DEF Spells
      <4>2. NewBuilder.sqls = <<>> BY DEF NewBuilder
      <4> QED BY <3>2, <4>1, <4>2
    <3>4. b.ok /\ b.args \in Seq(Literal) BY <3>1 DEF Pushes, Builder
    <3>5. Grammar(Bound(List(b).sql, List(b).args)) = {Logic("and", OfProvider, e)}
      BY <3>2, <3>3, <3>4, QueryMeans
    <3> QED BY <3>4, <3>5, <2>5, <2>7
  <2> QED BY <2>6, <2>7
<1> QED BY <1>2, <1>3 DEF SqlMeansFilter, r

\* The list of no tokens is a list of tokens.
LEMMA TokensInit == FilterInit => tokens \in Seq(Token)
BY DEF FilterInit

\* With one more token it is one too.
LEMMA TokensNext == tokens \in Seq(Token) /\ [FilterNext]_filterVars => (tokens \in Seq(Token))'
BY DEF FilterNext, NextToken, filterVars

\* Parser and translation keep the meaning of every filter, of any length: one reading or a
\* refusal, and a condition that is read as that reading, its values at their placeholders
\* (parser/filter.go Parse, users/filter.go FilterToSQL, users/repository.go List).
THEOREM FiltersMeanThemselves == FilterSpec => []SqlMeansFilter
<1>1. tokens \in Seq(Token) => SqlMeansFilter BY FilterMeans
<1> QED BY <1>1, TokensInit, TokensNext, PTL DEF FilterSpec

(***************************************************************************)
(* PATCH: lists of members.                                                *)
(***************************************************************************)

\* mergeMembers adds what is missing, and nothing twice.
LEMMA MergeMembersAdds ==
  ASSUME NEW M, NEW base \in Seq(M), NEW toAdd \in Seq(M), IsInjective(base)
  PROVE  /\ MergeMembers(base, toAdd) \in Seq(M)
         /\ IsInjective(MergeMembers(base, toAdd))
         /\ Range(MergeMembers(base, toAdd)) = Range(base) \cup Range(toAdd)
<1> DEFINE m == Merged(base, toAdd)
<1>1. /\ m[0] = base
      /\ \A n \in 1..Len(toAdd) : m[n] = Merged1(m[n - 1], toAdd[n])
      /\ MergeMembers(base, toAdd) = m[Len(toAdd)]
  BY MergedFollows
<1> HIDE DEF m
<1> DEFINE N == Len(toAdd)
           Added(n) == {toAdd[i] : i \in 1..n}
           Good(n) == /\ m[n] \in Seq(M) /\ IsInjective(m[n])
                      /\ Range(m[n]) = Range(base) \cup Added(n)
           S == {n \in 0..N : Good(n)}
<1>2. N \in Nat OBVIOUS
<1>3. 0 \in S BY <1>1, <1>2
<1>4. ASSUME NEW n \in 1..N, n - 1 \in S PROVE n \in S
  <2>1. Good(n - 1) BY <1>4
  <2>2. toAdd[n] \in M BY <1>2
  <2>3. Added(n) = Added(n - 1) \cup {toAdd[n]}
    <3>1. 1..n = (1..(n - 1)) \cup {n} BY <1>2
    <3> QED BY <3>1
  <2> HIDE DEF Added
  <2>4. CASE toAdd[n] \in Range(m[n - 1])
    <3>1. m[n] = m[n - 1] BY <1>1, <2>4 DEF Merged1
    <3> QED BY <3>1, <2>1, <2>3, <2>4
  <2>5. CASE toAdd[n] \notin Range(m[n - 1])
    <3> DEFINE l == m[n - 1]
               x == toAdd[n]
    <3>1. m[n] = Append(l, x) BY <1>1, <2>5 DEF Merged1
    <3>2. l \in Seq(M) /\ x \in M /\ x \notin Range(l) /\ IsInjective(l) BY <2>1, <2>2, <2>5
    <3> HIDE DEF l, x
    <3>3. /\ Append(l, x) \in Seq(M)
          /\ DOMAIN Append(l, x) = 1..(Len(l) + 1)
          /\ \A i \in 1..Len(l) : Append(l, x)[i] = l[i]
          /\ Append(l, x)[Len(l) + 1] = x
          /\ DOMAIN l = 1..Len(l) /\ Len(l) \in Nat
      BY <3>2
    <3>4. IsInjective(Append(l, x)) BY <3>2, <3>3 DEF IsInjective, Range
    <3>5. Range(Append(l, x)) = Range(l) \cup {x} BY <3>3 DEF Range
    <3>6. Good(n) BY <3>1, <3>3, <3>4, <3>5, <2>1, <2>3 DEF l, x
    <3> QED BY <3>6
  <2> QED BY <2>4, <2>5
<1>5. N \in S
  <2> HIDE DEF S, N
  <2>1. 0..N \subseteq S BY <1>2, <1>3, <1>4, InductUpTo
  <2> QED BY <2>1, <1>2
<1>6. Added(N) = Range(toAdd) BY DEF Range
<1> QED BY <1>1, <1>5, <1>6

\* dedupMembers keeps the members, each once.
LEMMA DedupMembersKeeps ==
  ASSUME NEW M, NEW in \in Seq(M)
  PROVE  /\ DedupMembers(in) \in Seq(M)
         /\ IsInjective(DedupMembers(in))
         /\ Range(DedupMembers(in)) = Range(in)
<1> DEFINE e == <<>>
<1>1. e \in Seq(M) /\ IsInjective(e) BY DEF IsInjective
<1>2. Range(e) = {} BY DEF Range
<1>3. DedupMembers(in) = MergeMembers(e, in) BY DEF DedupMembers
<1> HIDE DEF e
<1>4. /\ MergeMembers(e, in) \in Seq(M)
      /\ IsInjective(MergeMembers(e, in))
      /\ Range(MergeMembers(e, in)) = Range(e) \cup Range(in)
  BY <1>1, MergeMembersAdds
<1> QED BY <1>2, <1>3, <1>4

\* removeMember takes out the one given and leaves the others.
LEMMA RemoveMemberRemoves ==
  ASSUME NEW M, NEW l \in Seq(M), IsInjective(l), NEW m
  PROVE  /\ RemoveMember(l, m) \in Seq(M)
         /\ IsInjective(RemoveMember(l, m))
         /\ Range(RemoveMember(l, m)) = Range(l) \ {m}
<1>0. DOMAIN l = 1..Len(l) /\ Len(l) \in Nat OBVIOUS
<1>1. CASE m \notin Range(l)
  BY <1>1 DEF RemoveMember
<1>2. CASE m \in Range(l)
  <2> DEFINE Is(i) == l[i] = m /\ \A j \in 1..(i - 1) : l[j] # m
             k == CHOOSE i \in DOMAIN l : Is(i)
             r == RemoveAt(l, k)
  <2>1. RemoveMember(l, m) = r BY <1>2 DEF RemoveMember
  <2>2. \E i \in DOMAIN l : Is(i)
    <3>1. PICK i \in DOMAIN l : l[i] = m BY <1>2 DEF Range
    <3>2. \A j \in 1..(i - 1) : j \in DOMAIN l /\ j # i BY <1>0
    <3>3. Is(i) BY <3>1, <3>2 DEF IsInjective
    <3> QED BY <3>3
  <2>3. k \in DOMAIN l /\ l[k] = m BY <2>2
  <2> HIDE DEF k
  <2>4. k \in 1..Len(l) BY <2>3, <1>0
  <2> DEFINE a == SubSeq(l, 1, k - 1)
             b == SubSeq(l, k + 1, Len(l))
  <2>5. /\ a \in Seq(M) /\ Len(a) = k - 1 /\ \A i \in 1..(k - 1) : a[i] = l[i]
        /\ b \in Seq(M) /\ Len(b) = Len(l) - k /\ \A i \in 1..(Len(l) - k) : b[i] = l[k + i]
    BY <2>4
  <2> HIDE DEF a, b
  <2>6. /\ r \in Seq(M) /\ Len(r) = Len(l) - 1
        /\ \A i \in 1..(Len(l) - 1) : r[i] = IF i < k THEN l[i] ELSE l[i + 1]
    <3>1. r = a \o b BY DEF RemoveAt, a, b
    <3>2. /\ a \o b \in Seq(M) /\ Len(a \o b) = Len(a) + Len(b)
          /\ \A i \in 1..(Len(a) + Len(b)) :
                (a \o b)[i] = IF i <= Len(a) THEN a[i] ELSE b[i - Len(a)]
      BY <2>5, ConcatProperties
    <3>3. ASSUME NEW i \in 1..(Len(l) - 1) PROVE (a \o b)[i] = IF i < k THEN l[i] ELSE l[i + 1]
      <4>1. CASE i < k BY <4>1, <3>2, <2>4, <2>5
      <4>2. CASE ~(i < k)
        <5>1. i - (k - 1) \in 1..(Len(l) - k) /\ k + (i - (k - 1)) = i + 1 BY <4>2, <2>4
        <5>2. b[i - (k - 1)] = l[i + 1] BY <5>1, <2>5
        <5> QED BY <4>2, <3>2, <2>4, <2>5, <5>2
      <4> QED BY <4>1, <4>2
    <3> QED BY <3>1, <3>2, <3>3, <2>4, <2>5
  <2> HIDE DEF r
  <2>7. DOMAIN r = 1..(Len(l) - 1) BY <2>6
  <2> DEFINE to(i) == IF i < k THEN i ELSE i + 1
  <2>8. \A i \in DOMAIN r : to(i) \in DOMAIN l /\ to(i) # k /\ r[i] = l[to(i)]
    BY <2>4, <2>6, <2>7, <1>0
  <2>9. \A i, j \in DOMAIN r : to(i) = to(j) => i = j BY <2>4, <2>7
  <2>10. \A j \in DOMAIN l : j # k => \E i \in DOMAIN r : to(i) = j
    <3> SUFFICES ASSUME NEW j \in DOMAIN l, j # k PROVE \E i \in DOMAIN r : to(i) = j OBVIOUS
    <3>1. CASE j < k BY <3>1, <2>4, <2>7, <1>0
    <3>2. CASE j > k
      <4>1. j - 1 \in DOMAIN r /\ to(j - 1) = j BY <3>2, <2>4, <2>7, <1>0
      <4> QED BY <4>1
    <3> QED BY <3>1, <3>2, <2>4, <1>0
  <2> HIDE DEF to
  <2>11. IsInjective(r) BY <2>8, <2>9 DEF IsInjective
  <2>12. Range(r) = Range(l) \ {m}
    <3>1. \A j \in DOMAIN l : l[j] = m <=> j = k BY <2>3 DEF IsInjective
    <3> QED BY <2>8, <2>10, <3>1, <2>3 DEF Range
  <2> QED BY <2>1, <2>6, <2>11, <2>12
<1> QED BY <1>1, <1>2

(***************************************************************************)
(* PATCH: the inductive invariant, which the property is but for the types.*)
(***************************************************************************)

PatchTypeOK ==
  /\ given \in Seq(Member) /\ out \in Seq(Member) /\ change \in Change
  /\ stored \in Props /\ props \in Props /\ said \in [Attribute -> PropValue \cup {Absent, Keep}]

PatchInv == PatchTypeOK /\ PatchIsChange

\* A sequence of bounded length is a sequence.
LEMMA Bounded == ASSUME NEW S, NEW n \in Nat PROVE BoundedSeq(S, n) \subseteq Seq(S)
BY DEF BoundedSeq, SeqOf

\* The lists of members are sequences.
LEMMA ListsAreSequences == Lists \subseteq Seq(Member)
<1>1. Cardinality(Member) \in Nat BY PatchAssumption, FS_CardinalityType
<1> QED BY <1>1, Bounded DEF Lists

\* The values of an operation are sequences.
LEMMA ValuesAreSequences == Value \subseteq Seq(Member)
BY Bounded, PatchAssumption DEF Value

\* A request starts with what is stored and no change.
LEMMA PatchInvInit == PatchInit => PatchInv
<1> SUFFICES ASSUME PatchInit PROVE PatchInv OBVIOUS
<1>1. given \in Seq(Member) /\ out = given /\ IsInjective(given)
  BY ListsAreSequences DEF PatchInit, Lists
<1>2. change \in Change /\ Effect(change, Range(given)) = Range(given)
      /\ change.drop = {} /\ change.add = {} /\ change.keep
  BY DEF PatchInit, NoChange, Change, Effect
<1>3. stored \in Props /\ props = stored /\ said \in [Attribute -> PropValue \cup {Absent, Keep}]
      /\ \A p \in Attribute : said[p] = Keep
  BY DEF PatchInit, Props
<1> QED BY <1>1, <1>2, <1>3 DEF PatchInv, PatchTypeOK, PatchIsChange

\* An operation on the members need only show that its list is what its change says.
LEMMA MembersChanged ==
  ASSUME PatchInv, NEW l \in Seq(Member), NEW c \in Change, OfMembers(l, c), IsInjective(l),
         Range(l) = Effect(c, Range(given)), c.drop \cap c.add = {}, ~c.keep => c.drop = {}
  PROVE  PatchInv'
BY DEF PatchInv, PatchTypeOK, PatchIsChange, OfMembers, Range, Effect, IsInjective, Props

\* Every operation keeps the invariant.
LEMMA PatchInvNext == PatchInv /\ [PatchNext]_patchVars => PatchInv'
<1> SUFFICES ASSUME PatchInv, [PatchNext]_patchVars PROVE PatchInv' OBVIOUS
<1>1. /\ out \in Seq(Member) /\ IsInjective(out) /\ Range(out) = Effect(change, Range(given))
      /\ change \in Change /\ change.drop \cap change.add = {} /\ (~change.keep => change.drop = {})
  BY DEF PatchInv, PatchTypeOK, PatchIsChange
<1>2. ASSUME NEW v \in Value, AddMembers(v) PROVE PatchInv'
  <2> DEFINE c == [change EXCEPT !.drop = @ \ Range(v), !.add = @ \cup Range(v)]
             l == MergeMembers(out, v)
  <2>1. v \in Seq(Member) BY ValuesAreSequences
  <2>2. Range(v) \subseteq Member BY <2>1 DEF Range
  <2>3. l \in Seq(Member) /\ IsInjective(l) /\ Range(l) = Range(out) \cup Range(v)
    BY <1>1, <2>1, MergeMembersAdds
  <2>4. /\ c \in Change /\ c.keep = change.keep /\ c.drop = change.drop \ Range(v)
        /\ c.add = change.add \cup Range(v)
    BY <1>1, <2>2 DEF Change
  <2>5. OfMembers(l, c) BY <1>2 DEF AddMembers
  <2> HIDE DEF c, l
  <2>6. Range(l) = Effect(c, Range(given)) BY <1>1, <2>3, <2>4 DEF Effect
  <2> QED BY <1>1, <2>3, <2>4, <2>5, <2>6, MembersChanged
<1>3. ASSUME NEW v \in Value, ReplaceMembers(v) PROVE PatchInv'
  <2> DEFINE c == [keep |-> FALSE, drop |-> {}, add |-> Range(v)]
             l == DedupMembers(v)
  <2>1. v \in Seq(Member) BY ValuesAreSequences
  <2>2. Range(v) \subseteq Member BY <2>1 DEF Range
  <2>4. l \in Seq(Member) /\ IsInjective(l) /\ Range(l) = Range(v)
    BY <2>1, DedupMembersKeeps
  <2>5. c \in Change /\ ~c.keep /\ c.drop = {} /\ c.add = Range(v) BY <2>2 DEF Change
  <2>6. OfMembers(l, c) BY <1>3 DEF ReplaceMembers
  <2> HIDE DEF c, l
  <2>7. Range(l) = Effect(c, Range(given)) BY <2>4, <2>5 DEF Effect
  <2> QED BY <2>4, <2>5, <2>6, <2>7, MembersChanged
<1>4. CASE RemoveMembers
  <2> DEFINE c == [keep |-> FALSE, drop |-> {}, add |-> {}]
             l == <<>>
  <2>1. l \in Seq(Member) /\ IsInjective(l) /\ Range(l) = {} BY DEF IsInjective, Range
  <2>2. c \in Change /\ ~c.keep /\ c.drop = {} /\ c.add = {} BY DEF Change
  <2>3. OfMembers(l, c) BY <1>4 DEF RemoveMembers
  <2> HIDE DEF c, l
  <2>4. Range(l) = Effect(c, Range(given)) BY <2>1, <2>2 DEF Effect
  <2> QED BY <2>1, <2>2, <2>3, <2>4, MembersChanged
<1>5. ASSUME NEW m \in Member, RemoveOne(m) PROVE PatchInv'
  <2> DEFINE c == [change EXCEPT !.drop = IF change.keep THEN @ \cup {m} ELSE @, !.add = @ \ {m}]
             l == RemoveMember(out, m)
  <2>1. l \in Seq(Member) /\ IsInjective(l) /\ Range(l) = Range(out) \ {m}
    BY <1>1, RemoveMemberRemoves
  <2>2. /\ c \in Change /\ c.keep = change.keep /\ c.add = change.add \ {m}
        /\ c.drop = IF change.keep THEN change.drop \cup {m} ELSE change.drop
    BY <1>1 DEF Change
  <2>3. OfMembers(l, c) BY <1>5 DEF RemoveOne
  <2> HIDE DEF c, l
  <2>4. Range(l) = Effect(c, Range(given)) BY <1>1, <2>1, <2>2 DEF Effect
  <2> QED BY <1>1, <2>1, <2>2, <2>3, <2>4, MembersChanged
<1>6. ASSUME NEW op \in {"add", "replace", "remove"}, NEW p \in Attribute,
             NEW x \in PropValue \cup {Absent}, SetAttribute(op, p, x)
      PROVE  PatchInv'
  <2>1. x # Keep BY PatchAssumption
  <2> QED BY <1>6, <2>1
     DEF SetAttribute, PatchInv, PatchTypeOK, PatchIsChange, Props, Range, Effect, IsInjective
<1>7. CASE UNCHANGED patchVars
  BY <1>7 DEF patchVars, PatchInv, PatchTypeOK, PatchIsChange, Range, Effect, IsInjective
<1> QED BY <1>2, <1>3, <1>4, <1>5, <1>6, <1>7 DEF PatchNext

\* A PATCH of any number of operations comes to one change of the members, without duplicates,
\* and leaves alone what it does not speak of (groups/patch.go and users/patch.go ApplyPatch).
THEOREM PatchesAreChanges == PatchSpec => []PatchIsChange
<1>1. PatchInv => PatchIsChange BY DEF PatchInv
<1> QED BY <1>1, PatchInvInit, PatchInvNext, PTL DEF PatchSpec
=============================================================================
