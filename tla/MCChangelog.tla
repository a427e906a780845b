----------------------------- MODULE MCChangelog ----------------------------
(***************************************************************************)
(* Instances of Changelog: entity 1 is global, entity 2 belongs to the     *)
(* first system, entity 3 to the second.                                   *)
(***************************************************************************)
EXTENDS Changelog, TLC

CONSTANTS s1, s2, a, b, w1, w2, MaxWrites

Homes == [x \in Entity |-> IF x = 1 THEN None ELSE IF x = 2 THEN s1 ELSE s2]

Symmetric == Permutations({w1, w2})

\* The readers do not affect each other: one of them at a time.
Bounded ==
  /\ Cardinality(log) <= MaxWrites
  /\ export = NotExporting \/ (got = {} /\ cursor = [since |-> 0, offset |-> 0])
\* docs/requirements.md:79 (FR-SYN-001): "iterating all pages yields the complete dataset".
IteratingYieldsAll ==
  ~export.on /\ export.cuts = 0 => export.base \subseteq export.got
=============================================================================
