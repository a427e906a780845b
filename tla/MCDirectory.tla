---------------------------- MODULE MCDirectory ----------------------------
(***************************************************************************)
(* Instances of Directory for TLC.                                         *)
(***************************************************************************)
EXTENDS Directory, TLC

CONSTANTS nS, n1, v1, v2, d1, d2, m1, o0, o1

\* The second document is stricter; the second object declares a relation to
\* systems.
MCValidOne == d1 :> {v1} @@ d2 :> {}
MCValidTwo == d1 :> {v1, v2} @@ d2 :> {v1}
MCTargets == o0 :> (m1 :> {}) @@ o1 :> (m1 :> {nS})

Symmetry == Permutations(Entity) \cup Permutations(Request) \cup Permutations(TypeId \ {SystemType})

\* The seeded type may be deleted and created again under another id, but is
\* not revised: the other types are.
SystemUnrevised ==
  type[SystemType].exists => type[SystemType].doc = SystemDoc /\ type[SystemType].rels = NoRelations

\* "Built-in types cannot be deleted or have their schema modified through the
\* API" (docs/data-model.md:142): nothing in entitytype reads is_builtin.
BuiltinTypeKept ==
  /\ type[SystemType].exists
  /\ type[SystemType].doc = SystemDoc /\ type[SystemType].rels = NoRelations
=============================================================================
