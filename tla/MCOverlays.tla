----------------------------- MODULE MCOverlays -----------------------------
(***************************************************************************)
(* Instances of Overlays for TLC.                                          *)
(***************************************************************************)
EXTENDS Overlays, TLC

CONSTANTS n1, n2, k1, k2, v1, v2, d1, d2, e1, t1

MCPrefixed == n1 :> {k1} @@ n2 :> {k2}
MCPrefixedOne == n1 :> {k1}
MCTypeOf == e1 :> t1

\* One name: the second document is stricter than the first.
MCKeysInOne == v1 :> {k1} @@ v2 :> {k1} @@ d1 :> {k1} @@ d2 :> {k1}
MCValidOne == d1 :> {v1, v2} @@ d2 :> {v1}

\* Two names: a document and a value for each.
MCKeysInTwo == v1 :> {k1} @@ v2 :> {k2} @@ d1 :> {k1} @@ d2 :> {k2}
MCValidTwo == d1 :> {v1, v2} @@ d2 :> {v1, v2}

Symmetry == Permutations(System) \cup Permutations(Request) \cup Permutations(Schema)

\* NamespacesDisjoint says nothing of a system from its first anomaly on:
\* the instance with two names and two systems stops there.
NoAnomaly == \A s \in System : anomaly[s] = {}
=============================================================================
