------------------------- MODULE MCScimProvisioning -------------------------
(***************************************************************************)
(* Instances of ScimProvisioning.  A constraint bounds what there is at a  *)
(* time, not how long it goes on.                                          *)
(***************************************************************************)
EXTENDS ScimProvisioning, TLC

CONSTANTS u1, u2, g1, gA, p1, p2, s1, s2, r1, r2, w1, w2, MaxMembers, MaxForeign, MaxChanged

Bootstrap == <<p1, s1>>

Symmetric == Permutations({u1, u2})
SymmetricRequests == Permutations({r1, r2})

\* Of the rows of the generic API, those that could be in the way.  While a
\* process is in Apply no PUT or PATCH is under way: they write other rows.
Bounded ==
  /\ \A r \in Request : Cardinality(req[r].change.add \cup req[r].change.drop) <= MaxChanged
  /\ (\A w \in Process : boot[w] = NotStarted) \/ (\A r \in Request : req[r] = Idle)
  /\ Cardinality(member) <= MaxMembers
  /\ Cardinality(foreign) <= MaxForeign
  /\ \A x \in Entities : entity[x].link = None => entity[x].ext \in {None, <<"bootstrap", BootKey>>}
=============================================================================
