--------------------------- MODULE MCIdentityCache ---------------------------
\* Instances of IdentityCache for TLC, and three statements of the design
\* document docs/design/db-authoritative-auth.md that the code does not keep.
EXTENDS IdentityCache, TLC

\* Users, requests, writers and list elements are interchangeable.
Symmetry == Permutations(Key) \cup Permutations(Request)
              \cup Permutations(Writer) \cup Permutations(Elem)

(***************************************************************************)
(* One instance of the server: no write happens on another one.            *)
(***************************************************************************)
NextOneInstance ==
  /\ Next
  /\ \A k \in Key : status'[k] # status[k] =>
       status[k] = "absent" \/ \E w \in Writer : writer[w] = None /\ writer'[w] = k

SpecOneInstance == Init /\ [][NextOneInstance]_vars

\* Lines 215-220: a mutation of the user, of a group's members or of a relation
\* invalidates synchronously, so an offered identity that has become wrong has
\* an invalidation under way.
InvalidatedSynchronously ==
  \A k \in Key : Live(k) /\ entry[items[k]].age > 0 =>
    entry[items[k]].raced \/ \E w \in Writer : writer[w] = k

\* Line 265: "only the window between PATCH and invalidation completion
\* remains", so once Invalidate(k) has run the superseded identity is not offered.
InvalidationIsEffective ==
  \A k \in Key : Live(k) => ~entry[items[k]].dead

\* Line 268: "Storing the same value is idempotent", so concurrent misses of one
\* user leave one element.
StoreIsIdempotent ==
  \A i, j \in DOMAIN lru : entry[lru[i]].key = entry[lru[j]].key => i = j

=============================================================================
