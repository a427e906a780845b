------------------------------ MODULE ScimPatch -----------------------------
(***************************************************************************)
(* PATCH, operation by operation: the members of a group                   *)
(* (src/internal/scim/groups/patch.go) and the attributes of a user        *)
(* (scim/users/patch.go), on a copy that the request stores when every     *)
(* operation went well.                                                    *)
(*                                                                         *)
(* An operation without a path is an object: one operation for each of its *)
(* keys, in any order; keys that are not supported are passed over.        *)
(***************************************************************************)
EXTENDS Integers, Sequences, FiniteSets, SequencesExt

CONSTANTS
  Member,     \* ids of members
  PropValue,  \* values of attributes
  MaxValue,   \* the length of a members value: a bound of the model
  Keep,       \* nothing was said of an attribute
  Absent      \* an attribute that is not there

ASSUME PatchAssumption ==
  /\ Keep \notin PropValue /\ Absent \notin PropValue /\ Keep # Absent
  /\ IsFiniteSet(Member) /\ MaxValue \in Nat

Attribute == {"displayName", "userName", "active", "email"}

VARIABLES
  given,    \* the stored list of members
  out,      \* the list after the operations so far
  change,   \* what they come to (history)
  props,    \* the attributes after the operations so far
  stored,   \* the stored attributes
  said      \* what the operations said of each attribute last (history)

patchVars == <<given, out, change, props, stored, said>>

Lists == {l \in BoundedSeq(Member, Cardinality(Member)) : IsInjective(l)}
Change == [keep : BOOLEAN, drop : SUBSET Member, add : SUBSET Member]
NoChange == [keep |-> TRUE, drop |-> {}, add |-> {}]
Effect(c, S) == (IF c.keep THEN S \ c.drop ELSE {}) \cup c.add
Props == [Attribute -> PropValue \cup {Absent}]

PatchInit ==
  /\ given \in Lists /\ out = given /\ change = NoChange
  /\ stored \in {[p \in Attribute |-> x] : x \in PropValue \cup {Absent}} /\ props = stored
  /\ said = [p \in Attribute |-> Keep]
-----------------------------------------------------------------------------
\* What is there already, or was added before, is passed over.
Merged1(list, m) == IF m \in Range(list) THEN list ELSE Append(list, m)

\* Mutant: what is added twice is there twice.
MergeMembersTwice(base, toAdd) == base \o SelectSeq(toAdd, LAMBDA m : m \notin Range(base))

MergeMembers(base, toAdd) ==
  LET merged[n \in 0..Len(toAdd)] == IF n = 0 THEN base ELSE Merged1(merged[n - 1], toAdd[n])
  IN merged[Len(toAdd)]

DedupMembers(in) == MergeMembers(<<>>, in)

\* The first occurrence of m goes.
RemoveMember(l, m) ==
  IF m \notin Range(l) THEN l
  ELSE LET i == CHOOSE i \in DOMAIN l : l[i] = m /\ \A j \in 1..(i - 1) : l[j] # m IN RemoveAt(l, i)

Value == BoundedSeq(Member, MaxValue)
OfMembers(l, c) == out' = l /\ change' = c /\ UNCHANGED <<given, props, stored, said>>

AddMembers(v) ==
  OfMembers(MergeMembers(out, v), [change EXCEPT !.drop = @ \ Range(v), !.add = @ \cup Range(v)])

\* A value of null is an empty list.
ReplaceMembers(v) == OfMembers(DedupMembers(v), [keep |-> FALSE, drop |-> {}, add |-> Range(v)])

RemoveMembers == OfMembers(<<>>, [keep |-> FALSE, drop |-> {}, add |-> {}])

RemoveOne(m) ==
  OfMembers(RemoveMember(out, m),
            [change EXCEPT !.drop = IF change.keep THEN @ \cup {m} ELSE @, !.add = @ \ {m}])
-----------------------------------------------------------------------------
\* The attributes that each operation may write.
SupportedFor(op) ==
  CASE op = "add" -> {"displayName", "active", "email"}
    [] op = "replace" -> Attribute
    [] op = "remove" -> {"email"}

SetAttribute(op, p, x) ==
  /\ p \in SupportedFor(op)
  /\ x = Absent <=> op = "remove"
  /\ props' = [props EXCEPT ![p] = x]
  /\ said' = [said EXCEPT ![p] = x]
  /\ UNCHANGED <<given, out, change, stored>>

PatchNext ==
  \/ \E v \in Value : AddMembers(v) \/ ReplaceMembers(v)
  \/ RemoveMembers
  \/ \E m \in Member : RemoveOne(m)
  \/ \E op \in {"add", "replace", "remove"}, p \in Attribute, x \in PropValue \cup {Absent} :
       SetAttribute(op, p, x)

PatchSpec == PatchInit /\ [][PatchNext]_patchVars

\* Any number of operations comes to one change of the members, and no member
\* is listed twice: ScimProvisioning's requests are all there are.  What no
\* operation spoke of is stored as it was read (ApplyPatch of both).
PatchIsChange ==
  /\ IsInjective(out)
  /\ Range(out) = Effect(change, Range(given))
  /\ change.drop \cap change.add = {} /\ (~change.keep => change.drop = {})
  /\ \A p \in Attribute : props[p] = IF said[p] = Keep THEN stored[p] ELSE said[p]
=============================================================================
