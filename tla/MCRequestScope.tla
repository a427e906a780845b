---------------------------- MODULE MCRequestScope ----------------------------
\* Instances of RequestScope for TLC, and statements of the documents and comments
\* that the code does not keep.
EXTENDS RequestScope, TLC

CONSTANTS u1, m1, y1, y2, y3

\* The JWT caller may work in the first two systems; a certificate carries no systems.
BothAllowed == [u \in Caller |-> IF u = u1 THEN {y1, y2} ELSE {}]

\* The first two systems are interchangeable, as long as no other one is singled out.
Symmetry == Permutations(Request) \cup Permutations(Object) \cup Permutations(Conn)
              \cup Permutations({y1, y2})

\* auth/identity.go:22: ActiveSystemID is "Selected via X-OAD-System-Id header", so an
\* overlay is created in the system of the request's own header.
HeaderSelects ==
  \A r \in Request :
    req[r].stage = "created" /\ req[r].header # None => req[r].row = req[r].header

\* docs/design/db-authoritative-auth.md:252: "If the header is required but absent:
\* 400", so nothing is created without a header.
HeaderRequired ==
  \A r \in Request : req[r].stage = "created" => req[r].header # None

\* docs/requirements.md:87 (FR-WHK-002): a change "within a system scope" notifies the
\* subscribers "for that system", which are found by the system of the audit entry.
AuditNamesSystem ==
  \A r \in Request : req[r].stage = "created" => req[r].audit = req[r].row

\* migrations/000001_initial_schema.up.sql:428: "Empty string (not set) = admin mode ->
\* no restriction", so a read without a scope is shown the rows of every system.
UnsetIsAdminMode ==
  \A r \in Request : req[r].stage = "read" => req[r].seen = System

=============================================================================
