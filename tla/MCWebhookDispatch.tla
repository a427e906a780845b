-------------------------- MODULE MCWebhookDispatch --------------------------
\* Instances of WebhookDispatch for TLC, and statements of the documents that the code
\* does not keep.
EXTENDS WebhookDispatch

CONSTANTS s1, s2, y1, y2, y3

\* Two subscriptions of one system; the entries belong to it, the last to none.
OneSystem == [s \in Sub |-> y1]
AllScoped == [e \in Event |-> y1]
LastUnscoped == [e \in Event |-> IF e = Cardinality(Event) THEN None ELSE y1]

\* Two subscriptions of two systems; the third system has none.
TwoSystems == [s \in Sub |-> IF s = s1 THEN y1 ELSE y2]
EachItsOwn == [e \in Event |-> IF e = 1 THEN y1 ELSE IF e = 2 THEN y2 ELSE y3]
SecondOther == [e \in Event |-> IF e = 2 THEN y2 ELSE y1]

TwoEvents == 1 .. 2
ThreeEvents == 1 .. 3
FourEvents == 1 .. 4

(***************************************************************************)
(* What the documents say and the code does not do.                        *)
(***************************************************************************)

\* docs/requirements.md:89 (FR-WHK-004): a failed delivery is retried "up to a
\* configurable maximum number of attempts".
PostsWithinLimit == \A i \in DOMAIN rows : rows[i].posts <= MaxRetries

\* docs/data-model.md:262: "Inactive subscriptions do not receive deliveries", so
\* none of their rows is selected for a post.
InactiveNotSelected ==
  [][\A d \in Dispatcher :
       disp[d].pc = "find_pending" /\ disp'[d].pc = "attempt" =>
         \A i \in DOMAIN disp'[d].batch : sub[rows[i].sub] = "active"]_vars

\* dispatcher.go:122: "Continue with remaining pairs rather than rolling back the
\* entire batch."
RemainingPairsCreated ==
  [][\A d \in Dispatcher :
       disp[d].pc = "create_deliveries" /\ disp'[d].pc = "find_pending" /\ NoFault =>
         \A p \in disp[d].pairs : sub[p.sub] # "deleted" => HasRow(p)']_vars

\* dispatcher.go:90-92: enqueue "finds audit_log entries that have active subscriptions but
\* no delivery record", with row-level security bypassed "so all subscriptions are visible".
EnqueuedAnyhow == \A p \in Pair : SubSystem[p.sub] = EventSystem[p.event] => Enqueued(p)

=============================================================================
