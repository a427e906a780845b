-------------------------- MODULE DeliveryLifecycle --------------------------
(***************************************************************************)
(* What the webhook subsystem promises about one notification, that is one *)
(* audit entry for one subscription: it is taken up at most once, tried at *)
(* most MaxRetries times, and then delivered or given up for good.  Only   *)
(* the removal of the subscription takes a notification out of this path.  *)
(***************************************************************************)
EXTENDS Integers

CONSTANTS
  Sub,         \* subscriptions
  Event,       \* audit entries
  MaxRetries   \* attempts before a notification is given up

VARIABLES
  phase,  \* phase[s][e]: how far the notification of e to s has come
  tries   \* tries[s][e]: its recorded attempts

vars == <<phase, tries>>

Phase == {"new", "open", "delivered", "given_up", "removed"}

Init ==
  /\ phase = [s \in Sub |-> [e \in Event |-> "new"]]
  /\ tries = [s \in Sub |-> [e \in Event |-> 0]]

\* Some new notifications are taken up, together.
TakeUp ==
  /\ phase' \in [Sub -> [Event -> Phase]]
  /\ \A s \in Sub, e \in Event :
       phase'[s][e] # phase[s][e] => phase[s][e] = "new" /\ phase'[s][e] = "open"
  /\ UNCHANGED tries

\* An attempt is recorded.
Try(s, e) ==
  /\ phase[s][e] = "open"
  /\ tries' = [tries EXCEPT ![s][e] = @ + 1]
  /\ \/ phase' = [phase EXCEPT ![s][e] = "delivered"]
     \/ /\ tries[s][e] + 1 < MaxRetries
        /\ UNCHANGED phase
     \/ /\ tries[s][e] + 1 = MaxRetries
        /\ phase' = [phase EXCEPT ![s][e] = "given_up"]

\* The subscription is removed, with everything recorded about it.
Remove(s) ==
  /\ phase' = [phase EXCEPT ![s] = [e \in Event |-> "removed"]]
  /\ tries' = [tries EXCEPT ![s] = [e \in Event |-> 0]]

Next ==
  \/ TakeUp
  \/ \E s \in Sub : Remove(s) \/ \E e \in Event : Try(s, e)

Spec == Init /\ [][Next]_vars

=============================================================================
