--------------------------- MODULE DeliveryService --------------------------
(***************************************************************************)
(* What the webhook service of internal/webhooks promises of a delivery.   *)
(* A trigger owes each webhook it is for one delivery.  A delivery that is *)
(* due stays due, whoever tries it and however often it fails, until the   *)
(* endpoint accepts it, no request can be made for it, the webhook is gone *)
(* or disabled, or retries are switched off.  Its end is final.            *)
(***************************************************************************)
CONSTANTS
    Hooks,          \* webhook ids
    Malformed,      \* webhooks no request can be made for
    Triggers,       \* the numbers of triggers
    Retryable       \* whether a failed delivery is tried again

VARIABLES
    live,           \* the webhooks that are registered and enabled
    status          \* what has become of each delivery

deliveryVars == <<live, status>>

Owed == [n : Triggers, hook : Hooks]
Ends == {"accepted", "rejected", "dropped", "failed"}

Init ==
    /\ live = {}
    /\ status = [j \in Owed |-> "none"]

Comes(h) ==
    /\ live' = live \cup {h}
    /\ UNCHANGED status

Goes(h) ==
    /\ live' = live \ {h}
    /\ UNCHANGED status

\* One delivery for each of some live webhooks, all made due together.
Owe(n, hooks) ==
    /\ hooks \subseteq live
    /\ \A j \in Owed : j.n = n => status[j] = "none"
    /\ status' = [j \in Owed |-> IF j.n = n /\ j.hook \in hooks THEN "due" ELSE status[j]]
    /\ UNCHANGED live

End(j, end) ==
    /\ status[j] = "due"
    /\ status' = [status EXCEPT ![j] = end]
    /\ UNCHANGED live

Accept(j) == j.hook \notin Malformed /\ End(j, "accepted")
Reject(j) == j.hook \in Malformed /\ End(j, "rejected")
Drop(j) == j.hook \notin live /\ End(j, "dropped")
GiveUp(j) == ~Retryable /\ End(j, "failed")

Next ==
    \/ \E h \in Hooks : Comes(h) \/ Goes(h)
    \/ \E n \in Triggers, hooks \in SUBSET Hooks : Owe(n, hooks)
    \/ \E j \in Owed : Accept(j) \/ Reject(j) \/ Drop(j) \/ GiveUp(j)

Spec == Init /\ [][Next]_deliveryVars

=============================================================================
