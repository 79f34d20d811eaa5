---------------------------- MODULE ApprovalGate ----------------------------
(***************************************************************************)
(* What the approval gate of internal/approval promises its callers.  A    *)
(* request is pending until an operator decides it or its deadline passes, *)
(* whichever comes first: here it expires at the tick of the clock that    *)
(* passes the deadline.  A decision is final, and every answer is given    *)
(* from the true status of the request.                                    *)
(***************************************************************************)
EXTENDS Integers

CONSTANTS
    Ids,        \* approval ids
    Agents,     \* agents that ask for approval
    NoAgent,    \* the empty agent id: no agent named, or no filter
    Tools,      \* tools an approval is for
    TTLs,       \* lifetimes asked for, the default one included
    MaxDuration, \* the longest lifetime that is given as asked
    MaxTime     \* bound: the clock stops there

VARIABLES
    now,        \* the clock
    status,     \* the status of each approval
    deadline,   \* ApprovalRecord.ExpiresAt
    agent,      \* ApprovalRecord.AgentID
    tool,       \* ApprovalRecord.Tool
    outcome     \* what the last operation on the gate returned

gateVars == <<now, status, deadline, agent, tool, outcome>>

Statuses == {"absent", "pending", "approved", "denied", "expired"}
AnyAgent == Agents \cup {NoAgent}
Verdict(approved) == IF approved THEN "approved" ELSE "denied"

\* A caller that names no agent sees the requests of every agent.
MayServe(a, id) == a = NoAgent \/ agent[id] = a

Init ==
    /\ now = 0
    /\ status = [id \in Ids |-> "absent"]
    /\ deadline = [id \in Ids |-> 0]
    /\ agent = [id \in Ids |-> NoAgent]
    /\ tool \in [Ids -> Tools]
    /\ outcome = [op |-> "none"]

Tick ==
    /\ now < MaxTime
    /\ now' = now + 1
    /\ status' = [id \in Ids |->
                    IF status[id] = "pending" /\ now + 1 > deadline[id]
                    THEN "expired" ELSE status[id]]
    /\ UNCHANGED <<deadline, agent, tool, outcome>>

\* Beyond MaxDuration the deadline may come early, the request be born expired.
Create(id, a, t, asked) ==
    /\ status[id] = "absent"
    /\ deadline'[id] <= now + asked
    /\ asked <= MaxDuration => deadline'[id] = now + asked
    /\ deadline' = [deadline EXCEPT ![id] = deadline'[id]]
    /\ status' = [status EXCEPT ![id] = IF now > deadline'[id] THEN "expired" ELSE "pending"]
    /\ agent' = [agent EXCEPT ![id] = a]
    /\ tool' = [tool EXCEPT ![id] = t]
    /\ outcome' = [op |-> "create", id |-> id]
    /\ UNCHANGED now

Get(id) ==
    /\ outcome' = [op |-> "get", id |-> id, status |-> status[id]]
    /\ UNCHANGED <<now, status, deadline, agent, tool>>

ListPending(a) ==
    /\ outcome' = [op |-> "list", agent |-> a,
                   ids |-> {id \in Ids : status[id] = "pending" /\ MayServe(a, id)}]
    /\ UNCHANGED <<now, status, deadline, agent, tool>>

Decide(id, approved) ==
    /\ status[id] = "pending"
    /\ status' = [status EXCEPT ![id] = Verdict(approved)]
    /\ outcome' = [op |-> "resolve", id |-> id, ok |-> TRUE]
    /\ UNCHANGED <<now, deadline, agent, tool>>

Refuse(id) ==
    /\ status[id] # "pending"
    /\ outcome' = [op |-> "resolve", id |-> id, ok |-> FALSE]
    /\ UNCHANGED <<now, status, deadline, agent, tool>>

ValidateForExecution(id, t, a) ==
    /\ outcome' = [op |-> "validate", id |-> id, tool |-> t, agent |-> a,
                   ok |-> status[id] = "approved" /\ tool[id] = t /\ MayServe(a, id)]
    /\ UNCHANGED <<now, status, deadline, agent, tool>>

Next ==
    \/ Tick
    \/ \E id \in Ids, a \in AnyAgent, t \in Tools, asked \in TTLs : Create(id, a, t, asked)
    \/ \E id \in Ids : Get(id) \/ Refuse(id)
    \/ \E a \in AnyAgent : ListPending(a)
    \/ \E id \in Ids, approved \in BOOLEAN : Decide(id, approved)
    \/ \E id \in Ids, t \in Tools, a \in AnyAgent : ValidateForExecution(id, t, a)

Spec == Init /\ [][Next]_gateVars

=============================================================================
