---------------------------- MODULE ApprovalStore ---------------------------
(***************************************************************************)
(* The approval store of internal/approval and the handlers that call it.  *)
(* The store never looks at a record by itself: a pending one whose        *)
(* deadline has passed is marked expired only when an operation meets it.  *)
(* Every operation runs under one mutex, so it is one action; Resolve      *)
(* reads the clock twice, for the check and for ResolvedAt, and is two,    *)
(* the mutex held in between.                                              *)
(*                                                                         *)
(* The handler of a create request encodes the stored record after the     *)
(* mutex is free (Create returns the pointer, not a copy); the handler of  *)
(* a resolve request writes an audit entry after Resolve returned.         *)
(***************************************************************************)
EXTENDS Integers, Sequences, FiniteSets

CONSTANTS
    Ids,        \* approval ids; Create never meets one twice
    Agents,     \* agents that ask for approval
    NoAgent,    \* the empty agent id: no agent named, or no filter
    Tools,      \* tools an approval is for
    TTLSeconds, \* the lifetimes requests ask for, in seconds; 0 asks for none
    DefaultTTL, \* Store.defaultTTL, in units of the clock
    Second,     \* units of the clock in a second
    MaxDuration, \* the largest time.Duration, 2^63 - 1 units
    Operators,  \* goroutines that run the resolve handler
    Nobody,     \* no operator
    MaxTime,    \* bound: the clock stops there
    MaxCalls    \* bound: resolve requests in a behaviour

ASSUME AgentsAssumption == NoAgent \notin Agents
ASSUME TTLSecondsAssumption == TTLSeconds \subseteq Nat
ASSUME DefaultTTLAssumption == DefaultTTL \in Nat /\ DefaultTTL <= MaxDuration
ASSUME SecondAssumption == Second \in Nat \ {0}
ASSUME MaxDurationAssumption == MaxDuration \in Nat
ASSUME MaxTimeAssumption == MaxTime \in Nat
ASSUME NobodyAssumption == Nobody \notin Operators

VARIABLES
    now,        \* the clock
    status,     \* ApprovalRecord.Status, or "absent"
    deadline,   \* ApprovalRecord.ExpiresAt
    agent,      \* ApprovalRecord.AgentID
    tool,       \* ApprovalRecord.Tool
    resolvedAt, \* ApprovalRecord.ResolvedAt, or NotResolved
    holder,     \* the operator that holds Store.mu between the steps of Resolve
    call,       \* the request an operator is serving
    created,    \* the status in the answer to a create request
    audit,      \* the entries of the audit log for approval.resolve
    outcome,    \* what the last operation on the store returned
    calls       \* resolve requests so far

records == <<deadline, agent, tool>>
vars == <<now, status, deadline, agent, tool, resolvedAt, holder, call, created,
          audit, outcome, calls>>

NotResolved == -1
Statuses == {"absent", "pending", "approved", "denied", "expired"}
AnyAgent == Agents \cup {NoAgent}

Asked(s) == IF s > 0 THEN s * Second ELSE DefaultTTL

\* A product that does not fit a time.Duration wraps around its word.
Wrapped(d) ==
    ((d + MaxDuration + 1) % (2 * MaxDuration + 2)) - (MaxDuration + 1)
Lifetime(s) == IF s > 0 THEN Wrapped(s * Second) ELSE DefaultTTL

VerdictRejected(approved) == IF approved THEN "approved" ELSE "rejected"  \* mutant
Verdict(approved) == IF approved THEN "approved" ELSE "denied"
MayServe(a, id) == a = NoAgent \/ agent[id] = a

OverdueWhateverStatus(id) == status[id] # "absent" /\ now > deadline[id]  \* mutant
Overdue(id) == status[id] = "pending" /\ now > deadline[id]

ExpireNothing(ids) == status    \* mutant: operations do not look at the deadline

\* Statuses after an operation that looks at the records of ids.
ExpireOverdue(ids) ==
    [id \in Ids |-> IF id \in ids /\ Overdue(id) THEN "expired" ELSE status[id]]

NeverLocked == TRUE             \* mutant: no mutex
Unlocked == holder = Nobody
Idle == [step |-> "idle"]
Serving(o, step) == [step |-> step, id |-> call[o].id, approved |-> call[o].approved]

Init ==
    /\ now = 0
    /\ status = [id \in Ids |-> "absent"]
    /\ deadline = [id \in Ids |-> 0]
    /\ agent = [id \in Ids |-> NoAgent]
    /\ tool \in [Ids -> Tools]
    /\ resolvedAt = [id \in Ids |-> NotResolved]
    /\ holder = Nobody
    /\ call = [o \in Operators |-> Idle]
    /\ created = [id \in Ids |-> "unsent"]
    /\ audit = <<>>
    /\ outcome = [op |-> "none"]
    /\ calls = 0

Tick ==
    /\ now < MaxTime
    /\ now' = now + 1
    /\ UNCHANGED <<status, records, resolvedAt, holder, call, created, audit,
                   outcome, calls>>

----------------------------------------------------------------------------
(* Create, Get, ListPending, ValidateForExecution *)

Create(id, a, t, s) ==
    /\ Unlocked
    /\ status[id] = "absent"
    /\ status' = [status EXCEPT ![id] = "pending"]
    /\ deadline' = [deadline EXCEPT ![id] = now + Lifetime(s)]
    /\ agent' = [agent EXCEPT ![id] = a]
    /\ tool' = [tool EXCEPT ![id] = t]
    /\ created' = [created EXCEPT ![id] = "sending"]
    /\ outcome' = [op |-> "create", id |-> id]
    /\ UNCHANGED <<now, resolvedAt, holder, call, audit, calls>>

\* The create handler encodes the record it shares with the store, unlocked.
AnswerCreate(id) ==
    /\ created[id] = "sending"
    /\ created' = [created EXCEPT ![id] = status[id]]
    /\ UNCHANGED <<now, status, records, resolvedAt, holder, call, audit,
                   outcome, calls>>

Get(id) ==
    /\ Unlocked
    /\ status' = ExpireOverdue({id})
    /\ outcome' = [op |-> "get", id |-> id, status |-> status'[id]]
    /\ UNCHANGED <<now, records, resolvedAt, holder, call, created, audit, calls>>

ListPending(a) ==
    /\ Unlocked
    /\ status' = ExpireOverdue(Ids)
    /\ outcome' = [op |-> "list", agent |-> a,
                   ids |-> {id \in Ids : status'[id] = "pending" /\ MayServe(a, id)}]
    /\ UNCHANGED <<now, records, resolvedAt, holder, call, created, audit, calls>>

ValidateForExecution(id, t, a) ==
    /\ Unlocked
    /\ status' = ExpireOverdue({id})
    /\ outcome' = [op |-> "validate", id |-> id, tool |-> t, agent |-> a,
                   ok |-> status'[id] = "approved" /\ tool[id] = t /\ MayServe(a, id)]
    /\ UNCHANGED <<now, records, resolvedAt, holder, call, created, audit, calls>>

----------------------------------------------------------------------------
(* handleResolveApproval and Resolve *)

Request(o, id, approved) ==
    /\ call[o] = Idle
    /\ calls < MaxCalls
    /\ calls' = calls + 1
    /\ call' = [call EXCEPT ![o] = [step |-> "resolve", id |-> id, approved |-> approved]]
    /\ UNCHANGED <<now, status, records, resolvedAt, holder, created, audit, outcome>>

\* Resolve finds no record, one that is not pending, or one that is overdue.
ResolveFails(o) ==
    /\ call[o].step = "resolve"
    /\ Unlocked
    /\ LET id == call[o].id
       IN /\ status[id] # "pending" \/ Overdue(id)
          /\ status' = ExpireOverdue({id})
          /\ outcome' = [op |-> "resolve", id |-> id, ok |-> FALSE]
    /\ call' = [call EXCEPT ![o] = Idle]
    /\ UNCHANGED <<now, records, resolvedAt, holder, created, audit, calls>>

\* Resolve has found the record pending and in time.
ResolveChecks(o) ==
    /\ call[o].step = "resolve"
    /\ Unlocked
    /\ LET id == call[o].id
       IN /\ status[id] = "pending"
          /\ ~Overdue(id)
          /\ outcome' = [op |-> "resolve", id |-> id, ok |-> TRUE]
    /\ holder' = o
    /\ call' = [call EXCEPT ![o] = Serving(o, "commit")]
    /\ UNCHANGED <<now, status, records, resolvedAt, created, audit, calls>>

\* It writes the decision with a second reading of the clock, and unlocks.
ResolveCommits(o) ==
    /\ call[o].step = "commit"
    /\ resolvedAt' = [resolvedAt EXCEPT ![call[o].id] = now]
    /\ status' = [status EXCEPT ![call[o].id] = Verdict(call[o].approved)]
    /\ holder' = Nobody
    /\ call' = [call EXCEPT ![o] = Serving(o, "audit")]
    /\ UNCHANGED <<now, records, created, audit, outcome, calls>>

\* Mutant: a denial is not audited.
RecordAuditOfApproval(o) ==
    /\ call[o].step = "audit"
    /\ audit' = IF call[o].approved
                THEN Append(audit, [id |-> call[o].id, approved |-> TRUE]) ELSE audit
    /\ call' = [call EXCEPT ![o] = Idle]
    /\ UNCHANGED <<now, status, records, resolvedAt, holder, created, outcome, calls>>

RecordAudit(o) ==
    /\ call[o].step = "audit"
    /\ audit' = Append(audit, [id |-> call[o].id, approved |-> call[o].approved])
    /\ call' = [call EXCEPT ![o] = Idle]
    /\ UNCHANGED <<now, status, records, resolvedAt, holder, created, outcome, calls>>

----------------------------------------------------------------------------
StoreStep ==
    \/ \E id \in Ids, a \in AnyAgent, t \in Tools, s \in TTLSeconds : Create(id, a, t, s)
    \/ \E id \in Ids : AnswerCreate(id) \/ Get(id)
    \/ \E a \in AnyAgent : ListPending(a)
    \/ \E id \in Ids, t \in Tools, a \in AnyAgent : ValidateForExecution(id, t, a)

OperatorStep(o) ==
    \/ \E id \in Ids, approved \in BOOLEAN : Request(o, id, approved)
    \/ ResolveFails(o)
    \/ ResolveChecks(o)
    \/ ResolveCommits(o)
    \/ RecordAudit(o)

Next == Tick \/ StoreStep \/ \E o \in Operators : OperatorStep(o)

Spec == Init /\ [][Next]_vars

\* The goroutine of a request runs on: the mutex wakes a waiter that starves, and
\* the other steps wait for nothing.
Fairness ==
    \A o \in Operators :
        /\ SF_vars(ResolveFails(o) \/ ResolveChecks(o))
        /\ WF_vars(ResolveCommits(o))
        /\ WF_vars(RecordAudit(o))

FairSpec == Spec /\ Fairness

----------------------------------------------------------------------------
(* Properties *)

Calls == {Idle}
         \cup [step : {"resolve", "commit", "audit"}, id : Ids, approved : BOOLEAN]

\* Every variable stays within its type.
TypeOK ==
    /\ now \in Nat
    /\ status \in [Ids -> Statuses]
    /\ deadline \in [Ids -> Int]
    /\ agent \in [Ids -> AnyAgent]
    /\ tool \in [Ids -> Tools]
    /\ resolvedAt \in [Ids -> Nat \cup {NotResolved}]
    /\ holder \in Operators \cup {Nobody}
    /\ call \in [Operators -> Calls]
    /\ created \in [Ids -> Statuses \cup {"unsent", "sending"}]
    /\ audit \in Seq([id : Ids, approved : BOOLEAN])
    /\ calls \in Nat

\* One audit entry at most for an approval, and it is what the record says.
OneDecision ==
    /\ \A i, j \in DOMAIN audit : audit[i].id = audit[j].id => i = j
    /\ \A i \in DOMAIN audit : status[audit[i].id] = Verdict(audit[i].approved)

\* A create request may be answered with a decision already; it is the one that stands.
AnswersStand ==
    \A id \in Ids : created[id] \in {"approved", "denied", "expired"} => status[id] = created[id]

\* An approval is decided at most once: of the operators that resolve it, one
\* passes the check and the others are refused, the audit log has no second
\* entry and no entry that contradicts the record (store.go:98, approval.go:83),
\* and neither has the late answer to the create request (approval.go:31).
DecidedOnce == OneDecision /\ AnswersStand

\* Once an approval has left the pending state its record never changes again.
Final ==
    [][\A id \in Ids : status[id] \notin {"absent", "pending"} =>
          /\ status'[id] = status[id]
          /\ resolvedAt'[id] = resolvedAt[id]
          /\ deadline'[id] = deadline[id]]_vars

\* A decision that Resolve made reaches the audit log.
DecisionAudited ==
    \A id \in Ids : status[id] \in {"approved", "denied"}
        ~> \E i \in DOMAIN audit : audit[i].id = id

----------------------------------------------------------------------------
(***************************************************************************)
(* The store implements the gate.  A stored "pending" whose deadline has   *)
(* passed is expired, whether or not an operation has met it; an approval  *)
(* whose Resolve has passed its check is decided.  A lifetime too long for *)
(* a time.Duration wraps around: the gate lets such a deadline be early,   *)
(* in the past even, and never later than asked.                           *)
(***************************************************************************)
Deciding(id) == \E o \in Operators : call[o].step = "commit" /\ call[o].id = id

Decision(id) ==
    Verdict(\E o \in Operators :
        call[o].step = "commit" /\ call[o].id = id /\ call[o].approved)

TrueStatus ==
    [id \in Ids |->
        IF Deciding(id) THEN Decision(id)
        ELSE IF Overdue(id) THEN "expired"
        ELSE status[id]]

Gate == INSTANCE ApprovalGate
            WITH status <- TrueStatus, TTLs <- {Asked(s) : s \in TTLSeconds}

\* However late the store notices that a deadline has passed, its callers see
\* what the gate promises.
ImplementsGate == Gate!Spec

=============================================================================
