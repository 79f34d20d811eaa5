----------------------------- MODULE WorkloadOps ----------------------------
(***************************************************************************)
(* The mutating requests of internal/handlers.  Each runs in a goroutine   *)
(* of its own through the same stages: dry-run check, call of kranix-core, *)
(* audit entry, event, answer.  Which stages a handler has differs.        *)
(*                                                                         *)
(* kranix-core is a service of its own: it may apply the change and the    *)
(* answer be lost, or apply it after the handler has given up.  A bulk     *)
(* request and a drain ask for several changes (of workloads, evictions of *)
(* pods), each of which it applies or refuses; they are told by number.    *)
(***************************************************************************)
EXTENDS Integers, Sequences, FiniteSets

CONSTANTS
    Requests,       \* request goroutines
    Offered,        \* the operations requests ask for
    Workloads,      \* the resources operations change
    Namespaces,     \* namespaces of workloads
    Home,           \* the namespace of a workload
    Empty,          \* the empty namespace, or none named in the query
    NoFilter,       \* an event whose filter has no namespace key
    MaxChanges,     \* bound: changes one request asks for
    SSEEnabled      \* the event service is configured

\* The handlers: what each does besides calling the core and, when that succeeds,
\* auditing it.  "previews" calls ifDryRun; "errors" audits a failed call; "publishes"
\* calls broadcastClusterEvent; without a core, "accepts" answers as if there were
\* one, and "records" audits that; "counts" writes into the audit entry how many of the
\* changes the core says it has made (resp.Succeeded, result.PodsEvicted).
handleDeployWorkload == {"previews", "errors", "publishes", "accepts", "records"}
handleDeleteWorkloadByID == {"previews", "publishes", "accepts", "records"}
handleRestartWorkloadByID == {"previews", "publishes", "accepts", "records"}
handleRollbackWorkloadByID == {"previews", "errors", "publishes", "accepts"}
handleBulkWorkloads == {"previews", "errors", "accepts", "records", "counts"}
handlePutNamespaceQuota == {"previews", "errors", "accepts", "records"}
handleDeleteNamespaceQuota == {"previews"}
handleCheckpointWorkload == {}
handleRestoreWorkload == {}
handleMigrateWorkload == {}
handleDrainNode == {"counts"}

Handler == [
    deploy |-> handleDeployWorkload,
    delete |-> handleDeleteWorkloadByID,
    restart |-> handleRestartWorkloadByID,
    rollback |-> handleRollbackWorkloadByID,
    bulk |-> handleBulkWorkloads,
    setQuota |-> handlePutNamespaceQuota,
    deleteQuota |-> handleDeleteNamespaceQuota,
    checkpoint |-> handleCheckpointWorkload,
    restore |-> handleRestoreWorkload,
    migrate |-> handleMigrateWorkload,
    drain |-> handleDrainNode]

Operations == DOMAIN Handler
Does(stage) == {o \in Operations : stage \in Handler[o]}

ASSUME OfferedAssumption == Offered \subseteq Operations
ASSUME HomeAssumption == Home \in [Workloads -> Namespaces]
ASSUME EmptyAssumption == {Empty, NoFilter} \cap Namespaces = {} /\ Empty # NoFilter
ASSUME ConfigAssumption == SSEEnabled \in BOOLEAN
ASSUME BoundsAssumption == MaxChanges \in Nat \ {0}

VARIABLES
    step,       \* where a handler is
    op,         \* the operation a request asks for
    target,     \* the workload it names
    named,      \* the namespace in its query string
    dryRun,     \* whether it asks for a dry run
    size,       \* how many changes it asks for
    coreEnabled,    \* Client.Enabled: the server was built with a core address
    sent,       \* external: the requests that have reached kranix-core
    applied,    \* external: how many changes of a request kranix-core has made
    refused,    \* external: how many of them it has refused
    reply,      \* how many its answer says it has made
    audit,      \* the audit log
    events,     \* the events handed to the SSE service
    answer      \* what a request was answered

given == <<op, target, named, dryRun, size, coreEnabled>>
core == <<sent, applied, refused, reply>>
vars == <<step, given, core, audit, events, answer>>

Previews == Does("previews")
AuditsErrors == Does("errors")
Publishes == Does("publishes")
AcceptsWithoutCore == Does("accepts")
AuditsWithoutCore == Does("records")
Counting == Does("counts")

\* The workloads of a bulk request, at least one; the pods of a node, if any.
Sizes(o) == IF o = "bulk" THEN 1..MaxChanges ELSE IF o = "drain" THEN 0..MaxChanges ELSE {1}

\* Mutant: the workload is passed for the namespace.
FilterById(r) == target[r]

\* deploy and rollback know the namespace from the workload.  A delete event has
\* no filter when the query names no namespace, a restart event filters on "".
Filter(r) ==
    IF op[r] \in {"deploy", "rollback"} THEN Home[target[r]]
    ELSE IF op[r] = "delete" /\ named[r] = Empty THEN NoFilter
    ELSE named[r]

Init ==
    /\ step = [r \in Requests |-> "idle"]
    /\ op \in [Requests -> Offered]
    /\ target \in [Requests -> Workloads]
    /\ named \in [Requests -> Namespaces \cup {Empty}]
    /\ dryRun \in [Requests -> BOOLEAN]
    /\ size \in {s \in [Requests -> 0..MaxChanges] : \A r \in Requests : s[r] \in Sizes(op[r])}
    /\ coreEnabled \in BOOLEAN
    /\ sent = {}
    /\ applied = [r \in Requests |-> 0]
    /\ refused = [r \in Requests |-> 0]
    /\ reply = [r \in Requests |-> 0]
    /\ audit = <<>>
    /\ events = <<>>
    /\ answer = [r \in Requests |-> "none"]

Goto(r, s) == step' = [step EXCEPT ![r] = s]

Answers(r, a) ==
    /\ Goto(r, "done")
    /\ answer' = [answer EXCEPT ![r] = a]

\* An entry claims changes: the one asked for, or as many as it counts.
Record(r, outcome, claimed) ==
    audit' = Append(audit, [request |-> r, outcome |-> outcome, claimed |-> claimed])

----------------------------------------------------------------------------
(* The handler up to the core call *)

\* The request arrives, its body is well formed and its spec valid.
Receive(r) ==
    /\ step[r] = "idle"
    /\ Goto(r, "received")
    /\ UNCHANGED <<given, core, audit, events, answer>>

Preview(r) ==
    /\ step[r] = "received"
    /\ dryRun[r]
    /\ op[r] \in Previews
    /\ Answers(r, "preview")
    /\ UNCHANGED <<given, core, audit, events>>

\* Mutant: the handler does not return after the preview.
ProceedsAnyway(r) == step[r] = "received"

Proceeds(r) == step[r] = "received" /\ ~(dryRun[r] /\ op[r] \in Previews)

WithoutCore(r) ==
    /\ Proceeds(r)
    /\ ~coreEnabled
    /\ IF op[r] \in AcceptsWithoutCore THEN Answers(r, "accepted")
       ELSE Answers(r, "unavailable")
    /\ IF op[r] \in AuditsWithoutCore THEN Record(r, "success", size[r]) ELSE UNCHANGED audit
    /\ UNCHANGED <<given, core, events>>

\* The request is on its way to the core.
CallCore(r) ==
    /\ Proceeds(r)
    /\ coreEnabled
    /\ Goto(r, "calling")
    /\ sent' = sent \cup {r}
    /\ UNCHANGED <<given, applied, refused, reply, audit, events, answer>>

----------------------------------------------------------------------------
(* kranix-core, and how a call of it ends *)

CoreApplies(r) ==
    /\ r \in sent
    /\ applied[r] + refused[r] < size[r]
    /\ applied' = [applied EXCEPT ![r] = @ + 1]
    /\ UNCHANGED <<step, given, sent, refused, reply, audit, events, answer>>

CoreRefuses(r) ==
    /\ r \in sent
    /\ applied[r] + refused[r] < size[r]
    /\ refused' = [refused EXCEPT ![r] = @ + 1]
    /\ UNCHANGED <<step, given, sent, applied, reply, audit, events, answer>>

\* The answer to a bulk request or a drain is no error whatever was refused, and says
\* what has been made; another one is no error when its change is made.
CallSucceeds(r) ==
    /\ step[r] = "calling"
    /\ op[r] \in Counting \/ applied[r] = size[r]
    /\ reply' = [reply EXCEPT ![r] = applied[r]]
    /\ Goto(r, "succeeded")
    /\ UNCHANGED <<given, sent, applied, refused, audit, events, answer>>

\* The client reports an error of the core.
CallRefused(r) ==
    /\ step[r] = "calling"
    /\ refused[r] > 0
    /\ Goto(r, "failed")
    /\ UNCHANGED <<given, core, audit, events, answer>>

\* Mutants: an error with the answer under way counts as success; the client has
\* no timeout.
CallLostIsSuccess(r) ==
    /\ step[r] = "calling"
    /\ reply' = [reply EXCEPT ![r] = size[r]]
    /\ Goto(r, "succeeded")
    /\ UNCHANGED <<given, sent, applied, refused, audit, events, answer>>

CallWaits(r) ==
    /\ step[r] = "calling"
    /\ applied[r] = size[r]
    /\ Goto(r, "failed")
    /\ UNCHANGED <<given, core, audit, events, answer>>

\* The connection fails, the timeout passes, the client's own request ends or
\* the answer cannot be read: the handler does not learn what the core did.
CallLost(r) ==
    /\ step[r] = "calling"
    /\ Goto(r, "failed")
    /\ UNCHANGED <<given, core, audit, events, answer>>

----------------------------------------------------------------------------
(* The handler after the core call *)

\* Mutant: only failures are recorded before the answer.
AuditAfterwards(r) ==
    /\ step[r] = "succeeded"
    /\ Goto(r, "recorded")
    /\ UNCHANGED <<given, core, audit, events, answer>>

\* The outcome is "success" even if the core has made none of the changes of a bulk.
AuditSuccess(r) ==
    /\ step[r] = "succeeded"
    /\ Record(r, "success", reply[r])
    /\ Goto(r, "recorded")
    /\ UNCHANGED <<given, core, events, answer>>

\* Mutant: the return after the failure is missing.
ReportFailureFallsThrough(r) ==
    /\ step[r] = "failed"
    /\ IF op[r] \in AuditsErrors THEN Record(r, "error", 0) ELSE UNCHANGED audit
    /\ Goto(r, "succeeded")
    /\ UNCHANGED <<given, core, events, answer>>

ReportFailure(r) ==
    /\ step[r] = "failed"
    /\ IF op[r] \in AuditsErrors THEN Record(r, "error", 0) ELSE UNCHANGED audit
    /\ Answers(r, "error")
    /\ UNCHANGED <<given, core, events>>

\* The event, if this handler has one, and the answer.
Complete(r) ==
    /\ step[r] = "recorded"
    /\ events' = IF op[r] \in Publishes /\ SSEEnabled
                 THEN Append(events, [request |-> r, filter |-> Filter(r)]) ELSE events
    /\ Answers(r, "ok")
    /\ UNCHANGED <<given, core, audit>>

----------------------------------------------------------------------------
HandlerStep(r) ==
    \/ Receive(r) \/ Preview(r) \/ WithoutCore(r) \/ CallCore(r)
    \/ CallSucceeds(r) \/ CallRefused(r) \/ CallLost(r)
    \/ AuditSuccess(r) \/ ReportFailure(r) \/ Complete(r)

CoreStep(r) == CoreApplies(r) \/ CoreRefuses(r)

Next == \E r \in Requests : HandlerStep(r) \/ CoreStep(r)

Spec == Init /\ [][Next]_vars

\* A handler's goroutine runs on, and the core client's timeout ends a call that
\* nothing else ends.  The core owes nothing.
Fairness ==
    \A r \in Requests :
        /\ WF_vars(Preview(r) \/ WithoutCore(r) \/ CallCore(r))
        /\ WF_vars(CallLost(r))
        /\ WF_vars(AuditSuccess(r) \/ ReportFailure(r) \/ Complete(r))

FairSpec == Spec /\ Fairness

----------------------------------------------------------------------------
(* Properties *)

Entries(r, o) == {i \in DOMAIN audit : audit[i].request = r /\ audit[i].outcome = o}
EventsOf(r) == {i \in DOMAIN events : events[i].request = r}

\* Every variable has its type.
TypeOK ==
    /\ step \in [Requests -> {"idle", "received", "calling", "succeeded", "failed",
                              "recorded", "done"}]
    /\ op \in [Requests -> Offered]
    /\ target \in [Requests -> Workloads]
    /\ named \in [Requests -> Namespaces \cup {Empty}]
    /\ dryRun \in [Requests -> BOOLEAN]
    /\ size \in [Requests -> 0..MaxChanges]
    /\ coreEnabled \in BOOLEAN
    /\ sent \subseteq Requests
    /\ applied \in [Requests -> Nat] /\ refused \in [Requests -> Nat]
    /\ reply \in [Requests -> 0..MaxChanges]
    /\ \A r \in Requests : applied[r] + refused[r] <= size[r]
    /\ audit \in Seq([request : Requests, outcome : {"success", "error"}, claimed : 0..MaxChanges])
    /\ events \in Seq([request : Requests, filter : Namespaces \cup {Empty, NoFilter}])
    /\ answer \in [Requests -> {"none", "preview", "accepted", "unavailable", "ok", "error"}]

\* The core has made so many changes of a request: all, or at least those counted.
Made(r, claimed) ==
    /\ claimed <= applied[r]
    /\ op[r] \in Counting \/ applied[r] = size[r]

\* When a core is configured, an audit entry of a success claims no change the core has
\* not made: the change asked for, or of a bulk request and a drain as many as it counts,
\* which may be none, for the outcome of a bulk is "success" whatever the core refused
\* (server.go:214).  An event is of a change the core has made and is in the audit log
\* before it.  Neither is written before the core's answer, nor on one that never came.
AuditTruthful ==
    coreEnabled =>
        /\ \A i \in DOMAIN audit :
               audit[i].outcome = "success" => Made(audit[i].request, audit[i].claimed)
        /\ \A i \in DOMAIN events :
               /\ applied[events[i].request] = size[events[i].request]
               /\ Entries(events[i].request, "success") # {}

\* A caller that is told of success finds exactly one entry of it in the audit log
\* and, of the handlers that publish, exactly one event has gone out; a caller that
\* is told of an error finds no entry of a success and no event, although the core
\* may have made the change.
AnswerMatchesRecords ==
    \A r \in Requests :
        /\ answer[r] = "ok" =>
               /\ Cardinality(Entries(r, "success")) = 1
               /\ Entries(r, "error") = {}
               /\ Cardinality(EventsOf(r)) = IF op[r] \in Publishes /\ SSEEnabled THEN 1 ELSE 0
        /\ answer[r] = "error" => Entries(r, "success") = {} /\ EventsOf(r) = {}

\* A dry run of a handler that looks for one leaves no trace: the core never hears
\* of it, then or later, and it is neither recorded nor published.
PreviewsPure ==
    \A r \in Requests :
        dryRun[r] /\ op[r] \in Previews =>
            r \notin sent /\ EventsOf(r) = {}
            /\ \A i \in DOMAIN audit : audit[i].request # r

\* A request that has arrived is answered, whatever the core does: the core client
\* has a timeout.
Answered == \A r \in Requests : step[r] = "received" ~> step[r] = "done"

----------------------------------------------------------------------------
(* What the documentation says and the code does not do *)

\* README: an audit entry for every mutating action.  A request that is answered
\* and of which the core has made a change has an entry, be it of a success or an error.
AppliedIsAudited ==
    \A r \in Requests :
        step[r] = "done" /\ applied[r] > 0 => \E i \in DOMAIN audit : audit[i].request = r

=============================================================================
