--------------------------- MODULE WorkloadProofs ---------------------------
(***************************************************************************)
(* Proofs about WorkloadOps, for any number of requests, any operations    *)
(* and either configuration.                                               *)
(***************************************************************************)
EXTENDS WorkloadOps, FiniteSetTheorems, TLAPS

Entry == [request : Requests, outcome : {"success", "error"}, claimed : 0..MaxChanges]
Event == [request : Requests, filter : Namespaces \cup {Empty, NoFilter}]

\* What an event is filtered on is a namespace, the empty one or nothing.
LEMMA FilterType ==
    ASSUME TypeOK, NEW r \in Requests
    PROVE  Filter(r) \in Namespaces \cup {Empty, NoFilter}
<1>1. Home[target[r]] \in Namespaces
    BY HomeAssumption DEF TypeOK
<1>2. named[r] \in Namespaces \cup {Empty}
    BY DEF TypeOK
<1> QED BY <1>1, <1>2 DEF Filter

\* Appending keeps what a sequence holds and adds one element.
LEMMA AppendKeeps ==
    ASSUME NEW S, NEW s \in Seq(S), NEW e \in S
    PROVE  /\ Append(s, e) \in Seq(S)
           /\ DOMAIN Append(s, e) = DOMAIN s \cup {Len(s) + 1}
           /\ \A i \in DOMAIN s : Append(s, e)[i] = s[i]
           /\ Append(s, e)[Len(s) + 1] = e
    OBVIOUS

\* An audit entry made of a request and an outcome.
LEMMA EntryType ==
    ASSUME TypeOK, NEW r \in Requests, NEW o \in {"success", "error"}, NEW n \in 0..MaxChanges,
           Record(r, o, n) \/ audit' = audit
    PROVE  audit' \in Seq(Entry)
<1>1. audit \in Seq(Entry) /\ [request |-> r, outcome |-> o, claimed |-> n] \in Entry
    BY DEF TypeOK, Entry
<1> QED BY <1>1, AppendKeeps DEF Record

\* What a request may claim without a count fits.
LEMMA ClaimTypes ==
    ASSUME TypeOK
    PROVE  0 \in 0..MaxChanges /\ \A r \in Requests : size[r] \in 0..MaxChanges /\ reply[r] \in 0..MaxChanges
BY BoundsAssumption DEF TypeOK

\* Every variable has its type.
THEOREM TypeCorrect == Spec => []TypeOK
<1>1. Init => TypeOK
    <2> SUFFICES ASSUME Init PROVE TypeOK
        OBVIOUS
    <2>1. \A r \in Requests : applied[r] = 0 /\ refused[r] = 0 /\ size[r] >= 0
        BY BoundsAssumption DEF Init
    <2> QED BY <2>1, BoundsAssumption DEF Init, TypeOK
<1>2. TypeOK /\ [Next]_vars => TypeOK'
    <2> SUFFICES ASSUME TypeOK, [Next]_vars PROVE TypeOK'
        OBVIOUS
    <2> USE DEF TypeOK, given, core
    <2>1. ASSUME NEW r \in Requests, Receive(r) PROVE TypeOK'
        BY <2>1 DEF Receive, Goto
    <2>2. ASSUME NEW r \in Requests, Preview(r) PROVE TypeOK'
        BY <2>2 DEF Preview, Answers, Goto
    <2>3. ASSUME NEW r \in Requests, WithoutCore(r) PROVE TypeOK'
        <3>1. audit' \in Seq(Entry)
            BY <2>3, EntryType, ClaimTypes DEF WithoutCore
        <3>2. /\ step' \in [Requests -> {"idle", "received", "calling", "succeeded",
                                          "failed", "recorded", "done"}]
              /\ answer' \in [Requests -> {"none", "preview", "accepted", "unavailable",
                                            "ok", "error"}]
            BY <2>3 DEF WithoutCore, Answers, Goto
        <3> QED BY <2>3, <3>1, <3>2 DEF WithoutCore, Entry
    <2>4. ASSUME NEW r \in Requests, CallCore(r) PROVE TypeOK'
        BY <2>4 DEF CallCore, Goto
    <2>5. ASSUME NEW r \in Requests, CoreApplies(r) PROVE TypeOK'
        <3>1. applied[r] + 1 \in Nat /\ applied[r] + 1 + refused[r] <= size[r]
            BY <2>5, BoundsAssumption DEF CoreApplies
        <3>2. /\ applied' \in [Requests -> Nat] /\ applied'[r] = applied[r] + 1
              /\ \A q \in Requests \ {r} : applied'[q] = applied[q]
            BY <2>5, <3>1 DEF CoreApplies
        <3> QED BY <2>5, <3>1, <3>2 DEF CoreApplies
    <2>6. ASSUME NEW r \in Requests, CoreRefuses(r) PROVE TypeOK'
        <3>1. refused[r] + 1 \in Nat /\ applied[r] + (refused[r] + 1) <= size[r]
            BY <2>6, BoundsAssumption DEF CoreRefuses
        <3>2. /\ refused' \in [Requests -> Nat] /\ refused'[r] = refused[r] + 1
              /\ \A q \in Requests \ {r} : refused'[q] = refused[q]
            BY <2>6, <3>1 DEF CoreRefuses
        <3> QED BY <2>6, <3>1, <3>2 DEF CoreRefuses
    <2>7. ASSUME NEW r \in Requests, CallSucceeds(r) \/ CallRefused(r) \/ CallLost(r)
          PROVE TypeOK'
        <3>1. applied[r] \in 0..MaxChanges
            BY BoundsAssumption
        <3> QED BY <2>7, <3>1 DEF CallSucceeds, CallRefused, CallLost, Goto
    <2>8. ASSUME NEW r \in Requests, AuditSuccess(r) PROVE TypeOK'
        <3>1. audit' \in Seq(Entry)
            BY <2>8, EntryType, ClaimTypes DEF AuditSuccess
        <3> QED BY <2>8, <3>1 DEF AuditSuccess, Goto, Entry
    <2>9. ASSUME NEW r \in Requests, ReportFailure(r) PROVE TypeOK'
        <3>1. audit' \in Seq(Entry)
            BY <2>9, EntryType, ClaimTypes DEF ReportFailure
        <3> QED BY <2>9, <3>1 DEF ReportFailure, Answers, Goto, Entry
    <2>10. ASSUME NEW r \in Requests, Complete(r) PROVE TypeOK'
        <3>1. events' \in Seq(Event)
            <4>1. events \in Seq(Event) /\ [request |-> r, filter |-> Filter(r)] \in Event
                BY FilterType DEF Event
            <4> QED BY <2>10, <4>1, AppendKeeps DEF Complete
        <3> QED BY <2>10, <3>1 DEF Complete, Answers, Goto, Event
    <2>11. CASE UNCHANGED vars
        BY <2>11 DEF vars
    <2> QED BY <2>1, <2>2, <2>3, <2>4, <2>5, <2>6, <2>7, <2>8, <2>9, <2>10, <2>11
            DEF Next, HandlerStep, CoreStep
<1> QED BY <1>1, <1>2, PTL DEF Spec

----------------------------------------------------------------------------
(* The audit log and the events tell the truth *)

HasSuccess(r) ==
    \E i \in DOMAIN audit : audit[i].request = r /\ audit[i].outcome = "success"

\* What AuditTruthful needs to be inductive: a handler past the core call with a
\* success knows as many changes made as it has been told, and one past the audit has
\* its entry there.
AuditInv ==
    /\ \A r \in Requests : step[r] \in {"succeeded", "recorded"} => Made(r, reply[r])
    /\ \A r \in Requests : step[r] = "recorded" => HasSuccess(r)
    /\ coreEnabled => \A i \in DOMAIN audit :
           audit[i].outcome = "success" => Made(audit[i].request, audit[i].claimed)
    /\ \A i \in DOMAIN events :
           /\ applied[events[i].request] = size[events[i].request]
           /\ HasSuccess(events[i].request)

\* No handler that publishes has its changes counted.
LEMMA PublishesOne == Publishes \cap Counting = {}
<1>1. Publishes \subseteq {"deploy", "delete", "restart", "rollback"}
    BY DEF Publishes, Does, Operations, Handler, handleDeployWorkload, handleDeleteWorkloadByID,
           handleRestartWorkloadByID, handleRollbackWorkloadByID, handleBulkWorkloads,
           handlePutNamespaceQuota, handleDeleteNamespaceQuota, handleCheckpointWorkload,
           handleRestoreWorkload, handleMigrateWorkload, handleDrainNode
<1>2. Counting \subseteq {"bulk", "drain"}
    BY DEF Counting, Does, Operations, Handler, handleDeployWorkload, handleDeleteWorkloadByID,
           handleRestartWorkloadByID, handleRollbackWorkloadByID, handleBulkWorkloads,
           handlePutNamespaceQuota, handleDeleteNamespaceQuota, handleCheckpointWorkload,
           handleRestoreWorkload, handleMigrateWorkload, handleDrainNode
<1> QED BY <1>1, <1>2

\* The core takes no change back.
LEMMA MadeStays ==
    ASSUME TypeOK, [Next]_vars, NEW r \in Requests
    PROVE  /\ \A n \in 0..MaxChanges : Made(r, n) => Made(r, n)'
           /\ applied[r] = size[r] => applied'[r] = size'[r]
<1> USE DEF given, core
<1>1. op' = op /\ size' = size
    BY DEF Next, HandlerStep, CoreStep, Receive, Preview, WithoutCore, CallCore, CallSucceeds,
           CallRefused, CallLost, AuditSuccess, ReportFailure, Complete, CoreApplies, CoreRefuses, vars
<1>2. applied[r] \in Nat /\ refused[r] \in Nat /\ size[r] \in Nat /\ applied[r] + refused[r] <= size[r]
    BY BoundsAssumption DEF TypeOK
<1>3. \/ applied'[r] = applied[r]
      \/ applied'[r] = applied[r] + 1 /\ applied[r] + refused[r] < size[r]
    <2>1. applied' = applied \/ \E q \in Requests : CoreApplies(q)
        BY DEF Next, HandlerStep, CoreStep, Receive, Preview, WithoutCore, CallCore, CallSucceeds,
               CallRefused, CallLost, AuditSuccess, ReportFailure, Complete, CoreRefuses, vars
    <2>2. ASSUME NEW q \in Requests, CoreApplies(q)
          PROVE  \/ applied'[r] = applied[r]
                 \/ applied'[r] = applied[r] + 1 /\ applied[r] + refused[r] < size[r]
        BY <2>2 DEF CoreApplies, TypeOK
    <2> QED BY <2>1, <2>2
<1>4. ASSUME applied[r] = size[r] PROVE applied'[r] = size'[r]
    BY <1>1, <1>2, <1>3, <1>4
<1>5. ASSUME NEW n \in 0..MaxChanges, Made(r, n) PROVE Made(r, n)'
    <2>1. n \in Nat /\ n <= applied'[r]
        BY <1>2, <1>3, <1>5, BoundsAssumption DEF Made
    <2> QED BY <1>1, <1>4, <1>5, <2>1 DEF Made
<1> QED BY <1>4, <1>5

\* The types of what the invariant speaks of.
LEMMA LogTypes ==
    TypeOK => /\ audit \in Seq(Entry) /\ events \in Seq(Event)
              /\ \A i \in DOMAIN audit : audit[i] \in Entry
              /\ \A i \in DOMAIN events : events[i] \in Event
<1>1. \A S : \A s \in Seq(S) : \A i \in DOMAIN s : s[i] \in S
    OBVIOUS
<1>2. TypeOK => audit \in Seq(Entry)
    BY DEF TypeOK, Entry
<1>3. TypeOK => events \in Seq(Event)
    BY DEF TypeOK, Event
<1> QED BY <1>1, <1>2, <1>3

\* The audit log only grows, so an entry stays.
LEMMA EntriesStay ==
    ASSUME TypeOK, NEW e \in Entry, audit' = Append(audit, e), NEW r, HasSuccess(r)
    PROVE  HasSuccess(r)'
<1>1. PICK i \in DOMAIN audit : audit[i].request = r /\ audit[i].outcome = "success"
    BY DEF HasSuccess
<1>2. i \in DOMAIN audit' /\ audit'[i] = audit[i]
    BY AppendKeeps, LogTypes
<1> QED BY <1>1, <1>2 DEF HasSuccess

\* A step that writes to neither log and makes no handler succeed keeps the invariant.
LEMMA QuietStep ==
    ASSUME TypeOK, AuditInv, [Next]_vars, UNCHANGED <<coreEnabled, audit, events>>,
           \A r \in Requests : step'[r] \in {"succeeded", "recorded"} =>
               step'[r] = step[r] /\ reply'[r] = reply[r]
    PROVE  AuditInv'
<1>1. \A r \in Requests : HasSuccess(r)' = HasSuccess(r)
    BY DEF HasSuccess
<1>2. \A i \in DOMAIN audit : audit[i].request \in Requests /\ audit[i].claimed \in 0..MaxChanges
    BY LogTypes DEF Entry
<1>3. \A i \in DOMAIN events : events[i].request \in Requests
    BY LogTypes DEF Event
<1>4. \A r \in Requests : reply[r] \in 0..MaxChanges
    BY ClaimTypes
<1>5. \A r \in Requests : step'[r] \in {"succeeded", "recorded"} => Made(r, reply[r])'
    <2> SUFFICES ASSUME NEW r \in Requests, step'[r] \in {"succeeded", "recorded"}
                 PROVE  Made(r, reply[r])'
        OBVIOUS
    <2>1. Made(r, reply[r]) /\ reply'[r] = reply[r]
        BY DEF AuditInv
    <2> QED BY <1>4, <2>1, MadeStays DEF Made
<1>6. coreEnabled => \A i \in DOMAIN audit :
          audit[i].outcome = "success" => Made(audit[i].request, audit[i].claimed)'
    BY <1>2, MadeStays DEF AuditInv, Made
<1>7. \A i \in DOMAIN events : applied'[events[i].request] = size'[events[i].request]
    BY <1>3, MadeStays DEF AuditInv
<1> QED BY <1>1, <1>3, <1>5, <1>6, <1>7 DEF AuditInv, Made

\* A step that appends an entry to the audit log, of which the core has made what it
\* claims, keeps the invariant if whoever is past the audit has an entry.
LEMMA RecordingStep ==
    ASSUME TypeOK, AuditInv, [Next]_vars, NEW e \in Entry, audit' = Append(audit, e),
           UNCHANGED <<given, core, events>>,
           coreEnabled /\ e.outcome = "success" => Made(e.request, e.claimed),
           \A q \in Requests : step'[q] \in {"succeeded", "recorded"} => Made(q, reply[q]),
           \A q \in Requests :
               step'[q] = "recorded" => step[q] = "recorded" \/ HasSuccess(q)'
    PROVE  AuditInv'
<1> USE DEF given, core
<1>1. /\ DOMAIN audit' = DOMAIN audit \cup {Len(audit) + 1}
      /\ \A i \in DOMAIN audit : audit'[i] = audit[i]
      /\ audit'[Len(audit) + 1] = e
    BY AppendKeeps, LogTypes
<1>2. \A q \in Requests : step'[q] = "recorded" => HasSuccess(q)'
    BY EntriesStay DEF AuditInv
<1>3. \A q, n : Made(q, n)' = Made(q, n)
    BY DEF Made
<1>4. coreEnabled => \A i \in DOMAIN audit' :
          audit'[i].outcome = "success" => Made(audit'[i].request, audit'[i].claimed)
    BY <1>1 DEF AuditInv
<1>5. \A i \in DOMAIN events : HasSuccess(events[i].request)'
    BY EntriesStay DEF AuditInv
<1> QED BY <1>2, <1>3, <1>4, <1>5 DEF AuditInv, Made

LEMMA AuditInvariant == Spec => []AuditInv
<1>1. Init => AuditInv
    BY DEF Init, AuditInv
<1>2. TypeOK /\ AuditInv /\ [Next]_vars => AuditInv'
    <2> SUFFICES ASSUME TypeOK, AuditInv, [Next]_vars PROVE AuditInv'
        OBVIOUS
    <2> USE DEF given, core
    <2>1. ASSUME NEW r \in Requests,
                 Receive(r) \/ Preview(r) \/ CallCore(r) \/ CallRefused(r) \/ CallLost(r)
          PROVE AuditInv'
        <3>1. UNCHANGED <<coreEnabled, audit, events, reply>>
            BY <2>1 DEF Receive, Preview, CallCore, CallRefused, CallLost
        <3>2. \A q \in Requests :
                  step'[q] \in {"succeeded", "recorded"} => step'[q] = step[q]
            BY <2>1 DEF Receive, Preview, CallCore, CallRefused, CallLost, Answers, Goto,
                        TypeOK
        <3> QED BY <3>1, <3>2, QuietStep
    <2>2. ASSUME NEW r \in Requests, CoreApplies(r) \/ CoreRefuses(r) PROVE AuditInv'
        BY <2>2, QuietStep DEF CoreApplies, CoreRefuses
    <2>3. ASSUME NEW r \in Requests, CallSucceeds(r) PROVE AuditInv'
        <3>1. /\ \A q : HasSuccess(q)' = HasSuccess(q)
              /\ \A q, n : Made(q, n)' = Made(q, n)
              /\ UNCHANGED <<coreEnabled, audit, events, applied, size>>
            BY <2>3 DEF CallSucceeds, HasSuccess, Made
        <3>2. applied[r] \in Nat /\ (op[r] \in Counting \/ applied[r] = size[r])
            BY <2>3 DEF CallSucceeds, TypeOK
        <3>3. \A q \in Requests :
                  /\ step'[q] = (IF q = r THEN "succeeded" ELSE step[q])
                  /\ reply'[q] = (IF q = r THEN applied[r] ELSE reply[q])
            BY <2>3 DEF CallSucceeds, Goto, TypeOK
        <3>4. Made(r, applied[r])
            BY <3>2 DEF Made
        <3>5. \A q \in Requests : step'[q] \in {"succeeded", "recorded"} => Made(q, reply'[q])
            BY <3>3, <3>4 DEF AuditInv
        <3>6. \A q \in Requests : step'[q] = "recorded" => HasSuccess(q)
            BY <3>3 DEF AuditInv
        <3> QED BY <3>1, <3>5, <3>6 DEF AuditInv, Made
    <2>4. ASSUME NEW r \in Requests, WithoutCore(r) PROVE AuditInv'
        <3>1. \A q \in Requests :
                  step'[q] \in {"succeeded", "recorded"} => step'[q] = step[q]
            BY <2>4 DEF WithoutCore, Answers, Goto, TypeOK
        <3>2. CASE op[r] \in AuditsWithoutCore
            <4> DEFINE e == [request |-> r, outcome |-> "success", claimed |-> size[r]]
            <4>1. e \in Entry /\ audit' = Append(audit, e) /\ ~coreEnabled
                BY <2>4, <3>2, ClaimTypes DEF WithoutCore, Record, Entry
            <4>2. UNCHANGED <<given, core, events>>
                BY <2>4 DEF WithoutCore
            <4> QED BY <3>1, <4>1, <4>2, RecordingStep DEF AuditInv
        <3>3. CASE op[r] \notin AuditsWithoutCore
            BY <2>4, <3>1, <3>3, QuietStep DEF WithoutCore
        <3> QED BY <3>2, <3>3
    <2>5. ASSUME NEW r \in Requests, AuditSuccess(r) PROVE AuditInv'
        <3> DEFINE e == [request |-> r, outcome |-> "success", claimed |-> reply[r]]
        <3>1. e \in Entry /\ audit' = Append(audit, e)
            BY <2>5, ClaimTypes DEF AuditSuccess, Record, Entry
        <3>2. HasSuccess(r)'
            <4>1. Len(audit) + 1 \in DOMAIN audit' /\ audit'[Len(audit) + 1] = e
                BY <3>1, AppendKeeps, LogTypes
            <4> QED BY <4>1 DEF HasSuccess
        <3>3. Made(e.request, e.claimed)
            BY <2>5 DEF AuditSuccess, AuditInv
        <3>4. \A q \in Requests : step'[q] = IF q = r THEN "recorded" ELSE step[q]
            BY <2>5 DEF AuditSuccess, Goto, TypeOK
        <3>5. \A q \in Requests : step'[q] \in {"succeeded", "recorded"} => Made(q, reply[q])
            BY <3>3, <3>4 DEF AuditInv
        <3>6. UNCHANGED <<given, core, events>>
            BY <2>5 DEF AuditSuccess
        <3>7. \A q \in Requests :
                  step'[q] = "recorded" => step[q] = "recorded" \/ HasSuccess(q)'
            BY <3>2, <3>4
        <3> HIDE DEF e
        <3> QED BY <3>1, <3>3, <3>5, <3>6, <3>7, RecordingStep
    <2>6. ASSUME NEW r \in Requests, ReportFailure(r) PROVE AuditInv'
        <3>1. \A q \in Requests :
                  step'[q] \in {"succeeded", "recorded"} => step'[q] = step[q]
            BY <2>6 DEF ReportFailure, Answers, Goto, TypeOK
        <3>2. CASE op[r] \in AuditsErrors
            <4> DEFINE e == [request |-> r, outcome |-> "error", claimed |-> 0]
            <4>1. e \in Entry /\ audit' = Append(audit, e) /\ e.outcome # "success"
                BY <2>6, <3>2, ClaimTypes DEF ReportFailure, Record, Entry
            <4>2. UNCHANGED <<given, core, events>>
                BY <2>6 DEF ReportFailure
            <4> QED BY <3>1, <4>1, <4>2, RecordingStep DEF AuditInv
        <3>3. CASE op[r] \notin AuditsErrors
            BY <2>6, <3>1, <3>3, QuietStep DEF ReportFailure
        <3> QED BY <3>2, <3>3
    <2>7. ASSUME NEW r \in Requests, Complete(r) PROVE AuditInv'
        <3>1. /\ \A q : HasSuccess(q)' = HasSuccess(q)
              /\ \A q, n : Made(q, n)' = Made(q, n)
              /\ UNCHANGED <<given, core, audit>>
            BY <2>7 DEF Complete, HasSuccess, Made
        <3>2. HasSuccess(r) /\ Made(r, reply[r])
            BY <2>7 DEF Complete, AuditInv
        <3>3. \A q \in Requests :
                  step'[q] \in {"succeeded", "recorded"} => step'[q] = step[q]
            BY <2>7 DEF Complete, Answers, Goto, TypeOK
        <3>4. \A i \in DOMAIN events' :
                  /\ applied[events'[i].request] = size[events'[i].request]
                  /\ HasSuccess(events'[i].request)
            <4>1. CASE op[r] \in Publishes /\ SSEEnabled
                <5> DEFINE e == [request |-> r, filter |-> Filter(r)]
                <5>1. e \in Event /\ events' = Append(events, e)
                    BY <2>7, <4>1, FilterType DEF Complete, Event
                <5>2. /\ DOMAIN events' = DOMAIN events \cup {Len(events) + 1}
                      /\ \A i \in DOMAIN events : events'[i] = events[i]
                      /\ events'[Len(events) + 1] = e
                    BY <5>1, AppendKeeps, LogTypes
                <5>3. applied[r] = size[r]
                    BY <3>2, <4>1, PublishesOne DEF Made
                <5> QED BY <3>2, <5>2, <5>3 DEF AuditInv
            <4>2. CASE ~(op[r] \in Publishes /\ SSEEnabled)
                BY <2>7, <4>2 DEF Complete, AuditInv
            <4> QED BY <4>1, <4>2
        <3> QED BY <3>1, <3>3, <3>4 DEF AuditInv, Made
    <2>8. CASE UNCHANGED vars
        BY <2>8, QuietStep DEF vars
    <2> QED BY <2>1, <2>2, <2>3, <2>4, <2>5, <2>6, <2>7, <2>8
            DEF Next, HandlerStep, CoreStep
<1> QED BY <1>1, <1>2, TypeCorrect, PTL DEF Spec

\* No audit entry claims more changes than the core has made, be it the one asked for or
\* those counted of a bulk request or a drain, and every event is of a change that is made
\* and in the audit log, whatever the core refuses and whatever becomes of its answers.
THEOREM RecordsTruthful == Spec => []AuditTruthful
<1>1. AuditInv => AuditTruthful
    BY DEF AuditInv, AuditTruthful, HasSuccess, Entries
<1> QED BY <1>1, AuditInvariant, PTL

----------------------------------------------------------------------------
(* Dry runs leave no trace *)

IsPreview(r) == dryRun[r] /\ op[r] \in Previews

\* A request that only previews never gets past the preview.
PreviewInv ==
    \A r \in Requests : IsPreview(r) =>
        step[r] \in {"idle", "received", "done"} /\ r \notin sent
PreviewLogsInv ==
    /\ \A i \in DOMAIN audit : ~IsPreview(audit[i].request)
    /\ \A i \in DOMAIN events : ~IsPreview(events[i].request)

LEMMA PreviewStep ==
    ASSUME TypeOK, PreviewInv, [Next]_vars
    PROVE  PreviewInv' /\ \A r : IsPreview(r)' = IsPreview(r)
<1> USE DEF given, core
<1>1. UNCHANGED given
    BY DEF Next, HandlerStep, CoreStep, Receive, Preview, WithoutCore, CallCore, CallSucceeds,
           CallRefused, CallLost, AuditSuccess, ReportFailure, Complete, CoreApplies,
           CoreRefuses, vars
<1>2. \A r : IsPreview(r)' = IsPreview(r)
    BY <1>1 DEF IsPreview
<1>3. ASSUME NEW r \in Requests, HandlerStep(r) PROVE PreviewInv'
    <2>1. \A q \in Requests \ {r} : step'[q] = step[q]
        BY <1>3 DEF HandlerStep, Receive, Preview, WithoutCore, CallCore, CallSucceeds, CallRefused,
                    CallLost, AuditSuccess, ReportFailure, Complete, Answers, Goto, TypeOK
    <2>2. IsPreview(r) => step'[r] \in {"received", "done"}
        BY <1>3 DEF HandlerStep, Receive, Preview, WithoutCore, CallCore, CallSucceeds, CallRefused,
                    CallLost, AuditSuccess, ReportFailure, Complete, Answers, Goto, TypeOK,
                    PreviewInv, IsPreview, Proceeds
    <2>3. sent' = sent \/ (sent' = sent \cup {r} /\ ~IsPreview(r))
        BY <1>3 DEF HandlerStep, Receive, Preview, WithoutCore, CallCore, CallSucceeds, CallRefused,
                    CallLost, AuditSuccess, ReportFailure, Complete, Proceeds, IsPreview
    <2> QED BY <1>2, <2>1, <2>2, <2>3 DEF PreviewInv
<1>4. ASSUME NEW r \in Requests, CoreStep(r) PROVE PreviewInv'
    BY <1>2, <1>4 DEF CoreStep, CoreApplies, CoreRefuses, PreviewInv
<1>5. CASE UNCHANGED vars
    BY <1>2, <1>5 DEF vars, PreviewInv
<1> QED BY <1>2, <1>3, <1>4, <1>5 DEF Next

\* What a step may add to the logs names a request that does not only preview.
LEMMA LogsStep ==
    ASSUME TypeOK, PreviewInv, [Next]_vars
    PROVE  /\ audit' = audit \/ \E e \in Entry : audit' = Append(audit, e) /\ ~IsPreview(e.request)
           /\ events' = events \/ \E e \in Event : events' = Append(events, e) /\ ~IsPreview(e.request)
<1> USE DEF given, core
<1>1. ASSUME NEW r \in Requests,
             Receive(r) \/ Preview(r) \/ CallCore(r) \/ CallSucceeds(r) \/ CallRefused(r)
                 \/ CallLost(r) \/ CoreStep(r)
      PROVE UNCHANGED <<audit, events>>
    BY <1>1 DEF Receive, Preview, CallCore, CallSucceeds, CallRefused, CallLost, CoreStep,
                CoreApplies, CoreRefuses
<1>2. ASSUME NEW r \in Requests, NEW o \in {"success", "error"}, NEW n \in 0..MaxChanges
      PROVE [request |-> r, outcome |-> o, claimed |-> n] \in Entry
    BY DEF Entry
<1>3. ASSUME NEW r \in Requests, WithoutCore(r) \/ AuditSuccess(r) \/ ReportFailure(r)
      PROVE /\ events' = events
            /\ audit' = audit \/ \E e \in Entry : audit' = Append(audit, e) /\ ~IsPreview(e.request)
    <2>1. ~IsPreview(r) /\ events' = events
        BY <1>3 DEF WithoutCore, AuditSuccess, ReportFailure, PreviewInv, IsPreview, Proceeds
    <2>2. audit' = audit \/ \E o \in {"success", "error"}, n \in 0..MaxChanges :
              audit' = Append(audit, [request |-> r, outcome |-> o, claimed |-> n])
        BY <1>3, ClaimTypes DEF WithoutCore, AuditSuccess, ReportFailure, Record
    <2> QED BY <1>2, <2>1, <2>2
<1>4. ASSUME NEW r \in Requests, Complete(r)
      PROVE /\ audit' = audit
            /\ events' = events \/ \E e \in Event : events' = Append(events, e) /\ ~IsPreview(e.request)
    <2>1. [request |-> r, filter |-> Filter(r)] \in Event
        BY FilterType DEF Event
    <2> QED BY <1>4, <2>1 DEF Complete, PreviewInv
<1>5. CASE UNCHANGED vars
    BY <1>5 DEF vars
<1> QED BY <1>1, <1>3, <1>4, <1>5 DEF Next, HandlerStep

LEMMA PreviewInvariant == Spec => [](PreviewInv /\ PreviewLogsInv)
<1>1. Init => PreviewInv /\ PreviewLogsInv
    BY DEF Init, PreviewInv, PreviewLogsInv
<1>2. TypeOK /\ PreviewInv /\ PreviewLogsInv /\ [Next]_vars => (PreviewInv /\ PreviewLogsInv)'
    <2> SUFFICES ASSUME TypeOK, PreviewInv, PreviewLogsInv, [Next]_vars
                 PROVE (PreviewInv /\ PreviewLogsInv)'
        OBVIOUS
    <2>1. PreviewInv' /\ \A r : IsPreview(r)' = IsPreview(r)
        BY PreviewStep
    <2>2. \A i \in DOMAIN audit' : ~IsPreview(audit'[i].request)
        <3>1. CASE audit' = audit
            BY <3>1 DEF PreviewLogsInv
        <3>2. ASSUME NEW e \in Entry, audit' = Append(audit, e), ~IsPreview(e.request)
              PROVE \A i \in DOMAIN audit' : ~IsPreview(audit'[i].request)
            <4>1. /\ DOMAIN audit' = DOMAIN audit \cup {Len(audit) + 1}
                  /\ \A i \in DOMAIN audit : audit'[i] = audit[i]
                  /\ audit'[Len(audit) + 1] = e
                BY <3>2, AppendKeeps, LogTypes
            <4> QED BY <3>2, <4>1 DEF PreviewLogsInv
        <3> QED BY <3>1, <3>2, LogsStep
    <2>3. \A i \in DOMAIN events' : ~IsPreview(events'[i].request)
        <3>1. CASE events' = events
            BY <3>1 DEF PreviewLogsInv
        <3>2. ASSUME NEW e \in Event, events' = Append(events, e), ~IsPreview(e.request)
              PROVE \A i \in DOMAIN events' : ~IsPreview(events'[i].request)
            <4>1. /\ DOMAIN events' = DOMAIN events \cup {Len(events) + 1}
                  /\ \A i \in DOMAIN events : events'[i] = events[i]
                  /\ events'[Len(events) + 1] = e
                BY <3>2, AppendKeeps, LogTypes
            <4> QED BY <3>2, <4>1 DEF PreviewLogsInv
        <3> QED BY <3>1, <3>2, LogsStep
    <2> QED BY <2>1, <2>2, <2>3 DEF PreviewLogsInv
<1> QED BY <1>1, <1>2, TypeCorrect, PTL DEF Spec

\* A dry run of a handler that looks for one reaches neither the core nor the logs.
THEOREM DryRunsArePure == Spec => []PreviewsPure
<1>1. PreviewInv /\ PreviewLogsInv => PreviewsPure
    BY DEF PreviewInv, PreviewLogsInv, IsPreview, PreviewsPure, EventsOf
<1> QED BY <1>1, PreviewInvariant, PTL

----------------------------------------------------------------------------
(* The answer and the records *)

\* Where a log names a request.
Of(s, r) == {i \in DOMAIN s : s[i].request = r}

\* An entry about another request changes nothing for this one.
LEMMA OfOther ==
    ASSUME NEW S, NEW s \in Seq(S), NEW e \in S, NEW r, e.request # r
    PROVE  Of(Append(s, e), r) = Of(s, r)
BY AppendKeeps DEF Of

OneSuccess(r) == \E k : Of(audit, r) = {k} /\ audit[k].outcome = "success"
NoSuccess(r) == \A i \in Of(audit, r) : audit[i].outcome = "error"

\* What the logs say of a request follows from where its handler is, and from the
\* answer once it is there.
RecordInv(r) ==
    /\ step[r] \notin {"recorded", "done"} => Of(audit, r) = {}
    /\ step[r] = "recorded" => OneSuccess(r)
    /\ step[r] # "done" => Of(events, r) = {} /\ answer[r] = "none"
    /\ answer[r] = "ok" =>
          /\ OneSuccess(r)
          /\ IF op[r] \in Publishes /\ SSEEnabled THEN \E k : Of(events, r) = {k}
             ELSE Of(events, r) = {}
    /\ answer[r] = "error" => NoSuccess(r) /\ Of(events, r) = {}

\* A request's records are its own: a step of another one leaves them.
LEMMA OthersRecords ==
    ASSUME TypeOK, NEW r \in Requests, HandlerStep(r) \/ CoreStep(r),
           NEW q \in Requests \ {r}, RecordInv(q)
    PROVE  RecordInv(q)'
<1> USE DEF given, core
<1>1. step'[q] = step[q] /\ answer'[q] = answer[q] /\ op' = op
    BY DEF HandlerStep, CoreStep, Receive, Preview, WithoutCore, CallCore, CallSucceeds, CallRefused,
           CallLost, AuditSuccess, ReportFailure, Complete, CoreApplies, CoreRefuses, Answers, Goto,
           TypeOK
<1>2. /\ audit' = audit \/ \E e \in Entry : audit' = Append(audit, e) /\ e.request = r
      /\ events' = events \/ \E e \in Event : events' = Append(events, e) /\ e.request = r
    <2>1. /\ \A o \in {"success", "error"}, n \in 0..MaxChanges :
                [request |-> r, outcome |-> o, claimed |-> n] \in Entry
          /\ [request |-> r, filter |-> Filter(r)] \in Event
        BY FilterType DEF Entry, Event
    <2>2. /\ audit' = audit \/ \E o \in {"success", "error"}, n \in 0..MaxChanges :
                  audit' = Append(audit, [request |-> r, outcome |-> o, claimed |-> n])
          /\ events' = events \/ events' = Append(events, [request |-> r, filter |-> Filter(r)])
        BY ClaimTypes DEF HandlerStep, CoreStep, Receive, Preview, WithoutCore, CallCore, CallSucceeds,
               CallRefused, CallLost, AuditSuccess, ReportFailure, Complete, CoreApplies, CoreRefuses,
               Record
    <2> QED BY <2>1, <2>2
<1>3. Of(audit', q) = Of(audit, q) /\ \A i \in Of(audit, q) : audit'[i] = audit[i]
    <2>1. ASSUME NEW e \in Entry, audit' = Append(audit, e), e.request = r
          PROVE  Of(audit', q) = Of(audit, q) /\ \A i \in Of(audit, q) : audit'[i] = audit[i]
        <3>1. audit \in Seq(Entry) /\ e.request # q
            BY <2>1, LogTypes
        <3>2. Of(Append(audit, e), q) = Of(audit, q)
            BY <3>1, OfOther
        <3>3. \A i \in Of(audit, q) : Append(audit, e)[i] = audit[i]
            BY <3>1, AppendKeeps DEF Of
        <3> QED BY <2>1, <3>2, <3>3
    <2> QED BY <1>2, <2>1
<1>4. Of(events', q) = Of(events, q)
    <2>1. ASSUME NEW e \in Event, events' = Append(events, e), e.request = r
          PROVE  Of(events', q) = Of(events, q)
        <3>1. events \in Seq(Event) /\ e.request # q
            BY <2>1, LogTypes
        <3>2. Of(Append(events, e), q) = Of(events, q)
            BY <3>1, OfOther
        <3> QED BY <2>1, <3>2
    <2> QED BY <1>2, <2>1
<1> QED BY <1>1, <1>3, <1>4 DEF RecordInv, OneSuccess, NoSuccess

LEMMA OwnRecords ==
    ASSUME TypeOK, NEW r \in Requests, RecordInv(r), HandlerStep(r) \/ CoreStep(r)
    PROVE  RecordInv(r)'
<1> USE DEF given, core
<1>0. audit \in Seq(Entry) /\ events \in Seq(Event)
    BY LogTypes
<1>1. CASE Receive(r) \/ CallCore(r) \/ CallSucceeds(r) \/ CallRefused(r) \/ CallLost(r) \/ CoreStep(r)
    <2>1. UNCHANGED <<op, audit, events, answer>>
        BY <1>1 DEF Receive, CallCore, CallSucceeds, CallRefused, CallLost, CoreStep, CoreApplies,
                    CoreRefuses
    <2>2. \/ step'[r] = step[r]
          \/ step[r] \notin {"recorded", "done"} /\ step'[r] \notin {"recorded", "done"}
        BY <1>1 DEF Receive, CallCore, CallSucceeds, CallRefused, CallLost, CoreStep, CoreApplies,
                    CoreRefuses, Goto, Proceeds, TypeOK
    <2> QED BY <2>1, <2>2 DEF RecordInv, OneSuccess, NoSuccess
<1>2. CASE Preview(r)
    BY <1>2 DEF Preview, Answers, Goto, TypeOK, RecordInv
<1>3. CASE WithoutCore(r)
    BY <1>3 DEF WithoutCore, Answers, Goto, TypeOK, RecordInv
<1>4. CASE AuditSuccess(r)
    <2> DEFINE e == [request |-> r, outcome |-> "success", claimed |-> reply[r]]
    <2>1. e \in Entry /\ audit' = Append(audit, e) /\ Of(audit, r) = {}
        BY <1>4, ClaimTypes DEF AuditSuccess, Record, Entry, RecordInv
    <2>2. e.request = r /\ e.outcome = "success"
        OBVIOUS
    <2> HIDE DEF e
    <2>3. Of(audit', r) = {Len(audit) + 1} /\ audit'[Len(audit) + 1] = e
        <3>1. /\ DOMAIN audit' = DOMAIN audit \cup {Len(audit) + 1}
              /\ \A i \in DOMAIN audit : audit'[i] = audit[i]
              /\ audit'[Len(audit) + 1] = e
            BY ONLY <1>0, <2>1, AppendKeeps
        <3> QED BY ONLY <2>1, <2>2, <3>1 DEF Of
    <2>4. OneSuccess(r)'
        BY <2>2, <2>3 DEF OneSuccess
    <2> QED BY <1>4, <2>4 DEF AuditSuccess, Goto, TypeOK, RecordInv
<1>5. CASE ReportFailure(r)
    <2>1. Of(audit, r) = {} /\ Of(events, r) = {} /\ step'[r] = "done" /\ answer'[r] = "error"
          /\ events' = events
        BY <1>5 DEF ReportFailure, Answers, Goto, TypeOK, RecordInv
    <2>2. NoSuccess(r)'
        <3> DEFINE e == [request |-> r, outcome |-> "error", claimed |-> 0]
        <3>1. e \in Entry /\ (audit' = audit \/ audit' = Append(audit, e))
            BY <1>5, ClaimTypes DEF ReportFailure, Record, Entry
        <3>2. CASE audit' = Append(audit, e)
            <4>1. Of(audit, r) = {} /\ e.request = r /\ e.outcome = "error"
                BY <2>1
            <4> HIDE DEF e
            <4>2. Of(audit', r) = {Len(audit) + 1} /\ audit'[Len(audit) + 1] = e
                <5>1. /\ DOMAIN audit' = DOMAIN audit \cup {Len(audit) + 1}
                      /\ \A i \in DOMAIN audit : audit'[i] = audit[i]
                      /\ audit'[Len(audit) + 1] = e
                    BY ONLY <1>0, <3>1, <3>2, AppendKeeps
                <5> QED BY ONLY <4>1, <5>1 DEF Of
            <4> QED BY <4>1, <4>2 DEF NoSuccess
        <3> QED BY <2>1, <3>1, <3>2 DEF NoSuccess
    <2> QED BY <2>1, <2>2 DEF RecordInv
<1>6. CASE Complete(r)
    <2>1. /\ OneSuccess(r) /\ Of(events, r) = {} /\ step'[r] = "done" /\ answer'[r] = "ok"
          /\ audit' = audit /\ op' = op
        BY <1>6 DEF Complete, Answers, Goto, TypeOK, RecordInv
    <2>2. CASE op[r] \in Publishes /\ SSEEnabled
        <3> DEFINE e == [request |-> r, filter |-> Filter(r)]
        <3>1. e \in Event /\ events' = Append(events, e)
            BY <1>6, <2>2, FilterType DEF Complete, Event
        <3>2. Of(events, r) = {} /\ e.request = r
            BY <2>1
        <3> HIDE DEF e
        <3>3. Of(events', r) = {Len(events) + 1}
            <4>1. /\ DOMAIN events' = DOMAIN events \cup {Len(events) + 1}
                  /\ \A i \in DOMAIN events : events'[i] = events[i]
                  /\ events'[Len(events) + 1] = e
                BY ONLY <1>0, <3>1, AppendKeeps
            <4> QED BY ONLY <3>2, <4>1 DEF Of
        <3> QED BY <2>1, <2>2, <3>3 DEF RecordInv, OneSuccess
    <2>3. CASE ~(op[r] \in Publishes /\ SSEEnabled)
        BY <1>6, <2>1, <2>3 DEF Complete, RecordInv, OneSuccess
    <2> QED BY <2>2, <2>3
<1> QED BY <1>1, <1>2, <1>3, <1>4, <1>5, <1>6 DEF HandlerStep

LEMMA RecordInvariant == Spec => [](\A r \in Requests : RecordInv(r))
<1> DEFINE Records == \A r \in Requests : RecordInv(r)
<1>1. Init => Records
    BY DEF Init, RecordInv, Of
<1>2. TypeOK /\ Records /\ [Next]_vars => Records'
    <2> SUFFICES ASSUME TypeOK, Records, [Next]_vars, NEW q \in Requests PROVE RecordInv(q)'
        OBVIOUS
    <2>1. ASSUME NEW r \in Requests, HandlerStep(r) \/ CoreStep(r) PROVE RecordInv(q)'
        <3>1. CASE q = r
            BY <2>1, <3>1, OwnRecords
        <3>2. CASE q # r
            BY <2>1, <3>2, OthersRecords
        <3> QED BY <3>1, <3>2
    <2>2. CASE UNCHANGED vars
        BY <2>2 DEF vars, given, RecordInv, OneSuccess, NoSuccess, Of
    <2> QED BY <2>1, <2>2 DEF Next
<1> HIDE DEF Records
<1>3. Spec => []Records
    BY <1>1, <1>2, TypeCorrect, PTL DEF Spec
<1> QED BY <1>3 DEF Records

\* Whoever is told of success finds one audit entry of it and, where the handler
\* publishes, one event; whoever is told of an error finds neither: for any number
\* of requests at a time, whatever the core and the network do.
THEOREM AnswersMatchRecords == Spec => []AnswerMatchesRecords
<1>1. TypeOK /\ (\A r \in Requests : RecordInv(r)) => AnswerMatchesRecords
    <2> SUFFICES ASSUME TypeOK, NEW r \in Requests, RecordInv(r)
                 PROVE  /\ answer[r] = "ok" =>
                              /\ Cardinality(Entries(r, "success")) = 1
                              /\ Entries(r, "error") = {}
                              /\ Cardinality(EventsOf(r)) =
                                    IF op[r] \in Publishes /\ SSEEnabled THEN 1 ELSE 0
                        /\ answer[r] = "error" => Entries(r, "success") = {} /\ EventsOf(r) = {}
        BY DEF AnswerMatchesRecords
    <2>1. EventsOf(r) = Of(events, r)
        BY DEF EventsOf, Of
    <2>2. \A o : Entries(r, o) \subseteq {i \in Of(audit, r) : audit[i].outcome = o}
        BY DEF Entries, Of
    <2>3. CASE answer[r] = "ok"
        <3>1. PICK k : Of(audit, r) = {k} /\ audit[k].outcome = "success"
            BY <2>3 DEF RecordInv, OneSuccess
        <3>2. k \in DOMAIN audit /\ audit[k].request = r
            BY <3>1 DEF Of
        <3>3. Entries(r, "success") = {k} /\ Entries(r, "error") = {}
            BY <2>2, <3>1, <3>2 DEF Entries
        <3> QED BY <2>1, <2>3, <3>3, FS_Singleton, FS_EmptySet DEF RecordInv
    <2>4. CASE answer[r] = "error"
        BY <2>1, <2>2, <2>4 DEF RecordInv, NoSuccess
    <2> QED BY <2>3, <2>4
<1> QED BY <1>1, TypeCorrect, RecordInvariant, PTL

=============================================================================
