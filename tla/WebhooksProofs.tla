--------------------------- MODULE WebhooksProofs ---------------------------
(***************************************************************************)
(* Proofs about Webhooks, for every set of webhooks and callers, every     *)
(* capacity of the queue and every number of retries and triggers.         *)
(***************************************************************************)
EXTENDS Webhooks, SequenceTheorems, TLAPS

USE DEF registry, vars, Idle, Receiving

----------------------------------------------------------------------------
(* Types *)

LEMMA JobFields ==
    ASSUME NEW j \in Jobs
    PROVE  /\ j.n \in 1..MaxTriggers
           /\ j.n \in Nat
           /\ j.hook \in Hooks
           /\ j = [n |-> j.n, hook |-> j.hook]
BY MaxTriggersAssumption DEF Jobs

LEMMA CallerFields ==
    ASSUME NEW c \in CallerStates
    PROVE  /\ c.step \in {"idle", "updating", "triggering", "waiting"}
           /\ c.step = "updating" => c.hook \in Hooks
           /\ c.step = "triggering" => c.event \in Events /\ c.hook \in Hooks \cup {NoHook}
           /\ c.step = "waiting" => /\ c.n \in 1..MaxTriggers
                                    /\ c.hook \in Hooks \cup {NoHook}
                                    /\ c.failed \in BOOLEAN
BY DEF CallerStates

\* What any call of deliver needs of its own record.
LEMMA CallFields ==
    ASSUME NEW d \in Calls
    PROVE  /\ d.by \in {"trigger", "worker"}
           /\ d.step \in {"starting", "posting", "queueing"}
           /\ d.job \in Jobs
           /\ d = [by |-> d.by, job |-> d.job, step |-> d.step]
BY DEF Calls

\* A call of deliver that returns leaves the callers and the worker well typed.
LEMMA ReturnsTyped ==
    ASSUME caller \in [Callers -> CallerStates], worker \in WorkerStates,
           NEW d \in Calls, NEW ok \in BOOLEAN, Returns(d, ok)
    PROVE  caller' \in [Callers -> CallerStates] /\ worker' \in WorkerStates
<1>1. CASE d.by = "worker"
  BY <1>1 DEF Returns, WorkerStates
<1>2. CASE d.by # "worker"
  <2>1. ASSUME NEW p \in Callers,
               caller[p].step = "waiting" /\ caller[p].n = d.job.n /\ ~ok
        PROVE  [step |-> "waiting", n |-> d.job.n, hook |-> caller[p].hook,
                failed |-> TRUE] \in CallerStates
    BY <2>1, CallerFields DEF CallerStates
  <2> QED BY <1>2, <2>1 DEF Returns
<1> QED BY <1>1, <1>2

LEMMA AnswersTyped ==
    ASSUME answers \subseteq [n : 0..MaxTriggers, ok : BOOLEAN],
           NEW p, NEW n \in 0..MaxTriggers, NEW ok \in BOOLEAN, AnswerTest(p, n, ok)
    PROVE  answers' \subseteq [n : 0..MaxTriggers, ok : BOOLEAN]
BY DEF AnswerTest

LEMMA RecordTyped ==
    ASSUME NEW j \in Jobs, NEW ok \in BOOLEAN
    PROVE  [job |-> j, ok |-> ok] \in [job : Jobs, ok : BOOLEAN]
OBVIOUS

LEMMA IdleTyped == Idle \in CallerStates
BY DEF CallerStates

\* Every variable keeps its type; the queue keeps to its capacity (webhook.go:47).
THEOREM TypeCorrect == Spec => []TypeOK
<1>1. Init => TypeOK
  BY MaxTriggersAssumption, QueueCapAssumption
     DEF Init, TypeOK, CallerStates, WorkerStates
<1>2. TypeOK /\ [Next]_vars => TypeOK'
  <2> SUFFICES ASSUME TypeOK, [Next]_vars PROVE TypeOK'
    OBVIOUS
  <2> USE MaxTriggersAssumption, QueueCapAssumption DEF TypeOK
  <2>1. ASSUME NEW h \in Hooks, NEW s \in Settings, RegisterWebhook(h, s) PROVE TypeOK'
    BY <2>1 DEF RegisterWebhook, Draw
  <2>2. ASSUME NEW h \in Hooks, UnregisterWebhook(h) PROVE TypeOK'
    BY <2>2 DEF UnregisterWebhook, Remove
  <2>3. ASSUME NEW p \in Callers, NEW h \in Hooks, UpdateRemoves(p, h) PROVE TypeOK'
    BY <2>3 DEF UpdateRemoves, Remove, CallerStates
  <2>4. ASSUME NEW p \in Callers, NEW h \in Hooks, NEW s \in Settings, UpdateRegisters(p, h, s)
        PROVE  TypeOK'
    BY <2>4 DEF UpdateRegisters, Draw, CallerStates
  <2>5. ASSUME NEW p \in Callers, NEW h \in Hooks, Test(p, h) PROVE TypeOK'
    BY <2>5, EventsAssumption DEF Test, CallerStates
  <2>6. ASSUME NEW p \in Callers, Announce(p) PROVE TypeOK'
    BY <2>6, EventsAssumption DEF Announce, CallerStates
  <2>7. ASSUME NEW p \in Callers, TriggerFindsNone(p) PROVE TypeOK'
    <3>1. 0 \in 0..MaxTriggers /\ TRUE \in BOOLEAN
      OBVIOUS
    <3>2. answers' \subseteq [n : 0..MaxTriggers, ok : BOOLEAN]
      BY <2>7, <3>1, AnswersTyped DEF TriggerFindsNone
    <3> QED BY <2>7, <3>2, IdleTyped DEF TriggerFindsNone
  <2>8. ASSUME NEW p \in Callers, Trigger(p) PROVE TypeOK'
    <3>1. caller[p].hook \in Hooks \cup {NoHook} /\ triggers' \in 1..MaxTriggers
      BY <2>8, CallerFields DEF Trigger
    <3>2. caller' \in [Callers -> CallerStates]
      BY <2>8, <3>1 DEF Trigger, CallerStates
    <3>3. delivering' \subseteq Calls
      BY <2>8, <3>1 DEF Trigger, Calls, Jobs, Targets
    <3> QED BY <2>8, <3>1, <3>2, <3>3 DEF Trigger
  <2>9. ASSUME NEW p \in Callers, TriggerReturns(p) PROVE TypeOK'
    <3>1. caller[p].n \in 1..MaxTriggers /\ caller[p].failed \in BOOLEAN
      BY <2>9, CallerFields DEF TriggerReturns
    <3>2. caller[p].n \in 0..MaxTriggers /\ (~caller[p].failed) \in BOOLEAN
      BY <3>1
    <3> QED BY <2>9, <3>2, AnswersTyped, IdleTyped DEF TriggerReturns
  <2>10. ASSUME NEW d \in delivering, Reject(d) PROVE TypeOK'
    BY <2>10, CallFields, ReturnsTyped DEF Reject, Ends
  <2>11. ASSUME NEW d \in delivering, Post(d) PROVE TypeOK'
    BY <2>11, CallFields DEF Post, Calls
  <2>12. ASSUME NEW d \in delivering, Accepted(d) PROVE TypeOK'
    <3>1. d \in Calls /\ d.job \in Jobs
      BY CallFields
    <3>2. caller' \in [Callers -> CallerStates] /\ worker' \in WorkerStates
      BY <2>12, <3>1, ReturnsTyped DEF Accepted, Ends
    <3>3. deliveries' \subseteq [job : Jobs, ok : BOOLEAN]
      BY <2>12, <3>1, RecordTyped DEF Accepted
    <3> QED BY <2>12, <3>1, <3>2, <3>3 DEF Accepted, Ends
  <2>13. ASSUME NEW d \in delivering, Failed(d) PROVE TypeOK'
    <3>1. d \in Calls /\ d.job \in Jobs
      BY CallFields
    <3>2. deliveries' \subseteq [job : Jobs, ok : BOOLEAN]
      BY <2>13, <3>1, RecordTyped DEF Failed
    <3>3. CASE Retryable
      <4>1. [by |-> d.by, job |-> d.job, step |-> "queueing"] \in Calls
        BY <3>1 DEF Calls
      <4> QED BY <2>13, <3>2, <3>3, <4>1 DEF Failed
    <3>4. CASE ~Retryable
      <4>1. caller' \in [Callers -> CallerStates] /\ worker' \in WorkerStates
        BY <2>13, <3>1, <3>4, ReturnsTyped DEF Failed, Ends
      <4> QED BY <2>13, <3>1, <3>2, <3>4, <4>1 DEF Failed, Ends
    <3> QED BY <3>3, <3>4
  <2>14. ASSUME NEW d \in delivering, Enqueue(d) PROVE TypeOK'
    <3>1. d \in Calls /\ d.job \in Jobs
      BY CallFields
    <3>2. caller' \in [Callers -> CallerStates] /\ worker' \in WorkerStates
      BY <2>14, <3>1, ReturnsTyped DEF Enqueue, Ends
    <3>3. retryQueue' \in Seq(Jobs) /\ Len(retryQueue') <= QueueCap
      BY <2>14, <3>1 DEF Enqueue
    <3> QED BY <2>14, <3>2, <3>3 DEF Enqueue, Ends
  <2>15. CASE Take
    BY <2>15 DEF Take, WorkerStates
  <2>16. CASE Retry
    BY <2>16 DEF Retry, WorkerStates, Calls
  <2>17. CASE Drop
    BY <2>17 DEF Drop, WorkerStates
  <2>18. CASE UNCHANGED vars
    BY <2>18
  <2> QED
    BY <2>1, <2>2, <2>3, <2>4, <2>5, <2>6, <2>7, <2>8, <2>9, <2>10, <2>11, <2>12,
       <2>13, <2>14, <2>15, <2>16, <2>17, <2>18
       DEF Next, RegistryStep, CallerStep, DeliverStep, WorkerStep
<1>3. QED BY <1>1, <1>2, PTL DEF Spec

----------------------------------------------------------------------------
(* What the steps have in common *)

\* Registrations, and what callers do but start deliveries, touch no job.
QuietStep ==
    UNCHANGED <<triggers, delivering, retryQueue, worker, deliveries, settled, tried>>

LEMMA StepKinds ==
    ASSUME [Next]_vars
    PROVE  \/ QuietStep
           \/ \E p \in Callers : Trigger(p)
           \/ \E d \in delivering : DeliverStep(d)
           \/ WorkerStep
BY DEF QuietStep, Next, RegistryStep, CallerStep, RegisterWebhook, UnregisterWebhook,
       UpdateRemoves, UpdateRegisters, Test, Announce, TriggerFindsNone, TriggerReturns

Distinct == \A i, k \in DOMAIN retryQueue : retryQueue[i] = retryQueue[k] => i = k

LEMMA QueuedAfterAppend ==
    ASSUME retryQueue \in Seq(Jobs), NEW j \in Jobs, retryQueue' = Append(retryQueue, j)
    PROVE  /\ \A k \in Jobs : Queued(k)' <=> Queued(k) \/ k = j
           /\ Distinct /\ ~Queued(j) => Distinct'
<1>1. /\ DOMAIN retryQueue = 1..Len(retryQueue)
      /\ DOMAIN retryQueue' = 1..(Len(retryQueue) + 1)
      /\ Len(retryQueue) \in Nat
      /\ \A i \in 1..Len(retryQueue) : retryQueue'[i] = retryQueue[i]
      /\ retryQueue'[Len(retryQueue) + 1] = j
  OBVIOUS
<1>2. ASSUME NEW k \in Jobs PROVE Queued(k)' <=> Queued(k) \/ k = j
  <2>1. ASSUME Queued(k)' PROVE Queued(k) \/ k = j
    BY <1>1, <2>1 DEF Queued
  <2>2. ASSUME Queued(k) PROVE Queued(k)'
    BY <1>1, <2>2 DEF Queued
  <2>3. ASSUME k = j PROVE Queued(k)'
    <3>1. Len(retryQueue) + 1 \in DOMAIN retryQueue'
      BY <1>1
    <3> QED BY <1>1, <2>3, <3>1 DEF Queued
  <2> QED BY <2>1, <2>2, <2>3
<1>3. ASSUME Distinct, ~Queued(j) PROVE Distinct'
  <2>1. \A i \in 1..Len(retryQueue) : retryQueue'[i] # j
    BY <1>1, <1>3 DEF Queued
  <2> QED BY <1>1, <1>3, <2>1 DEF Distinct
<1> QED BY <1>2, <1>3

LEMMA QueuedAfterTake ==
    ASSUME retryQueue \in Seq(Jobs), retryQueue # <<>>, retryQueue' = Tail(retryQueue),
           NEW CONSTANT h, h = Head(retryQueue)
    PROVE  /\ h \in Jobs
           /\ Queued(h)
           /\ \A k \in Jobs : Queued(k)' => Queued(k)
           /\ \A k \in Jobs : Queued(k) => Queued(k)' \/ k = h
           /\ Distinct => Distinct' /\ ~Queued(h)'
<1>1. /\ DOMAIN retryQueue = 1..Len(retryQueue)
      /\ Len(retryQueue) \in Nat \ {0}
      /\ DOMAIN retryQueue' = 1..(Len(retryQueue) - 1)
      /\ \A i \in 1..(Len(retryQueue) - 1) : retryQueue'[i] = retryQueue[i + 1]
      /\ h = retryQueue[1]
  OBVIOUS
<1>2. h \in Jobs /\ Queued(h)
  BY <1>1 DEF Queued
<1>3. ASSUME NEW k \in Jobs, Queued(k)' PROVE Queued(k)
  BY <1>1, <1>3 DEF Queued
<1>4. ASSUME NEW k \in Jobs, Queued(k), k # h PROVE Queued(k)'
  <2>1. PICK i \in 1..Len(retryQueue) : retryQueue[i] = k
    BY <1>1, <1>4 DEF Queued
  <2>2. i - 1 \in 1..(Len(retryQueue) - 1) /\ retryQueue'[i - 1] = k
    BY <1>1, <1>4, <2>1
  <2> QED BY <1>1, <2>2 DEF Queued
<1>5. ASSUME Distinct PROVE Distinct' /\ ~Queued(h)'
  <2>1. ASSUME NEW i \in 1..(Len(retryQueue) - 1), NEW k \in 1..(Len(retryQueue) - 1),
               retryQueue'[i] = retryQueue'[k]
        PROVE  i = k
    <3>1. i + 1 \in 1..Len(retryQueue) /\ k + 1 \in 1..Len(retryQueue)
      BY <1>1
    <3>2. i + 1 = k + 1
      BY <1>1, <1>5, <2>1, <3>1 DEF Distinct
    <3> QED BY <3>2, <1>1
  <2>2. ASSUME NEW i \in 1..(Len(retryQueue) - 1) PROVE retryQueue'[i] # retryQueue[1]
    <3>1. i + 1 \in 1..Len(retryQueue) /\ 1 \in 1..Len(retryQueue) /\ i + 1 # 1
      BY <1>1
    <3> QED BY <1>1, <1>5, <3>1 DEF Distinct
  <2>3. Distinct'
    BY <1>1, <2>1 DEF Distinct
  <2>4. \A i \in DOMAIN retryQueue' : retryQueue'[i] # h
    BY <1>1, <2>2
  <2> QED BY <2>3, <2>4 DEF Queued
<1> QED BY <1>2, <1>3, <1>4, <1>5

----------------------------------------------------------------------------
(* What is known of a job from where it is *)

\* Only triggers that happened have jobs; only a first call of deliver has not been
\* tried; a job on its way to the queue, or in it, has failed; a malformed webhook is
\* never tried, and what was accepted is settled.
KnownInv ==
    /\ \A d \in delivering :
          /\ d.job.n <= triggers
          /\ d.step # "starting" \/ d.by = "worker" => d.job \in tried
          /\ d.step = "queueing" => Retryable /\ [job |-> d.job, ok |-> FALSE] \in deliveries
    /\ \A j \in Jobs : Queued(j) \/ Slept(j) => Retryable /\ j \in tried
    /\ \A j \in tried : j.n <= triggers /\ j.hook \notin Malformed
    /\ \A j \in settled : j.n <= triggers /\ (j \in tried \/ j.hook \in Malformed)
    /\ \A r \in deliveries : r.job \in tried /\ (r.ok => r.job \in settled)

LEMMA KnownQuiet ==
    ASSUME KnownInv, QuietStep
    PROVE  KnownInv'
BY DEF KnownInv, QuietStep, Queued, Slept

LEMMA KnownTrigger ==
    ASSUME TypeOK, KnownInv, NEW p \in Callers, Trigger(p)
    PROVE  KnownInv'
<1>1. triggers \in Nat /\ triggers' = triggers + 1
  BY DEF TypeOK, Trigger
<1>2. UNCHANGED <<retryQueue, worker, deliveries, settled, tried>>
  BY DEF Trigger
<1>3. ASSUME NEW j \in tried \cup settled PROVE j.n <= triggers'
  <2>1. j \in Jobs /\ j.n <= triggers
    BY <1>3 DEF KnownInv, TypeOK
  <2> QED BY <1>1, <2>1, JobFields
<1>4. ASSUME NEW d \in delivering'
      PROVE  /\ d.job.n <= triggers'
             /\ d.step # "starting" \/ d.by = "worker" => d.job \in tried
             /\ d.step = "queueing" => Retryable /\ [job |-> d.job, ok |-> FALSE] \in deliveries
  <2>1. CASE d \in delivering
    <3>1. d.job \in Jobs
      BY <2>1, CallFields DEF TypeOK
    <3> QED BY <1>1, <2>1, <3>1, JobFields DEF KnownInv
  <2>2. CASE d \notin delivering
    <3>1. d.job.n = triggers' /\ d.step = "starting" /\ d.by = "trigger"
      BY <1>4, <2>2 DEF Trigger
    <3> QED BY <1>1, <3>1
  <2> QED BY <2>1, <2>2
<1> QED BY <1>2, <1>3, <1>4 DEF KnownInv, Queued, Slept

LEMMA KnownDeliver ==
    ASSUME TypeOK, KnownInv, NEW d \in delivering, DeliverStep(d)
    PROVE  KnownInv'
<1>0. /\ d \in Calls /\ d.job \in Jobs /\ triggers' = triggers
      /\ d.job.n <= triggers
      /\ d.step # "starting" \/ d.by = "worker" => d.job \in tried
      /\ \A e \in delivering : e \in Calls
  BY CallFields DEF TypeOK, DeliverStep, Reject, Post, Accepted, Failed, Enqueue, KnownInv
<1>1. CASE Reject(d)
  <2>1. worker' = worker \/ worker' = Receiving
    BY <1>1 DEF Reject, Ends, Returns
  <2>2. \A k \in Jobs : (Queued(k)' <=> Queued(k)) /\ (Slept(k)' => Slept(k))
    BY <1>1, <2>1 DEF Reject, Queued, Slept
  <2>3. /\ delivering' \subseteq delivering
        /\ settled' = settled \cup {d.job} /\ d.job.hook \in Malformed
        /\ tried' = tried /\ deliveries' = deliveries
    BY <1>1 DEF Reject, Ends
  <2> QED BY <1>0, <2>2, <2>3 DEF KnownInv
<1>2. CASE Post(d)
  <2>1. \A k \in Jobs : (Queued(k)' <=> Queued(k)) /\ (Slept(k)' <=> Slept(k))
    BY <1>2 DEF Post, Queued, Slept
  <2>2. \A e \in delivering' :
           e \in delivering \/ (e.job = d.job /\ e.step = "posting")
    BY <1>2 DEF Post
  <2>3. /\ tried' = tried \cup {d.job} /\ d.job.hook \notin Malformed
        /\ settled' = settled /\ deliveries' = deliveries
    BY <1>2 DEF Post
  <2> QED BY <1>0, <2>1, <2>2, <2>3 DEF KnownInv
<1>3. CASE Accepted(d)
  <2>1. worker' = worker \/ worker' = Receiving
    BY <1>3 DEF Accepted, Ends, Returns
  <2>2. \A k \in Jobs : (Queued(k)' <=> Queued(k)) /\ (Slept(k)' => Slept(k))
    BY <1>3, <2>1 DEF Accepted, Queued, Slept
  <2>3. /\ delivering' \subseteq delivering
        /\ settled' = settled \cup {d.job} /\ d.job \in tried
        /\ tried' = tried
        /\ deliveries' = deliveries \cup {[job |-> d.job, ok |-> TRUE]}
    BY <1>0, <1>3 DEF Accepted, Ends
  <2> QED BY <1>0, <2>2, <2>3 DEF KnownInv
<1>4. CASE Failed(d)
  <2>1. worker' = worker \/ worker' = Receiving
    BY <1>4 DEF Failed, Ends, Returns
  <2>2. \A k \in Jobs : (Queued(k)' <=> Queued(k)) /\ (Slept(k)' => Slept(k))
    BY <1>4, <2>1 DEF Failed, Queued, Slept
  <2>3. \A e \in delivering' :
           e \in delivering \/ (e.job = d.job /\ e.step = "queueing" /\ Retryable)
    <3>1. CASE Retryable
      BY <1>4, <3>1 DEF Failed
    <3>2. CASE ~Retryable
      BY <1>4, <3>2 DEF Failed, Ends
    <3> QED BY <3>1, <3>2
  <2>4. settled' \in {settled, settled \cup {d.job}}
    <3>1. CASE Retryable
      BY <1>4, <3>1 DEF Failed
    <3>2. CASE ~Retryable
      BY <1>4, <3>2 DEF Failed
    <3> QED BY <3>1, <3>2
  <2>5. /\ tried' = tried /\ d.job \in tried
        /\ [job |-> d.job, ok |-> FALSE] \in deliveries'
        /\ deliveries \subseteq deliveries'
        /\ \A r \in deliveries' : r \in deliveries \/ (r.job = d.job /\ ~r.ok)
    BY <1>0, <1>4 DEF Failed
  <2> QED BY <1>0, <2>2, <2>3, <2>4, <2>5 DEF KnownInv
<1>5. CASE Enqueue(d)
  <2>1. worker' = worker \/ worker' = Receiving
    BY <1>5 DEF Enqueue, Ends, Returns
  <2>2. \A k \in Jobs : Queued(k)' <=> Queued(k) \/ k = d.job
    BY <1>0, <1>5, QueuedAfterAppend DEF Enqueue, TypeOK
  <2>3. \A k \in Jobs : Slept(k)' => Slept(k)
    BY <2>1 DEF Slept
  <2>4. /\ delivering' \subseteq delivering
        /\ UNCHANGED <<settled, tried, deliveries>>
        /\ d.job \in tried /\ Retryable
    BY <1>0, <1>5 DEF Enqueue, Ends, KnownInv
  <2> QED BY <1>0, <2>2, <2>3, <2>4 DEF KnownInv
<1> QED BY <1>1, <1>2, <1>3, <1>4, <1>5 DEF DeliverStep

LEMMA KnownWorker ==
    ASSUME TypeOK, KnownInv, WorkerStep
    PROVE  KnownInv'
<1>1. CASE Take
  <2>1. /\ Head(retryQueue) \in Jobs
        /\ Queued(Head(retryQueue))
        /\ \A k \in Jobs : Queued(k)' => Queued(k)
    BY <1>1, QueuedAfterTake DEF Take, TypeOK
  <2>2. \A k \in Jobs : Slept(k)' => k = Head(retryQueue)
    BY <1>1 DEF Take, Slept
  <2> QED BY <1>1, <2>1, <2>2 DEF Take, KnownInv
<1>2. CASE Retry
  <2>1. worker.job \in Jobs /\ Slept(worker.job)
    BY <1>2 DEF Retry, TypeOK, WorkerStates, Slept
  <2>2. Retryable /\ worker.job \in tried /\ worker.job.n <= triggers
    BY <2>1 DEF KnownInv
  <2> QED BY <1>2, <2>2 DEF Retry, KnownInv, Queued, Slept
<1>3. CASE Drop
  <2>1. worker.job \in Jobs /\ Slept(worker.job)
    BY <1>3 DEF Drop, TypeOK, WorkerStates, Slept
  <2>2. worker.job \in tried /\ worker.job.n <= triggers
    BY <2>1 DEF KnownInv
  <2> QED BY <1>3, <2>2 DEF Drop, KnownInv, Queued, Slept
<1> QED BY <1>1, <1>2, <1>3 DEF WorkerStep

LEMMA KnownInvariant == Spec => []KnownInv
<1>1. Init => KnownInv
  BY DEF Init, KnownInv, Queued, Slept
<1>2. TypeOK /\ KnownInv /\ [Next]_vars => KnownInv'
  BY StepKinds, KnownQuiet, KnownTrigger, KnownDeliver, KnownWorker
<1>3. QED BY <1>1, <1>2, TypeCorrect, PTL DEF Spec

----------------------------------------------------------------------------
(* A job is in one place *)

\* A step of deliver is one of three: the call moves on, or it ends and settles the
\* job, or it ends and leaves the job in the queue.
Moves(d) ==
    /\ \E s \in {"posting", "queueing"} :
          delivering' = (delivering \ {d}) \cup {[by |-> d.by, job |-> d.job, step |-> s]}
    /\ UNCHANGED <<retryQueue, worker, settled, caller>>

Settles(d) ==
    /\ delivering' = delivering \ {d}
    /\ settled' = settled \cup {d.job}
    /\ worker' = IF d.by = "worker" THEN Receiving ELSE worker
    /\ UNCHANGED retryQueue

Queues(d) ==
    /\ delivering' = delivering \ {d}
    /\ retryQueue' = Append(retryQueue, d.job)
    /\ worker' = IF d.by = "worker" THEN Receiving ELSE worker
    /\ UNCHANGED settled

LEMMA DeliverKinds ==
    ASSUME NEW d \in delivering, DeliverStep(d)
    PROVE  /\ Moves(d) \/ Settles(d) \/ Queues(d)
           /\ tried' \in {tried, tried \cup {d.job}}
           /\ triggers' = triggers
<1>1. CASE Reject(d)
  BY <1>1 DEF Reject, Ends, Returns, Settles
<1>2. CASE Post(d)
  BY <1>2 DEF Post, Moves
<1>3. CASE Accepted(d)
  BY <1>3 DEF Accepted, Ends, Returns, Settles
<1>4. CASE Failed(d)
  <2>1. CASE Retryable
    BY <1>4, <2>1 DEF Failed, Moves
  <2>2. CASE ~Retryable
    BY <1>4, <2>2 DEF Failed, Ends, Returns, Settles
  <2> QED BY <2>1, <2>2, <1>4 DEF Failed
<1>5. CASE Enqueue(d)
  BY <1>5 DEF Enqueue, Ends, Returns, Queues
<1> QED BY <1>1, <1>2, <1>3, <1>4, <1>5 DEF DeliverStep

\* The worker is in deliver exactly when a call of deliver is its own.
WorkerInv ==
    /\ worker = [step |-> "delivering"] <=> \E d \in delivering : d.by = "worker"
    /\ \A d, e \in delivering : d.by = "worker" /\ e.by = "worker" => d = e

LEMMA WorkerInvariant == Spec => []WorkerInv
<1>1. Init => WorkerInv
  BY DEF Init, WorkerInv
<1>2. TypeOK /\ WorkerInv /\ [Next]_vars => WorkerInv'
  <2> SUFFICES ASSUME TypeOK, WorkerInv, [Next]_vars PROVE WorkerInv'
    OBVIOUS
  <2>1. CASE QuietStep
    BY <2>1 DEF QuietStep, WorkerInv
  <2>2. ASSUME NEW p \in Callers, Trigger(p) PROVE WorkerInv'
    <3>1. \A d \in delivering' : d \in delivering \/ d.by = "trigger"
      BY <2>2 DEF Trigger
    <3>2. delivering \subseteq delivering' /\ worker' = worker
      BY <2>2 DEF Trigger
    <3>3. \A d \in delivering' : d.by = "worker" => d \in delivering
      BY <3>1
    <3>4. (\E d \in delivering' : d.by = "worker") <=> \E d \in delivering : d.by = "worker"
      BY <3>2, <3>3
    <3>5. \A d, e \in delivering' : d.by = "worker" /\ e.by = "worker" => d = e
      BY <3>3 DEF WorkerInv
    <3> QED BY <3>2, <3>4, <3>5 DEF WorkerInv
  <2>3. ASSUME NEW d \in delivering, DeliverStep(d) PROVE WorkerInv'
    <3>1. CASE Moves(d)
      <4>1. PICK e : /\ e.by = d.by
                     /\ delivering' = (delivering \ {d}) \cup {e} /\ worker' = worker
        BY <3>1 DEF Moves
      <4>2. (\E f \in delivering' : f.by = "worker") <=> \E f \in delivering : f.by = "worker"
        BY <4>1
      <4>3. \A f, g \in delivering' : f.by = "worker" /\ g.by = "worker" => f = g
        BY <4>1 DEF WorkerInv
      <4> QED BY <4>1, <4>2, <4>3 DEF WorkerInv
    <3>2. CASE delivering' = delivering \ {d}
               /\ worker' = IF d.by = "worker" THEN Receiving ELSE worker
      <4>1. CASE d.by = "worker"
        <5>1. \A e \in delivering' : e.by # "worker"
          BY <3>2, <4>1 DEF WorkerInv
        <5> QED BY <3>2, <4>1, <5>1 DEF WorkerInv
      <4>2. CASE d.by # "worker"
        <5>1. \A e : e \in delivering' /\ e.by = "worker" <=> e \in delivering /\ e.by = "worker"
          BY <3>2, <4>2
        <5>2. worker' = worker
          BY <3>2, <4>2
        <5>3. (\E e \in delivering' : e.by = "worker") <=> \E e \in delivering : e.by = "worker"
          BY <5>1
        <5>4. \A e, f \in delivering' : e.by = "worker" /\ f.by = "worker" => e = f
          BY <5>1 DEF WorkerInv
        <5> QED BY <5>2, <5>3, <5>4 DEF WorkerInv
      <4> QED BY <4>1, <4>2
    <3> QED BY <2>3, <3>1, <3>2, DeliverKinds DEF Settles, Queues
  <2>4. CASE WorkerStep
    <3>1. CASE Take \/ Drop
      <4>1. delivering' = delivering /\ \A d \in delivering : d.by # "worker"
        BY <3>1 DEF Take, Drop, WorkerInv
      <4>2. worker' # [step |-> "delivering"]
        BY <3>1 DEF Take, Drop
      <4> QED BY <4>1, <4>2 DEF WorkerInv
    <3>2. CASE Retry
      <4>1. \A d \in delivering : d.by # "worker"
        BY <3>2 DEF Retry, WorkerInv
      <4>2. PICK e : e.by = "worker" /\ delivering' = delivering \cup {e}
        BY <3>2 DEF Retry
      <4>3. worker' = [step |-> "delivering"]
        BY <3>2 DEF Retry
      <4> QED BY <4>1, <4>2, <4>3 DEF WorkerInv
    <3> QED BY <2>4, <3>1, <3>2 DEF WorkerStep
  <2> QED BY <2>1, <2>2, <2>3, <2>4, StepKinds
<1>3. QED BY <1>1, <1>2, TypeCorrect, PTL DEF Spec

PlaceInv ==
    /\ \A d, e \in delivering : d.job = e.job => d = e
    /\ Distinct
    /\ \A d \in delivering : ~Queued(d.job) /\ ~Slept(d.job) /\ d.job \notin settled
    /\ \A j \in Jobs : Queued(j) => ~Slept(j) /\ j \notin settled
    /\ \A j \in Jobs : Slept(j) => j \notin settled
    /\ \A j \in tried : Running(j) \/ Queued(j) \/ Slept(j) \/ j \in settled

LEMMA PlaceTrigger ==
    ASSUME TypeOK, KnownInv, PlaceInv, NEW p \in Callers, Trigger(p)
    PROVE  PlaceInv'
<1>1. /\ triggers \in Nat /\ triggers' = triggers + 1
      /\ UNCHANGED <<retryQueue, worker, settled, tried>>
      /\ delivering \subseteq delivering'
  BY DEF TypeOK, Trigger
<1>2. \A j \in Jobs : (Queued(j)' <=> Queued(j)) /\ (Slept(j)' <=> Slept(j))
  BY <1>1 DEF Queued, Slept
<1>3. ASSUME NEW d \in delivering', d \notin delivering
      PROVE  /\ d.job \in Jobs /\ d.job.n = triggers + 1
             /\ d = [by |-> "trigger", job |-> d.job, step |-> "starting"]
  <2>1. PICK h \in Hooks :
           d = [by |-> "trigger", job |-> [n |-> triggers', hook |-> h], step |-> "starting"]
    BY <1>3 DEF Trigger, Targets
  <2>2. triggers + 1 \in 1..MaxTriggers
    BY <1>1, MaxTriggersAssumption DEF Trigger
  <2> QED BY <1>1, <2>1, <2>2 DEF Jobs
<1>4. ASSUME NEW j \in Jobs,
             Queued(j) \/ Slept(j) \/ j \in settled \/ j \in tried
                       \/ \E d \in delivering : d.job = j
      PROVE  j.n # triggers + 1
  <2>1. j.n <= triggers
    BY <1>4 DEF KnownInv
  <2> QED BY <2>1, <1>1, JobFields
<1>5. \A d \in delivering : d.job \in Jobs
  BY CallFields DEF TypeOK
<1>6. \A d, e \in delivering' : d.job = e.job => d = e
  BY <1>3, <1>4, <1>5 DEF PlaceInv
<1>7. \A d \in delivering' : ~Queued(d.job)' /\ ~Slept(d.job)' /\ d.job \notin settled'
  BY <1>1, <1>2, <1>3, <1>4, <1>5 DEF PlaceInv
<1>8. \A j \in Jobs : Running(j) => Running(j)'
  BY <1>1 DEF Running
<1>9. Distinct' /\ tried \subseteq Jobs
  BY <1>1 DEF Distinct, PlaceInv, TypeOK
<1> QED BY <1>1, <1>2, <1>6, <1>7, <1>8, <1>9 DEF PlaceInv

LEMMA PlaceDeliver ==
    ASSUME TypeOK, WorkerInv, PlaceInv, NEW d \in delivering, DeliverStep(d)
    PROVE  PlaceInv'
<1>1. /\ d \in Calls /\ d.job \in Jobs
      /\ \A e \in delivering : e.job \in Jobs
      /\ tried \subseteq Jobs
      /\ tried' \in {tried, tried \cup {d.job}}
  BY CallFields, DeliverKinds DEF TypeOK
<1>2. CASE Moves(d)
  <2>1. \A j \in Jobs : (Queued(j)' <=> Queued(j)) /\ (Slept(j)' <=> Slept(j))
    BY <1>2 DEF Moves, Queued, Slept
  <2>2. PICK e : e.job = d.job /\ delivering' = (delivering \ {d}) \cup {e}
    BY <1>2 DEF Moves
  <2>3. \A j \in Jobs : Running(j)' <=> Running(j)
    BY <2>2 DEF Running
  <2>4. Running(d.job) /\ settled' = settled /\ Distinct'
    BY <1>2 DEF Running, Moves, PlaceInv, Distinct
  <2>5. \A f \in delivering' : ~Queued(f.job)' /\ ~Slept(f.job)' /\ f.job \notin settled'
    BY <1>1, <2>1, <2>2, <2>4 DEF PlaceInv
  <2>6. \A f, g \in delivering' : f.job = g.job => f = g
    BY <2>2 DEF PlaceInv
  <2> QED BY <1>1, <2>1, <2>3, <2>4, <2>5, <2>6 DEF PlaceInv
<1>3. \A j \in Jobs : (d.by = "worker" => ~Slept(j))
  BY DEF WorkerInv, Slept
<1>4. CASE Settles(d)
  <2>1. \A j \in Jobs : (Queued(j)' <=> Queued(j)) /\ (Slept(j)' <=> Slept(j))
    BY <1>3, <1>4 DEF Settles, Queued, Slept
  <2>2. \A j \in Jobs : Running(j) => Running(j)' \/ j = d.job
    BY <1>4 DEF Settles, Running
  <2>3. delivering' = delivering \ {d} /\ settled' = settled \cup {d.job} /\ Distinct'
    BY <1>4 DEF Settles, PlaceInv, Distinct
  <2>4. \A f \in delivering' : ~Queued(f.job)' /\ ~Slept(f.job)' /\ f.job \notin settled'
    BY <1>1, <2>1, <2>3 DEF PlaceInv
  <2> QED BY <1>1, <2>1, <2>2, <2>3, <2>4 DEF PlaceInv
<1>5. CASE Queues(d)
  <2>1. \A j \in Jobs : Slept(j)' <=> Slept(j)
    BY <1>3, <1>5 DEF Queues, Slept
  <2>2. /\ \A j \in Jobs : Queued(j)' <=> Queued(j) \/ j = d.job
        /\ Distinct'
    BY <1>1, <1>5, QueuedAfterAppend DEF Queues, PlaceInv, TypeOK
  <2>3. \A j \in Jobs : Running(j) => Running(j)' \/ j = d.job
    BY <1>5 DEF Queues, Running
  <2>4. delivering' = delivering \ {d} /\ settled' = settled
    BY <1>5 DEF Queues
  <2>5. \A f \in delivering' : ~Queued(f.job)' /\ ~Slept(f.job)' /\ f.job \notin settled'
    BY <1>1, <2>1, <2>2, <2>4 DEF PlaceInv
  <2> QED BY <1>1, <2>1, <2>2, <2>3, <2>4, <2>5 DEF PlaceInv
<1> QED BY <1>2, <1>4, <1>5, DeliverKinds

LEMMA PlaceWorker ==
    ASSUME TypeOK, WorkerInv, PlaceInv, WorkerStep
    PROVE  PlaceInv'
<1>1. /\ \A d \in delivering : d.job \in Jobs
      /\ tried \subseteq Jobs
  BY CallFields DEF TypeOK
<1>2. CASE Take
  <2>1. PICK h : h = Head(retryQueue)
    OBVIOUS
  <2>2. /\ h \in Jobs /\ Queued(h)
        /\ \A k \in Jobs : Queued(k)' <=> Queued(k) /\ k # h
        /\ Distinct'
    BY <1>2, <2>1, QueuedAfterTake DEF Take, TypeOK, PlaceInv
  <2>3. \A j \in Jobs : (Slept(j)' <=> j = h) /\ ~Slept(j)
    BY <1>2, <2>1 DEF Take, Slept
  <2>4. UNCHANGED <<delivering, settled, tried>>
    BY <1>2 DEF Take
  <2>5. \A j \in Jobs : Running(j)' <=> Running(j)
    BY <2>4 DEF Running
  <2>6. \A d \in delivering' : ~Queued(d.job)' /\ ~Slept(d.job)' /\ d.job \notin settled'
    BY <1>1, <2>2, <2>3, <2>4 DEF PlaceInv
  <2> QED BY <1>1, <2>2, <2>3, <2>4, <2>5, <2>6 DEF PlaceInv
<1>3. CASE Retry
  <2>1. PICK e : /\ e.job = worker.job
                 /\ delivering' = delivering \cup {e}
    BY <1>3 DEF Retry
  <2>2. e.job \in Jobs /\ Slept(e.job)
    BY <1>3, <2>1 DEF Retry, TypeOK, WorkerStates, Slept
  <2>3. /\ \A j \in Jobs : (Queued(j)' <=> Queued(j)) /\ ~Slept(j)'
        /\ \A j \in Jobs : Slept(j) => j = e.job
        /\ UNCHANGED <<settled, tried>> /\ Distinct'
    BY <1>3, <2>1 DEF Retry, Queued, Slept, Distinct, PlaceInv
  <2>4. \A j \in Jobs : Running(j)' <=> Running(j) \/ j = e.job
    BY <2>1 DEF Running
  <2>5. \A d \in delivering' : ~Queued(d.job)' /\ ~Slept(d.job)' /\ d.job \notin settled'
    BY <1>1, <2>1, <2>2, <2>3 DEF PlaceInv
  <2>6. \A d, f \in delivering' : d.job = f.job => d = f
    BY <2>1, <2>2 DEF PlaceInv
  <2> QED BY <1>1, <2>2, <2>3, <2>4, <2>5, <2>6 DEF PlaceInv
<1>4. CASE Drop
  <2>1. PICK h : h = worker.job
    OBVIOUS
  <2>2. h \in Jobs /\ Slept(h)
    BY <1>4, <2>1 DEF Drop, TypeOK, WorkerStates, Slept
  <2>3. /\ \A j \in Jobs : (Queued(j)' <=> Queued(j)) /\ ~Slept(j)' /\ (Running(j)' <=> Running(j))
        /\ \A j \in Jobs : Slept(j) => j = h
        /\ UNCHANGED <<delivering, tried>> /\ Distinct' /\ settled' = settled \cup {h}
    BY <1>4, <2>1 DEF Drop, Queued, Slept, Running, Distinct, PlaceInv
  <2>4. \A d \in delivering' : ~Queued(d.job)' /\ ~Slept(d.job)' /\ d.job \notin settled'
    BY <1>1, <2>2, <2>3 DEF PlaceInv
  <2> QED BY <1>1, <2>2, <2>3, <2>4 DEF PlaceInv
<1> QED BY <1>2, <1>3, <1>4 DEF WorkerStep

LEMMA PlaceInvariant == Spec => []PlaceInv
<1>1. Init => PlaceInv
  BY DEF Init, PlaceInv, Queued, Slept, Distinct
<1>2. TypeOK /\ KnownInv /\ WorkerInv /\ PlaceInv /\ [Next]_vars => PlaceInv'
  <2>1. ASSUME PlaceInv, QuietStep PROVE PlaceInv'
    BY <2>1 DEF QuietStep, PlaceInv, Queued, Slept, Running, Distinct
  <2> QED BY <2>1, StepKinds, PlaceTrigger, PlaceDeliver, PlaceWorker
<1>3. QED BY <1>1, <1>2, TypeCorrect, KnownInvariant, WorkerInvariant, PTL DEF Spec

\* A failed delivery is neither lost nor in two places at once, whatever the sizes of
\* the queue and the registry (webhook.go:200, webhook.go:230, webhook.go:267).
THEOREM NothingLostOrDoubled == Spec => []NoneLostOrDoubled
<1>1. TypeOK /\ PlaceInv => NoneLostOrDoubled
  <2> SUFFICES ASSUME TypeOK, PlaceInv, NEW j \in Jobs
               PROVE  /\ \A a, b \in Places(j) : a = b
                      /\ j \in tried => Places(j) # {}
    BY DEF NoneLostOrDoubled
  <2>1. ASSUME NEW a \in Places(j)
        PROVE  \/ \E d \in delivering : d.job = j /\ a = <<"running", d>>
               \/ \E i \in DOMAIN retryQueue : retryQueue[i] = j /\ a = <<"queued", i>>
               \/ Slept(j) /\ a = <<"sleeping", worker>>
               \/ j \in settled /\ a = <<"settled", j>>
    BY <2>1 DEF Places, Slept
  <2>2. \A a, b \in Places(j) : a = b
    BY <2>1 DEF PlaceInv, Distinct, Queued
  <2>3. ASSUME NEW d \in delivering, d.job = j PROVE <<"running", d>> \in Places(j)
    BY <2>3 DEF Places
  <2>4. ASSUME NEW i \in DOMAIN retryQueue, retryQueue[i] = j
        PROVE  <<"queued", i>> \in Places(j)
    BY <2>4 DEF Places
  <2>5. ASSUME Slept(j) PROVE <<"sleeping", worker>> \in Places(j)
    BY <2>5 DEF Places, Slept
  <2>6. ASSUME j \in settled PROVE <<"settled", j>> \in Places(j)
    BY <2>6 DEF Places
  <2>7. j \in tried => Running(j) \/ Queued(j) \/ Slept(j) \/ j \in settled
    BY DEF PlaceInv
  <2>8. j \in tried => Places(j) # {}
    BY <2>3, <2>4, <2>5, <2>6, <2>7 DEF Running, Queued
  <2> QED BY <2>2, <2>8
<1>2. QED BY <1>1, TypeCorrect, PlaceInvariant, PTL

\* While a trigger is blocked on the full queue the worker is there to make room, but
\* for the one case that it is blocked on the queue itself (webhook.go:230).
THEOREM HeldUpOnlyByWorker == Spec => []HeldUpByWorkerOnly
<1>1. TypeOK /\ WorkerInv => HeldUpByWorkerOnly
  <2> SUFFICES ASSUME TypeOK, WorkerInv, NEW d \in delivering, ~CanMove(d)
               PROVE  WorkerCanMove \/ WorkerStuck
    BY DEF HeldUpByWorkerOnly, Awaited
  <2>1. retryQueue # <<>>
    BY QueueCapAssumption DEF CanMove, TypeOK
  <2>2. CASE worker = [step |-> "delivering"]
    BY <2>2 DEF WorkerInv, WorkerCanMove, WorkerStuck
  <2>3. CASE worker # [step |-> "delivering"]
    BY <2>1, <2>3 DEF TypeOK, WorkerStates, WorkerCanMove
  <2> QED BY <2>2, <2>3
<1>2. QED BY <1>1, TypeCorrect, WorkerInvariant, PTL

----------------------------------------------------------------------------
(* The service implements the promise of DeliveryService *)

LEMMA TakenIsSettled ==
    ASSUME KnownInv, NEW j \in Jobs, Taken(j)
    PROVE  j \in settled
BY DEF KnownInv, Taken

LEMMA DueIsDue ==
    ASSUME KnownInv, PlaceInv, NEW j \in Jobs, Due(j)
    PROVE  JobStatus[j] = "due" /\ j \notin settled
<1>1. j \notin settled
  BY DEF PlaceInv, Due, Running
<1> QED BY <1>1, TakenIsSettled DEF JobStatus

\* A delivery that moves between the places it can be due in keeps its status.
LEMMA SameStatus ==
    ASSUME \A j \in Jobs : /\ Taken(j)' <=> Taken(j)
                           /\ Due(j)' <=> Due(j),
           UNCHANGED settled
    PROVE  JobStatus' = JobStatus
BY DEF JobStatus

\* How a delivery ends that was not accepted.
Failure(j) ==
    IF j.hook \in Malformed THEN "rejected" ELSE IF Retryable THEN "dropped" ELSE "failed"

LEMMA EndStatus ==
    ASSUME KnownInv, PlaceInv, NEW CONSTANT h \in Jobs, Due(h),
           settled' = settled \cup {h},
           \A j \in Jobs \ {h} : /\ Taken(j)' <=> Taken(j)
                                 /\ Due(j)' <=> Due(j)
    PROVE  /\ JobStatus[h] = "due"
           /\ JobStatus' = [JobStatus EXCEPT ![h] =
                                IF Taken(h)' THEN "accepted" ELSE Failure(h)]
<1>1. JobStatus[h] = "due"
  BY DueIsDue
<1>2. ASSUME NEW j \in Jobs
      PROVE  JobStatus'[j] = IF j # h THEN JobStatus[j]
                             ELSE IF Taken(h)' THEN "accepted" ELSE Failure(h)
  BY DEF JobStatus, Failure
<1>3. DOMAIN JobStatus = Jobs /\ DOMAIN JobStatus' = Jobs
  BY DEF JobStatus
<1>4. JobStatus' = [j \in Jobs |-> JobStatus'[j]] /\ JobStatus = [j \in Jobs |-> JobStatus[j]]
  BY DEF JobStatus
<1> QED BY <1>1, <1>2, <1>3, <1>4

LEMMA LiveSame ==
    ASSUME UNCHANGED registry
    PROVE  Live' = Live
BY DEF Live, Registered

\* Registering, removing and updating a webhook touch no delivery.
LEMMA ImplementsRegistry ==
    ASSUME TypeOK, [Next]_vars, QuietStep
    PROVE  [Service!Next]_(Service!deliveryVars)
<1>1. JobStatus' = JobStatus
  <2>1. \A j \in Jobs : (Taken(j)' <=> Taken(j)) /\ (Due(j)' <=> Due(j))
    BY DEF QuietStep, Taken, Due, Running, Queued, Slept
  <2> QED BY <2>1, SameStatus DEF QuietStep
<1>2. ASSUME NEW h \in Hooks, NEW s \in Settings, Draw(h, s)
      PROVE  [Service!Next]_(Service!deliveryVars)
  <2>1. Live' = IF s.enabled THEN Live \cup {h} ELSE Live \ {h}
    BY <1>2 DEF Draw, Live, Registered, TypeOK
  <2>2. Service!Comes(h) \/ Service!Goes(h)
    BY <1>1, <2>1 DEF Service!Comes, Service!Goes
  <2> QED BY <2>2 DEF Service!Next
<1>3. ASSUME NEW h \in Hooks, Remove(h), UNCHANGED settings
      PROVE  [Service!Next]_(Service!deliveryVars)
  <2>1. Live' = Live \ {h}
    BY <1>3 DEF Remove, Live, Registered, TypeOK
  <2>2. Service!Goes(h)
    BY <1>1, <2>1 DEF Service!Goes
  <2> QED BY <2>2 DEF Service!Next
<1>4. ASSUME UNCHANGED registry
      PROVE  [Service!Next]_(Service!deliveryVars)
  BY <1>1, <1>4, LiveSame DEF Service!deliveryVars
<1>5. \/ \E h \in Hooks, s \in Settings : Draw(h, s)
      \/ \E h \in Hooks : Remove(h) /\ UNCHANGED settings
      \/ UNCHANGED registry
  <2>1. CASE RegistryStep
    BY <2>1 DEF RegistryStep, RegisterWebhook, UnregisterWebhook
  <2>2. ASSUME NEW p \in Callers, CallerStep(p)
        PROVE  \/ \E h \in Hooks, s \in Settings : Draw(h, s)
               \/ \E h \in Hooks : Remove(h) /\ UNCHANGED settings
               \/ UNCHANGED registry
    BY <2>2 DEF CallerStep, UpdateRemoves, UpdateRegisters, Test, Announce,
                TriggerFindsNone, Trigger, TriggerReturns
  <2>3. ASSUME NEW d \in delivering, DeliverStep(d) PROVE UNCHANGED registry
    BY <2>3 DEF DeliverStep, Reject, Post, Accepted, Failed, Enqueue
  <2>4. CASE WorkerStep
    BY <2>4 DEF WorkerStep, Take, Retry, Drop
  <2> QED BY <2>1, <2>2, <2>3, <2>4 DEF Next
<1> QED BY <1>2, <1>3, <1>4, <1>5

\* The snapshot of a trigger makes one delivery due for each webhook in it.
LEMMA ImplementsTrigger ==
    ASSUME TypeOK, KnownInv, PlaceInv, NEW p \in Callers, Trigger(p)
    PROVE  Service!Next
<1> DEFINE t == triggers + 1
           hooks == Targets(caller[p].event)
<1>1. /\ triggers \in Nat /\ triggers' = t /\ t \in 1..MaxTriggers
      /\ UNCHANGED <<registry, retryQueue, worker, deliveries, settled, tried>>
      /\ delivering' = delivering \cup
            {[by |-> "trigger", job |-> [n |-> t, hook |-> h], step |-> "starting"] :
                h \in hooks}
  BY MaxTriggersAssumption DEF TypeOK, Trigger
<1>2. hooks \subseteq Live /\ Live' = Live
  BY <1>1, LiveSame DEF Targets, Live, shouldTrigger
<1>3. ASSUME NEW j \in Jobs, j.n = t
      PROVE  ~Taken(j) /\ j \notin settled /\ ~Due(j)
  <2>1. ~(j.n <= triggers)
    BY <1>1, <1>3
  <2>2. ~Running(j)
    BY <2>1 DEF KnownInv, Running
  <2>3. j \notin tried /\ j \notin settled
    BY <2>1 DEF KnownInv
  <2> QED BY <2>2, <2>3, TakenIsSettled DEF KnownInv, Due
<1>4. ASSUME NEW j \in Jobs
      PROVE  Running(j)' <=> Running(j) \/ (j.n = t /\ j.hook \in hooks)
  <2>1. ASSUME j.n = t, j.hook \in hooks PROVE Running(j)'
    <3>1. [by |-> "trigger", job |-> [n |-> t, hook |-> j.hook], step |-> "starting"]
             \in delivering'
      BY <1>1, <2>1
    <3>2. j = [n |-> t, hook |-> j.hook]
      BY <2>1, JobFields
    <3> QED BY <3>1, <3>2 DEF Running
  <2>2. ASSUME Running(j) PROVE Running(j)'
    BY <1>1, <2>2 DEF Running
  <2>3. ASSUME Running(j)', ~Running(j) PROVE j.n = t /\ j.hook \in hooks
    <3>1. PICK d \in delivering' : d.job = j
      BY <2>3 DEF Running
    <3>2. d \notin delivering
      BY <2>3, <3>1 DEF Running
    <3> QED BY <1>1, <3>1, <3>2
  <2> QED BY <2>1, <2>2, <2>3
<1>5. \A j \in Jobs : (Queued(j)' <=> Queued(j)) /\ (Slept(j)' <=> Slept(j))
                      /\ (Taken(j)' <=> Taken(j))
  BY <1>1 DEF Queued, Slept, Taken
<1>6. \A j \in Jobs : Due(j)' <=> Due(j) \/ (j.n = t /\ j.hook \in hooks)
  BY <1>4, <1>5 DEF Due
<1>7. \A j \in Jobs : j.n = t => JobStatus[j] = "none"
  BY <1>3 DEF JobStatus
<1>8. JobStatus' = [j \in Jobs |-> IF j.n = t /\ j.hook \in hooks THEN "due" ELSE JobStatus[j]]
  BY <1>1, <1>3, <1>5, <1>6 DEF JobStatus
<1>9. Service!Owe(t, hooks)
  BY <1>2, <1>7, <1>8 DEF Service!Owe, Service!Owed, Jobs
<1> QED BY <1>1, <1>9 DEF Service!Next, Targets

LEMMA OneDelivery ==
    ASSUME TypeOK, PlaceInv, NEW d \in delivering, NEW j \in Jobs,
           delivering' = delivering \ {d}
    PROVE  Running(j)' <=> Running(j) /\ j # d.job
BY DEF Running, PlaceInv

\* A call of deliver moves the delivery about, or ends it as the answer says.
LEMMA ImplementsDeliver ==
    ASSUME TypeOK, KnownInv, WorkerInv, PlaceInv, NEW d \in delivering, DeliverStep(d)
    PROVE  [Service!Next]_(Service!deliveryVars)
<1>1. PICK h : h = d.job
  OBVIOUS
<1>2. h \in Jobs /\ Due(h) /\ (d.by = "worker" => \A j \in Jobs : ~Slept(j))
      /\ h.hook \in Hooks
  BY <1>1, CallFields, JobFields DEF TypeOK, Due, Running, WorkerInv, Slept
<1>3. Live' = Live
  <2>1. UNCHANGED registry
    BY DEF DeliverStep, Reject, Post, Accepted, Failed, Enqueue
  <2> QED BY <2>1, LiveSame
<1>4. ASSUME JobStatus' = JobStatus PROVE [Service!Next]_(Service!deliveryVars)
  BY <1>3, <1>4 DEF Service!deliveryVars
<1>5. ASSUME Moves(d), \A j \in Jobs : Taken(j)' <=> Taken(j)
      PROVE  [Service!Next]_(Service!deliveryVars)
  <2>1. PICK e : e.job = d.job /\ delivering' = (delivering \ {d}) \cup {e}
    BY <1>5 DEF Moves
  <2>2. \A j \in Jobs : Running(j)' <=> Running(j)
    BY <2>1 DEF Running
  <2>3. \A j \in Jobs : Due(j)' <=> Due(j)
    BY <1>5, <2>2 DEF Moves, Due, Queued, Slept
  <2>4. settled' = settled
    BY <1>5 DEF Moves
  <2> QED BY <1>4, <1>5, <2>3, <2>4, SameStatus
<1>6. ASSUME Settles(d), \A j \in Jobs \ {h} : Taken(j)' <=> Taken(j)
      PROVE  /\ JobStatus[h] = "due"
             /\ JobStatus' = [JobStatus EXCEPT ![h] =
                                  IF Taken(h)' THEN "accepted" ELSE Failure(h)]
  <2>1. \A j \in Jobs \ {h} : Running(j)' <=> Running(j)
    BY <1>1, <1>6, OneDelivery DEF Settles
  <2>2. \A j \in Jobs \ {h} : Due(j)' <=> Due(j)
    BY <1>2, <1>6, <2>1 DEF Settles, Due, Queued, Slept
  <2>3. settled' = settled \cup {h}
    BY <1>1, <1>6 DEF Settles
  <2> QED BY <1>2, <1>6, <2>2, <2>3, EndStatus
<1>7. CASE Reject(d)
  <2>1. Settles(d) /\ h.hook \in Malformed /\ deliveries' = deliveries
    BY <1>1, <1>7 DEF Reject, Ends, Returns, Settles
  <2>2. \A j \in Jobs : Taken(j)' <=> Taken(j)
    BY <2>1 DEF Taken
  <2>3. ~Taken(h)'
    BY <1>2, <2>2, TakenIsSettled, DueIsDue
  <2>4. JobStatus[h] = "due" /\ JobStatus' = [JobStatus EXCEPT ![h] = "rejected"]
    BY <1>6, <2>1, <2>2, <2>3 DEF Failure
  <2>5. Service!Reject(h)
    BY <1>3, <2>1, <2>4 DEF Service!Reject, Service!End
  <2> QED BY <1>2, <2>5 DEF Service!Next, Service!Owed, Jobs
<1>8. CASE Post(d)
  <2>1. Moves(d) /\ \A j \in Jobs : Taken(j)' <=> Taken(j)
    BY <1>8 DEF Post, Moves, Taken
  <2> QED BY <1>5, <2>1
<1>9. CASE Accepted(d)
  <2>1. Settles(d) /\ deliveries' = deliveries \cup {[job |-> h, ok |-> TRUE]}
    BY <1>1, <1>9 DEF Accepted, Ends, Returns, Settles
  <2>2. Taken(h)' /\ \A j \in Jobs \ {h} : Taken(j)' <=> Taken(j)
    BY <2>1 DEF Taken
  <2>3. JobStatus[h] = "due" /\ JobStatus' = [JobStatus EXCEPT ![h] = "accepted"]
    BY <1>6, <2>1, <2>2
  <2>4. h.hook \notin Malformed
    BY <1>1, <1>9 DEF Accepted, KnownInv
  <2>5. Service!Accept(h)
    BY <1>3, <2>3, <2>4 DEF Service!Accept, Service!End
  <2> QED BY <1>2, <2>5 DEF Service!Next, Service!Owed, Jobs
<1>10. CASE Failed(d)
  <2>1. \A j \in Jobs : Taken(j)' <=> Taken(j)
    BY <1>10 DEF Failed, Taken
  <2>2. CASE Retryable
    BY <1>5, <1>10, <2>1, <2>2 DEF Failed, Moves
  <2>3. CASE ~Retryable
    <3>1. Settles(d) /\ h.hook \notin Malformed
      BY <1>1, <1>10, <2>3 DEF Failed, Ends, Returns, Settles, KnownInv
    <3>2. ~Taken(h)'
      BY <1>2, <2>1, TakenIsSettled, DueIsDue
    <3>3. JobStatus[h] = "due" /\ JobStatus' = [JobStatus EXCEPT ![h] = "failed"]
      BY <1>6, <2>1, <2>3, <3>1, <3>2 DEF Failure
    <3>4. Service!GiveUp(h)
      BY <1>3, <2>3, <3>3 DEF Service!GiveUp, Service!End
    <3> QED BY <1>2, <3>4 DEF Service!Next, Service!Owed, Jobs
  <2> QED BY <2>2, <2>3
<1>11. CASE Enqueue(d)
  <2>1. Queues(d) /\ \A j \in Jobs : Taken(j)' <=> Taken(j)
    BY <1>11 DEF Enqueue, Ends, Returns, Queues, Taken
  <2>2. \A j \in Jobs : Queued(j)' <=> Queued(j) \/ j = h
    BY <1>1, <1>2, <2>1, QueuedAfterAppend DEF Queues, TypeOK
  <2>3. \A j \in Jobs : Running(j)' <=> Running(j) /\ j # h
    BY <1>1, <2>1, OneDelivery DEF Queues
  <2>4. \A j \in Jobs : Slept(j)' <=> Slept(j)
    BY <1>2, <2>1 DEF Queues, Slept
  <2>5. \A j \in Jobs : Due(j)' <=> Due(j)
    BY <1>2, <2>2, <2>3, <2>4 DEF Due
  <2>6. settled' = settled
    BY <2>1 DEF Queues
  <2> QED BY <1>4, <2>1, <2>5, <2>6, SameStatus
<1> QED BY <1>7, <1>8, <1>9, <1>10, <1>11 DEF DeliverStep

\* The worker keeps the delivery it took due, or drops it because of the webhook.
LEMMA ImplementsWorker ==
    ASSUME TypeOK, KnownInv, WorkerInv, PlaceInv, WorkerStep
    PROVE  [Service!Next]_(Service!deliveryVars)
<1>1. UNCHANGED <<registry, deliveries>> /\ Live' = Live
  BY LiveSame DEF WorkerStep, Take, Retry, Drop
<1>2. \A j \in Jobs : Taken(j)' <=> Taken(j)
  BY <1>1 DEF Taken
<1>3. ASSUME UNCHANGED settled, \A j \in Jobs : Due(j)' <=> Due(j)
      PROVE  [Service!Next]_(Service!deliveryVars)
  BY <1>1, <1>2, <1>3, SameStatus DEF Service!deliveryVars
<1>4. CASE Take
  <2>1. PICK h : h = Head(retryQueue)
    OBVIOUS
  <2>2. /\ h \in Jobs
        /\ \A k \in Jobs : Queued(k)' <=> Queued(k) /\ k # h
        /\ Queued(h)
    BY <1>4, <2>1, QueuedAfterTake DEF Take, TypeOK, PlaceInv
  <2>3. \A j \in Jobs : ~Slept(j) /\ (Slept(j)' <=> j = h) /\ (Running(j)' <=> Running(j))
    BY <1>4, <2>1 DEF Take, Slept, Running
  <2> QED BY <1>3, <1>4, <2>2, <2>3 DEF Take, Due
<1>5. CASE Retry
  <2>1. PICK h : h = worker.job
    OBVIOUS
  <2>2. h \in Jobs /\ \A j \in Jobs : (Slept(j) <=> j = h) /\ ~Slept(j)'
    BY <1>5, <2>1 DEF Retry, TypeOK, WorkerStates, Slept
  <2>3. PICK e : e.job = h /\ delivering' = delivering \cup {e}
    BY <1>5, <2>1 DEF Retry
  <2>4. \A j \in Jobs : (Running(j)' <=> Running(j) \/ j = h) /\ (Queued(j)' <=> Queued(j))
    BY <1>5, <2>3 DEF Retry, Running, Queued
  <2> QED BY <1>3, <1>5, <2>2, <2>4 DEF Retry, Due
<1>6. CASE Drop
  <2>1. PICK h : h = worker.job
    OBVIOUS
  <2>2. h \in Jobs /\ \A j \in Jobs : (Slept(j) <=> j = h) /\ ~Slept(j)'
    BY <1>6, <2>1 DEF Drop, TypeOK, WorkerStates, Slept
  <2>3. /\ \A j \in Jobs : (Running(j)' <=> Running(j)) /\ (Queued(j)' <=> Queued(j))
        /\ settled' = settled \cup {h}
    BY <1>6, <2>1 DEF Drop, Running, Queued
  <2>4. /\ Due(h) /\ \A j \in Jobs \ {h} : Due(j)' <=> Due(j)
    BY <2>2, <2>3 DEF Due
  <2>5. ~Taken(h)'
    BY <1>2, <2>2, <2>4, TakenIsSettled, DueIsDue
  <2>6. JobStatus[h] = "due" /\ JobStatus' = [JobStatus EXCEPT ![h] = Failure(h)]
    BY <1>2, <2>2, <2>3, <2>4, <2>5, EndStatus
  <2>7. h.hook \notin Malformed /\ h.hook \notin Live
    BY <1>6, <2>1, <2>2 DEF Drop, Live, KnownInv
  <2>8. Retryable
    BY <2>2 DEF KnownInv
  <2>9. Service!Drop(h)
    BY <1>1, <2>6, <2>7, <2>8 DEF Service!Drop, Service!End, Failure
  <2> QED BY <2>2, <2>9 DEF Service!Next, Service!Owed, Jobs
<1> QED BY <1>4, <1>5, <1>6 DEF WorkerStep

\* However registrations, updates and removals come between the attempts
\* (webhook.go:126, webhook.go:274), a delivery stays due until it ends, ends once, and
\* is dropped only while its webhook is missing or disabled.
THEOREM DeliveryImplemented == Spec => ImplementsDelivery
<1>1. Init => Service!Init
  <2> SUFFICES ASSUME Init PROVE Service!Init
    OBVIOUS
  <2>1. Live = {}
    BY DEF Init, Live, Registered
  <2>2. \A j \in Jobs : JobStatus[j] = "none"
    BY DEF Init, JobStatus, Taken, Due, Running, Queued, Slept
  <2>3. JobStatus = [j \in Jobs |-> JobStatus[j]]
    BY DEF JobStatus
  <2>4. JobStatus = [j \in Jobs |-> "none"]
    BY <2>2, <2>3
  <2> QED BY <2>1, <2>4 DEF Service!Init, Service!Owed, Jobs
<1>2. TypeOK /\ KnownInv /\ WorkerInv /\ PlaceInv /\ [Next]_vars
      => [Service!Next]_(Service!deliveryVars)
  BY StepKinds, ImplementsRegistry, ImplementsTrigger, ImplementsDeliver, ImplementsWorker
<1>3. QED
  BY <1>1, <1>2, TypeCorrect, KnownInvariant, WorkerInvariant, PlaceInvariant, PTL
     DEF Spec, ImplementsDelivery, Service!Spec

----------------------------------------------------------------------------
(* What a test request is answered *)

Waits(p) == caller[p].step = "waiting"
Attempted(j) == j \in tried \/ j \in settled
Open(j) == \E d \in delivering : d.by = "trigger" /\ d.job = j
AllTaken(n) == \A j \in Jobs : j.n = n /\ Attempted(j) => Taken(j)
OneFailed(n) ==
    \E j \in Jobs : /\ j.n = n /\ Attempted(j)
                    /\ j.hook \in Malformed \/ [job |-> j, ok |-> FALSE] \in deliveries

\* One caller waits for a trigger, for as long as a goroutine of the trigger runs; it
\* has heard of a failure only if there was one, and of none only if what is not
\* accepted has not returned yet; what was answered is still so, and final.
WaitInv ==
    /\ \A p \in Callers : Waits(p) => caller[p].n <= triggers
    /\ \A p, q \in Callers : Waits(p) /\ Waits(q) /\ caller[p].n = caller[q].n => p = q
    /\ \A d \in delivering :
          d.by = "trigger" => \E p \in Callers : Waits(p) /\ caller[p].n = d.job.n

HeardInv ==
    \A p \in Callers, n \in 1..MaxTriggers : Waits(p) /\ caller[p].n = n =>
        IF caller[p].failed THEN OneFailed(n)
        ELSE \A j \in Jobs : j.n = n /\ Attempted(j) => Taken(j) \/ Open(j)

AnsweredInv ==
    \A a \in answers :
        /\ a.n <= triggers
        /\ \A p \in Callers : Waits(p) => caller[p].n # a.n
        /\ IF a.ok THEN AllTaken(a.n) ELSE OneFailed(a.n)

\* What a step of deliver tells the caller that waits for it.
Silent ==
    /\ \A p \in Callers : caller'[p] = caller[p]
    /\ \A j \in Jobs : Open(j) => Open(j)' \/ Taken(j)'

Reported(d) ==
    /\ d.by = "trigger"
    /\ OneFailed(d.job.n)'
    /\ \A p \in Callers : Waits(p) /\ caller[p].n = d.job.n =>
          caller'[p].step = "waiting" /\ caller'[p].n = d.job.n /\ caller'[p].failed
    /\ \A p \in Callers : ~(Waits(p) /\ caller[p].n = d.job.n) => caller'[p] = caller[p]
    /\ \A j \in Jobs : Open(j) => Open(j)' \/ j = d.job

LEMMA DeliverReports ==
    ASSUME TypeOK, KnownInv, NEW d \in delivering, DeliverStep(d)
    PROVE  /\ Silent \/ Reported(d)
           /\ \A e \in delivering' : e.by = "trigger" =>
                 \E f \in delivering : f.by = "trigger" /\ f.job = e.job
           /\ \A j \in Jobs : Attempted(j)' => Attempted(j) \/ Open(j)
           /\ UNCHANGED <<triggers, answers>>
<1>1. /\ d \in Calls /\ d.job \in Jobs
      /\ d.by = "worker" => d.job \in tried /\ d.job.hook \notin Malformed
  BY CallFields DEF TypeOK, KnownInv
<1>2. ASSUME Ends(d, FALSE), d.by = "trigger",
             OneFailed(d.job.n)'
      PROVE  Reported(d)
  <2>1. \A p \in Callers : caller'[p] =
            IF caller[p].step = "waiting" /\ caller[p].n = d.job.n
            THEN [step |-> "waiting", n |-> d.job.n, hook |-> caller[p].hook, failed |-> TRUE]
            ELSE caller[p]
    BY <1>2 DEF Ends, Returns
  <2>2. \A j \in Jobs : Open(j) => Open(j)' \/ j = d.job
    BY <1>2 DEF Ends, Open
  <2>3. ASSUME NEW p \in Callers, Waits(p) /\ caller[p].n = d.job.n
        PROVE  caller'[p].step = "waiting" /\ caller'[p].n = d.job.n /\ caller'[p].failed
    <3>1. caller'[p] =
            [step |-> "waiting", n |-> d.job.n, hook |-> caller[p].hook, failed |-> TRUE]
      BY <2>1, <2>3 DEF Waits
    <3> QED BY <3>1
  <2>4. ASSUME NEW p \in Callers, ~(Waits(p) /\ caller[p].n = d.job.n)
        PROVE  caller'[p] = caller[p]
    BY <2>1, <2>4 DEF Waits
  <2> QED BY <1>2, <2>2, <2>3, <2>4 DEF Reported
<1>3. ASSUME NEW ok \in BOOLEAN, Ends(d, ok), d.by = "worker" PROVE Silent
  BY <1>3 DEF Ends, Returns, Silent, Open
<1>4. ASSUME NEW ok \in BOOLEAN, Ends(d, ok)
      PROVE  \A e \in delivering' : e.by = "trigger" =>
                 \E f \in delivering : f.by = "trigger" /\ f.job = e.job
  BY <1>4 DEF Ends
<1>5. ASSUME NEW s, delivering' = (delivering \ {d}) \cup
                                  {[by |-> d.by, job |-> d.job, step |-> s]},
             UNCHANGED caller
      PROVE  /\ Silent
             /\ \A e \in delivering' : e.by = "trigger" =>
                   \E f \in delivering : f.by = "trigger" /\ f.job = e.job
  <2>1. PICK e : /\ e.by = d.by /\ e.job = d.job
                 /\ delivering' = (delivering \ {d}) \cup {e}
    BY <1>5
  <2>2. \A j \in Jobs : Open(j) => Open(j)'
    BY <2>1 DEF Open
  <2> QED BY <1>5, <2>1, <2>2 DEF Silent
<1>6. CASE Reject(d)
  <2>1. Ends(d, FALSE) /\ settled' = settled \cup {d.job} /\ UNCHANGED <<tried, triggers, answers>>
        /\ d.job.hook \in Malformed /\ d.by = "trigger"
    BY <1>1, <1>6 DEF Reject, Calls
  <2>2. OneFailed(d.job.n)'
    BY <1>1, <2>1 DEF OneFailed, Attempted
  <2>3. \A j \in Jobs : Attempted(j)' => Attempted(j) \/ Open(j)
    BY <2>1 DEF Attempted, Open
  <2> QED BY <1>2, <1>4, <2>1, <2>2, <2>3
<1>7. CASE Post(d)
  <2>1. /\ delivering' = (delivering \ {d}) \cup {[by |-> d.by, job |-> d.job, step |-> "posting"]}
        /\ tried' = tried \cup {d.job} /\ UNCHANGED <<caller, settled, triggers, answers>>
    BY <1>7 DEF Post
  <2>2. \A j \in Jobs : Attempted(j)' => Attempted(j) \/ Open(j)
    BY <1>1, <2>1 DEF Attempted, Open, Calls
  <2> QED BY <1>5, <2>1, <2>2
<1>8. CASE Accepted(d)
  <2>1. /\ Ends(d, TRUE) /\ settled' = settled \cup {d.job}
        /\ UNCHANGED <<tried, triggers, answers>>
        /\ deliveries' = deliveries \cup {[job |-> d.job, ok |-> TRUE]}
    BY <1>8 DEF Accepted
  <2>2. Attempted(d.job)
    BY <1>8 DEF Accepted, KnownInv, Attempted
  <2>3. \A j \in Jobs : Attempted(j)' => Attempted(j)
    BY <2>1, <2>2 DEF Attempted
  <2>4. CASE d.by # "worker"
    <3>1. \A p \in Callers : caller'[p] = caller[p]
      BY <2>1, <2>4 DEF Ends, Returns
    <3>2. \A j \in Jobs : Open(j) => Open(j)' \/ Taken(j)'
      BY <2>1 DEF Ends, Open, Taken
    <3> QED BY <1>4, <2>1, <2>3, <3>1, <3>2 DEF Silent
  <2> QED BY <1>3, <1>4, <2>1, <2>3, <2>4
<1>9. CASE Failed(d)
  <2>1. /\ UNCHANGED <<tried, triggers, answers>>
        /\ deliveries' = deliveries \cup {[job |-> d.job, ok |-> FALSE]}
        /\ settled' = settled \/ settled' = settled \cup {d.job}
    BY <1>9 DEF Failed
  <2>2. Attempted(d.job) /\ Attempted(d.job)'
    BY <1>9, <2>1 DEF Failed, KnownInv, Attempted
  <2>3. \A j \in Jobs : Attempted(j)' => Attempted(j)
    BY <2>1, <2>2 DEF Attempted
  <2>4. OneFailed(d.job.n)'
    BY <1>1, <2>1, <2>2 DEF OneFailed
  <2>5. CASE Retryable
    BY <1>5, <1>9, <2>1, <2>3, <2>5 DEF Failed
  <2>6. CASE ~Retryable
    <3>1. Ends(d, FALSE)
      BY <1>9, <2>6 DEF Failed
    <3> QED BY <1>1, <1>2, <1>3, <1>4, <2>1, <2>3, <2>4, <3>1 DEF Calls
  <2> QED BY <2>5, <2>6
<1>10. CASE Enqueue(d)
  <2>1. Ends(d, FALSE) /\ UNCHANGED <<tried, settled, deliveries, triggers, answers>>
    BY <1>10 DEF Enqueue
  <2>2. d.job \in tried /\ [job |-> d.job, ok |-> FALSE] \in deliveries
    BY <1>10 DEF Enqueue, KnownInv
  <2>3. OneFailed(d.job.n)'
    BY <1>1, <2>1, <2>2 DEF OneFailed, Attempted
  <2>4. \A j \in Jobs : Attempted(j)' => Attempted(j)
    BY <2>1 DEF Attempted
  <2> QED BY <1>1, <1>2, <1>3, <1>4, <2>1, <2>3, <2>4 DEF Calls
<1> QED BY <1>6, <1>7, <1>8, <1>9, <1>10 DEF DeliverStep

LEMMA RecordsGrow ==
    ASSUME [Next]_vars
    PROVE  tried \subseteq tried' /\ settled \subseteq settled' /\ deliveries \subseteq deliveries'
<1>1. ASSUME NEW p \in Callers, Trigger(p) PROVE UNCHANGED <<tried, settled, deliveries>>
  BY <1>1 DEF Trigger
<1>2. ASSUME NEW d \in delivering, DeliverStep(d)
      PROVE  tried \subseteq tried' /\ settled \subseteq settled' /\ deliveries \subseteq deliveries'
  BY <1>2 DEF DeliverStep, Reject, Post, Accepted, Failed, Enqueue
<1>3. WorkerStep => tried \subseteq tried' /\ settled \subseteq settled' /\ deliveries' = deliveries
  BY DEF WorkerStep, Take, Retry, Drop
<1>4. QuietStep => UNCHANGED <<tried, settled, deliveries>>
  BY DEF QuietStep
<1> QED BY <1>1, <1>2, <1>3, <1>4, StepKinds

LEMMA FailedOnce ==
    ASSUME [Next]_vars, NEW CONSTANT n, OneFailed(n)
    PROVE  OneFailed(n)'
BY RecordsGrow DEF OneFailed, Attempted

LEMMA TakenOnce ==
    ASSUME [Next]_vars, NEW CONSTANT j \in Jobs, Taken(j)
    PROVE  Taken(j)'
BY RecordsGrow DEF Taken

\* The answers there are stay true when no delivery of theirs is new.
LEMMA AnswersStay ==
    ASSUME [Next]_vars, AnsweredInv, triggers <= triggers', TypeOK, TypeOK',
           \A j \in Jobs : Attempted(j)' => Attempted(j) \/ Open(j),
           \A j \in Jobs : Open(j) => \E p \in Callers : Waits(p) /\ caller[p].n = j.n,
           \A p \in Callers : Waits(p)' => \/ Waits(p) /\ caller'[p].n = caller[p].n
                                           \/ caller'[p].n > triggers,
           NEW CONSTANT a, a \in answers
    PROVE  /\ a.n <= triggers'
           /\ \A p \in Callers : Waits(p)' => caller'[p].n # a.n
           /\ IF a.ok THEN AllTaken(a.n)' ELSE OneFailed(a.n)'
<1>1. a.n \in Nat /\ a.ok \in BOOLEAN /\ triggers \in Nat /\ triggers' \in Nat /\ a.n <= triggers
  BY MaxTriggersAssumption DEF TypeOK, AnsweredInv
<1>2. \A p \in Callers : Waits(p)' => caller'[p].n # a.n
  <2> SUFFICES ASSUME NEW p \in Callers, Waits(p)' PROVE caller'[p].n # a.n
    OBVIOUS
  <2>1. caller'[p].n \in 1..MaxTriggers
    BY CallerFields DEF TypeOK, Waits
  <2> QED BY <1>1, <2>1 DEF AnsweredInv
<1>3. CASE a.ok
  <2>1. ASSUME NEW CONSTANT j \in Jobs, j.n = a.n, Attempted(j)' PROVE Taken(j)'
    <3>1. ~Open(j)
      BY <2>1 DEF AnsweredInv
    <3>2. Taken(j)
      BY <1>3, <2>1, <3>1 DEF AnsweredInv, AllTaken
    <3> QED BY <3>2, TakenOnce
  <2>2. AllTaken(a.n)'
    BY <2>1 DEF AllTaken
  <2> QED BY <1>1, <1>2, <1>3, <2>2
<1>4. CASE ~a.ok
  <2>1. OneFailed(a.n)'
    BY <1>4, FailedOnce DEF AnsweredInv
  <2> QED BY <1>1, <1>2, <1>4, <2>1
<1> QED BY <1>3, <1>4

AnswerInv == WaitInv /\ HeardInv /\ AnsweredInv

LEMMA OpenIsAwaited ==
    ASSUME WaitInv, NEW j \in Jobs, Open(j)
    PROVE  \E p \in Callers : Waits(p) /\ caller[p].n = j.n
BY DEF WaitInv, Open

\* No delivery of a trigger moves; a caller that waits goes on waiting, or has nothing
\* to wait for; a new answer is right.
LEMMA AnswerIdle ==
    ASSUME TypeOK, TypeOK', [Next]_vars, AnswerInv,
           UNCHANGED <<triggers, deliveries, tried>>,
           \A j \in Jobs : j \in settled' => j \in settled \/ j \in tried,
           \A d : d.by = "trigger" => (d \in delivering' <=> d \in delivering),
           \A p \in Callers : Waits(p)' => Waits(p) /\ caller'[p] = caller[p],
           \A p \in Callers : Waits(p) =>
              \/ caller'[p] = caller[p]
              \/ \A d \in delivering : ~(d.by = "trigger" /\ d.job.n = caller[p].n),
           \A a \in answers' \ answers :
              /\ a.n <= triggers
              /\ \A p \in Callers : Waits(p)' => caller'[p].n # a.n
              /\ IF a.ok THEN AllTaken(a.n) ELSE OneFailed(a.n)
    PROVE  AnswerInv'
<1>1. \A p \in Callers : Waits(p) /\ caller'[p] = caller[p] => Waits(p)'
  BY DEF Waits
<1>2. WaitInv'
  <2>1. ASSUME NEW d \in delivering', d.by = "trigger"
        PROVE  \E p \in Callers : Waits(p)' /\ caller'[p].n = d.job.n
    <3>1. d \in delivering
      BY <2>1
    <3>2. PICK p \in Callers : Waits(p) /\ caller[p].n = d.job.n
      BY <2>1, <3>1 DEF AnswerInv, WaitInv
    <3>3. caller'[p] = caller[p]
      BY <2>1, <3>1, <3>2
    <3> QED BY <1>1, <3>2, <3>3
  <2>2. /\ \A p \in Callers : Waits(p)' => caller'[p].n <= triggers'
        /\ \A p, q \in Callers : Waits(p)' /\ Waits(q)' /\ caller'[p].n = caller'[q].n => p = q
    BY DEF AnswerInv, WaitInv
  <2> QED BY <2>1, <2>2 DEF WaitInv
<1>3. \A j \in Jobs : (Attempted(j)' <=> Attempted(j)) /\ (Taken(j)' <=> Taken(j))
                      /\ (Open(j)' <=> Open(j))
  BY RecordsGrow DEF Attempted, Taken, Open
<1>4. HeardInv'
  <2> SUFFICES ASSUME NEW CONSTANT p \in Callers, NEW CONSTANT n \in 1..MaxTriggers,
                      Waits(p)', caller'[p].n = n
               PROVE  IF caller'[p].failed THEN OneFailed(n)'
                      ELSE \A j \in Jobs : j.n = n /\ Attempted(j)' => Taken(j)' \/ Open(j)'
    BY DEF HeardInv
  <2>1. Waits(p) /\ caller'[p] = caller[p]
    OBVIOUS
  <2>2. OneFailed(n) => OneFailed(n)'
    BY FailedOnce
  <2> QED BY <1>3, <2>1, <2>2 DEF AnswerInv, HeardInv
<1>5. AnsweredInv'
  <2> SUFFICES ASSUME NEW CONSTANT a \in answers'
               PROVE  /\ a.n <= triggers'
                      /\ \A p \in Callers : Waits(p)' => caller'[p].n # a.n
                      /\ IF a.ok THEN AllTaken(a.n)' ELSE OneFailed(a.n)'
    BY DEF AnsweredInv
  <2>1. triggers <= triggers'
    BY DEF TypeOK
  <2>2. \A j \in Jobs : Attempted(j)' => Attempted(j) \/ Open(j)
    BY <1>3
  <2>3. \A j \in Jobs : Open(j) => \E p \in Callers : Waits(p) /\ caller[p].n = j.n
    BY OpenIsAwaited DEF AnswerInv
  <2>4. \A p \in Callers : Waits(p)' => Waits(p) /\ caller'[p].n = caller[p].n
    OBVIOUS
  <2>5. CASE a \in answers
    BY <2>1, <2>2, <2>3, <2>4, <2>5, AnswersStay DEF AnswerInv
  <2>6. CASE a \notin answers
    <3>1. AllTaken(a.n) => AllTaken(a.n)'
      BY <1>3 DEF AllTaken
    <3>2. OneFailed(a.n) => OneFailed(a.n)'
      BY FailedOnce
    <3> QED BY <2>6, <3>1, <3>2
  <2> QED BY <2>5, <2>6
<1> QED BY <1>2, <1>4, <1>5 DEF AnswerInv

\* wg.Wait is over, and the caller answers what it has heard.
LEMMA AnswerReturns ==
    ASSUME TypeOK, TypeOK', [Next]_vars, AnswerInv, NEW p \in Callers, TriggerReturns(p)
    PROVE  AnswerInv'
<1>1. /\ Waits(p) /\ caller' = [caller EXCEPT ![p] = Idle]
      /\ \A d \in delivering : ~(d.by = "trigger" /\ d.job.n = caller[p].n)
      /\ UNCHANGED <<triggers, delivering, deliveries, tried, settled>>
  BY DEF TriggerReturns, Waits
<1>2. \A q \in Callers : /\ Waits(q)' => q # p /\ Waits(q) /\ caller'[q] = caller[q]
                         /\ q # p => caller'[q] = caller[q]
  BY <1>1 DEF TypeOK, Waits
<1>3. PICK n \in 1..MaxTriggers : n = caller[p].n
  BY <1>1, CallerFields DEF TypeOK, Waits
<1>4. \A q \in Callers : Waits(q)' => caller'[q].n # n
  BY <1>1, <1>2, <1>3 DEF AnswerInv, WaitInv
<1>5. PICK ok \in BOOLEAN : ok <=> ~caller[p].failed
  OBVIOUS
<1>6. IF ok THEN AllTaken(n) ELSE OneFailed(n)
  <2>1. \A j \in Jobs : j.n = n => ~Open(j)
    BY <1>1, <1>3 DEF Open
  <2> QED BY <1>1, <1>3, <1>5, <2>1 DEF AnswerInv, HeardInv, AllTaken
<1>7. \A a \in answers' : a \in answers \/ (a.n = n /\ (a.ok <=> ok))
  BY <1>3, <1>5 DEF TriggerReturns, AnswerTest
<1>8. \A a \in answers' \ answers :
         /\ a.n <= triggers
         /\ \A q \in Callers : Waits(q)' => caller'[q].n # a.n
         /\ IF a.ok THEN AllTaken(a.n) ELSE OneFailed(a.n)
  <2>1. n <= triggers
    BY <1>1, <1>3 DEF AnswerInv, WaitInv
  <2> QED BY <1>4, <1>6, <1>7, <2>1
<1> QED BY <1>1, <1>2, <1>8, AnswerIdle

\* A request that triggered nothing is answered that all of nothing was accepted.
LEMMA AnswerNone ==
    ASSUME TypeOK, TypeOK', [Next]_vars, AnswerInv, NEW p \in Callers, TriggerFindsNone(p)
    PROVE  AnswerInv'
<1>1. /\ ~Waits(p) /\ caller' = [caller EXCEPT ![p] = Idle]
      /\ UNCHANGED <<triggers, delivering, deliveries, tried, settled>>
  BY DEF TriggerFindsNone, Waits
<1>2. \A q \in Callers : /\ Waits(q)' => Waits(q) /\ caller'[q] = caller[q]
                         /\ Waits(q) => caller'[q] = caller[q]
  BY <1>1 DEF TypeOK, Waits
<1>3. \A q \in Callers : Waits(q)' => caller'[q].n # 0
  BY <1>2, CallerFields DEF TypeOK, Waits
<1>4. \A a \in answers' : a \in answers \/ (a.n = 0 /\ a.ok)
  BY DEF TriggerFindsNone, AnswerTest
<1>5. AllTaken(0) /\ 0 <= triggers
  BY JobFields DEF AllTaken, TypeOK
<1>6. \A a \in answers' \ answers :
         /\ a.n <= triggers
         /\ \A q \in Callers : Waits(q)' => caller'[q].n # a.n
         /\ IF a.ok THEN AllTaken(a.n) ELSE OneFailed(a.n)
  BY <1>3, <1>4, <1>5
<1> QED BY <1>1, <1>2, <1>6, AnswerIdle

LEMMA AnswerWorker ==
    ASSUME TypeOK, TypeOK', [Next]_vars, KnownInv, AnswerInv, WorkerStep
    PROVE  AnswerInv'
<1>1. UNCHANGED <<triggers, deliveries, tried, answers, caller>>
  BY DEF WorkerStep, Take, Retry, Drop
<1>2. \A d : d.by = "trigger" => (d \in delivering' <=> d \in delivering)
  BY DEF WorkerStep, Take, Retry, Drop
<1>3. \A j \in Jobs : j \in settled' => j \in settled \/ j \in tried
  <2>1. CASE Drop
    BY <2>1 DEF Drop, KnownInv, Slept, TypeOK, WorkerStates
  <2> QED BY <2>1 DEF WorkerStep, Take, Retry
<1> QED BY <1>1, <1>2, <1>3, AnswerIdle DEF Waits

MovesOn(p) ==
    /\ ~Waits(p) /\ ~Waits(p)'
    /\ \A q \in Callers \ {p} : caller'[q] = caller[q]

\* The remaining steps of callers, none of which is about a trigger that has begun.
LEMMA AnswerOther ==
    ASSUME TypeOK, TypeOK', [Next]_vars, AnswerInv, QuietStep, UNCHANGED answers,
           UNCHANGED caller \/ \E p \in Callers : MovesOn(p)
    PROVE  AnswerInv'
<1>1. \A p \in Callers : /\ Waits(p)' => Waits(p) /\ caller'[p] = caller[p]
                         /\ Waits(p) => caller'[p] = caller[p]
  BY DEF MovesOn, Waits
<1> QED BY <1>1, AnswerIdle DEF QuietStep

LEMMA QuietKinds ==
    ASSUME TypeOK, [Next]_vars, QuietStep
    PROVE  \/ \E p \in Callers : TriggerReturns(p) \/ TriggerFindsNone(p) \/ Trigger(p)
           \/ \E d \in delivering : DeliverStep(d)
           \/ WorkerStep
           \/ /\ UNCHANGED answers
              /\ UNCHANGED caller \/ \E p \in Callers : MovesOn(p)
<1>1. RegistryStep => UNCHANGED <<caller, answers>>
  BY DEF RegistryStep, RegisterWebhook, UnregisterWebhook
<1>2. ASSUME NEW p \in Callers, CallerStep(p)
      PROVE  \/ TriggerReturns(p) \/ TriggerFindsNone(p) \/ Trigger(p)
             \/ UNCHANGED answers /\ MovesOn(p)
  <2>1. ASSUME NEW h \in Hooks, UpdateRemoves(p, h)
        PROVE  UNCHANGED answers /\ MovesOn(p)
    BY <2>1 DEF UpdateRemoves, Waits, MovesOn, TypeOK
  <2>2. ASSUME NEW h \in Hooks, Test(p, h)
        PROVE  UNCHANGED answers /\ MovesOn(p)
    BY <2>2 DEF Test, Waits, MovesOn, TypeOK
  <2>3. ASSUME NEW h \in Hooks, NEW s \in Settings, UpdateRegisters(p, h, s)
        PROVE  UNCHANGED answers /\ MovesOn(p)
    BY <2>3 DEF UpdateRegisters, Waits, MovesOn, TypeOK
  <2>4. ASSUME Announce(p)
        PROVE  UNCHANGED answers /\ MovesOn(p)
    BY <2>4 DEF Announce, Waits, MovesOn, TypeOK
  <2> QED BY <1>2, <2>1, <2>2, <2>3, <2>4 DEF CallerStep
<1> QED BY <1>1, <1>2 DEF Next

\* A trigger has a number of its own; its caller has heard nothing.
LEMMA AnswerTrigger ==
    ASSUME TypeOK, TypeOK', [Next]_vars, KnownInv, AnswerInv, NEW p \in Callers, Trigger(p)
    PROVE  AnswerInv'
<1>1. PICK t \in 1..MaxTriggers : t = triggers + 1
  BY MaxTriggersAssumption DEF TypeOK, Trigger
<1>2. /\ triggers \in Nat /\ triggers' = t /\ ~Waits(p)
      /\ UNCHANGED <<deliveries, settled, tried, answers>>
      /\ \A d \in delivering' : d \in delivering \/ d.job.n = t
      /\ delivering \subseteq delivering'
  BY <1>1 DEF TypeOK, Trigger, Waits
<1>3. /\ caller'[p].step = "waiting" /\ caller'[p].n = t /\ caller'[p].failed = FALSE
      /\ \A q \in Callers : q # p => caller'[q] = caller[q]
  BY <1>1, <1>2 DEF TypeOK, Trigger
<1>4. \A q \in Callers : /\ Waits(q) => q # p /\ Waits(q)' /\ caller'[q] = caller[q]
                         /\ Waits(q)' => q = p \/ (Waits(q) /\ caller'[q] = caller[q])
  BY <1>2, <1>3 DEF Waits
<1>5. \A q \in Callers : Waits(q) => caller[q].n \in Nat /\ caller[q].n <= triggers
  BY CallerFields DEF TypeOK, Waits, AnswerInv, WaitInv
<1>6. WaitInv'
  <2>1. \A q \in Callers : Waits(q)' => caller'[q].n <= triggers'
    BY <1>1, <1>2, <1>3, <1>4, <1>5
  <2>2. \A q, r \in Callers : Waits(q)' /\ Waits(r)' /\ caller'[q].n = caller'[r].n => q = r
    BY <1>1, <1>2, <1>3, <1>4, <1>5 DEF AnswerInv, WaitInv
  <2>3. ASSUME NEW d \in delivering', d.by = "trigger"
        PROVE  \E q \in Callers : Waits(q)' /\ caller'[q].n = d.job.n
    <3>1. CASE d \in delivering
      BY <1>4, <2>3, <3>1 DEF AnswerInv, WaitInv
    <3>2. CASE d \notin delivering
      BY <1>2, <1>3, <3>2 DEF Waits
    <3> QED BY <3>1, <3>2
  <2> QED BY <2>1, <2>2, <2>3 DEF WaitInv
<1>7. \A j \in Jobs : /\ Attempted(j)' <=> Attempted(j)
                      /\ Taken(j)' <=> Taken(j)
                      /\ Open(j) => Open(j)'
  BY <1>2 DEF Attempted, Taken, Open
<1>8. \A j \in Jobs : Attempted(j) => j.n # t
  BY <1>1, <1>2 DEF KnownInv, Attempted
<1>9. HeardInv'
  <2> SUFFICES ASSUME NEW CONSTANT q \in Callers, NEW CONSTANT n \in 1..MaxTriggers,
                      Waits(q)', caller'[q].n = n
               PROVE  IF caller'[q].failed THEN OneFailed(n)'
                      ELSE \A j \in Jobs : j.n = n /\ Attempted(j)' => Taken(j)' \/ Open(j)'
    BY DEF HeardInv
  <2>1. CASE q = p
    BY <1>3, <1>7, <1>8, <2>1
  <2>2. CASE q # p
    <3>1. Waits(q) /\ caller'[q] = caller[q]
      BY <1>4, <2>2
    <3>2. OneFailed(n) => OneFailed(n)'
      BY FailedOnce
    <3> QED BY <1>7, <3>1, <3>2 DEF AnswerInv, HeardInv
  <2> QED BY <2>1, <2>2
<1>10. AnsweredInv'
  <2>1. triggers <= triggers'
    BY <1>1, <1>2
  <2>2. \A j \in Jobs : Attempted(j)' => Attempted(j) \/ Open(j)
    BY <1>7
  <2>3. \A j \in Jobs : Open(j) => \E q \in Callers : Waits(q) /\ caller[q].n = j.n
    BY OpenIsAwaited DEF AnswerInv
  <2>4. \A q \in Callers : Waits(q)' => \/ Waits(q) /\ caller'[q].n = caller[q].n
                                        \/ caller'[q].n > triggers
    BY <1>1, <1>2, <1>3, <1>4
  <2> QED BY <1>2, <2>1, <2>2, <2>3, <2>4, AnswersStay DEF AnswerInv, AnsweredInv
<1> QED BY <1>6, <1>9, <1>10 DEF AnswerInv

LEMMA AnswerDeliver ==
    ASSUME TypeOK, TypeOK', [Next]_vars, KnownInv, AnswerInv,
           NEW d \in delivering, DeliverStep(d)
    PROVE  AnswerInv'
<1>1. /\ Silent \/ Reported(d)
      /\ \A e \in delivering' : e.by = "trigger" =>
            \E f \in delivering : f.by = "trigger" /\ f.job = e.job
      /\ \A j \in Jobs : Attempted(j)' => Attempted(j) \/ Open(j)
      /\ UNCHANGED <<triggers, answers>>
  BY DeliverReports
<1>2. \A p \in Callers : Waits(p)' <=> Waits(p)
  BY <1>1 DEF Silent, Reported, Waits
<1>3. \A p \in Callers : Waits(p) => caller'[p].n = caller[p].n
  BY <1>1 DEF Silent, Reported, Waits
<1>4. WaitInv'
  <2>1. ASSUME NEW e \in delivering', e.by = "trigger"
        PROVE  \E p \in Callers : Waits(p)' /\ caller'[p].n = e.job.n
    <3>1. PICK f \in delivering : f.by = "trigger" /\ f.job = e.job
      BY <1>1, <2>1
    <3>2. PICK p \in Callers : Waits(p) /\ caller[p].n = f.job.n
      BY <3>1 DEF AnswerInv, WaitInv
    <3> QED BY <1>2, <1>3, <3>1, <3>2
  <2> QED BY <1>1, <1>2, <1>3, <2>1 DEF AnswerInv, WaitInv
<1>5. HeardInv'
  <2> SUFFICES ASSUME NEW CONSTANT p \in Callers, NEW CONSTANT n \in 1..MaxTriggers,
                      Waits(p)', caller'[p].n = n
               PROVE  IF caller'[p].failed THEN OneFailed(n)'
                      ELSE \A j \in Jobs : j.n = n /\ Attempted(j)' => Taken(j)' \/ Open(j)'
    BY DEF HeardInv
  <2>1. Waits(p) /\ caller[p].n = n
    BY <1>2, <1>3
  <2>2. OneFailed(n) => OneFailed(n)'
    BY FailedOnce
  <2>3. \A j \in Jobs : Taken(j) => Taken(j)'
    BY TakenOnce
  <2>4. CASE Silent
    <3>1. \A j \in Jobs : Open(j) => Open(j)' \/ Taken(j)'
      BY <2>4 DEF Silent
    <3>2. caller'[p] = caller[p]
      BY <2>4 DEF Silent
    <3> QED BY <1>1, <2>1, <2>2, <2>3, <3>1, <3>2 DEF AnswerInv, HeardInv
  <2>5. CASE Reported(d) /\ d.job.n = n
    <3>1. caller'[p].failed /\ OneFailed(d.job.n)'
      BY <2>1, <2>5 DEF Reported
    <3>2. OneFailed(n)'
      <4>1. d.job.n = n /\ \A j \in Jobs : j.n = d.job.n <=> j.n = n
        BY <2>5
      <4> QED BY <3>1, <4>1 DEF OneFailed
    <3> QED BY <3>1, <3>2
  <2>6. CASE Reported(d) /\ d.job.n # n
    <3>1. caller'[p] = caller[p] /\ \A j \in Jobs : j.n = n /\ Open(j) => Open(j)'
      BY <2>1, <2>6 DEF Reported
    <3> QED BY <1>1, <2>1, <2>2, <2>3, <3>1 DEF AnswerInv, HeardInv
  <2> QED BY <1>1, <2>4, <2>5, <2>6
<1>6. AnsweredInv'
  <2>1. triggers <= triggers'
    BY <1>1 DEF TypeOK
  <2>2. \A j \in Jobs : Open(j) => \E q \in Callers : Waits(q) /\ caller[q].n = j.n
    BY OpenIsAwaited DEF AnswerInv
  <2>3. \A q \in Callers : Waits(q)' => Waits(q) /\ caller'[q].n = caller[q].n
    BY <1>2, <1>3
  <2> QED BY <1>1, <2>1, <2>2, <2>3, AnswersStay DEF AnswerInv, AnsweredInv
<1> QED BY <1>4, <1>5, <1>6 DEF AnswerInv

LEMMA AnswerInvariant == Spec => []AnswerInv
<1>1. Init => AnswerInv
  BY DEF Init, AnswerInv, WaitInv, HeardInv, AnsweredInv, Waits
<1>2. TypeOK /\ TypeOK' /\ KnownInv /\ AnswerInv /\ [Next]_vars => AnswerInv'
  <2> SUFFICES ASSUME TypeOK, TypeOK', KnownInv, AnswerInv, [Next]_vars PROVE AnswerInv'
    OBVIOUS
  <2>1. CASE QuietStep
    BY <2>1, QuietKinds, AnswerReturns, AnswerNone, AnswerTrigger, AnswerDeliver,
       AnswerWorker, AnswerOther
  <2> QED BY <2>1, StepKinds, AnswerTrigger, AnswerDeliver, AnswerWorker
<1>3. QED BY <1>1, <1>2, TypeCorrect, KnownInvariant, PTL DEF Spec

\* What Trigger returns is about this call (webhook.go:137-149), however its goroutines,
\* the worker and other triggers interleave.
THEOREM AnswersAreHonest == Spec => []AnswersHonest
<1>1. AnswerInv => AnswersHonest
  BY DEF AnswerInv, AnsweredInv, AnswersHonest, AllTaken, OneFailed, Attempted, Taken
<1>2. QED BY <1>1, AnswerInvariant, PTL
=============================================================================
