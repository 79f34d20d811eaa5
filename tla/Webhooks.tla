------------------------------ MODULE Webhooks ------------------------------
(***************************************************************************)
(* The webhook service of internal/webhooks and the handlers that call it. *)
(* Trigger takes a snapshot of the matching webhooks under the read lock   *)
(* and delivers to each in a goroutine of its own; a delivery that fails   *)
(* goes to a bounded retry queue, which one worker empties: it sleeps      *)
(* until the retry is due, looks the webhook up again and delivers, which  *)
(* may put the delivery back on the queue it is the only reader of.        *)
(*                                                                         *)
(* A job is the obligation to deliver one trigger to one webhook.  A       *)
(* delivery record is what it says: the job and whether the attempt        *)
(* succeeded.                                                              *)
(***************************************************************************)
EXTENDS Integers, Sequences, FiniteSets

CONSTANTS
    Hooks,          \* webhook ids; RegisterWebhook never draws one twice
    Malformed,      \* webhooks whose URL http.NewRequest rejects
    Events,         \* event types
    Success,        \* the event type a test request triggers
    Breaking,       \* the event type a published release triggers
    Settings,       \* what requests register: Enabled and Events
    Callers,        \* goroutines that run the test, publish and update handlers
    NoHook,         \* no webhook
    MaxRetries,     \* Service.maxRetries
    QueueCap,       \* capacity of Service.retryQueue (1000 in the code)
    MaxTriggers     \* bound: calls of Trigger that find a webhook

ASSUME HooksAssumption == Malformed \subseteq Hooks /\ NoHook \notin Hooks
ASSUME EventsAssumption == {Success, Breaking} \subseteq Events
ASSUME SettingsAssumption == Settings \subseteq [enabled : BOOLEAN, events : SUBSET Events]
ASSUME MaxRetriesAssumption == MaxRetries \in Nat
ASSUME QueueCapAssumption == QueueCap \in Nat \ {0}
ASSUME MaxTriggersAssumption == MaxTriggers \in Nat

VARIABLES
    webhooks,       \* whether an id is new, registered or gone
    settings,       \* the settings of a webhook that is not new
    caller,         \* the request a caller is serving
    triggers,       \* calls of Trigger that found a webhook
    delivering,     \* the deliveries that are running
    retryQueue,     \* Service.retryQueue
    worker,         \* where retryWorker is
    deliveries,     \* Service.deliveries
    settled,        \* history: the jobs that will not be tried again
    tried,          \* history: the jobs that were attempted
    answers         \* history: what test requests were answered

registry == <<webhooks, settings>>
vars == <<registry, caller, triggers, delivering, retryQueue, worker, deliveries,
          settled, tried, answers>>

Jobs == [n : 1..MaxTriggers, hook : Hooks]
Unset == [enabled |-> FALSE, events |-> {}]
Idle == [step |-> "idle"]
Receiving == [step |-> "receiving"]

Registered(h) == webhooks[h] = "registered"
shouldTrigger(h, event) == settings[h].enabled /\ event \in settings[h].events

\* A failed delivery has the attempt number of a new record, whoever made it.
FirstAttempt == 1
Retryable == FirstAttempt < MaxRetries

Init ==
    /\ webhooks = [h \in Hooks |-> "new"]
    /\ settings = [h \in Hooks |-> Unset]
    /\ caller = [p \in Callers |-> Idle]
    /\ triggers = 0
    /\ delivering = {}
    /\ retryQueue = <<>>
    /\ worker = Receiving
    /\ deliveries = {}
    /\ settled = {}
    /\ tried = {}
    /\ answers = {}

----------------------------------------------------------------------------
(* RegisterWebhook and UnregisterWebhook, called by create, delete, update *)

Draw(h, s) ==
    /\ webhooks[h] = "new"
    /\ webhooks' = [webhooks EXCEPT ![h] = "registered"]
    /\ settings' = [settings EXCEPT ![h] = s]

Remove(h) ==
    webhooks' = IF Registered(h) THEN [webhooks EXCEPT ![h] = "gone"] ELSE webhooks

RegisterWebhook(h, s) ==
    /\ Draw(h, s)
    /\ UNCHANGED <<caller, triggers, delivering, retryQueue, worker, deliveries,
                   settled, tried, answers>>

UnregisterWebhook(h) ==
    /\ Registered(h)
    /\ Remove(h)
    /\ UNCHANGED <<settings, caller, triggers, delivering, retryQueue, worker,
                   deliveries, settled, tried, answers>>

\* An update removes the webhook it names, if there is one, and registers the
\* new settings in a second critical section, under an id drawn there.
UpdateRemoves(p, h) ==
    /\ caller[p] = Idle
    /\ webhooks[h] # "new"
    /\ Remove(h)
    /\ caller' = [caller EXCEPT ![p] = [step |-> "updating", hook |-> h]]
    /\ UNCHANGED <<settings, triggers, delivering, retryQueue, worker, deliveries,
                   settled, tried, answers>>

UpdateRegisters(p, h, s) ==
    /\ caller[p].step = "updating"
    /\ Draw(h, s)
    /\ caller' = [caller EXCEPT ![p] = Idle]
    /\ UNCHANGED <<triggers, delivering, retryQueue, worker, deliveries, settled,
                   tried, answers>>

----------------------------------------------------------------------------
(* Trigger, called by the test handler and by PublishRelease *)

\* handleTestWebhook has found the webhook.
Test(p, h) ==
    /\ caller[p] = Idle
    /\ Registered(h)
    /\ caller' = [caller EXCEPT ![p] =
                     [step |-> "triggering", event |-> Success, hook |-> h]]
    /\ UNCHANGED <<registry, triggers, delivering, retryQueue, worker, deliveries,
                   settled, tried, answers>>

Announce(p) ==
    /\ caller[p] = Idle
    /\ caller' = [caller EXCEPT ![p] =
                     [step |-> "triggering", event |-> Breaking, hook |-> NoHook]]
    /\ UNCHANGED <<registry, triggers, delivering, retryQueue, worker, deliveries,
                   settled, tried, answers>>

Targets(event) == {h \in Hooks : Registered(h) /\ shouldTrigger(h, event)}

AnswerTest(p, n, ok) ==
    answers' = IF caller[p].hook = NoHook THEN answers
               ELSE answers \cup
                    {[n |-> n, ok |-> ok]}

TriggerFindsNone(p) ==
    /\ caller[p].step = "triggering"
    /\ Targets(caller[p].event) = {}
    /\ AnswerTest(p, 0, TRUE)
    /\ caller' = [caller EXCEPT ![p] = Idle]
    /\ UNCHANGED <<registry, triggers, delivering, retryQueue, worker, deliveries,
                   settled, tried>>

\* The snapshot, and one goroutine for each webhook in it.
Trigger(p) ==
    /\ caller[p].step = "triggering"
    /\ Targets(caller[p].event) # {}
    /\ triggers < MaxTriggers
    /\ triggers' = triggers + 1
    /\ delivering' = delivering \cup
          {[by |-> "trigger", job |-> [n |-> triggers', hook |-> h],
            step |-> "starting"] : h \in Targets(caller[p].event)}
    /\ caller' = [caller EXCEPT ![p] =
                     [step |-> "waiting", n |-> triggers', hook |-> caller[p].hook,
                      failed |-> FALSE]]
    /\ UNCHANGED <<registry, retryQueue, worker, deliveries, settled, tried, answers>>

\* wg.Wait is over: every goroutine of this call has ended.
TriggerReturns(p) ==
    /\ caller[p].step = "waiting"
    /\ \A d \in delivering : ~(d.by = "trigger" /\ d.job.n = caller[p].n)
    /\ AnswerTest(p, caller[p].n, ~caller[p].failed)
    /\ caller' = [caller EXCEPT ![p] = Idle]
    /\ UNCHANGED <<registry, triggers, delivering, retryQueue, worker, deliveries,
                   settled, tried>>

----------------------------------------------------------------------------
(* deliver, in a goroutine of Trigger or in the worker *)

\* The call d of deliver returns, with an error unless ok.
Returns(d, ok) ==
    IF d.by = "worker"
    THEN worker' = Receiving /\ UNCHANGED caller
    ELSE /\ caller' = [p \in Callers |->
              IF caller[p].step = "waiting" /\ caller[p].n = d.job.n /\ ~ok
              THEN [step |-> "waiting", n |-> d.job.n, hook |-> caller[p].hook,
                    failed |-> TRUE]
              ELSE caller[p]]
         /\ UNCHANGED worker

Ends(d, ok) ==
    /\ delivering' = delivering \ {d}
    /\ Returns(d, ok)

\* No request can be built for the webhook's URL: no record and no retry.
Reject(d) ==
    /\ d.step = "starting"
    /\ d.job.hook \in Malformed
    /\ Ends(d, FALSE)
    /\ settled' = settled \cup {d.job}
    /\ UNCHANGED <<registry, triggers, retryQueue, deliveries, tried, answers>>

Post(d) ==
    /\ d.step = "starting"
    /\ d.job.hook \notin Malformed
    /\ delivering' = (delivering \ {d}) \cup
                     {[by |-> d.by, job |-> d.job, step |-> "posting"]}
    /\ tried' = tried \cup {d.job}
    /\ UNCHANGED <<registry, caller, triggers, retryQueue, worker, deliveries,
                   settled, answers>>

\* A 2xx answer is recorded, and the job is done.
Accepted(d) ==
    /\ d.step = "posting"
    /\ deliveries' = deliveries \cup {[job |-> d.job, ok |-> TRUE]}
    /\ settled' = settled \cup {d.job}
    /\ Ends(d, TRUE)
    /\ UNCHANGED <<registry, triggers, retryQueue, tried, answers>>

\* Another answer, no answer in time, or the end of the request context.
Failed(d) ==
    /\ d.step = "posting"
    /\ deliveries' = deliveries \cup {[job |-> d.job, ok |-> FALSE]}
    /\ IF Retryable
       THEN /\ delivering' = (delivering \ {d}) \cup
                             {[by |-> d.by, job |-> d.job, step |-> "queueing"]}
            /\ UNCHANGED <<caller, worker, settled>>
       ELSE /\ Ends(d, FALSE)
            /\ settled' = settled \cup {d.job}
    /\ UNCHANGED <<registry, triggers, retryQueue, tried, answers>>

\* Mutant: the queue has no bound.
EnqueueUnbounded(d) ==
    /\ d.step = "queueing"
    /\ retryQueue' = Append(retryQueue, d.job)
    /\ Ends(d, FALSE)
    /\ UNCHANGED <<registry, triggers, deliveries, settled, tried, answers>>

\* Mutant: a delivery that finds the queue full is discarded.
EnqueueOrDiscard(d) ==
    /\ d.step = "queueing"
    /\ retryQueue' = IF Len(retryQueue) < QueueCap THEN Append(retryQueue, d.job)
                     ELSE retryQueue
    /\ Ends(d, FALSE)
    /\ UNCHANGED <<registry, triggers, deliveries, settled, tried, answers>>

\* Mutant: a delivery that will be retried counts as a success.
EnqueueQuietly(d) ==
    /\ d.step = "queueing"
    /\ Len(retryQueue) < QueueCap
    /\ retryQueue' = Append(retryQueue, d.job)
    /\ Ends(d, TRUE)
    /\ UNCHANGED <<registry, triggers, deliveries, settled, tried, answers>>

\* The send on the retry queue, which blocks while the queue is full.
Enqueue(d) ==
    /\ d.step = "queueing"
    /\ Len(retryQueue) < QueueCap
    /\ retryQueue' = Append(retryQueue, d.job)
    /\ Ends(d, FALSE)
    /\ UNCHANGED <<registry, triggers, deliveries, settled, tried, answers>>

----------------------------------------------------------------------------
(* retryWorker *)

\* The worker takes a delivery off the queue and sleeps until it is due.
Take ==
    /\ worker = Receiving
    /\ retryQueue # <<>>
    /\ worker' = [step |-> "sleeping", job |-> Head(retryQueue)]
    /\ retryQueue' = Tail(retryQueue)
    /\ UNCHANGED <<registry, caller, triggers, delivering, deliveries, settled,
                   tried, answers>>

\* Mutant: a webhook that is no longer there ends the worker.
DropEndsWorker ==
    /\ worker.step = "sleeping"
    /\ ~(Registered(worker.job.hook) /\ settings[worker.job.hook].enabled)
    /\ settled' = settled \cup {worker.job}
    /\ worker' = [step |-> "ended"]
    /\ UNCHANGED <<registry, caller, triggers, delivering, retryQueue, deliveries,
                   tried, answers>>

\* Mutant: the worker drops a delivery whose webhook no longer wants the event.
DropUnwanted ==
    /\ worker.step = "sleeping"
    /\ ~Registered(worker.job.hook) \/ Success \notin settings[worker.job.hook].events
    /\ settled' = settled \cup {worker.job}
    /\ worker' = Receiving
    /\ UNCHANGED <<registry, caller, triggers, delivering, retryQueue, deliveries,
                   tried, answers>>

\* The webhook is still there and enabled: the worker delivers to it.
Retry ==
    /\ worker.step = "sleeping"
    /\ Registered(worker.job.hook)
    /\ settings[worker.job.hook].enabled
    /\ delivering' = delivering \cup
                     {[by |-> "worker", job |-> worker.job, step |-> "starting"]}
    /\ worker' = [step |-> "delivering"]
    /\ UNCHANGED <<registry, caller, triggers, retryQueue, deliveries, settled,
                   tried, answers>>

\* The webhook is gone or disabled.
Drop ==
    /\ worker.step = "sleeping"
    /\ ~(Registered(worker.job.hook) /\ settings[worker.job.hook].enabled)
    /\ settled' = settled \cup {worker.job}
    /\ worker' = Receiving
    /\ UNCHANGED <<registry, caller, triggers, delivering, retryQueue, deliveries,
                   tried, answers>>

----------------------------------------------------------------------------
RegistryStep ==
    \/ \E h \in Hooks, s \in Settings : RegisterWebhook(h, s)
    \/ \E h \in Hooks : UnregisterWebhook(h)

CallerStep(p) ==
    \/ \E h \in Hooks : UpdateRemoves(p, h) \/ Test(p, h)
    \/ \E h \in Hooks, s \in Settings : UpdateRegisters(p, h, s)
    \/ Announce(p)
    \/ TriggerFindsNone(p)
    \/ Trigger(p)
    \/ TriggerReturns(p)

DeliverStep(d) == Reject(d) \/ Post(d) \/ Accepted(d) \/ Failed(d) \/ Enqueue(d)

WorkerStep == Take \/ Retry \/ Drop

Next ==
    \/ RegistryStep
    \/ \E p \in Callers : CallerStep(p)
    \/ \E d \in delivering : DeliverStep(d)
    \/ WorkerStep

Spec == Init /\ [][Next]_vars

(***************************************************************************)
(* Fairness.  Goroutines run on; a request is over when the client's       *)
(* timeout is; the worker's sleep ends; senders blocked on a channel are   *)
(* served in order.                                                        *)
(***************************************************************************)
Fairness ==
    /\ \A j \in Jobs, by \in {"trigger", "worker"} :
          LET at(step) == [by |-> by, job |-> j, step |-> step]
              runs(step) == at(step) \in delivering
          IN /\ WF_vars(runs("starting") /\ (Reject(at("starting")) \/ Post(at("starting"))))
             /\ WF_vars(runs("posting") /\ (Accepted(at("posting")) \/ Failed(at("posting"))))
             /\ SF_vars(runs("queueing") /\ Enqueue(at("queueing")))
    /\ \A p \in Callers : WF_vars(TriggerReturns(p))
    /\ WF_vars(Take)
    /\ WF_vars(Retry \/ Drop)

FairSpec == Spec /\ Fairness

----------------------------------------------------------------------------
(* Properties *)

Queued(j) == \E i \in DOMAIN retryQueue : retryQueue[i] = j

CallerStates ==
    {Idle}
    \cup [step : {"updating"}, hook : Hooks]
    \cup [step : {"triggering"}, event : Events, hook : Hooks \cup {NoHook}]
    \cup [step : {"waiting"}, n : 1..MaxTriggers, hook : Hooks \cup {NoHook}, failed : BOOLEAN]

WorkerStates == {Receiving, [step |-> "delivering"]} \cup [step : {"sleeping"}, job : Jobs]

Calls == [by : {"trigger", "worker"}, job : Jobs, step : {"starting", "posting", "queueing"}]

\* Every variable stays within its type.
TypeOK ==
    /\ webhooks \in [Hooks -> {"new", "registered", "gone"}]
    /\ settings \in [Hooks -> Settings \cup {Unset}]
    /\ caller \in [Callers -> CallerStates]
    /\ triggers \in 0..MaxTriggers
    /\ delivering \subseteq Calls
    /\ retryQueue \in Seq(Jobs)
    /\ Len(retryQueue) <= QueueCap
    /\ worker \in WorkerStates
    /\ deliveries \subseteq [job : Jobs, ok : BOOLEAN]
    /\ settled \subseteq Jobs
    /\ tried \subseteq Jobs
    /\ answers \subseteq [n : 0..MaxTriggers, ok : BOOLEAN]

\* Where a job is: running, queued, in the hands of the sleeping worker, settled.
Places(j) ==
    {<<"running", d>> : d \in {d \in delivering : d.job = j}}
    \cup {<<"queued", i>> : i \in {i \in DOMAIN retryQueue : retryQueue[i] = j}}
    \cup {<<"sleeping", w>> : w \in {worker} \cap {[step |-> "sleeping", job |-> j]}}
    \cup {<<"settled", k>> : k \in settled \cap {j}}

\* From the first attempt on (webhook.go:200) a job is in exactly one place until
\* it has been accepted, rejected or dropped: a failed delivery is neither lost
\* nor queued twice by the worker and the call of deliver it makes, and an
\* accepted one is not sent again.
NoneLostOrDoubled ==
    \A j \in Jobs :
        /\ \A a, b \in Places(j) : a = b
        /\ j \in tried => Places(j) # {}

\* What Trigger returns is about this call (webhook.go:137-149): no error means
\* that every webhook of the snapshot has accepted, an error that one has not.
AnswersHonest ==
    \A a \in answers :
        LET sent == {j \in Jobs : j.n = a.n /\ (j \in tried \/ j \in settled)}
        IN IF a.ok THEN \A j \in sent : [job |-> j, ok |-> TRUE] \in deliveries
           ELSE \E j \in sent :
                  j.hook \in Malformed \/ [job |-> j, ok |-> FALSE] \in deliveries

\* The deliveries Trigger is waiting for on behalf of a caller.
Awaited(p) == {d \in delivering : d.by = "trigger" /\ d.job.n = caller[p].n}

CanMove(d) == d.step = "queueing" => Len(retryQueue) < QueueCap

WorkerCanMove ==
    \/ worker = Receiving /\ retryQueue # <<>>
    \/ worker.step = "sleeping"
    \/ \E d \in delivering : d.by = "worker" /\ CanMove(d)

\* The worker is in deliver, whose send waits for the worker (webhook.go:230).
WorkerStuck ==
    /\ worker = [step |-> "delivering"]
    /\ \E d \in delivering : d.by = "worker" /\ ~CanMove(d)

\* A trigger that cannot go on, all it waits for being blocked on the full queue, is
\* held up by the worker's send to itself and by nothing else: otherwise the worker is
\* there to make room, whatever became of the webhooks of the queued deliveries.
HeldUpByWorkerOnly ==
    \A p \in Callers :
        /\ caller[p].step = "waiting"
        /\ Awaited(p) # {}
        /\ \A d \in Awaited(p) : ~CanMove(d)
        => WorkerCanMove \/ WorkerStuck

----------------------------------------------------------------------------
(***************************************************************************)
(* The service implements the promise of DeliveryService.  A delivery is   *)
(* due as long as it is running, queued, or with the sleeping worker.      *)
(***************************************************************************)
Slept(j) == worker = [step |-> "sleeping", job |-> j]
Running(j) == \E d \in delivering : d.job = j
Taken(j) == [job |-> j, ok |-> TRUE] \in deliveries
Due(j) == Running(j) \/ Queued(j) \/ Slept(j)
Live == {h \in Hooks : Registered(h) /\ settings[h].enabled}

JobStatus ==
    [j \in Jobs |->
        IF Taken(j) THEN "accepted"
        ELSE IF j \in settled
        THEN IF j.hook \in Malformed THEN "rejected"
             ELSE IF Retryable THEN "dropped" ELSE "failed"
        ELSE IF Due(j) THEN "due"
        ELSE "none"]

Service == INSTANCE DeliveryService WITH
               Triggers <- 1..MaxTriggers,
               live <- Live,
               status <- JobStatus

\* Whoever tries a delivery, and however registrations, updates and removals come
\* between the attempts (webhook.go:126, webhook.go:274), it stays due until it ends,
\* it ends once, and it is dropped for no other reason than that its webhook is not
\* there, or not enabled, at that moment.
ImplementsDelivery == Service!Spec

\* webhook.go:265, "retryWorker processes failed webhook deliveries for retry":
\* no failed delivery stays in the queue for ever.
RetriesTaken == \A j \in Jobs : Queued(j) ~> ~Queued(j)

=============================================================================
