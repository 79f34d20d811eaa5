----------------------------- MODULE Changelog -----------------------------
(***************************************************************************)
(* Publishing a release: version.Manager keeps the changelog, without a    *)
(* lock, and changelognotify.Service tells the subscribers.  A publisher   *)
(* is the goroutine of one publish request at a time; it appends the       *)
(* release's entries one by one, takes a snapshot of the subscriptions     *)
(* under the read lock, goes through it outside the lock, in the order of  *)
(* a Go map, and at last waits for the webhook service.                    *)
(*                                                                         *)
(* append reads the slice and stores it back: two steps.  Slices may share *)
(* their array: of two entries stored in the same place of it the one      *)
(* stored last is the one that is there, in the slices read before too.    *)
(***************************************************************************)
EXTENDS Integers, Sequences, FiniteSets, SequencesExt

CONSTANTS
    Publishers,     \* goroutines that publish releases
    Subs,           \* subscription ids; clients may choose them
    Enabled,        \* changelog_notifications.enabled
    EmailEnabled,   \* changelog_notifications.email.enabled
    WebhooksEnabled,    \* the server has a webhook service
    InitialEntries, \* entries the process starts with (6 in the code)
    MaxReleases,    \* bound: releases
    Counts          \* bound: how many entries releases have

ASSUME FlagsAssumption == {Enabled, EmailEnabled, WebhooksEnabled} \subseteq BOOLEAN
ASSUME BoundsAssumption == InitialEntries \in Nat /\ MaxReleases \in Nat /\ Counts \subseteq Nat

VARIABLES
    released,       \* the releases so far
    changelog,      \* Manager.changelog
    subscriptions,  \* Service.subscriptions: the channels of a subscription
    publisher,      \* where a publisher is, and what it holds
    deliveries,     \* history: what was sent or failed, per release
    eligible,       \* history: who was subscribed at some time of a breaking release
    steady,         \* history: who was on which channel all the time of one
    overlapped,     \* history: the releases recorded while another one was
    notified        \* history: the releases of which everyone due has been told

vars == <<released, changelog, subscriptions, publisher, deliveries, eligible, steady,
          overlapped, notified>>

Releases == 1..MaxReleases
Channels == {"webhook", "email"}
Entry == [release : Releases \cup {0}, number : Nat]
Subscribed(s) == subscriptions[s] # {}

\* A snapshot holds the channels the subscriptions had.
Snapshots == [Subs -> SUBSET Channels]
Nobody == [s \in Subs |-> {}]
Idle == [step |-> "idle", release |-> 0, count |-> 0, breaking |-> FALSE, added |-> 0,
         seen |-> <<>>, to |-> Nobody]

\* The deliveries a snapshot stands for: no e-mail unless it is configured.
Due(to) == {d \in Subs \X Channels : d[2] \in to[d[1]] /\ (d[2] = "email" => EmailEnabled)}

Init ==
    /\ released = 0
    /\ changelog = [i \in 1..InitialEntries |-> [release |-> 0, number |-> i]]
    /\ subscriptions = Nobody
    /\ publisher = [p \in Publishers |-> Idle]
    /\ deliveries = [n \in Releases |-> <<>>]
    /\ eligible = [n \in Releases |-> {}]
    /\ steady = [n \in Releases |-> {}]
    /\ overlapped = {}
    /\ notified = {}

----------------------------------------------------------------------------
(* Subscriptions *)

\* A breaking release is on its way to the subscribers.
Running(n) ==
    \E p \in Publishers : /\ publisher[p].step \notin {"idle", "triggering"}
                          /\ publisher[p].breaking
                          /\ publisher[p].release = n

\* The subscription changes while breaking releases are on their way.
Unsettle(s) ==
    steady' = [n \in Releases |->
                  IF Running(n) THEN {d \in steady[n] : d[1] # s} ELSE steady[n]]

\* A request that names an id replaces the subscription of that id.
Subscribe(s, channels) ==
    /\ Enabled
    /\ channels # {}
    /\ subscriptions' = [subscriptions EXCEPT ![s] = channels]
    /\ eligible' = [n \in Releases |->
                        IF Running(n) THEN eligible[n] \cup {s} ELSE eligible[n]]
    /\ Unsettle(s)
    /\ UNCHANGED <<released, changelog, publisher, deliveries, overlapped, notified>>

Unsubscribe(s) ==
    /\ Subscribed(s)
    /\ subscriptions' = [subscriptions EXCEPT ![s] = {}]
    /\ Unsettle(s)
    /\ UNCHANGED <<released, changelog, publisher, deliveries,
                   eligible, overlapped, notified>>

----------------------------------------------------------------------------
(* PublishRelease *)

\* A publisher is in the loop over the entries of its release.
Adding(p) == publisher[p].step \in {"adding", "storing"}

Hold(p, state) == publisher' = [publisher EXCEPT ![p] = state]

\* A release of so many entries, of which one breaks or none does.
Publish(p, count, breaking) ==
    /\ publisher[p].step = "idle"
    /\ released < MaxReleases
    /\ breaking => count > 0
    /\ released' = released + 1
    /\ Hold(p, [Idle EXCEPT !.step = "adding", !.release = released', !.count = count,
                            !.breaking = breaking])
    /\ eligible' = [eligible EXCEPT ![released'] = {s \in Subs : breaking /\ Subscribed(s)}]
    /\ steady' = [steady EXCEPT ![released'] = {d \in Due(subscriptions) : breaking}]
    /\ LET others == {q \in Publishers \ {p} : Adding(q)}
       IN  overlapped' = overlapped \cup
               (IF others = {} THEN {}
                ELSE {released'} \cup {publisher[q].release : q \in others})
    /\ UNCHANGED <<changelog, subscriptions, deliveries, notified>>

\* Mutant: the loop over the entries goes one too far.
LoadOneMore(p) ==
    /\ publisher[p].step = "adding"
    /\ publisher[p].added <= publisher[p].count
    /\ Hold(p, [publisher[p] EXCEPT !.step = "storing", !.seen = changelog])
    /\ UNCHANGED <<released, changelog, subscriptions, deliveries, eligible,
                   steady, overlapped, notified>>

\* AddChangelogEntry, called for one entry after another, reads the slice ...
Load(p) ==
    /\ publisher[p].step = "adding"
    /\ publisher[p].added < publisher[p].count
    /\ Hold(p, [publisher[p] EXCEPT !.step = "storing", !.seen = changelog])
    /\ UNCHANGED <<released, changelog, subscriptions, deliveries, eligible,
                   steady, overlapped, notified>>

\* A slice is stored back with an entry in its next place.  That is the same place in the
\* slices others have read that are longer, if they are of the same array: the array they
\* had in common may have been full, and one of them have moved to a new one.
StoreBack(p, seen, added) ==
    /\ publisher[p].step = "storing"
    /\ LET entry == [release |-> publisher[p].release, number |-> publisher[p].added + 1]
           place == Len(seen) + 1
           stored == [publisher[p] EXCEPT !.step = "adding", !.added = added, !.seen = <<>>]
           longer == {q \in Publishers \ {p} : place \in DOMAIN publisher[q].seen}
       IN  /\ changelog' = Append(seen, entry)
           /\ \E sharing \in SUBSET longer :
                 publisher' = [q \in Publishers |->
                     IF q = p THEN stored
                     ELSE IF q \in sharing
                     THEN [publisher[q] EXCEPT !.seen = [@ EXCEPT ![place] = entry]]
                     ELSE publisher[q]]
    /\ UNCHANGED <<released, subscriptions, deliveries, eligible,
                   steady, overlapped, notified>>

\* Mutants: the loop over the entries does not advance; the entry takes the place of
\* the last one.
StoreAgain(p) == StoreBack(p, publisher[p].seen, publisher[p].added)
StoreOverLast(p) == StoreBack(p, Front(publisher[p].seen), publisher[p].added + 1)

\* ... and stores it back with the entry.
Store(p) == StoreBack(p, publisher[p].seen, publisher[p].added + 1)

AllAdded(p) == publisher[p].step = "adding" /\ publisher[p].added = publisher[p].count

\* The subscribers have been told.  A breaking release now goes to the webhook service,
\* if there is one; another one is done.
GoOn(p) ==
    /\ Hold(p, IF publisher[p].breaking /\ WebhooksEnabled
               THEN [publisher[p] EXCEPT !.step = "triggering"] ELSE Idle)
    /\ notified' = notified \cup {[release |-> publisher[p].release, count |-> publisher[p].count,
                                    breaking |-> publisher[p].breaking]}

\* No notification is due.
Skip(p) ==
    /\ AllAdded(p)
    /\ ~(Enabled /\ publisher[p].breaking)
    /\ GoOn(p)
    /\ UNCHANGED <<released, changelog, subscriptions, deliveries,
                   eligible, steady, overlapped>>

Snapshot(p) ==
    /\ AllAdded(p)
    /\ Enabled
    /\ publisher[p].breaking
    /\ Hold(p, [publisher[p] EXCEPT !.step = "sending", !.to = subscriptions])
    /\ UNCHANGED <<released, changelog, subscriptions, deliveries, eligible,
                   steady, overlapped, notified>>

Sent(p) == {<<deliveries[publisher[p].release][i].sub, deliveries[publisher[p].release][i].channel>> :
                i \in DOMAIN deliveries[publisher[p].release]}

\* The deliveries that may be next: one subscriber after another, its webhook first.
NextDue(p) ==
    LET left == Due(publisher[p].to) \ Sent(p)
        begun == {d \in left : \E e \in Sent(p) : e[1] = d[1]}
        first == {d \in left : d[2] = "webhook" \/ <<d[1], "webhook">> \notin left}
    IN  IF begun # {} THEN begun ELSE first

\* One webhook or e-mail, which succeeds or fails.
Deliver(p, channel, outcome) ==
    /\ publisher[p].step = "sending"
    /\ \E d \in NextDue(p) :
          /\ d[2] = channel
          /\ deliveries' = [deliveries EXCEPT ![publisher[p].release] =
                               Append(@, [sub |-> d[1], channel |-> channel, outcome |-> outcome])]
    /\ UNCHANGED <<released, changelog, subscriptions, publisher, eligible,
                   steady, overlapped, notified>>

\* Mutant: the loop ends at the first error.
ConcludeOnError(p) ==
    /\ publisher[p].step = "sending"
    /\ NextDue(p) = {} \/ \E i \in DOMAIN deliveries[publisher[p].release] :
                              deliveries[publisher[p].release][i].outcome = "failed"
    /\ GoOn(p)
    /\ UNCHANGED <<released, changelog, subscriptions, deliveries,
                   eligible, steady, overlapped>>

\* Mutant: a delivery that failed keeps the loop going.
ConcludeOnSuccess(p) ==
    /\ publisher[p].step = "sending"
    /\ NextDue(p) = {}
    /\ \A i \in DOMAIN deliveries[publisher[p].release] :
          deliveries[publisher[p].release][i].outcome = "sent"
    /\ GoOn(p)
    /\ UNCHANGED <<released, changelog, subscriptions, deliveries,
                   eligible, steady, overlapped>>

\* The end of the loop.
Conclude(p) ==
    /\ publisher[p].step = "sending"
    /\ NextDue(p) = {}
    /\ GoOn(p)
    /\ UNCHANGED <<released, changelog, subscriptions, deliveries,
                   eligible, steady, overlapped>>

\* Webhooks' Trigger returns, which it may never do: it waits for deliveries that may wait
\* for room in a retry queue nobody empties any more.
Triggered(p) ==
    /\ publisher[p].step = "triggering"
    /\ Hold(p, Idle)
    /\ UNCHANGED <<released, changelog, subscriptions, deliveries, eligible,
                   steady, overlapped, notified>>

Release(p) ==
    \/ \E count \in Counts, breaking \in BOOLEAN : Publish(p, count, breaking)
    \/ Load(p) \/ Store(p) \/ Skip(p) \/ Snapshot(p)
    \/ \E channel \in Channels, outcome \in {"sent", "failed"} : Deliver(p, channel, outcome)
    \/ Conclude(p) \/ Triggered(p)

Next ==
    \/ \E s \in Subs : Unsubscribe(s) \/ \E channels \in SUBSET Channels : Subscribe(s, channels)
    \/ \E p \in Publishers : Release(p)

Spec == Init /\ [][Next]_vars

\* A goroutine runs on and the client of the webhooks has a timeout.  smtp.SendMail
\* has none, and Trigger may wait for ever: nothing is assumed of an e-mail that is under
\* way, nor of Triggered.
FairSpec ==
    /\ Spec
    /\ \A p \in Publishers :
          WF_vars(\/ Load(p) \/ Store(p) \/ Skip(p) \/ Snapshot(p) \/ Conclude(p)
                  \/ \E outcome \in {"sent", "failed"} : Deliver(p, "webhook", outcome))

----------------------------------------------------------------------------
(* Properties *)

\* Every variable has its type.
TypeOK ==
    /\ released \in 0..MaxReleases
    /\ changelog \in Seq(Entry)
    /\ subscriptions \in Snapshots
    /\ publisher \in [Publishers ->
           [step : {"idle", "adding", "storing", "sending", "triggering"},
            release : Releases \cup {0}, count : Counts \cup {0}, breaking : BOOLEAN,
            added : Nat, seen : Seq(Entry), to : Snapshots]]
    /\ \A p \in Publishers : publisher[p].added <= publisher[p].count
    /\ deliveries \in [Releases ->
           Seq([sub : Subs, channel : Channels, outcome : {"sent", "failed"}])]
    /\ eligible \in [Releases -> SUBSET Subs] /\ steady \in [Releases -> SUBSET (Subs \X Channels)]
    /\ notified \subseteq [release : Releases, count : Counts \cup {0}, breaking : BOOLEAN]

Times(n, s, c) ==
    Cardinality({i \in DOMAIN deliveries[n] : deliveries[n][i].sub = s /\ deliveries[n][i].channel = c})

\* However subscriptions come and go while releases are published: nobody is told
\* of a release twice on a channel, or of one that breaks nothing; nobody is who was not
\* subscribed at any time from the request to the last subscriber's delivery, and one who
\* was on a channel all that time has been told there, whoever's delivery failed before.
ToldOnce ==
    /\ \A n \in Releases, s \in Subs, c \in Channels :
           Times(n, s, c) <= (IF s \in eligible[n] THEN 1 ELSE 0)
    /\ \A f \in notified : Enabled /\ f.breaking =>
           \A d \in steady[f.release] : Times(f.release, d[1], d[2]) = 1

\* The append of an entry is not protected, but it costs only releases recorded at the
\* same time: the entries of one that was alone in it are in the changelog, all of them,
\* one after another, and stay, whatever races later ones lose, and although the
\* subscribers of another may still be told or wait for ever.
AloneRecorded ==
    \A f \in notified : f.release \notin overlapped =>
        \E before \in 0..Len(changelog) :
            \A k \in 1..f.count :
                /\ before + k <= Len(changelog)
                /\ changelog[before + k] = [release |-> f.release, number |-> k]

\* However the appends of several releases meet, and whatever entries take the places of
\* others, no entry is in the changelog twice.
NothingTwice ==
    \A i, j \in DOMAIN changelog : changelog[i] = changelog[j] => i = j

\* A publisher may have sent its webhook and now waits for an e-mail to go out.
AtEmail(p) ==
    publisher[p].step = "sending" /\ \E d \in NextDue(p) : d[2] = "email"

\* Only a mail server or the webhook service can hold up a release that is being
\* published, and only a breaking one: it is done in the end, or comes to an e-mail or to
\* the call of Trigger, whatever subscribers' webhooks do.
PublishReturns ==
    \A p \in Publishers :
        publisher[p].step # "idle" ~>
            \/ publisher[p].step = "idle"
            \/ publisher[p].breaking /\ (AtEmail(p) \/ publisher[p].step = "triggering")

=============================================================================
