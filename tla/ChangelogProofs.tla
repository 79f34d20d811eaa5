-------------------------- MODULE ChangelogProofs ---------------------------
(***************************************************************************)
(* Proofs about Changelog, for every number of publishers, subscribers,    *)
(* releases and entries and either setting of the flags.                   *)
(***************************************************************************)
EXTENDS Changelog, FiniteSetTheorems, TLAPS

Steps == {"idle", "adding", "storing", "sending", "triggering"}
State == [step : Steps, release : Releases \cup {0}, count : Counts \cup {0}, breaking : BOOLEAN,
          added : Nat, seen : Seq(Entry), to : Snapshots]
Delivery == [sub : Subs, channel : Channels, outcome : {"sent", "failed"}]
Runs(p) == publisher[p].step # "idle"
NextEntry(p) == [release |-> publisher[p].release, number |-> publisher[p].added + 1]

LEMMA AppendFacts ==
    ASSUME NEW S, NEW s \in Seq(S), NEW e \in S
    PROVE  /\ Append(s, e) \in Seq(S) /\ Len(Append(s, e)) = Len(s) + 1
           /\ DOMAIN Append(s, e) = DOMAIN s \cup {Len(s) + 1}
           /\ Len(s) + 1 \notin DOMAIN s
           /\ \A i \in DOMAIN s : Append(s, e)[i] = s[i]
           /\ Append(s, e)[Len(s) + 1] = e
    OBVIOUS

\* An element of a sequence takes the place of another.
LEMMA ReplaceFacts ==
    ASSUME NEW S, NEW s \in Seq(S), NEW e \in S, NEW k \in DOMAIN s
    PROVE  /\ [s EXCEPT ![k] = e] \in Seq(S)
           /\ DOMAIN [s EXCEPT ![k] = e] = DOMAIN s
           /\ [s EXCEPT ![k] = e][k] = e
           /\ \A i \in DOMAIN s \ {k} : [s EXCEPT ![k] = e][i] = s[i]
    OBVIOUS

----------------------------------------------------------------------------
(* Types *)

\* What a step says about the rest of a publisher's state.
Placed(p) ==
    /\ Runs(p) => publisher[p].release \in 1..released
    /\ publisher[p].added <= publisher[p].count
    /\ publisher[p].step = "storing" => publisher[p].added < publisher[p].count
    /\ publisher[p].step \in {"sending", "triggering"} =>
           publisher[p].added = publisher[p].count /\ publisher[p].breaking

Typed ==
    /\ released \in 0..MaxReleases
    /\ changelog \in Seq(Entry)
    /\ subscriptions \in Snapshots
    /\ publisher \in [Publishers -> State]
    /\ deliveries \in [Releases -> Seq(Delivery)]
    /\ eligible \in [Releases -> SUBSET Subs]
    /\ steady \in [Releases -> SUBSET (Subs \X Channels)]
    /\ notified \subseteq [release : Releases, count : Counts \cup {0}, breaking : BOOLEAN]
    /\ \A p \in Publishers : Placed(p)

LEMMA DueType == ASSUME NEW to PROVE Due(to) \subseteq Subs \X Channels
BY DEF Due

LEMMA IdleType == Idle \in State /\ Nobody \in Snapshots
BY DEF Idle, State, Steps, Nobody, Snapshots

LEMMA EntryType ==
    ASSUME Typed, NEW p \in Publishers
    PROVE  NextEntry(p) \in Entry
BY DEF Typed, State, Entry, NextEntry

LEMMA CountTypes ==
    ASSUME NEW a \in State
    PROVE  a.count \in Nat /\ a.added \in Nat
<1>1. a.count \in Counts \cup {0} /\ a.added \in Nat
    BY DEF State
<1>2. \A n \in Counts \cup {0} : n \in Nat
    <2>1. 0 \in Nat
        OBVIOUS
    <2> QED BY <2>1, BoundsAssumption, Zenon
<1> QED BY <1>1, <1>2, Zenon

\* A step of the publisher p but for a store: the others are where they were.
LEMMA OnlyOne ==
    ASSUME Typed, NEW p \in Publishers, NEW state, Hold(p, state)
    PROVE  /\ publisher'[p] = state
           /\ \A q \in Publishers \ {p} : publisher'[q] = publisher[q]
           /\ state \in State => publisher' \in [Publishers -> State]
BY DEF Hold, Typed

\* Nothing of a publisher changes but, perhaps, an entry in the slice it has read.
Rests(q) ==
    LET a == publisher[q]
        b == publisher'[q]
    IN  /\ b.step = a.step /\ b.release = a.release /\ b.count = a.count
        /\ b.breaking = a.breaking /\ b.added = a.added /\ b.to = a.to

\* The slice of q has the entry of p in its place.
Overwritten(p, q) ==
    /\ Len(publisher[p].seen) + 1 \in DOMAIN publisher[q].seen
    /\ publisher'[q].seen =
           [publisher[q].seen EXCEPT ![Len(publisher[p].seen) + 1] = NextEntry(p)]

LEMMA StoreFacts ==
    ASSUME Typed, NEW p \in Publishers, Store(p)
    PROVE  /\ publisher[p].step = "storing" /\ publisher' \in [Publishers -> State]
           /\ changelog' = Append(publisher[p].seen, NextEntry(p))
           /\ publisher'[p].step = "adding" /\ publisher'[p].added = publisher[p].added + 1
           /\ publisher'[p].release = publisher[p].release
           /\ publisher'[p].count = publisher[p].count
           /\ publisher'[p].breaking = publisher[p].breaking
           /\ publisher'[p].seen = <<>>
           /\ \A q \in Publishers \ {p} :
                 Rests(q) /\ (publisher'[q].seen = publisher[q].seen \/ Overwritten(p, q))
<1> DEFINE entry == NextEntry(p)
           place == Len(publisher[p].seen) + 1
           stored == [publisher[p] EXCEPT !.step = "adding", !.added = publisher[p].added + 1,
                                          !.seen = <<>>]
           longer == {q \in Publishers \ {p} : place \in DOMAIN publisher[q].seen}
<1>1. /\ publisher[p].step = "storing"
      /\ changelog' = Append(publisher[p].seen, entry)
      /\ \E sharing \in SUBSET longer :
            publisher' = [q \in Publishers |->
                IF q = p THEN stored
                ELSE IF q \in sharing
                THEN [publisher[q] EXCEPT !.seen = [@ EXCEPT ![place] = entry]]
                ELSE publisher[q]]
    BY DEF Store, StoreBack, NextEntry
<1>2. PICK sharing \in SUBSET longer :
          publisher' = [q \in Publishers |->
              IF q = p THEN stored
              ELSE IF q \in sharing
              THEN [publisher[q] EXCEPT !.seen = [@ EXCEPT ![place] = entry]]
              ELSE publisher[q]]
    BY <1>1
<1>3. \A q \in Publishers : publisher[q] \in State
    BY DEF Typed
<1>4. entry \in Entry
    BY EntryType
<1>5. stored \in State
    <2>1. publisher[p].added + 1 \in Nat /\ <<>> \in Seq(Entry)
        BY <1>3 DEF State
    <2> QED BY <1>3, <2>1 DEF State, Steps
<1>6. publisher'[p] = stored
    BY <1>2
<1>7. ASSUME NEW q \in Publishers \ {p}
      PROVE  /\ publisher'[q] \in State /\ Rests(q)
             /\ publisher'[q].seen = publisher[q].seen \/ Overwritten(p, q)
    <2>1. CASE q \notin sharing
        <3>1. publisher'[q] = publisher[q]
            BY <1>2, <2>1
        <3> QED BY <1>3, <3>1 DEF Rests
    <2>2. CASE q \in sharing
        <3>1. publisher'[q] = [publisher[q] EXCEPT !.seen = [publisher[q].seen EXCEPT ![place] = entry]]
            BY <1>2, <2>2
        <3>2. place \in DOMAIN publisher[q].seen /\ publisher[q].seen \in Seq(Entry)
            BY <1>3, <2>2 DEF State
        <3> DEFINE s == [publisher[q].seen EXCEPT ![place] = entry]
        <3>3. s \in Seq(Entry)
            BY <1>4, <3>2, ReplaceFacts
        <3>4. publisher'[q] = [publisher[q] EXCEPT !.seen = s]
            BY <3>1
        <3>5. Overwritten(p, q) <=> publisher'[q].seen = s
            BY <3>2 DEF Overwritten
        <3> HIDE DEF s
        <3> QED BY <1>3, <3>3, <3>4, <3>5 DEF State, Rests
    <2> QED BY <2>1, <2>2
<1>8. publisher' \in [Publishers -> State]
    <2>1. \A q \in Publishers : publisher'[q] \in State
        BY <1>5, <1>6, <1>7
    <2>2. DOMAIN publisher' = Publishers /\ publisher' = [q \in DOMAIN publisher' |-> publisher'[q]]
        BY <1>2
    <2> QED BY <2>1, <2>2
<1>9. /\ stored.step = "adding" /\ stored.added = publisher[p].added + 1
      /\ stored.release = publisher[p].release /\ stored.count = publisher[p].count
      /\ stored.breaking = publisher[p].breaking /\ stored.seen = <<>>
    BY <1>3 DEF State
<1> QED BY <1>1, <1>6, <1>7, <1>8, <1>9

\* Where the publisher's own steps take it.
LEMMA OwnStep ==
    ASSUME Typed, NEW p \in Publishers, Release(p)
    PROVE  /\ \A q \in Publishers \ {p} : Rests(q) /\ (publisher'[q] = publisher[q] \/ Store(p))
           /\ publisher' \in [Publishers -> State]
           /\ \A count \in Counts, breaking \in BOOLEAN : Publish(p, count, breaking) =>
                 /\ publisher'[p].step = "adding" /\ publisher'[p].release = released'
                 /\ publisher'[p].count = count /\ publisher'[p].breaking = breaking
                 /\ publisher'[p].added = 0 /\ publisher'[p].seen = <<>>
           /\ Load(p) => publisher'[p].step = "storing" /\ publisher'[p].seen = changelog
           /\ Store(p) => publisher'[p].step = "adding"
           /\ Snapshot(p) => publisher'[p].step = "sending" /\ publisher'[p].to = subscriptions
           /\ Load(p) \/ Store(p) \/ Snapshot(p) =>
                 /\ publisher'[p].release = publisher[p].release
                 /\ publisher'[p].breaking = publisher[p].breaking
                 /\ publisher'[p].count = publisher[p].count
           /\ Load(p) \/ Snapshot(p) => publisher'[p].added = publisher[p].added
           /\ Skip(p) \/ Conclude(p) \/ Triggered(p) =>
                 \/ publisher'[p] = Idle
                 \/ /\ publisher'[p].step = "triggering" /\ publisher[p].breaking
                    /\ publisher'[p].release = publisher[p].release
                    /\ publisher'[p].breaking = publisher[p].breaking
                    /\ publisher'[p].count = publisher[p].count
                    /\ publisher'[p].added = publisher[p].added
                    /\ publisher'[p].seen = publisher[p].seen
<1>0. publisher[p] \in State /\ publisher \in [Publishers -> State] /\ changelog \in Seq(Entry)
      /\ subscriptions \in Snapshots
    BY DEF Typed
<1>1. ASSUME NEW state \in State, Hold(p, state)
      PROVE  /\ publisher'[p] = state /\ publisher' \in [Publishers -> State]
             /\ \A q \in Publishers \ {p} : publisher'[q] = publisher[q] /\ Rests(q)
    BY <1>1, OnlyOne DEF Rests
<1>2. ASSUME NEW count \in Counts, NEW breaking \in BOOLEAN, Publish(p, count, breaking)
      PROVE  /\ \A q \in Publishers \ {p} : publisher'[q] = publisher[q] /\ Rests(q)
             /\ publisher' \in [Publishers -> State]
             /\ publisher'[p].step = "adding" /\ publisher'[p].release = released'
             /\ publisher'[p].count = count /\ publisher'[p].breaking = breaking
             /\ publisher'[p].added = 0 /\ publisher'[p].seen = <<>>
    <2> DEFINE state == [Idle EXCEPT !.step = "adding", !.release = released', !.count = count,
                                     !.breaking = breaking]
    <2>1. released' \in Releases
        BY <1>2, BoundsAssumption DEF Publish, Typed, Releases
    <2>2. /\ state \in State /\ state.step = "adding" /\ state.release = released'
          /\ state.count = count /\ state.breaking = breaking /\ state.added = 0
          /\ state.seen = <<>>
        BY <2>1, IdleType DEF Idle, State, Steps
    <2>3. Hold(p, state)
        BY <1>2 DEF Publish
    <2> HIDE DEF state
    <2> QED BY <1>1, <2>2, <2>3
<1>3. ASSUME Load(p)
      PROVE  /\ \A q \in Publishers \ {p} : publisher'[q] = publisher[q] /\ Rests(q)
             /\ publisher' \in [Publishers -> State]
             /\ publisher'[p].step = "storing" /\ publisher'[p].seen = changelog
             /\ publisher'[p].release = publisher[p].release
             /\ publisher'[p].breaking = publisher[p].breaking
             /\ publisher'[p].count = publisher[p].count
             /\ publisher'[p].added = publisher[p].added
    <2> DEFINE state == [publisher[p] EXCEPT !.step = "storing", !.seen = changelog]
    <2>1. /\ state \in State /\ state.step = "storing" /\ state.seen = changelog
          /\ state.release = publisher[p].release /\ state.breaking = publisher[p].breaking
          /\ state.count = publisher[p].count /\ state.added = publisher[p].added
        BY <1>0 DEF State, Steps
    <2>2. Hold(p, state)
        BY <1>3 DEF Load
    <2> HIDE DEF state
    <2> QED BY <1>1, <2>1, <2>2
<1>4. ASSUME Snapshot(p)
      PROVE  /\ \A q \in Publishers \ {p} : publisher'[q] = publisher[q] /\ Rests(q)
             /\ publisher' \in [Publishers -> State]
             /\ publisher'[p].step = "sending" /\ publisher'[p].to = subscriptions
             /\ publisher'[p].release = publisher[p].release
             /\ publisher'[p].breaking = publisher[p].breaking
             /\ publisher'[p].count = publisher[p].count
             /\ publisher'[p].added = publisher[p].added
    <2> DEFINE state == [publisher[p] EXCEPT !.step = "sending", !.to = subscriptions]
    <2>1. /\ state \in State /\ state.step = "sending" /\ state.to = subscriptions
          /\ state.release = publisher[p].release /\ state.breaking = publisher[p].breaking
          /\ state.count = publisher[p].count /\ state.added = publisher[p].added
        BY <1>0 DEF State, Steps
    <2>2. Hold(p, state)
        BY <1>4 DEF Snapshot
    <2> HIDE DEF state
    <2> QED BY <1>1, <2>1, <2>2
<1>5. ASSUME Skip(p) \/ Conclude(p) \/ Triggered(p)
      PROVE  /\ \A q \in Publishers \ {p} : publisher'[q] = publisher[q] /\ Rests(q)
             /\ publisher' \in [Publishers -> State]
             /\ \/ publisher'[p] = Idle
                \/ /\ publisher'[p].step = "triggering" /\ publisher[p].breaking
                   /\ publisher'[p].release = publisher[p].release
                   /\ publisher'[p].breaking = publisher[p].breaking
                   /\ publisher'[p].count = publisher[p].count
                   /\ publisher'[p].added = publisher[p].added
                   /\ publisher'[p].seen = publisher[p].seen
    <2> DEFINE state == [publisher[p] EXCEPT !.step = "triggering"]
    <2>1. /\ state \in State /\ state.step = "triggering"
          /\ state.release = publisher[p].release /\ state.breaking = publisher[p].breaking
          /\ state.count = publisher[p].count /\ state.added = publisher[p].added
          /\ state.seen = publisher[p].seen
        BY <1>0 DEF State, Steps
    <2>2. Hold(p, Idle) \/ (Hold(p, state) /\ publisher[p].breaking)
        BY <1>5 DEF Skip, Conclude, Triggered, GoOn
    <2> HIDE DEF state
    <2> QED BY <1>1, <2>1, <2>2, IdleType
<1>6. ASSUME NEW channel \in Channels, NEW outcome \in {"sent", "failed"}, Deliver(p, channel, outcome)
      PROVE  /\ \A q \in Publishers \ {p} : publisher'[q] = publisher[q] /\ Rests(q)
             /\ publisher' \in [Publishers -> State]
    BY <1>0, <1>6 DEF Deliver, Rests
<1>7. Store(p) => /\ \A q \in Publishers \ {p} : Rests(q)
                  /\ publisher' \in [Publishers -> State] /\ publisher'[p].step = "adding"
                  /\ publisher'[p].release = publisher[p].release
                  /\ publisher'[p].breaking = publisher[p].breaking
                  /\ publisher'[p].count = publisher[p].count
    BY StoreFacts
<1>8. /\ \A q \in Publishers \ {p} : Rests(q) /\ (publisher'[q] = publisher[q] \/ Store(p))
      /\ publisher' \in [Publishers -> State]
    BY <1>2, <1>3, <1>4, <1>5, <1>6, <1>7 DEF Release
<1> QED BY <1>2, <1>3, <1>4, <1>5, <1>7, <1>8

LEMMA TypedInvariant == Spec => []Typed
<1> USE BoundsAssumption
<1>1. Init => Typed
    <2> SUFFICES ASSUME Init PROVE Typed
        OBVIOUS
    <2>1. changelog \in Seq(Entry)
        BY DEF Init, Entry
    <2>2. publisher \in [Publishers -> State] /\ subscriptions \in Snapshots
        BY IdleType DEF Init
    <2>3. \A p \in Publishers : Placed(p)
        BY DEF Init, Placed, Runs, Idle
    <2> QED BY <2>1, <2>2, <2>3 DEF Init, Typed
<1>2. Typed /\ [Next]_vars => Typed'
    <2> SUFFICES ASSUME Typed, [Next]_vars PROVE Typed'
        OBVIOUS
    <2>1. ASSUME NEW s \in Subs, NEW channels \in SUBSET Channels, Subscribe(s, channels) PROVE Typed'
        BY <2>1 DEF Subscribe, Unsettle, Typed, Snapshots, Placed, Runs
    <2>2. ASSUME NEW s \in Subs, Unsubscribe(s) PROVE Typed'
        BY <2>2 DEF Unsubscribe, Unsettle, Typed, Snapshots, Placed, Runs
    <2>3. ASSUME NEW p \in Publishers, Release(p),
                 released' \in released..MaxReleases, Placed(p)'
          PROVE  publisher' \in [Publishers -> State] /\ \A q \in Publishers : Placed(q)'
        <3>1. ASSUME NEW q \in Publishers \ {p} PROVE Placed(q)'
            <4>1. Rests(q) /\ Placed(q)
                BY <2>3, OwnStep DEF Typed
            <4>2. released \in Nat /\ released' \in Nat /\ released <= released'
                BY <2>3 DEF Typed
            <4> QED BY <4>1, <4>2 DEF Rests, Placed, Runs
        <3> QED BY <2>3, <3>1, OwnStep
    <2>4. ASSUME NEW p \in Publishers, NEW count \in Counts, NEW breaking \in BOOLEAN,
                 Publish(p, count, breaking)
          PROVE  Typed'
        <3>1. released' \in released..MaxReleases /\ released' \in 1..released' /\ released' \in Releases
              /\ Release(p)
            <4>1. released \in 0..MaxReleases /\ released < MaxReleases /\ released' = released + 1
                BY <2>4 DEF Publish, Typed
            <4>2. Release(p)
                BY <2>4 DEF Release
            <4> QED BY <4>1, <4>2 DEF Releases
        <3>2. /\ publisher'[p].step = "adding" /\ publisher'[p].release = released'
              /\ publisher'[p].count = count /\ publisher'[p].added = 0
            BY <2>4, <3>1, OwnStep
        <3>3. Placed(p)'
            BY <3>1, <3>2 DEF Placed
        <3>4. eligible' \in [Releases -> SUBSET Subs] /\ steady' \in [Releases -> SUBSET (Subs \X Channels)]
            BY <2>4, <3>1, DueType DEF Publish, Typed
        <3> QED BY <2>3, <2>4, <3>1, <3>3, <3>4 DEF Publish, Typed
    <2>5. ASSUME NEW p \in Publishers, Load(p) \/ Store(p) \/ Snapshot(p) PROVE Typed'
        <3>1. /\ Release(p) /\ Runs(p)
              /\ UNCHANGED <<released, subscriptions, deliveries, eligible, steady, notified>>
            BY <2>5 DEF Load, Store, StoreBack, Snapshot, AllAdded, Runs, Release
        <3>2. Placed(p) /\ publisher[p] \in State /\ released' \in released..MaxReleases
            BY <3>1 DEF Typed
        <3>3. Placed(p)'
            <4>1. CASE Load(p)
                BY <3>1, <3>2, <4>1, OwnStep DEF Load, Placed, Runs
            <4>2. CASE Snapshot(p)
                BY <3>1, <3>2, <4>2, OwnStep DEF Snapshot, AllAdded, Placed, Runs
            <4>3. CASE Store(p)
                <5>1. publisher[p].added + 1 <= publisher[p].count
                    <6>1. publisher[p].count \in Nat /\ publisher[p].added \in Nat
                        BY <3>2, CountTypes
                    <6>2. publisher[p].added < publisher[p].count
                        BY <3>2, <4>3, StoreFacts DEF Placed
                    <6> QED BY <6>1, <6>2
                <5> QED BY <3>1, <3>2, <4>3, <5>1, StoreFacts DEF Placed, Runs
            <4> QED BY <2>5, <4>1, <4>2, <4>3
        <3>4. changelog' \in Seq(Entry)
            <4>1. CASE Store(p)
                <5>1. publisher[p].seen \in Seq(Entry) /\ NextEntry(p) \in Entry
                    BY <3>2, EntryType DEF State
                <5>2. changelog' = Append(publisher[p].seen, NextEntry(p))
                    BY <4>1, StoreFacts
                <5> QED BY <5>1, <5>2, AppendFacts
            <4>2. CASE ~Store(p)
                BY <2>5, <4>2 DEF Load, Snapshot, Typed
            <4> QED BY <4>1, <4>2
        <3> QED BY <2>3, <3>1, <3>2, <3>3, <3>4 DEF Typed
    <2>6. ASSUME NEW p \in Publishers, Skip(p) \/ Conclude(p) \/ Triggered(p) PROVE Typed'
        <3>1. /\ Release(p) /\ Runs(p) /\ released' \in released..MaxReleases
              /\ UNCHANGED <<released, changelog, subscriptions, deliveries, eligible, steady>>
            BY <2>6 DEF Skip, Conclude, Triggered, AllAdded, Runs, Release, Typed
        <3>2. publisher[p] \in State /\ publisher[p].release \in Releases /\ Placed(p)
            BY <3>1 DEF Typed, Placed, Releases
        <3>3. notified' \subseteq [release : Releases, count : Counts \cup {0}, breaking : BOOLEAN]
            <4>1. [release |-> publisher[p].release, count |-> publisher[p].count,
                   breaking |-> publisher[p].breaking]
                      \in [release : Releases, count : Counts \cup {0}, breaking : BOOLEAN]
                BY <3>2 DEF State
            <4> QED BY <2>6, <4>1 DEF Skip, Conclude, Triggered, GoOn, Typed
        <3>4. Placed(p)'
            <4>1. publisher'[p] = Idle => Placed(p)'
                BY DEF Placed, Runs, Idle
            <4>2. CASE Triggered(p)
                BY <4>1, <4>2, OnlyOne DEF Triggered
            <4>3. CASE Skip(p) \/ Conclude(p)
                <5>1. publisher[p].added = publisher[p].count
                    BY <3>2, <4>3 DEF Skip, Conclude, AllAdded, Placed
                <5> QED BY <3>1, <3>2, <4>1, <4>3, <5>1, OwnStep DEF Placed, Runs
            <4> QED BY <2>6, <4>2, <4>3
        <3> QED BY <2>3, <3>1, <3>3, <3>4 DEF Typed
    <2>7. ASSUME NEW p \in Publishers, NEW channel \in Channels, NEW outcome \in {"sent", "failed"},
                 Deliver(p, channel, outcome)
          PROVE  Typed'
        <3> DEFINE n == publisher[p].release
        <3>1. PICK d \in Subs \X Channels : deliveries' = [deliveries EXCEPT ![n] =
                  Append(@, [sub |-> d[1], channel |-> channel, outcome |-> outcome])]
            BY <2>7 DEF Deliver, NextDue, Due
        <3>2. n \in Releases /\ deliveries[n] \in Seq(Delivery)
            BY <2>7 DEF Deliver, Typed, Placed, Runs, Releases
        <3>3. [sub |-> d[1], channel |-> channel, outcome |-> outcome] \in Delivery
            BY DEF Delivery
        <3>4. deliveries' \in [Releases -> Seq(Delivery)]
            BY <3>1, <3>2, <3>3, AppendFacts DEF Typed
        <3> QED BY <2>7, <3>4 DEF Deliver, Typed, Placed, Runs
    <2>8. CASE UNCHANGED vars
        BY <2>8 DEF vars, Typed, Placed, Runs
    <2> QED BY <2>1, <2>2, <2>4, <2>5, <2>6, <2>7, <2>8 DEF Next, Release
<1> QED BY <1>1, <1>2, PTL DEF Spec

\* Every variable has its type, and no publisher adds more entries than its release has.
THEOREM TypeCorrect == Spec => []TypeOK
<1>1. Typed => TypeOK
    BY DEF Typed, TypeOK, State, Steps, Delivery, Placed
<1> QED BY <1>1, TypedInvariant, PTL

----------------------------------------------------------------------------
(* One publisher for a release *)

Ended(n) == \E f \in notified : f.release = n

ReleaseInv ==
    /\ \A p, q \in Publishers : Runs(p) /\ Runs(q) /\ publisher[p].release = publisher[q].release => p = q
    /\ \A f \in notified : f.release \in 1..released
    /\ \A p \in Publishers :
           publisher[p].step \notin {"idle", "triggering"} => ~Ended(publisher[p].release)

LEMMA ReleaseInvariant == Spec => []ReleaseInv
<1>1. Init => ReleaseInv
    BY DEF Init, ReleaseInv, Runs, Idle
<1>2. Typed /\ ReleaseInv /\ [Next]_vars => ReleaseInv'
    <2> SUFFICES ASSUME Typed, ReleaseInv, [Next]_vars PROVE ReleaseInv'
        OBVIOUS
    <2>0. released \in Nat /\ \A p \in Publishers : Runs(p) => publisher[p].release \in 1..released
        BY BoundsAssumption DEF Typed, Placed
    <2>1. ASSUME NEW p \in Publishers, NEW count \in Counts, NEW breaking \in BOOLEAN,
                 Publish(p, count, breaking)
          PROVE  ReleaseInv'
        <3>0. Release(p) /\ ~Store(p)
            BY <2>1 DEF Release, Publish, Store, StoreBack
        <3>1. /\ released' = released + 1 /\ notified' = notified /\ publisher'[p].release = released + 1
              /\ \A q \in Publishers \ {p} : publisher'[q] = publisher[q]
            BY <2>1, <3>0, OwnStep DEF Publish
        <3>2. \A q \in Publishers \ {p} : Runs(q)' => Runs(q) /\ publisher'[q].release # released + 1
            BY <2>0, <3>1 DEF Runs
        <3>3. \A f \in notified : f.release # released + 1 /\ f.release \in 1..(released + 1)
            BY <2>0 DEF ReleaseInv
        <3> QED BY <3>1, <3>2, <3>3 DEF ReleaseInv, Ended
    <2>2. ASSUME NEW p \in Publishers, Skip(p) \/ Conclude(p) \/ Triggered(p) PROVE ReleaseInv'
        <3>1. /\ Release(p) /\ ~Store(p) /\ Runs(p) /\ released' = released
              /\ Triggered(p) => notified' = notified
              /\ \A f \in notified' : f \in notified \/ f.release = publisher[p].release
            BY <2>2 DEF Release, Skip, Conclude, Triggered, GoOn, AllAdded, Store, StoreBack, Runs
        <3>2. /\ \A q \in Publishers \ {p} : publisher'[q] = publisher[q]
              /\ publisher'[p].step \in {"idle", "triggering"}
              /\ Runs(p)' => publisher'[p].release = publisher[p].release
            BY <2>2, <3>1, OwnStep DEF Runs, Idle
        <3>3. \A a \in Publishers : Runs(a)' => Runs(a) /\ publisher'[a].release = publisher[a].release
            BY <3>1, <3>2 DEF Runs
        <3>4. \A f \in notified' : f.release \in 1..released'
            BY <2>0, <3>1 DEF ReleaseInv
        <3>5. ASSUME NEW q \in Publishers, publisher'[q].step \notin {"idle", "triggering"}
              PROVE  ~Ended(publisher[q].release)'
            <4>1. /\ q # p /\ publisher'[q] = publisher[q] /\ Runs(q)
                  /\ publisher[q].step \notin {"idle", "triggering"}
                BY <3>2, <3>5 DEF Runs
            <4>2. publisher[q].release # publisher[p].release /\ ~Ended(publisher[q].release)
                BY <3>1, <4>1 DEF ReleaseInv
            <4> QED BY <3>1, <4>1, <4>2 DEF Ended
        <3> QED BY <3>3, <3>4, <3>5 DEF ReleaseInv
    <2>3. ASSUME UNCHANGED <<released, notified>>,
                 \A q \in Publishers :
                    /\ Runs(q)' => Runs(q)
                    /\ publisher'[q].step \notin {"idle", "triggering"} =>
                           publisher[q].step \notin {"idle", "triggering"}
                    /\ publisher'[q].release = publisher[q].release
          PROVE  ReleaseInv'
        BY <2>3 DEF ReleaseInv, Ended
    <2>4. ASSUME NEW p \in Publishers, Load(p) \/ Store(p) \/ Snapshot(p) PROVE ReleaseInv'
        <3>1. /\ Release(p) /\ Runs(p) /\ UNCHANGED <<released, notified>>
              /\ publisher[p].step \notin {"idle", "triggering"}
            BY <2>4 DEF Load, Store, StoreBack, Snapshot, AllAdded, Runs, Release
        <3>2. publisher'[p].release = publisher[p].release /\ \A q \in Publishers \ {p} : Rests(q)
            BY <2>4, <3>1, OwnStep
        <3> QED BY <2>3, <3>1, <3>2 DEF Runs, Rests
    <2>5. ASSUME UNCHANGED <<released, notified, publisher>> PROVE ReleaseInv'
        BY <2>3, <2>5 DEF Runs
    <2> QED BY <2>1, <2>2, <2>4, <2>5 DEF Next, Release, Subscribe, Unsubscribe, Deliver, vars
<1> QED BY <1>1, <1>2, TypedInvariant, PTL DEF Spec

----------------------------------------------------------------------------
(* No entry twice *)

\* A slice that has no entry twice, and none a publisher has yet to add.
Sound(s, pub, rel) ==
    /\ \A i, j \in DOMAIN s : s[i] = s[j] => i = j
    /\ \A i \in DOMAIN s :
           /\ s[i].release <= rel
           /\ \A p \in Publishers : pub[p].step # "idle" /\ s[i].release = pub[p].release =>
                  s[i].number <= pub[p].added

\* What NothingTwice needs to be inductive: the slices publishers have read are sound too.
SoundInv ==
    /\ Sound(changelog, publisher, released)
    /\ \A q \in Publishers : Sound(publisher[q].seen, publisher, released)

LEMMA Numbers ==
    ASSUME Typed
    PROVE  /\ released \in Nat
           /\ \A p \in Publishers : /\ publisher[p].added \in Nat /\ publisher[p].seen \in Seq(Entry)
                                    /\ Runs(p) => publisher[p].release \in 1..released
           /\ \A s \in Seq(Entry) : \A i \in DOMAIN s : s[i] \in Entry
<1>1. released \in Nat
    BY BoundsAssumption DEF Typed
<1>2. \A S : \A s \in Seq(S) : \A i \in DOMAIN s : s[i] \in S
    OBVIOUS
<1>3. \A p \in Publishers : /\ publisher[p].added \in Nat /\ publisher[p].seen \in Seq(Entry)
                            /\ Runs(p) => publisher[p].release \in 1..released
    BY DEF Typed, State, Placed
<1> QED BY <1>1, <1>2, <1>3

\* A slice stays sound while others' releases go on, begin and end.
LEMMA StaysSound ==
    ASSUME Typed, NEW s \in Seq(Entry), Sound(s, publisher, released), released' \in Nat, released <= released',
           \A q \in Publishers : Runs(q)' =>
               \/ Runs(q) /\ publisher'[q].release = publisher[q].release
                  /\ publisher'[q].added \in Nat /\ publisher[q].added <= publisher'[q].added
               \/ publisher'[q].release > released /\ publisher'[q].release \in Nat
    PROVE  Sound(s, publisher', released')
<1>1. \A i, j \in DOMAIN s : s[i] = s[j] => i = j
    BY DEF Sound, Runs
<1>2. ASSUME NEW i \in DOMAIN s
      PROVE  /\ s[i].release <= released'
             /\ \A p \in Publishers : Runs(p)' /\ s[i].release = publisher'[p].release =>
                    s[i].number <= publisher'[p].added
    <2>1. s[i].release \in Nat /\ s[i].number \in Nat
        <3>1. s[i] \in Entry
            BY Numbers
        <3> QED BY <3>1 DEF Entry, Releases
    <2>2. s[i].release <= released
        BY DEF Sound, Runs
    <2>3. ASSUME NEW p \in Publishers, Runs(p)', s[i].release = publisher'[p].release
          PROVE  s[i].number <= publisher'[p].added
        <3>1. Runs(p) /\ publisher'[p].release = publisher[p].release
                  /\ publisher'[p].added \in Nat /\ publisher[p].added <= publisher'[p].added
            BY <2>1, <2>2, <2>3, Numbers
        <3>2. s[i].number <= publisher[p].added
            BY <2>3, <3>1 DEF Sound, Runs
        <3> QED BY <2>1, <3>1, <3>2, Numbers
    <2> QED BY <2>1, <2>2, <2>3, Numbers
<1> QED BY <1>1, <1>2 DEF Sound, Runs

\* The entry a publisher adds is in no sound slice, so that it may be put into one.
LEMMA NewEntry ==
    ASSUME Typed, ReleaseInv, NEW p \in Publishers, Store(p), NEW s \in Seq(Entry), Sound(s, publisher, released)
    PROVE  /\ Sound(s, publisher', released')
           /\ Sound(Append(s, NextEntry(p)), publisher', released')
           /\ \A k \in DOMAIN s : Sound([s EXCEPT ![k] = NextEntry(p)], publisher', released')
<1> DEFINE e == NextEntry(p)
<1>1. /\ released' = released /\ Runs(p)
      /\ publisher'[p].release = publisher[p].release /\ publisher'[p].added = publisher[p].added + 1
      /\ \A q \in Publishers \ {p} : Rests(q)
    BY StoreFacts DEF Store, StoreBack, Runs
<1>2. e \in Entry /\ e.release = publisher[p].release /\ e.number = publisher[p].added + 1
    BY EntryType DEF NextEntry
<1>3. \A q \in Publishers : publisher[q].added \in Nat
    BY Numbers
<1>4. Sound(s, publisher', released')
    BY <1>1, <1>3, StaysSound, Numbers DEF Runs, Rests
<1>5. \A i \in DOMAIN s : s[i] # e
    <2> SUFFICES ASSUME NEW i \in DOMAIN s, s[i] = e PROVE FALSE
        OBVIOUS
    <2>1. s[i].number <= publisher[p].added
        BY <1>1, <1>2 DEF Sound, Runs
    <2> QED BY <1>2, <1>3, <2>1
<1>6. /\ e.release <= released'
      /\ \A q \in Publishers : Runs(q)' /\ e.release = publisher'[q].release =>
             e.number <= publisher'[q].added
    <2>1. e.release <= released'
        BY <1>1, <1>2, Numbers
    <2>2. ASSUME NEW q \in Publishers, Runs(q)', e.release = publisher'[q].release
          PROVE  q = p
        BY <1>1, <1>2, <2>2 DEF ReleaseInv, Rests, Runs
    <2>3. e.number <= publisher'[p].added
        BY <1>1, <1>2, <1>3
    <2> QED BY <2>1, <2>2, <2>3
<1> HIDE DEF e
<1>7. ASSUME NEW t, NEW k, DOMAIN t \subseteq DOMAIN s \cup {k}, t[k] = e,
             \A i \in DOMAIN t \ {k} : i \in DOMAIN s /\ t[i] = s[i]
      PROVE  Sound(t, publisher', released')
    <2>1. \A i, j \in DOMAIN t : t[i] = t[j] => i = j
        <3> SUFFICES ASSUME NEW i \in DOMAIN t, NEW j \in DOMAIN t, t[i] = t[j] PROVE i = j
            OBVIOUS
        <3>1. CASE i = k \/ j = k
            BY <1>5, <1>7, <3>1
        <3>2. CASE i # k /\ j # k
            BY <1>7, <3>2 DEF Sound, Runs
        <3> QED BY <3>1, <3>2
    <2>2. \A i \in DOMAIN t : t[i] = e \/ (i \in DOMAIN s /\ t[i] = s[i])
        BY <1>7
    <2> QED BY <1>4, <1>6, <2>1, <2>2 DEF Sound, Runs
<1>8. Sound(Append(s, e), publisher', released')
    <2>1. /\ DOMAIN Append(s, e) = DOMAIN s \cup {Len(s) + 1}
          /\ \A i \in DOMAIN s : Append(s, e)[i] = s[i]
          /\ Append(s, e)[Len(s) + 1] = e
        BY <1>2, AppendFacts
    <2> QED BY <1>7, <2>1
<1>9. ASSUME NEW k \in DOMAIN s PROVE Sound([s EXCEPT ![k] = e], publisher', released')
    <2>1. /\ DOMAIN [s EXCEPT ![k] = e] = DOMAIN s
          /\ [s EXCEPT ![k] = e][k] = e
          /\ \A i \in DOMAIN s \ {k} : [s EXCEPT ![k] = e][i] = s[i]
        BY <1>2, ReplaceFacts
    <2> QED BY <1>7, <2>1
<1> QED BY <1>4, <1>8, <1>9 DEF e

LEMMA SoundInvariant == Spec => []SoundInv
<1>1. Init => SoundInv
    <2> SUFFICES ASSUME Init PROVE SoundInv
        OBVIOUS
    <2>1. \A p \in Publishers : ~Runs(p) /\ publisher[p].seen = <<>>
        BY DEF Init, Runs, Idle
    <2>2. Sound(changelog, publisher, released)
        BY <2>1, BoundsAssumption DEF Init, Sound, Runs
    <2>3. Sound(<<>>, publisher, released)
        BY DEF Sound, Runs
    <2> QED BY <2>1, <2>2, <2>3 DEF SoundInv
<1>2. Typed /\ ReleaseInv /\ SoundInv /\ [Next]_vars => SoundInv'
    <2> SUFFICES ASSUME Typed, ReleaseInv, SoundInv, [Next]_vars PROVE SoundInv'
        OBVIOUS
    <2>0. /\ changelog \in Seq(Entry) /\ \A q \in Publishers : publisher[q].seen \in Seq(Entry)
          /\ released \in Nat /\ \A q \in Publishers : publisher[q].added \in Nat
        BY Numbers DEF Typed
    <2>1. ASSUME released' \in Nat, released <= released',
                 \A q \in Publishers : Runs(q)' =>
                     \/ Runs(q) /\ publisher'[q].release = publisher[q].release
                        /\ publisher'[q].added = publisher[q].added
                     \/ publisher'[q].release > released /\ publisher'[q].release \in Nat,
                 changelog' = changelog,
                 \A q \in Publishers : publisher'[q].seen \in {publisher[q].seen, changelog, <<>>}
          PROVE  SoundInv'
        <3>1. ASSUME NEW s \in Seq(Entry), Sound(s, publisher, released) PROVE Sound(s, publisher', released')
            BY <2>0, <2>1, <3>1, StaysSound
        <3>2. Sound(<<>>, publisher', released')
            BY DEF Sound, Runs
        <3>3. Sound(changelog', publisher', released')
            BY <2>0, <2>1, <3>1 DEF SoundInv
        <3>4. ASSUME NEW q \in Publishers PROVE Sound(publisher'[q].seen, publisher', released')
            <4>1. CASE publisher'[q].seen = publisher[q].seen
                BY <2>0, <3>1, <4>1 DEF SoundInv
            <4>2. CASE publisher'[q].seen = changelog
                BY <2>1, <3>3, <4>2
            <4>3. CASE publisher'[q].seen = <<>>
                BY <3>2, <4>3
            <4> QED BY <2>1, <4>1, <4>2, <4>3
        <3> QED BY <3>3, <3>4 DEF SoundInv
    <2>2. ASSUME NEW p \in Publishers, NEW count \in Counts, NEW breaking \in BOOLEAN,
                 Publish(p, count, breaking)
          PROVE  SoundInv'
        <3>0. Release(p) /\ ~Store(p)
            BY <2>2 DEF Release, Publish, Store, StoreBack
        <3>1. /\ released' = released + 1 /\ changelog' = changelog
              /\ publisher'[p].release = released + 1 /\ publisher'[p].seen = <<>>
              /\ \A q \in Publishers \ {p} : publisher'[q] = publisher[q]
            BY <2>2, <3>0, OwnStep DEF Publish
        <3> QED BY <2>0, <2>1, <3>1 DEF Runs
    <2>3. ASSUME NEW p \in Publishers, Store(p) PROVE SoundInv'
        <3>1. ASSUME NEW s \in Seq(Entry), Sound(s, publisher, released)
              PROVE  /\ Sound(s, publisher', released') /\ Sound(Append(s, NextEntry(p)), publisher', released')
                     /\ \A k \in DOMAIN s : Sound([s EXCEPT ![k] = NextEntry(p)], publisher', released')
            BY <2>3, <3>1, NewEntry
        <3>2. /\ changelog' = Append(publisher[p].seen, NextEntry(p)) /\ publisher'[p].seen = <<>>
              /\ \A q \in Publishers \ {p} :
                    publisher'[q].seen = publisher[q].seen \/ Overwritten(p, q)
            BY <2>3, StoreFacts
        <3>3. \A q \in Publishers : Sound(publisher[q].seen, publisher, released)
            BY DEF SoundInv
        <3>4. Sound(changelog', publisher', released')
            <4>1. Sound(Append(publisher[p].seen, NextEntry(p)), publisher', released')
                BY <2>0, <3>1, <3>3
            <4>2. changelog' = Append(publisher[p].seen, NextEntry(p))
                BY <3>2
            <4> QED BY <4>1, <4>2
        <3>5. ASSUME NEW q \in Publishers \ {p} PROVE Sound(publisher'[q].seen, publisher', released')
            <4>1. CASE publisher'[q].seen = publisher[q].seen
                BY <2>0, <3>1, <3>3, <4>1
            <4>2. CASE Overwritten(p, q)
                <5> DEFINE k == Len(publisher[p].seen) + 1
                <5>1. Sound([publisher[q].seen EXCEPT ![k] = NextEntry(p)], publisher', released')
                    BY <2>0, <3>1, <3>3, <4>2 DEF Overwritten
                <5>2. publisher'[q].seen = [publisher[q].seen EXCEPT ![k] = NextEntry(p)]
                    BY <4>2 DEF Overwritten
                <5> QED BY <5>1, <5>2
            <4> QED BY <3>2, <4>1, <4>2
        <3>6. Sound(publisher'[p].seen, publisher', released')
            BY <3>2 DEF Sound, Runs
        <3> QED BY <3>4, <3>5, <3>6 DEF SoundInv
    <2>4. ASSUME NEW p \in Publishers,
                 Load(p) \/ Snapshot(p) \/ Skip(p) \/ Conclude(p) \/ Triggered(p)
          PROVE  SoundInv'
        <3>1. /\ Release(p) /\ ~Store(p) /\ Runs(p) /\ UNCHANGED <<released, changelog>>
            BY <2>4 DEF Release, Load, Snapshot, Skip, Conclude, Triggered, AllAdded, Store, StoreBack, Runs
        <3>2. /\ \A q \in Publishers \ {p} : publisher'[q] = publisher[q]
              /\ Runs(p)' => publisher'[p].release = publisher[p].release
                             /\ publisher'[p].added = publisher[p].added
              /\ publisher'[p].seen \in {publisher[p].seen, changelog, <<>>}
            <4>1. Snapshot(p) => publisher'[p].seen = publisher[p].seen
                BY DEF Snapshot, Hold, Typed, State
            <4> QED BY <2>4, <3>1, <4>1, OwnStep DEF Runs, Idle
        <3> QED BY <2>0, <2>1, <3>1, <3>2 DEF Runs
    <2>5. ASSUME UNCHANGED <<released, publisher, changelog>> PROVE SoundInv'
        BY <2>0, <2>1, <2>5 DEF Runs
    <2> QED BY <2>2, <2>3, <2>4, <2>5 DEF Next, Release, Subscribe, Unsubscribe, Deliver, vars
<1> QED BY <1>1, <1>2, TypedInvariant, ReleaseInvariant, PTL DEF Spec

\* However the appends of several releases meet, no entry is in the changelog twice.
THEOREM NeverTwice == Spec => []NothingTwice
<1>1. SoundInv => NothingTwice
    BY DEF SoundInv, Sound, NothingTwice
<1> QED BY <1>1, SoundInvariant, PTL

----------------------------------------------------------------------------
(* Releases published alone *)

Has(s, place, n, number) ==
    place \in DOMAIN s /\ s[place] = [release |-> n, number |-> number]

\* The first entries of a release stand one after another in the changelog and, at the
\* same places, in every slice that is about to be stored back.
Kept(n, before, count, log, pub) ==
    \A k \in 1..count :
        /\ Has(log, before + k, n, k)
        /\ \A q \in Publishers : pub[q].step = "storing" => Has(pub[q].seen, before + k, n, k)

\* What AloneRecorded needs to be inductive: what has been added of a release that has
\* met no other in its loop is kept; while it is being added it is at the end of the
\* changelog, and the slice that has been read is still the changelog.
Alone(p) == Runs(p) /\ publisher[p].release \notin overlapped
AtEnd(p, before) ==
    /\ publisher[p].step \in {"adding", "storing"} =>
           Len(changelog) = before + publisher[p].added
    /\ publisher[p].step = "storing" => publisher[p].seen = changelog
RecordInv ==
    /\ \A p, q \in Publishers : Adding(p) /\ Adding(q) /\ p # q => publisher[p].release \in overlapped
    /\ \A f \in notified : f.release \notin overlapped =>
          \E before \in Nat : Kept(f.release, before, f.count, changelog, publisher)
    /\ \A p \in Publishers : Alone(p) =>
          \E before \in Nat :
              Kept(publisher[p].release, before, publisher[p].added, changelog, publisher) /\ AtEnd(p, before)

\* An entry put behind those of a slice leaves what the slice has.
LEMMA HasMore ==
    ASSUME NEW s \in Seq(Entry), NEW e \in Entry, NEW place, NEW n, NEW k, Has(s, place, n, k)
    PROVE  /\ Has(Append(s, e), place, n, k)
           /\ place # Len(s) + 1
BY AppendFacts DEF Has

\* What is kept stays so while nothing is stored, and what is read has it too.
LEMMA KeptWhole ==
    ASSUME NEW n, NEW before, NEW count, Kept(n, before, count, changelog, publisher), changelog' = changelog,
           \A q \in Publishers : publisher'[q].step = "storing" =>
               \/ publisher[q].step = "storing" /\ publisher'[q].seen = publisher[q].seen
               \/ publisher'[q].seen = changelog
    PROVE  Kept(n, before, count, changelog', publisher')
BY DEF Kept

\* What is kept stays so when an entry is stored behind it, in other slices too.
LEMMA KeptInStore ==
    ASSUME Typed, NEW p \in Publishers, Store(p), NEW n, NEW before, NEW count, Kept(n, before, count, changelog, publisher)
    PROVE  Kept(n, before, count, changelog', publisher')
<1> SUFFICES ASSUME NEW k \in 1..count
             PROVE  /\ Has(changelog', before + k, n, k)
                    /\ \A q \in Publishers : publisher'[q].step = "storing" =>
                           Has(publisher'[q].seen, before + k, n, k)
    BY DEF Kept
<1>1. Has(publisher[p].seen, before + k, n, k)
    BY StoreFacts DEF Kept
<1>2. publisher[p].seen \in Seq(Entry) /\ NextEntry(p) \in Entry
    BY EntryType, Numbers
<1>3. Has(changelog', before + k, n, k)
    <2>1. Has(Append(publisher[p].seen, NextEntry(p)), before + k, n, k)
        BY <1>1, <1>2, HasMore
    <2> QED BY <2>1, StoreFacts
<1>4. ASSUME NEW q \in Publishers, publisher'[q].step = "storing"
      PROVE  Has(publisher'[q].seen, before + k, n, k)
    <2>1. /\ q # p /\ publisher[q].step = "storing"
          /\ publisher'[q].seen = publisher[q].seen \/ Overwritten(p, q)
        BY <1>4, StoreFacts DEF Rests
    <2>2. Has(publisher[q].seen, before + k, n, k)
        BY <2>1 DEF Kept
    <2>3. CASE Overwritten(p, q)
        <3>1. before + k # Len(publisher[p].seen) + 1
            BY <1>1, <1>2, HasMore
        <3>2. publisher[q].seen \in Seq(Entry)
            BY Numbers
        <3> QED BY <1>2, <2>2, <2>3, <3>1, <3>2, ReplaceFacts DEF Has, Overwritten
    <2> QED BY <2>1, <2>2, <2>3
<1> QED BY <1>3, <1>4

LEMMA RecordInvariant == Spec => []RecordInv
<1>1. Init => RecordInv
    BY DEF Init, RecordInv, Alone, Runs, Adding, Idle
<1>2. Typed /\ RecordInv /\ [Next]_vars => RecordInv'
    <2> SUFFICES ASSUME Typed, RecordInv, [Next]_vars PROVE RecordInv'
        OBVIOUS
    <2>1. ASSUME NEW p \in Publishers, NEW count \in Counts, NEW breaking \in BOOLEAN,
                 Publish(p, count, breaking)
          PROVE  RecordInv'
        <3>0. Release(p) /\ ~Store(p)
            BY <2>1 DEF Release, Publish, Store, StoreBack
        <3>1. /\ publisher'[p].step = "adding" /\ publisher'[p].release = released'
              /\ publisher'[p].added = 0
              /\ \A q \in Publishers \ {p} : publisher'[q] = publisher[q]
              /\ UNCHANGED <<changelog, notified>> /\ overlapped \subseteq overlapped'
            BY <2>1, <3>0, OwnStep DEF Publish
        <3>2. \A q \in Publishers \ {p} : Adding(q) =>
                  publisher[q].release \in overlapped' /\ released' \in overlapped'
            BY <2>1 DEF Publish
        <3>3. \A a, b \in Publishers : Adding(a)' /\ Adding(b)' /\ a # b => publisher'[a].release \in overlapped'
            BY <3>1, <3>2 DEF RecordInv, Adding
        <3>4. \A n, before, c : Kept(n, before, c, changelog, publisher) => Kept(n, before, c, changelog', publisher')
            BY <3>1 DEF Kept
        <3>5. \A f \in notified : f.release \notin overlapped' =>
                  \E before \in Nat : Kept(f.release, before, f.count, changelog', publisher')
            BY <3>1, <3>4 DEF RecordInv
        <3>6. ASSUME NEW q \in Publishers \ {p}, Alone(q)'
              PROVE  \E before \in Nat : Kept(publisher'[q].release, before, publisher'[q].added, changelog', publisher')
                                         /\ AtEnd(q, before)'
            <4>1. Alone(q) /\ publisher'[q] = publisher[q]
                BY <3>1, <3>6 DEF Alone, Runs
            <4>2. PICK before \in Nat : Kept(publisher[q].release, before, publisher[q].added, changelog, publisher)
                                       /\ AtEnd(q, before)
                BY <4>1 DEF RecordInv
            <4>3. AtEnd(q, before)'
                BY <3>1, <4>1, <4>2 DEF AtEnd
            <4> QED BY <3>4, <4>1, <4>2, <4>3
        <3>7. \E before \in Nat : Kept(publisher'[p].release, before, publisher'[p].added, changelog', publisher') /\ AtEnd(p, before)'
            <4> DEFINE b == Len(changelog)
            <4>1. b \in Nat /\ Kept(publisher'[p].release, b, publisher'[p].added, changelog', publisher')
                BY <3>1 DEF Typed, Kept
            <4>2. \A before \in Nat : before = b => AtEnd(p, before)'
                BY <3>1, <4>1 DEF AtEnd
            <4> HIDE DEF b
            <4> QED BY <4>1, <4>2
        <3> QED BY <3>1, <3>3, <3>5, <3>6, <3>7 DEF RecordInv
    <2>2. ASSUME NEW p \in Publishers, Store(p) PROVE RecordInv'
        <3>1. /\ Runs(p) /\ Adding(p) /\ UNCHANGED <<overlapped, notified>>
              /\ publisher'[p].step = "adding" /\ publisher'[p].release = publisher[p].release
              /\ publisher'[p].added = publisher[p].added + 1
              /\ \A q \in Publishers \ {p} : Rests(q)
            BY <2>2, StoreFacts DEF Store, StoreBack, Runs, Adding
        <3>2. \A q \in Publishers \ {p} : Alone(p) \/ Alone(q) => ~Adding(q)
            BY <3>1 DEF RecordInv, Alone
        <3>3. \A a, b \in Publishers : Adding(a)' /\ Adding(b)' /\ a # b => publisher'[a].release \in overlapped'
            BY <3>1 DEF RecordInv, Adding, Rests
        <3>4. \A n, before, c : Kept(n, before, c, changelog, publisher) => Kept(n, before, c, changelog', publisher')
            BY <2>2, KeptInStore
        <3>5. ASSUME NEW q \in Publishers \ {p}, Alone(q)'
              PROVE  \E before \in Nat : Kept(publisher'[q].release, before, publisher'[q].added, changelog', publisher')
                                         /\ AtEnd(q, before)'
            <4>1. /\ Alone(q) /\ publisher'[q].step = publisher[q].step
                  /\ publisher'[q].release = publisher[q].release
                  /\ publisher'[q].added = publisher[q].added
                BY <3>1, <3>5 DEF Alone, Runs, Rests
            <4>2. \A before \in Nat : AtEnd(q, before)'
                BY <3>2, <4>1 DEF AtEnd, Adding
            <4> QED BY <3>4, <4>1, <4>2 DEF RecordInv
        <3>6. ASSUME Alone(p)
              PROVE  \E before \in Nat : Kept(publisher'[p].release, before, publisher'[p].added, changelog', publisher')
                                         /\ AtEnd(p, before)'
            <4> DEFINE n == publisher[p].release
                       c == publisher[p].added
            <4>1. PICK before \in Nat : Kept(n, before, c, changelog, publisher) /\ AtEnd(p, before)
                BY <3>6 DEF RecordInv
            <4>2. publisher[p].seen = changelog /\ Len(changelog) = before + c
                BY <2>2, <4>1, StoreFacts DEF AtEnd
            <4>3. c \in Nat /\ changelog \in Seq(Entry) /\ NextEntry(p) \in Entry
                  /\ NextEntry(p) = [release |-> n, number |-> c + 1]
                BY EntryType, Numbers DEF Typed, NextEntry
            <4>4. changelog' = Append(changelog, NextEntry(p))
                BY <2>2, <4>2, StoreFacts
            <4>5. Len(changelog') = before + (c + 1) /\ Has(changelog', before + (c + 1), n, c + 1)
                BY <4>2, <4>3, <4>4, AppendFacts DEF Has
            <4>6. \A q \in Publishers : publisher'[q].step # "storing"
                BY <3>1, <3>2, <3>6 DEF Rests, Adding
            <4>7. \A k \in 1..(c + 1) : Has(changelog', before + k, n, k)
                <5>1. \A k \in 1..c : Has(changelog', before + k, n, k)
                    BY <3>4, <4>1 DEF Kept
                <5>2. \A k \in 1..(c + 1) : k \in 1..c \/ k = c + 1
                    BY <4>3
                <5> QED BY <4>5, <5>1, <5>2
            <4>8. Kept(publisher'[p].release, before, publisher'[p].added, changelog', publisher')
                <5>1. publisher'[p].release = n /\ publisher'[p].added = c + 1
                    BY <3>1
                <5> QED BY <4>6, <4>7, <5>1 DEF Kept
            <4>9. AtEnd(p, before)'
                BY <3>1, <4>5 DEF AtEnd
            <4> QED BY <4>8, <4>9
        <3> QED BY <3>1, <3>3, <3>4, <3>5, <3>6 DEF RecordInv, Alone, Runs
    <2>3. ASSUME NEW p \in Publishers,
                 Load(p) \/ Snapshot(p) \/ Skip(p) \/ Conclude(p) \/ Triggered(p)
          PROVE  RecordInv'
        <3>1. /\ Release(p) /\ ~Store(p) /\ Runs(p) /\ UNCHANGED <<overlapped, changelog>>
            BY <2>3 DEF Release, Load, Snapshot, Skip, Conclude, Triggered, AllAdded, Store, StoreBack, Runs
        <3>2. /\ \A q \in Publishers \ {p} : publisher'[q] = publisher[q]
              /\ Runs(p)' => publisher'[p].release = publisher[p].release
                             /\ publisher'[p].added = publisher[p].added
              /\ publisher'[p].step = "adding" => FALSE
              /\ publisher'[p].step = "storing" =>
                     publisher[p].step = "adding" /\ publisher'[p].seen = changelog
            <4>1. Load(p) => publisher[p].step = "adding"
                BY DEF Load
            <4> QED BY <2>3, <3>1, <4>1, OwnStep DEF Runs, Idle
        <3>3. \A a, b \in Publishers : Adding(a)' /\ Adding(b)' /\ a # b => publisher'[a].release \in overlapped'
            <4>1. \A a \in Publishers : Adding(a)' =>
                      Adding(a) /\ publisher'[a].release = publisher[a].release
                BY <3>2 DEF Adding, Runs
            <4> QED BY <3>1, <4>1 DEF RecordInv
        <3>4. \A n, before, c : Kept(n, before, c, changelog, publisher) => Kept(n, before, c, changelog', publisher')
            BY <3>1, <3>2, KeptWhole
        <3>5. \A q \in Publishers : Alone(q)' => Alone(q)
            BY <3>1, <3>2 DEF Alone, Runs
        <3>6. \A q \in Publishers, before \in Nat : Alone(q)' /\ AtEnd(q, before) => AtEnd(q, before)'
            BY <3>1, <3>2 DEF AtEnd, Alone, Runs
        <3>7. \A q \in Publishers : Alone(q)' =>
                  publisher'[q].release = publisher[q].release /\ publisher'[q].added = publisher[q].added
            BY <3>2 DEF Alone, Runs
        <3>8. \A f \in notified' : \/ f \in notified
                                   \/ /\ f.release = publisher[p].release
                                      /\ f.count = publisher[p].added
            BY <2>3 DEF Load, Snapshot, Skip, Conclude, Triggered, GoOn, AllAdded, Typed, Placed
        <3>9. ASSUME NEW f \in notified', f.release \notin overlapped
              PROVE  \E before \in Nat : Kept(f.release, before, f.count, changelog', publisher')
            <4>1. \E before \in Nat : Kept(f.release, before, f.count, changelog, publisher)
                BY <3>1, <3>8, <3>9 DEF RecordInv, Alone
            <4> QED BY <3>4, <4>1
        <3>10. ASSUME NEW q \in Publishers, Alone(q)'
               PROVE  \E before \in Nat : Kept(publisher'[q].release, before, publisher'[q].added, changelog', publisher')
                                          /\ AtEnd(q, before)'
            BY <3>4, <3>5, <3>6, <3>7, <3>10 DEF RecordInv
        <3> QED BY <3>1, <3>3, <3>9, <3>10 DEF RecordInv
    <2>4. ASSUME UNCHANGED <<publisher, changelog, notified, overlapped>> PROVE RecordInv'
        BY <2>4 DEF RecordInv, Runs, Adding, Alone, Kept, AtEnd
    <2> QED BY <2>1, <2>2, <2>3, <2>4 DEF Next, Release, Subscribe, Unsubscribe, Deliver, vars
<1> QED BY <1>1, <1>2, TypedInvariant, PTL DEF Spec

\* The entries of a release that met no other while it was recorded are in the
\* changelog for good, one after another, whatever entries the publishers of other
\* releases overwrite.
THEOREM AloneKept == Spec => []AloneRecorded
<1>1. Typed /\ RecordInv => AloneRecorded
    <2> SUFFICES ASSUME Typed, RecordInv, NEW f \in notified, f.release \notin overlapped
                 PROVE  \E before \in 0..Len(changelog) :
                            \A k \in 1..f.count :
                                /\ before + k <= Len(changelog)
                                /\ changelog[before + k] = [release |-> f.release, number |-> k]
        BY DEF AloneRecorded
    <2>1. PICK b \in Nat : Kept(f.release, b, f.count, changelog, publisher)
        BY DEF RecordInv
    <2>2. f.count \in Nat /\ Len(changelog) \in Nat /\ DOMAIN changelog = 1..Len(changelog)
        <3>1. f.count \in Counts \cup {0}
            BY DEF Typed
        <3>2. \A n \in Counts \cup {0} : n \in Nat
            <4>1. 0 \in Nat
                OBVIOUS
            <4> QED BY <4>1, BoundsAssumption, Zenon
        <3>3. f.count \in Nat
            BY <3>1, <3>2, Zenon
        <3> QED BY <3>3 DEF Typed
    <2>3. \A k \in 1..f.count :
              /\ b + k \in 1..Len(changelog)
              /\ changelog[b + k] = [release |-> f.release, number |-> k]
        BY <2>1, <2>2 DEF Kept, Has
    <2>4. CASE f.count = 0
        <3>1. 0 \in 0..Len(changelog)
            BY <2>2
        <3>2. 1..f.count = {}
            BY <2>4
        <3> QED BY <3>1, <3>2, Zenon
    <2>5. CASE f.count > 0
        <3>1. b \in 0..Len(changelog)
            <4>1. 1 \in 1..f.count
                BY <2>2, <2>5
            <4>2. b + 1 \in 1..Len(changelog)
                BY <2>3, <4>1
            <4> QED BY <2>2, <4>2
        <3>2. ASSUME NEW k \in 1..f.count PROVE b + k <= Len(changelog)
            <4>1. b + k \in 1..Len(changelog)
                BY <2>3
            <4> QED BY <2>2, <4>1
        <3> QED BY <2>3, <3>1, <3>2, Zenon
    <2>6. f.count = 0 \/ f.count > 0
        BY <2>2
    <2> QED BY <2>4, <2>5, <2>6
<1> QED BY <1>1, TypedInvariant, RecordInvariant, PTL

----------------------------------------------------------------------------
(* Who is told *)

Told(n) == {<<deliveries[n][i].sub, deliveries[n][i].channel>> : i \in DOMAIN deliveries[n]}

\* The publisher's breaking release is on its way to the subscribers.
Tells(p) == publisher[p].step \notin {"idle", "triggering"} /\ publisher[p].breaking

\* What ToldOnce needs to be inductive.  Between two releases and while one is on its
\* way: nothing is sent twice nor to a stranger; who is subscribed now, or in the
\* snapshot, is eligible, and who was on a channel all the time is due.
SentInv ==
    \A n \in Releases :
        /\ \A i, j \in DOMAIN deliveries[n] :
              deliveries[n][i].sub = deliveries[n][j].sub
                  /\ deliveries[n][i].channel = deliveries[n][j].channel => i = j
        /\ \A i \in DOMAIN deliveries[n] : deliveries[n][i].sub \in eligible[n]
        /\ n > released => deliveries[n] = <<>>
EligibleInv ==
    \A p \in Publishers : Tells(p) =>
        LET n == publisher[p].release
        IN  /\ \A s \in Subs : Subscribed(s) => s \in eligible[n]
            /\ publisher[p].step = "sending" =>
                  \A d \in Due(publisher[p].to) : d[1] \in eligible[n]
SteadyInv ==
    /\ \A p \in Publishers : Tells(p) =>
          steady[publisher[p].release] \subseteq
              Due(IF publisher[p].step = "sending" THEN publisher[p].to ELSE subscriptions)
    /\ \A f \in notified : Enabled /\ f.breaking => steady[f.release] \subseteq Told(f.release)

\* The loop ends when everyone in the snapshot has been told.
LEMMA NobodyLeft ==
    ASSUME NEW p \in Publishers, NextDue(p) = {}
    PROVE  Due(publisher[p].to) \subseteq Sent(p)
<1> DEFINE left == Due(publisher[p].to) \ Sent(p)
           first == {d \in left : d[2] = "webhook" \/ <<d[1], "webhook">> \notin left}
           begun == {d \in left : \E e \in Sent(p) : e[1] = d[1]}
<1>1. NextDue(p) = IF begun # {} THEN begun ELSE first
    BY DEF NextDue
<1>2. first = {}
    <2> HIDE DEF first, begun
    <2> QED BY <1>1
<1>3. ASSUME NEW d \in left PROVE FALSE
    <2>1. <<d[1], "webhook">> \in left
        BY <1>2, <1>3
    <2> HIDE DEF left
    <2>2. <<d[1], "webhook">> \in first
        BY <2>1
    <2> QED BY <1>2, <2>2
<1> QED BY <1>3

\* What is sent next is due and has not been sent.
LEMMA NextIsDue ==
    ASSUME NEW p \in Publishers, NEW d \in NextDue(p)
    PROVE  d \in Due(publisher[p].to) /\ d \notin Sent(p)
BY DEF NextDue

\* A change of a subscription takes its subscriber out of what is steady.
LEMMA Unsettled ==
    ASSUME Typed, NEW s \in Subs, NEW channels \in SUBSET Channels, Unsettle(s),
           subscriptions' = [subscriptions EXCEPT ![s] = channels],
           NEW n \in Releases
    PROVE  /\ steady'[n] \subseteq steady[n]
           /\ ~Running(n) => steady'[n] = steady[n]
           /\ Running(n) /\ steady[n] \subseteq Due(subscriptions) =>
                 steady'[n] \subseteq Due(subscriptions')
<1>1. steady'[n] = IF Running(n) THEN {d \in steady[n] : d[1] # s} ELSE steady[n]
    BY DEF Unsettle
<1>2. ASSUME Running(n), steady[n] \subseteq Due(subscriptions), NEW d \in steady'[n]
      PROVE  d \in Due(subscriptions')
    <2>1. d \in Due(subscriptions) /\ d[1] # s /\ d[1] \in Subs
        BY <1>1, <1>2 DEF Due
    <2>2. subscriptions'[d[1]] = subscriptions[d[1]]
        BY <2>1 DEF Typed, Snapshots
    <2> QED BY <2>1, <2>2 DEF Due
<1> QED BY <1>1, <1>2

LEMMA RunningRelease ==
    ASSUME Typed, ReleaseInv
    PROVE  /\ \A p \in Publishers : Runs(p) =>
                 publisher[p].release \in Releases /\ publisher[p].release \in 1..released
           /\ \A p \in Publishers : Tells(p) => Runs(p) /\ Running(publisher[p].release)
           /\ \A f \in notified : f.release \in Releases /\ ~Running(f.release)
<1>1. \A n \in 1..released : n \in Releases
    BY BoundsAssumption DEF Typed, Releases
<1>2. \A p \in Publishers : Tells(p) => Runs(p) /\ Running(publisher[p].release)
    BY DEF Tells, Runs, Running
<1>3. \A f \in notified : f.release \in 1..released /\ ~Running(f.release)
    BY DEF ReleaseInv, Ended, Running
<1>4. \A p \in Publishers : Runs(p) => publisher[p].release \in 1..released
    BY DEF Typed, Placed
<1> QED BY <1>1, <1>2, <1>3, <1>4

\* A step of p, which was running, but for a store: what the others tell stays, and what p
\* tells is what it told.
LEMMA TellsOn ==
    ASSUME Typed, NEW p \in Publishers,
           Load(p) \/ Store(p) \/ Snapshot(p) \/ Skip(p) \/ Conclude(p) \/ Triggered(p)
    PROVE  /\ UNCHANGED <<released, deliveries, eligible, steady, subscriptions>> /\ Runs(p)
           /\ \A q \in Publishers \ {p} : Rests(q)
           /\ Tells(p)' => /\ Tells(p) /\ publisher[p].step # "sending"
                           /\ publisher'[p].release = publisher[p].release
           /\ publisher'[p].step = "sending" => publisher'[p].to = subscriptions
<1>1. /\ Release(p) /\ Runs(p) /\ UNCHANGED <<released, deliveries, eligible, steady, subscriptions>>
      /\ Load(p) \/ Store(p) \/ Snapshot(p) => publisher[p].step \in {"adding", "storing"}
    BY DEF Load, Store, StoreBack, Snapshot, Skip, Conclude, Triggered, AllAdded, Release, Runs
<1> QED BY <1>1, OwnStep DEF Tells, Idle

\* A delivery that differs from the others leaves them all different.
LEMMA StaysDistinct ==
    ASSUME NEW s \in Seq(Delivery), NEW e \in Delivery,
           \A i, j \in DOMAIN s : s[i].sub = s[j].sub /\ s[i].channel = s[j].channel => i = j,
           \A i \in DOMAIN s : ~(s[i].sub = e.sub /\ s[i].channel = e.channel)
    PROVE  \A i, j \in DOMAIN Append(s, e) :
              Append(s, e)[i].sub = Append(s, e)[j].sub
                  /\ Append(s, e)[i].channel = Append(s, e)[j].channel => i = j
<1> DEFINE t == Append(s, e)
           k == Len(s) + 1
<1>1. \A i \in DOMAIN t : i = k \/ (i \in DOMAIN s /\ t[i] = s[i])
    BY AppendFacts
<1>2. t[k] = e
    BY AppendFacts
<1> HIDE DEF t, k
<1>3. ASSUME NEW i \in DOMAIN t, NEW j \in DOMAIN t, t[i].sub = t[j].sub, t[i].channel = t[j].channel
      PROVE  i = j
    <2>1. CASE i = k \/ j = k
        BY <1>1, <1>2, <1>3, <2>1
    <2>2. CASE i # k /\ j # k
        BY <1>1, <1>3, <2>2
    <2> QED BY <2>1, <2>2
<1> QED BY <1>3 DEF t

LEMMA SentInvariant == Spec => [](SentInv /\ EligibleInv)
<1>1. Init => SentInv /\ EligibleInv
    BY DEF Init, SentInv, EligibleInv, Tells, Idle
<1>2. Typed /\ ReleaseInv /\ SentInv /\ EligibleInv /\ [Next]_vars => (SentInv /\ EligibleInv)'
    <2> SUFFICES ASSUME Typed, ReleaseInv, SentInv, EligibleInv, [Next]_vars
                 PROVE  SentInv' /\ EligibleInv'
        OBVIOUS
    <2>0. /\ \A p \in Publishers : Runs(p) =>
                publisher[p].release \in 1..released /\ publisher[p].release \in Releases
          /\ released \in Nat
        BY RunningRelease, BoundsAssumption DEF Typed
    <2>1. ASSUME NEW s \in Subs, NEW channels \in SUBSET Channels, Subscribe(s, channels)
          PROVE  SentInv' /\ EligibleInv'
        <3>1. /\ UNCHANGED <<publisher, deliveries, released>>
              /\ \A n \in Releases : /\ eligible[n] \subseteq eligible'[n]
                                     /\ Running(n) => s \in eligible'[n]
              /\ \A t \in Subs \ {s} : subscriptions'[t] = subscriptions[t]
            BY <2>1 DEF Subscribe, Typed, Snapshots
        <3>2. SentInv'
            BY <3>1 DEF SentInv
        <3>3. ASSUME NEW p \in Publishers, Tells(p)
              PROVE  /\ \A t \in Subs : Subscribed(t)' => t \in eligible'[publisher[p].release]
                     /\ publisher[p].step = "sending" =>
                           \A d \in Due(publisher[p].to) : d[1] \in eligible'[publisher[p].release]
            <4>1. publisher[p].release \in Releases /\ Running(publisher[p].release)
                BY <3>3, RunningRelease
            <4> QED BY <3>1, <3>3, <4>1 DEF EligibleInv, Subscribed
        <3> QED BY <3>1, <3>2, <3>3 DEF EligibleInv, Tells
    <2>2. ASSUME NEW s \in Subs, Unsubscribe(s) PROVE SentInv' /\ EligibleInv'
        <3>1. /\ UNCHANGED <<publisher, deliveries, released, eligible>>
              /\ \A t \in Subs : Subscribed(t)' => Subscribed(t)
            BY <2>2 DEF Unsubscribe, Subscribed, Typed, Snapshots
        <3> QED BY <3>1 DEF SentInv, EligibleInv, Tells
    <2>3. ASSUME NEW p \in Publishers, NEW count \in Counts, NEW breaking \in BOOLEAN,
                 Publish(p, count, breaking)
          PROVE  SentInv' /\ EligibleInv'
        <3>1. /\ released' = released + 1 /\ released' \in Releases
              /\ UNCHANGED <<deliveries, subscriptions>>
              /\ eligible'[released'] = {s \in Subs : breaking /\ Subscribed(s)}
              /\ \A n \in Releases \ {released'} : eligible'[n] = eligible[n]
            <4>1. released' = released + 1 /\ released' \in Releases
                BY <2>0, <2>3, BoundsAssumption DEF Publish, Releases
            <4>2. eligible' = [eligible EXCEPT ![released'] = {s \in Subs : breaking /\ Subscribed(s)}]
                BY <2>3 DEF Publish
            <4> QED BY <2>3, <4>1, <4>2 DEF Publish, Typed
        <3>2. /\ publisher'[p].step = "adding" /\ publisher'[p].release = released'
              /\ publisher'[p].breaking = breaking
              /\ \A q \in Publishers \ {p} : Rests(q)
            <4>1. Release(p)
                BY <2>3 DEF Release
            <4> QED BY <2>3, <4>1, OwnStep
        <3>3. deliveries[released'] = <<>>
            BY <2>0, <3>1 DEF SentInv
        <3>4. SentInv'
            BY <2>0, <3>1, <3>3 DEF SentInv, Releases
        <3>5. ASSUME NEW q \in Publishers \ {p}, Tells(q)
              PROVE  publisher[q].release \in Releases \ {released'}
            BY <2>0, <3>1, <3>5, RunningRelease
        <3>6. \A s \in Subs : Subscribed(s)' <=> Subscribed(s)
            BY <3>1 DEF Subscribed
        <3>7. ASSUME Tells(p)'
              PROVE  \A s \in Subs : Subscribed(s)' => s \in eligible'[publisher'[p].release]
            BY <3>1, <3>2, <3>6, <3>7 DEF Tells
        <3>8. ASSUME NEW q \in Publishers \ {p}, Tells(q)'
              PROVE  /\ \A s \in Subs : Subscribed(s)' => s \in eligible'[publisher'[q].release]
                     /\ publisher'[q].step = "sending" =>
                           \A d \in Due(publisher'[q].to) : d[1] \in eligible'[publisher'[q].release]
            <4>1. Tells(q) /\ Rests(q)
                BY <3>2, <3>8 DEF Tells, Rests
            <4>2. eligible'[publisher'[q].release] = eligible[publisher[q].release]
                BY <3>1, <3>5, <4>1 DEF Rests
            <4> QED BY <3>6, <4>1, <4>2 DEF EligibleInv, Rests
        <3> QED BY <3>2, <3>4, <3>7, <3>8 DEF EligibleInv
    <2>4. ASSUME NEW p \in Publishers,
                 Load(p) \/ Store(p) \/ Snapshot(p) \/ Skip(p) \/ Conclude(p) \/ Triggered(p)
          PROVE  SentInv' /\ EligibleInv'
        <3>1. /\ UNCHANGED <<released, deliveries, eligible, subscriptions>>
              /\ \A q \in Publishers \ {p} : Rests(q)
              /\ Tells(p)' => /\ Tells(p) /\ publisher[p].step # "sending"
                              /\ publisher'[p].release = publisher[p].release
              /\ publisher'[p].step = "sending" => publisher'[p].to = subscriptions
            BY <2>4, TellsOn
        <3>2. \A s \in Subs : Tells(p) /\ Subscribed(s) => s \in eligible[publisher[p].release]
            BY DEF EligibleInv
        <3>3. \A d \in Due(subscriptions) : d[1] \in Subs /\ Subscribed(d[1])
            BY DEF Due, Subscribed
        <3>4. SentInv'
            BY <3>1 DEF SentInv
        <3> QED BY <3>1, <3>2, <3>3, <3>4 DEF EligibleInv, Tells, Rests, Subscribed
    <2>5. ASSUME NEW p \in Publishers, NEW channel \in Channels, NEW outcome \in {"sent", "failed"},
                 Deliver(p, channel, outcome)
          PROVE  SentInv' /\ EligibleInv'
        <3> DEFINE n == publisher[p].release
        <3>1. /\ UNCHANGED <<released, publisher, eligible, subscriptions>>
              /\ publisher[p].step = "sending" /\ Runs(p) /\ Tells(p)
            BY <2>5 DEF Deliver, Runs, Tells, Typed, Placed
        <3>2. PICK d \in NextDue(p) :
                  /\ d[2] = channel
                  /\ deliveries' = [deliveries EXCEPT ![n] =
                         Append(@, [sub |-> d[1], channel |-> channel, outcome |-> outcome])]
            BY <2>5 DEF Deliver
        <3> DEFINE e == [sub |-> d[1], channel |-> channel, outcome |-> outcome]
        <3>3. /\ d \in Due(publisher[p].to) /\ d \notin Sent(p) /\ d = <<d[1], channel>>
              /\ e \in Delivery /\ e.sub = d[1] /\ e.channel = channel
            BY <3>2, NextIsDue DEF Due, Delivery
        <3>4. n \in Releases /\ n \in 1..released /\ deliveries[n] \in Seq(Delivery)
            BY <2>0, <3>1 DEF Typed
        <3>5. deliveries'[n] = Append(deliveries[n], e) /\ \A m \in Releases \ {n} : deliveries'[m] = deliveries[m]
            BY <3>2, <3>4 DEF Typed
        <3>6. e.sub \in eligible[n]
            BY <3>1, <3>3 DEF EligibleInv
        <3>7. \A i \in DOMAIN deliveries[n] :
                  ~(deliveries[n][i].sub = e.sub /\ deliveries[n][i].channel = e.channel)
            BY <3>3 DEF Sent
        <3> HIDE DEF e
        <3>8. /\ DOMAIN deliveries'[n] = DOMAIN deliveries[n] \cup {Len(deliveries[n]) + 1}
              /\ \A i \in DOMAIN deliveries[n] : deliveries'[n][i] = deliveries[n][i]
              /\ deliveries'[n][Len(deliveries[n]) + 1] = e
            BY ONLY <3>3, <3>4, <3>5, AppendFacts
        <3>9. SentInv'
            <4> SUFFICES ASSUME NEW m \in Releases
                         PROVE  /\ \A i, j \in DOMAIN deliveries'[m] :
                                      deliveries'[m][i].sub = deliveries'[m][j].sub
                                          /\ deliveries'[m][i].channel = deliveries'[m][j].channel => i = j
                                /\ \A i \in DOMAIN deliveries'[m] : deliveries'[m][i].sub \in eligible[m]
                                /\ m > released => deliveries'[m] = <<>>
                BY <3>1 DEF SentInv
            <4> HIDE DEF n
            <4>1. CASE m # n
                BY <3>5, <4>1 DEF SentInv
            <4>2. CASE m = n
                <5>1. \A i \in DOMAIN deliveries'[n] :
                          i = Len(deliveries[n]) + 1 \/ (i \in DOMAIN deliveries[n] /\ deliveries'[n][i] = deliveries[n][i])
                    BY <3>8
                <5>2. ~(n > released)
                    BY <2>0, <3>4
                <5>3. \A i, j \in DOMAIN deliveries'[n] :
                          deliveries'[n][i].sub = deliveries'[n][j].sub
                              /\ deliveries'[n][i].channel = deliveries'[n][j].channel => i = j
                    BY <3>3, <3>4, <3>5, <3>7, StaysDistinct DEF SentInv
                <5>4. \A i \in DOMAIN deliveries'[n] : deliveries'[n][i].sub \in eligible[n]
                    BY <3>4, <3>6, <3>8, <5>1 DEF SentInv
                <5> QED BY <4>2, <5>2, <5>3, <5>4
            <4> QED BY <4>1, <4>2
        <3> QED BY <3>1, <3>9 DEF EligibleInv, Tells, Subscribed
    <2>6. CASE UNCHANGED vars
        BY <2>6 DEF vars, SentInv, EligibleInv, Tells, Subscribed
    <2> QED BY <2>1, <2>2, <2>3, <2>4, <2>5, <2>6 DEF Next, Release
<1> QED BY <1>1, <1>2, TypedInvariant, ReleaseInvariant, PTL DEF Spec

LEMMA SteadyInvariant == Spec => []SteadyInv
<1>1. Init => SteadyInv
    BY DEF Init, SteadyInv, Tells, Idle
<1>2. Typed /\ ReleaseInv /\ SteadyInv /\ [Next]_vars => SteadyInv'
    <2> SUFFICES ASSUME Typed, ReleaseInv, SteadyInv, [Next]_vars PROVE SteadyInv'
        OBVIOUS
    <2>0. /\ \A p \in Publishers : Runs(p) => publisher[p].release \in 1..released
          /\ \A f \in notified : f.release \in 1..released
          /\ released \in Nat
        BY BoundsAssumption DEF Typed, ReleaseInv, Placed
    <2>1. ASSUME NEW s \in Subs, NEW channels \in SUBSET Channels, Unsettle(s),
                 subscriptions' = [subscriptions EXCEPT ![s] = channels],
                 UNCHANGED <<publisher, deliveries, notified>>
          PROVE  SteadyInv'
        <3>1. ASSUME NEW p \in Publishers, Tells(p)
              PROVE  steady'[publisher[p].release] \subseteq
                        Due(IF publisher[p].step = "sending" THEN publisher[p].to ELSE subscriptions')
            <4>1. publisher[p].release \in Releases /\ Running(publisher[p].release)
                BY <3>1, RunningRelease
            <4>2. steady'[publisher[p].release] \subseteq steady[publisher[p].release]
                BY <2>1, <4>1, Unsettled
            <4>3. CASE publisher[p].step = "sending"
                BY <3>1, <4>2, <4>3 DEF SteadyInv
            <4>4. CASE publisher[p].step # "sending"
                <5>1. steady[publisher[p].release] \subseteq Due(subscriptions)
                    BY <3>1, <4>4 DEF SteadyInv
                <5>2. steady'[publisher[p].release] \subseteq Due(subscriptions')
                    BY <2>1, <4>1, <5>1, Unsettled
                <5> QED BY <4>4, <5>2
            <4> QED BY <4>3, <4>4
        <3>2. \A f \in notified : steady'[f.release] = steady[f.release]
            BY <2>1, Unsettled, RunningRelease
        <3>3. \A n : Told(n)' = Told(n)
            BY <2>1 DEF Told
        <3> QED BY <2>1, <3>1, <3>2, <3>3 DEF SteadyInv, Tells
    <2>2. ASSUME NEW p \in Publishers, NEW count \in Counts, NEW breaking \in BOOLEAN,
                 Publish(p, count, breaking)
          PROVE  SteadyInv'
        <3>1. released' = released + 1 /\ released' \in Releases /\ UNCHANGED <<deliveries, subscriptions, notified>>
            BY <2>0, <2>2, BoundsAssumption DEF Publish, Releases
        <3>2. steady' = [steady EXCEPT ![released'] = {d \in Due(subscriptions) : breaking}]
            BY <2>2 DEF Publish
        <3>3. /\ steady'[released'] \subseteq Due(subscriptions)
              /\ \A n \in 1..released : steady'[n] = steady[n]
            <4>1. \A n \in 1..released : n \in Releases /\ n # released'
                BY <2>0, <3>1, BoundsAssumption DEF Releases
            <4> QED BY <3>1, <3>2, <4>1 DEF Typed
        <3>4. /\ publisher'[p].step = "adding" /\ publisher'[p].release = released'
              /\ \A q \in Publishers \ {p} : Rests(q)
            <4>1. Release(p)
                BY <2>2 DEF Release
            <4> QED BY <2>2, <4>1, OwnStep
        <3>5. \A n : Told(n)' = Told(n)
            BY <3>1 DEF Told
        <3>6. \A q \in Publishers \ {p} : Tells(q) => steady'[publisher[q].release] = steady[publisher[q].release]
            BY <2>0, <3>3, RunningRelease
        <3>7. \A f \in notified : steady'[f.release] = steady[f.release]
            BY <2>0, <3>3
        <3> QED BY <3>1, <3>3, <3>4, <3>5, <3>6, <3>7 DEF SteadyInv, Tells, Rests
    <2>3. ASSUME NEW p \in Publishers,
                 Load(p) \/ Store(p) \/ Snapshot(p) \/ Skip(p) \/ Conclude(p) \/ Triggered(p)
          PROVE  SteadyInv'
        <3> DEFINE g == [release |-> publisher[p].release, count |-> publisher[p].count,
                         breaking |-> publisher[p].breaking]
        <3>1. /\ UNCHANGED <<deliveries, steady, subscriptions>>
              /\ \A q \in Publishers \ {p} : Rests(q)
              /\ Tells(p)' => /\ Tells(p) /\ publisher[p].step # "sending"
                              /\ publisher'[p].release = publisher[p].release
              /\ publisher'[p].step = "sending" => publisher'[p].to = subscriptions
            BY <2>3, TellsOn
        <3>2. \A n : Told(n)' = Told(n)
            BY <3>1 DEF Told
        <3>3. \A q \in Publishers : Tells(q)' =>
                  steady[publisher'[q].release] \subseteq
                      Due(IF publisher'[q].step = "sending" THEN publisher'[q].to ELSE subscriptions)
            <4>1. ASSUME NEW q \in Publishers \ {p}, Tells(q)'
                  PROVE  steady[publisher'[q].release] \subseteq
                      Due(IF publisher'[q].step = "sending" THEN publisher'[q].to ELSE subscriptions)
                BY <3>1, <4>1 DEF SteadyInv, Tells, Rests
            <4>2. ASSUME Tells(p)'
                  PROVE  steady[publisher'[p].release] \subseteq
                      Due(IF publisher'[p].step = "sending" THEN publisher'[p].to ELSE subscriptions)
                <5>1. steady[publisher[p].release] \subseteq Due(subscriptions)
                    BY <3>1, <4>2 DEF SteadyInv
                <5> QED BY <3>1, <4>2, <5>1
            <4> QED BY <4>1, <4>2
        <3>4. notified' = notified \/ (notified' = notified \cup {g} /\ (Skip(p) \/ Conclude(p)))
            BY <2>3 DEF Load, Store, StoreBack, Snapshot, Skip, Conclude, Triggered, GoOn
        <3>5. ASSUME Skip(p) \/ Conclude(p), Enabled /\ g.breaking
              PROVE  steady[g.release] \subseteq Told(g.release)
            <4>1. CASE Skip(p)
                BY <3>5, <4>1 DEF Skip
            <4>2. CASE Conclude(p)
                <5>1. Due(publisher[p].to) \subseteq Sent(p) /\ publisher[p].step = "sending"
                    BY <4>2, NobodyLeft DEF Conclude
                <5>2. steady[publisher[p].release] \subseteq Due(publisher[p].to)
                    BY <3>5, <5>1 DEF SteadyInv, Tells
                <5> QED BY <5>1, <5>2 DEF Sent, Told
            <4> QED BY <3>5, <4>1, <4>2
        <3> HIDE DEF g
        <3> QED BY <3>1, <3>2, <3>3, <3>4, <3>5 DEF SteadyInv, Tells
    <2>5. ASSUME NEW p \in Publishers, NEW channel \in Channels, NEW outcome \in {"sent", "failed"},
                 Deliver(p, channel, outcome)
          PROVE  SteadyInv'
        <3>1. UNCHANGED <<publisher, steady, subscriptions, notified>> /\ publisher[p].step = "sending"
            BY <2>5 DEF Deliver
        <3>2. ASSUME NEW f \in notified PROVE Told(f.release)' = Told(f.release)
            <4>1. f.release # publisher[p].release
                BY <3>1 DEF ReleaseInv, Ended
            <4>2. deliveries'[f.release] = deliveries[f.release]
                BY <2>5, <4>1, RunningRelease DEF Deliver, Typed
            <4> QED BY <4>2 DEF Told
        <3> QED BY <3>1, <3>2 DEF SteadyInv, Tells
    <2>6. CASE UNCHANGED vars
        BY <2>6 DEF vars, SteadyInv, Tells, Told
    <2>7. ASSUME NEW s \in Subs, Unsubscribe(s) \/ \E channels \in SUBSET Channels : Subscribe(s, channels)
          PROVE  SteadyInv'
        BY <2>1, <2>7 DEF Subscribe, Unsubscribe
    <2> QED BY <2>2, <2>3, <2>5, <2>6, <2>7 DEF Next, Release
<1> QED BY <1>1, <1>2, TypedInvariant, ReleaseInvariant, PTL DEF Spec

\* However subscriptions come and go while releases are published: nobody is told twice
\* of a release on a channel, no stranger is told, and whoever was there all the time
\* has been told, for any number of publishers, subscribers and failures.
THEOREM EveryoneToldOnce == Spec => []ToldOnce
<1>1. Typed /\ SentInv /\ SteadyInv => ToldOnce
    <2> SUFFICES ASSUME Typed, SentInv, SteadyInv PROVE ToldOnce
        OBVIOUS
    <2> DEFINE At(n, s, c) == {i \in DOMAIN deliveries[n] :
                                  deliveries[n][i].sub = s /\ deliveries[n][i].channel = c}
    <2>1. \A n \in Releases, s \in Subs, c \in Channels :
              \A i \in At(n, s, c) : At(n, s, c) = {i} /\ s \in eligible[n]
        BY DEF SentInv
    <2>2. \A n, s, c : Times(n, s, c) = Cardinality(At(n, s, c))
        BY DEF Times
    <2> HIDE DEF At
    <2>3. ASSUME NEW n \in Releases, NEW s \in Subs, NEW c \in Channels
          PROVE  Times(n, s, c) <= (IF s \in eligible[n] THEN 1 ELSE 0)
        <3>1. CASE At(n, s, c) = {}
            <4>1. Times(n, s, c) = 0
                BY <2>2, <3>1, FS_EmptySet
            <4> QED BY <4>1
        <3>2. CASE At(n, s, c) # {}
            <4>1. PICK i \in At(n, s, c) : At(n, s, c) = {i} /\ s \in eligible[n]
                BY <2>1, <3>2
            <4>2. Times(n, s, c) = 1
                BY <2>2, <4>1, FS_Singleton
            <4> QED BY <4>1, <4>2
        <3> QED BY <3>1, <3>2
    <2>4. ASSUME NEW f \in notified, Enabled /\ f.breaking, NEW d \in steady[f.release]
          PROVE  Times(f.release, d[1], d[2]) = 1
        <3>1. f.release \in Releases /\ d[1] \in Subs /\ d[2] \in Channels
            BY DEF Typed
        <3>2. d \in Told(f.release) /\ d = <<d[1], d[2]>>
            BY <2>4, <3>1 DEF SteadyInv, Typed
        <3>3. PICK i \in DOMAIN deliveries[f.release] :
                  deliveries[f.release][i].sub = d[1] /\ deliveries[f.release][i].channel = d[2]
            BY <3>2 DEF Told
        <3>4. At(f.release, d[1], d[2]) = {i}
            BY <2>1, <3>1, <3>3 DEF At
        <3> QED BY <2>2, <3>4, FS_Singleton
    <2> QED BY <2>3, <2>4 DEF ToldOnce
<1> QED BY <1>1, TypedInvariant, SentInvariant, SteadyInvariant, PTL

=============================================================================
