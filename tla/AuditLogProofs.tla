--------------------------- MODULE AuditLogProofs --------------------------
(***************************************************************************)
(* Proofs about AuditLog, for every size of the log and number of writers. *)
(***************************************************************************)
EXTENDS AuditLog, FiniteSetTheorems, WellFoundedInduction, TLAPS

\* What a sequence is after an append.
LEMMA AppendFacts ==
    ASSUME NEW S, NEW s \in Seq(S), NEW e \in S
    PROVE  /\ Append(s, e) \in Seq(S) /\ Len(Append(s, e)) = Len(s) + 1
           /\ \A i \in 1..Len(s) : Append(s, e)[i] = s[i]
           /\ Append(s, e)[Len(s) + 1] = e
    OBVIOUS

\* What is left of a sequence after Trim: its last MaxEntries elements.
LEMMA TrimFacts ==
    ASSUME NEW S, NEW s \in Seq(S)
    PROVE  /\ Trim(s) \in Seq(S)
           /\ Len(Trim(s)) = IF Len(s) > MaxEntries THEN MaxEntries ELSE Len(s)
           /\ \A i \in 1..Len(Trim(s)) : Trim(s)[i] = s[Len(s) - Len(Trim(s)) + i]
<1> USE MaxEntriesAssumption
<1>1. CASE Len(s) > MaxEntries
    <2> DEFINE m == Len(s) - MaxEntries + 1
    <2>1. Trim(s) = SubSeq(s, m, Len(s))
        BY <1>1 DEF Trim
    <2>2. m \in 1..Len(s) /\ \A i \in m..Len(s) : s[i] \in S
        BY <1>1
    <2>3. /\ SubSeq(s, m, Len(s)) \in Seq(S)
          /\ Len(SubSeq(s, m, Len(s))) = MaxEntries
          /\ \A i \in 1..MaxEntries : SubSeq(s, m, Len(s))[i] = s[m + i - 1]
        BY <2>2
    <2> QED BY <1>1, <2>1, <2>3
<1>2. CASE ~(Len(s) > MaxEntries)
    BY <1>2 DEF Trim
<1> QED BY <1>1, <1>2

\* Every variable has its type, and the memory of the log its limit.
THEOREM TypeCorrect == Spec => []TypeOK
<1> USE BoundsAssumption, MaxEntriesAssumption
<1>1. Init => TypeOK
    BY DEF Init, TypeOK
<1>2. TypeOK /\ [Next]_vars => TypeOK'
    <2> SUFFICES ASSUME TypeOK, [Next]_vars PROVE TypeOK'
        OBVIOUS
    <2> USE DEF TypeOK, Goto
    <2>1. CASE Tick
        BY <2>1 DEF Tick
    <2>2. ASSUME NEW w \in Writers, NEW about \in Resources, Stamp(w, about) PROVE TypeOK'
        <3>1. [id |-> drawn', at |-> clock, about |-> about] \in Entry /\ drawn' \in 0..MaxLogs
            BY <2>2 DEF Stamp, Entry
        <3> QED BY <2>2, <3>1 DEF Stamp
    <2>3. ASSUME NEW w \in Writers, Keep(w) PROVE TypeOK'
        <3>1. entry[w] \in Entry
            BY <2>3 DEF Keep
        <3>2. Append(entries, entry[w]) \in Seq(Entry) /\ logged' \in Seq(Entry)
            BY <2>3, <3>1, AppendFacts DEF Keep
        <3>3. entries' \in Seq(Entry) /\ Len(entries') <= MaxEntries
            <4> DEFINE s == Append(entries, entry[w])
            <4>1. s \in Seq(Entry) /\ Len(s) \in Nat /\ entries' = Trim(s)
                BY <2>3, <3>2 DEF Keep
            <4> HIDE DEF s
            <4>2. /\ Trim(s) \in Seq(Entry)
                  /\ Len(Trim(s)) = IF Len(s) > MaxEntries THEN MaxEntries ELSE Len(s)
                BY <4>1, TrimFacts
            <4>3. Len(Trim(s)) <= MaxEntries
                BY <4>1, <4>2
            <4> QED BY <4>1, <4>2, <4>3
        <3> QED BY <2>3, <3>2, <3>3 DEF Keep
    <2>4. ASSUME NEW w \in Writers, Write(w) \/ WriteFails(w) PROVE TypeOK'
        <3>1. entry[w] \in Entry /\ entry[w].id \in 1..MaxLogs
            BY <2>4 DEF Write, WriteFails, Entry
        <3>2. sink' \in Seq(Entry)
            <4>1. Append(sink, entry[w]) \in Seq(Entry)
                BY <3>1, AppendFacts
            <4>2. sink' \in {sink, Append(sink, entry[w])}
                BY <2>4 DEF Write, WriteFails
            <4> QED BY <4>1, <4>2
        <3> QED BY <2>4, <3>1, <3>2 DEF Write, WriteFails, Returns
    <2>5. CASE Restart
        BY <2>5 DEF Restart
    <2>6. CASE UNCHANGED vars
        BY <2>6 DEF vars
    <2> QED BY <2>1, <2>2, <2>3, <2>4, <2>5, <2>6 DEF Next, WriterStep
<1> QED BY <1>1, <1>2, PTL DEF Spec

\* The log holds the last entries that were appended, whatever its size and however
\* many writers take turns: an older entry is never kept before a younger one.
THEOREM LatestKept == Spec => []KeepsLatest
<1> USE BoundsAssumption, MaxEntriesAssumption
<1>1. Init => KeepsLatest
    BY DEF Init, KeepsLatest
<1>2. TypeOK /\ KeepsLatest /\ [Next]_vars => KeepsLatest'
    <2> SUFFICES ASSUME TypeOK, KeepsLatest, [Next]_vars PROVE KeepsLatest'
        OBVIOUS
    <2>1. ASSUME NEW w \in Writers, Keep(w) PROVE KeepsLatest'
        <3> DEFINE e == entry[w]
                   s == Append(entries, e)
                   t == Append(logged, e)
        <3>1. entry[w] \in Entry /\ entries \in Seq(Entry) /\ logged \in Seq(Entry)
            BY <2>1 DEF Keep, TypeOK
        <3>2. /\ s \in Seq(Entry) /\ Len(s) = Len(entries) + 1
              /\ \A i \in 1..Len(entries) : s[i] = entries[i]
              /\ s[Len(entries) + 1] = e
            BY <3>1, AppendFacts
        <3>3. /\ t \in Seq(Entry) /\ Len(t) = Len(logged) + 1
              /\ \A i \in 1..Len(logged) : t[i] = logged[i]
              /\ t[Len(logged) + 1] = e
            BY <3>1, AppendFacts
        <3>4. entries' = Trim(s) /\ logged' = t
            BY <2>1 DEF Keep
        <3> HIDE DEF s, t, e
        <3>5. Len(entries) \in Nat /\ Len(logged) \in Nat /\ Len(entries) <= Len(logged)
            BY <3>1 DEF KeepsLatest
        <3>6. \A i \in 1..Len(s) : s[i] = t[Len(t) - Len(s) + i]
            <4> SUFFICES ASSUME NEW i \in 1..Len(s) PROVE s[i] = t[Len(t) - Len(s) + i]
                OBVIOUS
            <4>1. CASE i = Len(entries) + 1
                BY <3>2, <3>3, <3>5, <4>1
            <4>2. CASE i \in 1..Len(entries)
                <5>1. Len(t) - Len(s) + i = Len(logged) - Len(entries) + i
                    BY <3>2, <3>3, <3>5
                <5>2. Len(logged) - Len(entries) + i \in 1..Len(logged)
                    BY <3>5, <4>2
                <5>3. entries[i] = logged[Len(logged) - Len(entries) + i]
                    BY <4>2 DEF KeepsLatest
                <5> QED BY <3>2, <3>3, <4>2, <5>1, <5>2, <5>3
            <4> QED BY <3>2, <3>5, <4>1, <4>2
        <3>7. /\ Len(Trim(s)) = IF Len(s) > MaxEntries THEN MaxEntries ELSE Len(s)
              /\ \A i \in 1..Len(Trim(s)) : Trim(s)[i] = s[Len(s) - Len(Trim(s)) + i]
            BY <3>2, TrimFacts
        <3>8. Len(Trim(s)) = IF Len(t) < MaxEntries THEN Len(t) ELSE MaxEntries
            BY <3>2, <3>3, <3>5, <3>7 DEF KeepsLatest
        <3>9. ASSUME NEW i \in 1..Len(Trim(s)) PROVE Trim(s)[i] = t[Len(t) - Len(Trim(s)) + i]
            <4> DEFINE k == Len(s) - Len(Trim(s)) + i
            <4>1. k \in 1..Len(s) /\ Len(t) - Len(s) + k = Len(t) - Len(Trim(s)) + i
                BY <3>2, <3>3, <3>5, <3>7
            <4>2. Trim(s)[i] = s[k]
                BY <3>7
            <4>3. s[k] = t[Len(t) - Len(s) + k]
                BY <3>6, <4>1
            <4> QED BY <4>1, <4>2, <4>3
        <3> QED BY <3>4, <3>8, <3>9 DEF KeepsLatest
    <2>2. CASE Restart
        BY <2>2 DEF Restart, KeepsLatest
    <2>3. ASSUME UNCHANGED <<entries, logged>> PROVE KeepsLatest'
        BY <2>3 DEF KeepsLatest
    <2> QED BY <2>1, <2>2, <2>3
            DEF Next, WriterStep, Tick, Stamp, Write, WriteFails, vars
<1> QED BY <1>1, <1>2, TypeCorrect, PTL DEF Spec

----------------------------------------------------------------------------
(* What returned calls have written *)

Busy(w) == step[w] # "idle"

\* An id belongs to one call: it is in use by one writer at most, not in the file
\* before the call has returned, and in the file once.
IdInv ==
    /\ \A w \in Writers : Busy(w) =>
          /\ entry[w].id <= drawn
          /\ entry[w].id \notin returned
          /\ \A i \in DOMAIN sink : sink[i].id # entry[w].id
          /\ \A v \in Writers : Busy(v) /\ entry[v].id = entry[w].id => v = w
    /\ returned \subseteq 1..drawn
    /\ \A i \in DOMAIN sink : sink[i].id <= drawn
    /\ \A i, j \in DOMAIN sink : sink[i].id = sink[j].id => i = j
    /\ Sink = "file" => \A n \in returned \ lost : \E i \in DOMAIN sink : sink[i].id = n

LEMMA IdInvariant == Spec => []IdInv
<1>1. Init => IdInv
    BY DEF Init, IdInv, Busy
<1>2. TypeOK /\ IdInv /\ [Next]_vars => IdInv'
    <2> SUFFICES ASSUME TypeOK, IdInv, [Next]_vars PROVE IdInv'
        OBVIOUS
    <2>0. /\ drawn \in Nat
          /\ \A w \in Writers : Busy(w) => entry[w].id \in Nat
          /\ sink \in Seq(Entry) /\ \A i \in DOMAIN sink : sink[i].id \in Nat
          /\ returned \subseteq Nat
        <3>1. \A i \in DOMAIN sink : sink[i] \in Entry
            BY DEF TypeOK
        <3> QED BY <3>1, BoundsAssumption DEF TypeOK, Busy, Entry
    <2>1. ASSUME NEW w \in Writers, NEW about \in Resources, Stamp(w, about) PROVE IdInv'
        <3>1. /\ drawn' = drawn + 1
              /\ UNCHANGED <<sink, returned, lost>>
              /\ Busy(w)' /\ entry'[w].id = drawn'
              /\ \A v \in Writers \ {w} : entry'[v] = entry[v] /\ (Busy(v)' <=> Busy(v))
            BY <2>1 DEF Stamp, Goto, Busy, TypeOK
        <3>2. ASSUME NEW v \in Writers, Busy(v)'
              PROVE  /\ entry'[v].id <= drawn'
                     /\ entry'[v].id \notin returned
                     /\ \A i \in DOMAIN sink : sink[i].id # entry'[v].id
                     /\ \A u \in Writers : Busy(u)' /\ entry'[u].id = entry'[v].id => u = v
            <4>1. CASE v = w
                BY <2>0, <3>1, <4>1 DEF IdInv
            <4>2. CASE v # w
                BY <2>0, <3>1, <3>2, <4>2 DEF IdInv
            <4> QED BY <4>1, <4>2
        <3>3. returned' \subseteq 1..drawn' /\ \A i \in DOMAIN sink' : sink'[i].id <= drawn'
            BY <2>0, <3>1 DEF IdInv
        <3> QED BY <3>1, <3>2, <3>3 DEF IdInv
    <2>2. ASSUME NEW w \in Writers, Keep(w) PROVE IdInv'
        <3>1. /\ UNCHANGED <<entry, sink, drawn, returned, lost>>
              /\ \A v \in Writers : Busy(v)' <=> Busy(v)
            BY <2>2 DEF Keep, Goto, Busy, TypeOK
        <3> QED BY <3>1 DEF IdInv
    <2>3. ASSUME NEW w \in Writers, Write(w) \/ WriteFails(w) PROVE IdInv'
        <3> DEFINE e == entry[w]
        <3>1. /\ Busy(w) /\ ~Busy(w)'
              /\ \A v \in Writers : Busy(v)' => Busy(v) /\ v # w
              /\ UNCHANGED <<entry, drawn>>
              /\ returned' = returned \cup {e.id}
              /\ lost' = lost \/ lost' = lost \cup {e.id}
            BY <2>3 DEF Write, WriteFails, Returns, Goto, Busy, TypeOK
        <3>2. e \in Entry /\ e.id \in 1..drawn
            BY <2>0, <3>1 DEF IdInv, TypeOK, Busy, Entry
        <3>3. CASE sink' = Append(sink, e)
            <4>1. /\ DOMAIN sink = 1..Len(sink) /\ DOMAIN sink' = 1..(Len(sink) + 1)
                  /\ Len(sink) \in Nat
                  /\ \A i \in 1..Len(sink) : sink'[i] = sink[i]
                  /\ sink'[Len(sink) + 1] = e
                BY <2>0, <3>2, <3>3, AppendFacts
            <4> HIDE DEF e
            <4>2. \A i \in DOMAIN sink' :
                     i = Len(sink) + 1 \/ (i \in DOMAIN sink /\ sink'[i] = sink[i])
                BY <4>1
            <4>3. \A i \in DOMAIN sink : sink[i].id # e.id
                BY <3>1 DEF IdInv, e
            <4>4. ASSUME NEW v \in Writers, Busy(v)'
                  PROVE  /\ entry'[v].id <= drawn'
                         /\ entry'[v].id \notin returned'
                         /\ \A i \in DOMAIN sink' : sink'[i].id # entry'[v].id
                         /\ \A u \in Writers : Busy(u)' /\ entry'[u].id = entry'[v].id => u = v
                <5>1. Busy(v) /\ Busy(w) /\ v # w /\ entry[v].id # e.id
                    BY <3>1, <4>4 DEF IdInv, e
                <5> QED BY <3>1, <4>1, <4>2, <5>1 DEF IdInv
            <4>5. returned' \subseteq 1..drawn' /\ \A i \in DOMAIN sink' : sink'[i].id <= drawn'
                <5>1. e.id \in 1..drawn
                    BY <3>2
                <5>2. returned' \subseteq 1..drawn'
                    BY <3>1, <5>1 DEF IdInv
                <5>3. ASSUME NEW i \in DOMAIN sink' PROVE sink'[i].id <= drawn'
                    BY <3>1, <4>1, <4>2, <5>1, <5>3 DEF IdInv
                <5> QED BY <5>2, <5>3
            <4>6. \A i, j \in DOMAIN sink' : sink'[i].id = sink'[j].id => i = j
                BY <4>1, <4>2, <4>3 DEF IdInv
            <4>7. ASSUME Sink = "file", NEW n \in returned' \ lost'
                  PROVE  \E i \in DOMAIN sink' : sink'[i].id = n
                <5>1. CASE n = e.id
                    BY <4>1, <5>1
                <5>2. CASE n \in returned \ lost
                    <6>1. PICK i \in DOMAIN sink : sink[i].id = n
                        BY <4>7, <5>2 DEF IdInv
                    <6> QED BY <4>1, <6>1
                <5> QED BY <3>1, <4>7, <5>1, <5>2
            <4> QED BY <4>4, <4>5, <4>6, <4>7 DEF IdInv
        <3>4. CASE sink' = sink /\ (Sink = "file" => lost' = lost \cup {e.id})
            <4>1. ASSUME NEW v \in Writers, Busy(v)'
                  PROVE  Busy(v) /\ Busy(w) /\ v # w /\ entry[v].id # e.id
                BY <3>1, <4>1 DEF IdInv
            <4> HIDE DEF e
            <4>2. Sink = "file" => returned' \ lost' \subseteq returned \ lost
                BY <3>1, <3>4
            <4> QED BY <3>1, <3>2, <3>4, <4>1, <4>2 DEF IdInv
        <3> QED BY <2>3, <3>3, <3>4 DEF Write, WriteFails
    <2>4. CASE Restart
        <3>1. UNCHANGED <<sink, drawn, returned, lost>> /\ \A w \in Writers : ~Busy(w)'
            BY <2>4 DEF Restart, Busy
        <3> QED BY <3>1 DEF IdInv
    <2>5. ASSUME UNCHANGED <<step, entry, sink, drawn, returned, lost>> PROVE IdInv'
        BY <2>5 DEF IdInv, Busy
    <2> QED BY <2>1, <2>2, <2>3, <2>4, <2>5 DEF Next, WriterStep, Tick, vars
<1> QED BY <1>1, <1>2, TypeCorrect, PTL DEF Spec

\* A caller that Log has returned to finds its entry in the file, and once only,
\* however many restarts later, unless the file refused it: for any number of
\* writers, whatever the order in which they come out of the mutex.
THEOREM ReturnedWritten == Spec => []ReturnedIsWritten
<1>1. IdInv => ReturnedIsWritten
    <2> SUFFICES ASSUME IdInv, Sink = "file", NEW n \in returned \ lost
                 PROVE  Cardinality({i \in DOMAIN sink : sink[i].id = n}) = 1
        BY DEF ReturnedIsWritten
    <2>1. PICK k \in DOMAIN sink : sink[k].id = n
        BY DEF IdInv
    <2>2. {i \in DOMAIN sink : sink[i].id = n} = {k}
        BY <2>1 DEF IdInv
    <2> QED BY <2>2, FS_Singleton
<1> QED BY <1>1, IdInvariant, PTL

----------------------------------------------------------------------------
(* Induction, and loops *)

\* A set of natural numbers that is not empty has a least element: of the intervals
\* 0 .. n - 1 of its elements n one has no other as a subset.
LEMMA LeastNat ==
    ASSUME NEW T \in SUBSET Nat, T # {}
    PROVE  \E m \in T : \A n \in T : m <= n
<1> DEFINE below(n) == 0..(n - 1)
           U == {below(n) : n \in T}
<1>1. U \subseteq FiniteSubsetsOf(Nat)
    <2> SUFFICES ASSUME NEW n \in T PROVE below(n) \subseteq Nat /\ IsFiniteSet(below(n))
        BY DEF FiniteSubsetsOf
    <2> QED BY FS_Interval
<1>2. IsWellFoundedOn(StrictSubsetOrdering(Nat), FiniteSubsetsOf(Nat))
    BY FS_StrictSubsetOrderingWellFounded
<1> HIDE DEF U
<1>3. PICK x \in U : \A y \in U : ~(<<y, x>> \in StrictSubsetOrdering(Nat))
    <2>1. U # {}
        BY DEF U
    <2> QED BY <1>1, <1>2, <2>1, WFMin
<1>4. PICK m \in T : x = below(m)
    BY <1>3 DEF U
<1>5. ASSUME NEW n \in T, n < m PROVE FALSE
    <2>1. below(n) \subseteq below(m) /\ below(n) # below(m) /\ below(m) \subseteq Nat
        <3>1. n \in below(m) /\ n \notin below(n)
            BY <1>5
        <3> QED BY <1>5, <3>1
    <2>2. below(n) \in U
        BY DEF U
    <2> QED BY <1>3, <1>4, <2>1, <2>2 DEF StrictSubsetOrdering
<1> QED BY <1>5

\* What holds of 0, and of a number's successor when it holds of the number, holds of all.
LEMMA Induction ==
    ASSUME NEW P, 0 \in P, \A n \in Nat : n \in P => n + 1 \in P
    PROVE  Nat \subseteq P
<1> SUFFICES ASSUME Nat \ P # {} PROVE FALSE
    OBVIOUS
<1>1. PICK m \in Nat \ P : \A n \in Nat \ P : m <= n
    BY LeastNat
<1>2. m - 1 \in Nat /\ m - 1 \in P
    BY <1>1
<1> QED BY <1>1, <1>2

\* The same for the numbers up to a bound.
LEMMA InductionUpTo ==
    ASSUME NEW N \in Nat, NEW P, 0 \in P, \A i \in 1..N : i - 1 \in P => i \in P
    PROVE  0..N \subseteq P
<1> DEFINE Q == {n \in Nat : n <= N => n \in P}
<1>1. 0 \in Q
    OBVIOUS
<1>2. ASSUME NEW n \in Nat, n \in Q PROVE n + 1 \in Q
    <2>1. CASE n + 1 <= N
        <3>1. n + 1 \in 1..N /\ (n + 1) - 1 = n
            BY <2>1
        <3> QED BY <1>2, <3>1
    <2> QED BY <2>1
<1> HIDE DEF Q
<1>3. Nat \subseteq Q
    BY <1>1, <1>2, Induction
<1> QED BY <1>3 DEF Q

\* The values a loop variable takes: a at first, and after turn i what F[i] makes of the
\* value before it.
Follows(g, S, N, a, F) ==
    g \in [0..N -> S] /\ g[0] = a /\ \A i \in 1..N : g[i] = F[i][g[i - 1]]

\* Every loop of N turns has such values.
LEMMA LoopRuns ==
    ASSUME NEW S, NEW N \in Nat, NEW a \in S, NEW F \in [1..N -> [S -> S]]
    PROVE  \E g : Follows(g, S, N, a, F)
<1> DEFINE Runs(n) == {g \in [0..n -> S] : g[0] = a /\ \A i \in 1..n : g[i] = F[i][g[i - 1]]}
           P == {n \in Nat : n <= N => Runs(n) # {}}
<1>1. Runs(0) # {}
    <2>1. [i \in 0..0 |-> a] \in Runs(0)
        OBVIOUS
    <2> QED BY <2>1
<1>2. ASSUME NEW n \in Nat, n + 1 <= N, Runs(n) # {} PROVE Runs(n + 1) # {}
    <2>1. PICK g \in Runs(n) : TRUE
        BY <1>2
    <2>2. g \in [0..n -> S] /\ g[0] = a /\ \A i \in 1..n : g[i] = F[i][g[i - 1]]
        BY <2>1
    <2>3. g[n] \in S /\ F[n + 1] \in [S -> S]
        BY <1>2, <2>2
    <2> DEFINE x == F[n + 1][g[n]]
               h == [i \in 0..(n + 1) |-> IF i = n + 1 THEN x ELSE g[i]]
    <2>4. x \in S
        BY <2>3
    <2>5. ASSUME NEW i \in 1..(n + 1) PROVE h[i] = F[i][h[i - 1]]
        <3>1. CASE i = n + 1
            <4>1. h[i] = x /\ h[i - 1] = g[n]
                BY <3>1
            <4> QED BY <3>1, <4>1
        <3>2. CASE i \in 1..n
            <4>1. h[i] = g[i] /\ h[i - 1] = g[i - 1]
                BY <3>2
            <4> QED BY <2>2, <3>2, <4>1
        <3> QED BY <3>1, <3>2
    <2> HIDE DEF x
    <2>6. h \in [0..(n + 1) -> S]
        <3>1. \A i \in 0..(n + 1) : i # n + 1 => i \in 0..n
            OBVIOUS
        <3> QED BY <2>2, <2>4, <3>1
    <2>7. h[0] = a
        BY <2>2
    <2> HIDE DEF h
    <2>8. h \in Runs(n + 1)
        BY <2>5, <2>6, <2>7
    <2> QED BY <2>8
<1> HIDE DEF Runs
<1>3. 0 \in P /\ \A n \in Nat : n \in P => n + 1 \in P
    BY <1>1, <1>2
<1>4. Nat \subseteq P
    <2> HIDE DEF P
    <2> QED BY <1>3, Induction
<1>5. Runs(N) # {}
    BY <1>4
<1>6. PICK g \in Runs(N) : TRUE
    BY <1>5
<1> QED BY <1>6 DEF Runs, Follows

----------------------------------------------------------------------------
(* What a query returns *)

\* The loop of a query turn by turn, from the last entry to the first.
LEMMA ScanTurns ==
    ASSUME entries \in Seq(Entry), NEW q
    PROVE  /\ Scan(q) \in [0..Len(entries) -> Seq(Entry)]
           /\ Scan(q)[0] = <<>>
           /\ \A n \in 1..Len(entries) :
                 LET e == entries[Len(entries) - n + 1]
                     before == Scan(q)[n - 1]
                 IN  Scan(q)[n] = IF Len(before) < Limit(q) /\ Matches(e, q)
                                  THEN Append(before, e) ELSE before
<1> DEFINE turn(n, s) == LET e == entries[Len(entries) - n + 1]
                         IN  IF Len(s) < Limit(q) /\ Matches(e, q) THEN Append(s, e) ELSE s
           body(out) == [n \in 0..Len(entries) |-> IF n = 0 THEN <<>> ELSE turn(n, out[n - 1])]
<1>1. Scan(q) = CHOOSE out : out = body(out)
    BY Zenon DEF Scan
<1>2. PICK N \in Nat : N = Len(entries)
    OBVIOUS
<1>3. ASSUME NEW n \in 1..N, NEW s \in Seq(Entry) PROVE turn(n, s) \in Seq(Entry)
    <2>1. entries[Len(entries) - n + 1] \in Entry
        BY <1>2
    <2> QED BY <2>1
<1> HIDE DEF turn
<1>4. <<>> \in Seq(Entry) /\ 0 \in 0..N
    OBVIOUS
<1>5. PICK g \in [0..N -> Seq(Entry)] : g[0] = <<>> /\ \A n \in 1..N : g[n] = turn(n, g[n - 1])
    <2> DEFINE F == [n \in 1..N |-> [s \in Seq(Entry) |-> turn(n, s)]]
    <2>1. F \in [1..N -> [Seq(Entry) -> Seq(Entry)]]
        BY <1>3
    <2>2. \A n \in 1..N, s \in Seq(Entry) : F[n][s] = turn(n, s)
        OBVIOUS
    <2> HIDE DEF F
    <2>3. PICK g : Follows(g, Seq(Entry), N, <<>>, F)
        BY <1>4, <2>1, LoopRuns
    <2>4. g \in [0..N -> Seq(Entry)] /\ g[0] = <<>> /\ \A n \in 1..N : g[n] = F[n][g[n - 1]]
        BY <2>3 DEF Follows
    <2>5. \A n \in 1..N : g[n - 1] \in Seq(Entry)
        <3>1. \A n \in 1..N : n - 1 \in 0..N
            OBVIOUS
        <3> QED BY <2>4, <3>1
    <2> QED BY <2>2, <2>4, <2>5
<1>6. g = body(g)
    <2>1. \A n \in 0..N : n = 0 \/ n \in 1..N
        OBVIOUS
    <2> QED BY <1>2, <1>5, <2>1
<1>7. Scan(q) = body(Scan(q))
    BY <1>1, <1>6
<1>8. Scan(q)[0] = <<>> /\ \A n \in 1..N : Scan(q)[n] = turn(n, Scan(q)[n - 1])
    BY <1>2, <1>7
<1>9. \A n \in 0..N : Scan(q)[n] \in Seq(Entry)
    <2> DEFINE P == {n \in 0..N : Scan(q)[n] \in Seq(Entry)}
    <2>1. 0 \in P
        BY Zenon, <1>4, <1>8
    <2>2. ASSUME NEW n \in 1..N, n - 1 \in P PROVE n \in P
        <3>1. Scan(q)[n - 1] \in Seq(Entry)
            BY <2>2
        <3>2. Scan(q)[n] \in Seq(Entry)
            BY <1>3, <1>8, <3>1
        <3>3. n \in 0..N
            OBVIOUS
        <3> QED BY <3>2, <3>3
    <2> HIDE DEF P
    <2>3. 0..N \subseteq P
        BY <2>1, <2>2, InductionUpTo
    <2> QED BY <2>3 DEF P
<1>10. Scan(q) \in [0..N -> Seq(Entry)]
    BY <1>2, <1>7, <1>9
<1> QED BY <1>2, <1>8, <1>10 DEF turn

\* The positions of the entries a query matches, and of those among the n last entries.
Matching(q) == {i \in DOMAIN entries : Matches(entries[i], q)}
Seen(q, n) == {i \in Matching(q) : i > Len(entries) - n}

\* Where the results of n turns come from: f gives their positions, which decrease; there
\* is no other match yet when the limit is not reached, and never one that is younger.
Origins(q, n) ==
    LET s == Scan(q)[n]
    IN  {f \in [1..Len(s) -> Seen(q, n)] :
            /\ Len(s) <= Limit(q)
            /\ \A k \in 1..Len(s) : s[k] = entries[f[k]]
            /\ \A k, l \in 1..Len(s) : k < l => f[l] < f[k]
            /\ \A j \in Seen(q, n) :
                  \/ \E k \in 1..Len(s) : f[k] = j
                  \/ Len(s) = Limit(q) /\ \A k \in 1..Len(s) : j < f[k]}

\* One turn of the loop keeps that.
LEMMA ScanTurn ==
    ASSUME entries \in Seq(Entry), NEW q, Limit(q) \in Nat,
           NEW n \in 1..Len(entries), Origins(q, n - 1) # {}
    PROVE  Origins(q, n) # {}
<1> DEFINE s == Scan(q)[n - 1]
           t == Scan(q)[n]
           p == Len(entries) - n + 1
           L == Len(s)
<1>1. /\ s \in Seq(Entry) /\ L \in Nat
      /\ t = IF L < Limit(q) /\ Matches(entries[p], q) THEN Append(s, entries[p]) ELSE s
      /\ p \in 1..Len(entries) /\ entries[p] \in Entry
    <2>1. n - 1 \in 0..Len(entries) /\ p \in 1..Len(entries) /\ entries[p] \in Entry
        OBVIOUS
    <2>2. Scan(q) \in [0..Len(entries) -> Seq(Entry)]
        BY ScanTurns
    <2>3. t = IF L < Limit(q) /\ Matches(entries[p], q) THEN Append(s, entries[p]) ELSE s
        BY ScanTurns
    <2>4. s \in Seq(Entry)
        BY <2>1, <2>2
    <2> QED BY <2>1, <2>3, <2>4
<1>2. PICK f \in Origins(q, n - 1) : TRUE
    OBVIOUS
<1>3. /\ f \in [1..L -> Seen(q, n - 1)]
      /\ L <= Limit(q)
      /\ \A k \in 1..L : s[k] = entries[f[k]]
      /\ \A k, l \in 1..L : k < l => f[l] < f[k]
      /\ \A j \in Seen(q, n - 1) :
            \/ \E k \in 1..L : f[k] = j
            \/ L = Limit(q) /\ \A k \in 1..L : j < f[k]
    BY <1>2 DEF Origins
<1>4. /\ Seen(q, n - 1) \subseteq Seen(q, n)
      /\ \A i \in Seen(q, n) : i \in Seen(q, n - 1) \/ i = p
      /\ \A i \in Seen(q, n - 1) : i \in Int /\ p < i
      /\ p \in Seen(q, n) <=> Matches(entries[p], q)
    BY <1>1 DEF Seen, Matching
<1> HIDE DEF s, t, p, L
<1>5. CASE L < Limit(q) /\ Matches(entries[p], q)
    <2> DEFINE g == [k \in 1..(L + 1) |-> IF k = L + 1 THEN p ELSE f[k]]
    <2>1. /\ t \in Seq(Entry) /\ Len(t) = L + 1
          /\ \A k \in 1..L : t[k] = s[k]
          /\ t[L + 1] = entries[p]
        <3>1. t = Append(s, entries[p])
            BY <1>1, <1>5
        <3> QED BY <1>1, <3>1, AppendFacts DEF L
    <2>2. \A k \in 1..(L + 1) : k = L + 1 \/ k \in 1..L
        BY <1>1
    <2>3. \A k \in 1..L : f[k] \in Seen(q, n - 1)
        BY <1>3
    <2>4. (\A k \in 1..L : g[k] = f[k]) /\ g[L + 1] = p
        BY <1>1
    <2>5. g \in [1..(L + 1) -> Seen(q, n)]
        BY <1>4, <1>5, <2>2, <2>3
    <2> HIDE DEF g
    <2>6. \A k \in 1..(L + 1) : t[k] = entries[g[k]]
        BY <1>3, <2>1, <2>2, <2>4
    <2>7. \A k, l \in 1..(L + 1) : k < l => g[l] < g[k]
        <3> SUFFICES ASSUME NEW k \in 1..(L + 1), NEW l \in 1..(L + 1), k < l PROVE g[l] < g[k]
            OBVIOUS
        <3>1. k \in 1..L
            BY <1>1
        <3> QED BY <1>3, <1>4, <2>2, <2>3, <2>4, <3>1
    <2>8. \A j \in Seen(q, n) : \E k \in 1..(L + 1) : g[k] = j
        <3> SUFFICES ASSUME NEW j \in Seen(q, n) PROVE \E k \in 1..(L + 1) : g[k] = j
            OBVIOUS
        <3>1. CASE j = p
            BY <1>1, <2>4, <3>1
        <3>2. CASE j \in Seen(q, n - 1)
            <4>1. PICK k \in 1..L : f[k] = j
                BY <1>1, <1>3, <1>5, <3>2
            <4>2. k \in 1..(L + 1) /\ g[k] = j
                BY <1>1, <2>4, <4>1
            <4> QED BY <4>2
        <3> QED BY <1>4, <3>1, <3>2
    <2>9. L + 1 <= Limit(q)
        BY <1>1, <1>5
    <2>10. g \in Origins(q, n)
        BY <2>1, <2>5, <2>6, <2>7, <2>8, <2>9 DEF Origins, t
    <2> QED BY <2>10
<1>6. CASE ~(L < Limit(q) /\ Matches(entries[p], q))
    <2>1. t = s
        BY <1>1, <1>6
    <2>2. f \in [1..L -> Seen(q, n)]
        BY <1>3, <1>4
    <2>3. ASSUME NEW j \in Seen(q, n)
          PROVE  \/ \E k \in 1..L : f[k] = j
                 \/ L = Limit(q) /\ \A k \in 1..L : j < f[k]
        <3>1. CASE j \in Seen(q, n - 1)
            BY <1>3, <3>1
        <3>2. CASE j = p
            <4>1. L = Limit(q)
                BY <1>1, <1>3, <1>4, <1>6, <2>3, <3>2
            <4>2. \A k \in 1..L : f[k] \in Seen(q, n - 1)
                BY <1>3
            <4> QED BY <1>4, <3>2, <4>1, <4>2
        <3> QED BY <1>4, <3>1, <3>2
    <2>4. f \in Origins(q, n)
        BY <1>3, <2>1, <2>2, <2>3 DEF Origins, s, t, L
    <2> QED BY <2>4
<1> QED BY <1>5, <1>6

\* So what a query returns has origins among all its matches.
LEMMA QueryOrigins ==
    ASSUME entries \in Seq(Entry), NEW q, Limit(q) \in Nat
    PROVE  Origins(q, Len(entries)) # {}
<1> DEFINE P == {n \in 0..Len(entries) : Origins(q, n) # {}}
<1>1. 0 \in P
    <2>1. Scan(q)[0] = <<>> /\ Len(Scan(q)[0]) = 0 /\ 0 \in 0..Len(entries)
        BY ScanTurns
    <2>2. Seen(q, 0) = {}
        BY DEF Seen, Matching
    <2>3. [k \in 1..0 |-> 0] \in Origins(q, 0)
        BY <2>1, <2>2 DEF Origins
    <2> QED BY <2>1, <2>3
<1>2. ASSUME NEW n \in 1..Len(entries), n - 1 \in P PROVE n \in P
    BY <1>2, ScanTurn
<1>3. PICK N \in Nat : N = Len(entries)
    OBVIOUS
<1> HIDE DEF P
<1>4. 0..N \subseteq P
    BY <1>1, <1>2, <1>3, InductionUpTo
<1> QED BY <1>3, <1>4 DEF P

\* No two entries the log holds have one id, nor does a writer log one that is there.
EntriesInv ==
    /\ \A i, j \in DOMAIN entries : entries[i].id = entries[j].id => i = j
    /\ \A i \in DOMAIN entries : entries[i].id <= drawn
    /\ \A w \in Writers, i \in DOMAIN entries : step[w] = "stamped" => entries[i].id # entry[w].id

LEMMA EntriesInvariant == Spec => []EntriesInv
<1>1. Init => EntriesInv
    BY DEF Init, EntriesInv
<1>2. TypeOK /\ IdInv /\ EntriesInv /\ [Next]_vars => EntriesInv'
    <2> SUFFICES ASSUME TypeOK, IdInv, EntriesInv, [Next]_vars PROVE EntriesInv'
        OBVIOUS
    <2>0. /\ drawn \in Nat /\ \A i \in DOMAIN entries : entries[i].id \in Nat
          /\ entries \in Seq(Entry)
        <3>1. \A i \in DOMAIN entries : entries[i] \in Entry
            BY DEF TypeOK
        <3> QED BY <3>1, BoundsAssumption DEF TypeOK, Entry
    <2>1. ASSUME NEW w \in Writers, NEW about \in Resources, Stamp(w, about) PROVE EntriesInv'
        <3>1. /\ drawn' = drawn + 1 /\ entries' = entries
              /\ entry'[w].id = drawn'
              /\ \A v \in Writers \ {w} : entry'[v] = entry[v] /\ step'[v] = step[v]
            BY <2>1 DEF Stamp, Goto, TypeOK
        <3> QED BY <2>0, <3>1 DEF EntriesInv
    <2>2. ASSUME NEW w \in Writers, Keep(w) PROVE EntriesInv'
        <3> DEFINE s == Append(entries, entry[w])
        <3>1. /\ entry[w] \in Entry /\ Busy(w) /\ step[w] = "stamped" /\ step'[w] # "stamped"
              /\ \A v \in Writers \ {w} : step'[v] = step[v]
              /\ entry' = entry /\ drawn' = drawn
              /\ entries' = Trim(s)
            BY <2>2 DEF Keep, Goto, TypeOK, Busy
        <3>2. /\ s \in Seq(Entry) /\ Len(s) = Len(entries) + 1
              /\ \A i \in 1..Len(entries) : s[i] = entries[i]
              /\ s[Len(entries) + 1] = entry[w]
            BY <2>0, <3>1, AppendFacts
        <3> HIDE DEF s
        <3>3. /\ \A i, j \in 1..Len(s) : s[i].id = s[j].id => i = j
              /\ \A i \in 1..Len(s) : s[i].id <= drawn
              /\ \A v \in Writers, i \in 1..Len(s) :
                    v # w /\ step[v] = "stamped" => s[i].id # entry[v].id
            <4>1. \A i \in 1..Len(s) : i \in DOMAIN entries \/ i = Len(entries) + 1
                BY <2>0, <3>2
            <4>2. entry[w].id <= drawn /\ \A i \in DOMAIN entries : entries[i].id # entry[w].id
                BY <3>1 DEF IdInv, EntriesInv
            <4>3. \A v \in Writers : v # w /\ step[v] = "stamped" => entry[v].id # entry[w].id
                BY <3>1 DEF IdInv, Busy
            <4>4. \A i \in DOMAIN entries : i \in 1..Len(entries)
                BY <2>0
            <4>5. \A i, j \in 1..Len(s) : s[i].id = s[j].id => i = j
                BY <3>2, <4>1, <4>2, <4>4 DEF EntriesInv
            <4>6. \A i \in 1..Len(s) : s[i].id <= drawn
                BY <3>2, <4>1, <4>2, <4>4 DEF EntriesInv
            <4>7. ASSUME NEW v \in Writers, NEW i \in 1..Len(s), v # w, step[v] = "stamped"
                  PROVE  s[i].id # entry[v].id
                BY <3>2, <4>1, <4>3, <4>4, <4>7 DEF EntriesInv
            <4> QED BY <4>5, <4>6, <4>7
        <3>4. \A i \in DOMAIN entries' :
                 /\ Len(s) - Len(entries') + i \in 1..Len(s)
                 /\ entries'[i] = s[Len(s) - Len(entries') + i]
            <4>1. /\ Trim(s) \in Seq(Entry)
                  /\ Len(Trim(s)) = IF Len(s) > MaxEntries THEN MaxEntries ELSE Len(s)
                  /\ \A i \in 1..Len(Trim(s)) : Trim(s)[i] = s[Len(s) - Len(Trim(s)) + i]
                BY <3>2, TrimFacts
            <4>2. DOMAIN Trim(s) = 1..Len(Trim(s)) /\ Len(Trim(s)) \in Nat /\ Len(s) \in Nat
                BY <3>2, <4>1
            <4>3. Len(Trim(s)) <= Len(s)
                BY <4>1, <4>2, MaxEntriesAssumption
            <4> QED BY <3>1, <4>1, <4>2, <4>3
        <3>5. Len(s) \in Nat /\ Len(entries') \in Nat /\ \A i \in DOMAIN entries' : i \in Nat
            <4>1. entries' \in Seq(Entry)
                BY <3>1, <3>2, TrimFacts
            <4> QED BY <3>2, <4>1
        <3>6. \A i, j \in DOMAIN entries' : entries'[i].id = entries'[j].id => i = j
            BY <3>3, <3>4, <3>5
        <3>7. \A i \in DOMAIN entries' : entries'[i].id <= drawn'
            BY <3>1, <3>3, <3>4
        <3>8. ASSUME NEW v \in Writers, NEW i \in DOMAIN entries', step'[v] = "stamped"
              PROVE  entries'[i].id # entry'[v].id
            BY <3>1, <3>3, <3>4, <3>8
        <3> QED BY <3>6, <3>7, <3>8 DEF EntriesInv
    <2>3. ASSUME NEW w \in Writers, Write(w) \/ WriteFails(w) PROVE EntriesInv'
        <3>1. /\ UNCHANGED <<entries, drawn, entry>>
              /\ \A v \in Writers : step'[v] = "stamped" => step[v] = "stamped"
            BY <2>3 DEF Write, WriteFails, Returns, Goto, TypeOK
        <3> QED BY <3>1 DEF EntriesInv
    <2>4. CASE Restart
        BY <2>4 DEF Restart, EntriesInv
    <2>5. ASSUME UNCHANGED <<entries, drawn, entry, step>> PROVE EntriesInv'
        BY <2>5 DEF EntriesInv
    <2> QED BY <2>1, <2>2, <2>3, <2>4, <2>5 DEF Next, WriterStep, Tick, vars
<1> QED BY <1>1, <1>2, TypeCorrect, IdInvariant, PTL DEF Spec

\* A query returns entries that match, each once and the newest first, as many as the
\* limit allows, and leaves out only older ones: whatever the log holds and however long
\* it is, and whatever is asked.
THEOREM QueriesExact == Spec => []QueryExact
<1>1. TypeOK /\ EntriesInv => QueryExact
    <2> SUFFICES ASSUME TypeOK, EntriesInv, NEW q \in Queries
                 PROVE  LET out == Query(q)
                            found == Matching(q)
                            taken == {i \in found : \E k \in DOMAIN out : out[k] = entries[i]}
                        IN  /\ Len(out) = Cardinality(taken)
                            /\ Len(out) = IF Cardinality(found) < Limit(q)
                                          THEN Cardinality(found) ELSE Limit(q)
                            /\ \A k, l \in DOMAIN out, i, j \in taken :
                                  out[k] = entries[i] /\ out[l] = entries[j] /\ k < l => j < i
                            /\ \A i \in taken, j \in found \ taken : j < i
        BY DEF QueryExact, Matching
    <2> DEFINE out == Query(q)
               found == Matching(q)
               taken == {i \in found : \E k \in DOMAIN out : out[k] = entries[i]}
    <2>1. entries \in Seq(Entry) /\ Limit(q) \in Nat
        BY MaxEntriesAssumption DEF TypeOK, Limit, Queries
    <2>2. out \in Seq(Entry) /\ DOMAIN out = 1..Len(out) /\ Len(out) \in Nat
        <3>1. Len(entries) \in 0..Len(entries)
            BY <2>1
        <3> QED BY <2>1, <3>1, ScanTurns DEF Query
    <2>3. Seen(q, Len(entries)) = found
        BY <2>1 DEF Seen, Matching
    <2>4. PICK f \in Origins(q, Len(entries)) : TRUE
        BY <2>1, QueryOrigins
    <2>5. /\ f \in [1..Len(out) -> found]
          /\ Len(out) <= Limit(q)
          /\ \A k \in 1..Len(out) : out[k] = entries[f[k]]
          /\ \A k, l \in 1..Len(out) : k < l => f[l] < f[k]
          /\ \A j \in found : \/ \E k \in 1..Len(out) : f[k] = j
                              \/ Len(out) = Limit(q) /\ \A k \in 1..Len(out) : j < f[k]
        BY <2>3, <2>4 DEF Origins, Query
    <2>6. \A i, j \in found : entries[i] = entries[j] => i = j
        BY DEF EntriesInv, Matching
    <2>7. found \subseteq 1..Len(entries) /\ IsFiniteSet(found)
        <3>1. found \subseteq 1..Len(entries)
            BY <2>1 DEF Matching
        <3>2. IsFiniteSet(1..Len(entries))
            <4>1. Len(entries) \in Int
                BY <2>1
            <4> QED BY <4>1, FS_Interval
        <3> QED BY <3>1, <3>2, FS_Subset
    <2> HIDE DEF out, found
    <2>8. \A k \in 1..Len(out), i \in found : out[k] = entries[i] <=> f[k] = i
        BY <2>5, <2>6
    <2>9. taken = {i \in found : \E k \in 1..Len(out) : f[k] = i}
        BY <2>2, <2>8
    <2> HIDE DEF taken
    <2>10. Len(out) = Cardinality(taken) /\ IsFiniteSet(taken)
        <3>1. f \in Bijection(1..Len(out), taken)
            <4>1. \A k \in 1..Len(out) : f[k] \in taken
                BY <2>5, <2>9
            <4>2. \A k, l \in 1..Len(out) : f[k] = f[l] => k = l
                <5> SUFFICES ASSUME NEW k \in 1..Len(out), NEW l \in 1..Len(out), k < l
                             PROVE  f[k] # f[l]
                    BY <2>2
                <5>1. f[k] \in Int /\ f[l] \in Int /\ f[l] < f[k]
                    <6>1. f[k] \in found /\ f[l] \in found
                        BY <2>5
                    <6>2. f[k] \in 1..Len(entries) /\ f[l] \in 1..Len(entries)
                        BY <2>7, <6>1
                    <6> QED BY <2>5, <6>2
                <5> QED BY <5>1
            <4>3. \A i \in taken : \E k \in 1..Len(out) : f[k] = i
                BY <2>9
            <4>4. f \in [1..Len(out) -> taken]
                BY <2>5, <4>1
            <4> QED BY <4>2, <4>3, <4>4 DEF Bijection, Injection, Surjection, IsInjective
        <3>2. ExistsBijection(1..Len(out), taken)
            BY <3>1 DEF ExistsBijection
        <3>3. IsFiniteSet(taken)
            <4>1. taken \in SUBSET found
                BY <2>9
            <4> QED BY <2>7, <4>1, FS_Subset
        <3> QED BY <2>2, <3>2, <3>3, FS_CountingElements
    <2>11. Len(out) = IF Cardinality(found) < Limit(q) THEN Cardinality(found) ELSE Limit(q)
        <3>1. Cardinality(taken) <= Cardinality(found) /\ Cardinality(found) \in Nat
            BY <2>7, <2>9, FS_Subset, FS_CardinalityType
        <3>2. Len(out) = Limit(q) \/ taken = found
            BY <2>5, <2>9
        <3> QED BY <2>1, <2>2, <2>5, <2>10, <3>1, <3>2
    <2>12. \A k, l \in DOMAIN out, i, j \in taken :
              out[k] = entries[i] /\ out[l] = entries[j] /\ k < l => j < i
        BY <2>2, <2>5, <2>8, <2>9
    <2>13. \A i \in taken, j \in found \ taken : j < i
        BY <2>5, <2>9
    <2> QED BY <2>10, <2>11, <2>12, <2>13 DEF out, found, taken
<1> QED BY <1>1, TypeCorrect, EntriesInvariant, PTL

=============================================================================
