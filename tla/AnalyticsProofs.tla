--------------------------- MODULE AnalyticsProofs --------------------------
(***************************************************************************)
(* Proofs about Analytics, for every number of metrics, whatever is posted *)
(* and whatever is asked.                                                  *)
(***************************************************************************)
EXTENDS Analytics, FiniteSetTheorems, WellFoundedInduction, TLAPS

----------------------------------------------------------------------------
(* Type correctness *)

\* What a sequence is after an append.
LEMMA AppendFacts ==
    ASSUME NEW S, NEW s \in Seq(S), NEW e \in S
    PROVE  /\ Append(s, e) \in Seq(S) /\ Len(Append(s, e)) = Len(s) + 1
           /\ \A i \in 1..Len(s) : Append(s, e)[i] = s[i]
           /\ Append(s, e)[Len(s) + 1] = e
    OBVIOUS

\* The serial number of a metric tells where it is stored.
SerialInv ==
    /\ \A k, l \in Keys : \A i \in DOMAIN metrics[k], j \in DOMAIN metrics[l] :
          metrics[k][i].serial = metrics[l][j].serial => k = l /\ i = j
    /\ \A k \in Keys : \A i \in DOMAIN metrics[k] : metrics[k][i].serial \in 1..recorded

\* What recording a metric does to the map: one more at the end of its key's.
LEMMA PostFacts ==
    ASSUME TypeOK, Next
    PROVE  \E k \in Keys, m \in Metric :
              /\ Key(m.resource, m.id) = k
              /\ recorded' = recorded + 1 /\ recorded' \in 1..MaxMetrics /\ m.serial = recorded'
              /\ metrics' \in [Keys -> Seq(Metric)]
              /\ \A l \in Keys \ {k} : metrics'[l] = metrics[l]
              /\ DOMAIN metrics'[k] = 1..(Len(metrics[k]) + 1)
              /\ Len(metrics[k]) \in Nat
              /\ \A i \in DOMAIN metrics[k] :
                    i \in 1..Len(metrics[k]) /\ metrics'[k][i] = metrics[k][i]
              /\ metrics'[k][Len(metrics[k]) + 1] = m
<1>1. PICK p \in Posted, at \in 0..MaxClock : Post(p, at)
    BY DEF Next
<1> DEFINE m == [resource |-> p.resource, id |-> p.id, kind |-> p.kind, at |-> at,
                 value |-> p.value, cause |-> p.cause, serial |-> recorded + 1]
           k == Key(m.resource, m.id)
<1>2. /\ recorded \in Nat /\ recorded < MaxMetrics /\ recorded' = recorded + 1
      /\ metrics' = [metrics EXCEPT ![k] = Append(@, m)]
    BY <1>1 DEF Post, RecordMetric, TypeOK
<1>3. p.resource \in Resources /\ p.id \in Ids /\ m \in Metric
    BY <1>2, PostedAssumption, BoundsAssumption DEF Metric
<1>4. k \in Keys
    BY <1>3 DEF Keys
<1>5. metrics \in [Keys -> Seq(Metric)] /\ metrics[k] \in Seq(Metric)
    BY <1>4 DEF TypeOK
<1> HIDE DEF m, k
<1>6. /\ Append(metrics[k], m) \in Seq(Metric)
      /\ Len(Append(metrics[k], m)) = Len(metrics[k]) + 1
      /\ \A i \in 1..Len(metrics[k]) : Append(metrics[k], m)[i] = metrics[k][i]
      /\ Append(metrics[k], m)[Len(metrics[k]) + 1] = m
    BY <1>3, <1>5, AppendFacts
<1>7. /\ metrics' \in [Keys -> Seq(Metric)]
      /\ metrics'[k] = Append(metrics[k], m)
      /\ \A l \in Keys \ {k} : metrics'[l] = metrics[l]
    BY <1>2, <1>4, <1>5, <1>6
<1>8. DOMAIN metrics[k] = 1..Len(metrics[k]) /\ Len(metrics[k]) \in Nat
    BY <1>5
<1>9. DOMAIN metrics'[k] = 1..(Len(metrics[k]) + 1)
    BY <1>6, <1>7
<1>10. Key(m.resource, m.id) = k /\ m.serial = recorded'
    BY <1>2 DEF k, m
<1>11. recorded' \in 1..MaxMetrics
    BY <1>2, BoundsAssumption
<1> QED BY <1>2, <1>3, <1>4, <1>6, <1>7, <1>8, <1>9, <1>10, <1>11

LEMMA Invariants == Spec => [](TypeOK /\ SerialInv)
<1>1. Init => TypeOK /\ SerialInv
    <2> SUFFICES ASSUME Init PROVE TypeOK /\ SerialInv
        OBVIOUS
    <2>1. metrics = [k \in Keys |-> <<>>] /\ recorded = 0
        BY DEF Init
    <2>2. metrics \in [Keys -> Seq(Metric)] /\ \A k \in Keys : DOMAIN metrics[k] = {}
        BY <2>1
    <2>3. {m.serial : m \in Stored} = 1..recorded
        BY <2>1, <2>2 DEF Stored, ToSet
    <2> QED BY <2>1, <2>2, <2>3, BoundsAssumption DEF TypeOK, SerialInv
<1>2. TypeOK /\ SerialInv /\ [Next]_vars => (TypeOK /\ SerialInv)'
    <2> SUFFICES ASSUME TypeOK, SerialInv, [Next]_vars PROVE (TypeOK /\ SerialInv)'
        OBVIOUS
    <2>1. CASE Next
        <3>1. PICK k \in Keys, m \in Metric :
                  /\ Key(m.resource, m.id) = k
                  /\ recorded' = recorded + 1 /\ recorded' \in 1..MaxMetrics /\ m.serial = recorded'
                  /\ metrics' \in [Keys -> Seq(Metric)]
                  /\ \A l \in Keys \ {k} : metrics'[l] = metrics[l]
                  /\ DOMAIN metrics'[k] = 1..(Len(metrics[k]) + 1)
                  /\ Len(metrics[k]) \in Nat
                  /\ \A i \in DOMAIN metrics[k] :
                        i \in 1..Len(metrics[k]) /\ metrics'[k][i] = metrics[k][i]
                  /\ metrics'[k][Len(metrics[k]) + 1] = m
            BY <2>1, PostFacts
        <3> DEFINE new == Len(metrics[k]) + 1
        <3>2. recorded \in Nat /\ metrics \in [Keys -> Seq(Metric)]
            BY DEF TypeOK
        <3>3. \A l \in Keys : \A i \in DOMAIN metrics'[l] :
                 \/ i \in DOMAIN metrics[l] /\ metrics'[l][i] = metrics[l][i]
                 \/ l = k /\ i = new /\ metrics'[l][i] = m
            <4> SUFFICES ASSUME NEW l \in Keys, NEW i \in DOMAIN metrics'[l]
                         PROVE  \/ i \in DOMAIN metrics[l] /\ metrics'[l][i] = metrics[l][i]
                                \/ l = k /\ i = new /\ metrics'[l][i] = m
                OBVIOUS
            <4>1. CASE l # k
                BY <3>1, <4>1
            <4>2. CASE l = k
                <5>1. DOMAIN metrics[k] = 1..Len(metrics[k])
                    BY <3>2
                <5>2. i \in 1..Len(metrics[k]) \/ i = new
                    BY <3>1, <4>2
                <5> QED BY <3>1, <4>2, <5>1, <5>2
            <4> QED BY <4>1, <4>2
        <3>4. \A l \in Keys : \A i \in DOMAIN metrics[l] :
                 i \in DOMAIN metrics'[l] /\ metrics'[l][i] = metrics[l][i]
            <4> SUFFICES ASSUME NEW l \in Keys, NEW i \in DOMAIN metrics[l]
                         PROVE  i \in DOMAIN metrics'[l] /\ metrics'[l][i] = metrics[l][i]
                OBVIOUS
            <4>1. CASE l # k
                BY <3>1, <4>1
            <4>2. CASE l = k
                BY <3>1, <4>2
            <4> QED BY <4>1, <4>2
        <3>5. \A l \in Keys : \A i \in DOMAIN metrics[l] :
                 metrics[l][i].serial \in Nat /\ metrics[l][i].serial <= recorded
            BY <3>2 DEF SerialInv
        <3>6. SerialInv'
            <4>1. ASSUME NEW l \in Keys, NEW i \in DOMAIN metrics'[l]
                  PROVE  metrics'[l][i].serial \in 1..recorded'
                BY <3>1, <3>2, <3>3 DEF SerialInv
            <4>2. ASSUME NEW l \in Keys, NEW j \in Keys, NEW i \in DOMAIN metrics'[l],
                         NEW h \in DOMAIN metrics'[j],
                         metrics'[l][i].serial = metrics'[j][h].serial
                  PROVE  l = j /\ i = h
                <5>1. CASE i \in DOMAIN metrics[l] /\ metrics'[l][i] = metrics[l][i]
                    <6>1. CASE h \in DOMAIN metrics[j] /\ metrics'[j][h] = metrics[j][h]
                        BY <4>2, <5>1, <6>1 DEF SerialInv
                    <6>2. CASE j = k /\ h = new /\ metrics'[j][h] = m
                        BY <3>1, <3>2, <3>5, <4>2, <5>1, <6>2
                    <6> QED BY <3>3, <6>1, <6>2
                <5>2. CASE l = k /\ i = new /\ metrics'[l][i] = m
                    BY <3>1, <3>2, <3>3, <3>5, <4>2, <5>2
                <5> QED BY <3>3, <5>1, <5>2
            <4> QED BY <4>1, <4>2 DEF SerialInv
        <3>7. ASSUME NEW l \in Keys, NEW i \in DOMAIN metrics'[l]
              PROVE  /\ Key(metrics'[l][i].resource, metrics'[l][i].id) = l
                     /\ i > 1 => metrics'[l][i - 1].serial < metrics'[l][i].serial
            <4>1. CASE i \in DOMAIN metrics[l] /\ metrics'[l][i] = metrics[l][i]
                <5>1. i \in Nat /\ (i > 1 => i - 1 \in DOMAIN metrics[l])
                    <6>1. metrics[l] \in Seq(Metric)
                        BY <3>2
                    <6> QED BY <4>1, <6>1
                <5>2. i > 1 => metrics'[l][i - 1] = metrics[l][i - 1]
                    BY <3>4, <5>1
                <5> QED BY <4>1, <5>2 DEF TypeOK
            <4>2. CASE l = k /\ i = new /\ metrics'[l][i] = m
                <5>1. i > 1 => i - 1 \in DOMAIN metrics[k] /\ metrics'[k][i - 1] = metrics[k][i - 1]
                    <6>1. DOMAIN metrics[k] = 1..Len(metrics[k])
                        BY <3>2
                    <6> QED BY <3>1, <3>4, <4>2, <6>1
                <5> QED BY <3>1, <3>2, <3>5, <4>2, <5>1
            <4> QED BY <3>3, <4>1, <4>2
        <3>8. {x.serial : x \in Stored'} = 1..recorded'
            <4>1. ASSUME NEW n \in 1..recorded' PROVE \E x \in Stored' : x.serial = n
                <5>1. CASE n = recorded'
                    <6>1. m \in Stored'
                        BY <3>1 DEF Stored, ToSet
                    <6> QED BY <3>1, <5>1, <6>1
                <5>2. CASE n \in 1..recorded
                    <6>1. PICK x \in Stored : x.serial = n
                        BY <5>2 DEF TypeOK
                    <6>2. PICK l \in Keys : \E i \in DOMAIN metrics[l] : x = metrics[l][i]
                        BY <6>1 DEF Stored, ToSet
                    <6>3. x \in Stored'
                        BY <3>4, <6>2 DEF Stored, ToSet
                    <6> QED BY <6>1, <6>3
                <5> QED BY <3>1, <3>2, <5>1, <5>2
            <4>2. ASSUME NEW x \in Stored' PROVE x.serial \in 1..recorded'
                <5>1. PICK l \in Keys : \E i \in DOMAIN metrics'[l] : x = metrics'[l][i]
                    BY <4>2 DEF Stored, ToSet
                <5> QED BY <3>6, <5>1 DEF SerialInv
            <4> QED BY <4>1, <4>2
        <3>9. recorded' \in 0..MaxMetrics /\ metrics' \in [Keys -> Seq(Metric)]
            BY <3>1
        <3> QED BY <3>6, <3>7, <3>8, <3>9 DEF TypeOK
    <2>2. CASE UNCHANGED vars
        BY <2>2 DEF vars, TypeOK, SerialInv, Stored
    <2> QED BY <2>1, <2>2
<1> QED BY <1>1, <1>2, PTL DEF Spec

\* Every metric recorded is stored once, under its own key, in recording order.
THEOREM TypeCorrect == Spec => []TypeOK
<1>1. TypeOK /\ SerialInv => TypeOK
    OBVIOUS
<1> QED BY <1>1, Invariants, PTL

----------------------------------------------------------------------------
(* Induction, and loops *)

\* A set of natural numbers that is not empty has a least element: of the intervals
\* 0 .. n - 1 of its elements n one has no other as a subset.
LEMMA LeastNat ==
    ASSUME NEW T \in SUBSET Nat, T # {}
    PROVE  \E m \in T : \A n \in T : m <= n
<1> DEFINE below(n) == 0..(n - 1)
           U == {below(n) : n \in T}
<1>1. U \subseteq FiniteSubsetsOf(Nat)
    <2> SUFFICES ASSUME NEW n \in T PROVE below(n) \subseteq Nat /\ IsFiniteSet(below(n))
        BY DEF FiniteSubsetsOf
    <2> QED BY FS_Interval
<1>2. IsWellFoundedOn(StrictSubsetOrdering(Nat), FiniteSubsetsOf(Nat))
    BY FS_StrictSubsetOrderingWellFounded
<1> HIDE DEF U
<1>3. PICK x \in U : \A y \in U : ~(<<y, x>> \in StrictSubsetOrdering(Nat))
    <2>1. U # {}
        BY DEF U
    <2> QED BY <1>1, <1>2, <2>1, WFMin
<1>4. PICK m \in T : x = below(m)
    BY <1>3 DEF U
<1>5. ASSUME NEW n \in T, n < m PROVE FALSE
    <2>1. below(n) \subseteq below(m) /\ below(n) # below(m) /\ below(m) \subseteq Nat
        <3>1. n \in below(m) /\ n \notin below(n)
            BY <1>5
        <3> QED BY <1>5, <3>1
    <2>2. below(n) \in U
        BY DEF U
    <2> QED BY <1>3, <1>4, <2>1, <2>2 DEF StrictSubsetOrdering
<1> QED BY <1>5

\* What holds of 0, and of a number's successor when it holds of the number, holds of all.
LEMMA Induction ==
    ASSUME NEW P, 0 \in P, \A n \in Nat : n \in P => n + 1 \in P
    PROVE  Nat \subseteq P
<1> SUFFICES ASSUME Nat \ P # {} PROVE FALSE
    OBVIOUS
<1>1. PICK m \in Nat \ P : \A n \in Nat \ P : m <= n
    BY LeastNat
<1>2. m - 1 \in Nat /\ m - 1 \in P
    BY <1>1
<1> QED BY <1>1, <1>2

\* The same for the numbers up to a bound.
LEMMA InductionUpTo ==
    ASSUME NEW N \in Nat, NEW P, 0 \in P, \A i \in 1..N : i - 1 \in P => i \in P
    PROVE  0..N \subseteq P
<1> DEFINE Q == {n \in Nat : n <= N => n \in P}
<1>1. 0 \in Q
    OBVIOUS
<1>2. ASSUME NEW n \in Nat, n \in Q PROVE n + 1 \in Q
    <2>1. CASE n + 1 <= N
        <3>1. n + 1 \in 1..N /\ (n + 1) - 1 = n
            BY <2>1
        <3> QED BY <1>2, <3>1
    <2> QED BY <2>1
<1> HIDE DEF Q
<1>3. Nat \subseteq Q
    BY <1>1, <1>2, Induction
<1> QED BY <1>3 DEF Q

\* The values a loop variable takes: a at first, and after turn i what F[i] makes of the
\* value before it.
Follows(g, S, N, a, F) ==
    g \in [0..N -> S] /\ g[0] = a /\ \A i \in 1..N : g[i] = F[i][g[i - 1]]

\* Every loop of N turns has such values.
LEMMA LoopRuns ==
    ASSUME NEW S, NEW N \in Nat, NEW a \in S, NEW F \in [1..N -> [S -> S]]
    PROVE  \E g : Follows(g, S, N, a, F)
<1> DEFINE Runs(n) == {g \in [0..n -> S] : g[0] = a /\ \A i \in 1..n : g[i] = F[i][g[i - 1]]}
           P == {n \in Nat : n <= N => Runs(n) # {}}
<1>1. Runs(0) # {}
    <2>1. [i \in 0..0 |-> a] \in Runs(0)
        OBVIOUS
    <2> QED BY <2>1
<1>2. ASSUME NEW n \in Nat, n + 1 <= N, Runs(n) # {} PROVE Runs(n + 1) # {}
    <2>1. PICK g \in Runs(n) : TRUE
        BY <1>2
    <2>2. g \in [0..n -> S] /\ g[0] = a /\ \A i \in 1..n : g[i] = F[i][g[i - 1]]
        BY <2>1
    <2>3. g[n] \in S /\ F[n + 1] \in [S -> S]
        BY <1>2, <2>2
    <2> DEFINE x == F[n + 1][g[n]]
               h == [i \in 0..(n + 1) |-> IF i = n + 1 THEN x ELSE g[i]]
    <2>4. x \in S
        BY <2>3
    <2>5. ASSUME NEW i \in 1..(n + 1) PROVE h[i] = F[i][h[i - 1]]
        <3>1. CASE i = n + 1
            <4>1. h[i] = x /\ h[i - 1] = g[n]
                BY <3>1
            <4> QED BY <3>1, <4>1
        <3>2. CASE i \in 1..n
            <4>1. h[i] = g[i] /\ h[i - 1] = g[i - 1]
                BY <3>2
            <4> QED BY <2>2, <3>2, <4>1
        <3> QED BY <3>1, <3>2
    <2> HIDE DEF x
    <2>6. h \in [0..(n + 1) -> S]
        <3>1. \A i \in 0..(n + 1) : i # n + 1 => i \in 0..n
            OBVIOUS
        <3> QED BY <2>2, <2>4, <3>1
    <2>7. h[0] = a
        BY <2>2
    <2> HIDE DEF h
    <2>8. h \in Runs(n + 1)
        BY <2>5, <2>6, <2>7
    <2> QED BY <2>8
<1> HIDE DEF Runs
<1>3. 0 \in P /\ \A n \in Nat : n \in P => n + 1 \in P
    BY <1>1, <1>2
<1>4. Nat \subseteq P
    <2> HIDE DEF P
    <2> QED BY <1>3, Induction
<1>5. Runs(N) # {}
    BY <1>4
<1>6. PICK g \in Runs(N) : TRUE
    BY <1>5
<1> QED BY <1>6 DEF Runs, Follows

----------------------------------------------------------------------------
(* What a filter keeps *)

LEMMA FilteringTurns ==
    ASSUME NEW S, NEW s \in Seq(S), NEW T
    PROVE  /\ Filtering(s, T) \in [0..Len(s) -> Seq(S)]
           /\ Filtering(s, T)[0] = <<>>
           /\ \A n \in 1..Len(s) :
                 Filtering(s, T)[n] = IF s[n] \in T THEN Append(Filtering(s, T)[n - 1], s[n])
                                      ELSE Filtering(s, T)[n - 1]
<1> DEFINE turn(n, kept) == IF s[n] \in T THEN Append(kept, s[n]) ELSE kept
           body(kept) == [n \in 0..Len(s) |-> IF n = 0 THEN <<>> ELSE turn(n, kept[n - 1])]
           K == Filtering(s, T)
<1>1. K = CHOOSE kept : kept = body(kept)
    BY Zenon DEF Filtering
<1>2. PICK N \in Nat : N = Len(s)
    OBVIOUS
<1>3. ASSUME NEW n \in 1..N, NEW kept \in Seq(S) PROVE turn(n, kept) \in Seq(S)
    <2>1. s[n] \in S
        BY <1>2
    <2> QED BY <2>1
<1> HIDE DEF turn
<1>4. <<>> \in Seq(S) /\ 0 \in 0..N
    OBVIOUS
<1>5. PICK g \in [0..N -> Seq(S)] : g[0] = <<>> /\ \A n \in 1..N : g[n] = turn(n, g[n - 1])
    <2> DEFINE F == [n \in 1..N |-> [kept \in Seq(S) |-> turn(n, kept)]]
    <2>1. F \in [1..N -> [Seq(S) -> Seq(S)]]
        BY <1>3
    <2>2. \A n \in 1..N, kept \in Seq(S) : F[n][kept] = turn(n, kept)
        OBVIOUS
    <2> HIDE DEF F
    <2>3. PICK g : Follows(g, Seq(S), N, <<>>, F)
        BY <1>4, <2>1, LoopRuns
    <2>4. g \in [0..N -> Seq(S)] /\ g[0] = <<>> /\ \A n \in 1..N : g[n] = F[n][g[n - 1]]
        BY <2>3 DEF Follows
    <2>5. \A n \in 1..N : g[n - 1] \in Seq(S)
        <3>1. \A n \in 1..N : n - 1 \in 0..N
            OBVIOUS
        <3> QED BY <2>4, <3>1
    <2> QED BY <2>2, <2>4, <2>5
<1>6. g = body(g)
    <2>1. \A n \in 0..N : n = 0 \/ n \in 1..N
        OBVIOUS
    <2> QED BY <1>2, <1>5, <2>1
<1> HIDE DEF K
<1>7. K = body(K)
    BY <1>1, <1>6
<1>8. K[0] = <<>> /\ \A n \in 1..N : K[n] = turn(n, K[n - 1])
    BY <1>2, <1>7
<1>9. \A n \in 0..N : K[n] \in Seq(S)
    <2> DEFINE P == {n \in 0..N : K[n] \in Seq(S)}
    <2>1. 0 \in P
        BY Zenon, <1>4, <1>8
    <2>2. ASSUME NEW n \in 1..N, n - 1 \in P PROVE n \in P
        <3>1. K[n - 1] \in Seq(S)
            BY <2>2
        <3>2. K[n] \in Seq(S)
            BY <1>3, <1>8, <3>1
        <3>3. n \in 0..N
            OBVIOUS
        <3> QED BY <3>2, <3>3
    <2> HIDE DEF P
    <2>3. 0..N \subseteq P
        BY <2>1, <2>2, InductionUpTo
    <2> QED BY <2>3 DEF P
<1>10. K \in [0..N -> Seq(S)]
    BY <1>2, <1>7, <1>9
<1> QED BY <1>2, <1>8, <1>10 DEF turn, K

\* What an append does to the elements of a sequence, and to their being different.
LEMMA AppendSet ==
    ASSUME NEW S, NEW s \in Seq(S), NEW e \in S
    PROVE  /\ ToSet(Append(s, e)) = ToSet(s) \cup {e}
           /\ IsInjective(s) /\ e \notin ToSet(s) => IsInjective(Append(s, e))
<1> DEFINE t == Append(s, e)
<1>1. /\ Len(s) \in Nat /\ DOMAIN s = 1..Len(s)
      /\ DOMAIN t = 1..(Len(s) + 1)
      /\ \A i \in 1..Len(s) : t[i] = s[i]
      /\ t[Len(s) + 1] = e
    BY AppendFacts
<1> HIDE DEF t
<1>2. \A i \in DOMAIN t : i \in 1..Len(s) \/ i = Len(s) + 1
    BY <1>1
<1>3. ToSet(t) = ToSet(s) \cup {e}
    BY <1>1, <1>2 DEF ToSet
<1>4. IsInjective(s) /\ e \notin ToSet(s) => IsInjective(t)
    BY <1>1, <1>2 DEF ToSet, IsInjective
<1> QED BY <1>3, <1>4 DEF t

\* A filter keeps the elements that are in the set, as often as they are there.
LEMMA FilterFacts ==
    ASSUME NEW S, NEW s \in Seq(S), NEW T
    PROVE  /\ Filter(s, T) \in Seq(S)
           /\ ToSet(Filter(s, T)) = ToSet(s) \cap T
           /\ IsInjective(s) => IsInjective(Filter(s, T))
<1> DEFINE K == Filtering(s, T)
<1>1. PICK N \in Nat : N = Len(s) /\ DOMAIN s = 1..N
    OBVIOUS
<1>2. /\ K \in [0..N -> Seq(S)]
      /\ K[0] = <<>>
      /\ \A n \in 1..N : K[n] = IF s[n] \in T THEN Append(K[n - 1], s[n]) ELSE K[n - 1]
    BY <1>1, FilteringTurns
<1> HIDE DEF K
<1> DEFINE Had(n) == {s[i] : i \in 1..n}
           P == {n \in 0..N : /\ ToSet(K[n]) = Had(n) \cap T
                              /\ IsInjective(s) => IsInjective(K[n])}
<1>3. 0 \in P
    <2>1. K[0] = <<>> /\ DOMAIN K[0] = {}
        BY <1>2
    <2> QED BY <2>1 DEF ToSet, IsInjective
<1>4. ASSUME NEW n \in 1..N, n - 1 \in P PROVE n \in P
    <2>1. K[n - 1] \in Seq(S) /\ s[n] \in S /\ n \in 0..N
        BY <1>1, <1>2
    <2>2. ToSet(K[n - 1]) = Had(n - 1) \cap T /\ (IsInjective(s) => IsInjective(K[n - 1]))
        BY <1>4
    <2>3. Had(n) = Had(n - 1) \cup {s[n]}
        <3>1. \A i \in 1..n : i = n \/ i \in 1..(n - 1)
            OBVIOUS
        <3>2. n \in 1..n /\ \A i \in 1..(n - 1) : i \in 1..n
            OBVIOUS
        <3> QED BY <3>1, <3>2
    <2>4. IsInjective(s) => s[n] \notin Had(n - 1)
        <3>1. \A i \in 1..(n - 1) : i \in DOMAIN s /\ i # n
            BY <1>1
        <3> QED BY <1>1, <3>1 DEF IsInjective
    <2> HIDE DEF Had
    <2>5. CASE s[n] \in T
        <3>1. K[n] = Append(K[n - 1], s[n])
            BY <1>2, <2>5
        <3>2. /\ ToSet(K[n]) = ToSet(K[n - 1]) \cup {s[n]}
              /\ IsInjective(K[n - 1]) /\ s[n] \notin ToSet(K[n - 1]) => IsInjective(K[n])
            BY <2>1, <3>1, AppendSet
        <3> QED BY <2>1, <2>2, <2>3, <2>4, <2>5, <3>2
    <2>6. CASE s[n] \notin T
        <3>1. K[n] = K[n - 1]
            BY <1>2, <2>6
        <3> QED BY <2>1, <2>2, <2>3, <2>6, <3>1
    <2> QED BY <2>5, <2>6
<1> HIDE DEF P
<1>5. 0..N \subseteq P /\ N \in 0..N
    BY <1>3, <1>4, InductionUpTo
<1>6. ToSet(s) = Had(N)
    BY <1>1 DEF ToSet
<1>7. Filter(s, T) = K[N]
    BY <1>1 DEF Filter, K
<1> QED BY <1>2, <1>5, <1>6, <1>7 DEF P

\* A sequence of different elements is as long as it has elements.
LEMMA LenCounts ==
    ASSUME NEW S, NEW t \in Seq(S), IsInjective(t)
    PROVE  Len(t) = Cardinality(ToSet(t))
<1>1. Len(t) \in Nat /\ t \in [1..Len(t) -> ToSet(t)]
    BY DEF ToSet
<1>2. t \in Bijection(1..Len(t), ToSet(t))
    BY <1>1 DEF Bijection, Injection, Surjection, IsInjective, ToSet
<1>3. ExistsBijection(1..Len(t), ToSet(t))
    BY <1>2 DEF ExistsBijection
<1> QED BY <1>1, <1>3, FS_CountingElements

\* When the elements of a sequence are different, the filter keeps as many as are in the set.
LEMMA FilterCounts ==
    ASSUME NEW S, NEW s \in Seq(S), NEW T, IsInjective(s)
    PROVE  Len(Filter(s, T)) = Cardinality(ToSet(s) \cap T)
<1>1. Filter(s, T) \in Seq(S) /\ ToSet(Filter(s, T)) = ToSet(s) \cap T /\ IsInjective(Filter(s, T))
    BY FilterFacts
<1> QED BY <1>1, LenCounts

----------------------------------------------------------------------------
(* What a query gathers *)

\* The metrics of the keys before a place in the order that match the query.
GatheredFrom(q, order, n) ==
    {m \in Matching(q) : \E i \in 1..n : KeyMatches(order[i], q) /\ m \in ToSet(metrics[order[i]])}

LEMMA GatheringTurns ==
    ASSUME metrics \in [Keys -> Seq(Metric)], NEW q, NEW order \in Seq(Keys)
    PROVE  /\ Gathering(q, order) \in [0..Len(order) -> Seq(Metric)]
           /\ Gathering(q, order)[0] = <<>>
           /\ \A n \in 1..Len(order) :
                 Gathering(q, order)[n] =
                     IF KeyMatches(order[n], q)
                     THEN Gathering(q, order)[n - 1] \o Filter(metrics[order[n]], Matching(q))
                     ELSE Gathering(q, order)[n - 1]
<1> DEFINE turn(n, found) == IF KeyMatches(order[n], q)
                             THEN found \o Filter(metrics[order[n]], Matching(q)) ELSE found
           body(found) == [n \in 0..Len(order) |-> IF n = 0 THEN <<>> ELSE turn(n, found[n - 1])]
           K == Gathering(q, order)
<1>1. K = CHOOSE found : found = body(found)
    BY Zenon DEF Gathering
<1>2. PICK N \in Nat : N = Len(order)
    OBVIOUS
<1>3. ASSUME NEW n \in 1..N, NEW found \in Seq(Metric) PROVE turn(n, found) \in Seq(Metric)
    <2>1. order[n] \in Keys
        BY <1>2
    <2>2. Filter(metrics[order[n]], Matching(q)) \in Seq(Metric)
        BY <2>1, FilterFacts
    <2> QED BY <2>2
<1> HIDE DEF turn
<1>4. <<>> \in Seq(Metric) /\ 0 \in 0..N
    OBVIOUS
<1>5. PICK g \in [0..N -> Seq(Metric)] : g[0] = <<>> /\ \A n \in 1..N : g[n] = turn(n, g[n - 1])
    <2> DEFINE F == [n \in 1..N |-> [found \in Seq(Metric) |-> turn(n, found)]]
    <2>1. F \in [1..N -> [Seq(Metric) -> Seq(Metric)]]
        BY <1>3
    <2>2. \A n \in 1..N, found \in Seq(Metric) : F[n][found] = turn(n, found)
        OBVIOUS
    <2> HIDE DEF F
    <2>3. PICK g : Follows(g, Seq(Metric), N, <<>>, F)
        BY <1>4, <2>1, LoopRuns
    <2>4. g \in [0..N -> Seq(Metric)] /\ g[0] = <<>> /\ \A n \in 1..N : g[n] = F[n][g[n - 1]]
        BY <2>3 DEF Follows
    <2>5. \A n \in 1..N : g[n - 1] \in Seq(Metric)
        <3>1. \A n \in 1..N : n - 1 \in 0..N
            OBVIOUS
        <3> QED BY <2>4, <3>1
    <2> QED BY <2>2, <2>4, <2>5
<1>6. g = body(g)
    <2>1. \A n \in 0..N : n = 0 \/ n \in 1..N
        OBVIOUS
    <2> QED BY <1>2, <1>5, <2>1
<1> HIDE DEF K
<1>7. K = body(K)
    BY <1>1, <1>6
<1>8. K[0] = <<>> /\ \A n \in 1..N : K[n] = turn(n, K[n - 1])
    <2>1. \A n \in 1..N : n \in 0..N /\ n # 0
        OBVIOUS
    <2> QED BY <1>2, <1>4, <1>7, <2>1
<1>9. \A n \in 0..N : K[n] \in Seq(Metric)
    <2> DEFINE P == {n \in 0..N : K[n] \in Seq(Metric)}
    <2>1. 0 \in P
        BY Zenon, <1>4, <1>8
    <2>2. ASSUME NEW n \in 1..N, n - 1 \in P PROVE n \in P
        <3>1. K[n - 1] \in Seq(Metric)
            BY <2>2
        <3>2. K[n] \in Seq(Metric)
            BY <1>3, <1>8, <3>1
        <3>3. n \in 0..N
            OBVIOUS
        <3> QED BY <3>2, <3>3
    <2> HIDE DEF P
    <2>3. 0..N \subseteq P
        BY <2>1, <2>2, InductionUpTo
    <2> QED BY <2>3 DEF P
<1>10. K \in [0..N -> Seq(Metric)]
    BY <1>2, <1>7, <1>9
<1> QED BY <1>2, <1>8, <1>10 DEF turn, K

\* What a concatenation does to the elements of two sequences, and to their being different.
LEMMA ConcatSet ==
    ASSUME NEW S, NEW s \in Seq(S), NEW t \in Seq(S)
    PROVE  /\ s \o t \in Seq(S) /\ Len(s \o t) = Len(s) + Len(t)
           /\ \A i \in 1..Len(s) : (s \o t)[i] = s[i]
           /\ \A i \in 1..Len(t) : (s \o t)[Len(s) + i] = t[i]
           /\ ToSet(s \o t) = ToSet(s) \cup ToSet(t)
           /\ IsInjective(s) /\ IsInjective(t) /\ ToSet(s) \cap ToSet(t) = {} => IsInjective(s \o t)
<1> DEFINE u == s \o t
<1>1. /\ Len(s) \in Nat /\ Len(t) \in Nat /\ DOMAIN s = 1..Len(s) /\ DOMAIN t = 1..Len(t)
      /\ u \in Seq(S) /\ Len(u) = Len(s) + Len(t) /\ DOMAIN u = 1..(Len(s) + Len(t))
      /\ \A i \in 1..Len(s) : u[i] = s[i]
      /\ \A i \in 1..Len(t) : u[Len(s) + i] = t[i]
    OBVIOUS
<1> HIDE DEF u
<1>2. /\ \A i \in 1..Len(s) : i \in DOMAIN u
      /\ \A i \in 1..Len(t) : Len(s) + i \in DOMAIN u
    BY <1>1
<1>3. \A i \in DOMAIN u : i \in 1..Len(s) \/ i - Len(s) \in 1..Len(t)
    BY <1>1
<1>4. \A i \in DOMAIN u : i - Len(s) \in 1..Len(t) => u[i] = t[i - Len(s)]
    <2> SUFFICES ASSUME NEW i \in DOMAIN u, i - Len(s) \in 1..Len(t) PROVE u[i] = t[i - Len(s)]
        OBVIOUS
    <2>1. Len(s) + (i - Len(s)) = i
        BY <1>1
    <2> QED BY <1>1, <2>1
<1>5. ToSet(u) = ToSet(s) \cup ToSet(t)
    <2>1. ToSet(u) \subseteq ToSet(s) \cup ToSet(t)
        BY <1>1, <1>3, <1>4 DEF ToSet
    <2>2. ToSet(s) \subseteq ToSet(u)
        BY <1>1, <1>2 DEF ToSet
    <2>3. ToSet(t) \subseteq ToSet(u)
        BY <1>1, <1>2 DEF ToSet
    <2> QED BY <2>1, <2>2, <2>3
<1>6. ASSUME IsInjective(s), IsInjective(t), ToSet(s) \cap ToSet(t) = {} PROVE IsInjective(u)
    <2> SUFFICES ASSUME NEW i \in DOMAIN u, NEW j \in DOMAIN u, u[i] = u[j] PROVE i = j
        BY DEF IsInjective
    <2>1. \A h \in 1..Len(s) : u[h] \in ToSet(s)
        BY <1>1 DEF ToSet
    <2>2. \A h \in DOMAIN u : h - Len(s) \in 1..Len(t) => u[h] \in ToSet(t)
        BY <1>1, <1>4 DEF ToSet
    <2>3. CASE i \in 1..Len(s) /\ j \in 1..Len(s)
        BY <1>1, <1>6, <2>3 DEF IsInjective
    <2>4. CASE i - Len(s) \in 1..Len(t) /\ j - Len(s) \in 1..Len(t)
        <3>1. i - Len(s) = j - Len(s)
            BY <1>1, <1>4, <1>6, <2>4 DEF IsInjective
        <3> QED BY <1>1, <3>1
    <2> QED BY <1>3, <1>6, <2>1, <2>2, <2>3, <2>4
<1> QED BY <1>1, <1>5, <1>6 DEF u

\* A metric is under one key, and there once.
LEMMA StoredOnce ==
    ASSUME SerialInv, NEW k \in Keys
    PROVE  /\ IsInjective(metrics[k])
           /\ \A l \in Keys \ {k} : ToSet(metrics[k]) \cap ToSet(metrics[l]) = {}
BY DEF SerialInv, IsInjective, ToSet

\* An order of the map's keys has each key with a metric, and once.
LEMMA OrderFacts ==
    ASSUME TypeOK, SerialInv, NEW order \in Orders
    PROVE  /\ order \in Seq(Keys) /\ IsInjective(order)
           /\ \A k \in Keys : metrics[k] # <<>> => \E i \in 1..Len(order) : order[i] = k
<1> DEFINE K == {k \in Keys : metrics[k] # <<>>}
           f == [k \in K |-> metrics[k][1].serial]
<1>1. \A k \in K : 1 \in DOMAIN metrics[k]
    <2> SUFFICES ASSUME NEW k \in K PROVE 1 \in DOMAIN metrics[k]
        OBVIOUS
    <2>1. metrics[k] \in Seq(Metric) /\ metrics[k] # <<>>
        BY DEF TypeOK
    <2> QED BY <2>1
<1>2. f \in Injection(K, 1..recorded)
    <2>1. f \in [K -> 1..recorded]
        BY <1>1 DEF SerialInv
    <2>2. IsInjective(f)
        BY <1>1 DEF SerialInv, IsInjective
    <2> QED BY <2>1, <2>2 DEF Injection
<1>3. IsFiniteSet(K) /\ Cardinality(K) \in Nat
    <2>1. IsFiniteSet(1..recorded)
        <3>1. recorded \in Int
            BY DEF TypeOK
        <3> QED BY <3>1, FS_Interval
    <2>2. IsFiniteSet(K)
        BY <1>2, <2>1, FS_Injection
    <2> QED BY <2>2, FS_CardinalityType
<1> HIDE DEF f
<1>4. PICK N \in Nat : N = Cardinality(K)
    BY <1>3
<1>5. order \in [1..N -> K] /\ \A i, j \in 1..N : i # j => order[i] # order[j]
    BY <1>4 DEF Orders, SetToSeqs
<1>6. order \in Injection(1..N, K)
    BY <1>5 DEF Injection, IsInjective
<1>7. Cardinality(1..N) = N
    BY FS_Interval
<1> HIDE DEF K
<1>8. order \in Surjection(1..N, K)
    BY <1>3, <1>4, <1>6, <1>7, FS_Injection
<1>9. order \in Seq(Keys) /\ Len(order) = N
    BY <1>5 DEF K
<1>10. ASSUME NEW k \in Keys, metrics[k] # <<>> PROVE \E i \in 1..N : order[i] = k
    BY <1>8, <1>10 DEF Surjection, K
<1> QED BY <1>6, <1>9, <1>10 DEF Injection

\* The loop through the keys gathers the metrics that match, each once.
LEMMA ResultsFacts ==
    ASSUME TypeOK, SerialInv, NEW q, NEW order \in Seq(Keys), IsInjective(order)
    PROVE  /\ Results(q, order) \in Seq(Metric)
           /\ ToSet(Results(q, order)) = GatheredFrom(q, order, Len(order))
           /\ IsInjective(Results(q, order))
<1> DEFINE K == Gathering(q, order)
<1>1. PICK N \in Nat : N = Len(order) /\ DOMAIN order = 1..N /\ \A n \in 1..N : order[n] \in Keys
    OBVIOUS
<1>2. metrics \in [Keys -> Seq(Metric)]
    BY DEF TypeOK
<1>3. /\ K \in [0..N -> Seq(Metric)]
      /\ K[0] = <<>>
      /\ \A n \in 1..N : K[n] = IF KeyMatches(order[n], q)
                                THEN K[n - 1] \o Filter(metrics[order[n]], Matching(q))
                                ELSE K[n - 1]
    BY <1>1, <1>2, GatheringTurns
<1> HIDE DEF K
<1> DEFINE P == {n \in 0..N : ToSet(K[n]) = GatheredFrom(q, order, n) /\ IsInjective(K[n])}
<1>4. 0 \in P
    <2>1. K[0] = <<>> /\ DOMAIN K[0] = {}
        BY <1>3
    <2> QED BY <2>1 DEF ToSet, IsInjective, GatheredFrom
<1>5. ASSUME NEW n \in 1..N, n - 1 \in P PROVE n \in P
    <2> DEFINE k == order[n]
               found == K[n - 1]
               more == Filter(metrics[k], Matching(q))
    <2>1. n \in 0..N /\ k \in Keys /\ found \in Seq(Metric) /\ metrics[k] \in Seq(Metric)
        <3>1. n \in 0..N /\ n - 1 \in 0..N
            OBVIOUS
        <3>2. k \in Keys
            BY <1>1
        <3>3. found \in Seq(Metric)
            BY <1>3, <3>1
        <3>4. metrics[k] \in Seq(Metric)
            BY <1>2, <3>2
        <3> QED BY <3>1, <3>2, <3>3, <3>4
    <2>2. ToSet(found) = GatheredFrom(q, order, n - 1) /\ IsInjective(found)
        BY <1>5
    <2>3. \A i \in 1..n : i = n \/ i \in 1..(n - 1)
        OBVIOUS
    <2>4. n \in 1..n /\ \A i \in 1..(n - 1) : i \in 1..n /\ i \in 1..N /\ i # n
        OBVIOUS
    <2>5. CASE KeyMatches(k, q)
        <3>1. /\ more \in Seq(Metric)
              /\ ToSet(more) = ToSet(metrics[k]) \cap Matching(q)
              /\ IsInjective(more)
            BY <2>1, FilterFacts, StoredOnce
        <3>2. ToSet(found) \cap ToSet(more) = {}
            <4> SUFFICES ASSUME NEW m \in ToSet(found), m \in ToSet(metrics[k]) PROVE FALSE
                BY <3>1
            <4>1. PICK i \in 1..(n - 1) : m \in ToSet(metrics[order[i]])
                BY <2>2 DEF GatheredFrom
            <4>2. order[i] \in Keys \ {k}
                BY <1>1, <2>4 DEF IsInjective
            <4> QED BY <2>1, <4>1, <4>2, StoredOnce
        <3>3. K[n] = found \o more
            BY <1>3, <2>5
        <3> HIDE DEF found, more
        <3>4. ToSet(K[n]) = ToSet(found) \cup ToSet(more) /\ IsInjective(K[n])
            BY <2>1, <2>2, <3>1, <3>2, <3>3, ConcatSet
        <3>5. GatheredFrom(q, order, n) = GatheredFrom(q, order, n - 1) \cup ToSet(more)
            BY <2>3, <2>4, <2>5, <3>1 DEF GatheredFrom
        <3> QED BY <2>1, <2>2, <3>4, <3>5
    <2>6. CASE ~KeyMatches(k, q)
        <3>1. K[n] = found
            BY <1>3, <2>6
        <3>2. GatheredFrom(q, order, n) = GatheredFrom(q, order, n - 1)
            BY <2>3, <2>4, <2>6 DEF GatheredFrom
        <3> QED BY <2>1, <2>2, <3>1, <3>2
    <2> QED BY <2>5, <2>6
<1> HIDE DEF P
<1>6. 0..N \subseteq P /\ N \in 0..N
    BY <1>4, <1>5, InductionUpTo
<1>7. ToSet(K[N]) = GatheredFrom(q, order, N) /\ IsInjective(K[N]) /\ K[N] \in Seq(Metric)
    BY <1>3, <1>6 DEF P
<1>8. Results(q, order) = K[N]
    BY <1>1 DEF Results, K
<1> QED BY <1>1, <1>7, <1>8

----------------------------------------------------------------------------
(* Pages *)

\* A page whose offset is inside is a piece of the results, element by element.
LEMMA PageFacts ==
    ASSUME NEW S, NEW s \in Seq(S), NEW q, q.offset \in Int, q.limit \in Int
    PROVE  LET first == IF q.offset > 0 THEN q.offset ELSE 0
               left == Len(s) - first
               own == Page(s, q)
           IN  /\ first < Len(s) =>
                     /\ own \in Seq(S)
                     /\ Len(own) = IF q.limit \in 1..left THEN q.limit ELSE left
                     /\ \A i \in 1..Len(own) : own[i] = s[first + i]
               /\ ~(first < Len(s)) => own = Limited(s, q)
<1> DEFINE first == IF q.offset > 0 THEN q.offset ELSE 0
           left == Len(s) - first
           t == Skipped(s, q)
<1>1. Len(s) \in Nat /\ first \in Nat
    OBVIOUS
<1>2. ASSUME first < Len(s)
      PROVE  t \in Seq(S) /\ Len(t) = left /\ \A i \in 1..left : t[i] = s[first + i]
    <2>1. CASE q.offset > 0
        <3>1. t = SubSeq(s, q.offset + 1, Len(s))
            BY <1>2, <2>1 DEF Skipped
        <3>2. q.offset + 1 \in 1..Len(s) /\ \A i \in (q.offset + 1)..Len(s) : s[i] \in S
            BY <1>2, <2>1
        <3>3. /\ SubSeq(s, q.offset + 1, Len(s)) \in Seq(S)
              /\ Len(SubSeq(s, q.offset + 1, Len(s))) = Len(s) - q.offset
              /\ \A i \in 1..(Len(s) - q.offset) :
                    SubSeq(s, q.offset + 1, Len(s))[i] = s[q.offset + i]
            BY <3>2
        <3> QED BY <2>1, <3>1, <3>3
    <2>2. CASE ~(q.offset > 0)
        <3>1. t = s
            BY <2>2 DEF Skipped
        <3> QED BY <2>2, <3>1
    <2> QED BY <2>1, <2>2
<1> HIDE DEF t
<1>3. ASSUME first < Len(s)
      PROVE  LET own == Page(s, q)
             IN  /\ own \in Seq(S)
                 /\ Len(own) = IF q.limit \in 1..left THEN q.limit ELSE left
                 /\ \A i \in 1..Len(own) : own[i] = t[i]
    <2>1. Page(s, q) = Limited(t, q)
        BY DEF Page, t
    <2>2. left \in Nat \ {0}
        BY <1>1, <1>3
    <2>3. CASE q.limit > 0 /\ q.limit < Len(t)
        <3>1. Page(s, q) = SubSeq(t, 1, q.limit)
            BY <2>1, <2>3 DEF Limited
        <3>2. /\ SubSeq(t, 1, q.limit) \in Seq(S)
              /\ Len(SubSeq(t, 1, q.limit)) = q.limit
              /\ \A i \in 1..q.limit : SubSeq(t, 1, q.limit)[i] = t[i]
            BY <1>2, <1>3, <2>3
        <3> QED BY <1>2, <1>3, <2>2, <2>3, <3>1, <3>2
    <2>4. CASE ~(q.limit > 0 /\ q.limit < Len(t))
        <3>1. Page(s, q) = t
            BY <2>1, <2>4 DEF Limited
        <3> QED BY <1>2, <1>3, <2>2, <2>4, <3>1
    <2> QED BY <2>3, <2>4
<1>4. ASSUME ~(first < Len(s)) PROVE Page(s, q) = Limited(s, q)
    BY <1>4 DEF Page, Skipped
<1>5. ASSUME first < Len(s), NEW i \in 1..Len(Page(s, q)) PROVE Page(s, q)[i] = s[first + i]
    <2>1. i \in 1..left
        BY <1>1, <1>3, <1>5
    <2> QED BY <1>2, <1>3, <1>5, <2>1
<1> QED BY <1>3, <1>4, <1>5

\* A sequence is a prefix of another when it agrees with it.
LEMMA PrefixFacts ==
    ASSUME NEW S, NEW s \in Seq(S), NEW t \in Seq(S), Len(s) <= Len(t),
           \A i \in 1..Len(s) : s[i] = t[i]
    PROVE  IsPrefix(s, t)
<1>1. Len(s) \in Nat /\ Len(t) \in Nat
    OBVIOUS
<1>2. SubSeq(s, 1, Len(s)) = [i \in 1..Len(s) |-> s[i]]
    BY <1>1
<1>3. SubSeq(t, 1, Len(s)) = [i \in 1..Len(s) |-> t[i]]
    BY <1>1
<1> QED BY <1>2, <1>3 DEF IsPrefix

\* A query's answer does not depend on more than which keys and which metrics match it.
LEMMA SameResults ==
    ASSUME metrics \in [Keys -> Seq(Metric)], NEW order \in Seq(Keys), NEW q, NEW r,
           \A k \in Keys : KeyMatches(k, q) <=> KeyMatches(k, r),
           Matching(q) = Matching(r)
    PROVE  Results(q, order) = Results(r, order)
<1> DEFINE K == Gathering(q, order)
           J == Gathering(r, order)
<1>1. PICK N \in Nat : N = Len(order) /\ \A n \in 1..N : order[n] \in Keys
    OBVIOUS
<1>2. /\ K[0] = <<>>
      /\ \A n \in 1..N : K[n] = IF KeyMatches(order[n], q)
                                THEN K[n - 1] \o Filter(metrics[order[n]], Matching(q))
                                ELSE K[n - 1]
    BY <1>1, GatheringTurns
<1>3. /\ J[0] = <<>>
      /\ \A n \in 1..N : J[n] = IF KeyMatches(order[n], r)
                                THEN J[n - 1] \o Filter(metrics[order[n]], Matching(r))
                                ELSE J[n - 1]
    BY <1>1, GatheringTurns
<1> HIDE DEF K, J
<1> DEFINE P == {n \in 0..N : K[n] = J[n]}
<1>4. 0 \in P
    BY <1>2, <1>3
<1>5. ASSUME NEW n \in 1..N, n - 1 \in P PROVE n \in P
    <2>1. n \in 0..N /\ K[n - 1] = J[n - 1] /\ order[n] \in Keys
        BY <1>1, <1>5
    <2> QED BY <1>2, <1>3, <2>1
<1> HIDE DEF P
<1>6. 0..N \subseteq P
    BY <1>4, <1>5, InductionUpTo, Zenon
<1>7. K[N] = J[N]
    BY <1>6 DEF P
<1> QED BY <1>1, <1>7 DEF Results, K, J

\* The loop through an order of the keys finds what the map holds.
LEMMA FoundFacts ==
    ASSUME TypeOK, SerialInv, NEW q, NEW order \in Orders
    PROVE  /\ Results(q, order) \in Seq(Metric)
           /\ ToSet(Results(q, order)) = Found(q)
           /\ IsInjective(Results(q, order))
<1>1. order \in Seq(Keys) /\ IsInjective(order)
    BY OrderFacts
<1>2. \A k \in Keys : metrics[k] # <<>> => \E i \in 1..Len(order) : order[i] = k
    BY OrderFacts
<1>3. GatheredFrom(q, order, Len(order)) = Found(q)
    <2>1. ASSUME NEW m \in GatheredFrom(q, order, Len(order)) PROVE m \in Found(q)
        <3>1. PICK i \in 1..Len(order) : KeyMatches(order[i], q) /\ m \in ToSet(metrics[order[i]])
            BY DEF GatheredFrom
        <3>2. order[i] \in Keys
            BY <1>1
        <3>3. Key(m.resource, m.id) = order[i] /\ m \in Stored
            BY <3>1, <3>2 DEF TypeOK, Stored, ToSet
        <3> QED BY <3>1, <3>3 DEF Found, GatheredFrom, Matching
    <2>2. ASSUME NEW m \in Found(q) PROVE m \in GatheredFrom(q, order, Len(order))
        <3>1. PICK k \in Keys : \E i \in DOMAIN metrics[k] : m = metrics[k][i]
            BY DEF Found, Stored, ToSet
        <3>2. metrics[k] \in Seq(Metric) /\ Key(m.resource, m.id) = k
            BY <3>1 DEF TypeOK
        <3>3. m \in Metric /\ metrics[k] # <<>> /\ m \in ToSet(metrics[k])
            BY <3>1, <3>2 DEF ToSet
        <3>4. PICK i \in 1..Len(order) : order[i] = k
            BY <1>2, <3>3
        <3> QED BY <3>2, <3>3, <3>4 DEF Found, GatheredFrom, Matching
    <2> QED BY <2>1, <2>2
<1> QED BY <1>1, <1>3, ResultsFacts

\* No two metrics of the map have one serial number.
LEMMA SerialsDiffer ==
    ASSUME SerialInv, NEW m \in Stored, NEW n \in Stored, m.serial = n.serial
    PROVE  m = n
BY DEF SerialInv, Stored, ToSet

\* In whatever order the map gives the keys, a query without offset and limit answers every
\* match once, and the pages of one order follow one another.
THEOREM PagesExact == Spec => []PageExact
<1>1. TypeOK /\ SerialInv => PageExact
    <2> SUFFICES ASSUME TypeOK, SerialInv, NEW q \in Queries, NEW order \in Orders
                 PROVE  LET page(offset, limit) ==
                                QueryMetrics([q EXCEPT !.offset = offset, !.limit = limit], order)
                            all == page(0, 0)
                            own == page(q.offset, q.limit)
                            first == IF q.offset > 0 THEN q.offset ELSE 0
                            before == IF first = 0 THEN <<>> ELSE page(0, first)
                            left == Len(all) - first
                        IN  /\ ToSet(all) = Found(q)
                            /\ IsInjective(Serials(all))
                            /\ IF first < Len(all)
                               THEN /\ IsPrefix(before \o own, all)
                                    /\ Len(own) = IF q.limit \in 1..left THEN q.limit ELSE left
                               ELSE own = page(0, q.limit)
        BY Zenon DEF PageExact
    <2> DEFINE asked(offset, limit) == [q EXCEPT !.offset = offset, !.limit = limit]
               page(offset, limit) == QueryMetrics(asked(offset, limit), order)
               R == Results(q, order)
               first == IF q.offset > 0 THEN q.offset ELSE 0
               left == Len(R) - first
               own == page(q.offset, q.limit)
               before == IF first = 0 THEN <<>> ELSE page(0, first)
    <2>1. q.offset \in Int /\ q.limit \in Int /\ first \in Nat
        BY QueriesAssumption
    <2>2. ASSUME NEW o, NEW l
          PROVE  /\ asked(o, l).offset = o /\ asked(o, l).limit = l
                 /\ page(o, l) = Page(R, asked(o, l))
        <3>1. /\ asked(o, l).offset = o /\ asked(o, l).limit = l
              /\ asked(o, l).resource = q.resource /\ asked(o, l).id = q.id
              /\ asked(o, l).kind = q.kind /\ asked(o, l).from = q.from /\ asked(o, l).to = q.to
            BY QueriesAssumption
        <3> HIDE DEF asked
        <3>2. /\ \A k \in Keys : KeyMatches(k, asked(o, l)) <=> KeyMatches(k, q)
              /\ Matching(asked(o, l)) = Matching(q)
            BY <3>1 DEF KeyMatches, Matching, MetricMatches
        <3>3. Results(asked(o, l), order) = R
            BY <3>2, OrderFacts, SameResults DEF TypeOK
        <3> QED BY <3>1, <3>3 DEF QueryMetrics
    <2>3. R \in Seq(Metric) /\ ToSet(R) = Found(q) /\ IsInjective(R) /\ Len(R) \in Nat
        BY FoundFacts
    <2> HIDE DEF asked, R
    <2>4. page(0, 0) = R
        BY <2>2 DEF Page, Skipped, Limited
    <2>5. IsInjective(Serials(R))
        <3>1. DOMAIN Serials(R) = DOMAIN R /\ \A i \in DOMAIN R : Serials(R)[i] = R[i].serial
            BY DEF Serials
        <3>2. \A i \in DOMAIN R : R[i] \in Stored
            BY <2>3 DEF ToSet, Found
        <3> QED BY <2>3, <3>1, <3>2, SerialsDiffer DEF IsInjective
    <2> HIDE DEF page
    <2>6. CASE first < Len(R)
        <3>1. /\ own \in Seq(Metric)
              /\ Len(own) = IF q.limit \in 1..left THEN q.limit ELSE left
              /\ \A i \in 1..Len(own) : own[i] = R[first + i]
            <4> DEFINE a == asked(q.offset, q.limit)
            <4>1. a.offset = q.offset /\ a.limit = q.limit /\ own = Page(R, a)
                BY <2>2
            <4> HIDE DEF a
            <4> QED BY <2>1, <2>3, <2>6, <4>1, PageFacts
        <3>2. before \in Seq(Metric) /\ Len(before) = first /\ \A i \in 1..first : before[i] = R[i]
            <4>1. CASE first = 0
                BY <4>1
            <4>2. CASE first # 0
                <5> DEFINE a == asked(0, first)
                <5>1. a.offset = 0 /\ a.limit = first /\ before = Page(R, a)
                    BY <2>2, <4>2
                <5> HIDE DEF a
                <5>2. /\ before \in Seq(Metric)
                      /\ Len(before) = IF first \in 1..(Len(R) - 0) THEN first ELSE Len(R) - 0
                      /\ \A i \in 1..Len(before) : before[i] = R[0 + i]
                    <6> HIDE DEF before, first
                    <6>1. 0 < Len(R)
                        BY <2>1, <2>3, <2>6
                    <6> QED BY <2>1, <2>3, <5>1, <6>1, PageFacts
                <5> QED BY <2>1, <2>3, <2>6, <4>2, <5>2
            <4> QED BY <4>1, <4>2
        <3> HIDE DEF own, before, first
        <3>3. /\ before \o own \in Seq(Metric) /\ Len(before \o own) = first + Len(own)
              /\ first + Len(own) <= Len(R) /\ Len(own) \in Nat
            <4>1. before \o own \in Seq(Metric) /\ Len(before \o own) = Len(before) + Len(own)
                BY <3>1, <3>2, ConcatSet
            <4>2. Len(own) \in Nat
                BY <3>1
            <4>3. first + Len(own) <= Len(R)
                BY <2>1, <2>3, <2>6, <3>1, <4>2
            <4> QED BY <3>2, <4>1, <4>2, <4>3
        <3>4. ASSUME NEW i \in 1..(first + Len(own)) PROVE (before \o own)[i] = R[i]
            <4>1. CASE i \in 1..first
                <5>1. (before \o own)[i] = before[i]
                    BY <3>1, <3>2, <4>1, ConcatSet
                <5> QED BY <3>2, <4>1, <5>1
            <4>2. CASE i - first \in 1..Len(own)
                <5>1. PICK j \in 1..Len(own) : j = i - first
                    BY <4>2
                <5>2. first + j = i
                    BY <2>1, <5>1
                <5>3. (before \o own)[first + j] = own[j]
                    <6>1. before \in Seq(Metric) /\ own \in Seq(Metric) /\ Len(before) = first
                        BY <3>1, <3>2
                    <6>2. (before \o own)[Len(before) + j] = own[j]
                        BY <6>1, ConcatSet
                    <6> QED BY <6>1, <6>2
                <5>4. own[j] = R[first + j]
                    BY <3>1
                <5> QED BY <5>2, <5>3, <5>4
            <4> QED BY <2>1, <3>3, <4>1, <4>2
        <3>5. IsPrefix(before \o own, R)
            BY <2>3, <3>3, <3>4, PrefixFacts
        <3> QED BY <2>3, <2>4, <2>5, <2>6, <3>1, <3>5 DEF page, asked, own, before, first
    <2>7. CASE ~(first < Len(R))
        <3>1. own = page(0, q.limit)
            <4>1. own = Limited(R, asked(q.offset, q.limit))
                <5> DEFINE a == asked(q.offset, q.limit)
                <5>1. a.offset = q.offset /\ a.limit = q.limit /\ own = Page(R, a)
                    BY <2>2
                <5> HIDE DEF a
                <5> QED BY <2>1, <2>3, <2>7, <5>1, PageFacts DEF a
            <4>2. page(0, q.limit) = Limited(R, asked(0, q.limit))
                BY <2>2 DEF Page, Skipped
            <4> QED BY <2>2, <4>1, <4>2 DEF Limited
        <3> QED BY <2>3, <2>4, <2>5, <2>7, <3>1 DEF page, asked
    <2> QED BY <2>6, <2>7
<1> QED BY <1>1, Invariants, PTL

----------------------------------------------------------------------------
(* Sums and maxima *)

LEMMA SummingTurns ==
    ASSUME NEW s \in Seq(Nat)
    PROVE  /\ Summing(s) \in [0..Len(s) -> Nat]
           /\ Summing(s)[0] = 0
           /\ \A n \in 1..Len(s) : Summing(s)[n] = Summing(s)[n - 1] + s[n]
<1> DEFINE turn(n, total) == total + s[n]
           body(total) == [n \in 0..Len(s) |-> IF n = 0 THEN 0 ELSE turn(n, total[n - 1])]
           K == Summing(s)
<1>1. K = CHOOSE total : total = body(total)
    BY Zenon DEF Summing
<1>2. PICK N \in Nat : N = Len(s)
    OBVIOUS
<1>3. ASSUME NEW n \in 1..N, NEW total \in Nat PROVE turn(n, total) \in Nat
    <2>1. s[n] \in Nat
        BY <1>2
    <2> QED BY <2>1
<1> HIDE DEF turn
<1>4. 0 \in Nat /\ 0 \in 0..N
    OBVIOUS
<1>5. PICK g \in [0..N -> Nat] : g[0] = 0 /\ \A n \in 1..N : g[n] = turn(n, g[n - 1])
    <2> DEFINE F == [n \in 1..N |-> [total \in Nat |-> turn(n, total)]]
    <2>1. F \in [1..N -> [Nat -> Nat]]
        BY <1>3
    <2>2. \A n \in 1..N, total \in Nat : F[n][total] = turn(n, total)
        OBVIOUS
    <2> HIDE DEF F
    <2>3. PICK g : Follows(g, Nat, N, 0, F)
        BY <1>4, <2>1, LoopRuns
    <2>4. g \in [0..N -> Nat] /\ g[0] = 0 /\ \A n \in 1..N : g[n] = F[n][g[n - 1]]
        BY <2>3 DEF Follows
    <2>5. \A n \in 1..N : g[n - 1] \in Nat
        <3>1. \A n \in 1..N : n - 1 \in 0..N
            OBVIOUS
        <3> QED BY <2>4, <3>1
    <2> QED BY <2>2, <2>4, <2>5
<1>6. g = body(g)
    <2>1. \A n \in 0..N : n = 0 \/ n \in 1..N
        OBVIOUS
    <2> QED BY <1>2, <1>5, <2>1
<1> HIDE DEF K
<1>7. K = body(K)
    BY <1>1, <1>6
<1>8. K[0] = 0 /\ \A n \in 1..N : K[n] = turn(n, K[n - 1])
    <2>1. \A n \in 1..N : n \in 0..N /\ n # 0
        OBVIOUS
    <2> QED BY <1>2, <1>4, <1>7, <2>1
<1>9. \A n \in 0..N : K[n] \in Nat
    <2> DEFINE P == {n \in 0..N : K[n] \in Nat}
    <2>1. 0 \in P
        BY <1>4, <1>8
    <2>2. ASSUME NEW n \in 1..N, n - 1 \in P PROVE n \in P
        <3>1. K[n - 1] \in Nat
            BY <2>2
        <3>2. K[n] \in Nat
            BY <1>3, <1>8, <3>1
        <3>3. n \in 0..N
            OBVIOUS
        <3> QED BY <3>2, <3>3
    <2> HIDE DEF P
    <2>3. 0..N \subseteq P
        BY <2>1, <2>2, InductionUpTo
    <2> QED BY <2>3 DEF P
<1>10. K \in [0..N -> Nat]
    BY <1>2, <1>7, <1>9
<1> QED BY <1>2, <1>8, <1>10 DEF turn, K

\* A duration that fits is its own.
LEMMA WrappedFacts ==
    ASSUME NEW d \in Int
    PROVE  /\ Wrapped(d) \in Int
           /\ d \in -MaxDuration..MaxDuration => Wrapped(d) = d
<1> DEFINE n == 2 * MaxDuration + 2
           b == d + MaxDuration + 1
<1>1. n \in Nat \ {0} /\ b \in Int /\ MaxDuration \in Nat
    BY ValuesAssumption
<1>2. b % n \in Int /\ (0 <= b /\ b < n => b % n = b)
    <2> HIDE DEF n, b
    <2> QED BY <1>1
<1>3. Wrapped(d) = (b % n) - (MaxDuration + 1)
    BY DEF Wrapped
<1>4. d \in -MaxDuration..MaxDuration => 0 <= b /\ b < n
    BY <1>1
<1>5. b = d + (MaxDuration + 1)
    BY <1>1
<1> HIDE DEF n, b
<1> QED BY <1>1, <1>2, <1>3, <1>4, <1>5

LEMMA AddingTurns ==
    ASSUME NEW s \in Seq(Int)
    PROVE  /\ Adding(s) \in [0..Len(s) -> Int]
           /\ Adding(s)[0] = 0
           /\ \A n \in 1..Len(s) : Adding(s)[n] = Wrapped(Adding(s)[n - 1] + s[n])
<1> DEFINE turn(n, total) == Wrapped(total + s[n])
           body(total) == [n \in 0..Len(s) |-> IF n = 0 THEN 0 ELSE turn(n, total[n - 1])]
           K == Adding(s)
<1>1. K = CHOOSE total : total = body(total)
    BY Zenon DEF Adding
<1>2. PICK N \in Nat : N = Len(s)
    OBVIOUS
<1>3. ASSUME NEW n \in 1..N, NEW total \in Int PROVE turn(n, total) \in Int
    <2>1. s[n] \in Int
        BY <1>2
    <2>2. total + s[n] \in Int
        BY <2>1
    <2> QED BY <2>2, WrappedFacts
<1> HIDE DEF turn
<1>4. 0 \in Int /\ 0 \in 0..N
    OBVIOUS
<1>5. PICK g \in [0..N -> Int] : g[0] = 0 /\ \A n \in 1..N : g[n] = turn(n, g[n - 1])
    <2> DEFINE F == [n \in 1..N |-> [total \in Int |-> turn(n, total)]]
    <2>1. F \in [1..N -> [Int -> Int]]
        BY <1>3
    <2>2. \A n \in 1..N, total \in Int : F[n][total] = turn(n, total)
        OBVIOUS
    <2> HIDE DEF F
    <2>3. PICK g : Follows(g, Int, N, 0, F)
        BY <1>4, <2>1, LoopRuns
    <2>4. g \in [0..N -> Int] /\ g[0] = 0 /\ \A n \in 1..N : g[n] = F[n][g[n - 1]]
        BY <2>3 DEF Follows
    <2>5. \A n \in 1..N : g[n - 1] \in Int
        <3>1. \A n \in 1..N : n - 1 \in 0..N
            OBVIOUS
        <3> QED BY <2>4, <3>1
    <2> QED BY <2>2, <2>4, <2>5
<1>6. g = body(g)
    <2>1. \A n \in 0..N : n = 0 \/ n \in 1..N
        OBVIOUS
    <2> QED BY <1>2, <1>5, <2>1
<1> HIDE DEF K
<1>7. K = body(K)
    BY <1>1, <1>6
<1>8. K[0] = 0 /\ \A n \in 1..N : K[n] = turn(n, K[n - 1])
    <2>1. \A n \in 1..N : n \in 0..N /\ n # 0
        OBVIOUS
    <2> QED BY <1>2, <1>4, <1>7, <2>1
<1>9. \A n \in 0..N : K[n] \in Int
    <2> DEFINE P == {n \in 0..N : K[n] \in Int}
    <2>1. 0 \in P
        BY <1>4, <1>8
    <2>2. ASSUME NEW n \in 1..N, n - 1 \in P PROVE n \in P
        <3>1. K[n - 1] \in Int
            BY <2>2
        <3>2. K[n] \in Int
            BY <1>3, <1>8, <3>1
        <3>3. n \in 0..N
            OBVIOUS
        <3> QED BY <3>2, <3>3
    <2> HIDE DEF P
    <2>3. 0..N \subseteq P
        BY <2>1, <2>2, InductionUpTo
    <2> QED BY <2>3 DEF P
<1>10. K \in [0..N -> Int]
    BY <1>2, <1>7, <1>9
<1> QED BY <1>2, <1>8, <1>10 DEF turn, K

LEMMA ToppingTurns ==
    ASSUME NEW s \in Seq(Int), Len(s) > 0
    PROVE  /\ Topping(s) \in [0..Len(s) -> Int]
           /\ Topping(s)[0] = s[1]
           /\ \A n \in 1..Len(s) :
                 Topping(s)[n] = IF s[n] > Topping(s)[n - 1] THEN s[n] ELSE Topping(s)[n - 1]
<1> DEFINE turn(n, max) == IF s[n] > max THEN s[n] ELSE max
           body(max) == [n \in 0..Len(s) |-> IF n = 0 THEN s[1] ELSE turn(n, max[n - 1])]
           K == Topping(s)
<1>1. K = CHOOSE max : max = body(max)
    BY Zenon DEF Topping
<1>2. PICK N \in Nat : N = Len(s)
    OBVIOUS
<1>3. ASSUME NEW n \in 1..N, NEW max \in Int PROVE turn(n, max) \in Int
    <2>1. s[n] \in Int
        BY <1>2
    <2> QED BY <2>1
<1> HIDE DEF turn
<1>4. s[1] \in Int /\ 0 \in 0..N
    OBVIOUS
<1>5. PICK g \in [0..N -> Int] : g[0] = s[1] /\ \A n \in 1..N : g[n] = turn(n, g[n - 1])
    <2> DEFINE F == [n \in 1..N |-> [max \in Int |-> turn(n, max)]]
    <2>1. F \in [1..N -> [Int -> Int]]
        BY <1>3
    <2>2. \A n \in 1..N, max \in Int : F[n][max] = turn(n, max)
        OBVIOUS
    <2> HIDE DEF F
    <2>3. PICK g : Follows(g, Int, N, s[1], F)
        BY <1>4, <2>1, LoopRuns
    <2>4. g \in [0..N -> Int] /\ g[0] = s[1] /\ \A n \in 1..N : g[n] = F[n][g[n - 1]]
        BY <2>3 DEF Follows
    <2>5. \A n \in 1..N : g[n - 1] \in Int
        <3>1. \A n \in 1..N : n - 1 \in 0..N
            OBVIOUS
        <3> QED BY <2>4, <3>1
    <2> QED BY <2>2, <2>4, <2>5
<1>6. g = body(g)
    <2>1. \A n \in 0..N : n = 0 \/ n \in 1..N
        OBVIOUS
    <2> QED BY <1>2, <1>5, <2>1
<1> HIDE DEF K
<1>7. K = body(K)
    BY <1>1, <1>6
<1>8. K[0] = s[1] /\ \A n \in 1..N : K[n] = turn(n, K[n - 1])
    <2>1. \A n \in 1..N : n \in 0..N /\ n # 0
        OBVIOUS
    <2> QED BY <1>2, <1>4, <1>7, <2>1
<1>9. \A n \in 0..N : K[n] \in Int
    <2> DEFINE P == {n \in 0..N : K[n] \in Int}
    <2>1. 0 \in P
        BY <1>4, <1>8
    <2>2. ASSUME NEW n \in 1..N, n - 1 \in P PROVE n \in P
        <3>1. K[n - 1] \in Int
            BY <2>2
        <3>2. K[n] \in Int
            BY <1>3, <1>8, <3>1
        <3>3. n \in 0..N
            OBVIOUS
        <3> QED BY <3>2, <3>3
    <2> HIDE DEF P
    <2>3. 0..N \subseteq P
        BY <2>1, <2>2, InductionUpTo
    <2> QED BY <2>3 DEF P
<1>10. K \in [0..N -> Int]
    BY <1>2, <1>7, <1>9
<1> QED BY <1>2, <1>8, <1>10 DEF turn, K

\* The greatest of some numbers is one of them.
LEMMA ToppingFacts ==
    ASSUME NEW s \in Seq(Int), Len(s) > 0
    PROVE  /\ \E i \in 1..Len(s) : Topping(s)[Len(s)] = s[i]
           /\ \A i \in 1..Len(s) : s[i] <= Topping(s)[Len(s)]
<1> DEFINE M == Topping(s)
<1>1. PICK N \in Nat \ {0} : N = Len(s) /\ \A n \in 1..N : s[n] \in Int
    OBVIOUS
<1>2. /\ M \in [0..N -> Int] /\ M[0] = s[1]
      /\ \A n \in 1..N : M[n] = IF s[n] > M[n - 1] THEN s[n] ELSE M[n - 1]
    BY <1>1, ToppingTurns
<1> HIDE DEF M
<1>3. (\E i \in 1..N : M[N] = s[i]) /\ \A i \in 1..N : s[i] <= M[N]
    <2> DEFINE P == {n \in 0..N : /\ \E i \in 1..N : M[n] = s[i]
                                  /\ \A i \in 1..n : s[i] <= M[n]}
    <2>1. 0 \in P
        BY <1>1, <1>2
    <2>2. ASSUME NEW n \in 1..N, n - 1 \in P PROVE n \in P
        <3>1. /\ n \in 0..N /\ M[n - 1] \in Int /\ M[n] \in Int /\ s[n] \in Int
              /\ M[n] = IF s[n] > M[n - 1] THEN s[n] ELSE M[n - 1]
            <4>1. n \in 0..N /\ n - 1 \in 0..N
                OBVIOUS
            <4>2. M[n - 1] \in Int /\ M[n] \in Int
                BY <1>2, <4>1
            <4> QED BY <1>1, <1>2, <4>1, <4>2
        <3>2. (\E i \in 1..N : M[n - 1] = s[i]) /\ \A i \in 1..(n - 1) : s[i] <= M[n - 1]
            BY <2>2
        <3>3. \A i \in 1..n : (i = n \/ i \in 1..(n - 1)) /\ s[i] \in Int
            BY <1>1
        <3>4. \E i \in 1..N : M[n] = s[i]
            BY <3>1, <3>2
        <3>5. M[n - 1] <= M[n] /\ s[n] <= M[n]
            BY <3>1
        <3>6. ASSUME NEW i \in 1..n PROVE s[i] <= M[n]
            <4>1. CASE i = n
                BY <3>5, <4>1
            <4>2. CASE i \in 1..(n - 1)
                <5>1. s[i] <= M[n - 1] /\ s[i] \in Int
                    BY <3>2, <3>3, <4>2
                <5> QED BY <3>1, <3>5, <5>1
            <4> QED BY <3>3, <4>1, <4>2
        <3> QED BY <3>1, <3>4, <3>6
    <2> HIDE DEF P
    <2>3. N \in Nat /\ N \in 0..N
        OBVIOUS
    <2>4. 0..N \subseteq P
        BY <2>1, <2>2, <2>3, InductionUpTo, Zenon
    <2> QED BY <2>3, <2>4 DEF P
<1> QED BY <1>1, <1>3 DEF M

\* From sums of n numbers each, to the numbers.
LEMMA Cancel ==
    ASSUME NEW a \in Int, NEW b \in Int, NEW n \in Nat \ {0}, n * a < n * b + n
    PROVE  a <= b
<1> SUFFICES ASSUME a > b PROVE FALSE
    OBVIOUS
<1>1. PICK c \in Nat : a = b + 1 + c
    <2>1. a - b - 1 \in Nat /\ a = b + 1 + (a - b - 1)
        OBVIOUS
    <2> QED BY <2>1
<1>2. n * a = n * b + n + n * c /\ n * c >= 0 /\ n * b \in Int /\ n * c \in Int
    BY <1>1
<1> QED BY <1>2

\* A part of a number of equal durations fits when the whole does.
LEMMA PartFits ==
    ASSUME NEW x \in Int, NEW N \in Nat, NEW n \in 0..N, N * x \in -MaxDuration..MaxDuration
    PROVE  n * x \in -MaxDuration..MaxDuration
<1>1. MaxDuration \in Nat /\ n \in Nat /\ N - n \in Nat
    BY ValuesAssumption
<1>2. N * x = n * x + (N - n) * x /\ n * x \in Int /\ (N - n) * x \in Int
    BY <1>1
<1>3. CASE x >= 0
    <2>1. n * x >= 0 /\ (N - n) * x >= 0
        BY <1>1, <1>3
    <2> QED BY <1>1, <1>2, <2>1
<1>4. CASE x < 0
    <2>1. n * x <= 0 /\ (N - n) * x <= 0
        BY <1>1, <1>4
    <2> QED BY <1>1, <1>2, <2>1
<1> QED BY <1>3, <1>4

\* What a quotient, cut off towards zero, is of a sum between two multiples.
LEMMA QuotientFacts ==
    ASSUME NEW t \in Int, NEW n \in Nat \ {0}, NEW min \in Int, NEW max \in Int,
           n * min <= t, t <= n * max
    PROVE  min <= Quotient(t, n) /\ Quotient(t, n) <= max
<1>1. n * min \in Int /\ n * max \in Int
    OBVIOUS
<1>2. CASE t >= 0
    <2> DEFINE a == t \div n
    <2>1. a \in Int /\ n * a <= t /\ t < n * a + n /\ n * a \in Int
        BY <1>2
    <2>2. Quotient(t, n) = a
        BY <1>2 DEF Quotient
    <2> HIDE DEF a
    <2>3. n * a < n * max + n /\ n * min < n * a + n
        BY <1>1, <2>1
    <2> QED BY <2>1, <2>2, <2>3, Cancel
<1>3. CASE t < 0
    <2> DEFINE u == -t
               b == u \div n
               a == -b
    <2>1. u \in Nat
        BY <1>3
    <2> HIDE DEF u
    <2>2. b \in Int /\ n * b <= u /\ u < n * b + n
        BY <2>1
    <2> HIDE DEF b
    <2>3. a \in Int /\ n * a = -(n * b) /\ n * b \in Int /\ t = -u
        BY <2>1, <2>2 DEF u
    <2>4. Quotient(t, n) = a
        BY <1>3 DEF Quotient, b, u
    <2> HIDE DEF a
    <2>5. n * a < n * max + n /\ n * min < n * a + n
        BY <1>1, <2>1, <2>2, <2>3
    <2> QED BY <2>3, <2>4, <2>5, Cancel
<1> QED BY <1>2, <1>3

\* The greatest of some durations is one of them, and the average is not above it and not
\* below all of them, when so many of none of them wrap.
LEMMA LatencyFacts ==
    ASSUME NEW s \in Seq(Int), Len(s) > 0
    PROVE  /\ \E i \in 1..Len(s) : calculateMax(s) = s[i]
           /\ \A i \in 1..Len(s) : s[i] <= calculateMax(s)
           /\ (\A i \in 1..Len(s) : Len(s) * s[i] \in -MaxDuration..MaxDuration) =>
                 /\ calculateAverage(s) <= calculateMax(s)
                 /\ \E i \in 1..Len(s) : s[i] <= calculateAverage(s)
<1> DEFINE M == Topping(s)
           T == Adding(s)
<1>1. PICK N \in Nat \ {0} : N = Len(s) /\ \A n \in 1..N : s[n] \in Int
    OBVIOUS
<1>2. /\ M \in [0..N -> Int] /\ M[0] = s[1]
      /\ \A n \in 1..N : M[n] = IF s[n] > M[n - 1] THEN s[n] ELSE M[n - 1]
    BY <1>1, ToppingTurns
<1>3. /\ T \in [0..N -> Int] /\ T[0] = 0
      /\ \A n \in 1..N : T[n] = Wrapped(T[n - 1] + s[n])
    BY <1>1, AddingTurns
<1>4. calculateMax(s) = M[N] /\ calculateAverage(s) = Quotient(T[N], N)
    BY <1>1 DEF calculateMax, calculateAverage
<1> HIDE DEF M, T
<1>5. (\E i \in 1..N : M[N] = s[i]) /\ \A i \in 1..N : s[i] <= M[N]
    BY <1>1, ToppingFacts DEF M
<1>6. PICK least \in 1..N : \A i \in 1..N : s[least] <= s[i]
    <2> DEFINE r == [i \in 1..N |-> -s[i]]
    <2>1. r \in Seq(Int) /\ Len(r) = N /\ \A i \in 1..N : r[i] = -s[i]
        BY <1>1
    <2> HIDE DEF r
    <2>2. /\ \E i \in 1..N : Topping(r)[N] = r[i]
          /\ \A j \in 1..N : r[j] <= Topping(r)[N]
        BY <1>1, <2>1, ToppingFacts
    <2>3. PICK i \in 1..N : Topping(r)[N] = r[i]
        BY <2>2
    <2>4. \A j \in 1..N : r[j] <= r[i] /\ r[j] = -s[j] /\ r[i] = -s[i] /\ s[j] \in Int
        BY <1>1, <2>1, <2>2, <2>3
    <2>5. \A j \in 1..N : s[i] <= s[j]
        BY <2>4
    <2> QED BY <2>5
<1> DEFINE max == M[N]
           min == s[least]
<1>7. max \in Int /\ min \in Int
    BY <1>1, <1>2
<1>8. \A i \in 1..N : min <= s[i] /\ s[i] <= max
    BY <1>5, <1>6
<1>9. PICK greatest \in 1..N : max = s[greatest]
    BY <1>5
<1> HIDE DEF max, min
<1>10. ASSUME \A i \in 1..N : N * s[i] \in -MaxDuration..MaxDuration
       PROVE  N * min <= T[N] /\ T[N] <= N * max
    <2>1. N * min \in -MaxDuration..MaxDuration /\ N * max \in -MaxDuration..MaxDuration
        BY <1>9, <1>10 DEF min
    <2> DEFINE P == {n \in 0..N : n * min <= T[n] /\ T[n] <= n * max}
    <2>2. 0 \in P
        BY <1>3, <1>7
    <2>3. ASSUME NEW n \in 1..N, n - 1 \in P PROVE n \in P
        <3>1. /\ n \in 0..N /\ T[n - 1] \in Int /\ s[n] \in Int
              /\ T[n] = Wrapped(T[n - 1] + s[n])
              /\ min <= s[n] /\ s[n] <= max
            <4>1. n \in 0..N /\ n - 1 \in 0..N
                OBVIOUS
            <4>2. T[n - 1] \in Int
                BY <1>3, <4>1
            <4> QED BY <1>1, <1>3, <1>8, <4>1, <4>2
        <3>2. (n - 1) * min <= T[n - 1] /\ T[n - 1] <= (n - 1) * max
            BY <2>3
        <3>3. (n - 1) * min = n * min - min /\ (n - 1) * max = n * max - max
            BY <1>7
        <3>4. PICK low \in Int, high \in Int : low = n * min /\ high = n * max
            BY <1>7
        <3>5. low - min <= T[n - 1] /\ T[n - 1] <= high - max
            BY <3>2, <3>3, <3>4
        <3>6. PICK sum \in Int, v \in Int, a \in Int, b \in Int :
                  sum = T[n - 1] /\ v = s[n] /\ a = min /\ b = max
            BY <1>7, <3>1
        <3>7. low - a <= sum /\ sum <= high - b /\ a <= v /\ v <= b
            BY <3>1, <3>5, <3>6
        <3>8. low <= sum + v /\ sum + v <= high
            BY <3>7
        <3>9. low \in -MaxDuration..MaxDuration /\ high \in -MaxDuration..MaxDuration
            BY <1>7, <2>1, <3>1, <3>4, PartFits
        <3>10. sum + v \in -MaxDuration..MaxDuration
            BY <3>8, <3>9, ValuesAssumption
        <3>11. T[n] = sum + v
            BY <3>1, <3>6, <3>10, WrappedFacts
        <3>12. n * min <= T[n] /\ T[n] <= n * max
            BY <3>4, <3>8, <3>11
        <3> QED BY <3>1, <3>12
    <2> HIDE DEF P
    <2>4. N \in Nat /\ N \in 0..N
        OBVIOUS
    <2>5. 0..N \subseteq P
        BY <2>2, <2>3, <2>4, InductionUpTo, Zenon
    <2> QED BY <2>4, <2>5 DEF P
<1>11. ASSUME \A i \in 1..N : N * s[i] \in -MaxDuration..MaxDuration
       PROVE  min <= Quotient(T[N], N) /\ Quotient(T[N], N) <= max
    <2>1. T[N] \in Int
        BY <1>3
    <2> QED BY <1>7, <1>10, <1>11, <2>1, QuotientFacts
<1> QED BY <1>1, <1>4, <1>5, <1>11 DEF max, min

----------------------------------------------------------------------------
(* The reports and the queries *)

\* A query for all there is answers each metric found once.
LEMMA AllFound ==
    ASSUME TypeOK, SerialInv, NEW q, q.offset = 0, q.limit = 0, NEW order \in Orders
    PROVE  /\ QueryMetrics(q, order) = Results(q, order)
           /\ ToSet(QueryMetrics(q, order)) = Found(q)
           /\ Len(QueryMetrics(q, order)) = Cardinality(Found(q))
<1>1. QueryMetrics(q, order) = Results(q, order)
    BY DEF QueryMetrics, Page, Skipped, Limited
<1> QED BY <1>1, FoundFacts, LenCounts

LEMMA PairFacts ==
    ASSUME NEW a, NEW b, NEW c
    PROVE  /\ <<a>> \o <<b>> = <<a, b>>
           /\ IsStrictPrefix(<<c>>, <<a, b>>) <=> c = a
           /\ IsStrictSuffix(<<c>>, <<a, b>>) <=> c = b
<1> DEFINE S == {a, b, c}
<1>1. /\ <<a>> \in Seq(S) /\ <<b>> \in Seq(S) /\ <<c>> \in Seq(S)
      /\ <<a, b>> \in Seq(S) /\ <<b, a>> \in Seq(S)
    OBVIOUS
<1>2. <<a>> \o <<b>> = <<a, b>>
    <2> DEFINE s == <<a>> \o <<b>>
               t == <<a, b>>
    <2>1. s \in Seq(S) /\ Len(s) = 2 /\ s[1] = a /\ s[2] = b
        BY <1>1
    <2>2. t \in Seq(S) /\ Len(t) = 2 /\ t[1] = a /\ t[2] = b
        OBVIOUS
    <2> HIDE DEF s, t
    <2>3. \A i \in 1..2 : s[i] = t[i]
        <3>1. \A i \in 1..2 : i = 1 \/ i = 2
            OBVIOUS
        <3> QED BY <2>1, <2>2, <3>1
    <2>4. s = [i \in 1..2 |-> s[i]] /\ t = [i \in 1..2 |-> t[i]]
        BY <2>1, <2>2
    <2>5. s = t
        BY <2>3, <2>4
    <2> QED BY <2>5 DEF s, t
<1>3. ASSUME NEW d \in S, NEW e \in S
      PROVE  IsPrefix(<<c>>, <<d, e>>) <=> c = d
    <2> DEFINE s == <<c>>
               t == <<d, e>>
    <2>1. s \in Seq(S) /\ Len(s) = 1 /\ s[1] = c /\ t \in Seq(S) /\ Len(t) = 2 /\ t[1] = d
        OBVIOUS
    <2> HIDE DEF s, t
    <2>2. SubSeq(s, 1, 1)[1] = s[1] /\ SubSeq(t, 1, 1)[1] = t[1]
        BY <2>1
    <2>3. IsPrefix(s, t) => c = d
        BY <2>1, <2>2 DEF IsPrefix
    <2>4. ASSUME c = d PROVE IsPrefix(s, t)
        BY <2>1, <2>4, PrefixFacts
    <2> QED BY <2>3, <2>4 DEF s, t
<1>4. <<c>> # <<a, b>>
    OBVIOUS
<1>5. Reverse(<<c>>) = <<c>> /\ Reverse(<<a, b>>) = <<b, a>>
    BY DEF Reverse
<1>6. IsPrefix(<<c>>, <<a, b>>) <=> c = a
    BY <1>3
<1>7. IsPrefix(<<c>>, <<b, a>>) <=> c = b
    BY <1>3
<1> QED BY <1>2, <1>4, <1>5, <1>6, <1>7 DEF IsStrictPrefix, IsStrictSuffix, IsSuffix

\* A key begins with a resource type and ends with an id when it is the key of the two.
LEMMA KeyFacts ==
    ASSUME PlainNames, NEW k \in Keys, NEW id \in Ids
    PROVE  IsStrictPrefix(Workload, k) /\ IsStrictSuffix(id, k) <=> k = Key(Workload, id)
<1>1. PICK r \in Resources, i \in Ids : k = r \o i
    BY DEF Keys, Key
<1>2. /\ \E a : r = <<a>>
      /\ \E b : i = <<b>>
      /\ \E c : Workload = <<c>>
      /\ \E d : id = <<d>>
    BY NamesAssumption DEF PlainNames, Names
<1>3. PICK a, b, c, d : r = <<a>> /\ i = <<b>> /\ Workload = <<c>> /\ id = <<d>>
    BY <1>2
<1>4. k = <<a, b>> /\ Key(Workload, id) = <<c, d>>
    BY <1>1, <1>3, PairFacts DEF Key
<1>5. (IsStrictPrefix(Workload, k) <=> c = a) /\ (IsStrictSuffix(id, k) <=> d = b)
    BY <1>3, <1>4, PairFacts
<1>6. <<a, b>> = <<c, d>> <=> c = a /\ d = b
    OBVIOUS
<1> QED BY <1>4, <1>5, <1>6

\* The metrics of a sequence that are of the kind asked for.
AskedOf(s, kind) == {m \in ToSet(s) : kind \in {AnyKind, m.kind}}

\* A query for a workload finds the metrics the reports look up under its key.
LEMMA FoundOfWorkload ==
    ASSUME TypeOK, SerialInv, PlainNames, NEW id \in Ids, NEW from \in Int, NEW to \in Int,
           NEW kind, NEW order \in Orders
    PROVE  LET s == OfWorkload(id, from, to)
               q == Within(from, to, Workload, id, kind)
           IN  /\ s \in Seq(Metric) /\ IsInjective(s)
               /\ ToSet(QueryMetrics(q, order)) = AskedOf(s, kind)
               /\ Count(q, order) = Cardinality(AskedOf(s, kind))
<1> DEFINE k == Key(Workload, id)
           s == OfWorkload(id, from, to)
           q == Within(from, to, Workload, id, kind)
<1>1. /\ q.resource = Workload /\ q.id = id /\ q.kind = kind
      /\ q.from = from + 1 /\ q.to = to - 1 /\ q.offset = 0 /\ q.limit = 0
    BY DEF Within
<1>2. k \in Keys /\ metrics[k] \in Seq(Metric)
    <2>1. k \in Keys
        BY NamesAssumption DEF Keys
    <2> QED BY <2>1 DEF TypeOK
<1> HIDE DEF k, q
<1>3. s \in Seq(Metric) /\ ToSet(s) = ToSet(metrics[k]) \cap Inside(from, to) /\ IsInjective(s)
    BY <1>2, FilterFacts, StoredOnce DEF OfWorkload, k
<1> HIDE DEF s
<1>4. \A l \in Keys : KeyMatches(l, q) <=> l = k
    <2>1. Workload # Unasked /\ id # Unasked
        BY NamesAssumption DEF Names, Unasked
    <2> QED BY <1>1, <2>1, KeyFacts DEF KeyMatches, k
<1>5. \A m \in Metric : MetricMatches(m, q) <=>
                        m \in Inside(from, to) /\ kind \in {AnyKind, m.kind}
    <2> SUFFICES ASSUME NEW m \in Metric
                 PROVE  MetricMatches(m, q) <=>
                        m \in Inside(from, to) /\ kind \in {AnyKind, m.kind}
        OBVIOUS
    <2>1. m.at \in Int
        BY BoundsAssumption DEF Metric
    <2> QED BY <1>1, <2>1 DEF MetricMatches, Inside
<1>6. ASSUME NEW m \in Found(q) PROVE m \in ToSet(metrics[k]) /\ MetricMatches(m, q) /\ m \in Metric
    <2>1. PICK l \in Keys : \E i \in DOMAIN metrics[l] : m = metrics[l][i]
        BY DEF Found, Stored, ToSet
    <2>2. metrics[l] \in Seq(Metric) /\ Key(m.resource, m.id) = l
        BY <2>1 DEF TypeOK
    <2>3. l = k
        BY <1>4, <2>2 DEF Found
    <2> QED BY <2>1, <2>2, <2>3 DEF Found, ToSet
<1>7. ASSUME NEW m \in ToSet(metrics[k]), MetricMatches(m, q) PROVE m \in Found(q)
    <2>1. Key(m.resource, m.id) = k /\ m \in Stored
        BY <1>2 DEF TypeOK, Stored, ToSet
    <2> QED BY <1>2, <1>4, <1>7, <2>1 DEF Found
<1>8. \A m \in ToSet(metrics[k]) : m \in Metric
    BY <1>2 DEF ToSet
<1>9. Found(q) = AskedOf(s, kind)
    BY <1>3, <1>5, <1>6, <1>7, <1>8 DEF AskedOf
<1>10. ToSet(QueryMetrics(q, order)) = Found(q) /\ Count(q, order) = Cardinality(Found(q))
    BY <1>1, AllFound DEF Count
<1> QED BY <1>3, <1>9, <1>10 DEF s, q

\* The summary counts what a query for all the keys answers.
LEMMA UsageFacts ==
    ASSUME metrics \in [Keys -> Seq(Metric)], NEW order \in Seq(Keys), NEW q,
           q.resource = Unasked, q.id = Unasked
    PROVE  Total([i \in 1..Len(order) |-> Len(Filter(metrics[order[i]], Matching(q)))]) =
           Len(Results(q, order))
<1> DEFINE K == Gathering(q, order)
           kept(i) == Filter(metrics[order[i]], Matching(q))
           counts == [i \in 1..Len(order) |-> Len(kept(i))]
           T == Summing(counts)
<1>1. PICK N \in Nat : N = Len(order) /\ \A n \in 1..N : order[n] \in Keys
    OBVIOUS
<1>2. \A n \in 1..N : kept(n) \in Seq(Metric)
    BY <1>1, FilterFacts
<1> HIDE DEF kept
<1>3. counts \in Seq(Nat) /\ Len(counts) = N /\ \A n \in 1..N : counts[n] = Len(kept(n))
    BY <1>1, <1>2
<1> HIDE DEF counts
<1>4. T \in [0..N -> Nat] /\ T[0] = 0 /\ \A n \in 1..N : T[n] = T[n - 1] + Len(kept(n))
    BY <1>3, SummingTurns
<1>5. /\ K \in [0..N -> Seq(Metric)]
      /\ K[0] = <<>>
      /\ \A n \in 1..N : K[n] = K[n - 1] \o kept(n)
    <2>1. \A n \in 1..N : KeyMatches(order[n], q)
        BY DEF KeyMatches
    <2> QED BY <1>1, <2>1, GatheringTurns DEF kept
<1> HIDE DEF K, T
<1> DEFINE P == {n \in 0..N : T[n] = Len(K[n])}
<1>6. 0 \in P
    BY <1>4, <1>5
<1>7. ASSUME NEW n \in 1..N, n - 1 \in P PROVE n \in P
    <2>1. n \in 0..N /\ n - 1 \in 0..N
        OBVIOUS
    <2>2. K[n - 1] \in Seq(Metric) /\ kept(n) \in Seq(Metric)
        BY <1>2, <1>5, <2>1
    <2>3. Len(K[n]) = Len(K[n - 1]) + Len(kept(n))
        BY <1>5, <2>2, ConcatSet
    <2>4. T[n] = T[n - 1] + Len(kept(n)) /\ T[n - 1] = Len(K[n - 1])
        BY <1>4, <1>7
    <2> QED BY <2>1, <2>3, <2>4
<1> HIDE DEF P
<1>8. N \in 0..N
    OBVIOUS
<1>9. 0..N \subseteq P
    BY <1>6, <1>7, InductionUpTo, Zenon
<1>10. T[N] = Len(K[N])
    BY <1>8, <1>9 DEF P
<1>11. Total(counts) = T[N] /\ Results(q, order) = K[N]
    BY <1>1, <1>3 DEF Total, Results, T, K
<1> QED BY <1>10, <1>11 DEF counts, kept

\* The latencies of a report are those of the metrics kept.
LEMMA LatencyReport ==
    ASSUME NEW s \in Seq(Metric), s # <<>>
    PROVE  LET latencies == [i \in 1..Len(s) |-> s[i].value]
               values == {m.value : m \in ToSet(s)}
           IN  /\ calculateMax(latencies) \in values
               /\ \A v \in values : v <= calculateMax(latencies)
               /\ Fit(values, Len(s)) =>
                     /\ calculateAverage(latencies) <= calculateMax(latencies)
                     /\ \E v \in values : v <= calculateAverage(latencies)
<1> DEFINE latencies == [i \in 1..Len(s) |-> s[i].value]
           values == {m.value : m \in ToSet(s)}
<1>1. PICK N \in Nat : N = Len(s) /\ N > 0 /\ DOMAIN s = 1..N /\ \A i \in 1..N : s[i] \in Metric
    OBVIOUS
<1>2. \A i \in 1..N : s[i].value \in Int
    <2>1. \A v \in Values : v \in Int
        BY ValuesAssumption
    <2> QED BY <1>1, <2>1 DEF Metric
<1>3. latencies \in Seq(Int) /\ Len(latencies) = N /\ \A i \in 1..N : latencies[i] = s[i].value
    BY <1>1, <1>2
<1>4. \A v : v \in values <=> \E i \in 1..N : v = latencies[i]
    BY <1>1, <1>3 DEF ToSet
<1> HIDE DEF latencies, values
<1>5. /\ \E i \in 1..N : calculateMax(latencies) = latencies[i]
      /\ \A i \in 1..N : latencies[i] <= calculateMax(latencies)
      /\ (\A i \in 1..N : N * latencies[i] \in -MaxDuration..MaxDuration) =>
            /\ calculateAverage(latencies) <= calculateMax(latencies)
            /\ \E i \in 1..N : latencies[i] <= calculateAverage(latencies)
    BY <1>1, <1>3, LatencyFacts
<1>6. Fit(values, N) => \A i \in 1..N : N * latencies[i] \in -MaxDuration..MaxDuration
    BY <1>4 DEF Fit
<1>7. /\ calculateMax(latencies) \in values
      /\ \A v \in values : v <= calculateMax(latencies)
      /\ Fit(values, N) => /\ calculateAverage(latencies) <= calculateMax(latencies)
                           /\ \E v \in values : v <= calculateAverage(latencies)
    BY <1>4, <1>5, <1>6
<1> QED BY <1>1, <1>7 DEF latencies, values

\* What the summary counts.
LEMMA UsageCorrect ==
    ASSUME TypeOK, SerialInv, NEW from \in Int, NEW to \in Int, NEW order \in Orders
    PROVE  UsageAgrees(from, to, order)
<1> DEFINE asked(kind) == Within(from, to, Unasked, Unasked, kind)
<1>1. order \in Seq(Keys) /\ metrics \in [Keys -> Seq(Metric)]
    BY OrderFacts DEF TypeOK
<1>2. ASSUME NEW kind, kind # AnyKind
      PROVE  Count(asked(kind), order) =
             Total([i \in 1..Len(order) |->
                       Len(Filter(metrics[order[i]], Inside(from, to) \cap OfKind(kind)))])
    <2> DEFINE q == asked(kind)
    <2>1. /\ q.resource = Unasked /\ q.id = Unasked /\ q.kind = kind
          /\ q.from = from + 1 /\ q.to = to - 1 /\ q.offset = 0 /\ q.limit = 0
        BY DEF Within
    <2> HIDE DEF q
    <2>2. Matching(q) = Inside(from, to) \cap OfKind(kind)
        <3>1. \A m \in Metric : m.at \in Int
            BY BoundsAssumption DEF Metric
        <3> QED BY <1>2, <2>1, <3>1 DEF Matching, MetricMatches, Inside, OfKind
    <2>3. QueryMetrics(q, order) = Results(q, order)
        BY <2>1, AllFound
    <2>4. Total([i \in 1..Len(order) |-> Len(Filter(metrics[order[i]], Matching(q)))]) =
          Count(q, order)
        BY <1>1, <2>1, <2>3, UsageFacts DEF Count
    <2> QED BY <2>2, <2>4 DEF q
<1>3. "deploy" # AnyKind /\ "error" # AnyKind
    BY DEF AnyKind
<1>4. /\ GetUsageSummary(from, to, order).deploys = Count(asked("deploy"), order)
      /\ GetUsageSummary(from, to, order).errors = Count(asked("error"), order)
    BY <1>2, <1>3 DEF GetUsageSummary
<1> QED BY <1>4 DEF UsageAgrees

\* What the reports of a workload count.
LEMMA WorkloadCorrect ==
    ASSUME TypeOK, SerialInv, PlainNames, NEW from \in Int, NEW to \in Int, NEW order \in Orders,
           NEW id \in Ids
    PROVE  WorkloadAgrees(id, from, to, order)
<1> DEFINE own(kind) == Within(from, to, Workload, id, kind)
           s == OfWorkload(id, from, to)
           kept(set) == Filter(s, set)
           late == kept(OfKind("latency"))
           answered == ToSet(QueryMetrics(own(AnyKind), order))
           values == {m.value : m \in answered \cap OfKind("latency")}
           deploy == GetDeployMetrics(id, from, to)
           error == GetErrorMetrics(id, from, to)
           latency == GetLatencyMetrics(id, from, to)
<1>1. ASSUME NEW kind
      PROVE  /\ s \in Seq(Metric) /\ IsInjective(s)
             /\ ToSet(QueryMetrics(own(kind), order)) = AskedOf(s, kind)
             /\ Count(own(kind), order) = Cardinality(AskedOf(s, kind))
    BY FoundOfWorkload
<1>2. LET latencies == [i \in 1..Len(late) |-> late[i].value]
      IN  latency = IF late = <<>> THEN [average |-> 0, max |-> 0]
                    ELSE [average |-> calculateAverage(latencies), max |-> calculateMax(latencies)]
    BY Zenon DEF GetLatencyMetrics
<1>3. /\ deploy.count = Len(s) /\ error.count = Len(s)
      /\ deploy.success = Len(kept(OfKind("deploy_success")))
      /\ deploy.failure = Len(kept(OfKind("deploy_failure")))
      /\ \A c \in Causes : error.types[c] = Len(kept(OfCause(c)))
    BY DEF GetDeployMetrics, GetErrorMetrics
<1> HIDE DEF s, own, deploy, error, latency
<1>4. s \in Seq(Metric) /\ IsInjective(s) /\ answered = ToSet(s)
      /\ Count(own(AnyKind), order) = Len(s)
    <2>1. AskedOf(s, AnyKind) = ToSet(s)
        BY DEF AskedOf
    <2> QED BY <1>1, <2>1, LenCounts
<1>5. ASSUME NEW kind, kind # AnyKind
      PROVE  Count(own(kind), order) = Len(kept(OfKind(kind)))
    <2>1. \A m \in ToSet(s) : m \in Metric
        BY <1>4 DEF ToSet
    <2>2. AskedOf(s, kind) = ToSet(s) \cap OfKind(kind)
        BY <1>5, <2>1 DEF OfKind, AskedOf
    <2>3. Count(own(kind), order) = Cardinality(ToSet(s) \cap OfKind(kind))
        BY <1>1, <2>2
    <2>4. Len(kept(OfKind(kind))) = Cardinality(ToSet(s) \cap OfKind(kind))
        BY <1>4, FilterCounts
    <2> QED BY <2>3, <2>4
<1> HIDE DEF answered, values
<1>6. \A c \in Causes : Len(kept(OfCause(c))) = Cardinality(answered \cap OfCause(c))
    BY <1>4, FilterCounts
<1>7. "deploy_success" # AnyKind /\ "deploy_failure" # AnyKind /\ "latency" # AnyKind
    BY DEF AnyKind
<1>8. late \in Seq(Metric) /\ values = {m.value : m \in ToSet(late)}
    <2>1. late \in Seq(Metric) /\ ToSet(late) = ToSet(s) \cap OfKind("latency")
        BY <1>4, FilterFacts
    <2> QED BY <1>4, <2>1 DEF values
<1> HIDE DEF late
<1>9. IF values = {} THEN latency.max = 0
       ELSE /\ latency.max \in values
            /\ \A v \in values : v <= latency.max
            /\ Fit(values, Count(own("latency"), order)) =>
                   /\ latency.average <= latency.max
                   /\ \E v \in values : v <= latency.average
    <2>1. CASE late = <<>>
        <3>1. ToSet(late) = {}
            BY <2>1 DEF ToSet
        <3>2. latency.max = 0
            BY <1>2, <2>1
        <3> QED BY <1>8, <3>1, <3>2
    <2>2. CASE late # <<>>
        <3> DEFINE latencies == [i \in 1..Len(late) |-> late[i].value]
        <3>1. /\ calculateMax(latencies) \in values
              /\ \A v \in values : v <= calculateMax(latencies)
              /\ Fit(values, Len(late)) =>
                    /\ calculateAverage(latencies) <= calculateMax(latencies)
                    /\ \E v \in values : v <= calculateAverage(latencies)
            BY <1>8, <2>2, LatencyReport
        <3>2. latency = [average |-> calculateAverage(latencies), max |-> calculateMax(latencies)]
            BY <1>2, <2>2
        <3>3. values # {}
            BY <3>1
        <3>4. Count(own("latency"), order) = Len(late)
            BY <1>5, <1>7 DEF late
        <3> HIDE DEF latencies
        <3> QED BY <3>1, <3>2, <3>3, <3>4
    <2> QED BY <2>1, <2>2
<1>10. /\ deploy.count = Count(own(AnyKind), order)
       /\ error.count = Count(own(AnyKind), order)
       /\ deploy.success = Count(own("deploy_success"), order)
       /\ deploy.failure = Count(own("deploy_failure"), order)
       /\ \A c \in Causes : error.types[c] = Cardinality(answered \cap OfCause(c))
    BY <1>3, <1>4, <1>5, <1>6, <1>7
<1> QED BY Zenon, <1>9, <1>10 DEF WorkloadAgrees, own, deploy, error, latency, answered, values, s

\* As long as no name has a colon, the reports of a workload and the summary say what a
\* query over the same times finds, in whatever order the map gives the keys.
THEOREM ReportsCorrect ==
    ASSUME PlainNames
    PROVE  Spec => []ReportsAgree
<1>1. ASSUME TypeOK, SerialInv, NEW from \in Int, NEW to \in Int, NEW order \in Orders
      PROVE  UsageAgrees(from, to, order)
    BY <1>1, UsageCorrect
<1>2. ASSUME TypeOK, SerialInv, NEW from \in Int, NEW to \in Int, NEW order \in Orders,
             NEW id \in Ids
      PROVE  WorkloadAgrees(id, from, to, order)
    BY <1>2, WorkloadCorrect
<1>3. \A w \in Windows : w[1] \in Int /\ w[2] \in Int
    BY BoundsAssumption DEF Windows
<1>4. TypeOK /\ SerialInv => ReportsAgree
    BY <1>1, <1>2, <1>3 DEF ReportsAgree
<1> QED BY <1>4, Invariants, PTL

=============================================================================
