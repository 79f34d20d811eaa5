----------------------------- MODULE Analytics -----------------------------
(***************************************************************************)
(* The analytics service of internal/analytics: metrics are appended, per  *)
(* resource, under the mutex, and every report is computed from them under *)
(* the read lock.  The timestamp of a metric is the client's.              *)
(*                                                                         *)
(* A resource type or id is the sequence of its parts between colons, so   *)
(* that the key "type:id" is their concatenation, and a prefix that ends   *)
(* in a colon, or a suffix that begins with one, is a strict prefix or     *)
(* suffix of it.  A query goes through a Go map: its result is a function  *)
(* of the order of the keys too.  The maps deployMetrics, errorMetrics and *)
(* latencyMetrics, which are written and never read, are left out.         *)
(***************************************************************************)
EXTENDS Integers, Sequences, FiniteSets, SequencesExt

CONSTANTS
    Resources,      \* the resource types metrics are recorded for
    Workload,       \* the resource type of the workload reports
    Ids,            \* resource ids
    Kinds,          \* metric types
    Causes,         \* error types
    NoCause,        \* a metric without the label error_type
    Values,         \* values, which are durations in a metric of latency
    MaxDuration,    \* the greatest time.Duration
    Posted,         \* what clients post: metrics without time and serial
    Queries,        \* the queries asked
    MaxMetrics,     \* bound: metrics
    MaxClock        \* bound: the time a client may give a metric

Names == Resources \cup Ids
ASSUME NamesAssumption == <<>> \notin Names /\ Workload \in Resources
ASSUME CausesAssumption == NoCause \notin Causes
ASSUME ValuesAssumption ==
    MaxDuration \in Nat /\ Values \subseteq (-MaxDuration - 1)..MaxDuration
ASSUME PostedAssumption ==
    Posted \subseteq [resource : Resources, id : Ids, kind : Kinds, value : Values,
                      cause : Causes \cup {NoCause}]
ASSUME BoundsAssumption == MaxMetrics \in Nat /\ MaxClock \in Nat
ASSUME QueriesAssumption ==
    \A q \in Queries :
        /\ q = [resource |-> q.resource, id |-> q.id, kind |-> q.kind, from |-> q.from,
                to |-> q.to, offset |-> q.offset, limit |-> q.limit]
        /\ q.offset \in Int /\ q.limit \in Int

VARIABLES
    metrics,    \* Service.metrics
    recorded    \* how many metrics there are

vars == <<metrics, recorded>>

Key(resource, id) == resource \o id
Keys == {Key(r, i) : r \in Resources, i \in Ids}
Metric == [resource : Resources, id : Ids, kind : Kinds, at : 0..MaxClock, value : Values,
           cause : Causes \cup {NoCause}, serial : 1..MaxMetrics]

Init ==
    /\ metrics = [k \in Keys |-> <<>>]
    /\ recorded = 0

\* Mutant: the new metric takes the place of the others.
RecordOver(m) ==
    /\ metrics' = [metrics EXCEPT ![Key(m.resource, m.id)] = <<m>>]
    /\ recorded' = recorded + 1

RecordMetric(m) ==
    /\ metrics' = [metrics EXCEPT ![Key(m.resource, m.id)] = Append(@, m)]
    /\ recorded' = recorded + 1

\* handleRecordMetric: the time is whatever the client says.
Post(p, at) ==
    /\ recorded < MaxMetrics
    /\ RecordMetric([resource |-> p.resource, id |-> p.id, kind |-> p.kind, at |-> at,
                     value |-> p.value, cause |-> p.cause, serial |-> recorded + 1])

Next == \E p \in Posted, at \in 0..MaxClock : Post(p, at)

Spec == Init /\ [][Next]_vars

----------------------------------------------------------------------------
(* QueryMetrics *)

Unasked == <<>>         \* no resource type or id asked for
AnyKind == ""       \* no metric type asked for

KeyMatches(k, q) ==
    /\ q.resource = Unasked \/ IsStrictPrefix(q.resource, k)
    /\ q.id = Unasked \/ IsStrictSuffix(q.id, k)

MetricMatches(m, q) ==
    /\ q.kind \in {AnyKind, m.kind}
    /\ q.from <= m.at
    /\ m.at <= q.to
Matching(q) == {m \in Metric : MetricMatches(m, q)}

\* What a loop through s that appends the elements of a set has after n of them.
Filtering(s, set) ==
    LET kept[n \in 0..Len(s)] ==
            IF n = 0 THEN <<>>
            ELSE IF s[n] \in set THEN Append(kept[n - 1], s[n]) ELSE kept[n - 1]
    IN  kept
Filter(s, set) == Filtering(s, set)[Len(s)]

\* What the loop through the keys has after n of them.
Gathering(q, order) ==
    LET results[n \in 0..Len(order)] ==
            IF n = 0 THEN <<>>
            ELSE IF KeyMatches(order[n], q)
                 THEN results[n - 1] \o Filter(metrics[order[n]], Matching(q))
                 ELSE results[n - 1]
    IN  results
Results(q, order) == Gathering(q, order)[Len(order)]

Skipped(s, q) == IF q.offset > 0 /\ q.offset < Len(s) THEN SubSeq(s, q.offset + 1, Len(s)) ELSE s
Limited(s, q) == IF q.limit > 0 /\ q.limit < Len(s) THEN SubSeq(s, 1, q.limit) ELSE s

\* Mutant: the limit is applied before the offset.
PageLimitFirst(s, q) == Skipped(Limited(s, q), q)
Page(s, q) == Limited(Skipped(s, q), q)

QueryMetrics(q, order) == Page(Results(q, order), q)

----------------------------------------------------------------------------
(* The reports *)

Inside(from, to) == {m \in Metric : from < m.at /\ m.at < to}
OfKind(kind) == {m \in Metric : m.kind = kind}
OfCause(cause) == {m \in Metric : m.cause = cause}
OfWorkload(id, from, to) == Filter(metrics[Key(Workload, id)], Inside(from, to))

GetDeployMetrics(id, from, to) ==
    LET s == OfWorkload(id, from, to)
    IN  [count |-> Len(s),
         success |-> Len(Filter(s, OfKind("deploy_success"))),
         failure |-> Len(Filter(s, OfKind("deploy_failure")))]

GetErrorMetrics(id, from, to) ==
    LET s == OfWorkload(id, from, to)
    IN  [count |-> Len(s), types |-> [c \in Causes |-> Len(Filter(s, OfCause(c)))]]

\* A sum that does not fit a time.Duration wraps around its word, and a quotient is cut
\* off towards zero.
Wrapped(d) == ((d + MaxDuration + 1) % (2 * MaxDuration + 2)) - (MaxDuration + 1)
Quotient(d, n) == IF d >= 0 THEN d \div n ELSE -((-d) \div n)

\* What calculateAverage has added up after n durations.
Adding(durations) ==
    LET total[n \in 0..Len(durations)] ==
            IF n = 0 THEN 0 ELSE Wrapped(total[n - 1] + durations[n])
    IN  total

\* What calculateMax has after n durations.
Topping(durations) ==
    LET max[n \in 0..Len(durations)] ==
            IF n = 0 THEN durations[1]
            ELSE IF durations[n] > max[n - 1] THEN durations[n] ELSE max[n - 1]
    IN  max

\* Mutant: the sum is not divided.
calculateTotal(durations) == Adding(durations)[Len(durations)]
calculateAverage(durations) == Quotient(Adding(durations)[Len(durations)], Len(durations))
calculateMax(durations) == Topping(durations)[Len(durations)]

GetLatencyMetrics(id, from, to) ==
    LET s == Filter(OfWorkload(id, from, to), OfKind("latency"))
        latencies == [i \in 1..Len(s) |-> s[i].value]
    IN  IF s = <<>> THEN [average |-> 0, max |-> 0]
        ELSE [average |-> calculateAverage(latencies), max |-> calculateMax(latencies)]

\* The sum of some counts.
Summing(counts) ==
    LET total[n \in 0..Len(counts)] == IF n = 0 THEN 0 ELSE total[n - 1] + counts[n]
    IN  total
Total(counts) == Summing(counts)[Len(counts)]

\* The summary goes through the keys of the map too.
GetUsageSummary(from, to, order) ==
    LET total(kind) ==
            Total([i \in 1..Len(order) |->
                      Len(Filter(metrics[order[i]], Inside(from, to) \cap OfKind(kind)))])
    IN  [deploys |-> total("deploy"), errors |-> total("error")]

----------------------------------------------------------------------------
(* Properties *)

Stored == UNION {ToSet(metrics[k]) : k \in Keys}
Orders == SetToSeqs({k \in Keys : metrics[k] # <<>>})   \* the orders of the Go map
Windows == {w \in (0..MaxClock) \X (0..MaxClock) : w[1] < w[2]}
Found(q) == {m \in Stored : KeyMatches(Key(m.resource, m.id), q) /\ MetricMatches(m, q)}
Serials(s) == [i \in DOMAIN s |-> s[i].serial]

\* Every metric recorded is stored once, under its own key, in recording order.
TypeOK ==
    /\ recorded \in 0..MaxMetrics
    /\ metrics \in [Keys -> Seq(Metric)]
    /\ \A k \in Keys : \A i \in DOMAIN metrics[k] :
          /\ Key(metrics[k][i].resource, metrics[k][i].id) = k
          /\ i > 1 => metrics[k][i - 1].serial < metrics[k][i].serial
    /\ {m.serial : m \in Stored} = 1..recorded

\* In whatever order the map gives the keys, a query without offset and limit
\* answers every match once, and pages of one order follow one another: a page
\* whose offset lies inside is what comes after the first offset answers, as
\* long as its limit and what is left allow.  Past the end the pages begin again.
PageExact ==
    \A q \in Queries, order \in Orders :
        LET page(offset, limit) ==
                QueryMetrics([q EXCEPT !.offset = offset, !.limit = limit], order)
            all == page(0, 0)
            own == page(q.offset, q.limit)
            first == IF q.offset > 0 THEN q.offset ELSE 0
            before == IF first = 0 THEN <<>> ELSE page(0, first)
            left == Len(all) - first
        IN  /\ ToSet(all) = Found(q)
            /\ IsInjective(Serials(all))
            /\ IF first < Len(all)
               THEN /\ IsPrefix(before \o own, all)
                    /\ Len(own) = IF q.limit \in 1..left THEN q.limit ELSE left
               ELSE own = page(0, q.limit)

\* No resource type and no id has a colon in it.  With one, a key has more than one
\* reading, and a query finds the metrics of another workload with the wanted one's.
PlainNames == \A n \in Names : n = <<n[1]>>

\* The query over the times of a report: it takes the ends, the report leaves them out.
Within(from, to, resource, id, kind) ==
    [resource |-> resource, id |-> id, kind |-> kind, from |-> from + 1, to |-> to - 1,
     offset |-> 0, limit |-> 0]
Count(q, order) == Len(QueryMetrics(q, order))

\* So many durations add up to one that does not wrap.
Fit(values, n) == \A v \in values : n * v \in -MaxDuration..MaxDuration

UsageAgrees(from, to, order) ==
    LET usage == GetUsageSummary(from, to, order)
    IN  /\ usage.deploys = Count(Within(from, to, Unasked, Unasked, "deploy"), order)
        /\ usage.errors = Count(Within(from, to, Unasked, Unasked, "error"), order)

WorkloadAgrees(id, from, to, order) ==
    LET own(kind) == Within(from, to, Workload, id, kind)
        deploy == GetDeployMetrics(id, from, to)
        error == GetErrorMetrics(id, from, to)
        latency == GetLatencyMetrics(id, from, to)
        answered == ToSet(QueryMetrics(own(AnyKind), order))
        values == {m.value : m \in answered \cap OfKind("latency")}
    IN  /\ deploy.count = Count(own(AnyKind), order)
        /\ error.count = Count(own(AnyKind), order)
        /\ deploy.success = Count(own("deploy_success"), order)
        /\ deploy.failure = Count(own("deploy_failure"), order)
        /\ \A c \in Causes : error.types[c] = Cardinality(answered \cap OfCause(c))
        /\ IF values = {} THEN latency.max = 0
           ELSE /\ latency.max \in values
                /\ \A v \in values : v <= latency.max
                /\ Fit(values, Count(own("latency"), order)) =>
                       /\ latency.average <= latency.max
                       /\ \E v \in values : v <= latency.average

\* The reports of a workload and the summary say what a query over the same times
\* finds, though one looks a key up and the other matches keys, one leaves the ends
\* of the window out and the other takes them; the count of a cause is of the
\* metrics with it; and the average latency lies between the least and the greatest,
\* unless the sum wraps.  The count of errors is of the metrics of every kind, for
\* GetErrorMetrics looks at no type, although analytics.go:160 says "error metrics".
ReportsAgree ==
    \A w \in Windows, order \in Orders :
        /\ UsageAgrees(w[1], w[2], order)
        /\ \A id \in Ids : WorkloadAgrees(id, w[1], w[2], order)

=============================================================================
