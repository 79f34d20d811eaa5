---------------------------- MODULE MCAnalytics ----------------------------
(* A small instance of Analytics for TLC. *)
EXTENDS Analytics

WorkloadType == <<"workload">>
TwoResources == {WorkloadType, <<"gateway">>}

\* Ids without a colon.
PlainIds == {<<"a">>, <<"b">>}

Asked(resources, ids, kinds, froms, pages) ==
    [resource : resources, id : ids, kind : kinds, from : froms, to : {MaxClock},
     offset : pages, limit : pages]

\* Every filter, alone and together, and pages of every small size.
SmallQueries ==
    Asked({Unasked}, {Unasked, <<"a">>}, {AnyKind, "error"}, {0, 1}, 0..2)
        \cup Asked({<<"gateway">>}, {Unasked}, {AnyKind}, {0}, {0, 1})
        \cup Asked({Unasked}, {Unasked}, {AnyKind}, {0}, -1..2)

\* Durations of both signs, two of which may add up to more than the greatest.
SmallDurations == {-2, 1, 4}

\* Only an error has a cause, and only the value of a latency is looked at.
SmallMetrics ==
    {p \in [resource : Resources, id : Ids, kind : Kinds, value : Values,
            cause : Causes \cup {NoCause}] :
        /\ p.kind = "error" \/ p.cause = NoCause
        /\ p.kind = "latency" \/ p.value = 1}
=============================================================================
