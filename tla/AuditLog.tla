------------------------------ MODULE AuditLog ------------------------------
(***************************************************************************)
(* The audit log of internal/audit.  Log gives an entry its id and time    *)
(* before it takes the mutex, appends and trims under the mutex, and       *)
(* writes to the sink after it: each is a step other calls come between.   *)
(* The memory is lost in a restart, a file is not.                         *)
(***************************************************************************)
EXTENDS Integers, Sequences, FiniteSets

CONSTANTS
    Writers,        \* goroutines that call Log
    Resources,      \* what entries are about
    AnyResource,    \* a query that does not ask for a resource
    Sink,           \* audit.sink of the configuration
    MaxEntries,     \* Logger.max (5000 in the code)
    DefaultLimit,   \* entries a query returns that sets no limit (100 in the code)
    MaxLogs,        \* bound: calls of Log
    MaxClock        \* bound: the clock

ASSUME SinkAssumption == Sink \in {"", "stdout", "file", "kafka"}
ASSUME MaxEntriesAssumption == MaxEntries \in Nat \ {0} /\ DefaultLimit \in Nat \ {0}
ASSUME AnyResourceAssumption == AnyResource \notin Resources
ASSUME BoundsAssumption == MaxLogs \in Nat /\ MaxClock \in Nat

VARIABLES
    clock,      \* the time
    step,       \* where a writer is in Log
    entry,      \* the entry it logs
    entries,    \* Logger.entries
    sink,       \* the lines of the log output or of the file
    drawn,      \* the ids given out
    logged,     \* history: the entries appended since the process started
    returned,   \* history: the ids of the entries whose call of Log returned
    lost        \* history: the ids of the entries the file did not take

vars == <<clock, step, entry, entries, sink, drawn, logged, returned, lost>>

Entry == [id : 1..MaxLogs, at : 0..MaxClock, about : Resources]
NoEntry == [id |-> 0, at |-> 0, about |-> AnyResource]

Init ==
    /\ clock = 0
    /\ step = [w \in Writers |-> "idle"]
    /\ entry = [w \in Writers |-> NoEntry]
    /\ entries = <<>>
    /\ sink = <<>>
    /\ drawn = 0
    /\ logged = <<>>
    /\ returned = {}
    /\ lost = {}

Goto(w, s) == step' = [step EXCEPT ![w] = s]

Tick ==
    /\ clock < MaxClock
    /\ clock' = clock + 1
    /\ UNCHANGED <<step, entry, entries, sink, drawn, logged, returned, lost>>

\* Id and time, outside the mutex.
Stamp(w, about) ==
    /\ step[w] = "idle"
    /\ drawn < MaxLogs
    /\ drawn' = drawn + 1
    /\ entry' = [entry EXCEPT ![w] = [id |-> drawn', at |-> clock, about |-> about]]
    /\ Goto(w, "stamped")
    /\ UNCHANGED <<clock, entries, sink, logged, returned, lost>>

\* Mutants: the newest entries are cut off; the oldest entry is cut one too late.
TrimNewest(s) == SubSeq(s, 1, IF Len(s) > MaxEntries THEN MaxEntries ELSE Len(s))
TrimLate(s) ==
    IF Len(s) > MaxEntries + 1 THEN SubSeq(s, Len(s) - MaxEntries + 1, Len(s)) ELSE s

Trim(s) == IF Len(s) > MaxEntries THEN SubSeq(s, Len(s) - MaxEntries + 1, Len(s)) ELSE s

\* The critical section.
Keep(w) ==
    /\ step[w] = "stamped"
    /\ entries' = Trim(Append(entries, entry[w]))
    /\ logged' = Append(logged, entry[w])
    /\ Goto(w, "kept")
    /\ UNCHANGED <<clock, entry, sink, drawn, returned, lost>>

Returns(w) ==
    /\ Goto(w, "idle")
    /\ returned' = returned \cup {entry[w].id}

\* Mutant: the entry is read back from the log instead of the argument.
WriteLast(w) ==
    /\ step[w] = "kept"
    /\ sink' = IF Sink \in {"", "stdout", "file"} /\ entries # <<>>
               THEN Append(sink, entries[Len(entries)]) ELSE sink
    /\ Returns(w)
    /\ UNCHANGED <<clock, entry, entries, drawn, logged, lost>>

\* The sink is written after the mutex is released.  "kafka" has no code.
Write(w) ==
    /\ step[w] = "kept"
    /\ sink' = IF Sink \in {"", "stdout", "file"} THEN Append(sink, entry[w]) ELSE sink
    /\ Returns(w)
    /\ UNCHANGED <<clock, entry, entries, drawn, logged, lost>>

\* The error of a write to the file is ignored; one of opening it leaves no file.
WriteFails(w) ==
    /\ step[w] = "kept"
    /\ Sink = "file"
    /\ lost' = lost \cup {entry[w].id}
    /\ Returns(w)
    /\ UNCHANGED <<clock, entry, entries, sink, drawn, logged>>

\* The process ends, whatever its goroutines are doing, and starts again.
Restart ==
    /\ logged # <<>> \/ \E w \in Writers : step[w] # "idle"
    /\ step' = [w \in Writers |-> "idle"]
    /\ entry' = [w \in Writers |-> NoEntry]
    /\ entries' = <<>>
    /\ logged' = <<>>
    /\ UNCHANGED <<clock, sink, drawn, returned, lost>>

WriterStep(w) ==
    \/ \E about \in Resources : Stamp(w, about)
    \/ Keep(w) \/ Write(w) \/ WriteFails(w)

Next == Tick \/ Restart \/ \E w \in Writers : WriterStep(w)

Spec == Init /\ [][Next]_vars

----------------------------------------------------------------------------
(* What a query returns *)

Queries == [about : Resources \cup {AnyResource}, since : 0..MaxClock, limit : -1..MaxEntries]

Matches(e, q) == q.about \in {e.about, AnyResource} /\ e.at >= q.since

Limit(q) == IF q.limit <= 0 THEN DefaultLimit ELSE q.limit

\* Mutant: the limit counts the entries looked at, not those found.
ScanLatest(q) ==
    LET out[n \in 0..Len(entries)] ==
            IF n = 0 THEN <<>>
            ELSE LET e == entries[Len(entries) - n + 1]
                     before == out[n - 1]
                 IN  IF n <= Limit(q) /\ Matches(e, q) THEN Append(before, e) ELSE before
    IN  out

\* What the loop has found when it has looked at the n last entries: it goes from the
\* last to the first, until the limit is reached.
Scan(q) ==
    LET out[n \in 0..Len(entries)] ==
            IF n = 0 THEN <<>>
            ELSE LET e == entries[Len(entries) - n + 1]
                     before == out[n - 1]
                 IN  IF Len(before) < Limit(q) /\ Matches(e, q) THEN Append(before, e) ELSE before
    IN  out

Query(q) == Scan(q)[Len(entries)]

----------------------------------------------------------------------------
(* Properties *)

\* Every variable has its type, and the memory its limit.
TypeOK ==
    /\ clock \in 0..MaxClock
    /\ step \in [Writers -> {"idle", "stamped", "kept"}]
    /\ entry \in [Writers -> Entry \cup {NoEntry}]
    /\ \A w \in Writers : step[w] # "idle" => entry[w] \in Entry
    /\ entries \in Seq(Entry) /\ Len(entries) <= MaxEntries
    /\ sink \in Seq(Entry)
    /\ drawn \in 0..MaxLogs
    /\ logged \in Seq(Entry)
    /\ returned \cup lost \subseteq 1..MaxLogs

\* What the log holds are the last entries that were appended, in that order and
\* without a gap: trimming never takes a younger entry before an older one.
KeepsLatest ==
    /\ Len(entries) = IF Len(logged) < MaxEntries THEN Len(logged) ELSE MaxEntries
    /\ \A i \in 1..Len(entries) : entries[i] = logged[Len(logged) - Len(entries) + i]

\* A caller that Log has returned to finds its entry in the file, and once only,
\* however many restarts later, unless the file refused it.
ReturnedIsWritten ==
    Sink = "file" =>
        \A n \in returned \ lost : Cardinality({i \in DOMAIN sink : sink[i].id = n}) = 1

\* A query returns entries the log holds that match, each once and the newest first, as
\* many as the limit allows, and leaves out only older ones.
QueryExact ==
    \A q \in Queries :
        LET out == Query(q)
            found == {i \in DOMAIN entries : Matches(entries[i], q)}
            taken == {i \in found : \E k \in DOMAIN out : out[k] = entries[i]}
        IN  /\ Len(out) = Cardinality(taken)
            /\ Len(out) = IF Cardinality(found) < Limit(q) THEN Cardinality(found) ELSE Limit(q)
            /\ \A k, l \in DOMAIN out, i, j \in taken :
                  out[k] = entries[i] /\ out[l] = entries[j] /\ k < l => j < i
            /\ \A i \in taken, j \in found \ taken : j < i

=============================================================================
