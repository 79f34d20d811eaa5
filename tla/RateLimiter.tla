---------------------------- MODULE RateLimiter ----------------------------
(***************************************************************************)
(* The rate limiter of internal/middleware: a token bucket per remote      *)
(* address, in a map.  A remote address is an IP and a port, so a          *)
(* connection of a client; the server runs one request of a connection at  *)
(* a time.  The map is read for the bucket after the mutex is released:    *)
(* when another connection's bucket is being inserted just then, the read  *)
(* finds the bucket or the Go runtime ends the process.                    *)
(*                                                                         *)
(* Beside each bucket runs the bucket the documentation describes, which   *)
(* fills at the configured rate and loses nothing; it counts in units of   *)
(* the clock, Rate of which are worth a token.                             *)
(***************************************************************************)
EXTENDS Integers, FiniteSets

CONSTANTS
    Conns,      \* remote addresses
    Nobody,     \* no connection
    Capacity,   \* requestsPerSecond: 100 in the code
    Rate,       \* time per token: a second over requestsPerSecond
    MaxClock    \* bound: the clock

ASSUME ConnsAssumption == Nobody \notin Conns
ASSUME RatesAssumption == Capacity \in Nat \ {0} /\ Rate \in Nat \ {0} /\ MaxClock \in Nat

VARIABLES
    now,        \* the time
    mutex,      \* the connection that holds limiterMu, or Nobody
    limiter,    \* the buckets of the map, by connection
    step,       \* where the middleware is with a connection's request
    crashed,    \* the runtime has ended the process
    credit,     \* history: the documented bucket of a connection
    last        \* history: when a connection's last request was decided

vars == <<now, mutex, limiter, step, crashed, credit, last>>

Missing == [tokens |-> 0, lastRefill |-> -1]
Smaller(a, b) == IF a < b THEN a ELSE b

newRateLimiter == [tokens |-> Capacity, lastRefill |-> now]

\* Mutants: the tokens have no ceiling; a refill leaves the time of the last one.
refillUnbounded(b) ==
    IF now - b.lastRefill >= Rate
    THEN [tokens |-> b.tokens + (now - b.lastRefill) \div Rate, lastRefill |-> now]
    ELSE b
refillAgain(b) ==
    [b EXCEPT !.tokens = Smaller(Capacity, b.tokens + (now - b.lastRefill) \div Rate)]
\* Mutant: the time of a token must have passed and more.
refillLater(b) ==
    IF now - b.lastRefill > Rate
    THEN [tokens |-> Smaller(Capacity, b.tokens + (now - b.lastRefill) \div Rate),
          lastRefill |-> now]
    ELSE b

\* Whole tokens for the time since the last refill; the rest of the time is lost.
refill(b) ==
    IF now - b.lastRefill >= Rate
    THEN [tokens |-> Smaller(Capacity, b.tokens + (now - b.lastRefill) \div Rate),
          lastRefill |-> now]
    ELSE b

Init ==
    /\ now = 0
    /\ mutex = Nobody
    /\ limiter = [c \in Conns |-> Missing]
    /\ step = [c \in Conns |-> "idle"]
    /\ crashed = FALSE
    /\ credit = [c \in Conns |-> Capacity * Rate]
    /\ last = [c \in Conns |-> -1]

history == <<credit, last>>
Goto(c, s) == step' = [step EXCEPT ![c] = s]

Tick ==
    /\ ~crashed
    /\ now < MaxClock
    /\ now' = now + 1
    /\ credit' = [c \in Conns |-> Smaller(Capacity * Rate, credit[c] + 1)]
    /\ UNCHANGED <<mutex, limiter, step, crashed, last>>

Arrive(c) ==
    /\ ~crashed
    /\ step[c] = "idle"
    /\ Goto(c, "arrived")
    /\ UNCHANGED <<now, mutex, limiter, crashed, history>>

\* Mutant: the bucket is made without looking for one.
LockToInsert(c) ==
    /\ ~crashed
    /\ step[c] = "arrived"
    /\ mutex = Nobody
    /\ mutex' = c
    /\ Goto(c, "inserting")
    /\ UNCHANGED <<now, limiter, crashed, history>>

Lock(c) ==
    /\ ~crashed
    /\ step[c] = "arrived"
    /\ mutex = Nobody
    /\ mutex' = c
    /\ Goto(c, IF limiter[c] = Missing THEN "inserting" ELSE "locked")
    /\ UNCHANGED <<now, limiter, crashed, history>>

\* The map is being written until Insert ends the write.
Insert(c) ==
    /\ ~crashed
    /\ step[c] = "inserting"
    /\ limiter' = [limiter EXCEPT ![c] = newRateLimiter]
    /\ Goto(c, "locked")
    /\ UNCHANGED <<now, mutex, crashed, history>>

Unlock(c) ==
    /\ ~crashed
    /\ step[c] = "locked"
    /\ mutex' = Nobody
    /\ Goto(c, "reading")
    /\ UNCHANGED <<now, limiter, crashed, history>>

Written == \E c \in Conns : step[c] = "inserting"

\* The read of the map outside the mutex: "concurrent map read and map write".
Fault(c) ==
    /\ ~crashed
    /\ step[c] = "reading"
    /\ Written
    /\ crashed' = TRUE
    /\ UNCHANGED <<now, mutex, limiter, step, history>>

\* allow: refill, then take a token if there is one.
allow(c) ==
    /\ ~crashed
    /\ step[c] = "reading"
    /\ limiter[c] # Missing
    /\ LET b == refill(limiter[c])
           admitted == b.tokens > 0
       IN  /\ limiter' = [limiter EXCEPT ![c] = IF admitted THEN [b EXCEPT !.tokens = @ - 1] ELSE b]
           /\ Goto(c, IF admitted THEN "admitted" ELSE "refused")
           /\ credit' = [credit EXCEPT ![c] = IF admitted THEN @ - Rate ELSE @]
    /\ last' = [last EXCEPT ![c] = now]
    /\ UNCHANGED <<now, mutex, crashed>>

\* The answer has been sent: the next handler's, or 429.
Answer(c) ==
    /\ ~crashed
    /\ step[c] \in {"admitted", "refused"}
    /\ Goto(c, "idle")
    /\ UNCHANGED <<now, mutex, limiter, crashed, history>>

Next ==
    \/ Tick
    \/ \E c \in Conns :
          Arrive(c) \/ Lock(c) \/ Insert(c) \/ Unlock(c) \/ Fault(c) \/ allow(c) \/ Answer(c)

Spec == Init /\ [][Next]_vars

----------------------------------------------------------------------------
(* Properties *)

\* Every variable has its type.
TypeOK ==
    /\ now \in 0..MaxClock
    /\ mutex \in Conns \cup {Nobody}
    /\ limiter \in [Conns -> [tokens : 0..Capacity, lastRefill : -1..MaxClock]]
    /\ step \in [Conns -> {"idle", "arrived", "inserting", "locked", "reading", "admitted", "refused"}]
    /\ crashed \in BOOLEAN
    /\ last \in [Conns -> -1..MaxClock]
    /\ credit \in [Conns -> Int]

\* What a connection gets is what the documented bucket of the same size and rate
\* would give it, whatever the timing, but for less than one token: time that passes
\* while the bucket is full counts towards the next token, up to Rate.
NeverOverdrawn == \A c \in Conns : credit[c] > -Rate

\* A connection that leaves Rate between one request and the next is never refused,
\* although the limiter throws time away: a refusal comes within Rate of the request
\* that was decided before.
SpacedRequestsPass ==
    [][\A c \in Conns :
           step[c] = "reading" /\ step'[c] = "refused" => last[c] >= 0 /\ now - last[c] < Rate]_vars

\* A bucket that is in the map stays there, and only its own connection's request
\* changes it: no request finds the bucket of its connection full again.
BucketsKept ==
    [][\A c \in Conns :
           limiter[c] # Missing /\ limiter'[c] # limiter[c] =>
               step[c] = "reading" /\ limiter'[c] # Missing]_vars

=============================================================================
