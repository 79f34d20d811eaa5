-------------------------- MODULE MiddlewareProofs -------------------------
(***************************************************************************)
(* Proofs about the middleware: RateLimiter, for every number of           *)
(* connections, capacity and rate, and ApiKeys, for every number of        *)
(* clients, keys and addresses.                                            *)
(***************************************************************************)
EXTENDS RateLimiter, TLAPS

\* The arithmetic of a bucket: tokens times Rate, and whole tokens for a time.
LEMMA TimesLess == \A t, R \in Nat : t > 0 => (t - 1) * R = t * R - R
    OBVIOUS
LEMMA TimesPlus == \A t, q, R \in Nat : (t + q) * R = t * R + q * R
    OBVIOUS
LEMMA TimesMonotone == \A t, u, R \in Nat : t <= u => t * R <= u * R
    OBVIOUS
LEMMA TimesNat == \A t, R \in Nat : t * R \in Nat
    OBVIOUS
LEMMA WholeTokens == \A e \in Nat, R \in Nat \ {0} : e \div R \in Nat /\ (e \div R) * R <= e
    OBVIOUS

----------------------------------------------------------------------------
(* Type correctness *)

Bucket == [tokens : 0..Capacity, lastRefill : -1..MaxClock]

LEMMA RefillType ==
    ASSUME TypeOK, NEW b \in Bucket
    PROVE  refill(b) \in Bucket
<1>1. CASE now - b.lastRefill >= Rate
    <2> DEFINE e == now - b.lastRefill
    <2>1. e \in Nat
        BY <1>1, RatesAssumption DEF TypeOK, Bucket
    <2>2. e \div Rate \in Nat
        BY <2>1, WholeTokens, RatesAssumption
    <2>3. Smaller(Capacity, b.tokens + e \div Rate) \in 0..Capacity
        BY <2>2, RatesAssumption DEF Smaller, Bucket
    <2> QED BY <1>1, <2>3 DEF refill, Bucket, TypeOK
<1>2. CASE ~(now - b.lastRefill >= Rate)
    BY <1>2 DEF refill
<1> QED BY <1>1, <1>2

\* Every variable has its type.
THEOREM TypeCorrect == Spec => []TypeOK
<1>1. Init => TypeOK
    <2> SUFFICES ASSUME Init PROVE TypeOK
        OBVIOUS
    <2>1. Capacity * Rate \in Int
        BY RatesAssumption, TimesNat
    <2>2. Missing \in [tokens : 0..Capacity, lastRefill : -1..MaxClock]
        BY RatesAssumption DEF Missing
    <2>3. /\ limiter \in [Conns -> [tokens : 0..Capacity, lastRefill : -1..MaxClock]]
          /\ credit \in [Conns -> Int]
        BY <2>1, <2>2 DEF Init
    <2>4. /\ now \in 0..MaxClock /\ last \in [Conns -> -1..MaxClock]
        BY RatesAssumption DEF Init
    <2> QED BY <2>3, <2>4 DEF Init, TypeOK
<1>2. TypeOK /\ [Next]_vars => TypeOK'
    <2> SUFFICES ASSUME TypeOK, [Next]_vars PROVE TypeOK'
        OBVIOUS
    <2> USE RatesAssumption, ConnsAssumption DEF TypeOK, history, Goto
    <2>1. CASE Tick
        <3>1. Capacity * Rate \in Nat
            BY TimesNat
        <3> QED BY <2>1, <3>1 DEF Tick, Smaller
    <2>2. ASSUME NEW c \in Conns, Arrive(c) \/ Unlock(c) \/ Fault(c) \/ Answer(c) PROVE TypeOK'
        BY <2>2 DEF Arrive, Unlock, Fault, Answer
    <2>3. ASSUME NEW c \in Conns, Lock(c) PROVE TypeOK'
        BY <2>3 DEF Lock
    <2>4. ASSUME NEW c \in Conns, Insert(c) PROVE TypeOK'
        BY <2>4 DEF Insert, newRateLimiter
    <2>5. ASSUME NEW c \in Conns, allow(c) PROVE TypeOK'
        <3> DEFINE b == refill(limiter[c])
        <3>1. b \in Bucket
            BY RefillType DEF Bucket
        <3>2. b.tokens > 0 => [b EXCEPT !.tokens = @ - 1] \in Bucket
            BY <3>1 DEF Bucket
        <3>3. limiter' \in [Conns -> Bucket]
            BY <2>5, <3>1, <3>2 DEF allow, Bucket
        <3>4. credit' \in [Conns -> Int]
            BY <2>5 DEF allow
        <3>5. step' \in [Conns -> {"idle", "arrived", "inserting", "locked", "reading",
                                   "admitted", "refused"}]
            BY <2>5 DEF allow
        <3> QED BY <2>5, <3>3, <3>4, <3>5 DEF allow, Bucket
    <2>6. CASE UNCHANGED vars
        BY <2>6 DEF vars
    <2> QED BY <2>1, <2>2, <2>3, <2>4, <2>5, <2>6 DEF Next
<1> QED BY <1>1, <1>2, PTL DEF Spec

----------------------------------------------------------------------------
(* The bucket and the documented bucket *)

Full == Capacity * Rate
Slack == Rate - 1
\* What a bucket is worth at a time: its tokens and the time since the last refill.
Worth(b, t) == b.tokens * Rate + (t - b.lastRefill)
Capped(n) == Smaller(Full + Slack, n)

\* What NeverOverdrawn needs to be inductive: a bucket is worth at most Slack more
\* than the documented one, as far as it can be filled.
Covered(b, t, cr) ==
    /\ b.lastRefill \in 0..t
    /\ Capped(Worth(b, t)) <= cr + Slack

CreditInv ==
    \A c \in Conns :
        /\ credit[c] > -Rate
        /\ limiter[c] = Missing => credit[c] = Full
        /\ limiter[c] # Missing => Covered(limiter[c], now, credit[c])

LEMMA FullType == Full \in Nat /\ Slack \in Nat
    BY RatesAssumption, TimesNat DEF Full, Slack

\* A refill makes a bucket worth no more.
LEMMA RefillCovered ==
    ASSUME TypeOK, NEW b \in Bucket, NEW cr \in Int, Covered(b, now, cr)
    PROVE  LET r == refill(b)
           IN  /\ r \in Bucket /\ r.lastRefill \in 0..now
               /\ Worth(r, now) <= cr + Slack
<1> USE RatesAssumption DEF Bucket
<1>1. refill(b) \in Bucket
    BY RefillType
<1>2. now \in Nat /\ b.lastRefill \in 0..now /\ b.tokens \in 0..Capacity
    BY DEF TypeOK, Covered
<1> DEFINE e == now - b.lastRefill
           q == e \div Rate
<1>3. e \in Nat
    BY <1>2
<1>4. b.tokens * Rate \in Nat /\ b.tokens * Rate <= Full
    BY <1>2, TimesNat, TimesMonotone DEF Full
<1>5. CASE e >= Rate
    <2>1. q \in Nat /\ q * Rate <= e /\ q * Rate \in Nat
        BY <1>3, WholeTokens, TimesNat
    <2>2. (b.tokens + q) * Rate <= b.tokens * Rate + e
        BY <1>2, <1>3, <1>4, <2>1, TimesPlus
    <2> DEFINE t == Smaller(Capacity, b.tokens + q)
    <2>3. t \in Nat /\ t <= Capacity /\ t <= b.tokens + q
        BY <1>2, <2>1 DEF Smaller
    <2>4. t * Rate \in Nat /\ t * Rate <= Full /\ t * Rate <= (b.tokens + q) * Rate
        BY <1>2, <2>1, <2>3, TimesMonotone, TimesNat DEF Full
    <2>5. t * Rate <= cr + Slack
        <3>1. (b.tokens + q) * Rate \in Nat
            BY <1>2, <2>1, TimesNat
        <3> HIDE DEF t, q, e
        <3>2. Worth(b, now) = b.tokens * Rate + e
            BY DEF Worth, e
        <3> QED BY <1>3, <1>4, <2>2, <2>4, <3>1, <3>2, FullType DEF Covered, Capped, Smaller
    <2>6. refill(b) = [tokens |-> t, lastRefill |-> now]
        BY <1>5 DEF refill
    <2>7. Worth(refill(b), now) = t * Rate
        BY <1>2, <2>4, <2>6 DEF Worth
    <2> QED BY <1>1, <1>2, <2>5, <2>6, <2>7
<1>6. CASE ~(e >= Rate)
    <2>1. refill(b) = b
        BY <1>6 DEF refill
    <2>2. Worth(b, now) = b.tokens * Rate + e
        BY DEF Worth
    <2>3. Worth(b, now) \in Nat /\ Worth(b, now) <= Full + Slack
        BY <1>3, <1>4, <1>6, <2>2, FullType DEF Slack
    <2> HIDE DEF e
    <2>4. Worth(b, now) <= cr + Slack
        BY <2>3, FullType DEF Covered, Capped, Smaller
    <2> QED BY <1>1, <1>2, <2>1, <2>4
<1> QED BY <1>5, <1>6

\* Taking a token takes Rate from both buckets, and the worth of what is left shows
\* the documented bucket is not short of more than Slack.
LEMMA TakeCovered ==
    ASSUME TypeOK, NEW b \in Bucket, b.lastRefill \in 0..now, NEW cr \in Int,
           Worth(b, now) <= cr + Slack
    PROVE  /\ Covered(b, now, cr)
           /\ b.tokens > 0 =>
                 /\ Covered([b EXCEPT !.tokens = @ - 1], now, cr - Rate)
                 /\ cr - Rate > -Rate
<1> USE RatesAssumption, FullType DEF Bucket
<1>1. now \in Nat /\ b.tokens \in Nat /\ b.tokens * Rate \in Nat
    BY TimesNat DEF TypeOK
<1>2. Worth(b, now) \in Nat
    BY <1>1 DEF Worth
<1>3. Covered(b, now, cr)
    BY <1>2 DEF Covered, Capped, Smaller
<1>4. ASSUME b.tokens > 0
      PROVE  /\ Covered([b EXCEPT !.tokens = @ - 1], now, cr - Rate)
             /\ cr - Rate > -Rate
    <2> DEFINE r == [b EXCEPT !.tokens = @ - 1]
    <2>1. r.tokens = b.tokens - 1 /\ r.lastRefill = b.lastRefill
        OBVIOUS
    <2>2. (b.tokens - 1) * Rate = b.tokens * Rate - Rate /\ (b.tokens - 1) * Rate \in Nat
        BY <1>1, <1>4, TimesLess, TimesNat
    <2>3. Worth(r, now) = Worth(b, now) - Rate /\ Worth(r, now) \in Nat
        BY <1>1, <2>1, <2>2 DEF Worth
    <2> HIDE DEF r
    <2>4. Covered(r, now, cr - Rate)
        BY <1>2, <2>1, <2>3 DEF Covered, Capped, Smaller
    <2>5. cr - Rate > -Rate
        BY <1>2, <2>3 DEF Slack
    <2> QED BY <2>4, <2>5 DEF r
<1> QED BY <1>3, <1>4

\* A bucket is being inserted only where there is none.
InsertInv == \A c \in Conns : step[c] = "inserting" => limiter[c] = Missing

LEMMA InsertInvariant == Spec => []InsertInv
<1>1. Init => InsertInv
    BY DEF Init, InsertInv
<1>2. TypeOK /\ InsertInv /\ [Next]_vars => InsertInv'
    BY DEF TypeOK, InsertInv, Next, vars, history, Goto, Tick, Arrive, Lock, Insert, Unlock, Fault,
           allow, Answer
<1> QED BY <1>1, <1>2, TypeCorrect, PTL DEF Spec

LEMMA CreditInvariant == Spec => []CreditInv
<1>1. Init => CreditInv
    BY RatesAssumption, FullType DEF Init, CreditInv, Full, Missing
<1>2. TypeOK /\ InsertInv /\ CreditInv /\ [Next]_vars => CreditInv'
    <2> SUFFICES ASSUME TypeOK, InsertInv, CreditInv, [Next]_vars PROVE CreditInv'
        OBVIOUS
    <2> USE RatesAssumption DEF history, Goto
    <2>1. CASE Tick
        <3> SUFFICES ASSUME NEW c \in Conns
                     PROVE  /\ credit'[c] > -Rate
                            /\ limiter[c] = Missing => credit'[c] = Full
                            /\ limiter[c] # Missing => Covered(limiter[c], now', credit'[c])
            BY <2>1 DEF Tick, CreditInv
        <3>1. /\ now \in Nat /\ now' = now + 1 /\ credit[c] \in Int
              /\ credit'[c] = Smaller(Full, credit[c] + 1)
            BY <2>1 DEF Tick, TypeOK, Full
        <3>2. credit'[c] > -Rate
            BY <3>1, FullType DEF CreditInv, Smaller
        <3>3. limiter[c] = Missing => credit'[c] = Full
            BY <3>1, FullType DEF CreditInv, Smaller
        <3>4. ASSUME limiter[c] # Missing
              PROVE  Covered(limiter[c], now', credit'[c])
            <4>1. limiter[c].lastRefill \in 0..now /\ limiter[c].tokens \in Nat
                BY <3>4 DEF CreditInv, Covered, TypeOK
            <4>2. limiter[c].tokens * Rate \in Nat
                BY <4>1, TimesNat
            <4>3. Worth(limiter[c], now') = Worth(limiter[c], now) + 1 /\ Worth(limiter[c], now) \in Nat
                <5> DEFINE m == limiter[c].tokens * Rate
                           a == limiter[c].lastRefill
                <5>1. /\ Worth(limiter[c], now) = m + (now - a)
                      /\ Worth(limiter[c], now') = m + (now' - a)
                    BY DEF Worth
                <5>2. m \in Nat /\ a \in 0..now
                    BY <4>1, <4>2
                <5> HIDE DEF m, a
                <5> QED BY <3>1, <5>1, <5>2
            <4>4. Capped(Worth(limiter[c], now)) <= credit[c] + Slack
                BY <3>4 DEF CreditInv, Covered
            <4>5. Capped(Worth(limiter[c], now')) <= credit'[c] + Slack
                BY <3>1, <4>3, <4>4, FullType DEF Capped, Smaller
            <4> QED BY <3>1, <4>1, <4>5 DEF Covered
        <3> QED BY <3>2, <3>3, <3>4
    <2>2. ASSUME NEW c \in Conns, Arrive(c) \/ Lock(c) \/ Unlock(c) \/ Fault(c) \/ Answer(c)
          PROVE CreditInv'
        <3>1. UNCHANGED <<now, limiter, credit>>
            BY <2>2 DEF Arrive, Lock, Unlock, Fault, Answer
        <3> QED BY <3>1 DEF CreditInv, Covered, Capped, Worth
    <2>3. ASSUME NEW c \in Conns, Insert(c) PROVE CreditInv'
        <3>1. now \in Nat /\ credit[c] = Full /\ credit' = credit /\ now' = now
            BY <2>3 DEF Insert, TypeOK, CreditInv, InsertInv
        <3>2. Covered(newRateLimiter, now, credit[c])
            <4>1. Worth(newRateLimiter, now) = Full
                BY <3>1, FullType DEF Worth, newRateLimiter, Full
            <4> QED BY <3>1, <4>1, FullType DEF Covered, newRateLimiter, Capped, Smaller
        <3>3. newRateLimiter # Missing
            BY <3>1 DEF newRateLimiter, Missing
        <3>4. \A d \in Conns : limiter'[d] = IF d = c THEN newRateLimiter ELSE limiter[d]
            BY <2>3 DEF Insert, TypeOK
        <3> QED BY <3>1, <3>2, <3>3, <3>4 DEF CreditInv
    <2>4. ASSUME NEW c \in Conns, allow(c) PROVE CreditInv'
        <3> DEFINE b == refill(limiter[c])
                   r == [b EXCEPT !.tokens = @ - 1]
        <3>1. limiter[c] \in Bucket /\ limiter[c] # Missing /\ credit[c] \in Int /\ now \in Nat
            BY <2>4 DEF allow, TypeOK, Bucket
        <3>2. b \in Bucket /\ b.lastRefill \in 0..now /\ Worth(b, now) <= credit[c] + Slack
            BY <3>1, RefillCovered DEF CreditInv
        <3>3. /\ Covered(b, now, credit[c])
              /\ b.tokens > 0 => Covered(r, now, credit[c] - Rate) /\ credit[c] - Rate > -Rate
            BY <3>1, <3>2, TakeCovered
        <3>4. b # Missing /\ r # Missing
            BY <3>1, <3>2 DEF Missing, Bucket
        <3>5. \A d \in Conns :
                  /\ limiter'[d] = IF d # c THEN limiter[d] ELSE IF b.tokens > 0 THEN r ELSE b
                  /\ credit'[d] = IF d # c \/ ~(b.tokens > 0) THEN credit[d] ELSE credit[d] - Rate
            BY <2>4 DEF allow, TypeOK
        <3>6. now' = now
            BY <2>4 DEF allow
        <3> HIDE DEF b, r
        <3> SUFFICES ASSUME NEW d \in Conns
                     PROVE  /\ credit'[d] > -Rate
                            /\ limiter'[d] = Missing => credit'[d] = Full
                            /\ limiter'[d] # Missing => Covered(limiter'[d], now, credit'[d])
            BY <3>6 DEF CreditInv
        <3>7. CASE d # c
            BY <3>5, <3>7 DEF CreditInv
        <3>8. CASE d = c /\ b.tokens > 0
            BY <3>3, <3>4, <3>5, <3>8
        <3>9. CASE d = c /\ ~(b.tokens > 0)
            BY <3>3, <3>4, <3>5, <3>9 DEF CreditInv
        <3> QED BY <3>7, <3>8, <3>9
    <2>5. CASE UNCHANGED vars
        BY <2>5 DEF vars, CreditInv, Covered, Capped, Worth
    <2> QED BY <2>1, <2>2, <2>3, <2>4, <2>5 DEF Next
<1> QED BY <1>1, <1>2, TypeCorrect, InsertInvariant, PTL DEF Spec

\* No connection is given as much as one request more than the documented bucket would
\* give it, for every capacity, rate and timing of requests.
THEOREM NoOverdraft == Spec => []NeverOverdrawn
<1>1. CreditInv => NeverOverdrawn
    BY DEF CreditInv, NeverOverdrawn
<1> QED BY <1>1, CreditInvariant, PTL

\* A bucket that has been made is never made anew or dropped, although the map is
\* looked at and written in separate steps of many requests.
THEOREM BucketsStay == Spec => BucketsKept
<1> DEFINE Kept == \A c \in Conns :
               limiter[c] # Missing /\ limiter'[c] # limiter[c] =>
                   step[c] = "reading" /\ limiter'[c] # Missing
<1>1. TypeOK /\ InsertInv /\ CreditInv /\ [Next]_vars => Kept
    <2> SUFFICES ASSUME TypeOK, InsertInv, CreditInv, [Next]_vars PROVE Kept
        OBVIOUS
    <2>1. ASSUME NEW d \in Conns, allow(d) PROVE Kept
        <3> DEFINE b == refill(limiter[d])
        <3>1. limiter[d] \in Bucket /\ limiter[d] # Missing /\ credit[d] \in Int
            BY <2>1 DEF allow, TypeOK, Bucket
        <3>2. b \in Bucket /\ b.lastRefill \in 0..now
            BY <3>1, RefillCovered DEF CreditInv
        <3>3. b # Missing /\ [b EXCEPT !.tokens = @ - 1] # Missing
            BY <3>2 DEF Missing, Bucket, TypeOK
        <3>4. /\ step[d] = "reading"
              /\ limiter' = [limiter EXCEPT ![d] = IF b.tokens > 0 THEN [b EXCEPT !.tokens = @ - 1] ELSE b]
            BY <2>1 DEF allow
        <3> HIDE DEF b
        <3> QED BY <3>3, <3>4 DEF TypeOK
    <2>2. ASSUME NEW d \in Conns, Insert(d) PROVE Kept
        BY <2>2 DEF Insert, InsertInv, TypeOK
    <2>3. ASSUME ~\E d \in Conns : allow(d) \/ Insert(d) PROVE Kept
        BY <2>3 DEF Next, vars, Tick, Arrive, Lock, Unlock, Fault, Answer
    <2> QED BY <2>1, <2>2, <2>3
<1> QED BY <1>1, TypeCorrect, InsertInvariant, CreditInvariant, PTL DEF Spec, BucketsKept

----------------------------------------------------------------------------
(* Requests that leave time between them *)

\* A bucket is empty only if a request was decided since its last refill.
SpacedInv ==
    \A c \in Conns :
        limiter[c] # Missing => limiter[c].tokens > 0 \/ last[c] >= limiter[c].lastRefill

\* A refill after the time of a token leaves one to take.
LEMMA RefillAfterRate ==
    ASSUME TypeOK, NEW b \in Bucket, b.lastRefill \in 0..now, ~(refill(b).tokens > 0)
    PROVE  now - b.lastRefill < Rate
<1> DEFINE e == now - b.lastRefill
<1>1. now \in Nat /\ e \in Nat /\ Capacity \in Nat \ {0} /\ Rate \in Nat \ {0} /\ b.tokens \in Nat
    BY RatesAssumption DEF TypeOK, Bucket
<1>2. SUFFICES ASSUME e >= Rate PROVE FALSE
    BY <1>1
<1>3. e \div Rate \in Nat /\ e \div Rate >= 1
    BY <1>1, <1>2
<1>4. refill(b).tokens = Smaller(Capacity, b.tokens + e \div Rate)
    BY <1>2 DEF refill
<1> HIDE DEF e
<1> QED BY <1>1, <1>3, <1>4 DEF Smaller

LEMMA SpacedInvariant == Spec => []SpacedInv
<1>1. Init => SpacedInv
    BY DEF Init, SpacedInv
<1>2. TypeOK /\ TypeOK' /\ CreditInv' /\ SpacedInv /\ [Next]_vars => SpacedInv'
    <2> SUFFICES ASSUME TypeOK, TypeOK', CreditInv', SpacedInv, [Next]_vars PROVE SpacedInv'
        OBVIOUS
    <2>1. ASSUME NEW c \in Conns, allow(c) PROVE SpacedInv'
        <3>1. last'[c] = now' /\ \A d \in Conns \ {c} : last'[d] = last[d] /\ limiter'[d] = limiter[d]
            BY <2>1 DEF allow, TypeOK
        <3>2. limiter'[c] # Missing => limiter'[c].lastRefill \in 0..now'
            BY DEF CreditInv, Covered
        <3>3. now' \in Nat
            BY RatesAssumption DEF TypeOK
        <3> QED BY <3>1, <3>2, <3>3 DEF SpacedInv
    <2>2. ASSUME NEW c \in Conns, Insert(c) PROVE SpacedInv'
        <3>1. /\ limiter'[c] = newRateLimiter /\ last' = last
              /\ \A d \in Conns \ {c} : limiter'[d] = limiter[d]
            BY <2>2 DEF Insert, history, TypeOK
        <3>2. newRateLimiter.tokens > 0
            BY RatesAssumption DEF newRateLimiter
        <3> QED BY <3>1, <3>2 DEF SpacedInv
    <2>3. ASSUME UNCHANGED <<limiter, last>> PROVE SpacedInv'
        BY <2>3 DEF SpacedInv
    <2> QED BY <2>1, <2>2, <2>3
            DEF Next, vars, history, Tick, Arrive, Lock, Unlock, Fault, Answer
<1> QED BY <1>1, <1>2, TypeCorrect, CreditInvariant, PTL DEF Spec

\* A connection that leaves the time of a token between one request and the next is
\* never refused, whatever time the limiter throws away: a refused request comes
\* within that time of the one decided before it.
THEOREM SpacedNeverRefused == Spec => SpacedRequestsPass
<1> DEFINE Passes == \A c \in Conns :
               step[c] = "reading" /\ step'[c] = "refused" => last[c] >= 0 /\ now - last[c] < Rate
<1>1. TypeOK /\ CreditInv /\ SpacedInv /\ [Next]_vars => Passes
    <2> SUFFICES ASSUME TypeOK, CreditInv, SpacedInv, [Next]_vars, NEW c \in Conns,
                        step[c] = "reading", step'[c] = "refused"
                 PROVE  last[c] >= 0 /\ now - last[c] < Rate
        OBVIOUS
    <2>1. allow(c)
        BY DEF Next, vars, history, Goto, Tick, Arrive, Lock, Insert, Unlock, Fault, allow, Answer, TypeOK
    <2> DEFINE b == limiter[c]
    <2>2. b # Missing /\ b \in Bucket /\ ~(refill(b).tokens > 0)
        BY <2>1 DEF allow, Goto, TypeOK, Bucket
    <2>3. b.lastRefill \in 0..now
        BY <2>2 DEF CreditInv, Covered
    <2>4. now - b.lastRefill < Rate
        BY <2>2, <2>3, RefillAfterRate
    <2>5. b.tokens \in Nat /\ now \in Nat /\ Rate \in Nat /\ last[c] \in Int
        BY <2>2, RatesAssumption DEF TypeOK, Bucket
    <2>6. ~(b.tokens > 0)
        <3>1. ~(now - b.lastRefill >= Rate)
            BY <2>3, <2>4, <2>5
        <3>2. refill(b) = b
            BY <3>1 DEF refill
        <3> QED BY <2>2, <3>2
    <2>7. last[c] >= b.lastRefill
        BY <2>2, <2>6 DEF SpacedInv
    <2> QED BY <2>3, <2>4, <2>5, <2>7
<1> QED BY <1>1, TypeCorrect, CreditInvariant, SpacedInvariant, PTL DEF Spec, SpacedRequestsPass

----------------------------------------------------------------------------
(* Authentication by API keys *)

CONSTANTS Clients, Keys, Token, Addresses, Mode
VARIABLES keys, allowed, request

Auth == INSTANCE ApiKeys

\* Whatever clients send, with any number of keys and addresses: in the mode apikey the
\* store stays empty and every request is turned away at the lookup, the requests that
\* would make the first key among them.
THEOREM KeysLockedOut == Auth!Spec => []Auth!NobodyAdmitted
<1>1. Auth!Init => Auth!NobodyAdmitted
    BY DEF Auth!Init, Auth!NobodyAdmitted, Auth!Idle
<1>2. Auth!NobodyAdmitted /\ [Auth!Next]_(Auth!vars) => Auth!NobodyAdmitted'
    <2> SUFFICES ASSUME Auth!NobodyAdmitted, [Auth!Next]_(Auth!vars), Mode = "apikey"
                 PROVE  /\ \A k \in Keys : keys'[k] = "new"
                        /\ \A c \in Clients : request'[c].step \in {"idle", "arrived"}
        BY DEF Auth!NobodyAdmitted
    <2> USE DEF Auth!NobodyAdmitted, Auth!At
    <2>1. ASSUME NEW c \in Clients, Auth!Sends(c)
          PROVE  Auth!NobodyAdmitted'
        <3>1. keys' = keys
            BY <2>1 DEF Auth!Sends, Auth!Send
        <3>2. \A d \in Clients : request'[d] = request[d] \/ request'[d].step = "arrived"
            BY <2>1 DEF Auth!Sends, Auth!Send
        <3> QED BY <3>1, <3>2
    <2>2. ASSUME NEW c \in Clients, Auth!Lookup(c)
          PROVE  Auth!NobodyAdmitted'
        <3>1. ~Auth!Found(c)
            BY DEF Auth!Found
        <3>2. request' = [request EXCEPT ![c] = Auth!Idle] /\ keys' = keys
            BY <2>2, <3>1 DEF Auth!Lookup, Auth!Answer
        <3> QED BY <3>2 DEF Auth!Idle
    <2>3. \A c \in Clients :
              /\ ~Auth!RecheckRevoked(c) /\ ~Auth!CheckAddress(c)
              /\ ~Auth!Expired(c) /\ ~Auth!InvalidMode(c)
              /\ \A valid \in BOOLEAN : ~Auth!ValidateToken(c, valid)
              /\ ~Auth!Handle(c)
        BY DEF Auth!RecheckRevoked, Auth!CheckAddress, Auth!Expired, Auth!InvalidMode,
               Auth!ValidateToken, Auth!Handle, Auth!RevokeAPIKey, Auth!CreateAPIKey, Auth!Serve
    <2>4. CASE UNCHANGED Auth!vars
        BY <2>4 DEF Auth!vars
    <2> QED BY <2>1, <2>2, <2>3, <2>4 DEF Auth!Next, Auth!Authenticate
<1> QED BY <1>1, <1>2, PTL DEF Auth!Spec

=============================================================================
