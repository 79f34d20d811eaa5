--------------------------- MODULE ApprovalProofs ---------------------------
(***************************************************************************)
(* Safety of the approval store, and that it implements the approval gate, *)
(* for every set of approvals, agents, tools, lifetimes and operators.     *)
(***************************************************************************)
EXTENDS ApprovalStore, SequenceTheorems, TLAPS

USE DEF Statuses, AnyAgent, NotResolved, Idle, records

----------------------------------------------------------------------------
(* Type correctness *)

\* A wrapped lifetime is at most the one asked for, and is that one if it fits.
LEMMA LifetimeFacts ==
    ASSUME NEW s \in TTLSeconds
    PROVE  /\ Lifetime(s) \in Int
           /\ Asked(s) \in Nat
           /\ Lifetime(s) <= Asked(s)
           /\ Asked(s) <= MaxDuration => Lifetime(s) = Asked(s)
<1> DEFINE n == 2 * MaxDuration + 2
           b == s * Second + MaxDuration + 1
<1>1. s \in Nat /\ Second \in Nat /\ MaxDuration \in Nat /\ DefaultTTL \in Nat
  BY TTLSecondsAssumption, SecondAssumption, MaxDurationAssumption, DefaultTTLAssumption
<1>2. s * Second \in Nat
  BY <1>1
<1>3. n \in Nat \ {0} /\ b \in Nat
  BY <1>1, <1>2
<1>4. b % n \in Int /\ b % n <= b /\ (b < n => b % n = b)
  <2> HIDE DEF n, b
  <2> QED BY <1>3
<1>5. CASE s > 0
  <2>1. Lifetime(s) = (b % n) - (MaxDuration + 1) /\ Asked(s) = s * Second
    BY <1>5 DEF Lifetime, Wrapped, Asked
  <2>2. b = Asked(s) + (MaxDuration + 1) /\ n = 2 * (MaxDuration + 1)
    BY <1>1, <1>2, <2>1
  <2> HIDE DEF n, b
  <2> QED BY <1>1, <1>2, <1>3, <1>4, <2>1, <2>2
<1>6. CASE ~(s > 0)
  BY <1>1, <1>6 DEF Lifetime, Asked
<1> QED BY <1>5, <1>6

LEMMA ExpireOverdueType ==
    ASSUME status \in [Ids -> Statuses], NEW ids \in SUBSET Ids
    PROVE  ExpireOverdue(ids) \in [Ids -> Statuses]
BY DEF ExpireOverdue

\* Each variable keeps its type; a status is one of the four of the API.
THEOREM TypeCorrect == Spec => []TypeOK
<1>1. Init => TypeOK
  BY DEF Init, TypeOK, Calls
<1>2. TypeOK /\ [Next]_vars => TypeOK'
  <2> SUFFICES ASSUME TypeOK, [Next]_vars PROVE TypeOK'
    OBVIOUS
  <2> USE DEF TypeOK
  <2>1. CASE Tick
    BY <2>1 DEF Tick
  <2>2. ASSUME NEW id \in Ids, NEW a \in AnyAgent, NEW t \in Tools,
               NEW s \in TTLSeconds, Create(id, a, t, s)
        PROVE  TypeOK'
    BY <2>2, LifetimeFacts DEF Create
  <2>3. ASSUME NEW id \in Ids, AnswerCreate(id) PROVE TypeOK'
    BY <2>3 DEF AnswerCreate
  <2>4. ASSUME NEW id \in Ids, Get(id) PROVE TypeOK'
    BY <2>4, ExpireOverdueType DEF Get
  <2>5. ASSUME NEW a \in AnyAgent, ListPending(a) PROVE TypeOK'
    BY <2>5, ExpireOverdueType DEF ListPending
  <2>6. ASSUME NEW id \in Ids, NEW t \in Tools, NEW a \in AnyAgent,
               ValidateForExecution(id, t, a)
        PROVE  TypeOK'
    BY <2>6, ExpireOverdueType DEF ValidateForExecution
  <2>7. ASSUME NEW o \in Operators, OperatorStep(o) PROVE TypeOK'
    <3>0. call[o] \in Calls
      OBVIOUS
    <3>1. ASSUME NEW id \in Ids, NEW approved \in BOOLEAN, Request(o, id, approved)
          PROVE  TypeOK'
      BY <3>1 DEF Request, Calls
    <3>2. CASE ResolveFails(o)
      <4>1. call[o].id \in Ids
        BY <3>0, <3>2 DEF ResolveFails, Calls
      <4> QED BY <3>2, <4>1, ExpireOverdueType DEF ResolveFails, Calls
    <3>3. CASE ResolveChecks(o)
      <4>1. Serving(o, "commit") \in Calls
        BY <3>0, <3>3 DEF ResolveChecks, Calls, Serving
      <4> QED BY <3>3, <4>1 DEF ResolveChecks
    <3>4. CASE ResolveCommits(o)
      <4>1. /\ call[o].id \in Ids
            /\ Serving(o, "audit") \in Calls
        BY <3>0, <3>4 DEF ResolveCommits, Calls, Serving
      <4> QED BY <3>4, <4>1 DEF ResolveCommits, Verdict
    <3>5. CASE RecordAudit(o)
      <4>1. [id |-> call[o].id, approved |-> call[o].approved]
               \in [id : Ids, approved : BOOLEAN]
        BY <3>0, <3>5 DEF RecordAudit, Calls
      <4> QED BY <3>5, <4>1 DEF RecordAudit, Calls
    <3> QED BY <2>7, <3>1, <3>2, <3>3, <3>4, <3>5 DEF OperatorStep
  <2>8. CASE UNCHANGED vars
    BY <2>8 DEF vars
  <2> QED
    BY <2>1, <2>2, <2>3, <2>4, <2>5, <2>6, <2>7, <2>8 DEF Next, StoreStep
<1>3. QED BY <1>1, <1>2, PTL DEF Spec
----------------------------------------------------------------------------
(* One decision per approval *)

\* Between the two steps of Resolve the mutex is held and the record stays
\* pending; from the second step on the record carries the decision.
LockInv ==
    \A o \in Operators :
        /\ call[o].step = "commit" <=> holder = o
        /\ holder = o => status[call[o].id] = "pending"
        /\ call[o].step = "audit" => status[call[o].id] = Verdict(call[o].approved)

\* Expiry leaves every approval that is not pending as it is.
LEMMA ExpiryKeepsTheRest ==
    ASSUME TypeOK, NEW ids \in SUBSET Ids, NEW id \in Ids
    PROVE  /\ status[id] # "pending" => ExpireOverdue(ids)[id] = status[id]
           /\ ExpireOverdue(ids)[id] \in {status[id], "expired"}
BY DEF TypeOK, ExpireOverdue, Overdue

LEMMA LockInvariant == Spec => []LockInv
<1>1. Init => LockInv
  BY NobodyAssumption DEF Init, LockInv
<1>2. TypeOK /\ LockInv /\ [Next]_vars => LockInv'
  <2> SUFFICES ASSUME TypeOK, LockInv, [Next]_vars, NEW u \in Operators
               PROVE  /\ call'[u].step = "commit" <=> holder' = u
                      /\ holder' = u => status'[call'[u].id] = "pending"
                      /\ call'[u].step = "audit" =>
                            status'[call'[u].id] = Verdict(call'[u].approved)
    BY DEF LockInv
  <2>0. /\ call[u] \in Calls
        /\ call[u].step # "idle" => call[u].id \in Ids
        /\ call[u].step = "commit" <=> holder = u
        /\ holder = u => status[call[u].id] = "pending"
        /\ call[u].step = "audit" => status[call[u].id] = Verdict(call[u].approved)
        /\ Verdict(call[u].approved) \in {"approved", "denied"}
    BY DEF LockInv, TypeOK, Calls, Verdict
  <2>1. ASSUME UNCHANGED <<status, call, holder>>
        PROVE  /\ call'[u].step = "commit" <=> holder' = u
               /\ holder' = u => status'[call'[u].id] = "pending"
               /\ call'[u].step = "audit" =>
                     status'[call'[u].id] = Verdict(call'[u].approved)
    BY <2>0, <2>1
  <2>2. ASSUME NEW id \in Ids, NEW a \in AnyAgent, NEW t \in Tools,
               NEW s \in TTLSeconds, Create(id, a, t, s)
        PROVE  /\ call'[u].step = "commit" <=> holder' = u
               /\ holder' = u => status'[call'[u].id] = "pending"
               /\ call'[u].step = "audit" =>
                     status'[call'[u].id] = Verdict(call'[u].approved)
    BY <2>0, <2>2 DEF Create, TypeOK
  <2>3. ASSUME NEW ids \in SUBSET Ids, Unlocked, status' = ExpireOverdue(ids),
               UNCHANGED <<call, holder>>
        PROVE  /\ call'[u].step = "commit" <=> holder' = u
               /\ holder' = u => status'[call'[u].id] = "pending"
               /\ call'[u].step = "audit" =>
                     status'[call'[u].id] = Verdict(call'[u].approved)
    BY <2>0, <2>3, ExpiryKeepsTheRest, NobodyAssumption DEF Unlocked
  <2>4. ASSUME NEW o \in Operators, OperatorStep(o)
        PROVE  /\ call'[u].step = "commit" <=> holder' = u
               /\ holder' = u => status'[call'[u].id] = "pending"
               /\ call'[u].step = "audit" =>
                     status'[call'[u].id] = Verdict(call'[u].approved)
    <3>0. /\ call[o] \in Calls
          /\ call[o].step # "idle" => call[o].id \in Ids
          /\ call[o].step = "commit" <=> holder = o
          /\ holder = o => status[call[o].id] = "pending"
      BY DEF LockInv, TypeOK, Calls
    <3>1. CASE \E id \in Ids, approved \in BOOLEAN : Request(o, id, approved)
      BY <2>0, <3>0, <3>1 DEF Request, TypeOK
    <3>2. CASE ResolveFails(o)
      <4>1. CASE u = o
        BY <2>0, <3>2, <4>1, NobodyAssumption DEF ResolveFails, Unlocked, TypeOK
      <4>2. CASE u # o
        <5>1. /\ call'[u] = call[u]
              /\ holder' = holder
              /\ holder # u
              /\ call[o].id \in Ids
              /\ status' = ExpireOverdue({call[o].id})
          BY <2>0, <3>0, <3>2, <4>2, NobodyAssumption
             DEF ResolveFails, Unlocked, TypeOK
        <5> QED BY <2>0, <5>1, ExpiryKeepsTheRest
      <4> QED BY <4>1, <4>2
    <3>3. CASE ResolveChecks(o)
      BY <2>0, <3>0, <3>3, NobodyAssumption
         DEF ResolveChecks, Unlocked, Serving, TypeOK
    <3>4. CASE ResolveCommits(o)
      <4>1. CASE u = o
        BY <3>0, <3>4, <4>1, NobodyAssumption DEF ResolveCommits, Serving, TypeOK
      <4>2. CASE u # o
        <5>1. call[u].step = "audit" => call[u].id # call[o].id
          BY <2>0, <3>0, <3>4 DEF ResolveCommits
        <5> QED
          BY <2>0, <3>0, <3>4, <4>2, <5>1, NobodyAssumption
             DEF ResolveCommits, TypeOK
      <4> QED BY <4>1, <4>2
    <3>5. CASE RecordAudit(o)
      BY <2>0, <3>0, <3>5 DEF RecordAudit, TypeOK
    <3> QED BY <2>4, <3>1, <3>2, <3>3, <3>4, <3>5 DEF OperatorStep
  <2> QED
    BY <2>1, <2>2, <2>3, <2>4
       DEF Next, StoreStep, Tick, AnswerCreate, Get, ListPending,
           ValidateForExecution, vars
<1>3. QED BY <1>1, <1>2, TypeCorrect, PTL DEF Spec
\* A step leaves the status of a decided approval and its times alone.
LEMMA DecidedStays ==
    ASSUME TypeOK, LockInv, [Next]_vars, NEW id \in Ids,
           status[id] \notin {"absent", "pending"}
    PROVE  /\ status'[id] = status[id]
           /\ resolvedAt'[id] = resolvedAt[id]
           /\ deadline'[id] = deadline[id]
<1>1. ASSUME NEW o \in Operators, ResolveFails(o)
      PROVE  status'[id] = status[id]
  <2>1. call[o].id \in Ids
    BY <1>1 DEF ResolveFails, TypeOK, Calls
  <2> QED BY <1>1, <2>1, ExpiryKeepsTheRest DEF ResolveFails
<1>2. ASSUME NEW o \in Operators, ResolveCommits(o)
      PROVE  /\ status'[id] = status[id]
             /\ resolvedAt'[id] = resolvedAt[id]
  <2>1. call[o].id # id
    BY <1>2 DEF ResolveCommits, LockInv
  <2> QED BY <1>2, <2>1 DEF ResolveCommits, TypeOK
<1>3. ASSUME NEW ids \in SUBSET Ids, status' = ExpireOverdue(ids)
      PROVE  status'[id] = status[id]
  BY <1>3, ExpiryKeepsTheRest
<1>4. ASSUME NEW d \in Ids, NEW a \in AnyAgent, NEW t \in Tools, NEW s \in TTLSeconds,
             Create(d, a, t, s)
      PROVE  status'[id] = status[id] /\ deadline'[id] = deadline[id]
  BY <1>4 DEF Create, TypeOK
<1>5. CASE \E d \in Ids, a \in AnyAgent, t \in Tools, s \in TTLSeconds :
                Create(d, a, t, s)
  BY <1>4, <1>5 DEF Create
<1>6. CASE \E d \in Ids, a \in AnyAgent, t \in Tools :
                ValidateForExecution(d, t, a)
  BY <1>3, <1>6 DEF ValidateForExecution
<1>7. CASE \E a \in AnyAgent : ListPending(a)
  BY <1>3, <1>7 DEF ListPending
<1>8. CASE \E d \in Ids : Get(d)
  BY <1>3, <1>8 DEF Get
<1>9. CASE \E o \in Operators : OperatorStep(o)
  BY <1>1, <1>2, <1>9
     DEF OperatorStep, Request, ResolveFails, ResolveChecks, ResolveCommits,
         RecordAudit
<1>10. CASE Tick \/ UNCHANGED vars \/ \E d \in Ids : AnswerCreate(d)
  BY <1>10 DEF Tick, AnswerCreate, vars
<1> QED
  BY <1>5, <1>6, <1>7, <1>8, <1>9, <1>10 DEF Next, StoreStep

\* Nothing changes the record of an approval that has left the pending state:
\* a decision is not undone by expiry or by a second operator, an expired
\* request is not revived.
THEOREM DecisionsAreFinal == Spec => Final
<1>1. TypeOK /\ LockInv /\ [Next]_vars =>
        [\A id \in Ids : status[id] \notin {"absent", "pending"} =>
            /\ status'[id] = status[id]
            /\ resolvedAt'[id] = resolvedAt[id]
            /\ deadline'[id] = deadline[id]]_vars
  BY DecidedStays
<1>2. QED BY <1>1, TypeCorrect, LockInvariant, PTL DEF Spec, Final

\* An operator about to write its audit entry is the only one that will write
\* one for that approval.
AuditInv ==
    /\ OneDecision
    /\ \A o \in Operators : call[o].step = "audit" =>
          /\ \A u \in Operators :
                call[u].step = "audit" /\ call[u].id = call[o].id => u = o
          /\ \A i \in DOMAIN audit : audit[i].id # call[o].id

LEMMA AuditInvariant == Spec => []AuditInv
<1>1. Init => AuditInv
  BY DEF Init, AuditInv, OneDecision
<1>2. TypeOK /\ LockInv /\ AuditInv /\ [Next]_vars => AuditInv'
  <2> SUFFICES ASSUME TypeOK, LockInv, AuditInv, [Next]_vars PROVE AuditInv'
    OBVIOUS
  <2>0. /\ \A i \in DOMAIN audit :
              /\ audit[i].id \in Ids
              /\ status[audit[i].id] = Verdict(audit[i].approved)
              /\ status[audit[i].id] \in {"approved", "denied"}
        /\ \A o \in Operators : call[o].step = "audit" =>
              /\ call[o].id \in Ids
              /\ call[o].approved \in BOOLEAN
              /\ status[call[o].id] = Verdict(call[o].approved)
              /\ status[call[o].id] \in {"approved", "denied"}
    <3>1. ASSUME NEW i \in DOMAIN audit
          PROVE  /\ audit[i].id \in Ids
                 /\ status[audit[i].id] = Verdict(audit[i].approved)
                 /\ status[audit[i].id] \in {"approved", "denied"}
      <4> DEFINE Entries == [id : Ids, approved : BOOLEAN]
      <4>0. audit \in Seq(Entries)
        BY DEF TypeOK
      <4> HIDE DEF Entries
      <4>1. audit[i] \in Entries
        BY <4>0, ElementOfSeq
      <4> USE DEF Entries
      <4> QED BY <4>1 DEF AuditInv, OneDecision, Verdict
    <3>2. ASSUME NEW o \in Operators, call[o].step = "audit"
          PROVE  /\ call[o].id \in Ids
                 /\ call[o].approved \in BOOLEAN
                 /\ status[call[o].id] = Verdict(call[o].approved)
                 /\ status[call[o].id] \in {"approved", "denied"}
      <4>1. call[o] \in Calls
        BY DEF TypeOK
      <4> QED BY <3>2, <4>1 DEF LockInv, Calls, Verdict
    <3> QED BY <3>1, <3>2
  <2>1. \A i \in DOMAIN audit :
           status'[audit[i].id] = Verdict(audit[i].approved)
    BY <2>0, DecidedStays
  <2>2. ASSUME audit' = audit,
               \A o \in Operators : call'[o].step = "audit" => call'[o] = call[o]
        PROVE  AuditInv'
    BY <2>1, <2>2 DEF AuditInv, OneDecision
  <2>3. ASSUME NEW o \in Operators, ResolveCommits(o) PROVE AuditInv'
    <3>1. /\ audit' = audit
          /\ call[o].id \in Ids
          /\ status[call[o].id] = "pending"
          /\ call'[o].id = call[o].id
          /\ \A u \in Operators \ {o} : call'[u] = call[u]
      BY <2>3 DEF ResolveCommits, LockInv, TypeOK, Calls, Serving
    <3>2. /\ \A i \in DOMAIN audit : audit[i].id # call[o].id
          /\ \A u \in Operators : call[u].step = "audit" => call[u].id # call[o].id
      BY <2>0, <3>1
    <3> QED BY <2>1, <3>1, <3>2 DEF AuditInv, OneDecision
  <2>4. ASSUME NEW o \in Operators, RecordAudit(o) PROVE AuditInv'
    <3> DEFINE entry == [id |-> call[o].id, approved |-> call[o].approved]
    <3>1. /\ call[o].step = "audit"
          /\ audit' = Append(audit, entry)
          /\ status' = status
          /\ call'[o].step = "idle"
          /\ \A u \in Operators \ {o} : call'[u] = call[u]
      BY <2>4 DEF RecordAudit, TypeOK
    <3>2. /\ DOMAIN audit' = 1..(Len(audit) + 1)
          /\ DOMAIN audit = 1..Len(audit)
          /\ Len(audit) \in Nat
          /\ audit'[Len(audit) + 1] = entry
          /\ \A i \in 1..Len(audit) : audit'[i] = audit[i]
      BY <3>1 DEF TypeOK
    <3>3. entry.id = call[o].id /\ entry.approved = call[o].approved
      OBVIOUS
    <3> HIDE DEF entry
    <3>4. OneDecision'
      BY <2>0, <2>1, <3>1, <3>2, <3>3 DEF AuditInv, OneDecision
    <3>5. ASSUME NEW u \in Operators, call'[u].step = "audit"
          PROVE  /\ call'[u] = call[u]
                 /\ u # o
                 /\ call[u].id # call[o].id
      BY <3>1, <3>5 DEF AuditInv
    <3>6. ASSUME NEW u \in Operators, call'[u].step = "audit",
                 NEW i \in DOMAIN audit'
          PROVE  audit'[i].id # call'[u].id
      BY <3>1, <3>2, <3>3, <3>5, <3>6 DEF AuditInv
    <3> QED BY <3>4, <3>5, <3>6 DEF AuditInv
  <2>5. ASSUME NEW o \in Operators,
               Request(o, call'[o].id, call'[o].approved) \/ ResolveFails(o)
                  \/ ResolveChecks(o)
        PROVE  /\ audit' = audit
               /\ \A u \in Operators : call'[u].step = "audit" => call'[u] = call[u]
    BY <2>5 DEF Request, ResolveFails, ResolveChecks, Serving, TypeOK
  <2>6. ASSUME NEW o \in Operators, NEW id \in Ids, NEW approved \in BOOLEAN,
               Request(o, id, approved)
        PROVE  /\ audit' = audit
               /\ \A u \in Operators : call'[u].step = "audit" => call'[u] = call[u]
    BY <2>6 DEF Request, TypeOK
  <2> QED
    BY <2>2, <2>3, <2>4, <2>5, <2>6
       DEF Next, StoreStep, OperatorStep, Tick, Create, AnswerCreate, Get,
           ListPending, ValidateForExecution, vars
<1>3. QED BY <1>1, <1>2, TypeCorrect, LockInvariant, PTL DEF Spec

\* What a create request was answered with is a status the record has had, and
\* decisions stay.
LEMMA AnswersInvariant == Spec => []AnswersStand
<1>1. Init => AnswersStand
  BY DEF Init, AnswersStand
<1>2. TypeOK /\ LockInv /\ AnswersStand /\ [Next]_vars => AnswersStand'
  <2> SUFFICES ASSUME TypeOK, LockInv, AnswersStand, [Next]_vars,
                      NEW id \in Ids, created'[id] \in {"approved", "denied", "expired"}
               PROVE  status'[id] = created'[id]
    BY DEF AnswersStand
  <2>1. CASE created'[id] = created[id]
    BY <2>1, DecidedStays DEF AnswersStand
  <2>2. CASE created'[id] # created[id]
    <3>1. PICK d \in Ids : AnswerCreate(d) \/ \E a \in AnyAgent, t \in Tools, s \in TTLSeconds :
                                                 Create(d, a, t, s)
      BY <2>2 DEF Next, StoreStep, OperatorStep, Tick, Get, ListPending, ValidateForExecution,
                  Request, ResolveFails, ResolveChecks, ResolveCommits, RecordAudit, vars
    <3> QED BY <2>2, <3>1 DEF AnswerCreate, Create, TypeOK
  <2> QED BY <2>1, <2>2
<1>3. QED BY <1>1, <1>2, TypeCorrect, LockInvariant, PTL DEF Spec

\* Neither two operators nor an operator and the deadline both decide, and nobody
\* who asked for an approval was told of another decision.
THEOREM DecidedAtMostOnce == Spec => []DecidedOnce
<1>1. AuditInv /\ AnswersStand => DecidedOnce
  BY DEF AuditInv, DecidedOnce
<1>2. QED BY <1>1, AuditInvariant, AnswersInvariant, PTL

----------------------------------------------------------------------------
(* The store implements the gate *)

\* The status callers see when no operator is between the two steps of Resolve.
SettledStatus ==
    [id \in Ids |-> IF Overdue(id) THEN "expired" ELSE status[id]]

LEMMA SettledWhenUnlocked ==
    ASSUME TypeOK, LockInv, Unlocked
    PROVE  TrueStatus = SettledStatus
<1>1. \A id \in Ids : ~Deciding(id)
  BY NobodyAssumption DEF LockInv, Unlocked, Deciding
<1> QED BY <1>1 DEF TrueStatus, SettledStatus

\* An operation that expires overdue records does not change what callers see.
LEMMA ExpiryIsInvisible ==
    ASSUME TypeOK, TypeOK', LockInv, LockInv', Unlocked, Unlocked',
           NEW ids \in SUBSET Ids, status' = ExpireOverdue(ids),
           UNCHANGED <<now, deadline>>
    PROVE  /\ TrueStatus' = TrueStatus
           /\ TrueStatus = SettledStatus
           /\ \A id \in ids : status'[id] = TrueStatus[id]
<1>1. TrueStatus = SettledStatus /\ TrueStatus' = SettledStatus'
  <2>1. \A id \in Ids : ~Deciding(id)'
    BY NobodyAssumption DEF LockInv, Unlocked, Deciding
  <2> QED BY <2>1, SettledWhenUnlocked DEF TrueStatus, SettledStatus
<1>2. SettledStatus' = SettledStatus
  BY DEF SettledStatus, ExpireOverdue, Overdue, TypeOK
<1>3. \A id \in ids : status'[id] = SettledStatus[id]
  BY DEF SettledStatus, ExpireOverdue, TypeOK
<1> QED BY <1>1, <1>2, <1>3

\* What callers see while an operator is between the two steps of Resolve.
LEMMA DecidingStatus ==
    ASSUME TypeOK, LockInv, NEW o \in Operators, holder = o
    PROVE  /\ call[o].id \in Ids
           /\ TrueStatus = [SettledStatus EXCEPT
                                ![call[o].id] = Verdict(call[o].approved)]
<1>1. \A u \in Operators : call[u].step = "commit" <=> u = o
  BY DEF LockInv
<1>2. call[o].id \in Ids /\ call[o].approved \in BOOLEAN
  BY <1>1 DEF TypeOK, Calls
<1>3. \A id \in Ids : Deciding(id) <=> id = call[o].id
  BY <1>1 DEF Deciding
<1>4. Decision(call[o].id) = Verdict(call[o].approved)
  BY <1>1, <1>2 DEF Decision
<1> QED BY <1>2, <1>3, <1>4 DEF TrueStatus, SettledStatus
LEMMA StepImplementsGate ==
    ASSUME TypeOK, TypeOK', LockInv, LockInv', [Next]_vars
    PROVE  [Gate!Next]_(Gate!gateVars)
<1> USE DEF Gate!gateVars
<1>1. CASE Tick
  <2>1. \A id \in Ids : Deciding(id)' = Deciding(id) /\ Decision(id)' = Decision(id)
    BY <1>1 DEF Tick, Deciding, Decision
  <2>2. \A id \in Ids : Decision(id) # "pending"
    BY DEF Decision, Verdict
  <2>3. \A id \in Ids :
           TrueStatus'[id] = IF TrueStatus[id] = "pending" /\ now + 1 > deadline[id]
                             THEN "expired" ELSE TrueStatus[id]
    BY <1>1, <2>1, <2>2 DEF Tick, TrueStatus, Overdue, TypeOK
  <2>4. TrueStatus' = [id \in Ids |->
           IF TrueStatus[id] = "pending" /\ now + 1 > deadline[id]
           THEN "expired" ELSE TrueStatus[id]]
    BY <2>3 DEF TrueStatus
  <2>5. Gate!Tick
    BY <1>1, <2>4 DEF Tick, Gate!Tick
  <2> QED BY <2>5 DEF Gate!Next
<1>2. ASSUME NEW id \in Ids, NEW a \in AnyAgent, NEW t \in Tools,
             NEW s \in TTLSeconds, Create(id, a, t, s)
      PROVE  Gate!Next
  <2>1. TrueStatus = SettledStatus /\ TrueStatus' = SettledStatus'
    <3>1. \A d \in Ids : ~Deciding(d)'
      BY <1>2, NobodyAssumption DEF Create, LockInv, Unlocked, Deciding
    <3> QED BY <1>2, <3>1, SettledWhenUnlocked DEF Create, TrueStatus, SettledStatus
  <2> DEFINE born == IF now > deadline'[id] THEN "expired" ELSE "pending"
  <2>2. /\ status[id] = "absent"
        /\ status' = [status EXCEPT ![id] = "pending"]
        /\ deadline' = [deadline EXCEPT ![id] = now + Lifetime(s)]
        /\ now' = now
    BY <1>2 DEF Create
  <2>3. /\ SettledStatus[id] = "absent"
        /\ SettledStatus' = [SettledStatus EXCEPT ![id] = born]
    <3>1. ASSUME NEW d \in Ids
          PROVE  SettledStatus'[d] = IF d = id THEN born ELSE SettledStatus[d]
      <4>1. CASE d = id
        BY <2>2, <4>1 DEF SettledStatus, Overdue, TypeOK
      <4>2. CASE d # id
        BY <2>2, <4>2 DEF SettledStatus, Overdue, TypeOK
      <4> QED BY <4>1, <4>2
    <3>2. SettledStatus[id] = "absent"
      BY <2>2 DEF SettledStatus, Overdue
    <3> QED BY <3>1, <3>2 DEF SettledStatus
  <2>4. /\ deadline'[id] <= now + Asked(s)
        /\ Asked(s) <= MaxDuration => deadline'[id] = now + Asked(s)
        /\ deadline' = [deadline EXCEPT ![id] = deadline'[id]]
    <3>1. deadline'[id] = now + Lifetime(s)
      BY <2>2 DEF TypeOK
    <3> QED BY <2>2, <3>1, LifetimeFacts DEF TypeOK
  <2>5. Gate!Create(id, a, t, Asked(s))
    BY <1>2, <2>1, <2>3, <2>4 DEF Create, Gate!Create
  <2> QED BY <2>5 DEF Gate!Next, Gate!AnyAgent
<1>3. ASSUME NEW id \in Ids, AnswerCreate(id)
      PROVE  UNCHANGED Gate!gateVars
  BY <1>3 DEF AnswerCreate, TrueStatus, Deciding, Decision, Overdue
<1>4. ASSUME NEW id \in Ids, Get(id)
      PROVE  Gate!Next
  <2>1. /\ TrueStatus' = TrueStatus
        /\ status'[id] = TrueStatus[id]
    BY <1>4, ExpiryIsInvisible DEF Get, Unlocked
  <2>2. Gate!Get(id)
    BY <1>4, <2>1 DEF Get, Gate!Get
  <2> QED BY <2>2 DEF Gate!Next
<1>5. ASSUME NEW a \in AnyAgent, ListPending(a)
      PROVE  Gate!Next
  <2>1. /\ TrueStatus' = TrueStatus
        /\ \A id \in Ids : status'[id] = TrueStatus[id]
    BY <1>5, ExpiryIsInvisible DEF ListPending, Unlocked
  <2>2. {id \in Ids : status'[id] = "pending" /\ MayServe(a, id)}
           = {id \in Ids : TrueStatus[id] = "pending" /\ MayServe(a, id)}
    BY <2>1
  <2>3. Gate!ListPending(a)
    BY <1>5, <2>1, <2>2 DEF ListPending, Gate!ListPending, MayServe, Gate!MayServe
  <2> QED BY <2>3 DEF Gate!Next, Gate!AnyAgent
<1>6. ASSUME NEW id \in Ids, NEW t \in Tools, NEW a \in AnyAgent,
             ValidateForExecution(id, t, a)
      PROVE  Gate!Next
  <2>1. /\ TrueStatus' = TrueStatus
        /\ status'[id] = TrueStatus[id]
    BY <1>6, ExpiryIsInvisible DEF ValidateForExecution, Unlocked
  <2>2. Gate!ValidateForExecution(id, t, a)
    BY <1>6, <2>1
       DEF ValidateForExecution, Gate!ValidateForExecution, MayServe, Gate!MayServe
  <2> QED BY <2>2 DEF Gate!Next, Gate!AnyAgent
<1>7. ASSUME NEW o \in Operators, OperatorStep(o)
      PROVE  [Gate!Next]_(Gate!gateVars)
  <2>0. call[o] \in Calls
    BY DEF TypeOK
  <2>1. ASSUME NEW id \in Ids, NEW approved \in BOOLEAN, Request(o, id, approved)
        PROVE  UNCHANGED Gate!gateVars
    <3>1. \A u \in Operators :
             /\ call'[u].step = "commit" <=> call[u].step = "commit"
             /\ call[u].step = "commit" => call'[u] = call[u]
      BY <2>1 DEF Request, TypeOK
    <3>2. \A d \in Ids : Deciding(d)' = Deciding(d) /\ Decision(d)' = Decision(d)
      BY <3>1 DEF Deciding, Decision
    <3> QED BY <2>1, <3>2 DEF Request, TrueStatus, Overdue
  <2>2. CASE ResolveFails(o)
    <3> DEFINE id == call[o].id
    <3>1. id \in Ids
      BY <2>0, <2>2 DEF ResolveFails, Calls
    <3>2. /\ Unlocked /\ Unlocked'
          /\ status' = ExpireOverdue({id})
          /\ status[id] # "pending" \/ Overdue(id)
          /\ outcome' = [op |-> "resolve", id |-> id, ok |-> FALSE]
          /\ UNCHANGED <<now, deadline, agent, tool>>
      BY <2>2 DEF ResolveFails, Unlocked
    <3> HIDE DEF id
    <3>3. TrueStatus' = TrueStatus /\ TrueStatus = SettledStatus
      BY <3>1, <3>2, ExpiryIsInvisible
    <3>4. TrueStatus[id] # "pending"
      BY <3>1, <3>2, <3>3 DEF SettledStatus
    <3>5. Gate!Refuse(id)
      BY <3>2, <3>3, <3>4 DEF Gate!Refuse
    <3> QED BY <3>1, <3>5 DEF Gate!Next
  <2>3. CASE ResolveChecks(o)
    <3>1. PICK id \in Ids, approved \in BOOLEAN :
             call[o].id = id /\ call[o].approved = approved
      BY <2>0, <2>3 DEF ResolveChecks, Calls
    <3>2. /\ Unlocked
          /\ status[id] = "pending" /\ ~Overdue(id)
          /\ outcome' = [op |-> "resolve", id |-> id, ok |-> TRUE]
          /\ holder' = o
          /\ call'[o].id = id /\ call'[o].approved = approved
          /\ UNCHANGED <<now, status, deadline, agent, tool>>
      BY <2>3, <3>1 DEF ResolveChecks, Serving, TypeOK
    <3>3. TrueStatus = SettledStatus
      BY <3>2, SettledWhenUnlocked
    <3>4. TrueStatus' = [SettledStatus' EXCEPT ![id] = Verdict(approved)]
      <4>1. \A u \in Operators : call'[u].step = "commit" <=> u = o
        BY <3>2 DEF LockInv
      <4>2. \A d \in Ids : Deciding(d)' <=> d = id
        BY <3>2, <4>1 DEF Deciding
      <4>3. Decision(id)' = Verdict(approved)
        BY <3>1, <3>2, <4>1 DEF Decision
      <4> QED BY <3>1, <4>2, <4>3 DEF TrueStatus, SettledStatus
    <3>5. SettledStatus' = SettledStatus
      BY <3>2 DEF SettledStatus, Overdue
    <3>6. TrueStatus[id] = "pending"
      BY <3>1, <3>2, <3>3 DEF SettledStatus
    <3>7. Gate!Decide(id, approved)
      BY <3>2, <3>3, <3>4, <3>5, <3>6 DEF Gate!Decide, Gate!Verdict, Verdict
    <3> QED BY <3>1, <3>7 DEF Gate!Next
  <2>4. CASE ResolveCommits(o)
    <3> DEFINE id == call[o].id
               approved == call[o].approved
    <3>1. /\ holder = o /\ Unlocked'
          /\ status' = [status EXCEPT ![id] = Verdict(approved)]
          /\ UNCHANGED <<now, deadline, agent, tool, outcome>>
      BY <2>4 DEF ResolveCommits, LockInv, Unlocked
    <3>2. /\ id \in Ids
          /\ TrueStatus = [SettledStatus EXCEPT ![id] = Verdict(approved)]
      BY <3>1, DecidingStatus
    <3> HIDE DEF id, approved
    <3>3. TrueStatus' = SettledStatus'
      <4>1. \A d \in Ids : ~Deciding(d)'
        BY <3>1, NobodyAssumption DEF LockInv, Unlocked, Deciding
      <4> QED BY <4>1 DEF TrueStatus, SettledStatus
    <3>4. ASSUME NEW d \in Ids
          PROVE  SettledStatus'[d] =
                    IF d = id THEN Verdict(approved) ELSE SettledStatus[d]
      <4>1. Verdict(approved) # "pending"
        BY DEF Verdict
      <4> QED BY <3>1, <3>2, <4>1 DEF SettledStatus, Overdue, TypeOK
    <3>5. SettledStatus' = [SettledStatus EXCEPT ![id] = Verdict(approved)]
      BY <3>4 DEF SettledStatus
    <3> QED BY <3>1, <3>2, <3>3, <3>5
  <2>5. CASE RecordAudit(o)
    <3>1. \A u \in Operators :
             /\ call'[u].step = "commit" <=> call[u].step = "commit"
             /\ call[u].step = "commit" => call'[u] = call[u]
      BY <2>5 DEF RecordAudit, TypeOK
    <3>2. \A d \in Ids : Deciding(d)' = Deciding(d) /\ Decision(d)' = Decision(d)
      BY <3>1 DEF Deciding, Decision
    <3> QED BY <2>5, <3>2 DEF RecordAudit, TrueStatus, Overdue
  <2> QED BY <1>7, <2>1, <2>2, <2>3, <2>4, <2>5 DEF OperatorStep
<1>8. CASE UNCHANGED vars
  BY <1>8 DEF vars, TrueStatus, Deciding, Decision, Overdue
<1> QED
  BY <1>1, <1>2, <1>3, <1>4, <1>5, <1>6, <1>7, <1>8 DEF Next, StoreStep

\* Laziness in expiring approvals, and the gap between the two clock readings of
\* Resolve, cannot be seen: every answer of the store is one the gate gives.
THEOREM StoreImplementsGate == Spec => ImplementsGate
<1>1. Init => Gate!Init
  <2> SUFFICES ASSUME Init PROVE Gate!Init
    OBVIOUS
  <2>1. TrueStatus = [id \in Ids |-> "absent"]
    BY DEF Init, TrueStatus, Deciding, Overdue
  <2> QED BY <2>1 DEF Init, Gate!Init
<1>2. TypeOK /\ TypeOK' /\ LockInv /\ LockInv' /\ [Next]_vars
         => [Gate!Next]_(Gate!gateVars)
  BY StepImplementsGate
<1>3. QED
  BY <1>1, <1>2, TypeCorrect, LockInvariant, PTL DEF Spec, ImplementsGate, Gate!Spec

=============================================================================
