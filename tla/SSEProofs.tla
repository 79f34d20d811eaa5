----------------------------- MODULE SSEProofs -----------------------------
(***************************************************************************)
(* Safety of the server-sent events service for every number of clients,   *)
(* publishers and namespaces and every channel capacity.                   *)
(***************************************************************************)
EXTENDS SSE, SequenceTheorems, TLAPS

USE DEF Connected, Events, Filters

----------------------------------------------------------------------------
(* Type correctness *)

\* Each variable keeps its type: in particular no Send buffer and no broadcast
\* queue exceeds its capacity (sse.go:39, 97).
THEOREM TypeCorrect == Spec => []TypeOK
<1>1. Init => TypeOK
  BY BufCapAssumption, QueueCapAssumption DEF Init, TypeOK
<1>2. TypeOK /\ [Next]_vars => TypeOK'
  <2> SUFFICES ASSUME TypeOK, [Next]_vars PROVE TypeOK'
    OBVIOUS
  <2> USE BufCapAssumption, QueueCapAssumption DEF TypeOK
  <2>1. ASSUME NEW c \in Clients, NEW namespaces \in Requests,
               Connect(c, namespaces)
        PROVE  TypeOK'
    BY <2>1, RequestsAssumption DEF Connect
  <2>2. ASSUME NEW c \in Clients, Register(c) PROVE TypeOK'
    BY <2>2 DEF Register, FannedOut
  <2>3. ASSUME NEW c \in Clients, Greet(c) PROVE TypeOK'
    BY <2>3 DEF Greet, Room
  <2>4. ASSUME NEW c \in Clients, Stream(c) PROVE TypeOK'
    BY <2>4 DEF Stream
  <2>5. ASSUME NEW c \in Clients, StreamNil(c) \/ StreamDone(c) PROVE TypeOK'
    BY <2>5 DEF StreamNil, StreamDone
  <2>6. ASSUME NEW c \in Clients, Disconnect(c) \/ HandlerOver(c) PROVE TypeOK'
    BY <2>6 DEF Disconnect, HandlerOver
  <2>7. ASSUME NEW c \in Clients, Notify(c) \/ Unregister(c) PROVE TypeOK'
    BY <2>7 DEF Notify, Unregister
  <2>8. ASSUME NEW p \in Publishers, NEW filter \in Filters, Publish(p, filter)
        PROVE  TypeOK'
    BY <2>8 DEF Publish
  <2>9. ASSUME NEW p \in Publishers, Enqueue(p) PROVE TypeOK'
    BY <2>9, NoMessageAssumption DEF Enqueue
  <2>10. ASSUME broadcastMessage PROVE TypeOK'
    BY <2>10 DEF broadcastMessage, FanOut, Room
  <2>11. CASE UNCHANGED vars
    BY <2>11 DEF vars
  <2> QED
    BY <2>1, <2>2, <2>3, <2>4, <2>5, <2>6, <2>7, <2>8, <2>9, <2>10, <2>11
       DEF Next, HandlerStep, ContextStep, PublisherStep
<1>3. QED BY <1>1, <1>2, PTL DEF Spec
----------------------------------------------------------------------------
(* Channels are used only while they are open *)

\* Where the goroutines of a connection are tells what has become of its
\* channel: nothing was sent before registration, the disconnect goroutine
\* starts after the greeting, and a channel is closed only by the unregister
\* case that served it, which also removed the client.
ProtocolInv ==
    \A c \in Clients :
        /\ handler[c] \in {"idle", "registering"} =>
              /\ c \notin clients
              /\ notifier[c] = "off"
              /\ send[c] = <<>>
              /\ taken[c] = <<>>
              /\ skipped[c] = {}
        /\ handler[c] = "greeting" => notifier[c] = "off"
        /\ c \in closed => notifier[c] = "done" /\ c \notin clients

LEMMA ProtocolInvariant == Spec => []ProtocolInv
<1>1. Init => ProtocolInv
  BY DEF Init, ProtocolInv
<1>2. TypeOK /\ ProtocolInv /\ [Next]_vars => ProtocolInv'
  <2> SUFFICES ASSUME TypeOK, ProtocolInv, [Next]_vars PROVE ProtocolInv'
    OBVIOUS
  <2> USE DEF TypeOK, ProtocolInv
  <2>1. ASSUME NEW c \in Clients, HandlerStep(c) PROVE ProtocolInv'
    <3>1. CASE \E namespaces \in Requests : Connect(c, namespaces)
      BY <3>1 DEF Connect
    <3>2. CASE Register(c)
      BY <3>2 DEF Register
    <3>3. CASE Greet(c)
      BY <3>3 DEF Greet
    <3>4. CASE Stream(c)
      BY <3>4 DEF Stream
    <3>5. CASE StreamNil(c) \/ StreamDone(c)
      BY <3>5 DEF StreamNil, StreamDone
    <3> QED BY <2>1, <3>1, <3>2, <3>3, <3>4, <3>5 DEF HandlerStep
  <2>2. ASSUME NEW c \in Clients, ContextStep(c) PROVE ProtocolInv'
    <3>1. CASE Disconnect(c) \/ HandlerOver(c)
      BY <3>1 DEF Disconnect, HandlerOver
    <3>2. CASE Notify(c)
      BY <3>2 DEF Notify
    <3>3. CASE Unregister(c)
      BY <3>3 DEF Unregister
    <3> QED BY <2>2, <3>1, <3>2, <3>3 DEF ContextStep
  <2>3. ASSUME NEW p \in Publishers, PublisherStep(p) PROVE ProtocolInv'
    BY <2>3 DEF PublisherStep, Publish, Enqueue
  <2>4. CASE broadcastMessage
    BY <2>4 DEF broadcastMessage, FanOut
  <2>5. CASE UNCHANGED vars
    BY <2>5 DEF vars
  <2> QED BY <2>1, <2>2, <2>3, <2>4, <2>5 DEF Next
<1>3. QED BY <1>1, <1>2, TypeCorrect, PTL DEF Spec

\* The service never sends on a closed channel and never closes one twice.
THEOREM ChannelsStayOpen == Spec => []ChannelsOpen
<1>1. TypeOK /\ ProtocolInv => ChannelsOpen
  BY DEF ProtocolInv, ChannelsOpen, TypeOK
<1>2. QED BY <1>1, TypeCorrect, ProtocolInvariant, PTL

----------------------------------------------------------------------------
(* The broadcast queue *)

\* The queue holds the latest accepted messages, in the order of acceptance.
QueueInv ==
    /\ Len(broadcast) <= Len(log)
    /\ \A i \in 1..Len(broadcast) : broadcast[i] = FannedOut + i

LEMMA QueueInvariant == Spec => []QueueInv
<1> USE DEF FannedOut
<1>1. Init => QueueInv
  BY DEF Init, QueueInv
<1>2. TypeOK /\ QueueInv /\ [Next]_vars => QueueInv'
  <2> SUFFICES ASSUME TypeOK, QueueInv, [Next]_vars PROVE QueueInv'
    OBVIOUS
  <2> USE DEF TypeOK, QueueInv
  <2>1. ASSUME NEW p \in Publishers, Enqueue(p) PROVE QueueInv'
    BY <2>1, NoMessageAssumption DEF Enqueue
  <2>2. CASE broadcastMessage
    BY <2>2 DEF broadcastMessage
  <2>3. ASSUME UNCHANGED <<broadcast, log>> PROVE QueueInv'
    BY <2>3
  <2> QED
    BY <2>1, <2>2, <2>3
       DEF Next, HandlerStep, ContextStep, PublisherStep, Connect, Register,
           Greet, Stream, StreamNil, StreamDone, Disconnect, HandlerOver,
           Notify, Unregister, Publish, vars
<1>3. QED BY <1>1, <1>2, TypeCorrect, PTL DEF Spec
----------------------------------------------------------------------------
(* What a client has been sent: its order and its namespaces *)

\* Sending on a buffer extends what was sent.
LEMMA ConcatAppend ==
    ASSUME NEW s \in Seq(Nat), NEW t \in Seq(Nat), NEW e \in Nat
    PROVE  s \o Append(t, e) = Append(s \o t, e)
<1>1. /\ s \o Append(t, e) \in Seq(Nat)
      /\ Append(s \o t, e) \in Seq(Nat)
      /\ Len(s \o Append(t, e)) = Len(Append(s \o t, e))
  OBVIOUS
<1>2. ASSUME NEW i \in 1..Len(Append(s \o t, e))
      PROVE  (s \o Append(t, e))[i] = Append(s \o t, e)[i]
  OBVIOUS
<1> QED BY <1>1, <1>2, SeqEqual

\* Receiving from a buffer leaves what was sent as it is.
LEMMA ConcatMoveHead ==
    ASSUME NEW S, NEW s \in Seq(S), NEW t \in Seq(S), t # <<>>
    PROVE  Append(s, Head(t)) \o Tail(t) = s \o t
<1>1. /\ Append(s, Head(t)) \o Tail(t) \in Seq(S)
      /\ s \o t \in Seq(S)
      /\ Len(Append(s, Head(t)) \o Tail(t)) = Len(s \o t)
  OBVIOUS
<1>2. ASSUME NEW i \in 1..Len(s \o t)
      PROVE  (Append(s, Head(t)) \o Tail(t))[i] = (s \o t)[i]
  OBVIOUS
<1> QED BY <1>1, <1>2, SeqEqual

LEMMA SeenType ==
    ASSUME TypeOK, NEW c \in Clients
    PROVE  Seen(c) \in Seq(Nat)
BY DEF TypeOK, Seen

\* What a step may do to what a client has been sent: nothing, add the
\* "connected" event, or add the next message to a registered client that
\* subscribed to it.
LEMMA SeenStep ==
    ASSUME TypeOK, QueueInv, [Next]_vars, NEW c \in Clients
    PROVE  \/ Seen(c)' = Seen(c)
           \/ Seen(c)' = Append(Seen(c), Connected)
           \/ /\ broadcastMessage
              /\ c \in clients
              /\ shouldSendToClient(c, log[FannedOut + 1])
              /\ Seen(c)' = Append(Seen(c), FannedOut + 1)
<1> USE DEF TypeOK
<1>0. taken[c] \in Seq(Nat) /\ send[c] \in Seq(Nat)
  OBVIOUS
<1>1. ASSUME NEW d \in Clients, Greet(d)
      PROVE  Seen(c)' = Seen(c) \/ Seen(c)' = Append(Seen(c), Connected)
  <2>1. CASE c = d
    <3>1. /\ send'[c] = Append(send[c], Connected)
          /\ taken'[c] = taken[c]
      BY <1>1, <2>1 DEF Greet
    <3>2. taken[c] \o Append(send[c], Connected) = Append(Seen(c), Connected)
      <4>1. Connected \in Nat
        BY DEF Connected
      <4> HIDE DEF Connected
      <4> QED BY ONLY <1>0, <4>1, ConcatAppend DEF Seen
    <3> QED BY <3>1, <3>2 DEF Seen
  <2>2. CASE c # d
    BY <1>1, <2>2 DEF Greet, Seen
  <2> QED BY <2>1, <2>2
<1>2. ASSUME NEW d \in Clients, Stream(d) PROVE Seen(c)' = Seen(c)
  <2>1. CASE c = d
    <3>1. /\ send[c] # <<>>
          /\ send'[c] = Tail(send[c])
          /\ taken'[c] = Append(taken[c], Head(send[c]))
      BY <1>2, <2>1 DEF Stream
    <3>2. Append(taken[c], Head(send[c])) \o Tail(send[c]) = Seen(c)
      BY ONLY <1>0, <3>1, ConcatMoveHead DEF Seen
    <3> QED BY <3>1, <3>2 DEF Seen
  <2>2. CASE c # d
    BY <1>2, <2>2 DEF Stream, Seen
  <2> QED BY <2>1, <2>2
<1>3. ASSUME broadcastMessage
      PROVE  \/ Seen(c)' = Seen(c)
             \/ /\ c \in clients
                /\ shouldSendToClient(c, log[FannedOut + 1])
                /\ Seen(c)' = Append(Seen(c), FannedOut + 1)
  <2>1. /\ FannedOut + 1 \in Nat
        /\ Head(broadcast) = FannedOut + 1
    BY <1>3 DEF broadcastMessage, QueueInv, FannedOut
  <2>2. CASE /\ c \in clients
             /\ shouldSendToClient(c, log[FannedOut + 1])
             /\ Room(c)
    <3>1. /\ send'[c] = Append(send[c], FannedOut + 1)
          /\ taken'[c] = taken[c]
      BY <1>3, <2>1, <2>2 DEF broadcastMessage, FanOut
    <3>2. ASSUME NEW message \in Nat
          PROVE  taken[c] \o Append(send[c], message) = Append(Seen(c), message)
      BY ONLY <1>0, <3>2, ConcatAppend DEF Seen
    <3> QED BY <2>1, <2>2, <3>1, <3>2 DEF Seen
  <2>3. CASE ~(/\ c \in clients
               /\ shouldSendToClient(c, log[FannedOut + 1])
               /\ Room(c))
    BY <1>3, <2>1, <2>3 DEF broadcastMessage, FanOut, Seen
  <2> QED BY <2>2, <2>3
<1>4. ASSUME UNCHANGED <<send, taken>> PROVE Seen(c)' = Seen(c)
  BY <1>4 DEF Seen
<1> QED
  BY <1>1, <1>2, <1>3, <1>4
     DEF Next, HandlerStep, ContextStep, PublisherStep, Connect, Register,
         StreamNil, StreamDone, Disconnect, HandlerOver, Notify, Unregister,
         Publish, Enqueue, vars
\* The number of messages fanned out grows, by one in each fan-out, and stays
\* within the messages accepted.
LEMMA FannedOutStep ==
    ASSUME TypeOK, QueueInv, [Next]_vars
    PROVE  /\ FannedOut \in Nat
           /\ FannedOut <= Len(log)
           /\ FannedOut' = IF broadcastMessage THEN FannedOut + 1 ELSE FannedOut
<1> USE DEF TypeOK, QueueInv, FannedOut
<1>1. FannedOut \in Nat /\ FannedOut <= Len(log)
  OBVIOUS
<1>2. ASSUME broadcastMessage PROVE FannedOut' = FannedOut + 1
  BY <1>2 DEF broadcastMessage
<1>3. ASSUME NEW p \in Publishers, Enqueue(p), ~broadcastMessage
      PROVE  FannedOut' = FannedOut
  BY <1>3, NoMessageAssumption DEF Enqueue
<1>4. ASSUME UNCHANGED <<broadcast, log>>, ~broadcastMessage
      PROVE  FannedOut' = FannedOut
  BY <1>4
<1> QED
  BY <1>1, <1>2, <1>3, <1>4
     DEF Next, HandlerStep, ContextStep, PublisherStep, Connect, Register,
         Greet, Stream, StreamNil, StreamDone, Disconnect, HandlerOver, Notify,
         Unregister, Publish, vars

\* What a client has been sent is in order and has been fanned out already.
OrderInv ==
    /\ InOrder
    /\ \A c \in Clients : \A i \in DOMAIN Seen(c) : Seen(c)[i] <= FannedOut

LEMMA OrderInvariant == Spec => []OrderInv
<1>1. Init => OrderInv
  BY DEF Init, OrderInv, InOrder, Seen
<1>2. TypeOK /\ QueueInv /\ OrderInv /\ [Next]_vars => OrderInv'
  <2> SUFFICES ASSUME TypeOK, QueueInv, OrderInv, [Next]_vars PROVE OrderInv'
    OBVIOUS
  <2>1. ASSUME NEW c \in Clients
        PROVE  /\ \A i, j \in DOMAIN Seen(c)' :
                     /\ i < j
                     /\ Seen(c)'[i] # Connected
                     /\ Seen(c)'[j] # Connected
                     => Seen(c)'[i] < Seen(c)'[j]
               /\ \A i \in DOMAIN Seen(c)' : Seen(c)'[i] <= FannedOut'
    <3>1. /\ Seen(c) \in Seq(Nat)
          /\ \A i, j \in DOMAIN Seen(c) :
                /\ i < j
                /\ Seen(c)[i] # Connected
                /\ Seen(c)[j] # Connected
                => Seen(c)[i] < Seen(c)[j]
          /\ \A i \in DOMAIN Seen(c) : Seen(c)[i] <= FannedOut
      BY SeenType DEF OrderInv, InOrder
    <3>2. FannedOut \in Nat /\ FannedOut' \in Nat /\ FannedOut <= FannedOut'
      BY FannedOutStep
    <3>3. CASE Seen(c)' = Seen(c)
      BY ONLY <3>1, <3>2, <3>3
    <3>4. CASE Seen(c)' = Append(Seen(c), Connected)
      BY ONLY <3>1, <3>2, <3>4, SMTT(30) DEF Connected
    <3>5. CASE broadcastMessage /\ Seen(c)' = Append(Seen(c), FannedOut + 1)
      <4>1. FannedOut' = FannedOut + 1
        BY <3>5, FannedOutStep
      <4>2. /\ DOMAIN Seen(c) = 1..Len(Seen(c)) /\ DOMAIN Seen(c)' = 1..(Len(Seen(c)) + 1)
            /\ \A i \in 1..Len(Seen(c)) : Seen(c)'[i] = Seen(c)[i] /\ Seen(c)[i] \in Nat
            /\ Seen(c)'[Len(Seen(c)) + 1] = FannedOut + 1
            /\ Len(Seen(c)) \in Nat
        BY ONLY <3>1, <3>2, <3>5
      <4> QED BY ONLY <3>1, <3>2, <4>1, <4>2, SMTT(30)
    <3> QED BY <3>3, <3>4, <3>5, SeenStep
  <2> QED BY <2>1 DEF OrderInv, InOrder
<1>3. QED BY <1>1, <1>2, TypeCorrect, QueueInvariant, PTL DEF Spec

\* A client is sent messages in the order in which they were accepted, none
\* twice.
THEOREM OrderPreserved == Spec => []InOrder
BY OrderInvariant, PTL DEF OrderInv

\* A step that changes the subscriptions of a client precedes anything it is
\* sent, and the log only grows.
LEMMA SubscriptionsStep ==
    ASSUME TypeOK, ProtocolInv, [Next]_vars, NEW c \in Clients
    PROVE  /\ subscriptions'[c] = subscriptions[c] \/ Seen(c)' = <<>>
           /\ \A n \in 1..Len(log) : log'[n] = log[n]
<1> USE DEF TypeOK
<1>1. ASSUME NEW d \in Clients, NEW namespaces \in Requests,
             Connect(d, namespaces)
      PROVE  subscriptions'[c] = subscriptions[c] \/ Seen(c)' = <<>>
  <2>1. CASE c = d
    BY <1>1, <2>1, ConcatEmptySeq DEF Connect, ProtocolInv, Seen
  <2>2. CASE c # d
    BY <1>1, <2>2 DEF Connect
  <2> QED BY <2>1, <2>2
<1>2. ASSUME NEW p \in Publishers, Enqueue(p)
      PROVE  \A n \in 1..Len(log) : log'[n] = log[n]
  BY <1>2, NoMessageAssumption DEF Enqueue
<1> QED
  BY <1>1, <1>2
     DEF Next, HandlerStep, ContextStep, PublisherStep, Connect, Register,
         Greet, Stream, StreamNil, StreamDone, Disconnect, HandlerOver, Notify,
         Unregister, Publish, Enqueue, broadcastMessage, vars

\* No client is sent an event of a namespace it did not subscribe to.
THEOREM NamespacesIsolated == Spec => []NamespaceIsolation
<1>1. Init => NamespaceIsolation
  BY DEF Init, NamespaceIsolation, Seen
<1>2. TypeOK /\ ProtocolInv /\ QueueInv /\ OrderInv /\ NamespaceIsolation
         /\ [Next]_vars => NamespaceIsolation'
  <2> SUFFICES ASSUME TypeOK, ProtocolInv, QueueInv, OrderInv,
                      NamespaceIsolation, [Next]_vars,
                      NEW c \in Clients, NEW i \in DOMAIN Seen(c)',
                      Seen(c)'[i] # Connected, log'[Seen(c)'[i]] \in Namespaces
               PROVE  subscriptions'[c] \cap {Wildcard, log'[Seen(c)'[i]]} # {}
    BY DEF NamespaceIsolation
  <2>1. /\ Seen(c) \in Seq(Nat)
        /\ \A j \in DOMAIN Seen(c) : Seen(c)[j] <= Len(log)
    BY SeenType, FannedOutStep DEF OrderInv, TypeOK
  <2>2. /\ subscriptions'[c] = subscriptions[c]
        /\ \A n \in 1..Len(log) : log'[n] = log[n]
    BY SubscriptionsStep
  <2>3. CASE i \in DOMAIN Seen(c) /\ Seen(c)'[i] = Seen(c)[i]
    <3>1. Seen(c)[i] \in 1..Len(log)
      BY <2>1, <2>3 DEF TypeOK
    <3> QED BY <2>2, <2>3, <3>1 DEF NamespaceIsolation
  <2>4. CASE Seen(c)'[i] = FannedOut + 1 /\ broadcastMessage
             /\ shouldSendToClient(c, log[FannedOut + 1])
    <3>1. log' = log
      BY <2>4 DEF broadcastMessage
    <3> QED BY <2>2, <2>4, <3>1, NoFilterAssumption DEF shouldSendToClient
  <2>5. CASE Seen(c)' = Seen(c)
    BY <2>3, <2>5
  <2>6. CASE Seen(c)' = Append(Seen(c), Connected)
    BY <2>1, <2>3, <2>6
  <2>7. CASE /\ Seen(c)' = Append(Seen(c), FannedOut + 1)
             /\ broadcastMessage
             /\ shouldSendToClient(c, log[FannedOut + 1])
    BY <2>1, <2>3, <2>4, <2>7
  <2> QED BY <2>5, <2>6, <2>7, SeenStep
<1>3. QED
  BY <1>1, <1>2, TypeCorrect, ProtocolInvariant, QueueInvariant,
     OrderInvariant, PTL DEF Spec
----------------------------------------------------------------------------
(* What a client misses *)

LEMMA RangeOfAppend ==
    ASSUME NEW s \in Seq(Nat), NEW e \in Nat, NEW t, t = Append(s, e)
    PROVE  {t[i] : i \in DOMAIN t} = {s[i] : i \in DOMAIN s} \cup {e}
<1>1. /\ DOMAIN t = 1..(Len(s) + 1)
      /\ DOMAIN s = 1..Len(s)
      /\ t[Len(s) + 1] = e
      /\ \A i \in 1..Len(s) : t[i] = s[i]
      /\ Len(s) \in Nat
  OBVIOUS
<1>2. ASSUME NEW x \in {t[i] : i \in DOMAIN t}
      PROVE  x \in {s[i] : i \in DOMAIN s} \cup {e}
  <2>1. PICK i \in 1..(Len(s) + 1) : x = t[i]
    BY <1>1, <1>2
  <2>2. CASE i = Len(s) + 1
    BY <1>1, <2>1, <2>2
  <2>3. CASE i \in 1..Len(s)
    BY <1>1, <2>1, <2>3
  <2> QED BY <1>1, <2>2, <2>3
<1>3. ASSUME NEW x \in {s[i] : i \in DOMAIN s} \cup {e}
      PROVE  x \in {t[i] : i \in DOMAIN t}
  <2>1. CASE x = e
    BY <1>1, <2>1
  <2>2. CASE x \in {s[i] : i \in DOMAIN s}
    <3>1. PICK i \in 1..Len(s) : x = s[i]
      BY <1>1, <2>2
    <3>2. i \in 1..(Len(s) + 1) /\ x = t[i]
      BY <1>1, <3>1
    <3> QED BY <1>1, <3>2
  <2> QED BY <1>3, <2>1, <2>2
<1> QED BY <1>2, <1>3

\* A step adds to what a registered client has been given or has missed exactly
\* the message it fans out, and that only if the client subscribed to it.
LEMMA GivenStep ==
    ASSUME TypeOK, QueueInv, [Next]_vars, NEW c \in clients
    PROVE  (Given(c) \cup skipped[c])' =
              IF broadcastMessage /\ shouldSendToClient(c, log[FannedOut + 1])
              THEN Given(c) \cup skipped[c] \cup {FannedOut + 1}
              ELSE Given(c) \cup skipped[c]
<1>0. /\ c \in Clients
      /\ Seen(c) \in Seq(Nat)
      /\ FannedOut \in Nat /\ FannedOut + 1 \in Nat
  BY SeenType, FannedOutStep DEF TypeOK
<1>1. ASSUME broadcastMessage, shouldSendToClient(c, log[FannedOut + 1])
      PROVE  (Given(c) \cup skipped[c])'
                = Given(c) \cup skipped[c] \cup {FannedOut + 1}
  <2>1. Head(broadcast) = FannedOut + 1
    BY <1>1 DEF broadcastMessage, QueueInv, FannedOut, TypeOK
  <2>2. CASE Room(c)
    <3>1. /\ send'[c] = Append(send[c], FannedOut + 1)
          /\ taken'[c] = taken[c]
          /\ skipped'[c] = skipped[c]
      BY <1>0, <1>1, <2>1, <2>2 DEF broadcastMessage, FanOut
    <3>2. Len(send'[c]) # Len(send[c])
      BY <1>0, <3>1 DEF TypeOK
    <3>3. Seen(c)' = Append(Seen(c), FannedOut + 1)
      <4>1. ASSUME NEW message \in Nat
            PROVE  taken[c] \o Append(send[c], message) = Append(Seen(c), message)
        BY <1>0, ConcatAppend DEF Seen, TypeOK
      <4> QED BY <1>0, <3>1, <4>1 DEF Seen
    <3>4. Given(c)' = (Given(c) \cup {FannedOut + 1})
      <4>1. ASSUME NEW message \in Nat, Seen(c)' = Append(Seen(c), message)
            PROVE  {Seen(c)'[i] : i \in DOMAIN Seen(c)'}
                      = {Seen(c)[i] : i \in DOMAIN Seen(c)} \cup {message}
        BY ONLY <1>0, <4>1, RangeOfAppend, SMTT(30)
      <4>2. FannedOut + 1 # Connected
        BY <1>0
      <4> HIDE DEF Connected
      <4> QED BY ONLY <1>0, <3>3, <4>1, <4>2 DEF Given
    <3> QED BY ONLY <3>1, <3>4
  <2>3. CASE ~Room(c)
    <3>1. /\ Seen(c)' = Seen(c)
          /\ skipped'[c] = skipped[c] \cup {FannedOut + 1}
      BY <1>0, <1>1, <2>1, <2>3 DEF broadcastMessage, FanOut, Seen, TypeOK
    <3> QED BY <3>1 DEF Given
  <2> QED BY <2>2, <2>3
<1>2. ASSUME ~(broadcastMessage /\ shouldSendToClient(c, log[FannedOut + 1]))
      PROVE  Given(c)' = Given(c) /\ skipped'[c] = skipped[c]
  <2>1. Given(c)' = Given(c)
    <3>1. CASE Seen(c)' = Seen(c)
      BY <3>1 DEF Given
    <3>2. CASE Seen(c)' = Append(Seen(c), Connected)
      BY <1>0, <3>2, RangeOfAppend DEF Given
    <3> QED BY <1>0, <1>2, <3>1, <3>2, SeenStep
  <2>2. CASE broadcastMessage
    <3>1. Head(broadcast) = FannedOut + 1
      BY <2>2 DEF broadcastMessage, QueueInv, FannedOut, TypeOK
    <3>2. skipped'[c] = skipped[c]
      BY <1>0, <1>2, <2>2, <3>1 DEF broadcastMessage, FanOut
    <3> QED BY <2>1, <3>2
  <2>3. CASE skipped' = skipped
    BY <2>1, <2>3
  <2> QED
    BY <2>2, <2>3
       DEF Next, HandlerStep, ContextStep, PublisherStep, Connect, Register,
           Greet, Stream, StreamNil, StreamDone, Disconnect, HandlerOver,
           Notify, Unregister, Publish, Enqueue, vars
<1> QED BY <1>1, <1>2
\* A client joined somewhere in the messages fanned out so far.
JoinedInv == \A c \in Clients : joined[c] \in 0..FannedOut

LEMMA JoinedInvariant == Spec => []JoinedInv
<1>1. Init => JoinedInv
  BY DEF Init, JoinedInv, FannedOut
<1>2. TypeOK /\ QueueInv /\ JoinedInv /\ [Next]_vars => JoinedInv'
  <2> SUFFICES ASSUME TypeOK, QueueInv, JoinedInv, [Next]_vars,
                      NEW c \in Clients
               PROVE  joined'[c] \in 0..FannedOut'
    BY DEF JoinedInv
  <2>1. /\ FannedOut \in Nat /\ FannedOut' \in Nat /\ FannedOut <= FannedOut'
        /\ joined[c] \in 0..FannedOut
    BY FannedOutStep DEF JoinedInv
  <2>2. ASSUME NEW d \in Clients, Register(d)
        PROVE  joined'[c] = joined[c] \/ joined'[c] = FannedOut
    BY <2>2 DEF Register, TypeOK
  <2>3. joined'[c] = joined[c] \/ joined'[c] = FannedOut
    BY <2>2
       DEF Next, HandlerStep, ContextStep, PublisherStep, Connect, Greet,
           Stream, StreamNil, StreamDone, Disconnect, HandlerOver, Notify,
           Unregister, Publish, Enqueue, broadcastMessage, vars
  <2> QED BY <2>1, <2>3
<1>3. QED BY <1>1, <1>2, TypeCorrect, QueueInvariant, PTL DEF Spec

\* The messages between a client's registration and the last fan-out that its
\* subscriptions match.
Due(c) == {n \in (joined[c] + 1)..FannedOut : shouldSendToClient(c, log[n])}

\* A client only ever misses messages that found its buffer full.
THEOREM LossOnlyWhenFull == Spec => []LossOnlyByOverflow
<1>1. Init => LossOnlyByOverflow
  BY DEF Init, LossOnlyByOverflow
<1>2. TypeOK /\ ProtocolInv /\ QueueInv /\ JoinedInv /\ LossOnlyByOverflow
         /\ [Next]_vars => LossOnlyByOverflow'
  <2> SUFFICES ASSUME TypeOK, ProtocolInv, QueueInv, JoinedInv,
                      LossOnlyByOverflow, [Next]_vars, NEW c \in clients'
               PROVE  Due(c)' = (Given(c) \cup skipped[c])'
    BY DEF LossOnlyByOverflow, Due
  <2>1. /\ FannedOut \in Nat
        /\ FannedOut <= Len(log)
        /\ FannedOut' = IF broadcastMessage THEN FannedOut + 1 ELSE FannedOut
        /\ FannedOut' \in Nat
    BY FannedOutStep
  <2>2. CASE c \in clients
    <3>1. /\ c \in Clients
          /\ handler[c] \notin {"idle", "registering"}
          /\ joined[c] \in 0..FannedOut
          /\ Due(c) = Given(c) \cup skipped[c]
      BY <2>2 DEF TypeOK, ProtocolInv, JoinedInv, LossOnlyByOverflow, Due
    <3>2. joined'[c] = joined[c] /\ subscriptions'[c] = subscriptions[c]
      BY <3>1
         DEF Next, HandlerStep, ContextStep, PublisherStep, Connect, Register,
             Greet, Stream, StreamNil, StreamDone, Disconnect, HandlerOver,
             Notify, Unregister, Publish, Enqueue, broadcastMessage, vars, TypeOK
    <3>3. ASSUME NEW n \in 1..Len(log)
          PROVE  shouldSendToClient(c, log[n])' <=> shouldSendToClient(c, log[n])
      <4>1. log'[n] = log[n]
        BY <3>1, SubscriptionsStep
      <4> QED BY <3>2, <4>1 DEF shouldSendToClient
    <3>4. CASE broadcastMessage
      <4>1. log' = log /\ FannedOut + 1 \in 1..Len(log)
        BY <2>1, <3>4 DEF broadcastMessage, FannedOut, TypeOK, QueueInv
      <4>2. Due(c)' = IF shouldSendToClient(c, log[FannedOut + 1])
                      THEN Due(c) \cup {FannedOut + 1} ELSE Due(c)
        BY <2>1, <3>1, <3>2, <3>3, <3>4, <4>1 DEF Due
      <4> QED BY <2>2, <3>1, <3>4, <4>2, GivenStep
    <3>5. CASE ~broadcastMessage
      <4>1. (joined[c] + 1)..FannedOut \subseteq 1..Len(log)
        BY <2>1, <3>1 DEF TypeOK
      <4>2. (joined'[c] + 1)..FannedOut' = (joined[c] + 1)..FannedOut
        BY <2>1, <3>2, <3>5
      <4>3. Due(c)' = Due(c)
        BY ONLY <3>3, <4>1, <4>2 DEF Due
      <4> QED BY <2>2, <3>1, <3>5, <4>3, GivenStep
    <3> QED BY <3>4, <3>5
  <2>3. CASE c \notin clients
    <3>1. Register(c) /\ c \in Clients
      BY <2>3
         DEF Next, HandlerStep, ContextStep, PublisherStep, Connect, Register,
             Greet, Stream, StreamNil, StreamDone, Disconnect, HandlerOver,
             Notify, Unregister, Publish, Enqueue, broadcastMessage, vars, TypeOK
    <3>2. /\ joined'[c] = FannedOut
          /\ FannedOut' = FannedOut
          /\ Seen(c)' = <<>>
          /\ skipped'[c] = {}
      BY <3>1, ConcatEmptySeq DEF Register, FannedOut, Seen, ProtocolInv, TypeOK
    <3>3. Due(c)' = {}
      BY <2>1, <3>2 DEF Due
    <3>4. Given(c)' = {}
      BY <3>2 DEF Given
    <3> QED BY <3>2, <3>3, <3>4
  <2> QED BY <2>2, <2>3
<1>3. QED
  BY <1>1, <1>2, TypeCorrect, ProtocolInvariant, QueueInvariant,
     JoinedInvariant, PTL DEF Spec
=============================================================================
