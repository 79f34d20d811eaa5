-------------------------------- MODULE SSE --------------------------------
(***************************************************************************)
(* The server-sent events service of internal/sse: one `run` goroutine     *)
(* owns the client map; every request runs HandleConnection in its own     *)
(* goroutine and starts a second one that waits for the end of the request *)
(* context; any other handler may call Broadcast.  They meet on three      *)
(* channels (register and unregister are unbuffered, broadcast holds       *)
(* QueueCap messages) and on one Send channel per client (BufCap events).  *)
(*                                                                         *)
(* The run goroutine is the only one that touches the map and the only     *)
(* sender in broadcastMessage, and it never blocks while it serves a case  *)
(* of its select, so each case is one action.  Messages are named by their *)
(* position in the order the broadcast channel accepted them; 0 names the  *)
(* "connected" event.                                                      *)
(***************************************************************************)
EXTENDS Integers, Sequences, FiniteSets

CONSTANTS
    Clients,        \* connections: one per GET /api/sse request
    Publishers,     \* goroutines that call Broadcast
    Namespaces,     \* the namespaces messages and clients name
    Wildcard,       \* the subscription "*"
    Requests,       \* the sets of namespaces requests ask for
    NoFilter,       \* a message whose filter has no namespace key
    NoMessage,      \* a publisher that is not inside Broadcast
    BufCap,         \* capacity of Client.Send (256 in the code)
    QueueCap,       \* capacity of Service.broadcast (256 in the code)
    MaxBroadcasts,  \* bound: calls of Broadcast in a behaviour
    Unencodable,    \* messages whose data json.Marshal rejects
    Unflushable     \* connections whose writer is no http.Flusher

ASSUME BufCapAssumption == BufCap \in Nat \ {0}
ASSUME QueueCapAssumption == QueueCap \in Nat \ {0}
ASSUME MaxBroadcastsAssumption == MaxBroadcasts \in Nat
ASSUME RequestsAssumption == Requests \subseteq SUBSET (Namespaces \cup {Wildcard})
ASSUME NoFilterAssumption == NoFilter \notin Namespaces
ASSUME NoMessageAssumption == NoMessage \notin Namespaces \cup {NoFilter}

VARIABLES
    clients,        \* Service.clients: the registered connections
    broadcast,      \* Service.broadcast: messages accepted, not yet fanned out
    publishing,     \* the filter a publisher is sending, or NoMessage
    subscriptions,  \* Client.Subscriptions
    send,           \* the contents of Client.Send
    closed,         \* the connections whose Send channel is closed
    handler,        \* where HandleConnection is
    notifier,       \* where its disconnect goroutine is
    cancelled,      \* the connections whose request context is done
    taken,          \* the events HandleConnection took from Send
    log,            \* history: the filter of every accepted message
    joined,         \* history: messages fanned out before registration
    skipped         \* history: messages dropped because Send was full

vars == <<clients, broadcast, publishing, subscriptions, send, closed, handler,
          notifier, cancelled, taken, log, joined, skipped>>

Connected == 0
Filters == Namespaces \cup {NoFilter}

\* What the fan-out has put into a client's buffer: what is there and what the handler has
\* taken.  All of that is written to the response but an event that cannot be encoded,
\* which is the last that is taken.
Seen(c) == taken[c] \o send[c]

\* The messages the run goroutine has taken off the broadcast channel.
FannedOut == Len(log) - Len(broadcast)

\* A send on Client.Send would not block.
RoomOffByOne(c) == Len(send[c]) <= BufCap    \* mutant
Room(c) == Len(send[c]) < BufCap

shouldSendToAnySubscriber(c, filter) ==      \* mutant: "has subscriptions"
    filter = NoFilter \/ subscriptions[c] # {}

shouldSendToClient(c, filter) ==
    \/ filter = NoFilter
    \/ Wildcard \in subscriptions[c]
    \/ filter \in subscriptions[c]

Init ==
    /\ clients = {}
    /\ broadcast = <<>>
    /\ publishing = [p \in Publishers |-> NoMessage]
    /\ subscriptions = [c \in Clients |-> {}]
    /\ send = [c \in Clients |-> <<>>]
    /\ closed = {}
    /\ handler = [c \in Clients |-> "idle"]
    /\ notifier = [c \in Clients |-> "off"]
    /\ cancelled = {}
    /\ taken = [c \in Clients |-> <<>>]
    /\ log = <<>>
    /\ joined = [c \in Clients |-> 0]
    /\ skipped = [c \in Clients |-> {}]

----------------------------------------------------------------------------
(* HandleConnection *)

\* The request arrives and the client is built; no namespace means "*".
Connect(c, namespaces) ==
    /\ handler[c] = "idle"
    /\ handler' = [handler EXCEPT ![c] = "registering"]
    /\ subscriptions' = [subscriptions EXCEPT ![c] =
                            IF namespaces = {} THEN {Wildcard} ELSE namespaces]
    /\ UNCHANGED <<clients, broadcast, publishing, send, closed, notifier,
                   cancelled, taken, log, joined, skipped>>

\* The rendezvous on the register channel, run's first case.
Register(c) ==
    /\ handler[c] = "registering"
    /\ handler' = [handler EXCEPT ![c] = "greeting"]
    /\ clients' = clients \cup {c}
    /\ joined' = [joined EXCEPT ![c] = FannedOut]
    /\ UNCHANGED <<broadcast, publishing, subscriptions, send, closed, notifier,
                   cancelled, taken, log, skipped>>

\* The send of the "connected" event blocks while the buffer is full; only
\* after it does the handler start the goroutine that waits for the context.
Greet(c) ==
    /\ handler[c] = "greeting"
    /\ Room(c)
    /\ send' = [send EXCEPT ![c] = Append(@, Connected)]
    /\ notifier' = [notifier EXCEPT ![c] = "waiting"]
    /\ handler' = [handler EXCEPT ![c] =
                      IF c \in Unflushable THEN "returned" ELSE "streaming"]
    /\ UNCHANGED <<clients, broadcast, publishing, subscriptions, closed,
                   cancelled, taken, log, joined, skipped>>

\* The stream loop's second case: an event is taken from the buffer and written, or its
\* data cannot be encoded, it is not written, and the handler returns.
Stream(c) ==
    /\ handler[c] = "streaming"
    /\ send[c] # <<>>
    /\ send' = [send EXCEPT ![c] = Tail(@)]
    /\ taken' = [taken EXCEPT ![c] = Append(@, Head(send[c]))]
    /\ handler' = [handler EXCEPT ![c] =
                      IF Head(send[c]) \in Unencodable THEN "returned" ELSE @]
    /\ UNCHANGED <<clients, broadcast, publishing, subscriptions, closed,
                   notifier, cancelled, log, joined, skipped>>

\* The same case on a closed and drained channel: the event is nil and
\* writeSSEEvent dereferences it; net/http recovers the handler's panic.
StreamNil(c) ==
    /\ handler[c] = "streaming"
    /\ send[c] = <<>>
    /\ c \in closed
    /\ handler' = [handler EXCEPT ![c] = "panicked"]
    /\ UNCHANGED <<clients, broadcast, publishing, subscriptions, send, closed,
                   notifier, cancelled, taken, log, joined, skipped>>

\* The stream loop's first case.
StreamDone(c) ==
    /\ handler[c] = "streaming"
    /\ c \in cancelled
    /\ handler' = [handler EXCEPT ![c] = "returned"]
    /\ UNCHANGED <<clients, broadcast, publishing, subscriptions, send, closed,
                   notifier, cancelled, taken, log, joined, skipped>>

----------------------------------------------------------------------------
(* The request context and the disconnect goroutine *)

\* The peer goes away at any time after the request was accepted.
Disconnect(c) ==
    /\ handler[c] # "idle"
    /\ c \notin cancelled
    /\ cancelled' = cancelled \cup {c}
    /\ UNCHANGED <<clients, broadcast, publishing, subscriptions, send, closed,
                   handler, notifier, taken, log, joined, skipped>>

\* net/http cancels the request context once the handler is over.
HandlerOver(c) ==
    /\ handler[c] \in {"returned", "panicked"}
    /\ c \notin cancelled
    /\ cancelled' = cancelled \cup {c}
    /\ UNCHANGED <<clients, broadcast, publishing, subscriptions, send, closed,
                   handler, notifier, taken, log, joined, skipped>>

\* Mutant: the client is unregistered by the stream loop only.
NotifyWhileStreaming(c) ==
    /\ handler[c] = "streaming"
    /\ notifier[c] = "waiting"
    /\ c \in cancelled
    /\ notifier' = [notifier EXCEPT ![c] = "unregistering"]
    /\ UNCHANGED <<clients, broadcast, publishing, subscriptions, send, closed,
                   handler, cancelled, taken, log, joined, skipped>>

Notify(c) ==
    /\ notifier[c] = "waiting"
    /\ c \in cancelled
    /\ notifier' = [notifier EXCEPT ![c] = "unregistering"]
    /\ UNCHANGED <<clients, broadcast, publishing, subscriptions, send, closed,
                   handler, cancelled, taken, log, joined, skipped>>

\* Mutant: the channel is closed but the entry stays in the map.
UnregisterKeepsEntry(c) ==
    /\ notifier[c] = "unregistering"
    /\ notifier' = [notifier EXCEPT ![c] = "done"]
    /\ closed' = IF c \in clients THEN closed \cup {c} ELSE closed
    /\ UNCHANGED <<clients, broadcast, publishing, subscriptions, send, handler,
                   cancelled, taken, log, joined, skipped>>

\* The rendezvous on the unregister channel, run's second case.
Unregister(c) ==
    /\ notifier[c] = "unregistering"
    /\ notifier' = [notifier EXCEPT ![c] = "done"]
    /\ clients' = clients \ {c}
    /\ closed' = IF c \in clients THEN closed \cup {c} ELSE closed
    /\ UNCHANGED <<broadcast, publishing, subscriptions, send, handler,
                   cancelled, taken, log, joined, skipped>>

----------------------------------------------------------------------------
(* Broadcast and broadcastMessage *)

\* A handler calls Broadcast.
Publish(p, filter) ==
    /\ publishing[p] = NoMessage
    /\ Len(log) + Cardinality({q \in Publishers : publishing[q] # NoMessage})
          < MaxBroadcasts
    /\ publishing' = [publishing EXCEPT ![p] = filter]
    /\ UNCHANGED <<clients, broadcast, subscriptions, send, closed, handler,
                   notifier, cancelled, taken, log, joined, skipped>>

\* Its send on the broadcast channel goes through once there is room.
Enqueue(p) ==
    /\ publishing[p] # NoMessage
    /\ Len(broadcast) < QueueCap
    /\ broadcast' = Append(broadcast, Len(log) + 1)
    /\ log' = Append(log, publishing[p])
    /\ publishing' = [publishing EXCEPT ![p] = NoMessage]
    /\ UNCHANGED <<clients, subscriptions, send, closed, handler, notifier,
                   cancelled, taken, joined, skipped>>

\* Mutant: fan-out returns at a full client.
FanOutStopsAtFull(message, matching) ==
    /\ send' = [c \in Clients |->
                  IF c \in matching /\ \A d \in matching : Room(d)
                  THEN Append(send[c], message) ELSE send[c]]
    /\ skipped' = [c \in Clients |-> IF c \in matching /\ ~Room(c)
                                    THEN skipped[c] \cup {message} ELSE skipped[c]]

\* Mutant: fan-out waits for a full client.
FanOutBlocks(message, matching) ==
    /\ \A c \in matching : Room(c)
    /\ send' = [c \in Clients |-> IF c \in matching THEN Append(send[c], message)
                                                 ELSE send[c]]
    /\ UNCHANGED skipped

\* A matching client with room in its buffer gets the event, one without room
\* is skipped.
FanOut(message, matching) ==
    /\ send' = [c \in Clients |-> IF c \in matching /\ Room(c)
                                 THEN Append(send[c], message) ELSE send[c]]
    /\ skipped' = [c \in Clients |-> IF c \in matching /\ ~Room(c)
                                    THEN skipped[c] \cup {message} ELSE skipped[c]]

\* Mutant: a message stays in the queue until every client has had room for it.
broadcastMessageToAll ==
    /\ broadcast # <<>>
    /\ LET matching == {c \in clients : shouldSendToClient(c, log[Head(broadcast)])}
       IN  /\ FanOut(Head(broadcast), matching)
           /\ broadcast' = IF \A c \in matching : Room(c) THEN Tail(broadcast)
                           ELSE broadcast
    /\ UNCHANGED <<clients, publishing, subscriptions, closed, handler, notifier,
                   cancelled, taken, log, joined>>

\* run's third case.
broadcastMessage ==
    /\ broadcast # <<>>
    /\ FanOut(Head(broadcast),
              {c \in clients : shouldSendToClient(c, log[Head(broadcast)])})
    /\ broadcast' = Tail(broadcast)
    /\ UNCHANGED <<clients, publishing, subscriptions, closed, handler, notifier,
                   cancelled, taken, log, joined>>

----------------------------------------------------------------------------
HandlerStep(c) ==
    \/ \E namespaces \in Requests : Connect(c, namespaces)
    \/ Register(c)
    \/ Greet(c)
    \/ Stream(c)
    \/ StreamNil(c)
    \/ StreamDone(c)

ContextStep(c) ==
    \/ Disconnect(c)
    \/ HandlerOver(c)
    \/ Notify(c)
    \/ Unregister(c)

PublisherStep(p) ==
    \/ \E filter \in Filters : Publish(p, filter)
    \/ Enqueue(p)

Next ==
    \/ \E c \in Clients : HandlerStep(c)
    \/ \E c \in Clients : ContextStep(c)
    \/ \E p \in Publishers : PublisherStep(p)
    \/ broadcastMessage

Spec == Init /\ [][Next]_vars

(***************************************************************************)
(* Fairness.  Goroutines that can run do run; run's select and the stream  *)
(* loop's select choose at random among the cases that are ready, and the  *)
(* senders blocked on a channel are served in order, so a case that stays  *)
(* ready is taken.  Clients and publishers are under no obligation to act. *)
(***************************************************************************)
Fairness ==
    /\ \A c \in Clients :
          /\ WF_vars(Register(c))
          /\ WF_vars(Greet(c))
          /\ WF_vars(Stream(c))
          /\ WF_vars(StreamDone(c))
          /\ WF_vars(HandlerOver(c))
          /\ WF_vars(Notify(c))
          /\ WF_vars(Unregister(c))
    /\ \A p \in Publishers : WF_vars(Enqueue(p))
    /\ WF_vars(broadcastMessage)

FairSpec == Spec /\ Fairness

----------------------------------------------------------------------------
(* Properties *)

Events == Nat

\* Every variable stays within its type.
TypeOK ==
    /\ clients \subseteq Clients
    /\ broadcast \in Seq(Events \ {Connected})
    /\ Len(broadcast) <= QueueCap
    /\ publishing \in [Publishers -> Filters \cup {NoMessage}]
    /\ subscriptions \in [Clients -> SUBSET (Namespaces \cup {Wildcard})]
    /\ send \in [Clients -> Seq(Events)]
    /\ \A c \in Clients : Len(send[c]) <= BufCap
    /\ closed \subseteq Clients
    /\ handler \in [Clients -> {"idle", "registering", "greeting", "streaming",
                                "returned", "panicked"}]
    /\ notifier \in [Clients -> {"off", "waiting", "unregistering", "done"}]
    /\ cancelled \subseteq Clients
    /\ taken \in [Clients -> Seq(Events)]
    /\ log \in Seq(Filters)
    /\ joined \in [Clients -> Int]
    /\ skipped \in [Clients -> SUBSET Events]

\* Go panics on a send on a closed channel and on a second close.  Every
\* channel the code is about to send on or may still close is open: that of a
\* handler about to send its "connected" event (sse.go:109) and that of every
\* client in the map, which broadcastMessage sends to (sse.go:192) and the
\* unregister case closes (sse.go:62).
ChannelsOpen ==
    /\ \A c \in Clients : handler[c] = "greeting" => c \notin closed
    /\ clients \cap closed = {}

\* No event of a namespace reaches the buffer, and so the response, of a client that
\* asked for other namespaces only (sse.go:202-215), whatever the order of
\* registrations, broadcasts and disconnects.
NamespaceIsolation ==
    \A c \in Clients : \A i \in DOMAIN Seen(c) :
        (Seen(c)[i] # Connected /\ log[Seen(c)[i]] \in Namespaces)
            => subscriptions[c] \cap {Wildcard, log[Seen(c)[i]]} # {}

\* What a client is given keeps the order in which Broadcast calls were accepted,
\* and no message reaches a client twice.
InOrder ==
    \A c \in Clients : \A i, j \in DOMAIN Seen(c) :
        /\ i < j
        /\ Seen(c)[i] # Connected
        /\ Seen(c)[j] # Connected
        => Seen(c)[i] < Seen(c)[j]

\* The messages that were put into the buffer of a client.
Given(c) == {Seen(c)[i] : i \in DOMAIN Seen(c)} \ {Connected}

\* A client in the map has been given every message fanned out since its
\* registration that its subscriptions match, except those that found its
\* buffer full (sse.go:191-196): a slow client costs the others nothing.
LossOnlyByOverflow ==
    \A c \in clients :
        {n \in (joined[c] + 1)..FannedOut : shouldSendToClient(c, log[n])}
            = Given(c) \cup skipped[c]

\* A handler inside Broadcast gets out again, however full the clients' buffers
\* are: fan-out skips a full client instead of waiting for it.
PublisherProceeds ==
    \A p \in Publishers : publishing[p] # NoMessage ~> publishing[p] = NoMessage

\* Once a handler has started its disconnect goroutine (sse.go:120), the end of
\* the request context removes the client from the map and closes its channel,
\* also when the handler itself has returned early or panicked.
DisconnectUnregisters ==
    \A c \in Clients :
        (c \in cancelled /\ notifier[c] # "off") ~> (c \notin clients /\ c \in closed)

\* sse.go:116, "Handle client disconnect": a client whose request is over does
\* not stay in the map for ever.
DisconnectHandled ==
    \A c \in Clients : (c \in cancelled /\ c \in clients) ~> c \notin clients

=============================================================================
