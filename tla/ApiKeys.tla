------------------------------ MODULE ApiKeys ------------------------------
(***************************************************************************)
(* The API keys of internal/apikeys and the authentication of              *)
(* internal/middleware that looks them up.  The middleware stands before   *)
(* every route but the health check and the documentation, the routes that *)
(* make and revoke keys included.  The store is in memory and empty when   *)
(* the process starts.                                                     *)
(*                                                                         *)
(* A request is in a goroutine of its own.  The lookup is under the read   *)
(* lock; what it found is checked again, and used, after the lock.         *)
(***************************************************************************)
EXTENDS FiniteSets

CONSTANTS
    Clients,    \* goroutines that serve requests
    Keys,       \* the keys GenerateScopedAPIKey can make, external
    Token,      \* a bearer token that is no API key
    Addresses,  \* client addresses
    Mode        \* auth.mode of the configuration: apikey, jwt or oidc

VARIABLES
    keys,       \* whether a key is new, live or revoked
    allowed,    \* the addresses a key is restricted to, all if there are none
    request     \* the request a client's goroutine serves

vars == <<keys, allowed, request>>

Operations == {"create", "revoke", "use"}
Idle == [step |-> "idle"]
At(c, s) == request[c].step = s
Goto(c, s) == request' = [request EXCEPT ![c].step = s]
Answer(c) == request' = [request EXCEPT ![c] = Idle]

Init ==
    /\ keys = [k \in Keys |-> "new"]
    /\ allowed = [k \in Keys |-> {}]
    /\ request = [c \in Clients |-> Idle]

\* A request arrives with a token, from an address.
Send(c, op, token, from) ==
    /\ At(c, "idle")
    /\ request' = [request EXCEPT ![c] =
                      [step |-> "arrived", op |-> op, token |-> token, from |-> from]]
    /\ UNCHANGED <<keys, allowed>>

----------------------------------------------------------------------------
(* Auth *)

\* GetAPIKeyByKey: only a key that is in the store and not revoked is found.
Found(c) == request[c].token \in {k \in Keys : keys[k] = "live"}

Lookup(c) ==
    /\ At(c, "arrived")
    /\ Mode = "apikey"
    /\ IF Found(c) THEN Goto(c, "found") ELSE Answer(c)
    /\ UNCHANGED <<keys, allowed>>

\* The key may have been revoked since.
RecheckRevoked(c) ==
    /\ At(c, "found")
    /\ IF keys[request[c].token] = "revoked" THEN Answer(c) ELSE Goto(c, "unrevoked")
    /\ UNCHANGED <<keys, allowed>>

IPAllowed(c) == allowed[request[c].token] = {} \/ request[c].from \in allowed[request[c].token]

CheckAddress(c) ==
    /\ At(c, "unrevoked")
    /\ IF IPAllowed(c) THEN Goto(c, "admitted") ELSE Answer(c)
    /\ UNCHANGED <<keys, allowed>>

\* A key that has expired; how keys come to expire is not in this repository.
Expired(c) ==
    /\ At(c, "unrevoked")
    /\ Answer(c)
    /\ UNCHANGED <<keys, allowed>>

\* auth.ValidateToken, external, accepts a token or does not.
ValidateToken(c, valid) ==
    /\ At(c, "arrived")
    /\ Mode \in {"jwt", "oidc"}
    /\ IF valid THEN Goto(c, "admitted") ELSE Answer(c)
    /\ UNCHANGED <<keys, allowed>>

\* Any other mode is an internal server error.
InvalidMode(c) ==
    /\ At(c, "arrived")
    /\ Mode \notin {"apikey", "jwt", "oidc"}
    /\ Answer(c)
    /\ UNCHANGED <<keys, allowed>>

----------------------------------------------------------------------------
(* The handlers *)

CreateAPIKey(c, k, addresses) ==
    /\ At(c, "admitted")
    /\ request[c].op = "create"
    /\ keys[k] = "new"
    /\ keys' = [keys EXCEPT ![k] = "live"]
    /\ allowed' = [allowed EXCEPT ![k] = addresses]
    /\ Answer(c)

RevokeAPIKey(c, k) ==
    /\ At(c, "admitted")
    /\ request[c].op = "revoke"
    /\ keys[k] # "new"
    /\ keys' = [keys EXCEPT ![k] = "revoked"]
    /\ Answer(c)
    /\ UNCHANGED allowed

\* A request that is malformed, a dry run or of a key there is not, and every other
\* handler.
Serve(c) ==
    /\ At(c, "admitted")
    /\ Answer(c)
    /\ UNCHANGED <<keys, allowed>>

Authenticate(c) ==
    \/ Lookup(c) \/ RecheckRevoked(c) \/ CheckAddress(c) \/ Expired(c) \/ InvalidMode(c)
    \/ \E valid \in BOOLEAN : ValidateToken(c, valid)

Handle(c) ==
    \/ \E k \in Keys : RevokeAPIKey(c, k) \/ \E a \in SUBSET Addresses : CreateAPIKey(c, k, a)
    \/ Serve(c)

Sends(c) == \E op \in Operations, t \in Keys \cup {Token}, a \in Addresses : Send(c, op, t, a)

Next == \E c \in Clients : Sends(c) \/ Authenticate(c) \/ Handle(c)

Spec == Init /\ [][Next]_vars

----------------------------------------------------------------------------
(* Properties *)

\* README.md:180 has a key made by a request of POST /api/v1/apikeys; main.go:213 puts
\* the authentication before that route too.  When API keys are what requests are
\* authenticated by, nobody has one, nobody ever will and no request is admitted.
NobodyAdmitted ==
    Mode = "apikey" =>
        /\ \A k \in Keys : keys[k] = "new"
        /\ \A c \in Clients : request[c].step \in {"idle", "arrived"}

=============================================================================
