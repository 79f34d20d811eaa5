------------------------------ MODULE Startup ------------------------------
(***************************************************************************)
(* How cmd/api puts the server together: main reads the configuration,     *)
(* makes the services it enables, has each register its routes on one      *)
(* http.ServeMux, listens, and shuts down on a signal.                     *)
(*                                                                         *)
(* A route is its pattern; the prefix /api/v1/ is left out.                *)
(***************************************************************************)
EXTENDS Naturals, Sequences

CONSTANTS
    Configs,    \* the configuration files that may be given: the services they enable
    Requests    \* requests that may be open when the server is asked to stop

VARIABLES
    step,       \* where main is
    config,     \* the configuration that was read
    services,   \* the optional services that were made
    mux,        \* the patterns registered so far
    open        \* the requests being served

vars == <<step, config, services, mux, open>>

Optional == {"analytics", "oidc", "webhooks", "graphql", "sse", "approval"}

Init ==
    /\ step = "starting"
    /\ config = {}
    /\ services = {}
    /\ mux = <<>>
    /\ open = {}

Goto(s) == step' = s
Fatal == Goto("fatal") /\ UNCHANGED <<config, services, mux, open>>

\* A file that cannot be read or decoded ends the process.
LoadConfig(c) ==
    /\ step = "starting"
    /\ config' = c
    /\ Goto("loaded")
    /\ UNCHANGED <<services, mux, open>>

LoadFails == step = "starting" /\ Fatal

\* The services main makes before the routes, and the error of graphql.NewServer.
MakeServices ==
    /\ step = "loaded"
    /\ services' = config \cap Optional
    /\ Goto("registering")
    /\ UNCHANGED <<config, mux, open>>

GraphQLFails == step = "loaded" /\ "graphql" \in config /\ Fatal

----------------------------------------------------------------------------
(* RegisterRoutes of each package *)

SSERoutes == << "GET /api/sse", "GET /api/sse/stats", "POST /api/sse/broadcast" >>

\* Server.RegisterRoutes, in two parts.
WorkloadRoutes == <<
    "POST workloads/bulk", "GET audit", "GET audit/", "GET audit/resources/{type}/{id}",
    "GET changelog/subscriptions", "POST changelog/subscriptions",
    "DELETE changelog/subscriptions/{id}", "POST changelog/releases", "POST workloads",
    "GET workloads", "GET workloads/{id}/diff", "POST workloads/{id}/diff", "GET workloads/{id}",
    "PATCH workloads/{id}", "DELETE workloads/{id}", "POST workloads/{id}/restart",
    "GET workloads/{id}/revisions", "POST workloads/{id}/rollback" >>

ClusterRoutes == <<
    "GET quotas", "GET quotas/{namespace}/usage", "GET quotas/{namespace}",
    "PUT quotas/{namespace}", "DELETE quotas/{namespace}", "GET workloads/", "GET pods/",
    "GET pods/", "POST namespaces", "GET namespaces", "DELETE namespaces/", "GET workloads/",
    "GET events/", "GET workloads/", "GET workloads/", "POST workloads/", "GET workloads/",
    "GET workloads/", "GET workloads/", "GET tenants/", "GET workloads/", "GET workloads/",
    "POST manifests/generate", "POST templates/kranixapp", "GET nodes/health",
    "POST nodes/{name}/drain", "POST workloads/{id}/checkpoint", "POST workloads/{id}/restore",
    "GET workloads/{id}/checkpoints", "GET runtime/plugins", "POST workloads/{id}/migrate",
    "POST ai/ask", "GET cluster/health", "GET cluster/suggestions", "POST workloads/",
    "GET workloads/", "GET cost/summary", "POST cost/estimate", "POST approvals", "GET approvals",
    "GET approvals/{id}", "POST approvals/{id}/resolve", "GET templates", "POST templates/get",
    "POST coordination/tasks", "GET coordination/tasks", "GET coordination/tasks/",
    "PATCH coordination/tasks/", "POST coordination/tasks/", "POST coordination/tasks/",
    "POST coordination/tasks/", "POST dryrun/mode", "GET dryrun/mode", "GET dryrun/preview",
    "DELETE dryrun/actions", "GET incident/runbooks", "GET incident/runbooks/",
    "POST incident/runbooks", "POST incident/runbooks/", "GET incident/executions",
    "GET incident/executions/", "DELETE incident/executions/" >>

StreamRoutes == << "GET pods/", "GET pods/" >>

AnalyticsRoutes == <<
    "GET analytics/metrics", "POST analytics/metrics", "GET analytics/workloads/",
    "GET analytics/summary" >>

OIDCRoutes == <<
    "GET /auth/login", "GET /auth/callback", "POST /auth/logout", "GET /auth/providers" >>

WebhookRoutes == <<
    "POST webhooks", "GET webhooks", "GET webhooks/", "PATCH webhooks/", "DELETE webhooks/",
    "GET webhooks/", "POST webhooks/" >>

APIKeyRoutes == << "POST apikeys", "GET apikeys", "GET apikeys/", "DELETE apikeys/" >>

VersionRoutes == << "GET version", "GET changelog" >>

If(service, routes) == IF service \in services THEN routes ELSE <<>>

Routes ==
    If("sse", SSERoutes) \o WorkloadRoutes \o ClusterRoutes \o StreamRoutes
    \o If("analytics", AnalyticsRoutes) \o If("oidc", OIDCRoutes)
    \o If("webhooks", WebhookRoutes) \o APIKeyRoutes \o VersionRoutes
    \o If("graphql", <<"/graphql">>)

\* ServeMux.HandleFunc, external, panics on a pattern that conflicts with one it has.
\* Of two different patterns of these tables that match one request, one is more
\* specific, which is no conflict.
Conflicts(pattern) == \E i \in DOMAIN mux : mux[i] = pattern

HandleFunc ==
    /\ step = "registering"
    /\ Len(mux) < Len(Routes)
    /\ LET pattern == Routes[Len(mux) + 1]
       IN /\ ~Conflicts(pattern)
          /\ mux' = Append(mux, pattern)
    /\ UNCHANGED <<step, config, services, open>>

HandleFuncPanics ==
    /\ step = "registering"
    /\ Len(mux) < Len(Routes)
    /\ Conflicts(Routes[Len(mux) + 1])
    /\ Goto("panicked")
    /\ UNCHANGED <<config, services, mux, open>>

----------------------------------------------------------------------------
(* Listening and shutdown *)

Listen ==
    /\ step = "registering"
    /\ Len(mux) = Len(Routes)
    /\ Goto("listening")
    /\ UNCHANGED <<config, services, mux, open>>

ListenFails == step = "listening" /\ Fatal

Arrives(r) ==
    /\ step = "listening"
    /\ open' = open \cup {r}
    /\ UNCHANGED <<step, config, services, mux>>

Ends(r) ==
    /\ r \in open
    /\ open' = open \ {r}
    /\ UNCHANGED <<step, config, services, mux>>

\* SIGINT or SIGTERM: Shutdown takes no more requests and waits for those it has.
Signal ==
    /\ step = "listening"
    /\ Goto("stopping")
    /\ UNCHANGED <<config, services, mux, open>>

Exit ==
    /\ step = "stopping"
    /\ open = {}
    /\ Goto("exited")
    /\ UNCHANGED <<config, services, mux, open>>

\* After 30 seconds.
ShutdownTimesOut == step = "stopping" /\ open # {} /\ Fatal

Next ==
    \/ \E c \in Configs : LoadConfig(c)
    \/ LoadFails \/ MakeServices \/ GraphQLFails
    \/ HandleFunc \/ HandleFuncPanics \/ Listen \/ ListenFails
    \/ \E r \in Requests : Arrives(r) \/ Ends(r)
    \/ Signal \/ Exit \/ ShutdownTimesOut

Spec == Init /\ [][Next]_vars

----------------------------------------------------------------------------
(* Properties *)

\* README.md:223 has the server run with "go run ./cmd/api --config ./config/local.yaml":
\* registering the routes of the services that a configuration enables does not end the
\* process (server.go:85, stream.go:13, webhooks/handlers.go:18).
ComesUp == step # "panicked"

=============================================================================
