------------------------------ MODULE Gateway -------------------------------
(***************************************************************************)
(* Calls on their way to an endpoint and back, in the process Startup      *)
(* describes: routing, the dependencies api/routers.py declares in the     *)
(* order FastAPI solves them, the lru_cache behind api/dependencies.py     *)
(* that many threads share, and the two error handlers of api/errors.py.   *)
(* What an endpoint computes is Lookup's subject.                          *)
(***************************************************************************)
EXTENDS Startup, FiniteSets

CONSTANTS Requests, Calls

\* "misused": a path that exists with another method.  The body, or for the
\* catalogue the query, is no text, no JSON, lacks something, or is complete.
ASSUME CallsAssumption ==
    Calls \subseteq [path  : {"lookup", "catalogue", "healthz", "unknown", "misused"},
                     token : STRING,
                     body  : {"undecodable", "garbled", "incomplete", "complete"}]

ASSUME RequestsAssumption == Empty \notin Requests

VARIABLES
    call,       \* what each request asks: [path, token, body]
    response,   \* its response, once sent
    stage,      \* how far the request has got
    local,      \* while it runs: what its dependencies returned, the error it raised
    engine,     \* the lru_cache of get_repository: who built its engine
    late,       \* history: the requests that came when an engine was cached
    logged      \* history: the requests that left an error in the log

gateway == <<call, response, stage, local, engine, late, logged>>
vars    == <<startup, gateway>>

\* What a process may serve, and what this one does.
Deployments ==
    [settings : {e.settings : e \in {n \in Environments : Usable(n.settings)}},
     config   : {f.config : f \in {n \in Files : LoadResult(n) = "loaded"}}]

ASSUME DeploymentsAssumption == Empty \notin Deployments

deployed == IF pc = "serving" THEN [settings |-> cache.settings, config |-> cache.config] ELSE Empty

Contract == INSTANCE ServiceContract WITH Nothing <- Empty

NoLocal == [config |-> Empty, engine |-> Empty, error |-> 0]

GatewayInit ==
    /\ Init
    /\ call = [r \in Requests |-> Contract!NoCall]
    /\ response = [r \in Requests |-> Contract!Unsent]
    /\ stage = [r \in Requests |-> "idle"]
    /\ local = [r \in Requests |-> NoLocal]
    /\ engine = Empty
    /\ late = {}
    /\ logged = {}

-----------------------------------------------------------------------------
Receive(r, c) ==
    /\ pc = "serving"
    /\ stage[r] = "idle"
    /\ stage' = [stage EXCEPT ![r] = "routing"]
    /\ call' = [call EXCEPT ![r] = c]
    /\ response' = [response EXCEPT ![r] = Contract!Open]
    /\ late' = IF engine = Empty THEN late ELSE late \cup {r}
    /\ UNCHANGED <<startup, local, engine, logged>>

Goto(r, next) ==
    /\ stage' = [stage EXCEPT ![r] = next]
    /\ UNCHANGED response

Respond(r, resp) ==
    /\ stage' = [stage EXCEPT ![r] = "done"]
    /\ response' = [response EXCEPT ![r] = resp]
    /\ local' = [local EXCEPT ![r] = NoLocal]

Raise(r, status) ==
    /\ Goto(r, "raised")
    /\ local' = [local EXCEPT ![r].error = status]

\* The path decides, then the method; lookup, which declares a body, refuses one
\* that is no text or no JSON before its first dependency.
Refuse(r) ==
    \/ call[r].path = "unknown" /\ Respond(r, Contract!Framework(404))
    \/ call[r].path = "misused" /\ Respond(r, Contract!Framework(405))
    \/ /\ call[r].path = "lookup"
       /\ \/ call[r].body = "garbled" /\ Respond(r, Contract!Framework(422))
          \/ call[r].body = "undecodable" /\ Respond(r, Contract!Framework(400))

\* Mutant: the router is built without its dependency.
Route_Unguarded(r) ==
    /\ stage[r] = "routing"
    /\ \/ Refuse(r)
       \/ call[r].path = "healthz" /\ Respond(r, Contract!Answered(Empty))
       \/ /\ \/ call[r].path = "catalogue"
             \/ call[r].path = "lookup" /\ call[r].body \in {"incomplete", "complete"}
          /\ Goto(r, "config")
          /\ UNCHANGED local
    /\ UNCHANGED <<startup, call, engine, late, logged>>

Route(r) ==
    /\ stage[r] = "routing"
    /\ \/ Refuse(r)
       \/ call[r].path = "healthz" /\ Respond(r, Contract!Answered(Empty))
       \/ /\ \/ call[r].path = "catalogue"
             \/ call[r].path = "lookup" /\ call[r].body \in {"incomplete", "complete"}
          /\ Goto(r, "token")
          /\ UNCHANGED local
    /\ UNCHANGED <<startup, call, engine, late, logged>>

\* The router's own dependency, with its dependency get_settings.
require_token(r) ==
    /\ stage[r] = "token"
    /\ \/ /\ call[r].token # "" /\ call[r].token = get_settings.token
          /\ Goto(r, "config")
          /\ UNCHANGED local
       \/ /\ call[r].token = "" \/ call[r].token # get_settings.token
          /\ Raise(r, 401)
    /\ UNCHANGED <<startup, call, engine, late, logged>>

\* ConfigDependency.
ResolveConfig(r) ==
    /\ stage[r] = "config"
    /\ local' = [local EXCEPT ![r].config = get_provider_config]
    /\ Goto(r, IF call[r].path = "lookup" THEN "repository" ELSE "parameters")
    /\ UNCHANGED <<startup, call, engine, late, logged>>

\* RepositoryDependency, in a thread: lru_cache looks the entry up and lets
\* every thread that misses build an engine of its own.
get_repository(r) ==
    /\ stage[r] = "repository"
    /\ \/ /\ engine # Empty
          /\ local' = [local EXCEPT ![r].engine = engine]
          /\ Goto(r, "parameters")
       \/ /\ engine = Empty
          /\ Goto(r, "building")
          /\ UNCHANGED local
    /\ UNCHANGED <<startup, call, engine, late, logged>>

\* Mutant: functools.cache, which stores what was computed last.
BuildEngine_LastWins(r) ==
    /\ stage[r] = "building"
    /\ \/ /\ get_settings.url = "usable"
          /\ engine' = r
          /\ local' = [local EXCEPT ![r].engine = r]
          /\ Goto(r, "parameters")
       \/ /\ get_settings.url = "unparsable"
          /\ Raise(r, 0)
          /\ UNCHANGED engine
    /\ UNCHANGED <<startup, call, late, logged>>

\* create_async_engine; the first engine built stays in the cache, a later
\* one serves the request that built it.  An exception is not cached.
BuildEngine(r) ==
    /\ stage[r] = "building"
    /\ \/ /\ get_settings.url = "usable"
          /\ engine' = IF engine = Empty THEN r ELSE engine
          /\ local' = [local EXCEPT ![r].engine = r]
          /\ Goto(r, "parameters")
       \/ /\ get_settings.url = "unparsable"
          /\ Raise(r, 0)
          /\ UNCHANGED engine
    /\ UNCHANGED <<startup, call, late, logged>>

\* The model of the body or the query, after the dependencies.
Parameters(r) ==
    /\ stage[r] = "parameters"
    /\ \/ call[r].body = "incomplete" /\ Respond(r, Contract!Framework(422))
       \/ call[r].body # "incomplete" /\ Goto(r, "endpoint") /\ UNCHANGED local
    /\ UNCHANGED <<startup, call, engine, late, logged>>

\* Mutant: a failed derivation is raised without a word to the log.
lookup_Unlogged(r) ==
    \/ /\ \E status \in {0, 400, 404, 500} : Raise(r, status)
       /\ UNCHANGED logged

\* How lookup ends other than by its answer: a ProblemError, or (0) an
\* exception nobody handles.  A failed derivation logs for itself.
LookupFails(r) ==
    \/ /\ \E status \in {0, 400, 404} : Raise(r, status)
       /\ UNCHANGED logged
    \/ /\ Raise(r, 500)
       /\ logged' = logged \cup {r}

Endpoint(r) ==
    /\ stage[r] = "endpoint"
    /\ \/ /\ Respond(r, Contract!Answered(local[r].config))
          /\ UNCHANGED logged
       \/ call[r].path = "lookup" /\ LookupFails(r)
       \/ call[r].path = "catalogue" /\ Raise(r, 404) /\ UNCHANGED logged
    /\ UNCHANGED <<startup, call, engine, late>>

\* _handle, in ExceptionMiddleware: a ProblemError becomes its document.
HandleProblem(r) ==
    /\ stage[r] = "raised"
    /\ local[r].error # 0
    /\ Respond(r, Contract!Problem(local[r].error))
    /\ UNCHANGED <<startup, call, engine, late, logged>>

\* Mutant: no handler for Exception, so Starlette answers in plain text.
HandleUnexpected_Missing(r) ==
    /\ stage[r] = "raised"
    /\ local[r].error = 0
    /\ stage' = [stage EXCEPT ![r] = "reraised"]
    /\ response' = [response EXCEPT ![r] = [Contract!Problem(500) EXCEPT !.shape = "text"]]
    /\ local' = [local EXCEPT ![r] = NoLocal]
    /\ UNCHANGED <<startup, call, engine, late, logged>>

\* _handle_unexpected, in ServerErrorMiddleware: anything else becomes the
\* opaque one, and is raised again once that is sent.
HandleUnexpected(r) ==
    /\ stage[r] = "raised"
    /\ local[r].error = 0
    /\ stage' = [stage EXCEPT ![r] = "reraised"]
    /\ response' = [response EXCEPT ![r] = Contract!Problem(500)]
    /\ local' = [local EXCEPT ![r] = NoLocal]
    /\ UNCHANGED <<startup, call, engine, late, logged>>

\* The server, which logs what reaches it.
LogException(r) ==
    /\ stage[r] = "reraised"
    /\ stage' = [stage EXCEPT ![r] = "done"]
    /\ logged' = logged \cup {r}
    /\ UNCHANGED <<startup, call, response, local, engine, late>>

Step(r) ==
    \/ Route(r) \/ require_token(r) \/ ResolveConfig(r) \/ get_repository(r) \/ BuildEngine(r)
    \/ Parameters(r) \/ Endpoint(r) \/ HandleProblem(r) \/ HandleUnexpected(r)
    \/ LogException(r)

\* The process ends, and the requests it was working on with it.
KillAll ==
    /\ Kill
    /\ stage' = [r \in Requests |-> IF stage[r] \in {"idle", "done"} THEN stage[r] ELSE "cut"]
    /\ response' = [r \in Requests |-> IF response[r] = Contract!Open THEN Contract!Lost
                                       ELSE response[r]]
    /\ local' = [r \in Requests |-> NoLocal]
    /\ engine' = Empty
    /\ UNCHANGED <<call, late, logged>>

\* A process that is not serving has no requests.
Operate == (Edit \/ Launch \/ Start) /\ UNCHANGED gateway

GatewayNext ==
    \/ Operate
    \/ KillAll
    \/ \E r \in Requests : Step(r) \/ \E c \in Calls : Receive(r, c)

GatewaySpec == GatewayInit /\ [][GatewayNext]_vars

-----------------------------------------------------------------------------
(* Properties *)

\* The stages of a request that waits for its response, and all of them.
Working == {"routing", "token", "config", "repository", "building", "parameters", "endpoint",
            "raised"}
Stages  == Working \cup {"idle", "reraised", "done", "cut"}

\* Type correctness.
GatewayTypeOK ==
    /\ StartupTypeOK
    /\ call \in [Requests -> Calls \cup {Contract!NoCall}]
    /\ stage \in [Requests -> Stages]
    /\ DOMAIN response = Requests
    /\ \A r \in Requests :
          /\ response[r].status > 2 => response[r].shape \in {"json", "problem", "framework"}
          /\ response[r] = Contract!Open <=> stage[r] \in Working
          /\ response[r] = Contract!Open => pc = "serving"
          /\ local[r].error \in {0, 400, 401, 404, 500}
          /\ local[r].engine \in Requests \cup {Empty}
    /\ engine \in Requests \cup {Empty}
    /\ late \subseteq Requests
    /\ logged \subseteq Requests

\* Whoever does not present the token the process read when it started
\* reaches neither the configuration nor the database, on no path.
OnlyTheTokenOpensTheSeams ==
    \A r \in Requests :
        local[r].config # Empty \/ local[r].engine # Empty \/ stage[r] = "building"
            => call[r].token = read.settings.token

\* A request that comes when an engine is cached gets that engine: what a
\* race of the first requests has built besides serves nobody else.
LateRequestsShareTheEngine ==
    \A r \in late : local[r].engine \in {Empty, engine}

\* Every 500 leaves a record: what is handled must log for itself before it is
\* answered, and what nobody handled the server logs once it has been, unless
\* the process dies in between.
FailuresAreLogged ==
    \A r \in Requests :
        response[r] = Contract!Problem(500) => r \in logged \/ stage[r] \in {"reraised", "cut"}

\* Every response is one of the deployment being served, whatever the
\* operator edits, whoever calls at the same time, whenever the process dies.
KeepsTheContract == Contract!Spec

=============================================================================
