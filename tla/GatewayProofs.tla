---------------------------- MODULE GatewayProofs ---------------------------
(***************************************************************************)
(* Proofs about Gateway for any number of requests, any calls and any      *)
(* environments and files: who reaches the seams, and that every step is a *)
(* step of ServiceContract or none of its business.                        *)
(***************************************************************************)
EXTENDS Gateway, StartupProofs

\* Past the token check.
Inside == {"config", "repository", "building", "parameters", "endpoint"}

\* What a request knows of its call at each stage, and what it holds.
Underway(r) ==
    /\ stage[r] \in Inside \cup {"token", "raised"} =>
          call[r].path \in {"lookup", "catalogue"} /\ ~ Contract!Unreadable(call[r])
    /\ stage[r] \in Inside => call[r].token = cache.settings.token
    /\ stage[r] \in {"repository", "building"} => call[r].path = "lookup"
    /\ stage[r] \in {"parameters", "endpoint"} /\ call[r].path = "lookup" =>
          cache.settings.url = "usable"
    /\ stage[r] = "endpoint" => call[r].body # "incomplete" /\ local[r].config = cache.config
    /\ stage[r] \in Inside \ {"config"} => local[r].config = cache.config
    /\ local[r].config # Empty \/ local[r].engine # Empty => call[r].token = cache.settings.token

\* Why a request may raise what.
Deserves(r, error) ==
    IF call[r].token # cache.settings.token THEN error = 401
    ELSE \/ /\ call[r].path = "lookup" /\ error = 0
            /\ cache.settings.url = "unparsable"
         \/ /\ call[r].path = "lookup" /\ error \in {0, 400, 404, 500}
            /\ cache.settings.url = "usable" /\ call[r].body # "incomplete"
         \/ /\ call[r].path = "catalogue" /\ error = 404
            /\ call[r].body # "incomplete"

Raised(r) == stage[r] = "raised" => Deserves(r, local[r].error)

\* The stages of a request that holds nothing.
AtRest == {"idle", "reraised", "done", "cut"}

Typed(r) ==
    /\ stage[r] \in Stages
    /\ call[r] \in Calls \cup {Contract!NoCall}
    /\ stage[r] \in Working => call[r] \in Calls
    /\ response[r] = Contract!Open <=> stage[r] \in Working
    /\ response[r] = Contract!Open => pc = "serving"
    /\ stage[r] = "idle" => response[r] = Contract!Unsent
    /\ response[r].status > 2 => response[r].shape \in {"json", "problem", "framework"}
    /\ local[r].error \in {0, 400, 401, 404, 500}
    /\ local[r].engine \in Requests \cup {Empty}
    /\ local[r].config \in Configs \cup {Empty}
    /\ stage[r] \in AtRest => local[r] = NoLocal

Flight(r) == Typed(r) /\ Underway(r) /\ Raised(r)

Locals == [config : Configs \cup {Empty}, engine : Requests \cup {Empty},
           error : {0, 400, 401, 404, 500}]

Shared ==
    /\ call \in [Requests -> Calls \cup {Contract!NoCall}]
    /\ stage \in [Requests -> Stages]
    /\ response = [r \in Requests |-> response[r]]
    /\ local \in [Requests -> Locals]
    /\ engine \in Requests \cup {Empty}
    /\ engine # Empty => pc = "serving" /\ cache.settings.url = "usable"
    /\ late \subseteq Requests
    /\ logged \subseteq Requests

GatewayInv == StartupInv /\ Shared /\ \A r \in Requests : Flight(r)

-----------------------------------------------------------------------------
\* While it serves, a process sees only what its caches hold.
LEMMA ServingReadsTheCaches ==
    ASSUME StartupInv, pc = "serving"
    PROVE  /\ get_settings = cache.settings /\ get_provider_config = cache.config
           /\ cache.settings \in Settings /\ Usable(cache.settings)
           /\ cache.settings.url \in {"usable", "unparsable"}
           /\ cache.config \in Configs
           /\ deployed \in Deployments /\ deployed # Empty
           /\ deployed = [settings |-> cache.settings, config |-> cache.config]
<1>1. /\ cache.settings \in Settings /\ Usable(cache.settings)
      /\ read.file \in Files /\ LoadResult(read.file) = "loaded"
      /\ cache.config = read.file.config
  BY DEF StartupInv, Held
<1>2. cache.config \in Configs /\ cache.settings # Empty /\ cache.config # Empty
  BY <1>1, EmptyAssumption DEF Settings, Configs
<1>3. get_settings = cache.settings /\ get_provider_config = cache.config
  BY <1>2 DEF get_settings, get_provider_config
<1>4. cache.settings.url \in {"usable", "unparsable"}
  <2>1. PICK e \in Environments : cache.settings = e.settings
    BY <1>1 DEF Settings
  <2>. QED
    BY <2>1, EnvironmentAssumption
<1>5. cache.settings \in {e.settings : e \in {n \in Environments : Usable(n.settings)}}
  BY <1>1 DEF Settings
<1>6. cache.config \in {f.config : f \in {n \in Files : LoadResult(n) = "loaded"}}
  BY <1>1
<1>7. deployed = [settings |-> cache.settings, config |-> cache.config]
  BY DEF deployed
<1>8. deployed \in Deployments
  BY <1>5, <1>6, <1>7 DEF Deployments
<1>. QED
  BY <1>1, <1>2, <1>3, <1>4, <1>7, <1>8, DeploymentsAssumption

LEMMA ServingDeploys ==
    ASSUME StartupInv', pc' = "serving"
    PROVE  deployed' \in Deployments
<1>1. /\ cache'.settings \in Settings /\ Usable(cache'.settings)
      /\ read'.file \in Files /\ LoadResult(read'.file) = "loaded"
      /\ cache'.config = read'.file.config
  BY DEF StartupInv, Held
<1>2. PICK s \in Settings, f \in Files : s = cache'.settings /\ f = read'.file
  BY <1>1
<1>3. Usable(s) /\ LoadResult(f) = "loaded" /\ cache'.config = f.config
  BY <1>1, <1>2
<1>4. deployed' = [settings |-> s, config |-> f.config]
  BY <1>2, <1>3 DEF deployed
<1>5. s \in {e.settings : e \in {n \in Environments : Usable(n.settings)}}
  BY <1>3 DEF Settings
<1>. QED
  BY <1>3, <1>4, <1>5 DEF Deployments

LEMMA ResponsesDiffer ==
    /\ Contract!Unsent # Contract!Open /\ Contract!Lost # Contract!Open
    /\ Contract!Lost # Contract!Unsent
    /\ \A config : Contract!Answered(config) \notin {Contract!Open, Contract!Unsent}
    /\ \A s \in {400, 401, 404, 500} : Contract!Problem(s) \notin {Contract!Open, Contract!Unsent}
    /\ \A s \in {400, 404, 405, 422} : Contract!Framework(s) \notin {Contract!Open, Contract!Unsent}
<1>1. Contract!Unsent.status = 0 /\ Contract!Open.status = 1 /\ Contract!Lost.status = 2
  BY DEF Contract!Unsent, Contract!Open, Contract!Lost
<1>2. /\ \A config : Contract!Answered(config).status = 200
      /\ \A s : Contract!Problem(s).status = s
      /\ \A s : Contract!Framework(s).status = s
  BY DEF Contract!Answered, Contract!Problem, Contract!Framework
<1>. QED
  BY <1>1, <1>2

\* A request a step does not touch stays as it was, in the same process.
LEMMA FlightStable ==
    ASSUME NEW q \in Requests, Flight(q), pc' = pc, cache' = cache,
           call'[q] = call[q], stage'[q] = stage[q], response'[q] = response[q],
           local'[q] = local[q]
    PROVE  Flight(q)'
<1>1. Typed(q)'
  BY DEF Flight, Typed
<1>2. Underway(q)' /\ Raised(q)'
  BY DEF Flight, Underway, Raised, Deserves
<1>. QED
  BY <1>1, <1>2 DEF Flight

\* One request moves, in a process that goes on.
Moves(r) ==
    /\ UNCHANGED startup
    /\ \A q \in Requests \ {r} : /\ call'[q] = call[q] /\ stage'[q] = stage[q]
                                 /\ response'[q] = response[q] /\ local'[q] = local[q]

LEMMA MovesKeepsGatewayInv ==
    ASSUME GatewayInv, NEW r \in Requests, Moves(r), Shared', Flight(r)'
    PROVE  GatewayInv'
<1>1. pc' = pc /\ cache' = cache
  BY DEF Moves, startup, process
<1>2. StartupInv'
  BY StepKeepsStartupInv DEF GatewayInv, Moves
<1>3. ASSUME NEW q \in Requests, q # r
      PROVE  Flight(q)'
  BY <1>1, <1>3, FlightStable DEF GatewayInv, Moves
<1>. QED
  BY <1>2, <1>3 DEF GatewayInv

\* What the contract sees of a step that sends nothing.
LEMMA SilentStep ==
    ASSUME UNCHANGED startup, UNCHANGED <<call, response>>
    PROVE  UNCHANGED Contract!contract
  BY DEF startup, process, Contract!contract, deployed

\* A step that sends a response, after which the request rests.
Answers(r, resp, rest) ==
    /\ UNCHANGED <<startup, call, engine, late, logged>>
    /\ stage' = [stage EXCEPT ![r] = rest]
    /\ response' = [response EXCEPT ![r] = resp]
    /\ local' = [local EXCEPT ![r] = NoLocal]

Responses == {Contract!Problem(s) : s \in {400, 401, 404, 500}}
             \cup {Contract!Framework(s) : s \in {400, 404, 405, 422}}
             \cup {Contract!Answered(c) : c \in Configs \cup {Empty}}

\* A response the deployment may give is the contract's Answer.
LEMMA AnswersStep ==
    ASSUME GatewayInv, NEW r \in Requests, NEW resp \in Responses,
           NEW rest \in {"reraised", "done"}, Answers(r, resp, rest),
           response[r] = Contract!Open, resp \in Contract!Outcomes(deployed, call[r])
    PROVE  GatewayInv' /\ Contract!Answer(r)
<1>1. pc' = pc /\ cache' = cache /\ deployed' = deployed
  BY DEF Answers, startup, process, deployed
<1>2. resp \notin {Contract!Open, Contract!Unsent}
  BY ResponsesDiffer DEF Responses
<1>3. resp.shape \in {"json", "problem", "framework"}
  BY DEF Responses, Contract!Problem, Contract!Framework, Contract!Answered
<1>4. NoLocal.error = 0 /\ NoLocal.engine = Empty /\ NoLocal.config = Empty
      /\ NoLocal \in Locals
  BY DEF NoLocal, Locals
<1>5. /\ stage'[r] = rest /\ response'[r] = resp /\ local'[r] = NoLocal /\ call' = call
      /\ stage' \in [Requests -> Stages] /\ DOMAIN response' = Requests
      /\ local' \in [Requests -> Locals]
  BY <1>4 DEF Answers, GatewayInv, Shared, Stages
<1>6. response' = [q \in Requests |-> response'[q]]
  BY DEF Answers, GatewayInv, Shared
<1>7. Shared'
  BY <1>1, <1>5, <1>6 DEF Answers, GatewayInv, Shared
<1>8. Flight(r)'
  <2>1. Typed(r)'
    BY <1>2, <1>3, <1>4, <1>5 DEF GatewayInv, Flight, Typed, Stages, Working, AtRest
  <2>2. Underway(r)' /\ Raised(r)'
    BY <1>4, <1>5 DEF Underway, Raised, Inside
  <2>. QED
    BY <2>1, <2>2 DEF Flight
<1>9. Moves(r)
  BY DEF Answers, Moves, GatewayInv, Shared
<1>10. Contract!Answer(r)
  BY <1>1 DEF Contract!Answer, Answers
<1>. QED
  BY <1>7, <1>8, <1>9, <1>10, MovesKeepsGatewayInv

\* A step that sends nothing and stays underway.
Passes(r, next) ==
    /\ UNCHANGED <<startup, call, response, late>>
    /\ stage' = [stage EXCEPT ![r] = next]
    /\ logged' \in {logged, logged \cup {r}}

LEMMA PassesStep ==
    ASSUME GatewayInv, NEW r \in Requests, NEW next \in Working,
           Passes(r, next), stage[r] \in Working,
           NEW mine \in Locals,
           local' = [local EXCEPT ![r] = mine],
           engine' \in Requests \cup {Empty},
           engine' = engine \/ cache.settings.url = "usable",
           Underway(r)', Raised(r)'
    PROVE  GatewayInv' /\ UNCHANGED Contract!contract
<1>1. pc' = pc /\ cache' = cache
  BY DEF Passes, startup, process
<1>2. /\ stage'[r] = next /\ local'[r] = mine /\ call' = call /\ response' = response
      /\ stage' \in [Requests -> Stages]
      /\ local' \in [Requests -> Locals]
  BY DEF Passes, GatewayInv, Shared, Stages
<1>3. pc = "serving"
  BY DEF GatewayInv, Flight, Typed
<1>4. Shared'
  BY <1>1, <1>2, <1>3 DEF Passes, GatewayInv, Shared
<1>5. Typed(r)'
  BY <1>1, <1>2 DEF GatewayInv, Flight, Typed, Locals, Stages, Working, AtRest
<1>6. Moves(r)
  BY DEF Passes, Moves, GatewayInv, Shared
<1>. QED
  BY <1>4, <1>5, <1>6, MovesKeepsGatewayInv, SilentStep DEF Flight, Passes

-----------------------------------------------------------------------------
Kept(r) == GatewayInv' /\ (Contract!Answer(r) \/ UNCHANGED Contract!contract)

\* A request that runs belongs to a serving process.
LEMMA UnderwayMeansServing ==
    ASSUME GatewayInv, NEW r \in Requests, stage[r] \in Working
    PROVE  /\ pc = "serving" /\ response[r] = Contract!Open
           /\ call[r].path \in {"lookup", "catalogue", "healthz", "unknown", "misused"}
           /\ call[r].body \in {"undecodable", "garbled", "incomplete", "complete"}
           /\ local[r] \in Locals /\ StartupInv /\ Flight(r) /\ Shared
<1>1. pc = "serving" /\ response[r] = Contract!Open /\ call[r] \in Calls
  BY DEF GatewayInv, Flight, Typed
<1>2. /\ call[r].path \in {"lookup", "catalogue", "healthz", "unknown", "misused"}
      /\ call[r].body \in {"undecodable", "garbled", "incomplete", "complete"}
  BY <1>1, CallsAssumption
<1>. QED
  BY <1>1, <1>2 DEF GatewayInv, Shared, Locals

\* An exception leaves a dependency or an endpoint.
LEMMA RaiseStep ==
    ASSUME GatewayInv, NEW r \in Requests, stage[r] \in Inside \cup {"token"},
           NEW e \in {0, 400, 401, 404, 500}, Raise(r, e), Deserves(r, e),
           UNCHANGED <<startup, call, engine, late>>, logged' \in {logged, logged \cup {r}}
    PROVE  Kept(r)
<1>1. /\ pc = "serving" /\ local[r] \in Locals /\ Shared /\ Flight(r)
      /\ stage[r] \in Working
  BY UnderwayMeansServing DEF Inside, Working
<1>2. PICK l \in Locals : l = local[r]
  BY <1>1
<1>. DEFINE mine == [l EXCEPT !.error = e]
<1>3. mine \in Locals /\ mine.error = e /\ mine.config = l.config /\ mine.engine = l.engine
  BY DEF Locals
<1>4. local' = [local EXCEPT ![r] = mine] /\ Passes(r, "raised")
  BY <1>1, <1>2 DEF Raise, Goto, Passes, Shared
<1>. HIDE DEF mine
<1>5. /\ pc' = pc /\ cache' = cache /\ call' = call /\ local'[r] = mine /\ stage'[r] = "raised"
  BY <1>1, <1>4 DEF startup, process, Passes, Shared
<1>6. Underway(r)'
  BY <1>1, <1>2, <1>3, <1>5 DEF Flight, Underway, Inside
<1>7. Raised(r)'
  BY <1>3, <1>5 DEF Raised, Deserves
<1>8. engine' = engine /\ engine' \in Requests \cup {Empty}
  BY <1>1 DEF Shared
<1>9. "raised" \in Working
  BY DEF Working
<1>10. GatewayInv' /\ UNCHANGED Contract!contract
  BY <1>1, <1>3, <1>4, <1>6, <1>7, <1>8, <1>9, PassesStep, ZenonT(60)
<1>. QED
  BY <1>10 DEF Kept

LEMMA RouteStep ==
    ASSUME GatewayInv, NEW r \in Requests, Route(r)
    PROVE  Kept(r)
<1>1. stage[r] = "routing" /\ stage[r] \in Working
  BY DEF Route, Working
<1>2. UNCHANGED <<startup, call, engine, late, logged>>
  BY DEF Route
<1>3. CASE call[r].path = "unknown" /\ Respond(r, Contract!Framework(404))
  <2>1. Contract!Framework(404) \in Contract!Outcomes(deployed, call[r])
    BY <1>3 DEF Contract!Outcomes, Contract!Unreadable
  <2>2. Answers(r, Contract!Framework(404), "done") /\ Contract!Framework(404) \in Responses
    BY <1>2, <1>3 DEF Respond, Answers, Responses
  <2>. QED
    BY <1>1, <2>1, <2>2, UnderwayMeansServing, AnswersStep DEF Kept
<1>4. CASE call[r].path = "misused" /\ Respond(r, Contract!Framework(405))
  <2>1. Contract!Framework(405) \in Contract!Outcomes(deployed, call[r])
    BY <1>4 DEF Contract!Outcomes, Contract!Unreadable
  <2>2. Answers(r, Contract!Framework(405), "done") /\ Contract!Framework(405) \in Responses
    BY <1>2, <1>4 DEF Respond, Answers, Responses
  <2>. QED
    BY <1>1, <2>1, <2>2, UnderwayMeansServing, AnswersStep DEF Kept
<1>5. CASE call[r].path = "healthz" /\ Respond(r, Contract!Answered(Empty))
  <2>1. Contract!Answered(Empty) \in Contract!Outcomes(deployed, call[r])
    BY <1>5 DEF Contract!Outcomes, Contract!Unreadable
  <2>2. Answers(r, Contract!Answered(Empty), "done") /\ Contract!Answered(Empty) \in Responses
    BY <1>2, <1>5 DEF Respond, Answers, Responses
  <2>. QED
    BY <1>1, <2>1, <2>2, UnderwayMeansServing, AnswersStep DEF Kept
<1>6. CASE call[r].path = "lookup" /\ call[r].body = "garbled" /\ Respond(r, Contract!Framework(422))
  <2>1. Contract!Framework(422) \in Contract!Outcomes(deployed, call[r])
    BY <1>6 DEF Contract!Outcomes, Contract!Unreadable
  <2>2. Answers(r, Contract!Framework(422), "done") /\ Contract!Framework(422) \in Responses
    BY <1>2, <1>6 DEF Respond, Answers, Responses
  <2>. QED
    BY <1>1, <2>1, <2>2, UnderwayMeansServing, AnswersStep DEF Kept
<1>7. CASE call[r].path = "lookup" /\ call[r].body = "undecodable" /\ Respond(r, Contract!Framework(400))
  <2>1. Contract!Framework(400) \in Contract!Outcomes(deployed, call[r])
    BY <1>7 DEF Contract!Outcomes, Contract!Unreadable
  <2>2. Answers(r, Contract!Framework(400), "done") /\ Contract!Framework(400) \in Responses
    BY <1>2, <1>7 DEF Respond, Answers, Responses
  <2>. QED
    BY <1>1, <2>1, <2>2, UnderwayMeansServing, AnswersStep DEF Kept
<1>8. CASE /\ \/ call[r].path = "catalogue"
              \/ call[r].path = "lookup" /\ call[r].body \in {"incomplete", "complete"}
           /\ Goto(r, "token") /\ UNCHANGED local
  <2>1. Passes(r, "token") /\ local' = [local EXCEPT ![r] = local[r]]
    BY <1>2, <1>8 DEF Passes, Goto, GatewayInv, Shared
  <2>2. pc' = pc /\ cache' = cache /\ stage'[r] = "token" /\ call' = call /\ local' = local
    BY <1>2, <1>8, <2>1 DEF Passes, startup, process, GatewayInv, Shared
  <2>3. call[r].path \in {"lookup", "catalogue"} /\ ~ Contract!Unreadable(call[r])
    BY <1>8 DEF Contract!Unreadable
  <2>4. Underway(r)' /\ Raised(r)'
    BY <2>2, <2>3 DEF GatewayInv, Flight, Underway, Raised, Inside
  <2>5. "token" \in Working
    BY DEF Working
  <2>. QED
    BY <1>1, <1>2, <2>1, <2>4, <2>5, UnderwayMeansServing, PassesStep DEF Kept, Shared
<1>. QED
  BY <1>3, <1>4, <1>5, <1>6, <1>7, <1>8 DEF Route, Refuse

LEMMA TokenStep ==
    ASSUME GatewayInv, NEW r \in Requests, require_token(r)
    PROVE  Kept(r)
<1>1. /\ stage[r] = "token" /\ stage[r] \in Working
      /\ UNCHANGED <<startup, call, engine, late, logged>>
  BY DEF require_token, Working
<1>2. /\ StartupInv /\ pc = "serving" /\ local[r] \in Locals /\ Shared /\ Flight(r)
      /\ get_settings = cache.settings /\ cache.settings.token # ""
  BY <1>1, UnderwayMeansServing, ServingReadsTheCaches DEF Usable
<1>3. pc' = pc /\ cache' = cache /\ call' = call
  BY <1>1 DEF startup, process
<1>4. CASE call[r].token = cache.settings.token
  <2>1. Goto(r, "config") /\ UNCHANGED local
    BY <1>2, <1>4 DEF require_token
  <2>2. Passes(r, "config") /\ local' = [local EXCEPT ![r] = local[r]] /\ stage'[r] = "config"
    BY <1>1, <1>2, <2>1 DEF Passes, Goto, Shared
  <2>3. Underway(r)' /\ Raised(r)'
    BY <1>1, <1>2, <1>3, <1>4, <2>1, <2>2 DEF Flight, Underway, Raised, Inside
  <2>. QED
    BY <1>1, <1>2, <2>2, <2>3, PassesStep DEF Kept, Working, Shared
<1>5. CASE call[r].token # cache.settings.token
  <2>1. Raise(r, 401)
    BY <1>2, <1>5 DEF require_token
  <2>2. Deserves(r, 401)
    BY <1>5 DEF Deserves
  <2>. QED
    BY <1>1, <2>1, <2>2, RaiseStep DEF Inside
<1>. QED
  BY <1>4, <1>5

LEMMA ConfigStep ==
    ASSUME GatewayInv, NEW r \in Requests, ResolveConfig(r)
    PROVE  Kept(r)
<1>1. /\ stage[r] = "config" /\ stage[r] \in Working
      /\ UNCHANGED <<startup, call, engine, late, logged>>
  BY DEF ResolveConfig, Working
<1>2. /\ StartupInv /\ pc = "serving" /\ local[r] \in Locals /\ Shared /\ Flight(r)
      /\ get_provider_config = cache.config /\ cache.config \in Configs
      /\ call[r].path \in {"lookup", "catalogue"} /\ call[r].token = cache.settings.token
  BY <1>1, UnderwayMeansServing, ServingReadsTheCaches DEF Flight, Underway, Inside
<1>3. pc' = pc /\ cache' = cache /\ call' = call
  BY <1>1 DEF startup, process
<1>. DEFINE mine == [local[r] EXCEPT !.config = cache.config]
            next == IF call[r].path = "lookup" THEN "repository" ELSE "parameters"
<1>4. Passes(r, next) /\ local' = [local EXCEPT ![r] = mine] /\ stage'[r] = next
  BY <1>1, <1>2 DEF Passes, Goto, ResolveConfig, Shared, Locals
<1>5. mine \in Locals /\ mine.config = cache.config
  BY <1>2 DEF Locals
<1>6. local'[r] = mine
  BY <1>2, <1>4 DEF Shared
<1>. HIDE DEF mine
<1>7. Underway(r)' /\ Raised(r)'
  BY <1>1, <1>2, <1>3, <1>4, <1>5, <1>6 DEF Flight, Underway, Raised, Inside
<1>8. next \in Working /\ stage[r] \in Working
  BY <1>1 DEF Working
<1>. HIDE DEF next
<1>. QED
  BY <1>1, <1>2, <1>4, <1>5, <1>7, <1>8, PassesStep DEF Kept, Shared

LEMMA RepositoryStep ==
    ASSUME GatewayInv, NEW r \in Requests, get_repository(r)
    PROVE  Kept(r)
<1>1. /\ stage[r] = "repository" /\ stage[r] \in Working
      /\ UNCHANGED <<startup, call, engine, late, logged>>
  BY DEF get_repository, Working
<1>2. /\ StartupInv /\ pc = "serving" /\ local[r] \in Locals /\ Shared /\ Flight(r)
  BY <1>1, UnderwayMeansServing
<1>3. pc' = pc /\ cache' = cache /\ call' = call
  BY <1>1 DEF startup, process
<1>4. CASE engine # Empty
  <2>1. PICK l \in Locals : l = local[r]
    BY <1>2
  <2>2. PICK o \in Requests : o = engine
    BY <1>2, <1>4 DEF Shared
  <2>. DEFINE mine == [l EXCEPT !.engine = o]
  <2>3. mine \in Locals /\ mine.config = l.config /\ mine.engine = o
    BY DEF Locals
  <2>4. Passes(r, "parameters") /\ local' = [local EXCEPT ![r] = mine]
    BY <1>1, <1>2, <1>4, <2>1, <2>2 DEF get_repository, Goto, Passes, Shared
  <2>. HIDE DEF mine
  <2>5. local'[r] = mine /\ stage'[r] = "parameters"
    BY <1>2, <2>4 DEF Passes, Shared
  <2>6. Underway(r)' /\ Raised(r)'
    BY <1>1, <1>2, <1>3, <1>4, <2>1, <2>3, <2>5 DEF Flight, Underway, Raised, Inside, Shared
  <2>. QED
    BY <1>1, <1>2, <2>3, <2>4, <2>6, PassesStep DEF Kept, Working, Shared
<1>5. CASE engine = Empty
  <2>1. Passes(r, "building") /\ local' = [local EXCEPT ![r] = local[r]]
    BY <1>1, <1>2, <1>5 DEF get_repository, Goto, Passes, Shared
  <2>2. local'[r] = local[r] /\ stage'[r] = "building"
    BY <1>2, <2>1 DEF Passes, Shared
  <2>3. Underway(r)' /\ Raised(r)'
    BY <1>1, <1>2, <1>3, <2>2 DEF Flight, Underway, Raised, Inside
  <2>. QED
    BY <1>1, <1>2, <2>1, <2>3, PassesStep DEF Kept, Working, Shared
<1>. QED
  BY <1>4, <1>5

LEMMA EngineStep ==
    ASSUME GatewayInv, NEW r \in Requests, BuildEngine(r)
    PROVE  Kept(r)
<1>1. /\ stage[r] = "building" /\ stage[r] \in Working
      /\ UNCHANGED <<startup, call, late, logged>>
  BY DEF BuildEngine, Working
<1>2. /\ StartupInv /\ pc = "serving" /\ local[r] \in Locals /\ Shared /\ Flight(r)
      /\ get_settings = cache.settings
  BY <1>1, UnderwayMeansServing, ServingReadsTheCaches
<1>3. pc' = pc /\ cache' = cache /\ call' = call
  BY <1>1 DEF startup, process
<1>4. call[r].path = "lookup" /\ call[r].token = cache.settings.token
  BY <1>1, <1>2 DEF Flight, Underway, Inside
<1>5. CASE cache.settings.url = "usable"
  <2>1. PICK l \in Locals : l = local[r]
    BY <1>2
  <2>. DEFINE mine == [l EXCEPT !.engine = r]
  <2>2. mine \in Locals /\ mine.config = l.config
    BY DEF Locals
  <2>3. /\ Passes(r, "parameters") /\ local' = [local EXCEPT ![r] = mine]
        /\ engine' \in Requests \cup {Empty}
    BY <1>1, <1>2, <1>5, <2>1 DEF BuildEngine, Goto, Passes, Shared
  <2>. HIDE DEF mine
  <2>4. local'[r] = mine /\ stage'[r] = "parameters"
    BY <1>2, <2>3 DEF Passes, Shared
  <2>5. Underway(r)' /\ Raised(r)'
    BY <1>1, <1>2, <1>3, <1>4, <1>5, <2>1, <2>2, <2>4 DEF Flight, Underway, Raised, Inside
  <2>. QED
    BY <1>1, <1>5, <2>2, <2>3, <2>5, PassesStep DEF Kept, Working
<1>6. CASE cache.settings.url = "unparsable"
  <2>1. Raise(r, 0) /\ UNCHANGED engine
    BY <1>2, <1>6 DEF BuildEngine
  <2>2. Deserves(r, 0)
    BY <1>4, <1>6 DEF Deserves
  <2>. QED
    BY <1>1, <2>1, <2>2, RaiseStep DEF Inside
<1>. QED
  BY <1>2, <1>5, <1>6 DEF BuildEngine

LEMMA ParametersStep ==
    ASSUME GatewayInv, NEW r \in Requests, Parameters(r)
    PROVE  Kept(r)
<1>1. /\ stage[r] = "parameters" /\ stage[r] \in Working
      /\ UNCHANGED <<startup, call, engine, late, logged>>
  BY DEF Parameters, Working
<1>2. /\ pc = "serving" /\ local[r] \in Locals /\ Shared /\ Flight(r) /\ StartupInv
      /\ deployed = [settings |-> cache.settings, config |-> cache.config]
  BY <1>1, UnderwayMeansServing, ServingReadsTheCaches
<1>3. /\ call[r].path \in {"lookup", "catalogue"} /\ call[r].token = cache.settings.token
      /\ call[r].path = "lookup" => cache.settings.url = "usable"
  BY <1>1, <1>2 DEF Flight, Underway, Inside
<1>4. CASE call[r].body = "incomplete" /\ Respond(r, Contract!Framework(422))
  <2>1. Contract!Framework(422) \in Contract!Outcomes(deployed, call[r])
    BY <1>2, <1>3, <1>4 DEF Contract!Outcomes, Contract!Unreadable
  <2>2. Answers(r, Contract!Framework(422), "done") /\ Contract!Framework(422) \in Responses
    BY <1>1, <1>4 DEF Respond, Answers, Responses
  <2>. QED
    BY <1>1, <2>1, <2>2, UnderwayMeansServing, AnswersStep DEF Kept
<1>5. CASE call[r].body # "incomplete" /\ Goto(r, "endpoint") /\ UNCHANGED local
  <2>1. Passes(r, "endpoint") /\ local' = [local EXCEPT ![r] = local[r]]
    BY <1>1, <1>2, <1>5 DEF Passes, Goto, Shared
  <2>2. pc' = pc /\ cache' = cache /\ call' = call /\ local' = local /\ stage'[r] = "endpoint"
    BY <1>1, <1>2, <1>5, <2>1 DEF startup, process, Passes, Shared
  <2>3. Underway(r)' /\ Raised(r)'
    BY <1>1, <1>2, <1>5, <2>2 DEF Flight, Underway, Raised, Inside
  <2>. QED
    BY <1>1, <1>2, <2>1, <2>3, PassesStep DEF Kept, Working, Shared
<1>. QED
  BY <1>4, <1>5 DEF Parameters

LEMMA EndpointStep ==
    ASSUME GatewayInv, NEW r \in Requests, Endpoint(r)
    PROVE  Kept(r)
<1>1. /\ stage[r] = "endpoint" /\ stage[r] \in Working
      /\ UNCHANGED <<startup, call, engine, late>>
  BY DEF Endpoint, Working
<1>2. /\ pc = "serving" /\ local[r] \in Locals /\ Shared /\ Flight(r) /\ StartupInv
      /\ deployed = [settings |-> cache.settings, config |-> cache.config]
      /\ cache.config \in Configs
  BY <1>1, UnderwayMeansServing, ServingReadsTheCaches
<1>3. /\ call[r].path \in {"lookup", "catalogue"} /\ call[r].token = cache.settings.token
      /\ call[r].path = "lookup" => cache.settings.url = "usable"
      /\ call[r].body # "incomplete" /\ ~ Contract!Unreadable(call[r])
      /\ local[r].config = cache.config
  BY <1>1, <1>2 DEF Flight, Underway, Inside
<1>4. CASE Respond(r, Contract!Answered(local[r].config)) /\ UNCHANGED logged
  <2>1. Contract!Answered(cache.config) \in Contract!Outcomes(deployed, call[r])
    BY <1>2, <1>3 DEF Contract!Outcomes, Contract!Endings
  <2>2. /\ Answers(r, Contract!Answered(cache.config), "done")
        /\ Contract!Answered(cache.config) \in Responses
    BY <1>1, <1>2, <1>3, <1>4 DEF Respond, Answers, Responses
  <2>. QED
    BY <1>1, <2>1, <2>2, UnderwayMeansServing, AnswersStep DEF Kept
<1>5. CASE call[r].path = "lookup" /\ LookupFails(r)
  <2>1. PICK e \in {0, 400, 404, 500} : Raise(r, e) /\ logged' \in {logged, logged \cup {r}}
    BY <1>5 DEF LookupFails
  <2>2. Deserves(r, e)
    BY <1>3, <1>5 DEF Deserves
  <2>. QED
    BY <1>1, <2>1, <2>2, RaiseStep DEF Inside
<1>6. CASE call[r].path = "catalogue" /\ Raise(r, 404) /\ UNCHANGED logged
  <2>1. Deserves(r, 404)
    BY <1>3, <1>6 DEF Deserves
  <2>. QED
    BY <1>1, <1>6, <2>1, RaiseStep DEF Inside
<1>. QED
  BY <1>4, <1>5, <1>6 DEF Endpoint

LEMMA HandlerStep ==
    ASSUME GatewayInv, NEW r \in Requests, HandleProblem(r) \/ HandleUnexpected(r)
    PROVE  Kept(r)
<1>1. /\ stage[r] = "raised" /\ stage[r] \in Working
      /\ UNCHANGED <<startup, call, engine, late, logged>>
  BY DEF HandleProblem, HandleUnexpected, Working
<1>2. /\ pc = "serving" /\ local[r] \in Locals /\ Shared /\ Flight(r) /\ StartupInv
      /\ deployed = [settings |-> cache.settings, config |-> cache.config]
  BY <1>1, UnderwayMeansServing, ServingReadsTheCaches
<1>3. /\ call[r].path \in {"lookup", "catalogue"} /\ ~ Contract!Unreadable(call[r])
      /\ Deserves(r, local[r].error)
  BY <1>1, <1>2 DEF Flight, Underway, Raised
<1>. DEFINE status == IF local[r].error = 0 THEN 500 ELSE local[r].error
<1>4. /\ \E rest \in {"reraised", "done"} : Answers(r, Contract!Problem(status), rest)
      /\ status \in {400, 401, 404, 500}
  BY <1>1, <1>2 DEF HandleProblem, HandleUnexpected, Respond, Answers, Locals
<1>5. Contract!Problem(status) \in Responses
  BY <1>4 DEF Responses
<1>6. Contract!Problem(status) \in Contract!Outcomes(deployed, call[r])
  BY <1>2, <1>3 DEF Deserves, Contract!Outcomes, Contract!Endings
<1>. HIDE DEF status
<1>. QED
  BY <1>1, <1>4, <1>5, <1>6, UnderwayMeansServing, AnswersStep DEF Kept

\* The server logs for a request that has been answered.
LEMMA LogStep ==
    ASSUME GatewayInv, NEW r \in Requests, LogException(r)
    PROVE  Kept(r)
<1>1. /\ stage[r] = "reraised" /\ UNCHANGED <<startup, call, response, local, engine, late>>
      /\ stage' = [stage EXCEPT ![r] = "done"] /\ logged' = logged \cup {r}
  BY DEF LogException
<1>2. Shared /\ Flight(r) /\ pc' = pc /\ cache' = cache
  BY <1>1 DEF GatewayInv, startup, process
<1>3. stage'[r] = "done" /\ stage' \in [Requests -> Stages]
  BY <1>1, <1>2 DEF Shared, Stages
<1>4. Shared'
  BY <1>1, <1>2, <1>3 DEF Shared
<1>5. local[r] = NoLocal /\ response[r] # Contract!Open
  BY <1>1, <1>2 DEF Flight, Typed, AtRest, Working
<1>6. Typed(r)'
  BY <1>1, <1>2, <1>3, <1>5 DEF Flight, Typed, Stages, Working, AtRest
<1>7. Underway(r)' /\ Raised(r)'
  BY <1>1, <1>3, <1>5 DEF Underway, Raised, Inside, NoLocal
<1>8. Moves(r)
  BY <1>1, <1>2 DEF Moves, Shared
<1>. QED
  BY <1>1, <1>4, <1>6, <1>7, <1>8, MovesKeepsGatewayInv, SilentStep DEF Kept, Flight

LEMMA RequestStep ==
    ASSUME GatewayInv, NEW r \in Requests, Step(r)
    PROVE  Kept(r)
  BY RouteStep, TokenStep, ConfigStep, RepositoryStep, EngineStep, ParametersStep, EndpointStep,
     HandlerStep, LogStep DEF Step

LEMMA ReceiveStep ==
    ASSUME GatewayInv, NEW r \in Requests, NEW c \in Calls, Receive(r, c)
    PROVE  GatewayInv' /\ Contract!Receive(r, c)
<1>1. /\ pc = "serving" /\ stage[r] = "idle" /\ UNCHANGED <<startup, local, engine, logged>>
      /\ stage' = [stage EXCEPT ![r] = "routing"] /\ call' = [call EXCEPT ![r] = c]
      /\ response' = [response EXCEPT ![r] = Contract!Open]
  BY DEF Receive
<1>2. StartupInv /\ Shared /\ Flight(r) /\ deployed # Empty
  BY <1>1, ServingReadsTheCaches DEF GatewayInv
<1>3. pc' = pc /\ cache' = cache /\ deployed' = deployed
  BY <1>1 DEF startup, process, deployed
<1>4. response[r] = Contract!Unsent /\ local[r] = NoLocal
  BY <1>1, <1>2 DEF Flight, Typed, AtRest
<1>5. /\ stage'[r] = "routing" /\ call'[r] = c /\ response'[r] = Contract!Open
      /\ local'[r] = NoLocal
  BY <1>1, <1>2, <1>4 DEF Shared
<1>6. Contract!Receive(r, c)
  BY <1>1, <1>2, <1>3, <1>4 DEF Contract!Receive
<1>7. /\ stage' \in [Requests -> Stages] /\ call' \in [Requests -> Calls \cup {Contract!NoCall}]
      /\ response' = [q \in Requests |-> response'[q]] /\ late' \subseteq Requests
  BY <1>1, <1>2 DEF Receive, Shared, Stages, Working
<1>8. Shared'
  BY <1>1, <1>2, <1>3, <1>7 DEF Shared
<1>9. Contract!Open.status = 1
  BY DEF Contract!Open
<1>10. Flight(r)'
  <2>1. Typed(r)'
    BY <1>1, <1>2, <1>3, <1>5, <1>9 DEF Flight, Typed, Stages, Working, AtRest, NoLocal
  <2>2. Underway(r)' /\ Raised(r)'
    BY <1>5 DEF Underway, Raised, Inside, NoLocal
  <2>. QED
    BY <2>1, <2>2 DEF Flight
<1>11. Moves(r)
  BY <1>1, <1>2 DEF Moves, Shared
<1>. QED
  BY <1>6, <1>8, <1>10, <1>11, MovesKeepsGatewayInv

\* Nothing of a request shows while nothing is served.
LEMMA IdleWhileDown ==
    ASSUME GatewayInv, pc # "serving", NEW q \in Requests
    PROVE  /\ stage[q] \in AtRest /\ response[q] # Contract!Open
           /\ local[q] = NoLocal /\ engine = Empty
<1>1. response[q] # Contract!Open /\ stage[q] \in AtRest /\ engine = Empty
  BY DEF GatewayInv, Flight, Typed, Shared, Stages, AtRest
<1>. QED
  BY <1>1 DEF GatewayInv, Flight, Typed

LEMMA FlightAtRest ==
    ASSUME NEW q \in Requests, Flight(q), stage[q] \in AtRest,
           call'[q] = call[q], stage'[q] = stage[q], response'[q] = response[q],
           local'[q] = local[q]
    PROVE  Flight(q)'
<1>1. local[q] = NoLocal /\ response[q] # Contract!Open
  BY DEF Flight, Typed, AtRest, Working
<1>2. Typed(q)'
  BY <1>1 DEF Flight, Typed
<1>3. Underway(q)' /\ Raised(q)'
  BY <1>1 DEF Underway, Raised, Inside, NoLocal, AtRest
<1>. QED
  BY <1>2, <1>3 DEF Flight

LEMMA OperateStep ==
    ASSUME GatewayInv, Operate
    PROVE  GatewayInv' /\ (UNCHANGED Contract!contract \/ Contract!Deploy)
<1>1. StartupInv'
  BY StepKeepsStartupInv DEF GatewayInv, Operate, Next
<1>2. UNCHANGED <<call, response, stage, local, engine, late, logged>>
  BY DEF Operate, gateway
<1>3. CASE pc = "serving"
  <2>1. pc' = pc /\ cache' = cache
    BY <1>3 DEF Operate, Edit, Launch, Start, install_observability, LoadSettings, LoadConfig,
                Serve, process
  <2>2. ASSUME NEW q \in Requests PROVE Flight(q)'
    BY <1>2, <2>1, <2>2, FlightStable DEF GatewayInv
  <2>3. Shared'
    BY <1>2, <2>1 DEF GatewayInv, Shared
  <2>4. UNCHANGED Contract!contract
    BY <1>2, <2>1 DEF Contract!contract, deployed
  <2>. QED
    BY <1>1, <2>2, <2>3, <2>4 DEF GatewayInv
<1>4. CASE pc # "serving"
  <2>1. ASSUME NEW q \in Requests PROVE Flight(q)'
    BY <1>2, <1>4, <2>1, IdleWhileDown, FlightAtRest DEF GatewayInv
  <2>2. engine = Empty \/ Requests = {}
    BY <1>4, IdleWhileDown
  <2>3. engine = Empty
    BY <1>4, <2>2 DEF GatewayInv, Shared
  <2>4. Shared'
    BY <1>2, <2>3 DEF GatewayInv, Shared
  <2>5. deployed = Empty
    BY <1>4 DEF deployed
  <2>6. CASE pc' = "serving"
    <3>1. deployed' \in Deployments
      BY <1>1, <2>6, ServingDeploys
    <3>. QED
      BY <1>1, <1>2, <2>1, <2>4, <2>5, <3>1 DEF GatewayInv, Contract!Deploy
  <2>7. CASE pc' # "serving"
    <3>1. deployed' = Empty
      BY <2>7 DEF deployed
    <3>. QED
      BY <1>1, <1>2, <2>1, <2>4, <2>5, <3>1 DEF GatewayInv, Contract!contract
  <2>. QED
    BY <2>6, <2>7
<1>. QED
  BY <1>3, <1>4

LEMMA KillStep ==
    ASSUME GatewayInv, KillAll
    PROVE  GatewayInv' /\ (UNCHANGED Contract!contract \/ Contract!Stop)
<1>1. Kill /\ pc' = "down" /\ cache' = cache
  BY DEF KillAll, Kill, End
<1>2. StartupInv'
  BY <1>1, KillKeepsStartupInv DEF GatewayInv
<1>3. deployed' = Empty
  BY <1>1 DEF deployed
<1>4. /\ NoLocal \in Locals /\ Contract!Lost.status = 2
      /\ Contract!Lost # Contract!Open /\ NoLocal.error = 0
      /\ NoLocal.config = Empty /\ NoLocal.engine = Empty
  BY ResponsesDiffer DEF NoLocal, Locals, Contract!Lost
<1>5. ASSUME NEW q \in Requests
      PROVE  /\ call'[q] = call[q] /\ local'[q] = NoLocal
             /\ stage'[q] = IF stage[q] \in {"idle", "done"} THEN stage[q] ELSE "cut"
             /\ response'[q] = IF response[q] = Contract!Open THEN Contract!Lost ELSE response[q]
  BY DEF KillAll
<1>6. Shared'
  BY <1>4 DEF KillAll, GatewayInv, Shared, Stages
<1>7. ASSUME NEW q \in Requests
      PROVE  Flight(q)'
  <2>1. Typed(q)'
    BY <1>1, <1>4, <1>5 DEF GatewayInv, Flight, Typed, Stages, Working, AtRest
  <2>2. Underway(q)' /\ Raised(q)'
    BY <1>4, <1>5 DEF Underway, Raised, Inside
  <2>. QED
    BY <2>1, <2>2 DEF Flight
<1>8. CASE pc = "serving"
  <2>1. deployed # Empty
    BY <1>8, ServingReadsTheCaches DEF GatewayInv
  <2>. QED
    BY <1>2, <1>3, <1>6, <1>7, <2>1 DEF GatewayInv, KillAll, Contract!Stop
<1>9. CASE pc # "serving"
  <2>1. deployed = Empty
    BY <1>9 DEF deployed
  <2>2. ASSUME NEW q \in Requests PROVE response'[q] = response[q]
    BY <1>5, <1>9, <2>2, IdleWhileDown
  <2>3. response' = response
    BY <2>2 DEF KillAll, GatewayInv, Shared
  <2>. QED
    BY <1>2, <1>3, <1>6, <1>7, <2>1, <2>3 DEF GatewayInv, KillAll, Contract!contract
<1>. QED
  BY <1>8, <1>9

LEMMA InitGatewayInv == GatewayInit => GatewayInv /\ Contract!Init
<1>. SUFFICES ASSUME GatewayInit PROVE GatewayInv /\ Contract!Init
  OBVIOUS
<1>1. StartupInv /\ pc = "down" /\ deployed = Empty
  BY InitStartupInv DEF GatewayInit, Init, deployed
<1>2. Contract!Init
  BY <1>1 DEF GatewayInit, Contract!Init
<1>3. /\ NoLocal \in Locals /\ NoLocal.error = 0 /\ NoLocal.config = Empty
      /\ NoLocal.engine = Empty /\ Contract!Unsent.status = 0
  BY DEF NoLocal, Locals, Contract!Unsent
<1>4. Shared
  BY <1>3 DEF GatewayInit, Shared, Stages
<1>5. ASSUME NEW q \in Requests
      PROVE  Flight(q)
  <2>1. stage[q] = "idle" /\ local[q] = NoLocal /\ response[q] = Contract!Unsent
        /\ call[q] = Contract!NoCall
    BY DEF GatewayInit
  <2>2. Typed(q)
    BY <1>3, <2>1, ResponsesDiffer DEF Typed, Stages, Working, AtRest
  <2>3. Underway(q) /\ Raised(q)
    BY <1>3, <2>1 DEF Underway, Raised, Inside
  <2>. QED
    BY <2>2, <2>3 DEF Flight
<1>. QED
  BY <1>1, <1>2, <1>4, <1>5 DEF GatewayInv

LEMMA StepKeepsGatewayInv ==
    GatewayInv /\ [GatewayNext]_vars => GatewayInv' /\ [Contract!Next]_(Contract!contract)
<1>. SUFFICES ASSUME GatewayInv, [GatewayNext]_vars
              PROVE  GatewayInv' /\ [Contract!Next]_(Contract!contract)
  OBVIOUS
<1>1. CASE UNCHANGED vars
  <2>1. UNCHANGED <<startup, pc, cache, call, stage, response, local, engine, late, logged>>
    BY <1>1 DEF vars, startup, process, gateway
  <2>2. StartupInv'
    BY <2>1, StepKeepsStartupInv DEF GatewayInv
  <2>3. Shared'
    BY <2>1 DEF GatewayInv, Shared
  <2>4. ASSUME NEW q \in Requests PROVE Flight(q)'
    BY <2>1, <2>4, FlightStable DEF GatewayInv
  <2>. QED
    BY <2>1, <2>2, <2>3, <2>4, SilentStep DEF GatewayInv
<1>2. CASE Operate
  BY <1>2, OperateStep DEF Contract!Next
<1>3. CASE KillAll
  BY <1>3, KillStep DEF Contract!Next
<1>4. ASSUME NEW r \in Requests, Step(r)
      PROVE  GatewayInv' /\ [Contract!Next]_(Contract!contract)
  BY <1>4, RequestStep DEF Kept, Contract!Next
<1>5. ASSUME NEW r \in Requests, NEW c \in Calls, Receive(r, c)
      PROVE  GatewayInv' /\ [Contract!Next]_(Contract!contract)
  BY <1>5, ReceiveStep DEF Contract!Next
<1>. QED
  BY <1>1, <1>2, <1>3, <1>4, <1>5 DEF GatewayNext

LEMMA GatewayAlways == GatewaySpec => []GatewayInv
  BY InitGatewayInv, StepKeepsGatewayInv, PTL DEF GatewaySpec

\* Type correctness of the calls and of the process they are made of.
THEOREM GatewayTypes == GatewaySpec => []GatewayTypeOK
<1>1. GatewayInv => GatewayTypeOK
  BY DEF GatewayInv, StartupInv, Shared, Flight, Typed, GatewayTypeOK, Locals
<1>. QED
  BY <1>1, GatewayAlways, PTL

\* Without the token the process read at startup, no request ever holds the
\* configuration or an engine, nor builds one, on any path.
THEOREM OnlyTheTokenOpens == GatewaySpec => []OnlyTheTokenOpensTheSeams
<1>1. GatewayInv => OnlyTheTokenOpensTheSeams
  <2>1. SUFFICES ASSUME GatewayInv, NEW r \in Requests,
                        local[r].config # Empty \/ local[r].engine # Empty \/ stage[r] = "building"
                 PROVE  call[r].token = read.settings.token
    BY DEF OnlyTheTokenOpensTheSeams
  <2>2. call[r].token = cache.settings.token
    BY <2>1 DEF GatewayInv, Flight, Underway, Inside
  <2>3. pc = "serving"
    BY <2>1, IdleWhileDown DEF NoLocal, AtRest
  <2>. QED
    BY <2>1, <2>2, <2>3 DEF GatewayInv, StartupInv, Held
<1>. QED
  BY <1>1, GatewayAlways, PTL

\* The gateway implements the contract: every behaviour of any number of
\* requests, through any edits and restarts, is one the contract allows.
THEOREM GatewayImplementsContract == GatewaySpec => KeepsTheContract
  BY InitGatewayInv, StepKeepsGatewayInv, PTL DEF GatewaySpec, KeepsTheContract, Contract!Spec

-----------------------------------------------------------------------------
\* A request that found an engine cached will never build another.
Sharing(r) ==
    /\ r \in late => /\ stage[r] \notin {"idle", "building"}
                     /\ stage[r] \in Working => engine # Empty
                     /\ local[r].engine \in {Empty, engine}
    /\ response[r] = Contract!Problem(500) => r \in logged \/ stage[r] \in {"reraised", "cut"}
    /\ stage[r] = "raised" /\ local[r].error = 500 => r \in logged

SharingInv == \A r \in Requests : Sharing(r)

\* The engine is replaced by nobody who finds one.
LEMMA SharingStable ==
    ASSUME NEW q \in Requests, Sharing(q), stage'[q] = stage[q], response'[q] = response[q],
           local'[q] = local[q], q \in late' => q \in late, logged \subseteq logged',
           engine' = engine \/ engine = Empty,
           local[q].engine = Empty \/ engine # Empty \/ q \notin late
    PROVE  Sharing(q)'
<1>1. q \in late' => /\ stage'[q] \notin {"idle", "building"}
                     /\ stage'[q] \in Working => engine' # Empty
                     /\ local'[q].engine \in {Empty, engine'}
  BY DEF Sharing
<1>2. /\ response'[q] = Contract!Problem(500) => q \in logged' \/ stage'[q] \in {"reraised", "cut"}
      /\ stage'[q] = "raised" /\ local'[q].error = 500 => q \in logged'
  BY DEF Sharing
<1>. QED
  BY <1>1, <1>2 DEF Sharing

\* A step of one request leaves the sharing of the others as it was.
LEMMA OthersShare ==
    ASSUME GatewayInv, SharingInv, NEW r \in Requests, Step(r) \/ \E c \in Calls : Receive(r, c),
           NEW q \in Requests, q # r
    PROVE  Sharing(q)'
<1>. DEFINE Apart == /\ stage'[q] = stage[q] /\ response'[q] = response[q]
                     /\ local'[q] = local[q] /\ (q \in late' => q \in late)
                     /\ logged \subseteq logged' /\ (engine' = engine \/ engine = Empty)
<1>1. Apart
  <2>1. CASE \E c \in Calls : Receive(r, c)
    BY <2>1 DEF Receive, GatewayInv, Shared
  <2>2. CASE Route(r) \/ Parameters(r) \/ HandleProblem(r) \/ HandleUnexpected(r) \/ LogException(r)
    BY <2>2 DEF Route, Refuse, Parameters, HandleProblem, HandleUnexpected, LogException, Goto,
                Respond, GatewayInv, Shared
  <2>3. CASE require_token(r) \/ ResolveConfig(r) \/ get_repository(r) \/ BuildEngine(r)
    BY <2>3 DEF require_token, ResolveConfig, get_repository, BuildEngine, Goto, Raise,
                GatewayInv, Shared
  <2>4. CASE Endpoint(r)
    BY <2>4 DEF Endpoint, LookupFails, Goto, Respond, Raise, GatewayInv, Shared
  <2>. QED
    BY <2>1, <2>2, <2>3, <2>4 DEF Step
<1>2. local[q].engine = Empty \/ engine # Empty \/ q \notin late
  BY DEF SharingInv, Sharing
<1>. QED
  BY <1>1, <1>2, SharingStable DEF SharingInv

LEMMA OwnShare ==
    ASSUME GatewayInv, SharingInv, NEW r \in Requests, Step(r) \/ \E c \in Calls : Receive(r, c)
    PROVE  Sharing(r)'
<1>1. Sharing(r) /\ Shared /\ Flight(r) /\ local[r] \in Locals
  BY DEF SharingInv, GatewayInv, Shared
<1>2. NoLocal.engine = Empty /\ NoLocal.error = 0
  BY DEF NoLocal
<1>3. /\ \A s \in {400, 401, 404} : Contract!Problem(s) # Contract!Problem(500)
      /\ \A s : Contract!Framework(s) # Contract!Problem(500)
      /\ \A c : Contract!Answered(c) # Contract!Problem(500)
      /\ Contract!Open # Contract!Problem(500)
  <2>1. /\ \A s : Contract!Problem(s).status = s /\ Contract!Problem(s).shape = "problem"
        /\ \A s : Contract!Framework(s).shape = "framework"
        /\ \A c : Contract!Answered(c).shape = "json"
        /\ Contract!Open.status = 1
    BY DEF Contract!Problem, Contract!Framework, Contract!Answered, Contract!Open
  <2>. QED
    BY <2>1
<1>4. CASE \E c \in Calls : Receive(r, c)
  BY <1>1, <1>2, <1>3, <1>4 DEF Receive, Sharing, Flight, Typed, Shared, Working, AtRest
<1>5. CASE Route(r) \/ Parameters(r)
  <2>1. /\ late' = late /\ logged' = logged /\ engine' = engine /\ stage[r] \in Working
    BY <1>5 DEF Route, Parameters, Working
  <2>2. CASE \E next \in {"token", "endpoint"} : Goto(r, next) /\ UNCHANGED local
    BY <1>1, <2>1, <2>2 DEF Goto, Sharing, Shared, Working
  <2>3. CASE \/ \E s \in {400, 404, 405, 422} : Respond(r, Contract!Framework(s))
             \/ Respond(r, Contract!Answered(Empty))
    BY <1>1, <1>2, <1>3, <2>1, <2>3 DEF Respond, Sharing, Shared, Working
  <2>. QED
    BY <1>5, <2>2, <2>3 DEF Route, Refuse, Parameters
<1>6. CASE require_token(r) \/ ResolveConfig(r)
  <2>1. /\ late' = late /\ logged' = logged /\ engine' = engine
        /\ stage[r] \in Working /\ response'[r] = response[r]
    BY <1>6 DEF require_token, ResolveConfig, Goto, Raise, Working
  <2>2. stage'[r] \in {"config", "raised", "repository", "parameters"}
    BY <1>1, <1>6 DEF require_token, ResolveConfig, Goto, Raise, Shared
  <2>3. /\ local'[r].engine = local[r].engine
        /\ stage'[r] = "raised" => local'[r].error = 401
    <3>1. CASE require_token(r)
      <4>1. PICK l \in Locals : l = local[r]
        BY <1>1
      <4>2. CASE Goto(r, "config") /\ UNCHANGED local
        BY <1>1, <4>2 DEF Goto, Shared
      <4>3. CASE Raise(r, 401)
        <5>1. local'[r] = [l EXCEPT !.error = 401]
          BY <1>1, <4>1, <4>3 DEF Raise, Shared
        <5>. QED
          BY <4>1, <5>1 DEF Locals
      <4>. QED
        BY <3>1, <4>2, <4>3 DEF require_token
    <3>2. CASE ResolveConfig(r)
      BY <1>1, <3>2 DEF ResolveConfig, Goto, Shared, Locals
    <3>. QED
      BY <1>6, <3>1, <3>2
  <2>. QED
    BY <1>1, <2>1, <2>2, <2>3 DEF Sharing, Flight, Typed, Working
<1>8. CASE get_repository(r)
  BY <1>1, <1>8 DEF get_repository, Goto, Sharing, Shared, Locals, Working
<1>9. CASE BuildEngine(r)
  <2>1. r \notin late /\ stage[r] = "building" /\ late' = late /\ logged' = logged
    BY <1>1, <1>9 DEF BuildEngine, Sharing
  <2>2. /\ response'[r] = response[r]
        /\ stage'[r] = "raised" => local'[r].error = 0
    BY <1>1, <1>9 DEF BuildEngine, Goto, Raise, Shared, Locals
  <2>. QED
    BY <1>1, <2>1, <2>2 DEF Sharing, Working
<1>10. CASE Endpoint(r)
  BY <1>1, <1>2, <1>3, <1>10 DEF Endpoint, LookupFails, Goto, Raise, Respond, Sharing, Shared, Locals, Working
<1>11. CASE HandleProblem(r) \/ HandleUnexpected(r)
  <2>1. local[r].error \in {0, 400, 401, 404, 500}
    BY <1>1 DEF Locals
  <2>2. PICK s \in {0, 400, 401, 404, 500} : s = local[r].error
    BY <2>1
  <2>. QED
    BY <1>1, <1>2, <1>3, <1>11, <2>2
    DEF HandleProblem, HandleUnexpected, Respond, Sharing, Shared, Working
<1>12. CASE LogException(r)
  BY <1>1, <1>12 DEF LogException, Sharing, Shared, Working
<1>. QED
  BY <1>4, <1>5, <1>6, <1>8, <1>9, <1>10, <1>11, <1>12 DEF Step

LEMMA StepKeepsSharing == GatewayInv /\ SharingInv /\ [GatewayNext]_vars => SharingInv'
<1>. SUFFICES ASSUME GatewayInv, SharingInv, [GatewayNext]_vars, NEW q \in Requests
              PROVE  Sharing(q)'
  BY DEF SharingInv
<1>1. CASE UNCHANGED gateway
  <2>1. UNCHANGED <<stage, response, local, engine, late, logged>>
    BY <1>1 DEF gateway
  <2>2. local[q].engine = Empty \/ engine # Empty \/ q \notin late
    BY DEF SharingInv, Sharing
  <2>. QED
    BY <2>1, <2>2, SharingStable DEF SharingInv
<1>2. CASE KillAll
  <2>1. /\ stage'[q] = IF stage[q] \in {"idle", "done"} THEN stage[q] ELSE "cut"
        /\ response'[q] = IF response[q] = Contract!Open THEN Contract!Lost ELSE response[q]
        /\ local'[q] = NoLocal /\ engine' = Empty /\ late' = late /\ logged' = logged
    BY <1>2 DEF KillAll
  <2>2. NoLocal.engine = Empty /\ Contract!Lost # Contract!Problem(500)
    <3>1. Contract!Lost.status = 2 /\ Contract!Problem(500).status = 500
      BY DEF Contract!Lost, Contract!Problem
    <3>. QED
      BY <3>1 DEF NoLocal
  <2>. QED
    BY <2>1, <2>2 DEF SharingInv, Sharing, Working
<1>3. CASE \E r \in Requests : Step(r) \/ \E c \in Calls : Receive(r, c)
  BY <1>3, OthersShare, OwnShare
<1>. QED
  BY <1>1, <1>2, <1>3 DEF GatewayNext, Operate, vars

LEMMA InitSharing == GatewayInit => SharingInv
<1>. SUFFICES ASSUME GatewayInit, NEW q \in Requests PROVE Sharing(q)
  BY DEF SharingInv
<1>1. Contract!Unsent # Contract!Problem(500)
  <2>1. Contract!Unsent.status = 0 /\ Contract!Problem(500).status = 500
    BY DEF Contract!Unsent, Contract!Problem
  <2>. QED
    BY <2>1
<1>. QED
  BY <1>1 DEF GatewayInit, Sharing

LEMMA SharingAlways == GatewaySpec => []SharingInv
  BY InitGatewayInv, InitSharing, StepKeepsGatewayInv, StepKeepsSharing, PTL DEF GatewaySpec

\* However many threads raced to build the first engine, every request that
\* came later uses the one in the cache.
THEOREM LateRequestsShare == GatewaySpec => []LateRequestsShareTheEngine
<1>1. GatewayInv /\ SharingInv => LateRequestsShareTheEngine
  BY DEF GatewayInv, Shared, SharingInv, Sharing, LateRequestsShareTheEngine
<1>. QED
  BY <1>1, GatewayAlways, SharingAlways, PTL

\* No 500 is answered without a record in the log.
THEOREM EveryFailureIsLogged == GatewaySpec => []FailuresAreLogged
<1>1. SharingInv => FailuresAreLogged
  BY DEF SharingInv, Sharing, FailuresAreLogged
<1>. QED
  BY <1>1, SharingAlways, PTL

=============================================================================
