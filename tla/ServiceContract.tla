-------------------------- MODULE ServiceContract ---------------------------
(***************************************************************************)
(* What the process promises its callers: it serves one deployment, usable *)
(* settings and an accepted configuration, from the moment it comes up     *)
(* until it stops, and whatever it answers is an answer of that deployment.*)
(***************************************************************************)
CONSTANTS
    Requests,      \* the calls of the behaviour
    Calls,         \* what may be called: [path, token, body]
    Deployments,   \* [settings, config], usable and accepted
    Nothing        \* no deployment, no configuration

VARIABLES
    deployed,      \* what is being served
    call,          \* the call of each request
    response       \* its response: unsent, open, lost, or final

contract == <<deployed, call, response>>

NoCall == [path |-> "-", token |-> "-", body |-> "-"]
Unsent == [status |-> 0]
Open   == [status |-> 1]
Lost   == [status |-> 2]     \* the process ended before it answered

\* The two body shapes of docs/reference.md, "Errors", and the answers.  The
\* configuration an answer was computed from is history.
Answered(config)  == [status |-> 200, shape |-> "json", config |-> config]
Problem(status)   == [status |-> status, shape |-> "problem", config |-> Nothing]
Framework(status) == [status |-> status, shape |-> "framework", config |-> Nothing]

\* How the handler of an endpoint may end.
Endings(d, path) ==
    {Answered(d.config)}
        \cup {Problem(s) : s \in IF path = "lookup" THEN {400, 404, 500} ELSE {404}}

\* A POST whose body is no JSON, or no text, is refused before anything else; the
\* body of a GET is not looked at.
Unreadable(c) == c.path = "lookup" /\ c.body \in {"garbled", "undecodable"}

\* The responses a deployment may give to a call.
Outcomes(d, c) ==
    CASE c.path = "unknown" -> {Framework(404)}
      [] c.path = "misused" -> {Framework(405)}
      [] c.path = "healthz" -> {Answered(Nothing)}
      [] Unreadable(c)      -> {Framework(IF c.body = "garbled" THEN 422 ELSE 400)}
      [] c.path \in {"lookup", "catalogue"} /\ ~ Unreadable(c) ->
           CASE c.token # d.settings.token -> {Problem(401)}
             [] c.token = d.settings.token ->
                  CASE c.path = "lookup" /\ d.settings.url = "unparsable" -> {Problem(500)}
                    [] OTHER -> IF c.body = "incomplete" THEN {Framework(422)}
                                ELSE Endings(d, c.path)

Init ==
    /\ deployed = Nothing
    /\ call = [r \in Requests |-> NoCall]
    /\ response = [r \in Requests |-> Unsent]

Deploy ==
    /\ deployed = Nothing
    /\ deployed' \in Deployments
    /\ UNCHANGED <<call, response>>

Stop ==
    /\ deployed # Nothing
    /\ deployed' = Nothing
    /\ response' = [r \in Requests |-> IF response[r] = Open THEN Lost ELSE response[r]]
    /\ UNCHANGED call

Receive(r, c) ==
    /\ deployed # Nothing
    /\ response[r] = Unsent
    /\ response' = [response EXCEPT ![r] = Open]
    /\ call' = [call EXCEPT ![r] = c]
    /\ UNCHANGED deployed

Answer(r) ==
    /\ response[r] = Open
    /\ \E resp \in Outcomes(deployed, call[r]) : response' = [response EXCEPT ![r] = resp]
    /\ UNCHANGED <<deployed, call>>

Next ==
    \/ Deploy
    \/ Stop
    \/ \E r \in Requests : Answer(r) \/ \E c \in Calls : Receive(r, c)

Spec == Init /\ [][Next]_contract

=============================================================================
