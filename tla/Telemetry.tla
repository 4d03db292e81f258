----------------------------- MODULE Telemetry ------------------------------
(***************************************************************************)
(* What leaves the process towards an error tracker and a trace collector  *)
(* (observability.py), while create_app starts and while requests that     *)
(* share one interpreter are answered.                                     *)
(*                                                                         *)
(* A text, an attribute or a tag is the set of the data one could read in  *)
(* it; a datum is [kind, of].  What the two libraries capture is modelled  *)
(* from the options the source gives them and is marked external.          *)
(***************************************************************************)
EXTENDS FiniteSets, Sequences

CONSTANTS
    Requests,
    Calls,     \* [path, person, complete]
    Nobody     \* neither a person nor a request

ASSUME NobodyAssumption ==
    /\ Nobody \notin Requests
    /\ \A c \in Calls : /\ c.path \in {"lookup", "catalogue"}
                        /\ c.person # Nobody /\ c.complete \in BOOLEAN

VARIABLES
    settings,    \* ObservabilitySettings: [dsn, otlp, salt]
    phase,       \* of create_app: "installing", "loading", "serving", "refused"
    reporting,   \* sentry_sdk.get_client().is_active()
    tracing,     \* the application is instrumented
    ambient,     \* the tags of the scope nobody forks
    scope,       \* the tags of each request's isolation scope
    call,        \* what each request asks
    stage,       \* how far it has got
    attributes,  \* what is recorded of its arguments
    ended,       \* with which status it ended, 0 before
    exported     \* everything that has left: [to, about, data]

vars == <<settings, phase, reporting, tracing, ambient, scope, call, stage, attributes, ended,
          exported>>

Datum(kind, of)  == [kind |-> kind, of |-> of]
Plain(kind)      == Datum(kind, Nobody)
Pseudonym(p)     == Datum("pseudonym", p)
Uid(p)           == Datum("person_uid", p)
Secrets          == {Plain("api_token"), Plain("database_password")}

Settings == [dsn : {"unset", "malformed", "valid"}, otlp : BOOLEAN,
             salt : {"unset", "empty", "set"}]

-----------------------------------------------------------------------------
(* observability.py *)

\* Mutant: an empty salt is a key like any other, and whoever has the
\* directory undoes the digest.
pseudonym_Unkeyed(person) ==
    CASE settings.salt = "set" -> {Pseudonym(person)}
      [] settings.salt = "empty" -> {Uid(person)}
      [] settings.salt = "unset" -> {}

pseudonym(person) == IF settings.salt = "set" THEN {Pseudonym(person)} ELSE {}

sentry_options == [locals |-> FALSE, body |-> "never", pii |-> FALSE]

\* hide_parameters=True of get_repository: what a database error quotes.
StatementError(person) == {Plain("statement")}

\* request_attributes_mapper is given the solved arguments of the endpoint,
\* [name, shape, data] each, or what Pydantic said of them.
Arguments(c) ==
    {[name |-> "config", shape |-> "object", data |-> {Plain("configuration")}]}
    \cup CASE c.path = "catalogue" /\ c.complete ->
                {[name |-> "view_type", shape |-> "str", data |-> {Plain("view")}]}
           [] c.path = "lookup" ->
                {[name |-> "repository", shape |-> "object", data |-> {Plain("repository")}]}
                \cup IF c.complete
                     THEN {[name |-> "request", shape |-> "lookup",
                            data |-> {Plain("view"), Plain("fields"), Uid(c.person)}]}
                     ELSE {}
           [] OTHER -> {}

\* The `input` of a missing field is the whole body around it.
Errors(c) ==
    IF c.complete THEN {}
    ELSE {[type_loc |-> {Plain("location")},
           input    |-> IF c.path = "lookup" THEN {Uid(c.person)} ELSE {}]}

\* Mutant: what is not recognised is passed through.
scrub_Trusting(c) ==
    UNION ({IF a.shape = "lookup" THEN {Plain("view"), Plain("field_count")} \cup pseudonym(c.person)
            ELSE a.data : a \in Arguments(c)}
           \cup {e.type_loc \cup e.input : e \in Errors(c)})

\* Every argument becomes its shape; unrecognised ones and the `input` of an
\* error are dropped.
scrub_request_attributes(c) ==
    UNION ({CASE a.shape = "lookup" ->
                   {Plain("view"), Plain("field_count")} \cup pseudonym(c.person)
              [] a.name = "view_type" /\ a.shape = "str" -> a.data
              [] OTHER -> {} : a \in Arguments(c)}
           \cup {e.type_loc : e \in Errors(c)})

-----------------------------------------------------------------------------
(* Raising and capturing *)

\* An exception carries its own text and that of whatever was being handled
\* where it was raised; `from None` hides the second and does not remove it.
Chain(text, handled) == text \cup handled

\* external: the event Sentry makes of a text, in the scope it is captured in.
Event(about, person, tags, text) ==
    [to    |-> "tracker",
     about |-> about,
     data  |-> text \cup tags
               \cup (IF sentry_options.locals THEN Secrets ELSE {})
               \cup (IF sentry_options.body # "never" \/ sentry_options.pii
                     THEN {Uid(person)} ELSE {})]

\* external: the span of a request, with the exception that went through it.
Span(r, text) == [to |-> "collector", about |-> r, data |-> attributes[r] \cup text]

Export(events, spans) ==
    exported' = exported \cup (IF reporting THEN events ELSE {}) \cup (IF tracing THEN spans ELSE {})

-----------------------------------------------------------------------------
Init ==
    /\ settings \in Settings
    /\ phase = "installing"
    /\ reporting = FALSE
    /\ tracing = FALSE
    /\ ambient = {}
    /\ scope = [r \in Requests |-> {}]
    /\ call \in [Requests -> Calls]
    /\ stage = [r \in Requests |-> "idle"]
    /\ attributes = [r \in Requests |-> {}]
    /\ ended = [r \in Requests |-> 0]
    /\ exported = {}

\* Mutant: a DSN that is there is a client.
Install_AnyDsn ==
    /\ phase = "installing"
    /\ phase' = "loading"
    /\ reporting' = (settings.dsn # "unset")
    /\ UNCHANGED <<settings, tracing, ambient, scope, call, stage, attributes, ended, exported>>

\* install_observability: the two backends do not imply each other, and a
\* malformed DSN leaves no client.
Install ==
    /\ phase = "installing"
    /\ phase' = "loading"
    /\ reporting' = (settings.dsn = "valid")
    /\ UNCHANGED <<settings, tracing, ambient, scope, call, stage, attributes, ended, exported>>

\* Mutant: StartupError is raised where the ValidationError is handled.
Refuse_InsideExcept ==
    /\ phase = "loading"
    /\ phase' = "refused"
    /\ \E text \in {Chain({Plain("variables")}, Secrets), {Plain("config_problem")},
                    {Plain("exception")}} :
          Export({Event(Nobody, Nobody, ambient, text)}, {})
    /\ UNCHANGED <<settings, reporting, tracing, ambient, scope, call, stage, attributes, ended>>

\* _load_configuration fails.  The settings' ValidationError, which quotes
\* what it was given, is no longer handled where StartupError is raised; a
\* ConfigError is, and has nothing to hide.  A file that is no mapping or may not
\* be read raises past both.
Refuse ==
    /\ phase = "loading"
    /\ phase' = "refused"
    /\ \E text \in {Chain({Plain("variables")}, {}),
                    Chain({Plain("config_problem")}, {Plain("config_problem")}),
                    {Plain("exception")}} :
          Export({Event(Nobody, Nobody, ambient, text)}, {})
    /\ UNCHANGED <<settings, reporting, tracing, ambient, scope, call, stage, attributes, ended>>

\* The rest of create_app.
Serve ==
    /\ phase = "loading"
    /\ phase' = "serving"
    /\ tracing' = settings.otlp
    /\ UNCHANGED <<settings, reporting, ambient, scope, call, stage, attributes, ended, exported>>

\* external: a client's integration forks a scope for each request, and the
\* instrumentation records what the mapper leaves of the arguments.
Arrive(r) ==
    /\ phase = "serving"
    /\ stage[r] = "idle"
    /\ stage' = [stage EXCEPT ![r] = "solved"]
    /\ scope' = [scope EXCEPT ![r] = ambient]
    /\ attributes' = [attributes EXCEPT ![r] = scrub_request_attributes(call[r])]
    /\ UNCHANGED <<settings, phase, reporting, tracing, ambient, call, ended, exported>>

\* The request ends with a status, an exception of this text and these events.
End(r, status, text, events) ==
    /\ stage' = [stage EXCEPT ![r] = "done"]
    /\ ended' = [ended EXCEPT ![r] = status]
    /\ Export(events, {Span(r, text)})

\* external: only what is answered with a 5xx is captured.
Fail(r, status, text) ==
    End(r, status, text,
        IF status = 500 THEN {Event(r, call[r].person, scope[r], text)} ELSE {})

\* A body or a query that does not fit is refused before the endpoint.
Reject(r) ==
    /\ stage[r] = "solved"
    /\ ~ call[r].complete
    /\ End(r, 422, {}, {})
    /\ UNCHANGED <<settings, phase, reporting, tracing, ambient, scope, call, attributes>>

catalogue(r) ==
    /\ stage[r] = "solved"
    /\ call[r].path = "catalogue" /\ call[r].complete
    /\ \/ End(r, 200, {}, {})
       \/ Fail(r, 404, Chain({Plain("view")}, {Plain("view")}))
    /\ UNCHANGED <<settings, phase, reporting, tracing, ambient, scope, call, attributes>>

\* Mutant: the tag is set in the scope of the whole process.
set_tag_Global(r) ==
    /\ ambient' = ambient \cup pseudonym(call[r].person)
    /\ scope' = [q \in Requests |-> scope[q] \cup pseudonym(call[r].person)]

\* Mutant: whether there is a client is not asked.
set_tag_Unguarded(r) ==
    IF reporting
    THEN scope' = [scope EXCEPT ![r] = @ \cup pseudonym(call[r].person)] /\ UNCHANGED ambient
    ELSE ambient' = ambient \cup pseudonym(call[r].person) /\ UNCHANGED scope

\* Mutant: nothing is tagged before the query.
set_tag_Late(r) == UNCHANGED <<ambient, scope>>

\* sentry_sdk.set_tag, which writes to the ambient scope unless a client's
\* integration has forked one.
set_tag(r) ==
    /\ scope' = IF reporting THEN [scope EXCEPT ![r] = @ \cup pseudonym(call[r].person)] ELSE scope
    /\ UNCHANGED ambient

\* lookup, up to its query.
Begin(r) ==
    /\ stage[r] = "solved"
    /\ call[r].path = "lookup" /\ call[r].complete
    /\ set_tag(r)
    /\ stage' = [stage EXCEPT ![r] = "checking"]
    /\ UNCHANGED <<settings, phase, reporting, tracing, call, attributes, ended, exported>>

\* An unknown view chains what the catalogue said; an unknown field is new.
Check(r) ==
    /\ stage[r] = "checking"
    /\ \/ /\ stage' = [stage EXCEPT ![r] = "querying"]
          /\ UNCHANGED <<ended, exported>>
       \/ Fail(r, 404, Chain({Plain("view")}, {Plain("view")}))
       \/ Fail(r, 400, {Plain("view"), Plain("fields")})
    /\ UNCHANGED <<settings, phase, reporting, tracing, ambient, scope, call, attributes>>

\* The row comes, or does not exist, or the database fails.
Fetch(r) ==
    /\ stage[r] = "querying"
    /\ \/ /\ stage' = [stage EXCEPT ![r] = "fetched"]
          /\ UNCHANGED <<ended, exported>>
       \/ Fail(r, 404, {Plain("view")})
       \/ Fail(r, 500, StatementError(call[r].person))
    /\ UNCHANGED <<settings, phase, reporting, tracing, ambient, scope, call, attributes>>

\* What a RuleError quotes.
RuleErrorText(person) == {Datum("stored_value", person)}

Failure == {Plain("field"), Plain("view")}

\* Mutant: the ProblemError is raised where the RuleError is handled.
FailDerivation_InsideExcept(r) ==
    LET text == Chain(Failure, RuleErrorText(call[r].person))
    IN  End(r, 500, text,
            {Event(r, call[r].person, scope[r], Failure \cup pseudonym(call[r].person)),
             Event(r, call[r].person, scope[r], text)})

\* A RuleError is handled and forgotten; the record for the log, which is an
\* event as well, and the ProblemError come after the loop.
FailDerivation(r) ==
    LET text == Chain(Failure, {})
    IN  End(r, 500, text,
            {Event(r, call[r].person, scope[r], Failure \cup pseudonym(call[r].person)),
             Event(r, call[r].person, scope[r], text)})

Compute(r) ==
    /\ stage[r] = "fetched"
    /\ \/ End(r, 200, {}, {})
       \/ FailDerivation(r)
       \/ Fail(r, 500, {Plain("exception")})
    /\ UNCHANGED <<settings, phase, reporting, tracing, ambient, scope, call, attributes>>

lookup(r) == Begin(r) \/ Check(r) \/ Fetch(r) \/ Compute(r)

Next ==
    \/ Install \/ Refuse \/ Serve
    \/ \E r \in Requests : Arrive(r) \/ Reject(r) \/ catalogue(r) \/ lookup(r)

Spec == Init /\ [][Next]_vars

-----------------------------------------------------------------------------
(* Properties *)

\* Type correctness.
TelemetryTypeOK ==
    /\ settings \in Settings
    /\ phase \in {"installing", "loading", "serving", "refused"}
    /\ reporting = (settings.dsn = "valid" /\ phase # "installing")
    /\ tracing => phase = "serving"
    /\ stage \in [Requests -> {"idle", "solved", "checking", "querying", "fetched", "done"}]
    /\ \A r \in Requests : ended[r] \in {0, 200, 400, 404, 422, 500}
    /\ \A i \in exported : i.to \in {"tracker", "collector"} /\ i.about \in Requests \cup {Nobody}

\* docs/explanation.md, "What leaves the process", decides what may: the
\* exception, views and names of fields, a keyed pseudonym.  No credential, no
\* person_uid, no stored value and no configuration, on either way out,
\* whatever fails and wherever.
Decided ==
    {"exception", "statement", "config_problem", "variables", "location", "view", "field", "fields",
     "field_count", "pseudonym"}

OnlyTheDecidedLeaves == \A i \in exported : \A d \in i.data : d.kind \in Decided

\* A pseudonym is a label of the request it was exported for, never of one
\* that ran at the same time, nor of a process that reports nowhere.
TagsStayWithTheirRequest ==
    /\ ambient = {}
    /\ \A i \in exported : \A d \in i.data :
           d.kind = "pseudonym" => i.about # Nobody /\ d = Pseudonym(call[i.about].person)

\* With a tracker and a salt, a lookup that fails for a reason of the
\* server's has an event, and each says whose failure it was.
FailuresArriveLabelled ==
    \A r \in Requests :
        ended[r] = 500 /\ reporting =>
            LET events == {i \in exported : i.to = "tracker" /\ i.about = r}
            IN  /\ events # {}
                /\ settings.salt = "set" =>
                       \A i \in events : Pseudonym(call[r].person) \in i.data

=============================================================================
