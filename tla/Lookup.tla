------------------------------- MODULE Lookup -------------------------------
(***************************************************************************)
(* The POST /lookup handler of api/routers.py with the read it issues      *)
(* through repository.py, as the process runs it: one asyncio event loop,  *)
(* the handlers of many requests, and beside them a database producers     *)
(* write to and a clock that every call of evaluate() reads for itself.    *)
(*                                                                         *)
(* A handler gives the loop back only at `await repository.person_view`    *)
(* and when it ends; rows and days change between any two of its steps.    *)
(***************************************************************************)
EXTENDS LookupPromise, FiniteSets

CONSTANT Order      \* all field names, in the order sorted() puts them

VARIABLES
    config,      \* get_provider_config(): fixed for the life of the process
    today,       \* what date.today() returns
    db,          \* person_view: the current row of each key
    ask,         \* request: LookupRequest
    response,    \* the response, once sent
    pc,          \* where the handler of each request is
    loop,        \* the request whose handler runs on the event loop, or Idle
    frame,       \* the locals of each handler, gone when it ends
    seen,        \* history: the rows current at some time since the request
    since        \* history: the day the request was made

environment == <<config, today, db>>
handler     == <<pc, loop, frame>>
history     == <<seen, since>>
vars        == <<environment, handler, history, ask, response>>

Idle == "-"

ASSUME IdleAssumption == Idle \notin Requests

View(r) == config.views[ask[r].view]

\* payload: the row read; pending: what is left of sorted(needed); computed:
\* the values of round one; at: the position in request.fields; answer: so far.
Frame(row, names) ==
    [payload |-> row, pending |-> names, computed |-> EmptyDict, at |-> 1,
     answer |-> EmptyDict]
NoFrame == Frame(NoRow, {})

-----------------------------------------------------------------------------
Init ==
    /\ config \in {c \in Configs : Accepted(c)}
    /\ today = FirstDay
    /\ db \in {d \in [DOMAIN Rows -> RowOrNone] :
                  \A k \in DOMAIN Rows : d[k] \in Rows[k] \cup {NoRow}}
    /\ ask = [r \in Requests |-> NoAsk]
    /\ response = [r \in Requests |-> Unsent]
    /\ pc = [r \in Requests |-> "idle"]
    /\ loop = Idle
    /\ frame = [r \in Requests |-> NoFrame]
    /\ seen = [r \in Requests |-> {}]
    /\ since = [r \in Requests |-> FirstDay]

\* A consumer's request reaches the process, past authentication.
Receive(r, a) ==
    /\ pc[r] = "idle"
    /\ pc' = [pc EXCEPT ![r] = "received"]
    /\ ask' = [ask EXCEPT ![r] = a]
    /\ response' = [response EXCEPT ![r] = Open]
    /\ seen' = [seen EXCEPT ![r] = {db[KeyOf(a)]}]
    /\ since' = [since EXCEPT ![r] = today]
    /\ UNCHANGED <<environment, loop, frame>>

\* The handler ends, by return or by an exception, and the loop is free.
Respond(r, resp) ==
    /\ response' = [response EXCEPT ![r] = resp]
    /\ pc' = [pc EXCEPT ![r] = "done"]
    /\ frame' = [frame EXCEPT ![r] = NoFrame]
    /\ loop' = Idle

\* From the handler's first line to its await: the view type and the field
\* names against the catalogue.
Check(r) ==
    LET a == ask[r]
    IN  /\ pc[r] = "received"
        /\ loop = Idle
        /\ \/ /\ a.view \notin DOMAIN config.views
              /\ Respond(r, UnknownViewType)
           \/ /\ a.view \in DOMAIN config.views
              /\ ~ ToSet(a.fields) \subseteq DOMAIN Catalogue(config, a.view)
              /\ Respond(r, UnknownField)
           \/ /\ a.view \in DOMAIN config.views
              /\ ToSet(a.fields) \subseteq DOMAIN Catalogue(config, a.view)
              /\ pc' = [pc EXCEPT ![r] = "querying"]
              /\ UNCHANGED <<loop, frame, response>>
        /\ UNCHANGED <<environment, history, ask>>

\* The database executes the SELECT.
person_view(r) ==
    /\ pc[r] = "querying"
    /\ pc' = [pc EXCEPT ![r] = "fetched"]
    /\ frame' = [frame EXCEPT ![r] = Frame(db[KeyOf(ask[r])], {})]
    /\ UNCHANGED <<environment, history, ask, response, loop>>

\* The SELECT fails; nobody handles the exception.
QueryFails(r) ==
    /\ pc[r] = "querying"
    /\ loop = Idle
    /\ Respond(r, InternalError("database"))
    /\ UNCHANGED <<environment, history, ask>>

\* Mutant: the names a requested payload reads are forgotten.
needed_RequestedOnly(r) == ToSet(ask[r].fields) \cap DOMAIN View(r).derived

\* The derived fields round one computes: those requested and those the
\* requested payloads read.
needed(r) ==
    LET fields == ToSet(ask[r].fields)
    IN  (fields \cap DOMAIN View(r).derived)
            \cup UNION {rule_names(View(r).payloads[p].rule) \cap DOMAIN View(r).derived :
                           p \in fields \cap DOMAIN View(r).payloads}

\* Mutant: `if payload is None` is missing.
Resume_NoneUnchecked(r) ==
    /\ pc[r] = "fetched"
    /\ loop = Idle
    /\ pc' = [pc EXCEPT ![r] = "computing"]
    /\ loop' = r
    /\ frame' = [frame EXCEPT ![r] = Frame(frame[r].payload, needed(r))]
    /\ UNCHANGED <<environment, history, ask, response>>

\* The await returns.
Resume(r) ==
    /\ pc[r] = "fetched"
    /\ loop = Idle
    /\ \/ /\ frame[r].payload = NoRow
          /\ Respond(r, UnknownPerson)
       \/ /\ frame[r].payload # NoRow
          /\ pc' = [pc EXCEPT ![r] = "computing"]
          /\ loop' = r
          /\ frame' = [frame EXCEPT ![r] = Frame(frame[r].payload, needed(r))]
          /\ UNCHANGED response
    /\ UNCHANGED <<environment, history, ask>>

\* evaluate(parse_rule(spec.rule), payload, config.constants, dates, computed=...)
EvaluateFor(r, spec, earlier) ==
    Evaluate(spec.rule, frame[r].payload, config.constants,
             datetime_fields(config, ask[r].view), today, earlier)

\* Mutant: a RuleError is swallowed and the turn of the loop repeated.
FailWith_Retrying(r, name, failure) ==
    IF failure = RuleError THEN UNCHANGED <<response, pc, loop, frame>>
    ELSE Respond(r, InternalError("rule"))

\* A RuleError ends the request with the name of the field; any other
\* exception is nobody's.
FailWith(r, name, failure) ==
    Respond(r, IF failure = RuleError THEN NotComputable(name) ELSE InternalError("rule"))

Precedes(m, n) == SelectInSeq(Order, LAMBDA x : x = m) <= SelectInSeq(Order, LAMBDA x : x = n)

\* One turn of the first loop, `for name in sorted(needed)`.
RoundOne(r) ==
    /\ pc[r] = "computing"
    /\ \E name \in frame[r].pending :
          /\ \A other \in frame[r].pending : Precedes(name, other)
          /\ \E value \in {EvaluateFor(r, View(r).derived[name], EmptyDict)} :
                \/ Failed(value) /\ FailWith(r, name, value)
                \/ /\ ~ Failed(value)
                   /\ frame' = [frame EXCEPT ![r].pending = @ \ {name},
                                            ![r].computed = Put(@, name, value)]
                   /\ UNCHANGED <<response, pc, loop>>
    /\ UNCHANGED <<environment, history, ask>>

\* Mutant: a payload computes the derived fields it reads again.
ValueOf_Recomputing(r, key) ==
    IF key \in DOMAIN View(r).derived THEN frame[r].computed[key]
    ELSE IF key \in DOMAIN View(r).payloads THEN
             EvaluateFor(r, View(r).payloads[key],
                         [n \in DOMAIN frame[r].computed |->
                             EvaluateFor(r, View(r).derived[n], EmptyDict)])
    ELSE Get(frame[r].payload, key)

\* The value of one requested field.
ValueOf(r, key) ==
    IF key \in DOMAIN View(r).derived THEN frame[r].computed[key]
    ELSE IF key \in DOMAIN View(r).payloads THEN
             EvaluateFor(r, View(r).payloads[key], frame[r].computed)
    ELSE Get(frame[r].payload, key)

\* Mutant: `if value:` for `if value is not None:`.
Including_Truthy(ans, key, value) ==
    IF Truthy(value) THEN Put(ans, key, Wire(value)) ELSE ans

\* answer[key] = value, unless the value is None.
Including(ans, key, value) == IF value = Null THEN ans ELSE Put(ans, key, Wire(value))

\* One turn of the second loop, `for key in request.fields`.
RoundTwo(r) ==
    /\ pc[r] = "computing"
    /\ frame[r].pending = {}
    /\ frame[r].at <= Len(ask[r].fields)
    /\ \E key \in {ask[r].fields[frame[r].at]} : \E value \in {ValueOf(r, key)} :
          \/ Failed(value) /\ FailWith(r, key, value)
          \/ /\ ~ Failed(value)
             /\ frame' = [frame EXCEPT ![r].answer = Including(@, key, value), ![r].at = @ + 1]
             /\ UNCHANGED <<response, pc, loop>>
    /\ UNCHANGED <<environment, history, ask>>

\* `return answer`
Return(r) ==
    /\ pc[r] = "computing"
    /\ frame[r].pending = {}
    /\ frame[r].at > Len(ask[r].fields)
    /\ Respond(r, Found(frame[r].answer))
    /\ UNCHANGED <<environment, history, ask>>

-----------------------------------------------------------------------------
(* The environment *)

\* A producer upserts or deletes a row of person_view; the last writer wins.
Produce(k, row) ==
    /\ row # db[k]
    /\ db' = [db EXCEPT ![k] = row]
    /\ seen' = [r \in Requests |->
                   IF response[r] = Open /\ KeyOf(ask[r]) = k
                   THEN seen[r] \cup {row} ELSE seen[r]]
    /\ UNCHANGED <<config, today, handler, since, ask, response>>

NextDay ==
    /\ today < MaxDay
    /\ today' = today + 1
    /\ UNCHANGED <<config, db, handler, history, ask, response>>

-----------------------------------------------------------------------------
Handle(r) ==
    \/ Check(r)
    \/ person_view(r)
    \/ QueryFails(r)
    \/ Resume(r)
    \/ RoundOne(r)
    \/ RoundTwo(r)
    \/ Return(r)

Next ==
    \/ \E r \in Requests, a \in Asks : Receive(r, a)
    \/ \E r \in Requests : Handle(r)
    \/ \E k \in DOMAIN Rows : \E row \in Rows[k] \cup {NoRow} : Produce(k, row)
    \/ NextDay

Safety == Init /\ [][Next]_vars

\* The loop runs every handler that can run, and the database answers or fails.
Spec == Safety /\ \A r \in Requests : WF_vars(Handle(r))

-----------------------------------------------------------------------------
(* Properties *)

Staged(r) ==
    /\ pc[r] = "computing" <=> loop = r
    /\ pc[r] # "idle" => ask[r] \in Asks
    /\ response[r] = Unsent <=> pc[r] = "idle"
    /\ response[r] = Open <=> pc[r] \notin {"idle", "done"}
    /\ since[r] <= today
    /\ pc[r] \notin {"idle", "done"} => db[KeyOf(ask[r])] \in seen[r]
    /\ pc[r] \in {"querying", "fetched", "computing"} =>
           /\ ask[r].view \in DOMAIN config.views
           /\ ToSet(ask[r].fields) \subseteq Declared(View(r))
    /\ pc[r] \in {"fetched", "computing"} => frame[r].payload \in seen[r]
    /\ pc[r] = "computing" =>
           /\ frame[r].payload # NoRow
           /\ frame[r].pending \cup DOMAIN frame[r].computed = needed(r)
           /\ frame[r].at \in Nat \ {0}

\* Every variable has its type, and the variables of one request agree on how
\* far its handler is: only the holder of the loop computes, a row that was
\* read was current while the request was open, a handler past its checks
\* knows the view and every field, and round one has computed exactly what is
\* no longer pending.
TypeOK ==
    /\ config \in Configs /\ Accepted(config)
    /\ today \in FirstDay .. MaxDay
    /\ db \in [DOMAIN Rows -> RowOrNone]
    /\ ask \in [Requests -> Asks \cup {NoAsk}]
    /\ pc \in [Requests -> {"idle", "received", "querying", "fetched", "computing", "done"}]
    /\ loop \in Requests \cup {Idle}
    /\ seen \in [Requests -> SUBSET RowOrNone]
    /\ since \in [Requests -> FirstDay .. MaxDay]
    /\ DOMAIN response = Requests /\ DOMAIN frame = Requests
    /\ \A r \in Requests : Staged(r)

\* What the inductive proof of the promise needs of a handler at work: for some
\* choice of days, its round-one values and its answer so far are those of the
\* row it read, for the fields it has passed, and none of them failed.
MeaningFor(r, f, day) == Meaning(config, ask[r].view, f, frame[r].payload, day)

Passed(r) == {ask[r].fields[i] : i \in 1 .. frame[r].at - 1}

ExplainedBy(r, day) ==
    /\ \A n \in DOMAIN frame[r].computed :
           /\ frame[r].computed[n] = MeaningFor(r, n, day)
           /\ ~ Failed(frame[r].computed[n])
    /\ frame[r].answer =
           [f \in {g \in Passed(r) : MeaningFor(r, g, day) # Null} |-> Wire(MeaningFor(r, f, day))]
    /\ \A p \in Passed(r) \cap DOMAIN View(r).payloads : ~ Failed(MeaningFor(r, p, day))

Explained(r) ==
    pc[r] = "computing" =>
        /\ frame[r].pending \cap DOMAIN frame[r].computed = {}
        /\ frame[r].at \in 1 .. Len(ask[r].fields) + 1
        /\ frame[r].pending # {} => frame[r].at = 1
        /\ \E day \in [Needed(View(r), ask[r].fields) -> since[r] .. today] : ExplainedBy(r, day)

WorkIsExplained == \A r \in Requests : Explained(r)

\* The promise of LookupContract: every response is the right one for a row
\* and days of the time the request was open.
C == INSTANCE LookupContract
KeepsThePromise == C!Safety

\* "One computation, not two that could drift" (tests/test_payloads.py): the
\* payload a response carries was computed from the very derived values the
\* response carries, also when the day changes between the two rounds.  It is
\* stated for derived fields declared DATETIME, whose wire form reads back.
PayloadsAgreeWithDerived ==
    \A r \in Requests : response[r].status = 200 =>
        \A p \in ToSet(ask[r].fields) \cap DOMAIN View(r).payloads :
            LET reported == response[r].answer
                inputs   == Inputs(View(r), p)
                dates    == datetime_fields(config, ask[r].view)
                Again(row, d) ==
                    Evaluate(View(r).payloads[p].rule, row, config.constants, dates, d,
                             [n \in inputs |-> Get(reported, n)])
            IN  inputs \subseteq ToSet(ask[r].fields) \cap dates =>
                    \E row \in seen[r] \ {NoRow}, d \in since[r] .. today :
                        ~ Failed(Again(row, d)) /\ Wire(Again(row, d)) = Get(reported, p)

\* "validate_config type-checks the rule's static AST, while this failure mode
\* lives in the row" (api/routers.py): a field cannot be computed only for a row
\* that was there and in which a field declared DATETIME is not a date.
NotComputableBlamesTheRow ==
    \A r \in Requests :
        response[r].status = 500 /\ "field" \in DOMAIN response[r] =>
            \E row \in seen[r] \ {NoRow} :
                \E n \in DOMAIN View(r).fields \cap datetime_fields(config, ask[r].view) :
                    Failed(AsDate(Get(row, n)))

\* Two answers about one row, with one version of it and one day to compute from.
OfOneRowAndDay(r, q) ==
    /\ response[r].status = 200 /\ response[q].status = 200
    /\ KeyOf(ask[r]) = KeyOf(ask[q])
    /\ seen[r] = seen[q] /\ \E row \in seen[r] : seen[r] = {row}
    /\ since[r] = today /\ since[q] = today

\* The value of a field does not depend on what else was asked for: two
\* requests for one view of one person, each with a single version of the row
\* and a single day to compute from, the same for both, report the same value.
SameFieldSameValue ==
    \A r, q \in Requests : OfOneRowAndDay(r, q) =>
        \A f \in ToSet(ask[r].fields) \cap ToSet(ask[q].fields) :
            Get(response[r].answer, f) = Get(response[q].answer, f)

\* "The derived values have to exist before any payload is evaluated"
\* (api/routers.py): whatever derived field a payload's rule names has been
\* computed when round two reaches the payload.
RoundOneFeedsRoundTwo ==
    \A r \in Requests :
        pc[r] = "computing" /\ frame[r].pending = {} /\ frame[r].at <= Len(ask[r].fields) =>
            LET key == ask[r].fields[frame[r].at]
            IN  key \in DOMAIN View(r).payloads =>
                    Inputs(View(r), key) \subseteq DOMAIN frame[r].computed

\* Every request that is made is answered.
EveryRequestIsAnswered ==
    C!Answered

-----------------------------------------------------------------------------
(* Statements of the documentation the code does not keep *)

\* docs/reference.md: today() is "the day the request is evaluated".
OneReferenceDay ==
    \A r \in Requests : response[r].status = 200 =>
        \E row \in seen[r] \ {NoRow}, d \in since[r] .. today :
            RightGiven(config, ask[r], row,
                       [f \in Needed(View(r), ask[r].fields) |-> d], response[r])

\* docs/reference.md: a rule that raised on the stored data is answered with
\* "Derived field cannot be computed".
RuleFailuresAreNamed ==
    \A r \in Requests : response[r] # InternalError("rule")

=============================================================================
