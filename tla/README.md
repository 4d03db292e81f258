# Verification of edutap.data_provider

TLA+ specifications of the eduTAP data provider, the TLC configurations that
check them and the theorems TLAPS proves about them. Paths below are relative to
`src/edutap/data_provider/` unless they start with `docs/` or `tests/`.

The service answers one question: *which of these fields does this person's pass
have?* Producers write one row per person and view type. A view configuration,
validated once when the process starts, says which keys of the row are exposed,
which fields are computed from them (`derived`, round one) and which payloads are
computed from those (`payloads`, round two). `POST /lookup` reads one row and
evaluates the rules it needs.

## 1. Inventory

| Component | State | Operations | Talks to |
|---|---|---|---|
| Rule language, `rules.py` | none; the function table is fixed | `parse_rule`, `evaluate` | the clock, on every `evaluate` |
| Configuration, `config.py` | none | `load_config` | the file, the YAML loader |
| Duplicate-key loader, `config.py` 28-120 | the mapping nodes it has scanned; nodes are shared and rewritten in place | `construct_mapping`, `flatten_mapping` | PyYAML |
| Validation, `validation.py` | none | `validate_config`, `rule_names`, `datetime_fields`, `referenced_fields` | rule language |
| Catalogue, `catalogue.py` | none | `catalogue_for` | configuration |
| Lookup, `api/routers.py` | the locals of each handler: row, `needed`, `computed`, `answer` | `lookup`, `catalogue` | catalogue, repository, rule language, validation |
| Repository, `repository.py` | none of its own; the table `person_view` belongs to producers | `person_view` | the database |
| Seams, `api/dependencies.py` | two `lru_cache`s | `get_provider_config`, `get_repository` | settings, configuration |
| Startup, `api/app.py`, `settings.py` | settings, cached | `create_app` | all of the above |
| Authentication and errors, `api/auth.py`, `api/errors.py` | none | `require_token`, the two exception handlers | settings |
| Observability, `observability.py` | SDKs, environment variables | `install_observability`, `scrub_request_attributes`, `pseudonym` | Sentry, OpenTelemetry |
| Vocabulary, `vocabulary.py` | none | re-exports | `edutap.data_models` |

How they interact. `create_app` loads and validates the configuration, or the
process does not start. From then on it is read-only. A request passes the bearer
check, then `lookup` compares its view type and fields with the catalogue, awaits
the repository, and computes: round one over `sorted(needed)`, round two over the
requested fields in order. The container runs one uvicorn worker (`Dockerfile`),
hence one asyncio event loop: handlers interleave at their one `await` and nowhere
else. Producers, on the other side of the database, and the clock interleave with
everything.

What is hard here:

* **the await** (`api/routers.py:83`): between the checks and the computation any
  other handler runs, and producers rewrite or delete the row;
* **the clock** (`rules.py:214`): each `evaluate` reads it, several times in a
  request, and midnight passes between any two of them;
* **two rounds** (`api/routers.py:94-123`): what round two reads must have been
  computed by round one, also what was not asked for; a gap is not an error but a
  silent `null`;
* **two programs about one rule**: the startup check sees its text, the evaluator
  its values; they share a table (`FUNCTIONS`) nothing ties to the evaluator;
* **failure**: of the database, of one rule of several, with an exception the
  handler expects (`RuleError`) or does not (`TypeError`, `OverflowError`);
* **names**: constants, functions, stored, derived and payload fields meet in one
  syntax tree and are told apart by spelling;
* **caches**: settings and configuration are read once and edited later; the engine is
  built by whichever first requests come, in threads;
* **shared nodes**: the YAML loader scans and rewrites mappings that several anchors
  name, in an order PyYAML decides;
* **what leaves**: an exception drags along what was being handled, a tag set in the
  wrong scope labels other people's requests, a 422 quotes the body.

What makes each component correct:

* *lookup*: every request is answered once; a 200 carries exactly the requested
  fields that have a value, computed from one version of the row that was current
  while the request was open; a field's value does not depend on the company it is
  asked for in; a failure names a field the request depends on;
* *validation*: a configuration that is served raises no `RuleError` for its text,
  only for a row; the producers' contract is enough for every rule;
* *rule language*: each function returns what the table says, `null` included;
* *startup*: a process that answers has an accepted configuration, the one it read; one
  that ends had a reason, and error reporting is none;
* *loader*: it refuses exactly the documents that repeat a key as written, and loads the
  others as YAML means them;
* *authentication and errors*: nothing behind the bearer check happens without it; every
  request gets a response of the deployment being served, and every 500 a record;
* *observability*: no credential, person, stored value or configuration leaves; a
  failure is reported under the label of its own person.

## 2. Modules

| Module | Models | Kind |
|---|---|---|
| `RuleLanguage` | `rules.py` | pure operators |
| `ViewConfig` | `validation.py`, `catalogue.py`, the structural checks of `config.py` | pure operators |
| `RuleProofs` | — | lemmas about both: the language and the startup check |
| `LookupPromise` | what a consumer may ask, the responses, the meaning of a field, the right responses | pure operators, constants and their assumptions |
| `LookupContract` | what `POST /lookup` promises | abstract specification |
| `Lookup` | the handler, the read, producers, the clock | detailed specification |
| `LookupProofs`, `PromiseProofs` | — | theorems |
| `RuleWriting` | every rule up to a size, in one view | enumerating specification |
| `RuleWritingProofs` | — | theorems |
| `UniqueKeyLoader` | `_UniqueKeyLoader` of `config.py` | specification |
| `UniqueKeyLoaderProofs` | — | theorems |
| `Startup` | `create_app` and `_load_configuration` of `api/app.py`, `settings.py`, the cached `get_provider_config`, the outcomes of `load_config`, the guard of `install_observability` | specification |
| `StartupProofs` | — | theorems |
| `ServiceContract` | what a process promises its callers | abstract specification |
| `Gateway` | `api/auth.py`, `api/errors.py`, `api/dependencies.py`, `/healthz`, the two routes up to their handlers, in the process of `Startup` | detailed specification |
| `GatewayProofs` | — | theorems |
| `Telemetry` | `observability.py`, and what startup and the two handlers raise, tag and log | specification |
| `TelemetryProofs` | — | theorems |
| `MCLookup`, `MCRuleWriting`, `MCUniqueKeyLoader`, `MCStartup`, `MCGateway`, `MCTelemetry` | — | instances for TLC |

`RuleLanguage` <- `ViewConfig` <- `LookupPromise` <- `Lookup` by `EXTENDS`, and
`ViewConfig` <- `RuleWriting`. `RuleProofs` extends `ViewConfig`, and both
`RuleWritingProofs` and `PromiseProofs` extend it. `Lookup` has `C == INSTANCE LookupContract`, whose constants and operators are those
of `LookupPromise`. `ViewConfig` <- `Startup` <- `Gateway` by `EXTENDS`: the process
and the requests in it are one specification, and what startup accepts is what
`ViewConfig` says is accepted. `Gateway` has `Contract == INSTANCE ServiceContract`.
`UniqueKeyLoader` and `Telemetry` stand alone.

### RuleLanguage

A rule is Python's expression tree as the sequence of its nodes in post-order; a
call holds the indices of its arguments (`Tree` in `ViewConfig`: they stand before it). `Values` is a
recursive *function* over the positions, whose one turn is `NodeValue`; `BestOf` is
Python's `min` and `max` over the first `n` arguments, whose one turn is `Better`. With
functions instead of `RECURSIVE` operators the module can be proved about. A value is tagged with its type. A string is a sequence of *pieces*:
a text, an ISO date, a compact date, a printed number. Texts are numbered in
the order Python compares them, and only what the language can tell apart is kept
apart. Days are numbers from 0 to `LastDay`, which is `date.max`: adding a day to it
overflows. `RuleError` is the exception `lookup` catches, `Crash` stands for every
other one. `Values` has the value of every node, `Interpret` that of the last; `if_else` looks at the
branch it takes, any other call raises what its first failing argument raised:
the same as evaluating only what is reached, because reading has no effect.

### ViewConfig

`RuleAccepted`, `ViewAccepted`, `WellStructured` and `Accepted` say "no problem is
reported" of `_check_rules`, `_check_view`, `load_config` and of startup.
`ProvablyDate`, `Dated` and `YieldsDate` are `_date_problems(...) == []`. `NotFlat` is the
set of names with a forbidden character.

### Lookup

| Action | Code |
|---|---|
| `Receive` | a request enters `lookup` (`api/routers.py:49`) |
| `Check` | from the first line to the await: catalogue, unknown fields (70-81) |
| `person_view` | the `SELECT` (`repository.py:27-38`); a row, or `NoRow` |
| `QueryFails` | the database raises; answered by `_handle_unexpected` |
| `Resume` | the await returns: `None` is a 404, else `needed` (83-105) |
| `RoundOne` | one turn of `for name in sorted(needed)` (108-123) |
| `RoundTwo` | one turn of `for key in request.fields` (125-176) |
| `Return` | `return answer` (210) |
| `Produce`, `NextDay` | producers and the clock, external |

`loop` is the handler that holds the event loop: from `Resume` to the response no
other handler runs, while `Produce`, `NextDay` and other requests' `person_view`, which
happen in the database, do. `pc` is where a handler is, `frame` its locals. `seen` and
`since` are history: the versions of the row and the day since the request was
made. Telemetry (the pseudonym, the log line) has no effect on an answer and is left
out, except that both places where a rule fails end in the same `NotComputable`.

### LookupContract and LookupPromise

The contract has no event loop, no rounds and no locals: `Ask`, `Reply`, `Produce`,
`NextDay`. A `Reply` must be `Right`: unknown view types and fields are refused; a
person is unknown only if the row was absent at some time while the request was
open; a 200 is the `Projection` of the `Meaning` of each field in one version of
the row, with some choice of one day for each computed field; a 500 that names a field
names one whose meaning is `RuleError`, and an opaque one requires that some rule
crashes or the database failed. `Meaning` reads the derived fields a payload
*names* (`Inputs`), not those the code finds with `rule_names`: it is the definition
of `docs/reference.md`, against which the code is checked. The refinement mapping is
the identity on the seven variables the contract has.

### RuleWriting

Rules are written node by node, leaves and calls, up to `MaxNodes` nodes. Every
reachable state with one open node is a whole rule, at the one derived field of
`Site`. A call may be written with any number of arguments, as a site may write it:
whether they fit is for `ParseRule` to say, and nothing is added to a rule it refuses
(`Finishable`, which also has the bounds). Its properties compare the verdict of startup
with the evaluation on rows. `TakenByPosition` of `RuleLanguage` is how many arguments
`evaluate` takes apart, beside the arity that `FUNCTIONS` declares.
`Data` is what rows, constants and literals hold. The run's rules have five nodes; the theorems
of `RuleWritingProofs` hold for every `MaxNodes` and `MaxArgs`.

### UniqueKeyLoader

A document is a set of mapping nodes, each with the sequence of its entries; a `<<`
entry names a sequence of sources. `value` is `node.value`, which flattening rewrites
in place, `written` what the author wrote, `scanned` the `_scanned` of the loader, `calls` the
stack of running `flatten_mapping`s. `Names` is what entries name, by key or by merge;
`RootedAssumption` says that every mapping of a document hangs from its root, in the form
that needs no induction: a set of nodes with the root, closed under naming, is all of them.

| Action | Code |
|---|---|
| `construct_mapping` | the override (78-89): scan the node, then flatten it |
| `Descend`, `flatten_mapping` | PyYAML calls the override (91-120) for the next source: scan *its* sources, then flatten it |
| `TakeMerge`, `Return` | the rest of PyYAML's `flatten_mapping` and the construction of the pairs, external |
| `Finish` | `yaml.load` returns (199) |

Which waiting mapping is constructed next is left open: PyYAML's order is one of those
allowed. Values that are lists and keys that are not scalars are left out; they are
scanned and merged no differently.

### Startup

One process after another. `pc` is the step of `create_app`; `cache` the two `lru_cache`s,
emptied by `Launch`; `env` and `file` what an operator `Edit`s at any time; `read`
what the process last read of them, `exit` how it ended.

| Action | Code |
|---|---|
| `install_observability` | the DSN guard (`observability.py:231-264`) |
| `LoadSettings`, `LoadConfig` | the halves of `_load_configuration` (`api/app.py:65-99`) |
| `Serve` | handlers and routers in place (109-119) |
| `Launch`, `Kill`, `Edit` | uvicorn, the container runtime, an operator: external |

The file is missing, unreadable, repeats a key, is not YAML, has the wrong shape, is
refused by pydantic, or is a document that `WellStructured` and `ViewAccepted` of
`ViewConfig` judge. `load_config` ends with a `ConfigError`, with another exception, or
loaded, in the order of `config.py:191-233`.

### Gateway and ServiceContract

A request passes `Route`, `require_token`, `ResolveConfig`, `get_repository`, perhaps
`BuildEngine`, `Parameters` and `Endpoint`, in the order in which FastAPI solves the
dependencies `api/routers.py` declares. `Refuse` is what the framework turns away before them: an
unknown path, a wrong method, and for `POST /lookup`, which alone declares a body, one that is
no text or no JSON; an incomplete one is refused after all of them. What raises ends in `HandleProblem`
(`ExceptionMiddleware`) or `HandleUnexpected` (`ServerErrorMiddleware`, which raises again once the
response is sent, so that the server logs, in `LogException`; the process may die between the two). `get_repository` and `BuildEngine` are separate because
`lru_cache` holds no lock while it computes: threads that miss each build an engine
and the first one stays. `local` is what a request holds. `KillAll` takes the process
away under its requests, which are then `cut`, their open responses `Lost`. `Endpoint` leaves open how a handler
ends, among the ways `Lookup` has.

The contract knows one variable of the process, `deployed`: nothing, or usable settings
with an accepted configuration. `Deploy`, `Stop`, `Receive`, and `Answer` with one of the
`Outcomes` of that deployment for that call. The refinement mapping takes `deployed` from
`pc` and the caches, and `call` and `response` as they are; so the contract says at
once that edits have no effect on a running process, that authentication decides before
the body is judged and after routing, and that a 422 is the framework's and a 401 the
service's.

### Telemetry

A text is the set of data that can be read in it, each of a kind and about a person.
`scope` and `ambient` are Sentry's isolation scopes, `attributes` what the instrumentation
records of a request's arguments, `exported` everything that has left. The actions are
the places where something is captured: `Install`, `Refuse` and `Serve` of `create_app` (a start ends
with a `StartupError` about the settings or the file, or with what `load_config` does not turn into one);
`Arrive` (the mapper), `Reject`, `catalogue`, and `Begin` (the tag), `Check`, `Fetch`, `Compute`
of `lookup`. `Chain` is Python's: an exception raised while another is handled carries
that one along. What the SDKs capture, given the options of `sentry_options`, is external:
`Event`, `Span`, `Arrive`, `Fail`. Requests begin behind authentication and dependencies, whose
failures quote nothing.

## 3. Runs

| Run | Checks | Shows |
|---|---|---|
| `lookup` | `TypeOK`, `WorkIsExplained`, `PayloadsAgreeWithDerived`, `RoundOneFeedsRoundTwo`, `NotComputableBlamesTheRow`, `KeepsThePromise` | one request, eight questions, four rows and their absence, two days, every interleaving |
| `lookup_pair` | `SameFieldSameValue`, `EveryRequestIsAnswered` | two requests for one view of one person, competing for the loop |
| `rule_writing` | `EvaluateFindsItsArguments`, `ServedRulesReadDates`, `CallsReturnWhatTheTableSays`, `ReferencedFieldsSuffice` | every rule of up to five nodes, calls with none to three arguments |
| `unique_keys` | `TypeOK`, `RefusalsAreDeserved`, `NothingSlipsThrough`, `MergesMeanYaml` | every document of three mappings with two entries each |
| `startup` | `StartupTypeOK`, `ServesWhatItAccepted`, `ExitsAreDeserved`, `RepairedMeansServing` | every fault of environment and file, edits, kills, restarts and repairs |
| `gateway` | `GatewayTypeOK`, `OnlyTheTokenOpensTheSeams`, `LateRequestsShareTheEngine`, `FailuresAreLogged`, `KeepsTheContract` | two requests in a process that starts, dies and is edited; a third, where two race to build the engine |
| `telemetry` | `TelemetryTypeOK`, `OnlyTheDecidedLeaves`, `TagsStayWithTheirRequest`, `FailuresArriveLabelled` | two overlapping requests, all 18 settings |
| `midnight`, `overflow`, `function_name`, `date_provable`, `shadowing` | one statement of the documentation each | violated, see section 6 |

Properties, in words:

* `TypeOK`: types, and how far each handler is: only the holder of the loop
  computes, the row read was current while the request was open, `computed` and
  `pending` together are `needed`.
* `WorkIsExplained`: in the middle of the rounds, for some choice of days, `computed`
  and `answer` are the meanings of the fields passed, and none failed. It is the
  inductive invariant behind the next two.
* `KeepsThePromise`: the handler implements the contract.
* `RoundOneFeedsRoundTwo`: when round two reaches a payload, each derived field its
  rule names is in `computed`.
* `PayloadsAgreeWithDerived`: the payload of a response was computed from the very
  values the response reports, across midnight too. Stated for derived fields
  declared `DATETIME`, whose wire form reads back.
* `NotComputableBlamesTheRow`: a named 500 is due to a stored field declared
  `DATETIME` that is not a date.
* `SameFieldSameValue`: two requests that were answered from one version of the row on one
  day report the same value of a field, whatever else each of them asked for.
* `EveryRequestIsAnswered`: liveness.
* `EvaluateFindsItsArguments`: what `parse_rule` returns calls each function with the arguments
  `evaluate` takes apart by position, none too few and none that it would ignore.
* `ServedRulesReadDates`, `CallsReturnWhatTheTableSays`, `ReferencedFieldsSuffice`:
  an accepted rule raises no `RuleError` on a well-typed row; a call yields `null`
  or the type of the table; the producers' contract is enough.
* `RefusalsAreDeserved`, `NothingSlipsThrough`: no mapping is rewritten before it is
  scanned, a refusal is about a key repeated in the file, and a document that loads
  repeats none anywhere.
* `MergesMeanYaml`: the loaded data is the `Meaning` of the document as written, which `Denotes` states
  key by key, by recursion over the merges and without flattening: the first source that has the key, unless
  two `<<` of one mapping contend for it (`Contended`), of which the property says nothing (section 6).
* `ServesWhatItAccepted`: through edits and restarts, what is served is what this process
  read, usable and `Accepted`.
* `ExitsAreDeserved`: a process nobody killed ended for its settings or its file.
* `RepairedMeansServing`: liveness.
* `OnlyTheTokenOpensTheSeams`: a request that holds a configuration or an engine, or
  builds one, presented the token the process read.
* `LateRequestsShareTheEngine`: the race of the first requests leaves one engine in use, whichever
  thread stores last.
* `FailuresAreLogged`: every 500, handled or not, has left a record; the unhandled one once it has been
  sent, unless the process dies first.
* `KeepsTheContract`: the refinement.
* `OnlyTheDecidedLeaves`: the kinds of data `docs/explanation.md` allows, and no other, on both
  channels.
* `TagsStayWithTheirRequest`: an exported pseudonym is that of the request it is about; a
  process that reports nowhere tags nothing.
* `FailuresArriveLabelled`: every 500 has an event, labelled when there is a salt.

**Bounds and why they suffice.** `MaxDay` bounds the clock: two days are what tells
a mixed answer from a plain one. Rows: a regular pass, one whose date is not ISO
(`RuleError`), an open-ended one (overflow), one without a date and with an empty name
(`null`, falsy value); each can replace each at any moment, and the row can vanish.
Questions: duplicates, none at all, an unknown field, an unknown view, a payload with
and without the derived field it reads, two derived reads of the clock. The handler
of one request meets other handlers at the loop only, and shares no data with them; two
requests therefore show every interference. They share one configuration of their own
(`PairConfigs`), with a stored, a derived and a payload field that reads it: what the pair is
about is the loop, and the other shapes of rules are the first run's. `MCConfigs` holds configurations that
startup must refuse, too. Five nodes is the smallest size at which a forwarding call
sits between a field and a date position next to another argument; `MaxArgs` bounds
variadic calls. `MCRuleWriting.cfg`, `MCDateProvable.cfg` and `MCShadowing.cfg` turn
off the deadlock check, since writing stops when the nodes are used up. `Lookup` is
never deadlocked, because producers can always write.

Three mappings are the fewest in which a source reached by an ordinary key, by a merge
and by a merge of a merge can be the same node; two entries each allow a repetition, an
override and two `<<`. The documents of the run have no merge cycle, since `Meaning` is not defined
there; the theorems about refusals cover them. `MCStartup` has every fault alone and combined
with every other; its state space has no bound but the sets. Requests share an engine and nothing else.
A race for it takes two requests that miss it and a third to tell which engine stays, so `MCSpec` of
`MCGateway` has three: the third comes only where all that happens is about the engine (`OnlyTheEngine`: every
call is a lookup with the token, of one deployment that nobody edits), and where it does not come the other
two make every call, in every deployment, under every edit. Two requests show every clash of two scopes. Calls and configurations of `MCGateway` are one of each kind the
contract tells apart, and two configurations and two tokens tell an edit from what was read.
`MCUniqueKeyLoader.cfg` and `MCTelemetry.cfg` turn off the deadlock check: a load ends, and so do
the requests. `Startup` and `Gateway` are never deadlocked, because an operator can
always edit.

**Fairness.** `Startup` has weak fairness of `Start`, the steps of `create_app`: it is one
sequential function without a wait. Launching is not assumed fair, so `RepairedMeansServing`
has it as a premise (`[]<>Running`, a runtime that restarts), and an exit by `Kill` as an
alternative. `Lookup`'s `Spec` has weak fairness of `Handle(r)`, everything one handler can
do. The event loop runs its ready handlers in turn, a handler that computes holds the
loop and has a step until it has responded, and the database driver returns a result or
raises. Requests, producers and the clock have none. Weak fairness suffices
although the loop may be taken away from a waiting handler: another handler keeps
it for finitely many steps and every request is made once.

## 4. What is proved

For every set of requests, configurations, rows and questions, with `tlapm`:

| Theorem | Module | States |
|---|---|---|
| `TypeCorrect` | `LookupProofs` | `Safety => []TypeOK` |
| `WorkExplained` | `PromiseProofs` | `Safety => []WorkIsExplained` |
| `RoundOneFeeds` | `PromiseProofs` | `Safety => []RoundOneFeedsRoundTwo` |
| `LookupKeepsThePromise` | `PromiseProofs` | `Safety => C!Safety`, the implementation of the contract |
| `EveryAnswerIsRight` | `PromiseProofs` | `Safety => []AnswersAreRight`, the promise as an invariant of states |
| `SameFieldSameAnswer`, `PayloadsAgree` | `PromiseProofs` | `Safety => []SameFieldSameValue`, `[]PayloadsAgreeWithDerived` |
| `NotComputableIsTheRowsFault` | `PromiseProofs` | `Safety => []NotComputableBlamesTheRow` |
| `ArgumentsAreFound` | `RuleWritingProofs` | `Spec => []EvaluateFindsItsArguments` |
| `TableAndEvaluatorAgree` | `RuleWritingProofs` | `Spec => []CallsReturnWhatTheTableSays` |
| `StartupCheckIsSound` | `RuleWritingProofs` | `Spec => []ServedRulesReadDates` |
| `ProducersWriteEnough` | `RuleWritingProofs` | `Spec => []ReferencedFieldsSuffice` |
| `LoaderTypeOK`, `LoaderRefusalsAreDeserved` | `UniqueKeyLoaderProofs` | `Spec => []TypeOK`, `[]RefusalsAreDeserved` |
| `LoaderLetsNothingThrough` | `UniqueKeyLoaderProofs` | `Spec => []NothingSlipsThrough` |
| `LoaderKeepsMeanings`, `LoaderMeansYaml` | `UniqueKeyLoaderProofs` | `Spec => []LoadedAsMeant`, as PyYAML means a document, and `[]MergesMeanYaml`, as documented |
| `ConstructedMappingsRepeatNothing` | `UniqueKeyLoaderProofs` | what was constructed and not refused repeats no key, without `RootedAssumption` |
| `StartupTypes`, `ServesOnlyWhatItAccepted`, `StartupFailsOnlyForCause` | `StartupProofs` | `Spec => []StartupTypeOK`, `[]ServesWhatItAccepted`, `[]ExitsAreDeserved` |
| `GatewayTypes`, `OnlyTheTokenOpens`, `LateRequestsShare`, `EveryFailureIsLogged` | `GatewayProofs` | `GatewaySpec =>` the four invariants of the run |
| `GatewayImplementsContract` | `GatewayProofs` | `GatewaySpec => Contract!Spec` |
| `TelemetryTypes`, `OnlyTheDecided`, `TagsStay`, `FailuresLabelled` | `TelemetryProofs` | `Spec =>` the four invariants of the run |

**Assumptions on constants.** `DayAssumption` (days lie in the date type), `RowsAssumption` (a row's
key exists for each question), `ValuesAssumption` (rows hold values, never exceptions),
`AskAssumption` (`fields` is a list of strings), `IdleAssumption`, `NotFlatAssumption` (function names are
flat), `LastDayAssumption`; `LeavesAssumption`, `FunctionsAssumption`, `DataAssumption` and
`TypedRowsAssumption` (names and literals, functions of the table, rows whose dates are dates),
`BoundsAssumption`; `NodesAssumption`, `DocumentAssumption`, `RootedAssumption`; `EnvironmentAssumption`,
`FileAssumption`, `EmptyAssumption` and `DeploymentsAssumption` (an empty cache is told from every entry),
`CallsAssumption`, `RequestsAssumption`, `NobodyAssumption`. TLC evaluates each of them.

**Hypotheses of single theorems.** Each is a hole of the startup check, or what a parser
guarantees; TLC finds the first six true of the instances whose runs pass.

* `NoFunctionNames`, in `PromiseProofs`: no derived field bears the name of a function. The
  run `function_name` is the counterexample without it.
* `SitesAreData(D)`, in `NotComputableIsTheRowsFault`: rules are trees of leaves and calls, and
  what they, the constants and the rows hold are data, as `ast.parse`, YAML and JSON give them.
* `SitesMeanDates`, in `NotComputableIsTheRowsFault`: a constant that stands in a date position is a date,
  a computed field that declares `DATETIME` has a rule that yields one, and no payload bears
  the name of a function. `validation.py:153` counts every constant as a date and
  `validation.py:39` takes a declared `DATETIME` at its word (section 6).
* `ConstantsReadAsDates`, in `StartupCheckIsSound`: the constants a rule may name read as dates, for
  the same reason.
* `NamesDoNotCollide`, in `ProducersWriteEnough`: no constant bears the name of a field or of a key of the
  row, and a row's key with the name of a function is a declared field. The run `shadowing` is
  the counterexample without it.
* `NoMergeGoesRound`, in `LoaderKeepsMeanings` and `LoaderMeansYaml`: no mapping merges itself by a detour, for then `Meaning` is
  not defined. PyYAML does load such a document, and the other theorems about the loader cover it.

**The promise.** `TypeOK` is inductive as it stands, since it relates `pc`, `loop`, `frame`
and the history; one lemma per action. The promise is not: a response is right for
a choice of days that nobody writes down while the handler runs. `WorkIsExplained` is
the strengthening: at every moment *some* choice of days explains the work done so
far. A turn of a loop extends that choice at the field it evaluates by the current
day, and changes the meaning of no other field, because a meaning depends on the
days of the rules it reads only (`MeaningReadsItsDays`, `OtherFieldsKeepTheirMeaning`)
and a payload is not read by a rule. `EvaluateReadsItsNames` bridges the one difference
between code and promise that remains, that the code hands *all* of `computed` to a
payload and the promise its inputs. `Right` then follows for each way a handler
ends. Up to here `Interpret` is never expanded: the results hold whatever the functions of the
language compute. `AnswersAreRight` repeats for every response what the contract says when it is
sent; from it `SameFieldSameAnswer` follows, because one version and one day leave one choice, and
`PayloadsAgree`, because a rule that reads dates has the same value whether it gets the date or
its wire form.

**The rule language.** `RuleProofs` proves the equations that define `Values`, `BestOf` and `Dated`: that
functions of this kind exist is itself an induction. The library's induction theorems take a
predicate as parameter, so induction is done with sets: a set of naturals that holds 0 and
the successor of each of its members is `Nat` (`Counting`), from the library's theorem that a well-founded
order has minimal elements. `TableAndEvaluatorAgree` goes through the functions of the table one by one.
`ArgumentsAreFound` rests on one fact about each function, that the arity in the table is the number of
arguments `evaluate` takes (`ArityIsTaken`). `StartupCheckIsSound` is an induction over the nodes of a
rule: no node is a `RuleError`, and a node `ProvablyDate` accepts reads as a date or crashes; the forwarding calls (`coalesce`, `min`,
`max`, `if_else`) are the steps that need both halves. `NotComputableIsTheRowsFault` carries this
through both rounds: the values of round one read as dates where they declare to, hence a `RuleError` in
either round comes from a stored field declared `DATETIME`.

**The loader.** Its invariant adds to the scan what the stack knows: whatever a running
call is about to flatten, its pending sources and the sources still in its node, is already scanned
(`CallsOK`). That is the comment "both callers below check before they delegate" as a
formula; without it a source could be rewritten before it is scanned.

`NothingLost` is added for `LoaderLetsNothingThrough`: an entry of a mapping is still in it, or is a `<<` whose
sources are scanned or pending; the mappings its flat entries name are constructed, waiting, or
among what a running call has inherited. When the load ends nothing is pending or running, so the
scanned mappings are closed under naming and, by `RootedAssumption`, all there are.

`MeaningKept` is added for `LoaderKeepsMeanings`. For each key, what a mapping holds at any moment, behind what a
running call has gathered for it so far (`Gathered`: inherited entries, then pending sources, then
those flattened before them), gives what the mapping means as written. "The later one wins"
is associative, and each step moves one bracket: `FirstMerge` when a `<<` is taken out,
`InheritingGathers` when a source returns. A second frame of one mapping on the stack would break it;
`SourceIsIdle` shows that it would close a circle of merges. That `Meaning` satisfies its own
equation (`SolutionExists`) is the recursion theorem for this case: the solutions on sets closed under
merging agree, their union is one, and no first mapping can be missing from it.

**The process.** `StartupInv` says what each step of `create_app` already holds (`Held`) and why the last process
ended. `GatewayInv` has, for each request, what its stage implies about its call
(`Underway`) and which errors it may be carrying (`Raised`), so that each response is
one of `Outcomes` when it is sent, steps later; that the caches answer for the deployed
settings is `ServingReadsTheCaches`. `SharingInv` follows an engine from its builder to the
cache. `TelemetryInv` says of each request that its scope and attributes are its own
(`Carried`) and of each export that it is `Sound`; one lemma, `EndStep`, serves every way
a request ends.

Only model-checked: `RepairedMeansServing` and `EveryRequestIsAnswered`. They are liveness under
fairness, which needs `ENABLED` and is beyond the installed provers. Every other property of a
passing run is stated by a theorem above. The five runs that expect a violation show counterexamples.

## 5. What is not modelled

* the time an unreachable collector holds up the end of the process
  (`observability.py:266-318` sets `OTEL_*` defaults): the durations are the SDK's, and a model
  would restate the two numbers the authors measured;
* a `.env` that pydantic-settings cannot decode, and `echo_sql` with a value that is no
  Boolean, which is one more way for `Settings` to be incomplete;
* the SDKs of Sentry and OpenTelemetry, PyYAML, pydantic, SQLAlchemy's pool:
  libraries;
* cancellation of a handler when its client disconnects: Starlette does not cancel a
  plain route;
* the comparison of two lists with `<`, nested dictionaries in a row, years before 1000
  in `strftime`, time of day;
* wording of problem documents, beyond the title and the field they name;
* `vocabulary.py`, a re-export.

## 6. Where the code and its documentation part

| Run | Statement | Behaviour |
|---|---|---|
| `midnight` | `docs/reference.md:357-358`, `today()` is "the day the request is evaluated" | one answer with `valid_until` of one day and a payload of the next |
| `overflow` | `docs/reference.md:138`, a rule that raised is "Derived field cannot be computed" | `add_days` on 9999-12-31 is the opaque internal error |
| `function_name` | `api/routers.py:94`, derived values "have to exist before any payload is evaluated" | a derived field called `first` is not computed for the payload that reads it |
| `date_provable` | `docs/reference.md:306-307`, an argument in a date position "provably yields a date" | `min(until, '2026-01-01')` passes the check and raises `TypeError` |
| `shadowing` | `validation.py:23`, "every field a producer must write" | a stored field with the name of a constant is left out |

Four more were met while modelling. They have no run of their own; the models contain the
behaviour, and what the properties say of it is said here:

* `validation.py:39`: `datetime_fields` trusts the kinds a computed field declares, so a derived
  field that declares `DATETIME` and yields a text passes startup and fails every
  request for a payload that reads it as a date; `api/routers.py:129-131` says this failure
  "lives in the row". `NotComputableBlamesTheRow` is checked and proved of configurations without
  such a field (`SitesMeanDates`).
* `config.py:120`: two `<<` keys in one mapping are accepted
  (`tests/test_config.py:185`); where both give a key the later one wins, while
  `docs/reference.md:334-335` says "the key is taken from the first source that has it".
  `MergesMeanYaml` leaves such documents out; `LoaderKeepsMeanings` says what they load as.
* `config.py:209`: a file whose top level or `views` is a list raises `AttributeError`, and one
  that may not be read `OSError` (`config.py:199`), past `except ConfigError`; `docs/reference.md:192` says
  the failure is a `StartupError`. It is the exit `other` of `Startup`, which `ExitsAreDeserved`
  admits, as the file is to blame, and the plain exception of `Refuse` in `Telemetry`.
* `api/dependencies.py:45`: a database URL that cannot be parsed is found by the first lookup,
  not by `create_app`. It is the 500 in `Outcomes` of `ServiceContract`.

## 7. Plan

Done: every component of section 1 except the vocabulary, the runs and theorems
above.

Left, in this order:

1. `Lookup` and `Gateway` under one roof: `Endpoint` replaced by the handler, so that
   `GatewayImplementsContract` and `LookupKeepsThePromise` speak of one response.
2. Lemmas about `rule_names`, `referenced_fields` and `datetime_fields` for configurations with several views.

## 8. Running

    tlc -config MCLookup.cfg MCLookup
    tlc -config MCRuleWriting.cfg MCRuleWriting
    tlc -config MCUniqueKeyLoader.cfg MCUniqueKeyLoader
    tlc -config MCStartup.cfg MCStartup
    tlc -config MCGateway.cfg MCGateway
    tlc -config MCTelemetry.cfg MCTelemetry
    tlapm LookupProofs.tla         # and the other *Proofs modules

`PROJECT.json` lists every run with its configuration, the lines of code each
definition stands for, and for each checked property a mutant of the code, an operator
beside its original in the module, that the property detects.
