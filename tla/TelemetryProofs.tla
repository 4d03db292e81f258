--------------------------- MODULE TelemetryProofs --------------------------
(***************************************************************************)
(* Proofs about Telemetry for any number of requests and persons and every *)
(* setting of the two backends.                                            *)
(***************************************************************************)
EXTENDS Telemetry, TLAPS

\* Data that may leave, and that name nobody, or one person by a pseudonym.
Anonymous(data) == \A d \in data : d.kind \in Decided \ {"pseudonym"}
Own(data, p)    == \A d \in data : d.kind \in Decided /\ (d.kind = "pseudonym" => d = Pseudonym(p))

Person(r) == call[r].person

Types ==
    /\ settings \in Settings
    /\ phase \in {"installing", "loading", "serving", "refused"}
    /\ reporting = (settings.dsn = "valid" /\ phase # "installing")
    /\ tracing \in BOOLEAN /\ (tracing => phase = "serving")
    /\ ambient = {}
    /\ call \in [Requests -> Calls]
    /\ stage \in [Requests -> {"idle", "solved", "checking", "querying", "fetched", "done"}]
    /\ DOMAIN scope = Requests /\ DOMAIN attributes = Requests
    /\ ended \in [Requests -> {0, 200, 400, 404, 422, 500}]

\* What a request carries is its own, and labelled once it is past the tag.
Carried(r) ==
    /\ Own(scope[r], Person(r)) /\ Own(attributes[r], Person(r))
    /\ stage[r] \in {"checking", "querying", "fetched"} /\ reporting /\ settings.salt = "set" =>
          Pseudonym(Person(r)) \in scope[r]
    /\ phase # "serving" => stage[r] = "idle"
    /\ stage[r] # "done" => ended[r] = 0

Sound(i) ==
    /\ i.to \in {"tracker", "collector"}
    /\ i.about \in Requests \cup {Nobody}
    /\ i.about = Nobody => Anonymous(i.data)
    /\ i.about \in Requests => Own(i.data, Person(i.about))
    /\ i.to = "tracker" /\ i.about \in Requests /\ settings.salt = "set" =>
          Pseudonym(Person(i.about)) \in i.data

Arrived(r) ==
    ended[r] = 500 /\ reporting => \E i \in exported : i.to = "tracker" /\ i.about = r

TelemetryInv ==
    /\ Types
    /\ \A r \in Requests : Carried(r) /\ Arrived(r)
    /\ \A i \in exported : Sound(i)

-----------------------------------------------------------------------------
LEMMA PseudonymIsOwn ==
    ASSUME NEW p
    PROVE  /\ Own(pseudonym(p), p)
           /\ settings.salt = "set" => Pseudonym(p) \in pseudonym(p)
  BY DEF pseudonym, Own, Pseudonym, Datum, Decided

LEMMA AnonymousIsOwn ==
    ASSUME NEW data, Anonymous(data), NEW p
    PROVE  Own(data, p)
  BY DEF Anonymous, Own, Decided

LEMMA OwnUnion ==
    ASSUME NEW d1, NEW d2, NEW p, Own(d1, p), Own(d2, p)
    PROVE  Own(d1 \cup d2, p)
  BY DEF Own

\* Whatever the arguments, what the mapper keeps of them is the caller's own
\* pseudonym and the shape.
LEMMA ScrubIsOwn ==
    ASSUME NEW c \in Calls
    PROVE  Own(scrub_request_attributes(c), c.person)
<1>1. ASSUME NEW a \in Arguments(c)
      PROVE  Own(CASE a.shape = "lookup" ->
                        {Plain("view"), Plain("field_count")} \cup pseudonym(c.person)
                   [] a.name = "view_type" /\ a.shape = "str" -> a.data
                   [] OTHER -> {}, c.person)
  <2>1. CASE a.shape = "lookup"
    <3>1. Own({Plain("view"), Plain("field_count")}, c.person)
      BY DEF Own, Plain, Datum, Decided
    <3>2. Own({Plain("view"), Plain("field_count")} \cup pseudonym(c.person), c.person)
      BY <3>1, PseudonymIsOwn, OwnUnion
    <3>3. a.name # "view_type" \/ a.shape # "str"
      BY <2>1
    <3>. QED
      BY <2>1, <3>2, <3>3
  <2>2. CASE a.name = "view_type" /\ a.shape = "str"
    <3>1. a.data = {Plain("view")}
      BY <2>2 DEF Arguments
    <3>2. Own(a.data, c.person)
      BY <3>1 DEF Own, Plain, Datum, Decided
    <3>. QED
      BY <2>2, <3>2
  <2>3. CASE a.shape # "lookup" /\ ~ (a.name = "view_type" /\ a.shape = "str")
    BY <2>3 DEF Own
  <2>. QED
    BY <2>1, <2>2, <2>3
<1>2. ASSUME NEW e \in Errors(c)
      PROVE  Own(e.type_loc, c.person)
  <2>1. e.type_loc = {Plain("location")}
    BY DEF Errors
  <2>. QED
    BY <2>1 DEF Own, Plain, Datum, Decided
<1>3. SUFFICES ASSUME NEW d \in scrub_request_attributes(c)
               PROVE  d.kind \in Decided /\ (d.kind = "pseudonym" => d = Pseudonym(c.person))
  BY DEF Own
<1>4. CASE \E a \in Arguments(c) :
              d \in CASE a.shape = "lookup" ->
                           {Plain("view"), Plain("field_count")} \cup pseudonym(c.person)
                      [] a.name = "view_type" /\ a.shape = "str" -> a.data
                      [] OTHER -> {}
  BY <1>1, <1>4 DEF Own
<1>5. CASE \E e \in Errors(c) : d \in e.type_loc
  BY <1>2, <1>5 DEF Own
<1>. QED
  BY <1>3, <1>4, <1>5, Zenon DEF scrub_request_attributes

LEMMA EventIsSound ==
    ASSUME TelemetryInv, NEW r \in Requests, NEW text, Own(text, Person(r)),
           settings.salt = "set" /\ reporting => Pseudonym(Person(r)) \in scope[r]
    PROVE  LET i == Event(r, Person(r), scope[r], text)
           IN  /\ i.to = "tracker" /\ i.about = r
               /\ reporting => Sound(i)
<1>. DEFINE i == Event(r, Person(r), scope[r], text)
<1>1. i.to = "tracker" /\ i.about = r /\ i.data = text \cup scope[r]
  BY DEF Event, sentry_options
<1>2. Own(scope[r], Person(r))
  BY DEF TelemetryInv, Carried
<1>3. Own(text \cup scope[r], Person(r))
  BY <1>2, OwnUnion
<1>4. r # Nobody
  BY NobodyAssumption
<1>5. reporting => Sound(i)
  <2>. HIDE DEF i
  <2>. QED
    BY <1>1, <1>3, <1>4 DEF Sound
<1>. QED
  BY <1>1, <1>5

LEMMA SpanIsSound ==
    ASSUME TelemetryInv, NEW r \in Requests, NEW text, Own(text, Person(r))
    PROVE  Sound(Span(r, text))
<1>. DEFINE i == Span(r, text)
<1>1. i.to = "collector" /\ i.about = r /\ i.data = attributes[r] \cup text
  BY DEF Span
<1>2. Own(attributes[r] \cup text, Person(r))
  BY OwnUnion DEF TelemetryInv, Carried
<1>3. r # Nobody
  BY NobodyAssumption
<1>. HIDE DEF i
<1>4. Sound(i)
  BY <1>1, <1>2, <1>3 DEF Sound
<1>. QED
  BY <1>4 DEF i

\* The one way a request ends: everything it exports is sound, and a 500
\* leaves an event.
LEMMA EndStep ==
    ASSUME TelemetryInv, NEW r \in Requests, stage[r] # "idle",
           NEW status \in {200, 400, 404, 422, 500}, NEW text, NEW events,
           End(r, status, text, events), Own(text, Person(r)),
           \A i \in events : i.to = "tracker" /\ i.about = r /\ (reporting => Sound(i)),
           status = 500 => events # {},
           UNCHANGED <<settings, phase, reporting, tracing, ambient, scope, call, attributes>>
    PROVE  TelemetryInv'
<1>1. /\ stage' = [stage EXCEPT ![r] = "done"] /\ ended' = [ended EXCEPT ![r] = status]
      /\ exported' = exported \cup (IF reporting THEN events ELSE {})
                              \cup (IF tracing THEN {Span(r, text)} ELSE {})
  BY DEF End, Export
<1>2. Types'
  BY <1>1 DEF TelemetryInv, Types
<1>3. ASSUME NEW q \in Requests
      PROVE  Carried(q)'
  BY <1>1 DEF TelemetryInv, Types, Carried, Person
<1>4. ASSUME NEW i \in exported'
      PROVE  Sound(i)'
  <2>1. Sound(i)
    BY <1>1, SpanIsSound DEF TelemetryInv
  <2>. QED
    BY <2>1 DEF Sound, Person
<1>5. ASSUME NEW q \in Requests
      PROVE  Arrived(q)'
  <2>1. CASE q # r
    BY <1>1, <2>1 DEF TelemetryInv, Types, Arrived
  <2>2. CASE q = r
    BY <1>1, <2>2 DEF TelemetryInv, Types, Arrived
  <2>. QED
    BY <2>1, <2>2
<1>. QED
  BY <1>2, <1>3, <1>4, <1>5 DEF TelemetryInv

LEMMA FailStep ==
    ASSUME TelemetryInv, NEW r \in Requests, stage[r] # "idle",
           NEW status \in {400, 404, 500}, NEW text, Fail(r, status, text), Anonymous(text),
           status = 500 => stage[r] \in {"checking", "querying", "fetched"},
           UNCHANGED <<settings, phase, reporting, tracing, ambient, scope, call, attributes>>
    PROVE  TelemetryInv'
<1>. DEFINE events == IF status = 500 THEN {Event(r, Person(r), scope[r], text)} ELSE {}
<1>1. End(r, status, text, events)
  BY DEF Fail, Person
<1>2. Own(text, Person(r))
  BY AnonymousIsOwn
<1>3. ASSUME NEW i \in events
      PROVE  i.to = "tracker" /\ i.about = r /\ (reporting => Sound(i))
  <2>1. i = Event(r, Person(r), scope[r], text) /\ status = 500
    OBVIOUS
  <2>2. settings.salt = "set" /\ reporting => Pseudonym(Person(r)) \in scope[r]
    BY <2>1 DEF TelemetryInv, Carried
  <2>. QED
    BY <1>2, <2>1, <2>2, EventIsSound
<1>4. status = 500 => events # {}
  OBVIOUS
<1>. HIDE DEF events
<1>. QED
  BY <1>1, <1>2, <1>3, <1>4, EndStep

LEMMA DerivationStep ==
    ASSUME TelemetryInv, NEW r \in Requests, stage[r] = "fetched", FailDerivation(r),
           UNCHANGED <<settings, phase, reporting, tracing, ambient, scope, call, attributes>>
    PROVE  TelemetryInv'
<1>. DEFINE text   == Chain(Failure, {})
            record == Failure \cup pseudonym(Person(r))
            events == {Event(r, Person(r), scope[r], record), Event(r, Person(r), scope[r], text)}
<1>1. End(r, 500, text, events)
  BY DEF FailDerivation, Person
<1>2. Own(Failure, Person(r)) /\ Own(text, Person(r))
  BY DEF Chain, Failure, Own, Plain, Datum, Decided
<1>3. Own(record, Person(r))
  BY <1>2, PseudonymIsOwn, OwnUnion
<1>. HIDE DEF text, record
<1>4. settings.salt = "set" /\ reporting => Pseudonym(Person(r)) \in scope[r]
  BY DEF TelemetryInv, Carried
<1>5. ASSUME NEW i \in events
      PROVE  i.to = "tracker" /\ i.about = r /\ (reporting => Sound(i))
  <2>1. i = Event(r, Person(r), scope[r], record) \/ i = Event(r, Person(r), scope[r], text)
    OBVIOUS
  <2>. QED
    BY <1>2, <1>3, <1>4, <2>1, EventIsSound
<1>6. events # {}
  OBVIOUS
<1>. HIDE DEF events
<1>. QED
  BY <1>1, <1>2, <1>5, <1>6, EndStep

\* A step of a request that exports nothing.
LEMMA QuietStep ==
    ASSUME TelemetryInv, NEW r \in Requests,
           NEW next \in {"solved", "checking", "querying", "fetched"}, stage[r] # "done",
           phase = "serving", stage' = [stage EXCEPT ![r] = next],
           DOMAIN scope' = Requests, DOMAIN attributes' = Requests,
           \A q \in Requests \ {r} : scope'[q] = scope[q] /\ attributes'[q] = attributes[q],
           Own(scope'[r], Person(r)), Own(attributes'[r], Person(r)),
           next # "solved" /\ reporting /\ settings.salt = "set" =>
              Pseudonym(Person(r)) \in scope'[r],
           UNCHANGED <<settings, phase, reporting, tracing, ambient, call, ended, exported>>
    PROVE  TelemetryInv'
<1>1. Types'
  BY DEF TelemetryInv, Types
<1>2. ASSUME NEW q \in Requests
      PROVE  Carried(q)'
  <2>1. CASE q # r
    BY <2>1 DEF TelemetryInv, Types, Carried, Person
  <2>2. CASE q = r
    BY <2>2 DEF TelemetryInv, Types, Carried, Person
  <2>. QED
    BY <2>1, <2>2
<1>3. ASSUME NEW q \in Requests
      PROVE  Arrived(q)'
  BY DEF TelemetryInv, Arrived
<1>4. ASSUME NEW i \in exported'
      PROVE  Sound(i)'
  BY DEF TelemetryInv, Sound, Person
<1>. QED
  BY <1>1, <1>2, <1>3, <1>4 DEF TelemetryInv

-----------------------------------------------------------------------------
LEMMA InitTelemetryInv == Init => TelemetryInv
<1>. SUFFICES ASSUME Init PROVE TelemetryInv
  OBVIOUS
<1>1. Types
  BY DEF Init, Types, Settings
<1>2. ASSUME NEW r \in Requests
      PROVE  Carried(r) /\ Arrived(r)
  BY DEF Init, Carried, Arrived, Own
<1>. QED
  BY <1>1, <1>2 DEF Init, TelemetryInv

LEMMA InstallStep ==
    ASSUME TelemetryInv, Install
    PROVE  TelemetryInv'
<1>1. Types'
  BY DEF TelemetryInv, Types, Install
<1>2. ASSUME NEW r \in Requests
      PROVE  Carried(r)' /\ Arrived(r)'
  BY DEF TelemetryInv, Types, Install, Carried, Arrived, Person
<1>3. ASSUME NEW i \in exported'
      PROVE  Sound(i)'
  BY DEF TelemetryInv, Install, Sound, Person
<1>. QED
  BY <1>1, <1>2, <1>3 DEF TelemetryInv

\* A failing start exports what its exception and that one's causes say.
LEMMA RefuseStep ==
    ASSUME TelemetryInv, Refuse
    PROVE  TelemetryInv'
<1>1. PICK text \in {Chain({Plain("variables")}, {}),
                     Chain({Plain("config_problem")}, {Plain("config_problem")}),
                     {Plain("exception")}} :
          Export({Event(Nobody, Nobody, ambient, text)}, {})
  BY DEF Refuse
<1>. DEFINE e == Event(Nobody, Nobody, ambient, text)
<1>2. Anonymous(text)
  BY DEF Chain, Anonymous, Plain, Datum, Decided
<1>3. ambient = {}
  BY DEF TelemetryInv, Types
<1>4. e.to = "tracker" /\ e.about = Nobody /\ e.data = text
  BY <1>3 DEF Event, sentry_options
<1>5. exported' \subseteq exported \cup {e} /\ exported \subseteq exported'
  BY <1>1 DEF Export
<1>. HIDE DEF e
<1>6. Sound(e)
  BY <1>2, <1>4, NobodyAssumption DEF Sound
<1>7. Types'
  BY DEF TelemetryInv, Types, Refuse
<1>8. ASSUME NEW r \in Requests
      PROVE  Carried(r)' /\ Arrived(r)'
  BY <1>5 DEF TelemetryInv, Types, Refuse, Carried, Arrived, Person
<1>9. ASSUME NEW i \in exported'
      PROVE  Sound(i)'
  <2>1. Sound(i)
    BY <1>5, <1>6 DEF TelemetryInv
  <2>. QED
    BY <2>1 DEF Sound, Person, Refuse
<1>. QED
  BY <1>7, <1>8, <1>9 DEF TelemetryInv

LEMMA ServeStep ==
    ASSUME TelemetryInv, Serve
    PROVE  TelemetryInv'
<1>1. Types'
  BY DEF TelemetryInv, Types, Serve, Settings
<1>2. ASSUME NEW r \in Requests
      PROVE  Carried(r)' /\ Arrived(r)'
  BY DEF TelemetryInv, Types, Serve, Carried, Arrived, Person
<1>3. ASSUME NEW i \in exported'
      PROVE  Sound(i)'
  BY DEF TelemetryInv, Serve, Sound, Person
<1>. QED
  BY <1>1, <1>2, <1>3 DEF TelemetryInv

LEMMA ArriveStep ==
    ASSUME TelemetryInv, NEW r \in Requests, Arrive(r)
    PROVE  TelemetryInv'
<1>1. call[r] \in Calls
  BY DEF TelemetryInv, Types
<1>2. Own(scrub_request_attributes(call[r]), Person(r))
  BY <1>1, ScrubIsOwn DEF Person
<1>. DEFINE kept == scrub_request_attributes(call[r])
<1>3. scope' = [scope EXCEPT ![r] = {}] /\ attributes' = [attributes EXCEPT ![r] = kept]
  BY DEF Arrive, TelemetryInv, Types
<1>. HIDE DEF kept
<1>4. /\ DOMAIN scope' = Requests /\ DOMAIN attributes' = Requests
      /\ \A q \in Requests \ {r} : scope'[q] = scope[q] /\ attributes'[q] = attributes[q]
      /\ scope'[r] = {} /\ attributes'[r] = kept
  BY <1>3 DEF TelemetryInv, Types
<1>5. Own(scope'[r], Person(r)) /\ Own(attributes'[r], Person(r))
  BY <1>2, <1>4 DEF Own, kept
<1>6. /\ stage[r] # "done" /\ phase = "serving" /\ stage' = [stage EXCEPT ![r] = "solved"]
      /\ UNCHANGED <<settings, phase, reporting, tracing, ambient, call, ended, exported>>
  BY DEF Arrive
<1>. QED
  BY <1>4, <1>5, <1>6, QuietStep

LEMMA BeginStep ==
    ASSUME TelemetryInv, NEW r \in Requests, Begin(r)
    PROVE  TelemetryInv'
<1>1. phase = "serving" /\ stage[r] # "done"
  BY DEF TelemetryInv, Carried, Begin
<1>2. /\ stage' = [stage EXCEPT ![r] = "checking"]
      /\ UNCHANGED <<settings, phase, reporting, tracing, ambient, call, attributes, ended, exported>>
  BY DEF Begin, set_tag
<1>. DEFINE tag == pseudonym(Person(r))
<1>3. Own(tag, Person(r)) /\ (settings.salt = "set" => Pseudonym(Person(r)) \in tag)
  BY PseudonymIsOwn
<1>4. scope' = IF reporting THEN [scope EXCEPT ![r] = @ \cup tag] ELSE scope
  BY DEF Begin, set_tag, Person
<1>. HIDE DEF tag
<1>5. Own(scope[r], Person(r)) /\ Own(attributes[r], Person(r))
  BY DEF TelemetryInv, Carried
<1>6. Own(scope[r] \cup tag, Person(r))
  BY <1>3, <1>5, OwnUnion
<1>7. /\ DOMAIN scope' = Requests
      /\ \A q \in Requests \ {r} : scope'[q] = scope[q]
      /\ scope'[r] = IF reporting THEN scope[r] \cup tag ELSE scope[r]
  BY <1>4 DEF TelemetryInv, Types
<1>8. Own(scope'[r], Person(r))
  BY <1>5, <1>6, <1>7
<1>9. reporting /\ settings.salt = "set" => Pseudonym(Person(r)) \in scope'[r]
  BY <1>3, <1>7
<1>10. DOMAIN attributes' = Requests /\ attributes' = attributes
  BY <1>2 DEF TelemetryInv, Types
<1>. QED
  BY <1>1, <1>2, <1>5, <1>7, <1>8, <1>9, <1>10, QuietStep

\* A step that only moves a lookup on.
LEMMA MoveStep ==
    ASSUME TelemetryInv, NEW r \in Requests,
           stage[r] \in {"checking", "querying", "fetched"},
           NEW next \in {"querying", "fetched"}, stage' = [stage EXCEPT ![r] = next],
           UNCHANGED <<ended, exported>>,
           UNCHANGED <<settings, phase, reporting, tracing, ambient, scope, call, attributes>>
    PROVE  TelemetryInv'
<1>1. phase = "serving" /\ stage[r] # "done"
  BY DEF TelemetryInv, Carried
<1>2. /\ DOMAIN scope' = Requests /\ DOMAIN attributes' = Requests
      /\ scope' = scope /\ attributes' = attributes
  BY DEF TelemetryInv, Types
<1>3. Own(scope'[r], Person(r)) /\ Own(attributes'[r], Person(r))
  BY <1>2 DEF TelemetryInv, Carried
<1>4. reporting /\ settings.salt = "set" => Pseudonym(Person(r)) \in scope'[r]
  BY <1>2 DEF TelemetryInv, Carried
<1>. QED
  BY <1>1, <1>2, <1>3, <1>4, QuietStep

\* An answer without an event.
LEMMA AnswerStep ==
    ASSUME TelemetryInv, NEW r \in Requests, stage[r] # "idle",
           NEW status \in {200, 422}, End(r, status, {}, {}),
           UNCHANGED <<settings, phase, reporting, tracing, ambient, scope, call, attributes>>
    PROVE  TelemetryInv'
<1>1. Own({}, Person(r))
  BY DEF Own
<1>. QED
  BY <1>1, EndStep

LEMMA TextsAreAnonymous ==
    /\ Anonymous(Chain({Plain("view")}, {Plain("view")}))
    /\ Anonymous({Plain("view"), Plain("fields")})
    /\ Anonymous({Plain("view")})
    /\ Anonymous({Plain("exception")})
    /\ \A p : Anonymous(StatementError(p))
  BY DEF Chain, StatementError, Anonymous, Plain, Datum, Decided

LEMMA RejectStep ==
    ASSUME TelemetryInv, NEW r \in Requests, Reject(r)
    PROVE  TelemetryInv'
  BY AnswerStep DEF Reject

LEMMA CatalogueStep ==
    ASSUME TelemetryInv, NEW r \in Requests, catalogue(r)
    PROVE  TelemetryInv'
<1>1. /\ stage[r] # "idle"
      /\ UNCHANGED <<settings, phase, reporting, tracing, ambient, scope, call, attributes>>
  BY DEF catalogue
<1>2. CASE End(r, 200, {}, {})
  BY <1>1, <1>2, AnswerStep
<1>3. CASE Fail(r, 404, Chain({Plain("view")}, {Plain("view")}))
  BY <1>1, <1>3, FailStep, TextsAreAnonymous
<1>. QED
  BY <1>2, <1>3 DEF catalogue

LEMMA CheckStep ==
    ASSUME TelemetryInv, NEW r \in Requests, Check(r)
    PROVE  TelemetryInv'
<1>1. /\ stage[r] = "checking"
      /\ UNCHANGED <<settings, phase, reporting, tracing, ambient, scope, call, attributes>>
  BY DEF Check
<1>2. CASE stage' = [stage EXCEPT ![r] = "querying"] /\ UNCHANGED <<ended, exported>>
  BY <1>1, <1>2, MoveStep
<1>3. CASE Fail(r, 404, Chain({Plain("view")}, {Plain("view")}))
  BY <1>1, <1>3, FailStep, TextsAreAnonymous
<1>4. CASE Fail(r, 400, {Plain("view"), Plain("fields")})
  BY <1>1, <1>4, FailStep, TextsAreAnonymous
<1>. QED
  BY <1>2, <1>3, <1>4 DEF Check

LEMMA FetchStep ==
    ASSUME TelemetryInv, NEW r \in Requests, Fetch(r)
    PROVE  TelemetryInv'
<1>1. /\ stage[r] = "querying"
      /\ UNCHANGED <<settings, phase, reporting, tracing, ambient, scope, call, attributes>>
  BY DEF Fetch
<1>2. CASE stage' = [stage EXCEPT ![r] = "fetched"] /\ UNCHANGED <<ended, exported>>
  BY <1>1, <1>2, MoveStep
<1>3. CASE Fail(r, 404, {Plain("view")})
  BY <1>1, <1>3, FailStep, TextsAreAnonymous
<1>4. CASE Fail(r, 500, StatementError(call[r].person))
  BY <1>1, <1>4, FailStep, TextsAreAnonymous
<1>. QED
  BY <1>2, <1>3, <1>4 DEF Fetch

LEMMA ComputeStep ==
    ASSUME TelemetryInv, NEW r \in Requests, Compute(r)
    PROVE  TelemetryInv'
<1>1. /\ stage[r] = "fetched"
      /\ UNCHANGED <<settings, phase, reporting, tracing, ambient, scope, call, attributes>>
  BY DEF Compute
<1>2. CASE End(r, 200, {}, {})
  BY <1>1, <1>2, AnswerStep
<1>3. CASE FailDerivation(r)
  BY <1>1, <1>3, DerivationStep
<1>4. CASE Fail(r, 500, {Plain("exception")})
  BY <1>1, <1>4, FailStep, TextsAreAnonymous
<1>. QED
  BY <1>2, <1>3, <1>4 DEF Compute

LEMMA StutterStep ==
    ASSUME TelemetryInv, UNCHANGED vars
    PROVE  TelemetryInv'
<1>1. Types'
  BY DEF TelemetryInv, Types, vars
<1>2. ASSUME NEW r \in Requests
      PROVE  Carried(r)' /\ Arrived(r)'
  BY DEF TelemetryInv, Carried, Arrived, Person, vars
<1>3. ASSUME NEW i \in exported'
      PROVE  Sound(i)'
  BY DEF TelemetryInv, Sound, Person, vars
<1>. QED
  BY <1>1, <1>2, <1>3 DEF TelemetryInv

LEMMA StepKeepsTelemetryInv == TelemetryInv /\ [Next]_vars => TelemetryInv'
<1>. SUFFICES ASSUME TelemetryInv, [Next]_vars PROVE TelemetryInv'
  OBVIOUS
<1>1. CASE Install
  BY <1>1, InstallStep
<1>2. CASE Refuse
  BY <1>2, RefuseStep
<1>3. CASE Serve
  BY <1>3, ServeStep
<1>4. ASSUME NEW r \in Requests, Arrive(r) \/ Reject(r) \/ catalogue(r) \/ lookup(r)
      PROVE  TelemetryInv'
  BY <1>4, ArriveStep, RejectStep, CatalogueStep, BeginStep, CheckStep, FetchStep, ComputeStep
     DEF lookup
<1>5. CASE UNCHANGED vars
  BY <1>5, StutterStep
<1>. QED
  BY <1>1, <1>2, <1>3, <1>4, <1>5 DEF Next

LEMMA TelemetryInvHolds == Spec => []TelemetryInv
  BY InitTelemetryInv, StepKeepsTelemetryInv, PTL DEF Spec

-----------------------------------------------------------------------------
\* The state of the two backends and of every request has its type, and there
\* is a client exactly when the DSN is a valid one.
THEOREM TelemetryTypes == Spec => []TelemetryTypeOK
<1>1. TelemetryInv => TelemetryTypeOK
  BY DEF TelemetryInv, Types, Carried, Sound, TelemetryTypeOK
<1>. QED
  BY <1>1, TelemetryInvHolds, PTL

\* No credential, person_uid, stored value or configuration leaves on either
\* way out, for any number of requests, persons and settings.
THEOREM OnlyTheDecided == Spec => []OnlyTheDecidedLeaves
<1>1. TelemetryInv => OnlyTheDecidedLeaves
  BY DEF TelemetryInv, Sound, OnlyTheDecidedLeaves, Own, Anonymous
<1>. QED
  BY <1>1, TelemetryInvHolds, PTL

\* A pseudonym is exported about its own request only, however the requests
\* overlap.
THEOREM TagsStay == Spec => []TagsStayWithTheirRequest
<1>1. TelemetryInv => TagsStayWithTheirRequest
  BY DEF TelemetryInv, Types, Sound, TagsStayWithTheirRequest, Own, Anonymous, Person
<1>. QED
  BY <1>1, TelemetryInvHolds, PTL

\* Every 500 of a reporting process has an event, labelled when it can be.
THEOREM FailuresLabelled == Spec => []FailuresArriveLabelled
<1>1. TelemetryInv => FailuresArriveLabelled
  <2>. SUFFICES ASSUME TelemetryInv, NEW r \in Requests, ended[r] = 500, reporting
                PROVE  LET events == {i \in exported : i.to = "tracker" /\ i.about = r}
                       IN  /\ events # {}
                           /\ settings.salt = "set" =>
                                  \A i \in events : Pseudonym(call[r].person) \in i.data
    BY DEF FailuresArriveLabelled
  <2>1. \E i \in exported : i.to = "tracker" /\ i.about = r
    BY DEF TelemetryInv, Arrived
  <2>2. ASSUME settings.salt = "set", NEW i \in exported, i.to = "tracker" /\ i.about = r
        PROVE  Pseudonym(call[r].person) \in i.data
    BY <2>2 DEF TelemetryInv, Sound, Person
  <2>. QED
    BY <2>1, <2>2
<1>. QED
  BY <1>1, TelemetryInvHolds, PTL

=============================================================================
