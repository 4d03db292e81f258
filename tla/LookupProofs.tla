---------------------------- MODULE LookupProofs ----------------------------
(***************************************************************************)
(* Proofs about Lookup for every set of requests, configurations, rows and *)
(* questions.  What evaluate() computes is never looked into: the results  *)
(* hold whatever the rules mean.                                           *)
(***************************************************************************)
EXTENDS Lookup, TLAPS

\* A request whose variables a step leaves alone keeps its stage.
LEMMA StagedStable ==
    ASSUME NEW q \in Requests, Staged(q), TypeOK,
           config' = config, db' = db, today' = today,
           ask'[q] = ask[q], pc'[q] = pc[q], response'[q] = response[q],
           frame'[q] = frame[q], seen'[q] = seen[q], since'[q] = since[q],
           loop' = q <=> loop = q
    PROVE  Staged(q)'
  BY DEF Staged, needed, View

\* Respond ends one handler and touches no other.
LEMMA RespondKeepsTypeOK ==
    ASSUME TypeOK, NEW r \in Requests, NEW resp, Respond(r, resp),
           resp \notin {Unsent, Open}, loop \in {r, Idle}, pc[r] # "idle",
           UNCHANGED <<environment, history, ask>>
    PROVE  TypeOK'
<1>1. /\ config' = config /\ today' = today /\ db' = db
      /\ seen' = seen /\ since' = since /\ ask' = ask
  BY DEF environment, history
<1>2. /\ DOMAIN response' = Requests /\ DOMAIN frame' = Requests
      /\ pc' \in [Requests -> {"idle", "received", "querying", "fetched", "computing", "done"}]
      /\ loop' = Idle
  BY DEF TypeOK, Respond
<1>3. ASSUME NEW q \in Requests
      PROVE  Staged(q)'
  <2>1. CASE q = r
    <3>1. pc'[q] = "done" /\ response'[q] = resp
      BY <2>1 DEF TypeOK, Respond
    <3>2. Idle \notin Requests
      BY IdleAssumption
    <3>. QED
      BY <1>1, <1>2, <2>1, <3>1, <3>2 DEF TypeOK, Staged
  <2>2. CASE q # r
    <3>1. /\ pc'[q] = pc[q] /\ response'[q] = response[q] /\ frame'[q] = frame[q]
      BY <2>2 DEF TypeOK, Respond
    <3>2. loop # q /\ loop' # q
      BY <1>2, <2>2, IdleAssumption DEF TypeOK
    <3>. QED
      BY <1>1, <3>1, <3>2, StagedStable DEF TypeOK
  <2>. QED
    BY <2>1, <2>2
<1>. QED
  BY <1>1, <1>2, <1>3 DEF TypeOK

LEMMA InitTypeOK == Init => TypeOK
<1>. SUFFICES ASSUME Init PROVE TypeOK
  OBVIOUS
<1>1. today \in FirstDay .. MaxDay /\ FirstDay \in FirstDay .. MaxDay
  BY DayAssumption, LastDayAssumption DEF Init
<1>2. ASSUME NEW r \in Requests
      PROVE  Staged(r)
  BY <1>1, IdleAssumption DEF Init, Staged, Unsent, Open
<1>. QED
  BY <1>1, <1>2 DEF Init, TypeOK

\* Every response is a response: neither of the two marks for its absence.
LEMMA ResponsesAreAnswers ==
    /\ UnknownViewType \notin {Unsent, Open}
    /\ UnknownField \notin {Unsent, Open}
    /\ UnknownPerson \notin {Unsent, Open}
    /\ \A ans : Found(ans) \notin {Unsent, Open}
    /\ \A f : NotComputable(f) \notin {Unsent, Open}
    /\ \A cause : InternalError(cause) \notin {Unsent, Open}
  BY ZenonT(60) DEF UnknownViewType, UnknownField, UnknownPerson, Found, NotComputable,
         InternalError, Unsent, Open

LEMMA ReceiveKeepsTypeOK ==
    ASSUME TypeOK, NEW r \in Requests, NEW a \in Asks, Receive(r, a)
    PROVE  TypeOK'
<1>1. /\ config' = config /\ today' = today /\ db' = db /\ loop' = loop /\ frame' = frame
  BY DEF Receive, environment
<1>2. db[KeyOf(a)] \in RowOrNone
  BY RowsAssumption DEF TypeOK
<1>3. /\ ask' \in [Requests -> Asks \cup {NoAsk}]
      /\ pc' \in [Requests -> {"idle", "received", "querying", "fetched", "computing", "done"}]
      /\ seen' \in [Requests -> SUBSET RowOrNone]
      /\ since' \in [Requests -> FirstDay .. MaxDay]
      /\ DOMAIN response' = Requests
  BY <1>2 DEF TypeOK, Receive
<1>4. ASSUME NEW q \in Requests
      PROVE  Staged(q)'
  <2>1. CASE q = r
    BY <1>1, <2>1 DEF TypeOK, Receive, Staged, Unsent, Open
  <2>2. CASE q # r
    <3>1. /\ ask'[q] = ask[q] /\ pc'[q] = pc[q] /\ response'[q] = response[q]
          /\ seen'[q] = seen[q] /\ since'[q] = since[q]
      BY <2>2 DEF TypeOK, Receive
    <3>. QED
      BY <1>1, <3>1, StagedStable DEF TypeOK
  <2>. QED
    BY <2>1, <2>2
<1>. QED
  BY <1>1, <1>3, <1>4 DEF TypeOK

LEMMA CheckKeepsTypeOK ==
    ASSUME TypeOK, NEW r \in Requests, Check(r)
    PROVE  TypeOK'
<1>1. CASE Respond(r, UnknownViewType) \/ Respond(r, UnknownField)
  BY <1>1, RespondKeepsTypeOK, ResponsesAreAnswers DEF Check
<1>2. CASE /\ ask[r].view \in DOMAIN config.views
           /\ ToSet(ask[r].fields) \subseteq DOMAIN Catalogue(config, ask[r].view)
           /\ pc' = [pc EXCEPT ![r] = "querying"]
           /\ UNCHANGED <<loop, frame, response>>
  <2>1. /\ config' = config /\ today' = today /\ db' = db
        /\ seen' = seen /\ since' = since /\ ask' = ask
    BY DEF Check, environment, history
  <2>2. ToSet(ask[r].fields) \subseteq Declared(View(r))
    BY <1>2 DEF Catalogue, View
  <2>3. ASSUME NEW q \in Requests
        PROVE  Staged(q)'
    <3>1. CASE q = r
      BY <1>2, <2>1, <2>2, <3>1 DEF TypeOK, Check, Staged, View
    <3>2. CASE q # r
      <4>1. pc'[q] = pc[q]
        BY <1>2, <3>2 DEF TypeOK
      <4>. QED
        BY <1>2, <2>1, <4>1, StagedStable DEF TypeOK
    <3>. QED
      BY <3>1, <3>2
  <2>. QED
    BY <1>2, <2>1, <2>3 DEF TypeOK
<1>. QED
  BY <1>1, <1>2 DEF Check

LEMMA PersonViewKeepsTypeOK ==
    ASSUME TypeOK, NEW r \in Requests, person_view(r)
    PROVE  TypeOK'
<1>1. /\ config' = config /\ today' = today /\ db' = db
      /\ seen' = seen /\ since' = since /\ ask' = ask /\ response' = response /\ loop' = loop
  BY DEF person_view, environment, history
<1>2. /\ pc' \in [Requests -> {"idle", "received", "querying", "fetched", "computing", "done"}]
      /\ DOMAIN frame' = Requests
  BY DEF TypeOK, person_view
<1>3. ASSUME NEW q \in Requests
      PROVE  Staged(q)'
  <2>1. CASE q = r
    BY <1>1, <2>1 DEF TypeOK, person_view, Staged, Frame, View
  <2>2. CASE q # r
    <3>1. pc'[q] = pc[q] /\ frame'[q] = frame[q]
      BY <2>2 DEF TypeOK, person_view
    <3>. QED
      BY <1>1, <3>1, StagedStable DEF TypeOK
  <2>. QED
    BY <2>1, <2>2
<1>. QED
  BY <1>1, <1>2, <1>3 DEF TypeOK

LEMMA QueryFailsKeepsTypeOK ==
    ASSUME TypeOK, NEW r \in Requests, QueryFails(r)
    PROVE  TypeOK'
  BY RespondKeepsTypeOK, ResponsesAreAnswers DEF QueryFails

LEMMA ResumeKeepsTypeOK ==
    ASSUME TypeOK, NEW r \in Requests, Resume(r)
    PROVE  TypeOK'
<1>1. CASE Respond(r, UnknownPerson)
  BY <1>1, RespondKeepsTypeOK, ResponsesAreAnswers DEF Resume
<1>2. CASE /\ frame[r].payload # NoRow
           /\ pc' = [pc EXCEPT ![r] = "computing"]
           /\ loop' = r
           /\ frame' = [frame EXCEPT ![r] = Frame(frame[r].payload, needed(r))]
           /\ UNCHANGED response
  <2>1. /\ config' = config /\ today' = today /\ db' = db
        /\ seen' = seen /\ since' = since /\ ask' = ask
        /\ pc[r] = "fetched" /\ loop = Idle
    BY DEF Resume, environment, history
  <2>2. frame'[r] = Frame(frame[r].payload, needed(r)) /\ pc'[r] = "computing"
    BY <1>2 DEF TypeOK
  <2>3. ASSUME NEW q \in Requests
        PROVE  Staged(q)'
    <3>1. CASE q = r
      <4>1. frame'[r].pending = needed(r) /\ DOMAIN frame'[r].computed = {}
        BY <2>2 DEF Frame, EmptyDict
      <4>2. frame'[r].payload = frame[r].payload /\ frame'[r].at = 1
        BY <2>2 DEF Frame
      <4>3. needed(r)' = needed(r) /\ View(r)' = View(r)
        BY <2>1 DEF needed, View
      <4>. QED
        BY <1>2, <2>1, <2>2, <3>1, <4>1, <4>2, <4>3 DEF TypeOK, Staged
    <3>2. CASE q # r
      <4>1. pc'[q] = pc[q] /\ frame'[q] = frame[q]
        BY <1>2, <3>2 DEF TypeOK
      <4>2. loop # q /\ loop' # q
        BY <1>2, <2>1, <3>2, IdleAssumption
      <4>. QED
        BY <1>2, <2>1, <4>1, <4>2, StagedStable DEF TypeOK
    <3>. QED
      BY <3>1, <3>2
  <2>. QED
    BY <1>2, <2>1, <2>3 DEF TypeOK
<1>. QED
  BY <1>1, <1>2 DEF Resume

LEMMA FailWithKeepsTypeOK ==
    ASSUME TypeOK, NEW r \in Requests, NEW name, NEW failure, FailWith(r, name, failure),
           loop \in {r, Idle}, pc[r] # "idle", UNCHANGED <<environment, history, ask>>
    PROVE  TypeOK'
<1>1. PICK resp : Respond(r, resp) /\ resp \notin {Unsent, Open}
  BY ResponsesAreAnswers DEF FailWith
<1>. QED
  BY <1>1, RespondKeepsTypeOK

\* A turn of a loop that does not fail changes the frame of its handler only.
LEMMA TurnKeepsTypeOK ==
    ASSUME TypeOK, NEW r \in Requests, pc[r] = "computing",
           UNCHANGED <<environment, history, ask, response, pc, loop>>,
           DOMAIN frame' = Requests, \A q \in Requests : q # r => frame'[q] = frame[q],
           frame'[r].payload = frame[r].payload,
           frame'[r].pending \cup DOMAIN frame'[r].computed = needed(r),
           frame'[r].at \in Nat \ {0}
    PROVE  TypeOK'
<1>1. /\ config' = config /\ today' = today /\ db' = db /\ seen' = seen /\ since' = since
      /\ ask' = ask /\ response' = response /\ pc' = pc /\ loop' = loop
  BY DEF environment, history
<1>2. ASSUME NEW q \in Requests
      PROVE  Staged(q)'
  <2>1. CASE q = r
    <3>1. needed(r)' = needed(r) /\ View(r)' = View(r)
      BY <1>1 DEF needed, View
    <3>. QED
      BY <1>1, <2>1, <3>1 DEF TypeOK, Staged
  <2>2. CASE q # r
    BY <1>1, <2>2, StagedStable DEF TypeOK
  <2>. QED
    BY <2>1, <2>2
<1>. QED
  BY <1>1, <1>2 DEF TypeOK

LEMMA RoundOneKeepsTypeOK ==
    ASSUME TypeOK, NEW r \in Requests, RoundOne(r)
    PROVE  TypeOK'
<1>1. PICK name, value :
          /\ name \in frame[r].pending
          /\ \/ FailWith(r, name, value)
             \/ /\ frame' = [frame EXCEPT ![r].pending = @ \ {name},
                                          ![r].computed = Put(@, name, value)]
                /\ UNCHANGED <<response, pc, loop>>
  BY DEF RoundOne
<1>2. loop = r /\ pc[r] = "computing" /\ UNCHANGED <<environment, history, ask>>
  BY DEF RoundOne, TypeOK, Staged
<1>3. CASE FailWith(r, name, value)
  BY <1>2, <1>3, FailWithKeepsTypeOK
<1>4. CASE /\ frame' = [frame EXCEPT ![r].pending = @ \ {name},
                                     ![r].computed = Put(@, name, value)]
           /\ UNCHANGED <<response, pc, loop>>
  <2>1. /\ frame[r].pending \cup DOMAIN frame[r].computed = needed(r)
        /\ frame[r].at \in Nat \ {0}
        /\ DOMAIN frame = Requests
    BY <1>2 DEF TypeOK, Staged
  <2>2. DOMAIN Put(frame[r].computed, name, value) = {name} \cup DOMAIN frame[r].computed
    BY DEF Put
  <2>3. /\ DOMAIN frame' = Requests
        /\ \A q \in Requests : q # r => frame'[q] = frame[q]
        /\ frame'[r].payload = frame[r].payload /\ frame'[r].at = frame[r].at
        /\ frame'[r].pending = frame[r].pending \ {name}
        /\ frame'[r].computed = Put(frame[r].computed, name, value)
    BY <1>4, <2>1
  <2>4. frame'[r].pending \cup DOMAIN frame'[r].computed = needed(r)
    BY <1>1, <2>1, <2>2, <2>3
  <2>. QED
    BY <1>2, <1>4, <2>1, <2>3, <2>4, TurnKeepsTypeOK
<1>. QED
  BY <1>1, <1>3, <1>4

LEMMA RoundTwoKeepsTypeOK ==
    ASSUME TypeOK, NEW r \in Requests, RoundTwo(r)
    PROVE  TypeOK'
<1>1. PICK key, value :
          \/ FailWith(r, key, value)
          \/ /\ frame' = [frame EXCEPT ![r].answer = Including(@, key, value), ![r].at = @ + 1]
             /\ UNCHANGED <<response, pc, loop>>
  BY DEF RoundTwo
<1>2. loop = r /\ pc[r] = "computing" /\ UNCHANGED <<environment, history, ask>>
  BY DEF RoundTwo, TypeOK, Staged
<1>3. CASE FailWith(r, key, value)
  BY <1>2, <1>3, FailWithKeepsTypeOK
<1>4. CASE /\ frame' = [frame EXCEPT ![r].answer = Including(@, key, value), ![r].at = @ + 1]
           /\ UNCHANGED <<response, pc, loop>>
  <2>1. /\ frame[r].pending \cup DOMAIN frame[r].computed = needed(r)
        /\ frame[r].at \in Nat \ {0}
        /\ DOMAIN frame = Requests
    BY <1>2 DEF TypeOK, Staged
  <2>2. /\ DOMAIN frame' = Requests
        /\ \A q \in Requests : q # r => frame'[q] = frame[q]
        /\ frame'[r].payload = frame[r].payload /\ frame'[r].at = frame[r].at + 1
        /\ frame'[r].pending = frame[r].pending
        /\ frame'[r].computed = frame[r].computed
    BY <1>4, <2>1
  <2>. QED
    BY <1>2, <1>4, <2>1, <2>2, TurnKeepsTypeOK
<1>. QED
  BY <1>1, <1>3, <1>4

LEMMA ReturnKeepsTypeOK ==
    ASSUME TypeOK, NEW r \in Requests, Return(r)
    PROVE  TypeOK'
<1>1. loop = r
  BY DEF Return, TypeOK, Staged
<1>. QED
  BY <1>1, RespondKeepsTypeOK, ResponsesAreAnswers DEF Return

LEMMA ProduceKeepsTypeOK ==
    ASSUME TypeOK, NEW k \in DOMAIN Rows, NEW row \in Rows[k] \cup {NoRow}, Produce(k, row)
    PROVE  TypeOK'
<1>1. /\ config' = config /\ today' = today /\ pc' = pc /\ loop' = loop /\ frame' = frame
      /\ since' = since /\ ask' = ask /\ response' = response
  BY DEF Produce, handler
<1>2. row \in RowOrNone
  BY DEF RowOrNone
<1>3. db' \in [DOMAIN Rows -> RowOrNone] /\ seen' \in [Requests -> SUBSET RowOrNone]
  BY <1>2 DEF Produce, TypeOK
<1>4. ASSUME NEW q \in Requests
      PROVE  Staged(q)'
  <2>1. seen[q] \subseteq seen'[q]
    BY DEF Produce
  <2>2. pc[q] \notin {"idle", "done"} => db'[KeyOf(ask[q])] \in seen'[q]
    <3>1. ASSUME pc[q] \notin {"idle", "done"}
          PROVE  db'[KeyOf(ask[q])] \in seen'[q]
      <4>1. response[q] = Open /\ ask[q] \in Asks /\ db[KeyOf(ask[q])] \in seen[q]
        BY <3>1 DEF TypeOK, Staged
      <4>2. KeyOf(ask[q]) \in DOMAIN Rows
        BY <4>1, RowsAssumption
      <4>3. CASE KeyOf(ask[q]) = k
        BY <4>1, <4>2, <4>3 DEF Produce, TypeOK
      <4>4. CASE KeyOf(ask[q]) # k
        BY <2>1, <4>1, <4>2, <4>4 DEF Produce, TypeOK
      <4>. QED
        BY <4>3, <4>4
    <3>. QED
      BY <3>1
  <2>3. needed(q)' = needed(q) /\ View(q)' = View(q)
    BY <1>1 DEF needed, View
  <2>. QED
    BY <1>1, <2>1, <2>2, <2>3 DEF TypeOK, Staged
<1>. QED
  BY <1>1, <1>3, <1>4 DEF TypeOK

LEMMA NextDayKeepsTypeOK ==
    ASSUME TypeOK, NextDay
    PROVE  TypeOK'
<1>1. /\ config' = config /\ db' = db /\ pc' = pc /\ loop' = loop /\ frame' = frame
      /\ seen' = seen /\ since' = since /\ ask' = ask /\ response' = response
  BY DEF NextDay, handler, history
<1>2. FirstDay \in Int /\ MaxDay \in Int
  BY DayAssumption, LastDayAssumption
<1>3. today' \in FirstDay .. MaxDay /\ today' = today + 1 /\ today \in Int
  BY <1>2 DEF NextDay, TypeOK
<1>4. ASSUME NEW q \in Requests
      PROVE  Staged(q)'
  <2>1. since[q] <= today'
    BY <1>2, <1>3 DEF TypeOK, Staged
  <2>2. needed(q)' = needed(q) /\ View(q)' = View(q)
    BY <1>1 DEF needed, View
  <2>. QED
    BY <1>1, <2>1, <2>2 DEF TypeOK, Staged
<1>. QED
  BY <1>1, <1>3, <1>4 DEF TypeOK

LEMMA StepKeepsTypeOK == TypeOK /\ [Next]_vars => TypeOK'
<1>. SUFFICES ASSUME TypeOK, [Next]_vars PROVE TypeOK'
  OBVIOUS
<1>1. CASE \E r \in Requests, a \in Asks : Receive(r, a)
  BY <1>1, ReceiveKeepsTypeOK
<1>2. CASE \E r \in Requests : Handle(r)
  BY <1>2, CheckKeepsTypeOK, PersonViewKeepsTypeOK, QueryFailsKeepsTypeOK, ResumeKeepsTypeOK,
     RoundOneKeepsTypeOK, RoundTwoKeepsTypeOK, ReturnKeepsTypeOK DEF Handle
<1>3. CASE \E k \in DOMAIN Rows : \E row \in Rows[k] \cup {NoRow} : Produce(k, row)
  BY <1>3, ProduceKeepsTypeOK
<1>4. CASE NextDay
  BY <1>4, NextDayKeepsTypeOK
<1>5. CASE UNCHANGED vars
  <2>1. /\ config' = config /\ today' = today /\ db' = db /\ pc' = pc /\ loop' = loop
        /\ frame' = frame /\ seen' = seen /\ since' = since /\ ask' = ask
        /\ response' = response
    BY <1>5 DEF vars, environment, handler, history
  <2>2. \A q \in Requests : Staged(q)'
    BY <2>1, StagedStable DEF TypeOK
  <2>. QED
    BY <2>1, <2>2 DEF TypeOK
<1>. QED
  BY <1>1, <1>2, <1>3, <1>4, <1>5 DEF Next

\* Whatever the configuration, the rows and the interleaving: every variable
\* keeps its type and the parts of one request agree on how far it is
\* (api/routers.py, lookup).
THEOREM TypeCorrect == Safety => []TypeOK
<1>. QED
  BY InitTypeOK, StepKeepsTypeOK, PTL DEF Safety

=============================================================================
