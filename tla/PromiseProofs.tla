---------------------------- MODULE PromiseProofs ----------------------------
(***************************************************************************)
(* The handler keeps the promise of LookupContract, for every set of       *)
(* requests, configurations, rows and questions, provided that no derived  *)
(* field has the name of a function of the rule language: the one hole in  *)
(* the startup validation that the model checker finds.                    *)
(*                                                                         *)
(* The inductive invariant is TypeOK /\ WorkIsExplained: a handler at work *)
(* has computed what the documentation says, each rule on some day since   *)
(* the request.  A step that evaluates a rule extends the choice of days   *)
(* by the day it evaluates on, and leaves the meaning of every other field *)
(* alone because a meaning depends on the days of the rules it reads only. *)
(*                                                                         *)
(* From the promise follows what it means for the answers: one row and one *)
(* day give one value, whatever else was asked for, and a payload agrees   *)
(* with the derived fields beside it.  That a failure is the row's fault   *)
(* needs more than the promise: the soundness of the startup check, from   *)
(* RuleProofs, carried through both rounds.                                *)
(***************************************************************************)
EXTENDS LookupProofs, RuleProofs

\* The hypothesis of every result about answers: no derived field bears the name
\* of a function.
NoFunctionNames ==
    \A c \in Configs : \A v \in DOMAIN c.views :
        DOMAIN c.views[v].derived \cap DOMAIN FUNCTIONS = {}

-----------------------------------------------------------------------------
(* Rules *)

\* The values a rule's names have in `computed`.
Read(rule, computed) == [n \in NamesIn(rule) \cap DOMAIN computed |-> computed[n]]

\* Evaluating a rule reads of the earlier values only those it names.
LEMMA EvaluateReadsItsNames ==
    ASSUME NEW rule, NEW row, NEW constants, NEW dates, NEW day, NEW computed
    PROVE  Evaluate(rule, row, constants, dates, day, Read(rule, computed))
               = Evaluate(rule, row, constants, dates, day, computed)
<1>. DEFINE read == Read(rule, computed)
<1>1. /\ DOMAIN read = NamesIn(rule) \cap DOMAIN computed
      /\ \A n \in DOMAIN read : read[n] = computed[n]
  BY DEF Read
<1>2. ASSUME NEW id \in NamesIn(rule)
      PROVE  ResolveName(id, row, constants, dates, read)
                 = ResolveName(id, row, constants, dates, computed)
  <2>. HIDE DEF read
  <2>. QED
    BY <1>1 DEF ResolveName
<1>3. NamesIn(rule) \cap (DOMAIN row \cup DOMAIN read)
          = NamesIn(rule) \cap (DOMAIN row \cup DOMAIN computed)
  BY <1>1
<1>4. [id \in NamesIn(rule) |-> ResolveName(id, row, constants, dates, read)]
          = [id \in NamesIn(rule) |-> ResolveName(id, row, constants, dates, computed)]
  BY <1>2
<1>. QED
  BY <1>3, <1>4 DEF Evaluate

\* The meaning of a field depends on the day of its own rule and, for a
\* payload, on those of the derived fields it names.
LEMMA MeaningReadsItsDays ==
    ASSUME NEW c, NEW vt, NEW f, NEW row, NEW day, NEW other,
           f \in DOMAIN c.views[vt].derived \cup DOMAIN c.views[vt].payloads =>
               other[f] = day[f],
           f \in DOMAIN c.views[vt].payloads =>
               \A n \in Inputs(c.views[vt], f) : other[n] = day[n]
    PROVE  Meaning(c, vt, f, row, other) = Meaning(c, vt, f, row, day)
  BY DEF Meaning

LEMMA MeaningOfDerived ==
    ASSUME NEW c, NEW vt, NEW row, NEW day, NEW f \in DOMAIN c.views[vt].derived
    PROVE  Meaning(c, vt, f, row, day)
               = Evaluate(c.views[vt].derived[f].rule, row, c.constants,
                          datetime_fields(c, vt), day[f], EmptyDict)
  BY DEF Meaning

\* A payload means what its rule computes from the meaning of the derived
\* fields, however many more of them are at hand.
LEMMA MeaningOfPayload ==
    ASSUME NEW c, NEW vt, NEW row, NEW day, NEW f \in DOMAIN c.views[vt].payloads,
           f \notin DOMAIN c.views[vt].derived, NEW computed,
           DOMAIN computed \subseteq DOMAIN c.views[vt].derived,
           Inputs(c.views[vt], f) \subseteq DOMAIN computed,
           \A n \in DOMAIN computed : computed[n] = Meaning(c, vt, n, row, day)
    PROVE  Meaning(c, vt, f, row, day)
               = Evaluate(c.views[vt].payloads[f].rule, row, c.constants,
                          datetime_fields(c, vt), day[f], computed)
<1>. DEFINE rule == c.views[vt].payloads[f].rule
<1>1. \A n \in Inputs(c.views[vt], f) :
          computed[n] = Evaluate(c.views[vt].derived[n].rule, row, c.constants,
                                 datetime_fields(c, vt), day[n], EmptyDict)
  BY MeaningOfDerived
<1>2. Inputs(c.views[vt], f) = NamesIn(rule) \cap DOMAIN computed
  BY DEF Inputs
<1>3. Read(rule, computed) = [n \in Inputs(c.views[vt], f) |-> computed[n]]
  BY <1>2 DEF Read
<1>4. Meaning(c, vt, f, row, day)
          = Evaluate(rule, row, c.constants, datetime_fields(c, vt), day[f],
                     Read(rule, computed))
  BY <1>1, <1>3 DEF Meaning
<1>. QED
  BY <1>4, EvaluateReadsItsNames

-----------------------------------------------------------------------------
(* One handler *)

\* What a request computes in round one is derived, needed, and all its
\* payloads read.
LEMMA NeededCoversInputs ==
    ASSUME NoFunctionNames, TypeOK, NEW r \in Requests, ask[r].view \in DOMAIN config.views
    PROVE  /\ needed(r) \subseteq DOMAIN View(r).derived
           /\ needed(r) \subseteq Needed(View(r), ask[r].fields)
           /\ ToSet(ask[r].fields) \cap DOMAIN View(r).derived \subseteq needed(r)
           /\ \A p \in ToSet(ask[r].fields) \cap DOMAIN View(r).payloads :
                  Inputs(View(r), p) \subseteq needed(r)
           /\ DOMAIN View(r).derived \cap DOMAIN View(r).payloads = {}
<1>1. DOMAIN View(r).derived \cap DOMAIN FUNCTIONS = {}
  BY DEF NoFunctionNames, TypeOK, View
<1>2. DOMAIN View(r).derived \cap DOMAIN View(r).payloads = {}
  BY DEF TypeOK, Accepted, WellStructured, View
<1>3. \A p \in ToSet(ask[r].fields) \cap DOMAIN View(r).payloads :
          Inputs(View(r), p) = rule_names(View(r).payloads[p].rule) \cap DOMAIN View(r).derived
  BY <1>1 DEF Inputs, rule_names
<1>. HIDE DEF View
<1>4. /\ needed(r) \subseteq DOMAIN View(r).derived
      /\ ToSet(ask[r].fields) \cap DOMAIN View(r).derived \subseteq needed(r)
      /\ \A p \in ToSet(ask[r].fields) \cap DOMAIN View(r).payloads :
             Inputs(View(r), p) \subseteq needed(r)
  BY <1>3 DEF needed
<1>5. needed(r) \subseteq Needed(View(r), ask[r].fields)
  BY <1>3 DEF needed, Needed
<1>. QED
  BY <1>2, <1>4, <1>5

\* Days may pass, and other requests move, while the work of one stays explained.
LEMMA ExplainedStable ==
    ASSUME NEW q \in Requests, Explained(q), TypeOK,
           config' = config, ask'[q] = ask[q], pc'[q] = pc[q], frame'[q] = frame[q],
           since'[q] = since[q], today' \in Int, today <= today'
    PROVE  Explained(q)'
<1>. SUFFICES ASSUME pc[q] = "computing"
              PROVE  Explained(q)'
  BY DEF Explained
<1>1. PICK day \in [Needed(View(q), ask[q].fields) -> since[q] .. today] : ExplainedBy(q, day)
  BY DEF Explained
<1>2. since[q] \in Int /\ today \in Int
  BY DayAssumption, LastDayAssumption DEF TypeOK
<1>3. View(q)' = View(q) /\ Passed(q)' = Passed(q)
  BY DEF View, Passed
<1>4. \A f : MeaningFor(q, f, day)' = MeaningFor(q, f, day)
  BY DEF MeaningFor
<1>5. ExplainedBy(q, day)'
  BY <1>1, <1>3, <1>4 DEF ExplainedBy
<1>6. day \in [Needed(View(q)', ask'[q].fields) -> since'[q] .. today']
  BY <1>1, <1>2, <1>3
<1>. QED
  BY <1>5, <1>6 DEF Explained

\* A request that does not compute has nothing to explain.
LEMMA RestingIsExplained ==
    ASSUME NEW q, pc'[q] # "computing"
    PROVE  Explained(q)'
  BY DEF Explained

LEMMA ResumeExplains ==
    ASSUME NoFunctionNames, TypeOK, NEW r \in Requests, Resume(r)
    PROVE  Explained(r)'
<1>1. CASE Respond(r, UnknownPerson)
  BY <1>1, RestingIsExplained DEF Respond, TypeOK
<1>2. CASE /\ pc' = [pc EXCEPT ![r] = "computing"]
           /\ frame' = [frame EXCEPT ![r] = Frame(frame[r].payload, needed(r))]
  <2>1. /\ config' = config /\ today' = today /\ since' = since /\ ask' = ask
        /\ pc[r] = "fetched"
    BY DEF Resume, environment, history
  <2>2. /\ frame'[r].pending = needed(r) /\ frame'[r].computed = EmptyDict
        /\ frame'[r].answer = EmptyDict /\ frame'[r].at = 1
    BY <1>2 DEF Frame, TypeOK
  <2>3. since[r] \in Int /\ today \in Int /\ since[r] <= today
    BY DayAssumption, LastDayAssumption DEF TypeOK, Staged
  <2>4. PICK day \in [Needed(View(r)', ask'[r].fields) -> since'[r] .. today'] : TRUE
    <3>1. [n \in Needed(View(r)', ask'[r].fields) |-> today]
              \in [Needed(View(r)', ask'[r].fields) -> since'[r] .. today']
      BY <2>1, <2>3
    <3>. QED
      BY <3>1
  <2>5. Passed(r)' = {}
    BY <2>2 DEF Passed
  <2>6. ExplainedBy(r, day)'
    BY <2>2, <2>5 DEF ExplainedBy, EmptyDict
  <2>7. ask[r].fields \in Seq(STRING)
    BY <2>1, AskAssumption DEF TypeOK, Staged
  <2>8. frame'[r].at \in 1 .. Len(ask'[r].fields) + 1
    BY <2>1, <2>2, <2>7
  <2>9. DOMAIN frame'[r].computed = {}
    BY <2>2 DEF EmptyDict
  <2>. QED
    BY <2>2, <2>4, <2>6, <2>8, <2>9 DEF Explained
<1>. QED
  BY <1>1, <1>2 DEF Resume

\* The derived field round one evaluates means what it evaluates to, today.
LEMMA DerivedToday ==
    ASSUME NoFunctionNames, TypeOK, NEW r \in Requests, pc[r] = "computing",
           NEW day \in [Needed(View(r), ask[r].fields) -> since[r] .. today],
           NEW name \in needed(r)
    PROVE  \E later \in [Needed(View(r), ask[r].fields) -> since[r] .. today] :
               /\ later = [day EXCEPT ![name] = today]
               /\ MeaningFor(r, name, later) = EvaluateFor(r, View(r).derived[name], EmptyDict)
<1>1. /\ name \in DOMAIN View(r).derived /\ name \in Needed(View(r), ask[r].fields)
      /\ today \in since[r] .. today
  BY NeededCoversInputs, DayAssumption, LastDayAssumption DEF TypeOK, Staged
<1>2. PICK later \in [Needed(View(r), ask[r].fields) -> since[r] .. today] :
          later = [day EXCEPT ![name] = today]
  BY <1>1
<1>3. later[name] = today
  BY <1>1, <1>2
<1>4. MeaningFor(r, name, later)
          = Evaluate(View(r).derived[name].rule, frame[r].payload, config.constants,
                     datetime_fields(config, ask[r].view), later[name], EmptyDict)
  BY <1>1, MeaningOfDerived DEF MeaningFor, View
<1>. QED
  BY <1>2, <1>3, <1>4 DEF EvaluateFor

\* So does the payload round two evaluates, from round one's values.
LEMMA PayloadToday ==
    ASSUME NoFunctionNames, TypeOK, NEW r \in Requests,
           pc[r] = "computing", frame[r].pending = {},
           NEW day \in [Needed(View(r), ask[r].fields) -> since[r] .. today],
           ExplainedBy(r, day),
           NEW key \in ToSet(ask[r].fields), key \in DOMAIN View(r).payloads
    PROVE  \E later \in [Needed(View(r), ask[r].fields) -> since[r] .. today] :
               /\ later = [day EXCEPT ![key] = today]
               /\ MeaningFor(r, key, later)
                      = EvaluateFor(r, View(r).payloads[key], frame[r].computed)
<1>1. /\ DOMAIN frame[r].computed = needed(r) /\ ask[r].view \in DOMAIN config.views
      /\ today \in since[r] .. today
  <2>1. today \in since[r] .. today
    BY DayAssumption, LastDayAssumption DEF TypeOK, Staged
  <2>. QED
    BY <2>1 DEF TypeOK, Staged
<1>2. /\ key \notin DOMAIN View(r).derived
      /\ DOMAIN frame[r].computed \subseteq DOMAIN View(r).derived
      /\ Inputs(View(r), key) \subseteq DOMAIN frame[r].computed
      /\ DOMAIN View(r).derived \cap DOMAIN View(r).payloads = {}
      /\ needed(r) \subseteq Needed(View(r), ask[r].fields)
  BY <1>1, NeededCoversInputs
<1>3. key \in Needed(View(r), ask[r].fields)
  BY DEF Needed
<1>4. PICK later \in [Needed(View(r), ask[r].fields) -> since[r] .. today] :
          later = [day EXCEPT ![key] = today]
  BY <1>1
<1>5. later[key] = today
  BY <1>3, <1>4
<1>6. ASSUME NEW n \in DOMAIN frame[r].computed
      PROVE  frame[r].computed[n] = MeaningFor(r, n, later)
  <2>1. n # key /\ n \in DOMAIN View(r).derived /\ n \notin DOMAIN View(r).payloads
    BY <1>2
  <2>2. later[n] = day[n]
    BY <1>1, <1>2, <1>4, <2>1
  <2>3. MeaningFor(r, n, later) = MeaningFor(r, n, day)
    BY <2>1, <2>2, MeaningReadsItsDays, SMTT(30) DEF MeaningFor, View
  <2>. QED
    BY <2>3 DEF ExplainedBy
<1>7. MeaningFor(r, key, later)
          = Evaluate(View(r).payloads[key].rule, frame[r].payload, config.constants,
                     datetime_fields(config, ask[r].view), later[key], frame[r].computed)
  BY <1>2, <1>6, MeaningOfPayload DEF MeaningFor, View
<1>. QED
  BY <1>4, <1>5, <1>7 DEF EvaluateFor

\* Round one: the day of the derived field just evaluated is today, whatever
\* the days of those evaluated before it.
LEMMA RoundOneExplains ==
    ASSUME NoFunctionNames, TypeOK, NEW r \in Requests, Explained(r), RoundOne(r)
    PROVE  Explained(r)'
<1>1. PICK name \in frame[r].pending :
          \E value \in {EvaluateFor(r, View(r).derived[name], EmptyDict)} :
              \/ Failed(value) /\ FailWith(r, name, value)
              \/ /\ ~ Failed(value)
                 /\ frame' = [frame EXCEPT ![r].pending = @ \ {name},
                                           ![r].computed = Put(@, name, value)]
                 /\ UNCHANGED <<response, pc, loop>>
  BY DEF RoundOne
<1>. DEFINE value == EvaluateFor(r, View(r).derived[name], EmptyDict)
<1>2. CASE FailWith(r, name, value)
  BY <1>2, RestingIsExplained DEF FailWith, Respond, TypeOK
<1>3. CASE /\ ~ Failed(value)
           /\ frame' = [frame EXCEPT ![r].pending = @ \ {name},
                                     ![r].computed = Put(@, name, value)]
           /\ UNCHANGED <<response, pc, loop>>
  <2>1. /\ config' = config /\ today' = today /\ since' = since /\ ask' = ask
        /\ pc' = pc /\ pc[r] = "computing"
    BY <1>3 DEF RoundOne, environment, history
  <2>2. /\ frame'[r].payload = frame[r].payload
        /\ frame'[r].pending = frame[r].pending \ {name}
        /\ frame'[r].computed = Put(frame[r].computed, name, value)
        /\ frame'[r].answer = frame[r].answer /\ frame'[r].at = frame[r].at
    BY <1>3 DEF TypeOK
  <2>3. PICK day \in [Needed(View(r), ask[r].fields) -> since[r] .. today] : ExplainedBy(r, day)
    BY <2>1 DEF Explained
  <2>4. /\ frame[r].pending \cap DOMAIN frame[r].computed = {} /\ frame[r].at = 1
        /\ frame[r].at \in 1 .. Len(ask[r].fields) + 1
    BY <1>1, <2>1 DEF Explained
  <2>5. /\ frame[r].pending \cup DOMAIN frame[r].computed = needed(r)
        /\ ask[r].view \in DOMAIN config.views
        /\ since[r] \in Int /\ today \in Int /\ since[r] <= today
    BY <2>1, DayAssumption, LastDayAssumption DEF TypeOK, Staged
  <2>6. /\ name \in DOMAIN View(r).derived /\ name \in Needed(View(r), ask[r].fields)
        /\ DOMAIN frame[r].computed \subseteq DOMAIN View(r).derived
        /\ DOMAIN View(r).derived \cap DOMAIN View(r).payloads = {}
    BY <1>1, <2>5, NeededCoversInputs
  <2>7. PICK later \in [Needed(View(r), ask[r].fields) -> since[r] .. today] :
            /\ later = [day EXCEPT ![name] = today]
            /\ MeaningFor(r, name, later) = value
    BY <1>1, <2>1, <2>5, DerivedToday
  <2>8. ASSUME NEW n \in DOMAIN frame[r].computed
        PROVE  MeaningFor(r, n, later) = MeaningFor(r, n, day)
    <3>1. n # name /\ n \in DOMAIN View(r).derived /\ n \notin DOMAIN View(r).payloads
      BY <1>1, <2>4, <2>6
    <3>2. later[n] = day[n]
      BY <2>7, <3>1
    <3>. QED
      BY <3>1, <3>2, MeaningReadsItsDays DEF MeaningFor, View
  <2>9. Passed(r) = {} /\ Passed(r)' = {} /\ View(r)' = View(r)
    BY <2>1, <2>2, <2>4 DEF Passed, View
  <2>10. \A f : MeaningFor(r, f, later)' = MeaningFor(r, f, later)
    BY <2>1, <2>2 DEF MeaningFor
  <2>. HIDE DEF value
  <2>11. \A n \in DOMAIN frame'[r].computed :
             /\ frame'[r].computed[n] = MeaningFor(r, n, later)
             /\ ~ Failed(frame'[r].computed[n])
    <3>1. /\ DOMAIN frame'[r].computed = {name} \cup DOMAIN frame[r].computed
          /\ frame'[r].computed[name] = value
          /\ \A n \in DOMAIN frame[r].computed \ {name} :
                 frame'[r].computed[n] = frame[r].computed[n]
      BY <2>2 DEF Put
    <3>. QED
      BY <1>3, <2>3, <2>7, <2>8, <3>1 DEF ExplainedBy
  <2>12. frame[r].answer = [f \in {} |-> Wire(MeaningFor(r, f, day))]
    BY <2>3, <2>9 DEF ExplainedBy
  <2>13. ExplainedBy(r, later)'
    BY <2>2, <2>9, <2>10, <2>11, <2>12 DEF ExplainedBy
  <2>14. frame'[r].pending \cap DOMAIN frame'[r].computed = {}
    BY <2>2, <2>4 DEF Put
  <2>. QED
    BY <2>1, <2>2, <2>4, <2>7, <2>9, <2>13, <2>14 DEF Explained
<1>. QED
  BY <1>1, <1>2, <1>3

\* A new day for a payload leaves the meaning of every other field alone.
LEMMA OtherFieldsKeepTheirMeaning ==
    ASSUME NoFunctionNames, TypeOK, NEW r \in Requests, ask[r].view \in DOMAIN config.views,
           NEW key \in DOMAIN View(r).payloads, NEW day, NEW later,
           \A n \in Needed(View(r), ask[r].fields) : n # key => later[n] = day[n],
           NEW g \in ToSet(ask[r].fields) \cup needed(r), g # key
    PROVE  MeaningFor(r, g, later) = MeaningFor(r, g, day)
<1>1. /\ key \notin DOMAIN View(r).derived
      /\ needed(r) \subseteq DOMAIN View(r).derived
      /\ needed(r) \subseteq Needed(View(r), ask[r].fields)
      /\ DOMAIN View(r).derived \cap DOMAIN View(r).payloads = {}
  BY NeededCoversInputs
<1>2. g \in DOMAIN View(r).derived \cup DOMAIN View(r).payloads => later[g] = day[g]
  <2>1. g \in DOMAIN View(r).derived \cup DOMAIN View(r).payloads =>
            g \in Needed(View(r), ask[r].fields)
    BY <1>1 DEF Needed
  <2>. QED
    BY <2>1
<1>3. ASSUME g \in DOMAIN View(r).payloads, NEW n \in Inputs(View(r), g)
      PROVE  later[n] = day[n]
  <2>1. g \in ToSet(ask[r].fields) \cap DOMAIN View(r).payloads
    BY <1>1, <1>3
  <2>2. n \in Needed(View(r), ask[r].fields)
    BY <2>1 DEF Needed
  <2>3. n # key
    BY <1>1 DEF Inputs
  <2>. QED
    BY <2>2, <2>3
<1>. QED
  BY <1>2, <1>3, MeaningReadsItsDays DEF MeaningFor, View

\* One turn of the second loop adds the field it has just given a value.
LEMMA AnswerGrows ==
    ASSUME NEW r, NEW day, NEW chosen, NEW key, NEW value,
           frame[r].answer = [f \in {g \in Passed(r) : MeaningFor(r, g, day) # Null} |->
                                 Wire(MeaningFor(r, f, day))],
           \A g \in Passed(r) : g # key => MeaningFor(r, g, chosen) = MeaningFor(r, g, day),
           MeaningFor(r, key, chosen) = value,
           value = Null => key \notin Passed(r) \/ MeaningFor(r, key, day) = Null
    PROVE  Including(frame[r].answer, key, value) =
               [f \in {g \in Passed(r) \cup {key} : MeaningFor(r, g, chosen) # Null} |->
                   Wire(MeaningFor(r, f, chosen))]
<1>. DEFINE grown == [f \in {g \in Passed(r) \cup {key} : MeaningFor(r, g, chosen) # Null} |->
                         Wire(MeaningFor(r, f, chosen))]
<1>1. CASE value = Null
  <2>1. {g \in Passed(r) \cup {key} : MeaningFor(r, g, chosen) # Null}
            = {g \in Passed(r) : MeaningFor(r, g, day) # Null}
    BY <1>1
  <2>2. \A f \in {g \in Passed(r) : MeaningFor(r, g, day) # Null} :
            MeaningFor(r, f, chosen) = MeaningFor(r, f, day)
    BY <1>1
  <2>. QED
    BY <1>1, <2>1, <2>2 DEF Including
<1>2. CASE value # Null
  <2>1. {key} \cup DOMAIN frame[r].answer
            = {g \in Passed(r) \cup {key} : MeaningFor(r, g, chosen) # Null}
    BY <1>2
  <2>2. \A f \in {key} \cup DOMAIN frame[r].answer :
            (IF f = key THEN Wire(value) ELSE frame[r].answer[f]) = Wire(MeaningFor(r, f, chosen))
    OBVIOUS
  <2>3. Put(frame[r].answer, key, Wire(value)) = grown
    BY <2>1, <2>2, SMTT(40) DEF Put
  <2>. QED
    BY <1>2, <2>3 DEF Including
<1>. QED
  BY <1>1, <1>2

\* The choice of days `chosen` extends `day` to the value of the next field: it
\* gives the field that value, unless the value is null and the field has one.
Extends(r, key, value, day, chosen) ==
    /\ chosen \in [Needed(View(r), ask[r].fields) -> since[r] .. today]
    /\ \A g \in DOMAIN frame[r].computed \cup Passed(r) :
           g # key => MeaningFor(r, g, chosen) = MeaningFor(r, g, day)
    /\ key \in DOMAIN frame[r].computed =>
           MeaningFor(r, key, chosen) = MeaningFor(r, key, day)
    /\ \/ /\ MeaningFor(r, key, chosen) = value
          /\ value = Null => key \notin Passed(r) \/ MeaningFor(r, key, day) = Null
       \/ value = Null /\ chosen = day /\ key \in Passed(r)

\* With such a choice, the turn of the second loop leaves the work explained.
LEMMA TurnTwoExplains ==
    ASSUME TypeOK, NEW r \in Requests, Explained(r), pc[r] = "computing",
           frame[r].pending = {}, frame[r].at <= Len(ask[r].fields),
           UNCHANGED <<environment, history, ask, pc>>,
           NEW key, key = ask[r].fields[frame[r].at], NEW value, ~ Failed(value),
           frame' = [frame EXCEPT ![r].answer = Including(@, key, value), ![r].at = @ + 1],
           NEW day, ExplainedBy(r, day),
           NEW chosen, Extends(r, key, value, day, chosen)
    PROVE  Explained(r)'
<1>1. /\ config' = config /\ today' = today /\ since' = since /\ ask' = ask /\ pc' = pc
  BY DEF environment, history
<1>2. /\ frame'[r].payload = frame[r].payload /\ frame'[r].pending = frame[r].pending
      /\ frame'[r].computed = frame[r].computed /\ frame'[r].at = frame[r].at + 1
      /\ frame'[r].answer = Including(frame[r].answer, key, value)
  BY DEF TypeOK
<1>3. /\ frame[r].at \in 1 .. Len(ask[r].fields) /\ Len(ask[r].fields) \in Nat
      /\ frame[r].pending \cap DOMAIN frame[r].computed = {}
  <2>1. ask[r].fields \in Seq(STRING)
    BY AskAssumption DEF TypeOK, Staged
  <2>2. Len(ask[r].fields) \in Nat
    BY <2>1
  <2>. QED
    BY <2>2 DEF Explained
<1>4. Passed(r)' = Passed(r) \cup {key}
  <2>1. Passed(r)' = {ask[r].fields[i] : i \in 1 .. frame[r].at}
    <3>1. frame'[r].at - 1 = frame[r].at
      BY <1>2, <1>3
    <3>. QED
      BY <1>1, <3>1 DEF Passed
  <2>2. 1 .. frame[r].at = (1 .. frame[r].at - 1) \cup {frame[r].at}
    BY <1>3
  <2>. QED
    BY <2>1, <2>2 DEF Passed
<1>5. \A f : MeaningFor(r, f, chosen)' = MeaningFor(r, f, chosen)
  BY <1>1, <1>2 DEF MeaningFor
<1>6. View(r)' = View(r)
  BY <1>1 DEF View
<1>7. frame'[r].answer = [f \in {g \in Passed(r) \cup {key} : MeaningFor(r, g, chosen) # Null} |->
                             Wire(MeaningFor(r, f, chosen))]
  <2>1. CASE /\ MeaningFor(r, key, chosen) = value
             /\ value = Null => key \notin Passed(r) \/ MeaningFor(r, key, day) = Null
    <3>1. frame[r].answer = [f \in {g \in Passed(r) : MeaningFor(r, g, day) # Null} |->
                                 Wire(MeaningFor(r, f, day))]
      BY DEF ExplainedBy
    <3>2. \A g \in Passed(r) : g # key => MeaningFor(r, g, chosen) = MeaningFor(r, g, day)
      BY DEF Extends
    <3>3. Including(frame[r].answer, key, value) =
              [f \in {g \in Passed(r) \cup {key} : MeaningFor(r, g, chosen) # Null} |->
                  Wire(MeaningFor(r, f, chosen))]
      BY <2>1, <3>1, <3>2, AnswerGrows
    <3>. QED
      BY <1>2, <3>3
  <2>2. CASE value = Null /\ chosen = day /\ key \in Passed(r)
    <3>1. Passed(r) \cup {key} = Passed(r) /\ frame'[r].answer = frame[r].answer
      BY <1>2, <2>2 DEF Including
    <3>. QED
      BY <2>2, <3>1 DEF ExplainedBy
  <2>. QED
    BY <2>1, <2>2, SMTT(40) DEF Extends
<1>8. \A p \in (Passed(r) \cup {key}) \cap DOMAIN View(r).payloads :
          ~ Failed(MeaningFor(r, p, chosen))
  BY DEF ExplainedBy, Extends
<1>9. \A n \in DOMAIN frame[r].computed :
          /\ frame[r].computed[n] = MeaningFor(r, n, chosen)
          /\ ~ Failed(frame[r].computed[n])
  BY SMTT(40) DEF ExplainedBy, Extends
<1>10. ExplainedBy(r, chosen)'
  <2>1. \A n \in DOMAIN frame'[r].computed :
            /\ frame'[r].computed[n] = MeaningFor(r, n, chosen)'
            /\ ~ Failed(frame'[r].computed[n])
    BY <1>2, <1>5, <1>9
  <2>2. frame'[r].answer = [f \in {g \in Passed(r)' : MeaningFor(r, g, chosen)' # Null} |->
                               Wire(MeaningFor(r, f, chosen)')]
    BY <1>4, <1>5, <1>7
  <2>3. \A p \in Passed(r)' \cap DOMAIN View(r)'.payloads :
            ~ Failed(MeaningFor(r, p, chosen)')
    BY <1>4, <1>5, <1>6, <1>8
  <2>. QED
    BY <2>1, <2>2, <2>3 DEF ExplainedBy
<1>11. frame'[r].at \in 1 .. Len(ask'[r].fields) + 1
  BY <1>1, <1>2, <1>3
<1>. QED
  BY <1>1, <1>2, <1>3, <1>6, <1>10, <1>11 DEF Explained, Extends

LEMMA AtIsAPosition ==
    ASSUME TypeOK, NEW r \in Requests, pc[r] = "computing", frame[r].at <= Len(ask[r].fields)
    PROVE  /\ frame[r].at \in DOMAIN ask[r].fields
           /\ \A i \in 1 .. frame[r].at - 1 : i \in DOMAIN ask[r].fields
<1>1. ask[r].fields \in Seq(STRING) /\ frame[r].at \in Nat \ {0}
  BY AskAssumption DEF TypeOK, Staged
<1>2. DOMAIN ask[r].fields = 1 .. Len(ask[r].fields) /\ Len(ask[r].fields) \in Nat
  BY <1>1
<1>. QED
  BY <1>1, <1>2

\* A field that is no payload is read from round one or from the row.
LEMMA ValueOfOthers ==
    ASSUME NEW r \in Requests, NEW day, ExplainedBy(r, day),
           NEW key, key \notin DOMAIN View(r).payloads,
           key \in DOMAIN View(r).derived => key \in DOMAIN frame[r].computed
    PROVE  MeaningFor(r, key, day) = ValueOf(r, key)
<1>1. CASE key \in DOMAIN View(r).derived
  BY <1>1 DEF ExplainedBy, ValueOf
<1>2. CASE key \notin DOMAIN View(r).derived
  BY <1>2 DEF ValueOf, MeaningFor, Meaning, View
<1>. QED
  BY <1>1, <1>2

\* Round two: a payload is evaluated today; a field already passed whose value
\* is now null keeps the value of its earlier evaluation, and its day.
LEMMA RoundTwoExplains ==
    ASSUME NoFunctionNames, TypeOK, NEW r \in Requests, Explained(r), RoundTwo(r)
    PROVE  Explained(r)'
<1>. DEFINE key == ask[r].fields[frame[r].at]
            value == ValueOf(r, key)
<1>1. \/ FailWith(r, key, value)
      \/ /\ ~ Failed(value)
         /\ frame' = [frame EXCEPT ![r].answer = Including(@, key, value), ![r].at = @ + 1]
         /\ UNCHANGED <<response, pc, loop>>
  BY DEF RoundTwo
<1>2. CASE FailWith(r, key, value)
  BY <1>2, RestingIsExplained DEF FailWith, Respond, TypeOK
<1>3. CASE /\ ~ Failed(value)
           /\ frame' = [frame EXCEPT ![r].answer = Including(@, key, value), ![r].at = @ + 1]
           /\ UNCHANGED <<response, pc, loop>>
  <2>1. /\ pc[r] = "computing" /\ frame[r].pending = {}
        /\ frame[r].at <= Len(ask[r].fields)
        /\ UNCHANGED <<environment, history, ask, pc>>
    BY <1>3 DEF RoundTwo
  <2>2. PICK day \in [Needed(View(r), ask[r].fields) -> since[r] .. today] : ExplainedBy(r, day)
    BY <2>1 DEF Explained
  <2>3. ask[r].view \in DOMAIN config.views /\ DOMAIN frame[r].computed = needed(r)
    BY <2>1 DEF TypeOK, Staged
  <2>4. key \in ToSet(ask[r].fields) /\ Passed(r) \subseteq ToSet(ask[r].fields)
    BY <2>1, AtIsAPosition DEF ToSet, Passed
  <2>5. key = ask[r].fields[frame[r].at] /\ value = ValueOf(r, key)
    OBVIOUS
  <2>. HIDE DEF key, value
  <2>6. /\ DOMAIN View(r).derived \cap DOMAIN View(r).payloads = {}
        /\ DOMAIN frame[r].computed \subseteq DOMAIN View(r).derived
        /\ key \in DOMAIN View(r).derived => key \in DOMAIN frame[r].computed
    BY <2>3, <2>4, NeededCoversInputs, SMTT(40)
  <2>7. CASE key \notin DOMAIN View(r).payloads
    <3>1. MeaningFor(r, key, day) = value
      BY <2>2, <2>5, <2>6, <2>7, ValueOfOthers
    <3>2. Extends(r, key, value, day, day)
      BY <2>2, <3>1 DEF Extends
    <3>. QED
      BY <1>3, <2>1, <2>2, <2>5, <3>2, TurnTwoExplains
  <2>8. CASE key \in DOMAIN View(r).payloads
    <3>1. key \notin DOMAIN frame[r].computed
      BY <2>6, <2>8
    <3>2. CASE value = Null /\ key \in Passed(r)
      <4>1. Extends(r, key, value, day, day)
        BY <2>2, <3>2, SMTT(40) DEF Extends
      <4>. QED
        BY <1>3, <2>1, <2>2, <2>5, <4>1, TurnTwoExplains
    <3>3. CASE ~ (value = Null /\ key \in Passed(r))
      <4>1. PICK later \in [Needed(View(r), ask[r].fields) -> since[r] .. today] :
                /\ later = [day EXCEPT ![key] = today]
                /\ MeaningFor(r, key, later)
                       = EvaluateFor(r, View(r).payloads[key], frame[r].computed)
        BY <2>1, <2>2, <2>4, <2>8, PayloadToday
      <4>2. value = MeaningFor(r, key, later)
        BY <2>5, <2>6, <2>8, <4>1 DEF ValueOf
      <4>3. \A g \in DOMAIN frame[r].computed \cup Passed(r) :
                g # key => MeaningFor(r, g, later) = MeaningFor(r, g, day)
        <5>1. \A n \in Needed(View(r), ask[r].fields) : n # key => later[n] = day[n]
          BY <4>1
        <5>2. DOMAIN frame[r].computed \cup Passed(r) \subseteq ToSet(ask[r].fields) \cup needed(r)
          BY <2>3, <2>4
        <5>. QED
          BY <2>3, <2>8, <5>1, <5>2, OtherFieldsKeepTheirMeaning
      <4>4. Extends(r, key, value, day, later)
        BY <3>1, <3>3, <4>2, <4>3 DEF Extends
      <4>. QED
        BY <1>3, <2>1, <2>2, <2>5, <4>4, TurnTwoExplains
    <3>. QED
      BY <3>2, <3>3
  <2>. QED
    BY <2>7, <2>8
<1>. QED
  BY <1>1, <1>2, <1>3

-----------------------------------------------------------------------------
(* The invariant *)

\* A step of one handler does not touch the work of another.
LEMMA HandleTouchesOne ==
    ASSUME TypeOK, NEW r \in Requests, Handle(r), NEW q \in Requests, q # r
    PROVE  /\ UNCHANGED <<config, today, db, ask, seen, since>>
           /\ pc'[q] = pc[q] /\ frame'[q] = frame[q] /\ response'[q] = response[q]
  BY DEF Handle, Check, person_view, QueryFails, Resume, RoundOne, RoundTwo, Return,
         FailWith, Respond, TypeOK, environment, history

LEMMA HandleKeepsExplained ==
    ASSUME NoFunctionNames, TypeOK, NEW r \in Requests, Explained(r), Handle(r)
    PROVE  Explained(r)'
<1>1. CASE Check(r) \/ person_view(r) \/ QueryFails(r) \/ Return(r)
  <2>1. pc'[r] # "computing"
    BY <1>1 DEF Check, person_view, QueryFails, Return, Respond, TypeOK
  <2>. QED
    BY <2>1, RestingIsExplained
<1>. QED
  BY <1>1, ResumeExplains, RoundOneExplains, RoundTwoExplains DEF Handle

LEMMA StepKeepsExplained ==
    ASSUME NoFunctionNames, TypeOK, TypeOK', WorkIsExplained, [Next]_vars
    PROVE  WorkIsExplained'
<1>. SUFFICES ASSUME NEW q \in Requests
              PROVE  Explained(q)'
  BY DEF WorkIsExplained
<1>1. Explained(q) /\ today \in Int /\ today' \in Int
  BY DayAssumption, LastDayAssumption DEF WorkIsExplained, TypeOK
<1>2. ASSUME NEW r \in Requests, NEW a \in Asks, Receive(r, a)
      PROVE  Explained(q)'
  <2>1. CASE q = r
    BY <1>2, <2>1, RestingIsExplained DEF Receive, TypeOK
  <2>2. CASE q # r
    <3>1. /\ config' = config /\ ask'[q] = ask[q] /\ pc'[q] = pc[q] /\ frame'[q] = frame[q]
          /\ since'[q] = since[q] /\ today' = today
      BY <1>2, <2>2 DEF Receive, TypeOK, environment
    <3>. QED
      BY <1>1, <3>1, ExplainedStable
  <2>. QED
    BY <2>1, <2>2
<1>3. ASSUME NEW r \in Requests, Handle(r)
      PROVE  Explained(q)'
  <2>1. CASE q = r
    BY <1>1, <1>3, <2>1, HandleKeepsExplained
  <2>2. CASE q # r
    <3>1. /\ config' = config /\ ask' = ask /\ pc'[q] = pc[q] /\ frame'[q] = frame[q]
          /\ since' = since /\ today' = today
      BY <1>3, <2>2, HandleTouchesOne
    <3>. QED
      BY <1>1, <3>1, ExplainedStable
  <2>. QED
    BY <2>1, <2>2
<1>4. ASSUME \/ \E k \in DOMAIN Rows : \E row \in Rows[k] \cup {NoRow} : Produce(k, row)
             \/ NextDay
             \/ UNCHANGED vars
      PROVE  Explained(q)'
  <2>1. /\ config' = config /\ ask' = ask /\ pc' = pc /\ frame' = frame
        /\ since' = since /\ today <= today'
    BY <1>1, <1>4 DEF Produce, NextDay, vars, environment, handler, history
  <2>. QED
    BY <1>1, <2>1, ExplainedStable
<1>. QED
  BY <1>2, <1>3, <1>4 DEF Next

LEMMA InitExplained == Init => WorkIsExplained
  BY DEF Init, WorkIsExplained, Explained

\* Whatever a handler has computed at any moment, it has computed as the
\* documentation says, each rule on a day since the request (api/routers.py,
\* rounds one and two).
THEOREM WorkExplained ==
    ASSUME NoFunctionNames
    PROVE  Safety => []WorkIsExplained
<1>1. TypeOK /\ TypeOK' /\ WorkIsExplained /\ [Next]_vars => WorkIsExplained'
  BY StepKeepsExplained
<1>. QED
  BY <1>1, InitExplained, TypeCorrect, PTL DEF Safety

\* Round one has computed every derived field a payload's rule names when round
\* two reaches the payload (api/routers.py, needed).
THEOREM RoundOneFeeds ==
    ASSUME NoFunctionNames
    PROVE  Safety => []RoundOneFeedsRoundTwo
<1>1. ASSUME TypeOK
      PROVE  RoundOneFeedsRoundTwo
  <2>. SUFFICES ASSUME NEW r \in Requests, pc[r] = "computing", frame[r].pending = {},
                       frame[r].at <= Len(ask[r].fields),
                       NEW key, key = ask[r].fields[frame[r].at],
                       key \in DOMAIN View(r).payloads
                PROVE  Inputs(View(r), key) \subseteq DOMAIN frame[r].computed
    BY DEF RoundOneFeedsRoundTwo
  <2>1. ask[r].view \in DOMAIN config.views /\ DOMAIN frame[r].computed = needed(r)
    BY <1>1 DEF TypeOK, Staged
  <2>2. key \in ToSet(ask[r].fields)
    BY <1>1, AtIsAPosition DEF ToSet
  <2>. QED
    BY <1>1, <2>1, <2>2, NeededCoversInputs
<1>. QED
  BY <1>1, TypeCorrect, PTL

-----------------------------------------------------------------------------
(* The promise *)

RightFor(r, resp) == Right(config, ask[r], seen[r], since[r] .. today, resp)

\* While a handler computes, any response right for the row it read and some
\* days is right.
LEMMA RightForTheRowRead ==
    ASSUME TypeOK, NEW r \in Requests, pc[r] = "computing", NEW resp,
           NEW day \in [Needed(View(r), ask[r].fields) -> since[r] .. today],
           RightGiven(config, ask[r], frame[r].payload, day, resp)
    PROVE  RightFor(r, resp)
<1>1. /\ ask[r].view \in DOMAIN config.views
      /\ ToSet(ask[r].fields) \subseteq Declared(View(r))
      /\ frame[r].payload \in seen[r] \ {NoRow}
  BY DEF TypeOK, Staged
<1>. QED
  BY <1>1 DEF Right, RightFor, View

\* A field that is needed and fails is a reason to answer as FailWith does.
LEMMA FailureIsRight ==
    ASSUME TypeOK, NEW r \in Requests, pc[r] = "computing",
           NEW day \in [Needed(View(r), ask[r].fields) -> since[r] .. today],
           NEW f \in Needed(View(r), ask[r].fields), Failed(MeaningFor(r, f, day)),
           NEW resp, resp = IF MeaningFor(r, f, day) = RuleError
                            THEN NotComputable(f) ELSE InternalError("rule")
    PROVE  RightFor(r, resp)
<1>1. RightGiven(config, ask[r], frame[r].payload, day, resp)
  BY DEF RightGiven, MeaningFor, View
<1>. QED
  BY <1>1, RightForTheRowRead

LEMMA RoundOneIsRight ==
    ASSUME NoFunctionNames, TypeOK, NEW r \in Requests, Explained(r), RoundOne(r)
    PROVE  \/ UNCHANGED response
           \/ \E resp : Respond(r, resp) /\ RightFor(r, resp)
<1>1. PICK name \in frame[r].pending :
          \/ /\ Failed(EvaluateFor(r, View(r).derived[name], EmptyDict))
             /\ FailWith(r, name, EvaluateFor(r, View(r).derived[name], EmptyDict))
          \/ UNCHANGED response
  BY DEF RoundOne
<1>2. CASE /\ Failed(EvaluateFor(r, View(r).derived[name], EmptyDict))
           /\ FailWith(r, name, EvaluateFor(r, View(r).derived[name], EmptyDict))
  <2>1. pc[r] = "computing"
    BY DEF RoundOne
  <2>2. PICK day \in [Needed(View(r), ask[r].fields) -> since[r] .. today] : TRUE
    BY <2>1 DEF Explained
  <2>3. name \in needed(r) /\ ask[r].view \in DOMAIN config.views
    BY <2>1 DEF TypeOK, Staged
  <2>4. PICK later \in [Needed(View(r), ask[r].fields) -> since[r] .. today] :
            MeaningFor(r, name, later) = EvaluateFor(r, View(r).derived[name], EmptyDict)
    BY <2>1, <2>2, <2>3, DerivedToday
  <2>5. name \in Needed(View(r), ask[r].fields)
    BY <2>3, NeededCoversInputs
  <2>. QED
    BY <1>2, <2>1, <2>4, <2>5, FailureIsRight DEF FailWith
<1>. QED
  BY <1>1, <1>2

\* A row carries no failure, so a turn of the second loop that fails has
\* evaluated a payload.
LEMMA RoundTwoIsRight ==
    ASSUME NoFunctionNames, TypeOK, NEW r \in Requests, Explained(r), RoundTwo(r)
    PROVE  \/ UNCHANGED response
           \/ \E resp : Respond(r, resp) /\ RightFor(r, resp)
<1>1. PICK key, value :
          /\ key = ask[r].fields[frame[r].at] /\ value = ValueOf(r, key)
          /\ (Failed(value) /\ FailWith(r, key, value)) \/ UNCHANGED response
  BY DEF RoundTwo
<1>2. CASE Failed(value) /\ FailWith(r, key, value)
  <2>1. /\ pc[r] = "computing" /\ frame[r].pending = {}
        /\ frame[r].at <= Len(ask[r].fields)
    BY DEF RoundTwo
  <2>2. PICK day \in [Needed(View(r), ask[r].fields) -> since[r] .. today] : ExplainedBy(r, day)
    BY <2>1 DEF Explained
  <2>3. /\ ask[r].view \in DOMAIN config.views /\ DOMAIN frame[r].computed = needed(r)
        /\ frame[r].payload \in RowOrNone /\ frame[r].payload # NoRow
    BY <2>1 DEF TypeOK, Staged
  <2>4. key \in ToSet(ask[r].fields)
    BY <1>1, <2>1, AtIsAPosition DEF ToSet
  <2>5. key \notin DOMAIN View(r).derived
    BY <1>1, <1>2, <2>2, <2>3, <2>4, NeededCoversInputs, ZenonT(60) DEF ExplainedBy, ValueOf
  <2>6. key \in DOMAIN View(r).payloads
    <3>1. ~ Failed(Get(frame[r].payload, key))
      BY <2>3, ValuesAssumption DEF RowOrNone, Get, Failed, Null
    <3>. QED
      BY <1>1, <1>2, <2>5, <3>1 DEF ValueOf
  <2>7. PICK later \in [Needed(View(r), ask[r].fields) -> since[r] .. today] :
            MeaningFor(r, key, later)
                = EvaluateFor(r, View(r).payloads[key], frame[r].computed)
    BY <2>1, <2>2, <2>4, <2>6, PayloadToday
  <2>8. value = MeaningFor(r, key, later)
    BY <1>1, <2>5, <2>6, <2>7 DEF ValueOf
  <2>9. key \in Needed(View(r), ask[r].fields)
    BY <2>4, <2>6 DEF Needed
  <2>. QED
    BY <1>2, <2>1, <2>8, <2>9, FailureIsRight DEF FailWith
<1>. QED
  BY <1>1, <1>2

\* When both loops are through, the answer is the projection of the row.
LEMMA ReturnIsRight ==
    ASSUME NoFunctionNames, TypeOK, NEW r \in Requests, Explained(r), Return(r)
    PROVE  RightFor(r, Found(frame[r].answer))
<1>1. pc[r] = "computing" /\ frame[r].pending = {} /\ frame[r].at > Len(ask[r].fields)
  BY DEF Return
<1>2. PICK day \in [Needed(View(r), ask[r].fields) -> since[r] .. today] : ExplainedBy(r, day)
  BY <1>1 DEF Explained
<1>3. /\ ask[r].view \in DOMAIN config.views /\ DOMAIN frame[r].computed = needed(r)
      /\ ask[r].fields \in Seq(STRING)
  BY <1>1, AskAssumption DEF TypeOK, Staged
<1>4. Passed(r) = ToSet(ask[r].fields)
  <2>1. Len(ask[r].fields) \in Nat /\ DOMAIN ask[r].fields = 1 .. Len(ask[r].fields)
    BY <1>3
  <2>2. frame[r].at = Len(ask[r].fields) + 1
    BY <1>1, <2>1 DEF Explained
  <2>3. 1 .. frame[r].at - 1 = DOMAIN ask[r].fields
    BY <2>1, <2>2
  <2>. QED
    BY <2>3 DEF Passed, ToSet
<1>5. ASSUME NEW f \in Needed(View(r), ask[r].fields)
      PROVE  ~ Failed(MeaningFor(r, f, day))
  <2>1. CASE f \in DOMAIN View(r).payloads
    <3>1. f \in Passed(r)
      BY <1>3, <1>4, <2>1, NeededCoversInputs DEF Needed
    <3>. QED
      BY <1>2, <2>1, <3>1 DEF ExplainedBy
  <2>2. CASE f \notin DOMAIN View(r).payloads
    <3>1. f \in DOMAIN frame[r].computed
      BY <1>3, <2>2, NeededCoversInputs DEF Needed
    <3>. QED
      BY <1>2, <3>1 DEF ExplainedBy
  <2>. QED
    BY <2>1, <2>2
<1>6. Projection(config, ask[r], frame[r].payload, day) = frame[r].answer
  BY <1>2, <1>4 DEF Projection, ExplainedBy, MeaningFor
<1>7. RightGiven(config, ask[r], frame[r].payload, day, Found(frame[r].answer))
  BY <1>5, <1>6 DEF RightGiven, MeaningFor, View, Found
<1>. QED
  BY <1>1, <1>7, RightForTheRowRead

\* A step of a handler either leaves the response open or sends a right one.
LEMMA HandleIsRight ==
    ASSUME NoFunctionNames, TypeOK, NEW r \in Requests, Explained(r), Handle(r)
    PROVE  \/ UNCHANGED response
           \/ \E resp : Respond(r, resp) /\ RightFor(r, resp)
<1>1. CASE Check(r)
  BY <1>1 DEF Check, Catalogue, RightFor, Right
<1>2. CASE person_view(r)
  BY <1>2 DEF person_view
<1>3. CASE QueryFails(r) \/ Resume(r)
  <2>1. /\ ask[r].view \in DOMAIN config.views
        /\ ToSet(ask[r].fields) \subseteq Declared(config.views[ask[r].view])
        /\ pc[r] = "fetched" => frame[r].payload \in seen[r]
    BY <1>3 DEF QueryFails, Resume, TypeOK, Staged, View
  <2>. QED
    BY <1>3, <2>1 DEF QueryFails, Resume, RightFor, Right
<1>4. CASE Return(r)
  BY <1>4, ReturnIsRight DEF Return
<1>. QED
  BY <1>1, <1>2, <1>3, <1>4, RoundOneIsRight, RoundTwoIsRight DEF Handle

LEMMA StepKeepsPromise ==
    ASSUME NoFunctionNames, TypeOK, TypeOK', WorkIsExplained, [Next]_vars
    PROVE  [C!Next]_(C!contractVars)
<1>1. ASSUME NEW r \in Requests, NEW a \in Asks, Receive(r, a)
      PROVE  C!Next
  <2>1. response[r] = Unsent
    BY <1>1 DEF Receive, TypeOK, Staged
  <2>2. C!Ask(r, a)
    BY <1>1, <2>1 DEF Receive, C!Ask, environment
  <2>. QED
    BY <2>2 DEF C!Next
<1>2. ASSUME NEW r \in Requests, Handle(r)
      PROVE  C!Next \/ UNCHANGED C!contractVars
  <2>1. UNCHANGED <<config, today, db, ask, seen, since>>
    BY <1>2 DEF Handle, Check, person_view, QueryFails, Resume, RoundOne, RoundTwo, Return,
       environment, history
  <2>2. CASE UNCHANGED response
    BY <2>1, <2>2 DEF C!contractVars
  <2>3. ASSUME NEW resp, Respond(r, resp), RightFor(r, resp)
        PROVE  C!Reply(r)
    <3>1. /\ response' = [response EXCEPT ![r] = resp] /\ response'[r] = resp
          /\ pc'[r] = "done"
      BY <2>3 DEF Respond, TypeOK
    <3>2. response[r] = Open /\ response'[r] # Open
      <4>1. pc[r] \notin {"idle", "done"}
        BY <1>2 DEF Handle, Check, person_view, QueryFails, Resume, RoundOne, RoundTwo, Return
      <4>. QED
        BY <3>1, <4>1 DEF TypeOK, Staged
    <3>. QED
      BY <2>1, <2>3, <3>1, <3>2 DEF C!Reply, RightFor
  <2>4. Explained(r)
    BY DEF WorkIsExplained
  <2>. QED
    BY <1>2, <2>2, <2>3, <2>4, HandleIsRight DEF C!Next
<1>3. ASSUME NEW k \in DOMAIN Rows, NEW row \in Rows[k] \cup {NoRow}, Produce(k, row)
      PROVE  C!Next
  <2>1. C!Produce(k, row)
    BY <1>3 DEF Produce, C!Produce, handler
  <2>. QED
    BY <2>1 DEF C!Next
<1>4. ASSUME NextDay
      PROVE  C!Next
  BY <1>4 DEF NextDay, C!Next, C!NextDay, history
<1>5. CASE UNCHANGED vars
  BY <1>5 DEF vars, environment, history, C!contractVars
<1>. QED
  BY <1>1, <1>2, <1>3, <1>4, <1>5 DEF Next

LEMMA InitKeepsPromise == Init => C!Init
  BY DEF Init, C!Init, RowOrNone

\* POST /lookup keeps the promise of LookupContract: every behaviour of the
\* handlers, under any interleaving with the producers and the clock, is one the
\* contract allows.  Each response is sent once, and it is right for one version
\* of the row and one choice of days of the time the request was open.
THEOREM LookupKeepsThePromise ==
    ASSUME NoFunctionNames
    PROVE  Safety => KeepsThePromise
<1>1. TypeOK /\ TypeOK' /\ WorkIsExplained /\ [Next]_vars => [C!Next]_(C!contractVars)
  BY StepKeepsPromise
<1>. QED
  BY <1>1, InitKeepsPromise, TypeCorrect, WorkExplained, PTL
     DEF Safety, KeepsThePromise, C!Safety

-----------------------------------------------------------------------------
(* What the promise means for the answers *)

\* The promise as a statement about states: an answer that was right when it was
\* sent is right ever after, since the days since the request only grow.
AnswersAreRight ==
    \A r \in Requests : response[r] \notin {Unsent, Open} => RightFor(r, response[r])

LEMMA RightWithMoreDays ==
    ASSUME NEW c, NEW a, NEW rows, NEW days, NEW more, days \subseteq more, NEW resp,
           Right(c, a, rows, days, resp)
    PROVE  Right(c, a, rows, more, resp)
  BY DEF Right

LEMMA AnswerStaysRight ==
    ASSUME TypeOK, NEW q \in Requests, RightFor(q, response[q]),
           config' = config, ask'[q] = ask[q], response'[q] = response[q],
           seen'[q] = seen[q], since'[q] = since[q], today' \in Int, today <= today'
    PROVE  RightFor(q, response[q])'
<1>1. since[q] \in Int /\ today \in Int
  BY DayAssumption, LastDayAssumption DEF TypeOK
<1>2. since[q] .. today \subseteq since'[q] .. today'
  BY <1>1
<1>3. Right(config, ask[q], seen[q], since'[q] .. today', response[q])
  BY <1>2, RightWithMoreDays DEF RightFor
<1>. QED
  BY <1>3 DEF RightFor

LEMMA StepKeepsAnswers ==
    ASSUME NoFunctionNames, TypeOK, TypeOK', WorkIsExplained, AnswersAreRight, [Next]_vars
    PROVE  AnswersAreRight'
<1>. SUFFICES ASSUME NEW q \in Requests, response'[q] \notin {Unsent, Open}
              PROVE  RightFor(q, response[q])'
  BY DEF AnswersAreRight
<1>1. today \in Int /\ today' \in Int /\ Explained(q)
  BY DayAssumption, LastDayAssumption DEF TypeOK, WorkIsExplained
<1>2. ASSUME NEW r \in Requests, NEW a \in Asks, Receive(r, a)
      PROVE  RightFor(q, response[q])'
  <2>1. /\ q # r /\ response[q] = response'[q] /\ config' = config /\ ask'[q] = ask[q]
        /\ seen'[q] = seen[q] /\ since'[q] = since[q] /\ today' = today
    BY <1>2 DEF Receive, TypeOK, environment
  <2>. QED
    BY <1>1, <2>1, AnswerStaysRight DEF AnswersAreRight
<1>3. ASSUME NEW r \in Requests, Handle(r)
      PROVE  RightFor(q, response[q])'
  <2>1. UNCHANGED <<config, today, ask, seen, since>>
    BY <1>3 DEF Handle, Check, person_view, QueryFails, Resume, RoundOne, RoundTwo, Return,
       environment, history
  <2>2. CASE response'[q] = response[q]
    BY <1>1, <2>1, <2>2, AnswerStaysRight DEF AnswersAreRight
  <2>3. CASE response'[q] # response[q]
    <3>1. q = r
      BY <1>3, <2>3, HandleTouchesOne
    <3>2. PICK resp : Respond(q, resp) /\ RightFor(q, resp)
      BY <1>1, <1>3, <2>3, <3>1, HandleIsRight
    <3>3. response'[q] = resp
      BY <3>2 DEF Respond, TypeOK
    <3>. QED
      BY <2>1, <3>2, <3>3 DEF RightFor
  <2>. QED
    BY <2>2, <2>3
<1>4. ASSUME NEW k \in DOMAIN Rows, NEW row \in Rows[k] \cup {NoRow}, Produce(k, row)
      PROVE  RightFor(q, response[q])'
  <2>1. /\ response' = response /\ config' = config /\ ask' = ask /\ since' = since
        /\ today' = today /\ response[q] # Open
    BY <1>4 DEF Produce
  <2>2. seen'[q] = seen[q]
    BY <1>4, <2>1 DEF Produce
  <2>. QED
    BY <1>1, <2>1, <2>2, AnswerStaysRight DEF AnswersAreRight
<1>5. ASSUME NextDay \/ UNCHANGED vars
      PROVE  RightFor(q, response[q])'
  <2>1. /\ response' = response /\ config' = config /\ ask' = ask /\ since' = since
        /\ seen' = seen /\ today <= today'
    BY <1>1, <1>5 DEF NextDay, history, vars, environment
  <2>. QED
    BY <1>1, <2>1, AnswerStaysRight DEF AnswersAreRight
<1>. QED
  BY <1>2, <1>3, <1>4, <1>5 DEF Next

LEMMA InitAnswers == Init => AnswersAreRight
  BY DEF Init, AnswersAreRight

\* The promise, read off any later state: whatever has been answered is right for
\* a row and days of the time between the request and now (api/routers.py, lookup).
THEOREM EveryAnswerIsRight ==
    ASSUME NoFunctionNames
    PROVE  Safety => []AnswersAreRight
<1>1. TypeOK /\ TypeOK' /\ WorkIsExplained /\ AnswersAreRight /\ [Next]_vars => AnswersAreRight'
  BY StepKeepsAnswers
<1>. QED
  BY <1>1, InitAnswers, TypeCorrect, WorkExplained, PTL DEF Safety

\* What a 200 says, field by field.
ReportsRow(r, row, day) ==
    /\ \A f \in Needed(View(r), ask[r].fields) :
           ~ Failed(Meaning(config, ask[r].view, f, row, day))
    /\ \A f \in ToSet(ask[r].fields) :
           Get(response[r].answer, f) = Wire(Meaning(config, ask[r].view, f, row, day))

LEMMA AnswerOfFound ==
    ASSUME AnswersAreRight, NEW r \in Requests, response[r].status = 200
    PROVE  \E row \in seen[r] \ {NoRow},
              day \in [Needed(View(r), ask[r].fields) -> since[r] .. today] :
               ReportsRow(r, row, day)
<1>1. response[r] \notin {Unsent, Open}
  BY DEF Unsent, Open
<1>2. Right(config, ask[r], seen[r], since[r] .. today, response[r])
  BY <1>1 DEF AnswersAreRight, RightFor
<1>3. PICK row \in seen[r] \ {NoRow},
           day \in [Needed(View(r), ask[r].fields) -> since[r] .. today] :
          RightGiven(config, ask[r], row, day, response[r])
  <2>1. /\ UnknownViewType.status # 200 /\ UnknownField.status # 200
        /\ UnknownPerson.status # 200 /\ InternalError("database").status # 200
    BY DEF UnknownViewType, UnknownField, UnknownPerson, InternalError
  <2>. QED
    BY <1>2, <2>1 DEF Right, View
<1>. DEFINE Of(f) == Meaning(config, ask[r].view, f, row, day)
<1>4. /\ \A f \in Needed(View(r), ask[r].fields) : ~ Failed(Of(f))
      /\ response[r].answer = Projection(config, ask[r], row, day)
  <2>1. /\ \A f : NotComputable(f).status # 200
        /\ InternalError("rule").status # 200
        /\ \A ans : Found(ans).answer = ans
    BY DEF NotComputable, InternalError, Found
  <2>. HIDE DEF Of
  <2>2. /\ \A f \in Needed(View(r), ask[r].fields) : ~ Failed(Of(f))
        /\ response[r] = Found(Projection(config, ask[r], row, day))
    BY <1>3, <2>1 DEF RightGiven, View, Of
  <2>. QED
    BY <2>1, <2>2
<1>. HIDE DEF Of
<1>5. response[r].answer = [f \in {g \in ToSet(ask[r].fields) : Of(g) # Null} |-> Wire(Of(f))]
  BY <1>4 DEF Projection, Of
<1>6. ASSUME NEW f \in ToSet(ask[r].fields)
      PROVE  Get(response[r].answer, f) = Wire(Of(f))
  <2>1. CASE Of(f) = Null
    <3>1. Get(response[r].answer, f) = Null
      BY <1>5, <2>1 DEF Get
    <3>. QED
      BY <2>1, <3>1 DEF Wire, Null
  <2>2. CASE Of(f) # Null
    BY <1>5, <2>2 DEF Get
  <2>. QED
    BY <2>1, <2>2
<1>. QED
  BY <1>4, <1>6 DEF Of, ReportsRow

\* Two requests with one version of the row and one day report the same value of
\* a field, whatever else they ask for.
THEOREM SameFieldSameAnswer ==
    ASSUME NoFunctionNames
    PROVE  Safety => []SameFieldSameValue
<1>1. ASSUME TypeOK, AnswersAreRight
      PROVE  SameFieldSameValue
  <2>. SUFFICES ASSUME NEW r \in Requests, NEW q \in Requests, OfOneRowAndDay(r, q),
                       NEW f, f \in ToSet(ask[r].fields), f \in ToSet(ask[q].fields)
                PROVE  Get(response[r].answer, f) = Get(response[q].answer, f)
    BY DEF SameFieldSameValue
  <2>. /\ response[r].status = 200 /\ response[q].status = 200
       /\ KeyOf(ask[r]) = KeyOf(ask[q]) /\ seen[r] = seen[q]
       /\ since[r] = today /\ since[q] = today
    BY DEF OfOneRowAndDay
  <2>. PICK version \in seen[r] : seen[r] = {version}
    BY DEF OfOneRowAndDay
  <2>1. View(q) = View(r) /\ ask[q].view = ask[r].view
    BY DEF KeyOf, View
  <2>2. since[r] .. today = {today} /\ since[q] .. today = {today}
    BY <1>1, DayAssumption, LastDayAssumption DEF TypeOK
  <2>3. PICK day \in [Needed(View(r), ask[r].fields) -> {today}] :
            Get(response[r].answer, f) = Wire(Meaning(config, ask[r].view, f, version, day))
    <3>1. PICK row \in seen[r] \ {NoRow},
               day \in [Needed(View(r), ask[r].fields) -> since[r] .. today] :
              ReportsRow(r, row, day)
      BY <1>1, AnswerOfFound
    <3>2. row = version
      OBVIOUS
    <3>3. day \in [Needed(View(r), ask[r].fields) -> {today}]
      BY <2>2
    <3>. QED
      BY <3>1, <3>2, <3>3 DEF ReportsRow
  <2>4. PICK other \in [Needed(View(r), ask[q].fields) -> {today}] :
            Get(response[q].answer, f) = Wire(Meaning(config, ask[r].view, f, version, other))
    <3>1. PICK row \in seen[q] \ {NoRow},
               other \in [Needed(View(q), ask[q].fields) -> since[q] .. today] :
              ReportsRow(q, row, other)
      BY <1>1, AnswerOfFound
    <3>2. row = version
      OBVIOUS
    <3>3. other \in [Needed(View(r), ask[q].fields) -> {today}]
      BY <2>1, <2>2
    <3>. QED
      BY <2>1, <3>1, <3>2, <3>3 DEF ReportsRow
  <2>5. f \in DOMAIN View(r).derived \cup DOMAIN View(r).payloads => other[f] = day[f]
    BY <2>3, <2>4 DEF Needed
  <2>6. f \in DOMAIN View(r).payloads =>
            \A n \in Inputs(View(r), f) : other[n] = day[n]
    BY <2>3, <2>4 DEF Needed
  <2>7. Meaning(config, ask[r].view, f, version, other)
            = Meaning(config, ask[r].view, f, version, day)
    BY <2>5, <2>6, MeaningReadsItsDays DEF View
  <2>. QED
    BY <2>3, <2>4, <2>7
<1>2. TypeOK /\ AnswersAreRight => SameFieldSameValue
  BY <1>1
<1>. QED
  BY <1>2, TypeCorrect, EveryAnswerIsRight, PTL

\* The wire form of a date reads back as that date.
LEMMA WireReadsBack ==
    /\ \A v : AsDate(Wire(v)) = AsDate(v)
    /\ Wire(Null) = Null
<1>1. ASSUME NEW v
      PROVE  AsDate(Wire(v)) = AsDate(v)
  <2>1. CASE v.t = "date"
    <3>. DEFINE piece == [iso |-> v.d]
                text  == <<piece>>
    <3>1. piece.iso = v.d /\ DOMAIN piece = {"iso"}
      OBVIOUS
    <3>2. text # <<>> /\ Head(text) = piece
      <4>. HIDE DEF piece
      <4>1. text \in Seq({piece}) /\ Len(text) = 1 /\ text[1] = piece
        OBVIOUS
      <4>. QED
        BY <4>1
    <3>3. Wire(v) = [t |-> "str", s |-> text]
      BY <2>1 DEF Wire, IsoText, Str
    <3>. HIDE DEF text, piece
    <3>4. Wire(v).t = "str" /\ Wire(v).s = text
      BY <3>3
    <3>5. AsDate(Wire(v)) = Date(v.d)
      BY <3>1, <3>2, <3>4 DEF AsDate
    <3>. QED
      BY <2>1, <3>5 DEF AsDate, Date
  <2>2. CASE v.t # "date"
    BY <2>2 DEF Wire
  <2>. QED
    BY <2>1, <2>2
<1>. QED
  BY <1>1 DEF Wire, Null

\* A payload computed again from the derived values a response reports is the
\* payload computed from the derived values themselves, if those are dates.
LEMMA RecomputedFromTheWire ==
    ASSUME NEW rule, NEW row, NEW constants, NEW dates, NEW day,
           NEW computed, NEW reported, DOMAIN reported = DOMAIN computed,
           DOMAIN computed \subseteq dates,
           \A n \in DOMAIN computed : reported[n] = Wire(computed[n])
    PROVE  Evaluate(rule, row, constants, dates, day, reported)
               = Evaluate(rule, row, constants, dates, day, computed)
<1>1. ASSUME NEW id
      PROVE  ResolveName(id, row, constants, dates, reported)
                 = ResolveName(id, row, constants, dates, computed)
  BY WireReadsBack DEF ResolveName
<1>2. [id \in NamesIn(rule) |-> ResolveName(id, row, constants, dates, reported)]
          = [id \in NamesIn(rule) |-> ResolveName(id, row, constants, dates, computed)]
  BY <1>1
<1>. QED
  BY <1>2 DEF Evaluate

\* The payload of an answer was computed from the very derived values the answer
\* reports, whenever the day changed.
THEOREM PayloadsAgree ==
    ASSUME NoFunctionNames
    PROVE  Safety => []PayloadsAgreeWithDerived
<1>1. ASSUME TypeOK, AnswersAreRight
      PROVE  PayloadsAgreeWithDerived
  <2>. DEFINE dates(r) == datetime_fields(config, ask[r].view)
              Again(r, p, row, d) ==
                  Evaluate(View(r).payloads[p].rule, row, config.constants, dates(r), d,
                           [n \in Inputs(View(r), p) |-> Get(response[r].answer, n)])
  <2>. SUFFICES ASSUME NEW r \in Requests, response[r].status = 200,
                       NEW p \in ToSet(ask[r].fields) \cap DOMAIN View(r).payloads,
                       Inputs(View(r), p) \subseteq ToSet(ask[r].fields) \cap dates(r)
                PROVE  \E row \in seen[r] \ {NoRow}, d \in since[r] .. today :
                           /\ ~ Failed(Again(r, p, row, d))
                           /\ Wire(Again(r, p, row, d)) = Get(response[r].answer, p)
    BY DEF PayloadsAgreeWithDerived
  <2>1. PICK row \in seen[r] \ {NoRow},
             day \in [Needed(View(r), ask[r].fields) -> since[r] .. today] :
            ReportsRow(r, row, day)
    BY <1>1, AnswerOfFound
  <2>. DEFINE Of(f) == Meaning(config, ask[r].view, f, row, day)
              computed == [n \in Inputs(View(r), p) |-> Of(n)]
              reported == [n \in Inputs(View(r), p) |-> Get(response[r].answer, n)]
  <2>2. p \in Needed(View(r), ask[r].fields) /\ Inputs(View(r), p) \subseteq DOMAIN View(r).derived
    BY DEF Needed, Inputs
  <2>3. p \notin DOMAIN View(r).derived
    <3>1. ask[r].view \in DOMAIN config.views
      <4>1. response[r] \notin {Unsent, Open}
        BY DEF Unsent, Open
      <4>2. Right(config, ask[r], seen[r], since[r] .. today, response[r])
        BY <1>1, <4>1 DEF AnswersAreRight, RightFor
      <4>3. UnknownViewType.status # 200
        BY DEF UnknownViewType
      <4>. QED
        BY <4>2, <4>3 DEF Right
    <3>2. WellStructured(config)
      BY <1>1 DEF TypeOK, Accepted
    <3>. QED
      BY <3>1, <3>2 DEF WellStructured, View
  <2>4. Of(p) = Evaluate(View(r).payloads[p].rule, row, config.constants, dates(r), day[p],
                         computed)
    BY <2>2, <2>3, MeaningOfPayload DEF View
  <2>5. Again(r, p, row, day[p]) = Of(p)
    <3>1. \A n \in Inputs(View(r), p) : reported[n] = Wire(computed[n])
      BY <2>1 DEF ReportsRow
    <3>2. Again(r, p, row, day[p])
              = Evaluate(View(r).payloads[p].rule, row, config.constants, dates(r), day[p],
                         reported)
      OBVIOUS
    <3>3. DOMAIN reported = Inputs(View(r), p) /\ DOMAIN computed = Inputs(View(r), p)
      OBVIOUS
    <3>. HIDE DEF reported, computed, Again, Of, dates
    <3>. QED
      BY <2>4, <3>1, <3>2, <3>3, RecomputedFromTheWire
  <2>6. ~ Failed(Of(p)) /\ Wire(Of(p)) = Get(response[r].answer, p)
    BY <2>1, <2>2 DEF ReportsRow
  <2>7. day[p] \in since[r] .. today
    BY <2>2
  <2>. HIDE DEF Again, Of
  <2>. QED
    BY <2>5, <2>6, <2>7
<1>2. TypeOK /\ AnswersAreRight => PayloadsAgreeWithDerived
  BY <1>1
<1>. QED
  BY <1>2, TypeCorrect, EveryAnswerIsRight, PTL

-----------------------------------------------------------------------------
(* Whose fault it is when a field cannot be computed *)

\* What the startup check takes for a date, the constants that are none left out;
\* a constant stands before a field of its name.
DateLike(c, vt) ==
    (datetime_fields(c, vt) \ DOMAIN c.constants)
        \cup {x \in DOMAIN c.constants : AsDate(c.constants[x]) # RuleError}

RulesOf(view) ==
    {view.derived[n].rule : n \in DOMAIN view.derived}
        \cup {view.payloads[n].rule : n \in DOMAIN view.payloads}

\* What Python's parser, JSON and YAML see to: rules are trees, and rows,
\* constants and literals hold data.
SitesAreData(D) ==
    /\ IsData(D)
    /\ \A k \in DOMAIN Rows : \A row \in Rows[k] : \A n \in DOMAIN row : row[n] \in D
    /\ \A c \in Configs :
           /\ \A x \in DOMAIN c.constants : c.constants[x] \in D
           /\ \A v \in DOMAIN c.views : \A rule \in RulesOf(c.views[v]) :
                  /\ rule # <<>> /\ Tree(rule)
                  /\ \A i \in DOMAIN rule : rule[i].op = "lit" => rule[i].value \in D

\* What the startup check leaves to the site: a constant in a date position is a
\* date (validation.py:153 counts every constant), a derived field that declares
\* DATETIME has a rule that yields one (validation.py:39 takes its word), and no
\* payload has the name of a function.
SitesMeanDates ==
    \A c \in Configs : Accepted(c) => \A v \in DOMAIN c.views :
        LET view == c.views[v] IN
        /\ \A rule \in RulesOf(view) : \A i \in DOMAIN rule : rule[i].op = "call" =>
               \A p \in FUNCTIONS[rule[i].fn].dates :
                   YieldsDate(rule, rule[i].args[p], DateLike(c, v))
        /\ \A n \in DOMAIN view.derived : "DATETIME" \in view.derived[n].kinds =>
               YieldsDate(view.derived[n].rule, Len(view.derived[n].rule), DateLike(c, v))
        /\ DOMAIN view.payloads \cap DOMAIN FUNCTIONS = {}

\* Every stored field declared DATETIME is a date in the row.
Timely(c, vt, row) ==
    \A n \in DOMAIN c.views[vt].fields \cap datetime_fields(c, vt) : ~ Failed(AsDate(Get(row, n)))

\* A rule on such a row raises no RuleError, whatever round it belongs to.
LEMMA EvaluateIsSound ==
    ASSUME NEW D, IsData(D), NEW c, NEW vt,
           \A x \in DOMAIN c.constants : c.constants[x] \in D,
           NEW row, \A n \in DOMAIN row : row[n] \in D, Timely(c, vt, row),
           NEW rule, rule # <<>>, Tree(rule),
           \A i \in DOMAIN rule : rule[i].op = "lit" => rule[i].value \in D,
           NEW names, RuleAccepted(rule, names, DateLike(c, vt)),
           NEW computed,
           \A n \in DOMAIN computed :
               /\ Sound(computed[n], D)
               /\ n \in datetime_fields(c, vt) => AsDate(computed[n]) # RuleError,
           \A id \in NamesIn(rule) \cap datetime_fields(c, vt) :
               id \in DOMAIN c.views[vt].fields \cup DOMAIN c.constants \cup DOMAIN computed,
           NEW day
    PROVE  NodeIsSound(rule, Len(rule),
                       Evaluate(rule, row, c.constants, datetime_fields(c, vt), day, computed),
                       DateLike(c, vt), D)
<1>. DEFINE dates == datetime_fields(c, vt)
            env   == [id \in NamesIn(rule) |-> ResolveName(id, row, c.constants, dates, computed)]
<1>1. \A v \in D \cup {Null} : Sound(v, D)
  BY DEF IsData, Sound, Failed, Null
<1>2. ASSUME NEW v, AsDate(v) # RuleError
      PROVE  Sound(AsDate(v), D) /\ Dateable(AsDate(v))
  BY <1>2, AsDateGivesDates DEF Sound, Dateable
<1>3. ASSUME NEW id \in NamesIn(rule)
      PROVE  Sound(env[id], D) /\ (id \in DateLike(c, vt) => Dateable(env[id]))
  <2>1. CASE id \in DOMAIN c.constants
    <3>1. env[id] = c.constants[id]
      BY <2>1 DEF ResolveName
    <3>2. id \in DateLike(c, vt) => Dateable(env[id])
      BY <2>1, <3>1 DEF DateLike, Dateable
    <3>. QED
      BY <1>1, <2>1, <3>1, <3>2
  <2>2. CASE id \notin DOMAIN c.constants /\ id \in dates
    <3>. DEFINE value == IF id \in DOMAIN computed THEN computed[id] ELSE Get(row, id)
    <3>1. env[id] = AsDate(value)
      BY <2>2 DEF ResolveName
    <3>2. AsDate(value) # RuleError
      BY <2>2, FailuresDiffer DEF Timely
    <3>. QED
      BY <1>2, <3>1, <3>2
  <2>3. CASE id \notin DOMAIN c.constants /\ id \notin dates
    <3>. DEFINE value == IF id \in DOMAIN computed THEN computed[id] ELSE Get(row, id)
    <3>1. env[id] = value
      BY <2>3 DEF ResolveName
    <3>2. Get(row, id) \in D \cup {Null}
      BY DEF Get
    <3>. QED
      BY <1>1, <2>3, <3>1, <3>2 DEF DateLike
  <2>. QED
    BY <2>1, <2>2, <2>3
<1>4. WellGiven(rule, env, DateLike(c, vt), D)
  BY <1>3 DEF WellGiven
<1>. HIDE DEF env
<1>5. \A known : NodeIsSound(rule, Len(rule), Interpret(rule, env, known, day),
                             DateLike(c, vt), D)
  BY <1>4, AcceptedRuleIsSound
<1>. QED
  BY <1>5 DEF Evaluate, env

\* The hypotheses, as the handler of one request meets them.
LEMMA RequestIsData ==
    ASSUME NoFunctionNames, NEW D, SitesAreData(D), SitesMeanDates, TypeOK,
           NEW r \in Requests, pc[r] = "computing"
    PROVE  /\ IsData(D) /\ ask[r].view \in DOMAIN config.views
           /\ \A x \in DOMAIN config.constants : config.constants[x] \in D
           /\ \A n \in DOMAIN frame[r].payload : frame[r].payload[n] \in D
           /\ \A rule \in RulesOf(View(r)) :
                  /\ rule # <<>> /\ Tree(rule)
                  /\ \A i \in DOMAIN rule : rule[i].op = "lit" => rule[i].value \in D
<1>1. /\ config \in Configs /\ ask[r].view \in DOMAIN config.views
      /\ frame[r].payload \in RowOrNone /\ frame[r].payload # NoRow
  BY DEF TypeOK, Staged
<1>2. PICK k \in DOMAIN Rows : frame[r].payload \in Rows[k]
  BY <1>1 DEF RowOrNone
<1>. QED
  BY <1>1, <1>2 DEF SitesAreData, View

\* What round one may read, and round two.
LEMMA RulesOfRequestAccepted ==
    ASSUME NoFunctionNames, SitesMeanDates, TypeOK,
           NEW r \in Requests, pc[r] = "computing", NEW dates,
           dates = datetime_fields(config, ask[r].view)
    PROVE  /\ \A n \in DOMAIN View(r).derived :
                  LET rule == View(r).derived[n].rule IN
                  /\ \E names : RuleAccepted(rule, names, DateLike(config, ask[r].view))
                  /\ NamesIn(rule) \cap dates
                         \subseteq DOMAIN View(r).fields \cup DOMAIN config.constants
                  /\ n \in dates => YieldsDate(rule, Len(rule), DateLike(config, ask[r].view))
           /\ \A n \in DOMAIN View(r).payloads :
                  LET rule == View(r).payloads[n].rule IN
                  /\ \E names : RuleAccepted(rule, names, DateLike(config, ask[r].view))
                  /\ NamesIn(rule) \cap dates
                         \subseteq DOMAIN View(r).fields \cup DOMAIN config.constants
                                       \cup Inputs(View(r), n)
<1>. DEFINE view   == View(r)
            like   == DateLike(config, ask[r].view)
            stored == DOMAIN view.fields \cup DOMAIN config.constants
<1>1. /\ config \in Configs /\ Accepted(config) /\ ask[r].view \in DOMAIN config.views
      /\ view = config.views[ask[r].view]
  BY DEF TypeOK, Staged, View
<1>2. /\ DOMAIN view.fields \cap (DOMAIN view.derived \cup DOMAIN view.payloads) = {}
      /\ DOMAIN view.derived \cap DOMAIN view.payloads = {}
  BY <1>1 DEF Accepted, WellStructured
<1>3. DOMAIN view.derived \cap DOMAIN FUNCTIONS = {} /\ DOMAIN view.payloads \cap DOMAIN FUNCTIONS = {}
  BY <1>1, SMTT(40) DEF NoFunctionNames, SitesMeanDates
<1>4. /\ \A n \in DOMAIN view.derived :
             ParseRule(view.derived[n].rule) /\ rule_names(view.derived[n].rule) \subseteq stored
      /\ \A n \in DOMAIN view.payloads :
             /\ ParseRule(view.payloads[n].rule)
             /\ rule_names(view.payloads[n].rule) \subseteq stored \cup DOMAIN view.derived
  BY <1>1 DEF Accepted, ViewAccepted, RuleAccepted
<1>5. \A rule \in RulesOf(view) : \A i \in DOMAIN rule : rule[i].op = "call" =>
          \A p \in FUNCTIONS[rule[i].fn].dates : YieldsDate(rule, rule[i].args[p], like)
  BY <1>1, SMTT(40) DEF SitesMeanDates
<1>6. /\ dates \subseteq DOMAIN view.fields \cup DOMAIN view.derived \cup DOMAIN view.payloads
      /\ \A n \in DOMAIN view.derived \cap dates : "DATETIME" \in view.derived[n].kinds
  BY <1>1, <1>2 DEF datetime_fields
<1>7. ASSUME NEW n \in DOMAIN view.derived, NEW rule, rule = view.derived[n].rule
      PROVE  /\ RuleAccepted(rule, rule_names(rule), like)
             /\ NamesIn(rule) \cap dates \subseteq stored
             /\ n \in dates => YieldsDate(rule, Len(rule), like)
  <2>1. rule \in RulesOf(view)
    BY <1>7 DEF RulesOf
  <2>2. NamesIn(rule) \subseteq stored \cup DOMAIN FUNCTIONS
    BY <1>4, <1>7 DEF rule_names
  <2>3. NamesIn(rule) \cap dates \subseteq stored
    BY <1>3, <1>6, <2>2
  <2>4. n \in dates => YieldsDate(rule, Len(rule), like)
    BY <1>1, <1>6, <1>7 DEF SitesMeanDates
  <2>. QED
    BY <1>4, <1>5, <1>7, <2>1, <2>3, <2>4 DEF RuleAccepted
<1>8. ASSUME NEW n \in DOMAIN view.payloads, NEW rule, rule = view.payloads[n].rule
      PROVE  /\ RuleAccepted(rule, rule_names(rule), like)
             /\ NamesIn(rule) \cap dates \subseteq stored \cup Inputs(view, n)
  <2>1. rule \in RulesOf(view)
    BY <1>8 DEF RulesOf
  <2>2. NamesIn(rule) \subseteq stored \cup DOMAIN view.derived \cup DOMAIN FUNCTIONS
    BY <1>4, <1>8 DEF rule_names
  <2>3. NamesIn(rule) \cap dates \subseteq stored \cup Inputs(view, n)
    BY <1>3, <1>6, <1>8, <2>2 DEF Inputs
  <2>. QED
    BY <1>4, <1>5, <1>8, <2>1, <2>3 DEF RuleAccepted
<1>. QED
  BY <1>7, <1>8

\* A derived field, on a row whose dates are dates.
LEMMA DerivedIsSound ==
    ASSUME NoFunctionNames, NEW D, SitesAreData(D), SitesMeanDates, TypeOK,
           NEW r \in Requests, pc[r] = "computing",
           Timely(config, ask[r].view, frame[r].payload),
           NEW n \in DOMAIN View(r).derived, NEW day, NEW value,
           value = Evaluate(View(r).derived[n].rule, frame[r].payload, config.constants,
                            datetime_fields(config, ask[r].view), day, EmptyDict)
    PROVE  /\ Sound(value, D)
           /\ n \in datetime_fields(config, ask[r].view) => Dateable(value)
<1>. DEFINE rule == View(r).derived[n].rule
            vt   == ask[r].view
            row  == frame[r].payload
<1>1. /\ IsData(D) /\ \A x \in DOMAIN config.constants : config.constants[x] \in D
      /\ \A m \in DOMAIN row : row[m] \in D
      /\ rule # <<>> /\ Tree(rule)
      /\ \A i \in DOMAIN rule : rule[i].op = "lit" => rule[i].value \in D
  BY RequestIsData DEF RulesOf
<1>2. PICK names : RuleAccepted(rule, names, DateLike(config, vt))
  BY RulesOfRequestAccepted, SMTT(40)
<1>3. /\ \A id \in NamesIn(rule) \cap datetime_fields(config, vt) :
             id \in DOMAIN config.views[vt].fields \cup DOMAIN config.constants
      /\ n \in datetime_fields(config, vt) => YieldsDate(rule, Len(rule), DateLike(config, vt))
  BY RulesOfRequestAccepted DEF View
<1>4. DOMAIN EmptyDict = {}
  BY DEF EmptyDict
<1>. HIDE DEF rule, vt, row
<1>5. NodeIsSound(rule, Len(rule),
                  Evaluate(rule, row, config.constants, datetime_fields(config, vt), day, EmptyDict),
                  DateLike(config, vt), D)
  BY <1>1, <1>2, <1>3, <1>4, EvaluateIsSound DEF vt, row
<1>. QED
  BY <1>3, <1>5 DEF NodeIsSound, rule, vt, row

\* A payload, from round one's values: none of them failed, or the request would
\* have ended.
LEMMA PayloadIsSound ==
    ASSUME NoFunctionNames, NEW D, SitesAreData(D), SitesMeanDates, TypeOK,
           NEW r \in Requests, pc[r] = "computing", frame[r].pending = {}, Explained(r),
           Timely(config, ask[r].view, frame[r].payload),
           NEW p \in ToSet(ask[r].fields) \cap DOMAIN View(r).payloads
    PROVE  EvaluateFor(r, View(r).payloads[p], frame[r].computed) # RuleError
<1>. DEFINE rule     == View(r).payloads[p].rule
            vt       == ask[r].view
            row      == frame[r].payload
            computed == frame[r].computed
            dates    == datetime_fields(config, vt)
<1>1. /\ IsData(D) /\ \A x \in DOMAIN config.constants : config.constants[x] \in D
      /\ \A m \in DOMAIN row : row[m] \in D
      /\ rule # <<>> /\ Tree(rule) /\ vt \in DOMAIN config.views
      /\ \A i \in DOMAIN rule : rule[i].op = "lit" => rule[i].value \in D
  BY RequestIsData DEF RulesOf
<1>2. PICK names : RuleAccepted(rule, names, DateLike(config, vt))
  BY RulesOfRequestAccepted
<1>3. /\ DOMAIN computed = needed(r) /\ needed(r) \subseteq DOMAIN View(r).derived
      /\ Inputs(View(r), p) \subseteq DOMAIN computed
  <2>1. DOMAIN computed = needed(r)
    BY DEF TypeOK, Staged
  <2>. QED
    BY <1>1, <2>1, NeededCoversInputs
<1>4. \A id \in NamesIn(rule) \cap dates :
          id \in DOMAIN config.views[vt].fields \cup DOMAIN config.constants \cup DOMAIN computed
  BY <1>3, RulesOfRequestAccepted DEF View
<1>5. ASSUME NEW n \in DOMAIN computed
      PROVE  Sound(computed[n], D) /\ (n \in dates => AsDate(computed[n]) # RuleError)
  <2>1. PICK day \in [Needed(View(r), ask[r].fields) -> since[r] .. today] : ExplainedBy(r, day)
    BY DEF Explained
  <2>2. computed[n] = MeaningFor(r, n, day) /\ ~ Failed(computed[n])
    BY <2>1 DEF ExplainedBy
  <2>3. n \in DOMAIN View(r).derived
    BY <1>3
  <2>4. computed[n] = Evaluate(View(r).derived[n].rule, row, config.constants, dates, day[n],
                               EmptyDict)
    BY <2>2, <2>3, MeaningOfDerived DEF MeaningFor, View
  <2>5. Sound(computed[n], D) /\ (n \in dates => Dateable(computed[n]))
    BY <2>3, <2>4, DerivedIsSound
  <2>. QED
    BY <2>2, <2>5, FailuresDiffer DEF Dateable
<1>. HIDE DEF rule, vt, row, computed, dates
<1>6. NodeIsSound(rule, Len(rule), Evaluate(rule, row, config.constants, dates, today, computed),
                  DateLike(config, vt), D)
  BY <1>1, <1>2, <1>4, <1>5, EvaluateIsSound DEF vt, row, dates
<1>. QED
  BY <1>6 DEF NodeIsSound, Sound, RuleError, EvaluateFor, rule, vt, row, computed, dates

\* Only a RuleError puts the name of a field into a response.
LEMMA FieldNamesAFailure ==
    /\ "field" \notin DOMAIN Open
    /\ "field" \notin DOMAIN UnknownViewType /\ "field" \notin DOMAIN UnknownField
    /\ "field" \notin DOMAIN UnknownPerson
    /\ \A cause : "field" \notin DOMAIN InternalError(cause)
    /\ \A ans : "field" \notin DOMAIN Found(ans)
  BY DEF Open, UnknownViewType, UnknownField, UnknownPerson, InternalError, Found

LEMMA HandleBlamesTheRow ==
    ASSUME NoFunctionNames, NEW D, SitesAreData(D), SitesMeanDates, TypeOK,
           NEW r \in Requests, Explained(r), Handle(r), "field" \in DOMAIN response'[r]
    PROVE  /\ frame[r].payload \in seen[r] \ {NoRow}
           /\ ~ Timely(config, ask[r].view, frame[r].payload)
<1>1. ASSUME NEW resp, "field" \notin DOMAIN resp, Respond(r, resp)
      PROVE  FALSE
  BY <1>1 DEF Respond, TypeOK
<1>2. ASSUME response'[r] = response[r] PROVE FALSE
  <2>1. pc[r] \notin {"idle", "done"}
    BY DEF Handle, Check, person_view, QueryFails, Resume, RoundOne, RoundTwo, Return
  <2>. QED
    BY <1>2, <2>1, FieldNamesAFailure DEF TypeOK, Staged
<1>3. ASSUME NEW name, NEW failure, FailWith(r, name, failure)
      PROVE  failure = RuleError
  BY <1>1, <1>3, FieldNamesAFailure DEF FailWith
<1>4. \/ pc[r] = "computing" /\ RoundOne(r)
      \/ pc[r] = "computing" /\ frame[r].pending = {} /\ RoundTwo(r)
  <2>1. CASE Check(r)
    BY <1>1, <1>2, <2>1, FieldNamesAFailure DEF Check
  <2>2. CASE person_view(r)
    BY <1>2, <2>2 DEF person_view
  <2>3. CASE QueryFails(r) \/ Return(r)
    BY <1>1, <2>3, FieldNamesAFailure DEF QueryFails, Return
  <2>4. CASE Resume(r)
    BY <1>1, <1>2, <2>4, FieldNamesAFailure, SMTT(40) DEF Resume
  <2>5. CASE RoundOne(r) \/ RoundTwo(r)
    BY <2>5 DEF RoundOne, RoundTwo
  <2>. QED
    BY <2>1, <2>2, <2>3, <2>4, <2>5 DEF Handle
<1>5. /\ frame[r].payload \in seen[r] \ {NoRow} /\ ask[r].view \in DOMAIN config.views
      /\ frame[r].payload \in RowOrNone /\ frame[r].payload # NoRow
      /\ frame[r].pending \cup DOMAIN frame[r].computed = needed(r)
  BY <1>4 DEF TypeOK, Staged
<1>6. ASSUME Timely(config, ask[r].view, frame[r].payload), RoundOne(r)
      PROVE  FALSE
  <2>1. PICK name \in frame[r].pending :
            \/ FailWith(r, name, EvaluateFor(r, View(r).derived[name], EmptyDict))
            \/ UNCHANGED response
    BY <1>6 DEF RoundOne
  <2>2. EvaluateFor(r, View(r).derived[name], EmptyDict) = RuleError
    BY <1>2, <1>3, <2>1
  <2>3. name \in DOMAIN View(r).derived
    BY <1>5, NeededCoversInputs
  <2>4. Sound(EvaluateFor(r, View(r).derived[name], EmptyDict), D)
    BY <1>4, <1>6, <2>3, DerivedIsSound DEF EvaluateFor
  <2>. QED
    BY <2>2, <2>4 DEF Sound, RuleError
<1>7. ASSUME Timely(config, ask[r].view, frame[r].payload), RoundTwo(r), frame[r].pending = {}
      PROVE  FALSE
  <2>1. PICK key, value :
            /\ key = ask[r].fields[frame[r].at] /\ value = ValueOf(r, key)
            /\ frame[r].at <= Len(ask[r].fields)
            /\ FailWith(r, key, value) \/ UNCHANGED response
    BY <1>7 DEF RoundTwo
  <2>2. value = RuleError
    BY <1>2, <1>3, <2>1
  <2>3. key \in ToSet(ask[r].fields)
    BY <1>4, <2>1, AtIsAPosition DEF ToSet
  <2>4. key \notin DOMAIN View(r).derived
    <3>1. PICK day \in [Needed(View(r), ask[r].fields) -> since[r] .. today] : ExplainedBy(r, day)
      BY <1>4 DEF Explained
    <3>2. \A n \in DOMAIN frame[r].computed : ~ Failed(frame[r].computed[n])
      BY <3>1 DEF ExplainedBy
    <3>3. key \in DOMAIN View(r).derived => key \in DOMAIN frame[r].computed
      BY <1>5, <1>7, <2>3, NeededCoversInputs
    <3>. QED
      BY <2>1, <2>2, <3>2, <3>3, FailuresDiffer DEF ValueOf
  <2>5. key \in DOMAIN View(r).payloads
    <3>1. ~ Failed(Get(frame[r].payload, key))
      BY <1>5, ValuesAssumption, SMTT(30) DEF RowOrNone, Get, Failed, Null
    <3>. QED
      BY <2>1, <2>2, <2>4, <3>1, FailuresDiffer DEF ValueOf
  <2>6. value = EvaluateFor(r, View(r).payloads[key], frame[r].computed)
    BY <2>1, <2>4, <2>5 DEF ValueOf
  <2>. QED
    BY <1>4, <1>7, <2>2, <2>3, <2>5, <2>6, PayloadIsSound
<1>. QED
  BY <1>4, <1>5, <1>6, <1>7

\* The body of NotComputableBlamesTheRow, for one request.
Blamed(r) ==
    "field" \in DOMAIN response[r] =>
        \E row \in seen[r] \ {NoRow} : ~ Timely(config, ask[r].view, row)

LEMMA StepKeepsBlame ==
    ASSUME NoFunctionNames, NEW D, SitesAreData(D), SitesMeanDates, TypeOK, WorkIsExplained,
           \A r \in Requests : Blamed(r), [Next]_vars, NEW q \in Requests
    PROVE  Blamed(q)'
<1>1. ASSUME response'[q] = response[q], config' = config, ask'[q] = ask[q],
             seen[q] \subseteq seen'[q]
      PROVE  Blamed(q)'
  BY <1>1 DEF Blamed, Timely
<1>2. ASSUME NEW r \in Requests, NEW a \in Asks, Receive(r, a)
      PROVE  Blamed(q)'
  <2>1. CASE q = r
    <3>1. response'[q] = Open
      BY <1>2, <2>1 DEF Receive, TypeOK
    <3>. QED
      BY <3>1, FieldNamesAFailure DEF Blamed
  <2>2. CASE q # r
    <3>1. /\ response'[q] = response[q] /\ config' = config /\ ask'[q] = ask[q]
          /\ seen'[q] = seen[q]
      BY <1>2, <2>2 DEF Receive, TypeOK, environment
    <3>. QED
      BY <1>1, <3>1
  <2>. QED
    BY <2>1, <2>2
<1>3. ASSUME NEW r \in Requests, Handle(r)
      PROVE  Blamed(q)'
  <2>1. UNCHANGED <<config, ask, seen>>
    BY <1>3 DEF Handle, Check, person_view, QueryFails, Resume, RoundOne, RoundTwo, Return,
       environment, history
  <2>2. CASE q = r
    <3>. SUFFICES ASSUME "field" \in DOMAIN response'[q]
                  PROVE  \E row \in seen[q] \ {NoRow} : ~ Timely(config, ask[q].view, row)
      BY <2>1 DEF Blamed, Timely
    <3>. QED
      BY <1>3, <2>2, HandleBlamesTheRow DEF WorkIsExplained
  <2>3. CASE q # r
    BY <1>1, <1>3, <2>1, <2>3, HandleTouchesOne
  <2>. QED
    BY <2>2, <2>3
<1>4. ASSUME NEW k \in DOMAIN Rows, NEW row \in Rows[k] \cup {NoRow}, Produce(k, row)
      PROVE  Blamed(q)'
  <2>1. seen[q] \subseteq seen'[q]
    BY <1>4 DEF Produce
  <2>. QED
    BY <1>1, <1>4, <2>1 DEF Produce
<1>5. CASE NextDay \/ UNCHANGED vars
  BY <1>1, <1>5 DEF NextDay, vars, environment, history
<1>. QED
  BY <1>2, <1>3, <1>4, <1>5 DEF Next

\* "Derived field cannot be computed" blames the row (api/routers.py): on sites
\* that mean dates by their dates, the field is named only for a row that was
\* there and in which a field declared DATETIME is no date, whatever rules the
\* configuration has.
THEOREM NotComputableIsTheRowsFault ==
    ASSUME NoFunctionNames, NEW CONSTANT D, SitesAreData(D), SitesMeanDates
    PROVE  Safety => []NotComputableBlamesTheRow
<1>. DEFINE AllBlamed == \A r \in Requests : Blamed(r)
<1>1. Init => AllBlamed
  <2>1. "field" \notin DOMAIN Unsent
    BY DEF Unsent
  <2>. QED
    BY <2>1 DEF Init, Blamed
<1>2. TypeOK /\ WorkIsExplained /\ AllBlamed /\ [Next]_vars => AllBlamed'
  BY StepKeepsBlame
<1>3. AllBlamed => NotComputableBlamesTheRow
  BY DEF NotComputableBlamesTheRow, Blamed, Timely, View
<1>. HIDE DEF AllBlamed
<1>. QED
  BY <1>1, <1>2, <1>3, TypeCorrect, WorkExplained, PTL DEF Safety

=============================================================================
