--------------------------- MODULE RuleWritingProofs ---------------------------
(***************************************************************************)
(* What holds of every rule a site can write, whatever its size: the       *)
(* startup check of validation.py and the evaluator of rules.py agree      *)
(* about it.                                                               *)
(***************************************************************************)
EXTENDS RuleWriting, RuleProofs, SequenceTheorems

-----------------------------------------------------------------------------
(* Type correctness *)

LEMMA LeafNodes ==
    \A leaf \in Leaves : leaf.op \in {"lit", "name"}
  BY LeavesAssumption

LEMMA StepTyped ==
    TypeOK /\ [Next]_vars => TypeOK'
<1>. SUFFICES ASSUME TypeOK, [Next]_vars
              PROVE  TypeOK'
  OBVIOUS
<1>1. /\ rule \in Seq(Nodes) /\ Tree(rule) /\ open \in Seq(1 .. Len(rule))
      /\ Len(rule) \in Nat /\ Len(open) \in Nat /\ MaxNodes \in Nat
  BY BoundsAssumption DEF TypeOK
<1>2. ASSUME NEW node \in Nodes, rule' = Append(rule, node),
             \/ node.op \in {"lit", "name"}
             \/ node.op = "call" /\ node.args \in Seq(1 .. Len(rule)),
             NEW n \in 0 .. Len(open),
             open' = Append(SubSeq(open, 1, n), Len(rule) + 1)
      PROVE  TypeOK'
  <2>1. /\ rule' \in Seq(Nodes) /\ Len(rule') = Len(rule) + 1
        /\ DOMAIN rule' = 1 .. Len(rule) + 1
        /\ \A i \in 1 .. Len(rule) : rule'[i] = rule[i]
        /\ rule'[Len(rule) + 1] = node
    BY <1>1, <1>2
  <2>2. ASSUME NEW i \in DOMAIN rule'
        PROVE  \/ rule'[i].op \in {"lit", "name"}
               \/ /\ rule'[i].op = "call"
                  /\ Len(rule'[i].args) \in Nat
                  /\ DOMAIN rule'[i].args = 1 .. Len(rule'[i].args)
                  /\ \A p \in DOMAIN rule'[i].args : rule'[i].args[p] \in 1 .. i - 1
    <3>1. CASE i \in 1 .. Len(rule)
      BY <1>1, <2>1, <3>1 DEF Tree
    <3>2. CASE i = Len(rule) + 1
      <4>1. CASE node.op \in {"lit", "name"}
        BY <2>1, <3>2, <4>1
      <4>2. CASE node.op = "call" /\ node.args \in Seq(1 .. Len(rule))
        <5>1. \A p \in DOMAIN node.args : node.args[p] \in 1 .. i - 1
          BY <1>1, <3>2, <4>2
        <5>. QED
          BY <2>1, <3>2, <4>2, <5>1, LenProperties
      <4>. QED
        BY <1>2, <4>1, <4>2
    <3>. QED
      BY <1>1, <2>1, <3>1, <3>2
  <2>3. Tree(rule')
    BY <1>1, <2>1, <2>2 DEF Tree
  <2>4. open' \in Seq(1 .. Len(rule'))
    <3>. DEFINE below == 1 .. Len(rule')
    <3>1. \A i \in 1 .. n : open[i] \in below
      BY <1>1, <1>2, <2>1
    <3>2. Len(rule) + 1 \in below
      BY <1>1, <2>1
    <3>. HIDE DEF below
    <3>3. SubSeq(open, 1, n) \in Seq(below)
      <4>1. 1 \in Int /\ n \in Int
        BY <1>2
      <4>. QED
        BY <3>1, <4>1, SubSeqProperties
    <3>4. Append(SubSeq(open, 1, n), Len(rule) + 1) \in Seq(below)
      BY <3>2, <3>3
    <3>5. open' \in Seq(below)
      BY <1>2, <3>4
    <3>. QED
      BY <3>5 DEF below
  <2>. QED
    BY <2>1, <2>2, <2>3, <2>4 DEF TypeOK, Nodes
<1>3. ASSUME NEW leaf \in Leaves, WriteLeaf(leaf)
      PROVE  TypeOK'
  <2>1. SubSeq(open, 1, Len(open)) = open
    BY <1>1, SubSeqFull
  <2>2. leaf \in Nodes /\ leaf.op \in {"lit", "name"} /\ Len(open) \in 0 .. Len(open)
    BY <1>1, LeafNodes DEF Nodes
  <2>. QED
    BY <1>2, <1>3, <2>1, <2>2 DEF WriteLeaf
<1>4. ASSUME NEW fn \in Functions, NEW n \in 0 .. MaxArgs, WriteCall(fn, n)
      PROVE  TypeOK'
  <2>. DEFINE rest == Len(open) - n
              args == SubSeq(open, rest + 1, Len(open))
              node == Call(fn, args)
  <2>1. /\ n \in Nat /\ n <= Len(open) /\ rest \in 0 .. Len(open)
        /\ rule' = Append(rule, node)
        /\ open' = Append(SubSeq(open, 1, rest), Len(rule) + 1)
        /\ Len(rule') <= MaxNodes
    BY <1>1, <1>4, BoundsAssumption DEF WriteCall, Finishable
  <2>2. args \in Seq(1 .. Len(rule))
    <3>1. rest + 1 \in Int /\ Len(open) \in Int
      BY <1>1, <2>1
    <3>2. \A i \in rest + 1 .. Len(open) : open[i] \in 1 .. Len(rule)
      BY <1>1, <2>1, SMTT(40)
    <3>. QED
      BY <3>1, <3>2, SubSeqProperties
  <2>3. args \in Seq(1 .. MaxNodes)
    <3>1. Len(rule') = Len(rule) + 1
      BY <1>1, <2>1
    <3>2. 1 .. Len(rule) \subseteq 1 .. MaxNodes
      BY <1>1, <2>1, <3>1
    <3>. HIDE DEF args
    <3>. QED
      BY <2>2, <3>2, SeqMonotonic
  <2>. HIDE DEF args, rest
  <2>4. /\ node \in Nodes /\ node.op = "call" /\ node.args = args
    BY <2>3 DEF Nodes, Call
  <2>. HIDE DEF node
  <2>. QED
    BY <1>2, <2>1, <2>2, <2>4
<1>5. CASE UNCHANGED vars
  BY <1>5 DEF vars, TypeOK
<1>. QED
  BY <1>3, <1>4, <1>5 DEF Next

LEMMA InitTyped == Init => TypeOK
<1>. SUFFICES ASSUME Init PROVE TypeOK
  OBVIOUS
<1>1. rule = <<>> /\ open = <<>> /\ Len(rule) = 0 /\ DOMAIN rule = {}
  BY DEF Init
<1>. QED
  BY <1>1 DEF TypeOK, Tree

\* What the site writes is a tree of leaves and calls.
LEMMA RulesAreTrees == Spec => []TypeOK
  BY InitTyped, StepTyped, PTL DEF Spec

-----------------------------------------------------------------------------
(* The function table and the evaluator take the same arguments *)

LEMMA ArityIsTaken ==
    \A fn \in DOMAIN TakenByPosition :
        /\ ~ FUNCTIONS[fn].variadic
        /\ FUNCTIONS[fn].arity = TakenByPosition[fn]
  BY SMTT(60) DEF FUNCTIONS, Exactly, AtLeast, TakenByPosition

\* A rule of any size that parse_rule returns gives every call the arguments
\* the evaluator takes by position: none is missing, none is ignored.
THEOREM ArgumentsAreFound == Spec => []EvaluateFindsItsArguments
<1>1. EvaluateFindsItsArguments
  <2>. SUFFICES ASSUME ParseRule(rule), NEW i \in DOMAIN rule, rule[i].op = "call",
                       rule[i].fn \in DOMAIN TakenByPosition
                PROVE  Len(rule[i].args) = TakenByPosition[rule[i].fn]
    BY DEF EvaluateFindsItsArguments
  <2>1. ArityFits(rule[i])
    BY DEF ParseRule
  <2>. QED
    BY <2>1, ArityIsTaken DEF ArityFits
<1>. QED
  BY <1>1, PTL

-----------------------------------------------------------------------------
(* The rule the view has *)

\* The names of the rule, resolved in a row.
Resolved(row) ==
    [id \in NamesIn(rule) |->
        ResolveName(id, row, Constants, datetime_fields(Site, "site"), EmptyDict)]

LEMMA WholeRule ==
    ASSUME TypeOK, Whole
    PROVE  /\ rule # <<>> /\ Len(rule) \in Nat /\ Len(rule) \in DOMAIN rule
           /\ SubSeq(rule, 1, Len(rule)) = rule
<1>1. open[1] \in 1 .. Len(rule)
  BY DEF TypeOK, Whole
<1>. QED
  BY <1>1, SubSeqFull DEF TypeOK

LEMMA ValueOfRule ==
    ASSUME TypeOK, Whole, NEW row
    PROVE  /\ Value(Len(rule), row) = Evaluate(rule, row, Constants,
                                               datetime_fields(Site, "site"), Today, EmptyDict)
           /\ \E known : Value(Len(rule), row) = Interpret(rule, Resolved(row), known, Today)
<1>1. Value(Len(rule), row) = Evaluate(rule, row, Constants,
                                       datetime_fields(Site, "site"), Today, EmptyDict)
  BY WholeRule DEF Value
<1>. QED
  BY <1>1 DEF Evaluate, Resolved

-----------------------------------------------------------------------------
(* The function table and the evaluator agree *)

LEMMA CallsReturn ==
    ASSUME TypeOK, Whole, rule[Len(rule)].op = "call", NEW row,
           FUNCTIONS[rule[Len(rule)].fn].returns # "any"
    PROVE  \/ Failed(Value(Len(rule), row)) \/ Value(Len(rule), row) = Null
           \/ Value(Len(rule), row).t = TagOf[FUNCTIONS[rule[Len(rule)].fn].returns]
<1>. DEFINE node == rule[Len(rule)]
            fn   == node.fn
            v    == Value(Len(rule), row)
<1>1. PICK known : v = Interpret(rule, Resolved(row), known, Today)
  BY ValueOfRule
<1>. DEFINE values == Values(rule, Resolved(row), known, Today)
            arguments == [p \in DOMAIN node.args |-> values[node.args[p]]]
            failing   == {p \in DOMAIN node.args : Failed(arguments[p])}
<1>2. v = NodeValue(rule, node, values, Resolved(row), known, Today)
  <2>1. Tree(rule) /\ Len(rule) \in DOMAIN rule
    BY WholeRule DEF TypeOK
  <2>. QED
    BY <1>1, <2>1, ValueOfNode DEF Interpret
<1>3. /\ fn \in DOMAIN FUNCTIONS /\ node.op = "call"
      /\ Len(node.args) \in Nat /\ DOMAIN node.args = 1 .. Len(node.args)
  <2>1. node \in Nodes /\ Tree(rule) /\ Len(rule) \in DOMAIN rule
    BY WholeRule DEF TypeOK
  <2>2. fn \in Functions
    BY <2>1, LeafNodes DEF Nodes
  <2>. QED
    BY <2>1, <2>2, FunctionsAssumption DEF Tree
<1>4. fn # "if_else" /\ FUNCTIONS[fn].returns \in {"date", "number", "boolean", "string"}
  BY <1>3, SMTT(40) DEF FUNCTIONS, Exactly, AtLeast
<1>5. CASE fn = "exists"
  <2>1. v.t = "bool"
    BY <1>2, <1>3, <1>5 DEF NodeValue, Bool
  <2>2. FUNCTIONS[fn].returns = "boolean"
    BY <1>5, SMTT(40) DEF FUNCTIONS, Exactly
  <2>. QED
    BY <2>1, <2>2 DEF TagOf
<1>6. CASE fn # "exists" /\ failing # {}
  <2>1. v = arguments[Min(failing)]
    BY <1>2, <1>3, <1>4, <1>6 DEF NodeValue
  <2>2. Min(failing) \in failing
    <3>1. failing \subseteq Nat
      BY <1>3
    <3>. HIDE DEF failing
    <3>. QED
      BY <1>6, <3>1, LeastElement
  <2>. QED
    BY <2>1, <2>2, ZenonT(60)
<1>7. CASE fn # "exists" /\ failing = {}
  <2>1. v = Apply(fn, arguments, Today)
    BY <1>2, <1>3, <1>4, <1>7 DEF NodeValue
  <2>. HIDE DEF v, arguments, fn
  <2>2. Failed(v) \/ v = Null \/ IsOf(v, FUNCTIONS[fn].returns)
    BY <1>3, <1>4, <1>7, <2>1, ApplyReturns DEF fn
  <2>3. IsOf(v, FUNCTIONS[fn].returns) => v.t = TagOf[FUNCTIONS[fn].returns]
    BY DEF IsOf, TagOf
  <2>. QED
    BY <2>2, <2>3 DEF v, fn
<1>. QED
  BY <1>5, <1>6, <1>7

\* Whatever rule parse_rule returns, on whatever row: a call that does not fail gives
\* null or a value of the type FUNCTIONS says it returns.
THEOREM TableAndEvaluatorAgree == Spec => []CallsReturnWhatTheTableSays
<1>1. TypeOK => CallsReturnWhatTheTableSays
  BY CallsReturn DEF CallsReturnWhatTheTableSays
<1>. QED
  BY <1>1, RulesAreTrees, PTL

-----------------------------------------------------------------------------
(* The startup check is sound *)

\* Every constant counts as a date in the startup check (validation.py:153),
\* which does not look at its value: those that a rule may name are to be dates.
ConstantsReadAsDates ==
    \A c \in DOMAIN Constants : Name(c) \in Leaves => AsDate(Constants[c]) # RuleError

LEMMA ServedRule ==
    ASSUME Served
    PROVE  /\ RuleAccepted(rule, DOMAIN Fields \cup DOMAIN Constants,
                           datetime_fields(Site, "site") \cup DOMAIN Constants)
           /\ DOMAIN Fields \cap {"computed"} = {}
           /\ datetime_fields(Site, "site") =
                  {n \in DOMAIN Fields : "DATETIME" \in Fields[n].kinds}
           /\ referenced_fields(Site, "site") =
                  (DOMAIN Fields \cup rule_names(rule)) \ (DOMAIN Constants \cup {"computed"})
<1>1. /\ DOMAIN Site.views = {"site"} /\ Site.constants = Constants
      /\ Site.views["site"].fields = Fields
      /\ DOMAIN Site.views["site"].derived = {"computed"}
      /\ Site.views["site"].derived["computed"].rule = rule
      /\ Site.views["site"].derived["computed"].kinds = {"TEXT"}
      /\ DOMAIN Site.views["site"].payloads = {}
  BY DEF Site, Nothing
<1>2. WellStructured(Site) /\ ViewAccepted(Site, "site")
  BY <1>1 DEF Served, Accepted
<1>. HIDE DEF Site
<1>. QED
  BY <1>1, <1>2 DEF WellStructured, ViewAccepted, datetime_fields, referenced_fields

LEMMA ServedRuleIsWellGiven ==
    ASSUME ConstantsReadAsDates, TypeOK, Served, NEW row \in TypedRows
    PROVE  WellGiven(rule, Resolved(row), datetime_fields(Site, "site") \cup DOMAIN Constants, Data)
<1>. DEFINE dates == datetime_fields(Site, "site")
<1>1. \A i \in DOMAIN rule : rule[i].op # "call" => rule[i] \in Leaves
  BY DEF TypeOK, Nodes
<1>2. ASSUME NEW i \in DOMAIN rule, rule[i].op = "lit"
      PROVE  rule[i].value \in Data
  BY <1>1, <1>2, DataAssumption
<1>3. ASSUME NEW id \in NamesIn(rule)
      PROVE  /\ Sound(Resolved(row)[id], Data)
             /\ id \in dates \cup DOMAIN Constants => Dateable(Resolved(row)[id])
  <2>1. Name(id) \in Leaves
    BY <1>1, LeavesAssumption DEF NamesIn, Lit
  <2>2. Resolved(row)[id] =
            IF id \in DOMAIN Constants THEN Constants[id]
            ELSE IF id \in dates THEN AsDate(Get(row, id)) ELSE Get(row, id)
    BY DEF Resolved, ResolveName, EmptyDict
  <2>3. \A v \in Data \cup {Null} : Sound(v, Data)
    BY DataAssumption DEF IsData, Sound, Failed, Null
  <2>4. CASE id \in DOMAIN Constants
    <3>1. Resolved(row)[id] = Constants[id] /\ Constants[id] \in Data
      BY <2>2, <2>4, DataAssumption
    <3>2. AsDate(Constants[id]) # RuleError
      BY <2>1, <2>4 DEF ConstantsReadAsDates
    <3>. QED
      BY <2>3, <3>1, <3>2 DEF Dateable
  <2>5. CASE id \notin DOMAIN Constants /\ id \in dates
    <3>1. id \in DOMAIN Fields /\ "DATETIME" \in Fields[id].kinds
      BY <2>5, ServedRule
    <3>2. AsDate(Get(row, id)) # RuleError
      BY <3>1, TypedRowsAssumption
    <3>3. /\ Resolved(row)[id] = AsDate(Get(row, id))
      BY <2>2, <2>5
    <3>. QED
      BY <3>2, <3>3, AsDateGivesDates DEF Sound, Dateable, RuleError
  <2>6. CASE id \notin DOMAIN Constants /\ id \notin dates
    <3>1. Get(row, id) \in Data \cup {Null}
      BY DataAssumption DEF Get
    <3>. QED
      BY <2>2, <2>3, <2>6, <3>1
  <2>. QED
    BY <2>4, <2>5, <2>6
<1>. QED
  BY <1>2, <1>3 DEF WellGiven

\* A rule of any size that the startup check accepted raises no RuleError on a
\* row whose dates are dates, when the constants it names are dates: the only
\* cause of "cannot be computed" is then in the row.
THEOREM StartupCheckIsSound ==
    ASSUME ConstantsReadAsDates
    PROVE  Spec => []ServedRulesReadDates
<1>1. ASSUME TypeOK
      PROVE  ServedRulesReadDates
  <2>. SUFFICES ASSUME Served, NEW row \in TypedRows
                PROVE  Value(Len(rule), row) # RuleError
    BY DEF ServedRulesReadDates
  <2>. DEFINE date_like == datetime_fields(Site, "site") \cup DOMAIN Constants
              names     == DOMAIN Fields \cup DOMAIN Constants
  <2>1. Whole /\ rule # <<>> /\ Tree(rule) /\ IsData(Data)
    BY <1>1, WholeRule, DataAssumption DEF Served, TypeOK
  <2>2. PICK known : Value(Len(rule), row) = Interpret(rule, Resolved(row), known, Today)
    BY <1>1, <2>1, ValueOfRule
  <2>3. RuleAccepted(rule, names, date_like)
    BY ServedRule
  <2>4. WellGiven(rule, Resolved(row), date_like, Data)
    BY <1>1, ServedRuleIsWellGiven
  <2>. HIDE DEF date_like, names
  <2>5. NodeIsSound(rule, Len(rule), Interpret(rule, Resolved(row), known, Today),
                    date_like, Data)
    BY <2>1, <2>3, <2>4, AcceptedRuleIsSound
  <2>. QED
    BY <2>2, <2>5 DEF NodeIsSound, Sound, RuleError
<1>2. TypeOK => ServedRulesReadDates
  BY <1>1
<1>. QED
  BY <1>2, RulesAreTrees, PTL

-----------------------------------------------------------------------------
(* What a producer is told to write *)

\* No constant takes the name of a field or of a key of the row, and a key with
\* the name of a function is declared: referenced_fields leaves both out.
NamesDoNotCollide ==
    /\ DOMAIN Fields \cap DOMAIN Constants = {}
    /\ \A row \in TypedRows :
           /\ DOMAIN row \cap DOMAIN Constants = {}
           /\ DOMAIN row \cap DOMAIN FUNCTIONS \subseteq DOMAIN Fields

\* A producer that writes referenced_fields and nothing else gives each stored
\* field and the rule, of any size, the value they have in the whole row.
THEOREM ProducersWriteEnough ==
    ASSUME NamesDoNotCollide
    PROVE  Spec => []ReferencedFieldsSuffice
<1>1. ASSUME TypeOK
      PROVE  ReferencedFieldsSuffice
  <2>. SUFFICES ASSUME Served, NEW row \in TypedRows, NEW lean,
                       lean = [n \in DOMAIN row \cap referenced_fields(Site, "site") |-> row[n]]
                PROVE  /\ \A n \in DOMAIN Fields : Get(lean, n) = Get(row, n)
                       /\ Value(Len(rule), lean) = Value(Len(rule), row)
    BY DEF ReferencedFieldsSuffice
  <2>1. /\ DOMAIN lean = DOMAIN row \cap referenced_fields(Site, "site")
        /\ \A n \in DOMAIN lean : lean[n] = row[n]
    OBVIOUS
  <2>2. ASSUME NEW n \in DOMAIN Fields
        PROVE  Get(lean, n) = Get(row, n)
    <3>1. n \in referenced_fields(Site, "site")
      BY ServedRule DEF NamesDoNotCollide
    <3>. QED
      BY <2>1, <3>1 DEF Get
  <2>3. \A id \in NamesIn(rule) :
            /\ id \in DOMAIN row <=> id \in DOMAIN lean
            /\ id \notin DOMAIN Constants => Get(row, id) = Get(lean, id)
    <3>. SUFFICES ASSUME NEW id \in NamesIn(rule)
                  PROVE  /\ id \in DOMAIN row <=> id \in DOMAIN lean
                         /\ Get(row, id) = Get(lean, id)
      OBVIOUS
    <3>1. id \in DOMAIN row => id \in DOMAIN Fields
      <4>1. id \in DOMAIN FUNCTIONS \/ id \in DOMAIN Fields \cup DOMAIN Constants
        BY ServedRule DEF RuleAccepted, rule_names
      <4>. QED
        BY <4>1 DEF NamesDoNotCollide
    <3>2. id \in DOMAIN Fields => id \in referenced_fields(Site, "site")
      BY ServedRule DEF NamesDoNotCollide
    <3>. QED
      BY <2>1, <3>1, <3>2 DEF Get
  <2>4. Value(Len(rule), lean) = Value(Len(rule), row)
    <3>1. Whole
      BY DEF Served
    <3>2. Evaluate(rule, row, Constants, datetime_fields(Site, "site"), Today, EmptyDict)
              = Evaluate(rule, lean, Constants, datetime_fields(Site, "site"), Today, EmptyDict)
      BY <2>3, EvaluateReadsItsKeys
    <3>. QED
      BY <1>1, <3>1, <3>2, ValueOfRule
  <2>. QED
    BY <2>2, <2>4
<1>2. TypeOK => ReferencedFieldsSuffice
  BY <1>1
<1>. QED
  BY <1>2, RulesAreTrees, PTL

=============================================================================
