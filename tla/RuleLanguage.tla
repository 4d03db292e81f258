---------------------------- MODULE RuleLanguage ----------------------------
(***************************************************************************)
(* The closed rule language of rules.py: its values, its function table,   *)
(* the parser's admission test and the evaluator.                          *)
(*                                                                         *)
(* A rule is Python's expression tree written as a sequence of nodes in    *)
(* post-order: the arguments of a call are indices of earlier nodes and    *)
(* the last node is the body of the expression.  Recursion over the tree    *)
(* is recursion over the index.                                             *)
(*                                                                         *)
(* A string is a sequence of pieces: a text (texts are numbered in the     *)
(* order Python compares them), an ISO date, a compact date, a number      *)
(* printed by str().  The empty string is the empty sequence.  Days are    *)
(* numbers, 0 is the first day Python's date type has, LastDay its last.   *)
(***************************************************************************)
EXTENDS Integers, Sequences, SequencesExt

CONSTANT LastDay    \* date.max: 9999-12-31, one more day overflows

ASSUME LastDayAssumption == LastDay \in Nat

-----------------------------------------------------------------------------
(* Values and failures *)

Null     == [t |-> "null"]
Date(d)  == [t |-> "date", d |-> d]
Num(n)   == [t |-> "num",  n |-> n]
Bool(b)  == [t |-> "bool", b |-> b]
Str(s)   == [t |-> "str",  s |-> s]
List(xs) == [t |-> "list", xs |-> xs]

Text(k)    == Str(<<[text |-> k]>>)
IsoText(d) == Str(<<[iso |-> d]>>)
Pattern(p) == Str(<<[pattern |-> p]>>)

\* A RuleError is the one exception lookup catches; every other exception the
\* evaluator can raise (TypeError, OverflowError, AttributeError) is a Crash.
RuleError == [t |-> "RuleError"]
Crash     == [t |-> "Crash"]
Failed(v) == v.t \in {"RuleError", "Crash"}

\* Data is what JSON and YAML can hold: no exceptions, in a list neither.
IsData(D) == \A v \in D : ~ Failed(v) /\ (v.t = "list" => v.xs \in Seq(D))

-----------------------------------------------------------------------------
(* The function table and the parser *)

Exactly(n, returns) ==
    [returns |-> returns, arity |-> n, dates |-> {}, variadic |-> FALSE, forward |-> {}]
AtLeast(n, returns) == [Exactly(n, returns) EXCEPT !.variadic = TRUE]

\* Positions count from 1, where Python counts from 0.
FUNCTIONS ==
    [today        |-> Exactly(0, "date"),
     now          |-> Exactly(0, "date"),
     coalesce     |-> AtLeast(1, "any"),
     if_else      |-> [Exactly(3, "any") EXCEPT !.forward = {2, 3}],
     exists       |-> Exactly(1, "boolean"),
     is_null      |-> Exactly(1, "boolean"),
     is_empty     |-> Exactly(1, "boolean"),
     eq           |-> Exactly(2, "boolean"),
     lt           |-> Exactly(2, "boolean"),
     gt           |-> Exactly(2, "boolean"),
     contains     |-> Exactly(2, "boolean"),
     add_days     |-> [Exactly(2, "date") EXCEPT !.dates = {1}],
     days_between |-> [Exactly(2, "number") EXCEPT !.dates = {1, 2}],
     min          |-> AtLeast(1, "any"),
     max          |-> AtLeast(1, "any"),
     first        |-> Exactly(1, "any"),
     join         |-> Exactly(2, "string"),
     concat       |-> AtLeast(1, "string"),
     format_date  |-> [Exactly(2, "string") EXCEPT !.dates = {1}]]

DATE_PATTERNS == {Pattern("YYYYMMDD"), Pattern("YYYY-MM-DD")}

Lit(v)         == [op |-> "lit", value |-> v]
Name(id)       == [op |-> "name", id |-> id]
Call(fn, args) == [op |-> "call", fn |-> fn, args |-> args]

\* What ast.parse gives, in post-order: the arguments of a call stand before it.
Tree(rule) ==
    /\ Len(rule) \in Nat
    /\ DOMAIN rule = 1 .. Len(rule)
    /\ \A i \in DOMAIN rule :
           \/ rule[i].op \in {"lit", "name"}
           \/ /\ rule[i].op = "call"
              /\ Len(rule[i].args) \in Nat
              /\ DOMAIN rule[i].args = 1 .. Len(rule[i].args)
              /\ \A p \in DOMAIN rule[i].args : rule[i].args[p] \in 1 .. i - 1

\* The pattern of format_date is a literal from the allowlist.
CheckDatePattern(rule, node) ==
    LET pattern == rule[node.args[2]]
    IN  pattern.op = "lit" /\ pattern.value \in DATE_PATTERNS

\* Mutant: the number of arguments is not checked.
ArityFits_Unchecked(node) == node.args = node.args

ArityFits(node) ==
    LET signature == FUNCTIONS[node.fn]
        count     == Len(node.args)
    IN  IF signature.variadic THEN count >= signature.arity ELSE count = signature.arity

\* parse_rule returns: any other kind of node, an unknown function, a wrong
\* argument count or an unknown date pattern is a RuleError at startup.
ParseRule(rule) ==
    \A i \in DOMAIN rule :
        \/ rule[i].op \in {"lit", "name"}
        \/ /\ rule[i].op = "call"
           /\ rule[i].fn \in DOMAIN FUNCTIONS
           /\ ArityFits(rule[i])
           /\ rule[i].fn = "format_date" => CheckDatePattern(rule, rule[i])

-----------------------------------------------------------------------------
(* Python's view of the values *)

\* A datetime is reduced to its day.  fromisoformat(value[:10]): the leading ten
\* characters, or the whole of a compact date.
AsDate(v) ==
    CASE v.t = "null" -> v
      [] v.t = "date" -> Date(v.d)
      [] v.t = "str" /\ v.s # <<>> /\ "iso" \in DOMAIN Head(v.s) -> Date(Head(v.s).iso)
      [] v.t = "str" /\ Len(v.s) = 1 /\ "compact" \in DOMAIN Head(v.s) -> Date(Head(v.s).compact)
      [] OTHER -> RuleError

Truthy(v) ==
    CASE v.t = "null" -> FALSE
      [] v.t = "date" -> TRUE
      [] v.t = "num"  -> v.n # 0
      [] v.t = "bool" -> v.b
      [] v.t = "str"  -> v.s # <<>>
      [] v.t = "list" -> v.xs # <<>>

\* A bool is an int in Python.
IsInt(v) == v.t \in {"num", "bool"}
AsInt(v) == IF v.t = "num" THEN v.n ELSE IF v.b THEN 1 ELSE 0

Equal(v, w) == IF IsInt(v) /\ IsInt(w) THEN AsInt(v) = AsInt(w) ELSE v = w

\* Digits sort before letters; two pieces of one shape sort by their number.
PieceKey(piece) ==
    CASE "num"     \in DOMAIN piece -> <<0, piece.num>>
      [] "iso"     \in DOMAIN piece -> <<1, piece.iso>>
      [] "compact" \in DOMAIN piece -> <<2, piece.compact>>
      [] "text"    \in DOMAIN piece -> <<3, piece.text>>
      [] OTHER                      -> <<4, 0>>

PieceLess(a, b) ==
    LET j == PieceKey(a)  k == PieceKey(b)
    IN  j[1] < k[1] \/ (j[1] = k[1] /\ j[2] < k[2])

StrLess(s, t) ==
    \E k \in 0 .. Len(s) :
        /\ k < Len(t)
        /\ SubSeq(s, 1, k) = SubSeq(t, 1, k)
        /\ k < Len(s) => PieceLess(s[k + 1], t[k + 1])

\* `<` raises TypeError across types and on None.  Two lists, which Python
\* compares element by element, are outside the model.
Comparable(v, w) ==
    \/ IsInt(v) /\ IsInt(w)
    \/ v.t = w.t /\ v.t \in {"date", "str"}

Less(v, w) ==
    CASE IsInt(v)     -> AsInt(v) < AsInt(w)
      [] v.t = "date" -> v.d < w.d
      [] v.t = "str"  -> StrLess(v.s, w.s)

\* str(value), as pieces.
Printed(v) ==
    CASE v.t = "str"  -> v.s
      [] v.t = "date" -> <<[iso |-> v.d]>>
      [] v.t = "num"  -> <<[num |-> v.n]>>
      [] OTHER        -> <<[repr |-> v]>>

\* The positions of the values that are not None.
Present(values) == {p \in DOMAIN values : values[p] # Null}

-----------------------------------------------------------------------------
(* The evaluator *)

\* One turn of Python's min() or max(): a value takes the place of the best
\* one so far if it precedes it; the comparison may raise.
Better(name, best, v) ==
    CASE v = Null -> best
      [] v # Null /\ best = Null -> v
      [] v # Null /\ best # Null /\ ~ Comparable(v, best) -> Crash
      [] OTHER -> IF (IF name = "min" THEN Less(v, best) ELSE Less(best, v)) THEN v ELSE best

\* The best of the first n values, for each n.
BestOf(name, values) ==
    LET best[n \in 0 .. Len(values)] ==
            IF n = 0 THEN Null ELSE Better(name, best[n - 1], values[n])
    IN  best

\* The first value no other one precedes.
Extreme(name, values) == BestOf(name, values)[Len(values)]

IsSubstring(s, t) ==
    \E i \in 0 .. Len(t) - Len(s) : SubSeq(t, i + 1, i + Len(s)) = s

\* `value in (container or [])`
ContainsValue(container, value) ==
    IF ~ Truthy(container) THEN Bool(FALSE)
    ELSE CASE container.t = "list" -> Bool(\E x \in ToSet(container.xs) : Equal(x, value))
           [] container.t = "str" /\ value.t = "str" -> Bool(IsSubstring(value.s, container.s))
           [] OTHER -> Crash

AddDays(base, n) ==
    CASE Failed(base) \/ base = Null -> base
      [] base.t = "date" /\ IsInt(n) /\ base.d + AsInt(n) \in 0 .. LastDay ->
             Date(base.d + AsInt(n))
      [] OTHER -> Crash

DaysBetween(left, right) ==
    IF Failed(left) THEN left
    ELSE IF Failed(right) THEN right
    ELSE IF left = Null \/ right = Null THEN Null
    ELSE Num(left.d - right.d)

\* `value[0] if value else None`; the first character of a string is a piece
\* of its first piece.
FirstOf(v) ==
    IF ~ Truthy(v) THEN Null
    ELSE CASE v.t = "list" -> Head(v.xs)
           [] v.t = "str"  -> Str(<<[initial |-> Head(v.s)]>>)
           [] OTHER -> Crash

\* A string is joined character by character, piece by piece here.
Join(separator, values) ==
    LET items == CASE values.t = "list" -> values.xs
                   [] values.t = "str"  -> [k \in DOMAIN values.s |-> Str(<<values.s[k]>>)]
                   [] OTHER -> <<>>
    IN  IF separator.t # "str" \/ (Truthy(values) /\ values.t \notin {"list", "str"})
        THEN Crash
        ELSE Str(FlattenSeq([k \in DOMAIN items |->
                     IF k = 1 THEN Printed(items[k]) ELSE separator.s \o Printed(items[k])]))

\* A missing value becomes the empty string.
Concat(values) ==
    Str(FlattenSeq([k \in DOMAIN values |->
            IF values[k] = Null THEN <<>> ELSE Printed(values[k])]))

\* Mutant: the date is handed back unformatted.
FormatDate_Unformatted(v, pattern) == v

FormatDate(v, pattern) ==
    IF Failed(v) \/ v = Null THEN v
    ELSE IF pattern = Pattern("YYYYMMDD") THEN Str(<<[compact |-> v.d]>>)
    ELSE IsoText(v.d)

\* How many arguments call() and apply() take apart by position; too few of them
\* is an IndexError or a ValueError.  The other functions take all there are.
TakenByPosition ==
    [today  |-> 0, now      |-> 0, exists       |-> 1, is_null |-> 1, is_empty    |-> 1,
     first  |-> 1, eq       |-> 2, lt           |-> 2, gt      |-> 2, contains    |-> 2,
     join   |-> 2, add_days |-> 2, days_between |-> 2, if_else |-> 3, format_date |-> 2]

Apply(name, arguments, today) ==
    LET a == arguments[1]  b == arguments[2]
    IN  CASE name \in {"today", "now"} -> Date(today)
          [] name = "coalesce" ->
                 IF Present(arguments) = {} THEN Null ELSE arguments[Min(Present(arguments))]
          [] name = "is_null"  -> Bool(a = Null)
          [] name = "is_empty" -> Bool(a \in {Null, Str(<<>>), List(<<>>)})
          [] name = "eq"       -> Bool(Equal(a, b))
          [] name = "lt"       -> IF Comparable(a, b) THEN Bool(Less(a, b)) ELSE Crash
          [] name = "gt"       -> IF Comparable(a, b) THEN Bool(Less(b, a)) ELSE Crash
          [] name = "contains" -> ContainsValue(a, b)
          [] name = "add_days" -> AddDays(AsDate(a), b)
          [] name = "days_between" -> DaysBetween(AsDate(a), AsDate(b))
          [] name \in {"min", "max"} -> Extreme(name, arguments)
          [] name = "first"  -> FirstOf(a)
          [] name = "join"   -> Join(a, b)
          [] name = "concat" -> Concat(arguments)
          [] name = "format_date" -> FormatDate(AsDate(a), b)

\* {}
EmptyDict == [key \in {} |-> Null]

\* payload.get(key)
Get(payload, key) == IF key \in DOMAIN payload THEN payload[key] ELSE Null

\* dict[key] = value
Put(dict, key, value) ==
    [k \in {key} \cup DOMAIN dict |-> IF k = key THEN value ELSE dict[k]]

\* A name is a constant, else a value of the earlier round, else a payload key.
ResolveName(id, payload, constants, dates, computed) ==
    LET value == IF id \in DOMAIN computed THEN computed[id] ELSE Get(payload, id)
    IN  CASE id \in DOMAIN constants -> constants[id]
          [] id \notin DOMAIN constants /\ id \in dates -> AsDate(value)
          [] OTHER -> value

\* Every ast.Name of the rule that stands for a value.
NamesIn(rule) == {rule[i].id : i \in {j \in DOMAIN rule : rule[j].op = "name"}}

\* The value of a node, given those of its arguments; the names have the
\* values env, and known are those the payload or the earlier round carries.
\* if_else raises or returns what the branch it takes does; any other call
\* raises what its first failing argument raised.
NodeValue(rule, node, value, env, known, today) ==
    LET arguments == [p \in DOMAIN node.args |-> value[node.args[p]]]
        failing   == {p \in DOMAIN node.args : Failed(arguments[p])}
        target    == rule[node.args[1]]
    IN  CASE node.op = "lit"  -> node.value
          [] node.op = "name" -> env[node.id]
          [] node.op = "call" /\ node.fn = "if_else" ->
                 IF Failed(arguments[1]) THEN arguments[1]
                 ELSE IF Truthy(arguments[1]) THEN arguments[2] ELSE arguments[3]
          [] node.op = "call" /\ node.fn = "exists" ->
                 Bool(target.op = "name" /\ target.id \in known)
          [] node.op = "call" /\ node.fn \notin {"if_else", "exists"} ->
                 IF failing # {} THEN arguments[Min(failing)]
                 ELSE Apply(node.fn, arguments, today)

\* The values of all nodes.
Values(rule, env, known, today) ==
    LET value[k \in DOMAIN rule] == NodeValue(rule, rule[k], value, env, known, today)
    IN  value

\* The value of a rule is that of its last node.
Interpret(rule, env, known, today) == Values(rule, env, known, today)[Len(rule)]

\* Reading a name has no effect, so the names can be resolved beforehand.
Evaluate(rule, payload, constants, dates, today, computed) ==
    Interpret(rule,
              [id \in NamesIn(rule) |-> ResolveName(id, payload, constants, dates, computed)],
              NamesIn(rule) \cap (DOMAIN payload \cup DOMAIN computed),
              today)

=============================================================================
