------------------------------ MODULE RuleProofs ------------------------------
(***************************************************************************)
(* The rule language, for every rule of every size: the defining equations *)
(* of the three recursive functions (Values, BestOf, Dated), what the      *)
(* functions of the language return, and the soundness of the startup      *)
(* check: a rule it accepts raises no RuleError when what it reads as a    *)
(* date is one.                                                            *)
(*                                                                         *)
(* The induction theorems of the library take a predicate as a parameter.  *)
(* Induction is done with sets instead: a set of naturals that holds 0 and *)
(* each successor of its members holds them all (Counting).                *)
(***************************************************************************)
EXTENDS ViewConfig, WellFoundedInduction, TLAPS

-----------------------------------------------------------------------------
(* Induction *)

\* A set of naturals that is not empty has a least element, and Min finds it.
LEMMA LeastElement ==
    ASSUME NEW S, S \subseteq Nat, S # {}
    PROVE  Min(S) \in S /\ \A n \in S : Min(S) <= n
<1>1. PICK x \in S : \A y \in S : <<y, x>> \notin OpToRel(<, Nat)
  BY WFMin, NatLessThanWellFounded, Zenon
<1>2. ASSUME NEW y \in S
      PROVE  x <= y
  <2>1. x \in Nat /\ y \in Nat
    OBVIOUS
  <2>2. ~ y < x
    BY <1>1, <2>1, Zenon DEF OpToRel
  <2>. QED
    BY <2>1, <2>2
<1>. QED
  BY <1>2 DEF Min

LEMMA Counting ==
    ASSUME NEW Reached, 0 \in Reached,
           \A n \in Nat : n \in Reached => n + 1 \in Reached
    PROVE  Nat \subseteq Reached
<1>. SUFFICES ASSUME Nat \ Reached # {} PROVE FALSE
  OBVIOUS
<1>1. PICK m \in Nat \ Reached : \A n \in Nat \ Reached : m <= n
  BY LeastElement
<1>2. m - 1 \in Nat /\ m - 1 + 1 = m /\ ~ m <= m - 1
  BY <1>1
<1>. QED
  BY <1>1, <1>2

-----------------------------------------------------------------------------
(* The recursive function of min and max satisfies its equation *)

\* Python's scan for the least or the greatest value.
LEMMA BestDefined ==
    ASSUME NEW name, NEW values, Len(values) \in Nat
    PROVE  BestOf(name, values) =
               [n \in 0 .. Len(values) |->
                   IF n = 0 THEN Null
                   ELSE Better(name, BestOf(name, values)[n - 1], values[n])]
<1>. DEFINE Turn(n, before) == Better(name, before, values[n])
            Whole(g, m) == [n \in 0 .. m |-> IF n = 0 THEN Null ELSE Turn(n, g[n - 1])]
            Reached == {m \in Nat : \E g : g = Whole(g, m)}
<1>. HIDE DEF Turn
<1>1. 0 \in Reached
  <2>1. [n \in 0 .. 0 |-> Null] = Whole([n \in 0 .. 0 |-> Null], 0)
    OBVIOUS
  <2>. QED
    BY <2>1
<1>2. ASSUME NEW m \in Nat, m \in Reached PROVE m + 1 \in Reached
  <2>1. PICK g : g = Whole(g, m)
    BY <1>2
  <2>. DEFINE h == [n \in 0 .. m + 1 |-> IF n <= m THEN g[n] ELSE Turn(n, g[m])]
  <2>2. h[0] = Null
    BY <2>1
  <2>3. ASSUME NEW n \in 1 .. m + 1 PROVE h[n] = Turn(n, h[n - 1])
    <3>1. h[n - 1] = g[n - 1]
      OBVIOUS
    <3>2. CASE n <= m
      BY <2>1, <3>1, <3>2
    <3>3. CASE n = m + 1
      BY <3>1, <3>3
    <3>. QED
      BY <3>2, <3>3
  <2>4. h = Whole(h, m + 1)
    <3>1. DOMAIN h = 0 .. m + 1
      OBVIOUS
    <3>2. h = [n \in 0 .. m + 1 |-> h[n]]
      OBVIOUS
    <3>. HIDE DEF h
    <3>. QED
      BY <2>2, <2>3, <3>2, SMTT(40)
  <2>. HIDE DEF h
  <2>. QED
    BY <2>4
<1>3. \E g : g = Whole(g, Len(values))
  <2>1. Nat \subseteq Reached
    <3>. HIDE DEF Reached
    <3>. QED
      BY <1>1, <1>2, Counting
  <2>. QED
    BY <2>1
<1>4. BestOf(name, values) = Whole(BestOf(name, values), Len(values))
  BY <1>3 DEF BestOf, Turn
<1>. QED
  BY <1>4 DEF Turn

-----------------------------------------------------------------------------
(* Rules as trees *)

\* A call that passed the parser forwards arguments it has.
LEMMA ForwardedAreArguments ==
    ASSUME NEW rule, Tree(rule), ParseRule(rule),
           NEW i \in DOMAIN rule, rule[i].op = "call"
    PROVE  /\ rule[i].fn \in DOMAIN FUNCTIONS
           /\ Forwarded(rule[i]) \subseteq DOMAIN rule[i].args
           /\ FUNCTIONS[rule[i].fn].dates \subseteq DOMAIN rule[i].args
<1>. DEFINE node == rule[i]
            fn == rule[i].fn
<1>1. fn \in DOMAIN FUNCTIONS /\ ArityFits(node)
  BY DEF ParseRule
<1>2. Len(node.args) \in Nat /\ DOMAIN node.args = 1 .. Len(node.args)
  BY DEF Tree
<1>3. /\ fn \in {"today", "now", "coalesce", "if_else", "exists", "is_null", "is_empty", "eq",
                 "lt", "gt", "contains", "add_days", "days_between", "min", "max", "first",
                 "join", "concat", "format_date"}
  BY <1>1 DEF FUNCTIONS
<1>. HIDE DEF node, fn
<1>. QED
  BY <1>1, <1>2, <1>3, SMTT(40) DEF Forwarded, ArityFits, FUNCTIONS, Exactly, AtLeast, node, fn

\* The value of a node depends on those of its arguments alone.
LEMMA NodeReadsItsArguments ==
    ASSUME NEW rule, Tree(rule), NEW env, NEW known, NEW today, NEW k \in DOMAIN rule,
           NEW f, NEW g, \A j \in 1 .. k - 1 : f[j] = g[j]
    PROVE  NodeValue(rule, rule[k], f, env, known, today)
               = NodeValue(rule, rule[k], g, env, known, today)
<1>1. CASE rule[k].op = "call"
  <2>1. \A p \in DOMAIN rule[k].args : f[rule[k].args[p]] = g[rule[k].args[p]]
    BY <1>1 DEF Tree
  <2>2. [p \in DOMAIN rule[k].args |-> f[rule[k].args[p]]]
            = [p \in DOMAIN rule[k].args |-> g[rule[k].args[p]]]
    BY <2>1
  <2>. QED
    BY <2>2 DEF NodeValue
<1>2. CASE rule[k].op # "call"
  BY <1>2 DEF NodeValue, Tree
<1>. QED
  BY <1>1, <1>2

\* Evaluation, rules.py's evaluate.node, satisfies its recursive equation.
LEMMA ValueOfNode ==
    ASSUME NEW rule, Tree(rule), NEW env, NEW known, NEW today, NEW values,
           values = Values(rule, env, known, today)
    PROVE  \A k \in DOMAIN rule :
               values[k] = NodeValue(rule, rule[k], values, env, known, today)
<1>. DEFINE Of(k, g) == NodeValue(rule, rule[k], g, env, known, today)
            Whole(g, m) == [k \in 1 .. m |-> Of(k, g)]
            Reached == {m \in Nat : m <= Len(rule) => \E g : g = Whole(g, m)}
<1>1. Len(rule) \in Nat /\ DOMAIN rule = 1 .. Len(rule)
  BY DEF Tree
<1>2. ASSUME NEW k \in DOMAIN rule, NEW f, NEW g, \A j \in 1 .. k - 1 : f[j] = g[j]
      PROVE  Of(k, f) = Of(k, g)
  BY <1>2, NodeReadsItsArguments
<1>. HIDE DEF Of
<1>3. 0 \in Reached
  <2>1. [k \in 1 .. 0 |-> Null] = Whole([k \in 1 .. 0 |-> Null], 0)
    OBVIOUS
  <2>. QED
    BY <2>1
<1>4. ASSUME NEW m \in Nat, m \in Reached PROVE m + 1 \in Reached
  <2>. SUFFICES ASSUME m + 1 <= Len(rule) PROVE \E g : g = Whole(g, m + 1)
    OBVIOUS
  <2>1. PICK g : g = Whole(g, m)
    BY <1>1, <1>4
  <2>. DEFINE h == [k \in 1 .. m + 1 |-> Of(k, g)]
  <2>2. ASSUME NEW k \in 1 .. m + 1 PROVE h[k] = Of(k, h)
    <3>1. \A j \in 1 .. k - 1 : g[j] = h[j]
      <4>. SUFFICES ASSUME NEW j \in 1 .. k - 1 PROVE g[j] = h[j]
        OBVIOUS
      <4>1. j \in 1 .. m /\ j \in 1 .. m + 1
        OBVIOUS
      <4>2. g[j] = Of(j, g)
        BY <2>1, <4>1
      <4>. QED
        BY <4>1, <4>2
    <3>2. k \in DOMAIN rule
      BY <1>1
    <3>3. h[k] = Of(k, g)
      OBVIOUS
    <3>. HIDE DEF h
    <3>4. Of(k, g) = Of(k, h)
      BY <1>2, <3>1, <3>2
    <3>. QED
      BY <3>3, <3>4
  <2>3. h = [k \in 1 .. m + 1 |-> h[k]]
    OBVIOUS
  <2>. HIDE DEF h
  <2>4. h = Whole(h, m + 1)
    BY <2>2, <2>3
  <2>. QED
    BY <2>4
<1>5. \E g : g = Whole(g, Len(rule))
  <2>1. Nat \subseteq Reached
    <3>. HIDE DEF Reached
    <3>. QED
      BY <1>3, <1>4, Counting
  <2>. QED
    BY <1>1, <2>1
<1>6. values = Whole(values, Len(rule))
  BY <1>1, <1>5 DEF Values, Of
<1>. QED
  <2>1. \A k \in 1 .. Len(rule) : values[k] = Of(k, values)
    BY <1>6
  <2>. QED
    BY <1>1, <2>1 DEF Of

\* The verdict on a node depends on those on its arguments alone.
LEMMA VerdictReadsItsArguments ==
    ASSUME NEW rule, Tree(rule), ParseRule(rule), NEW date_like, NEW k \in DOMAIN rule,
           NEW f, NEW g, \A j \in 1 .. k - 1 : f[j] = g[j]
    PROVE  ProvablyDate(rule[k], f, date_like) = ProvablyDate(rule[k], g, date_like)
<1>1. CASE rule[k].op = "call"
  <2>1. Forwarded(rule[k]) \subseteq DOMAIN rule[k].args
    BY <1>1, ForwardedAreArguments
  <2>2. \A p \in Forwarded(rule[k]) : f[rule[k].args[p]] = g[rule[k].args[p]]
    BY <1>1, <2>1 DEF Tree
  <2>. QED
    BY <1>1, <2>2 DEF ProvablyDate
<1>2. CASE rule[k].op # "call"
  BY <1>2 DEF ProvablyDate, Tree
<1>. QED
  BY <1>1, <1>2

\* So does the startup check, validation.py's _date_problems.
LEMMA VerdictOfNode ==
    ASSUME NEW rule, Tree(rule), ParseRule(rule), NEW date_like
    PROVE  \A k \in DOMAIN rule :
               YieldsDate(rule, k, date_like)
                   = ProvablyDate(rule[k], Dated(rule, date_like), date_like)
<1>. DEFINE Of(k, g) == ProvablyDate(rule[k], g, date_like)
            Whole(g, m) == [k \in 1 .. m |-> Of(k, g)]
            Reached == {m \in Nat : m <= Len(rule) => \E g : g = Whole(g, m)}
            dated == Dated(rule, date_like)
<1>. SUFFICES \A k \in DOMAIN rule : dated[k] = Of(k, dated)
  BY DEF YieldsDate
<1>1. Len(rule) \in Nat /\ DOMAIN rule = 1 .. Len(rule)
  BY DEF Tree
<1>2. ASSUME NEW k \in DOMAIN rule, NEW f, NEW g, \A j \in 1 .. k - 1 : f[j] = g[j]
      PROVE  Of(k, f) = Of(k, g)
  BY <1>2, VerdictReadsItsArguments
<1>. HIDE DEF Of
<1>3. 0 \in Reached
  <2>1. [k \in 1 .. 0 |-> Null] = Whole([k \in 1 .. 0 |-> Null], 0)
    OBVIOUS
  <2>. QED
    BY <2>1
<1>4. ASSUME NEW m \in Nat, m \in Reached PROVE m + 1 \in Reached
  <2>. SUFFICES ASSUME m + 1 <= Len(rule) PROVE \E g : g = Whole(g, m + 1)
    OBVIOUS
  <2>1. PICK g : g = Whole(g, m)
    BY <1>1, <1>4
  <2>. DEFINE h == [k \in 1 .. m + 1 |-> Of(k, g)]
  <2>2. ASSUME NEW k \in 1 .. m + 1 PROVE h[k] = Of(k, h)
    <3>1. \A j \in 1 .. k - 1 : g[j] = h[j]
      <4>. SUFFICES ASSUME NEW j \in 1 .. k - 1 PROVE g[j] = h[j]
        OBVIOUS
      <4>1. j \in 1 .. m /\ j \in 1 .. m + 1
        OBVIOUS
      <4>2. g[j] = Of(j, g)
        BY <2>1, <4>1
      <4>. QED
        BY <4>1, <4>2
    <3>2. k \in DOMAIN rule
      BY <1>1
    <3>3. h[k] = Of(k, g)
      OBVIOUS
    <3>. HIDE DEF h
    <3>4. Of(k, g) = Of(k, h)
      BY <1>2, <3>1, <3>2
    <3>. QED
      BY <3>3, <3>4
  <2>3. h = [k \in 1 .. m + 1 |-> h[k]]
    OBVIOUS
  <2>. HIDE DEF h
  <2>4. h = Whole(h, m + 1)
    BY <2>2, <2>3
  <2>. QED
    BY <2>4
<1>5. \E g : g = Whole(g, Len(rule))
  <2>1. Nat \subseteq Reached
    <3>. HIDE DEF Reached
    <3>. QED
      BY <1>3, <1>4, Counting
  <2>. QED
    BY <1>1, <2>1
<1>6. dated = Whole(dated, Len(rule))
  BY <1>1, <1>5 DEF Dated, Of
<1>. HIDE DEF dated
<1>. QED
  BY <1>1, <1>6

-----------------------------------------------------------------------------
(* What the functions of the language return *)

\* min and max return null, raise, or return one of the values.
LEMMA ExtremeIsOneOfThem ==
    ASSUME NEW name, NEW values, Len(values) \in Nat, DOMAIN values = 1 .. Len(values)
    PROVE  Extreme(name, values) \in
               {Null, Crash} \cup {values[p] : p \in DOMAIN values}
<1>. DEFINE best == BestOf(name, values)
            Known == {Null, Crash} \cup {values[p] : p \in DOMAIN values}
            Reached == {n \in Nat : n <= Len(values) => best[n] \in Known}
<1>1. /\ best[0] = Null
      /\ \A n \in 1 .. Len(values) : best[n] = Better(name, best[n - 1], values[n])
  BY BestDefined
<1>. HIDE DEF best
<1>2. 0 \in Reached
  BY <1>1
<1>3. ASSUME NEW n \in Nat, n \in Reached PROVE n + 1 \in Reached
  <2>. SUFFICES ASSUME n + 1 <= Len(values) PROVE best[n + 1] \in Known
    OBVIOUS
  <2>1. best[n] \in Known /\ values[n + 1] \in Known
    BY <1>3
  <2>2. best[n + 1] = Better(name, best[n], values[n + 1])
    <3>1. n + 1 \in 1 .. Len(values) /\ (n + 1) - 1 = n
      OBVIOUS
    <3>. QED
      BY <1>1, <3>1
  <2>3. Better(name, best[n], values[n + 1]) \in {best[n], values[n + 1], Crash}
    BY DEF Better
  <2>. HIDE DEF Known
  <2>4. Crash \in Known
    BY DEF Known
  <2>. QED
    BY <2>1, <2>2, <2>3, <2>4
<1>4. Nat \subseteq Reached
  <2>. HIDE DEF Reached
  <2>. QED
    BY <1>2, <1>3, Counting
<1>5. best[Len(values)] \in Known
  BY <1>4
<1>. QED
  BY <1>5 DEF Extreme, best

\* coalesce returns null or one of the values.
LEMMA CoalesceIsOneOfThem ==
    ASSUME NEW values, Len(values) \in Nat, DOMAIN values = 1 .. Len(values),
           Present(values) # {}
    PROVE  Min(Present(values)) \in DOMAIN values
<1>1. Present(values) \subseteq Nat /\ Present(values) \subseteq DOMAIN values
  BY DEF Present
<1>. QED
  BY <1>1, LeastElement

\* A value of the type the function table promises, as its tag.
IsOf(v, returns) ==
    \/ returns = "date"    /\ v.t = "date"
    \/ returns = "number"  /\ v.t = "num"
    \/ returns = "boolean" /\ v.t = "bool"
    \/ returns = "string"  /\ v.t = "str"

\* The evaluator's match statement and the function table agree.
LEMMA ApplyReturns ==
    ASSUME NEW fn \in DOMAIN FUNCTIONS, fn \notin {"if_else", "exists"},
           FUNCTIONS[fn].returns # "any", NEW arguments, NEW today, NEW v,
           v = Apply(fn, arguments, today)
    PROVE  Failed(v) \/ v = Null \/ IsOf(v, FUNCTIONS[fn].returns)
<1>1. CASE fn \in {"today", "now"}
  BY <1>1 DEF Apply, IsOf, Date, FUNCTIONS, Exactly
<1>2. CASE fn = "is_null"
  BY <1>2 DEF Apply, IsOf, Bool, FUNCTIONS, Exactly
<1>3. CASE fn = "is_empty"
  BY <1>3 DEF Apply, IsOf, Bool, FUNCTIONS, Exactly
<1>4. CASE fn = "eq"
  BY <1>4 DEF Apply, IsOf, Bool, FUNCTIONS, Exactly
<1>5. CASE fn = "lt"
  BY <1>5 DEF Apply, IsOf, Bool, Crash, Failed, FUNCTIONS, Exactly
<1>6. CASE fn = "gt"
  BY <1>6 DEF Apply, IsOf, Bool, Crash, Failed, FUNCTIONS, Exactly
<1>7. CASE fn = "contains"
  BY <1>7 DEF Apply, ContainsValue, IsOf, Bool, Crash, Failed, FUNCTIONS, Exactly
<1>8. CASE fn = "add_days"
  <2>1. v = AddDays(AsDate(arguments[1]), arguments[2])
    BY <1>8 DEF Apply
  <2>2. Failed(v) \/ v = Null \/ v.t = "date"
    BY <2>1 DEF AddDays, Crash, Failed, Date
  <2>. QED
    BY <1>8, <2>2 DEF IsOf, FUNCTIONS, Exactly
<1>9. CASE fn = "days_between"
  <2>1. v = DaysBetween(AsDate(arguments[1]), AsDate(arguments[2]))
    BY <1>9 DEF Apply
  <2>2. Failed(v) \/ v = Null \/ v.t = "num"
    BY <2>1 DEF DaysBetween, Num
  <2>. QED
    BY <1>9, <2>2 DEF IsOf, FUNCTIONS, Exactly
<1>10. CASE fn = "join"
  <2>1. v = Join(arguments[1], arguments[2])
    BY <1>10 DEF Apply
  <2>2. Failed(v) \/ v.t = "str"
    BY <2>1 DEF Join, Crash, Failed, Str
  <2>. QED
    BY <1>10, <2>2 DEF IsOf, FUNCTIONS, Exactly
<1>11. CASE fn = "concat"
  BY <1>11 DEF Apply, Concat, Str, IsOf, FUNCTIONS, Exactly, AtLeast
<1>12. CASE fn = "format_date"
  <2>1. v = FormatDate(AsDate(arguments[1]), arguments[2])
    BY <1>12 DEF Apply
  <2>2. Failed(v) \/ v = Null \/ v.t = "str"
    BY <2>1 DEF FormatDate, Str, IsoText
  <2>. QED
    BY <1>12, <2>2 DEF IsOf, FUNCTIONS, Exactly
<1>13. fn \in {"today", "now", "is_null", "is_empty", "eq", "lt", "gt", "contains",
               "add_days", "days_between", "join", "concat", "format_date"}
  BY DEF FUNCTIONS, Exactly, AtLeast
<1>. QED
  BY <1>1, <1>2, <1>3, <1>4, <1>5, <1>6, <1>7, <1>8, <1>9, <1>10, <1>11, <1>12, <1>13

-----------------------------------------------------------------------------
(* The startup check is sound *)

\* What evaluation preserves: no RuleError, and no list that is not data.
Sound(v, D) ==
    /\ v.t # "RuleError"
    /\ v.t = "Crash" => v = Crash
    /\ v.t = "list" => v \in D

\* A value a date position can take; an exception that is no RuleError has
\* ended the evaluation before it gets there.
Dateable(v) == v = Crash \/ AsDate(v) # RuleError

LEMMA FailuresDiffer ==
    /\ RuleError # Crash /\ Null # Crash /\ Null # RuleError
    /\ \A v : Failed(v) <=> v.t \in {"RuleError", "Crash"}
    /\ Failed(RuleError) /\ Failed(Crash) /\ ~ Failed(Null)
  BY DEF RuleError, Crash, Null, Failed

LEMMA FailedSoundIsCrash ==
    ASSUME NEW D, NEW v, Sound(v, D), Failed(v)
    PROVE  v = Crash /\ Dateable(v)
  BY DEF Sound, Failed, Dateable

\* Reading a date twice is reading it once.
LEMMA AsDateGivesDates ==
    ASSUME NEW v, AsDate(v) # RuleError
    PROVE  /\ AsDate(v).t \in {"null", "date"}
           /\ AsDate(AsDate(v)) = AsDate(v)
           /\ ~ Failed(AsDate(v))
<1>1. AsDate(v).t = "null" \/ AsDate(v) = Date(AsDate(v).d)
  BY DEF AsDate, Date
<1>2. AsDate(v).t \in {"null", "date"}
  BY <1>1 DEF Date
<1>3. AsDate(AsDate(v)) = AsDate(v)
  BY <1>1, <1>2 DEF AsDate, Date
<1>. QED
  BY <1>2, <1>3 DEF Failed

\* A call whose arguments are data, with dates in its date positions, raises no
\* RuleError.
LEMMA ApplyIsSound ==
    ASSUME NEW D, IsData(D), NEW fn \in DOMAIN FUNCTIONS, fn \notin {"if_else", "exists"},
           NEW arguments, Len(arguments) \in Nat, DOMAIN arguments = 1 .. Len(arguments),
           FUNCTIONS[fn].arity <= Len(arguments),
           \A p \in DOMAIN arguments : Sound(arguments[p], D),
           \A p \in FUNCTIONS[fn].dates : AsDate(arguments[p]) # RuleError,
           NEW today
    PROVE  Sound(Apply(fn, arguments, today), D)
<1>. DEFINE v == Apply(fn, arguments, today)
<1>1. CASE fn \in {"today", "now"}
  BY <1>1 DEF Apply, Sound, Date, RuleError
<1>2. CASE fn \in {"is_null", "is_empty", "eq"}
  BY <1>2 DEF Apply, Sound, Bool, RuleError
<1>3. CASE fn \in {"lt", "gt"}
  BY <1>3 DEF Apply, Sound, Bool, RuleError, Crash
<1>4. CASE fn = "contains"
  BY <1>4 DEF Apply, ContainsValue, Sound, Bool, RuleError, Crash
<1>5. CASE fn = "add_days"
  <2>1. FUNCTIONS[fn].dates = {1}
    BY <1>5 DEF FUNCTIONS, Exactly
  <2>2. AsDate(arguments[1]) # RuleError /\ v = AddDays(AsDate(arguments[1]), arguments[2])
    BY <1>5, <2>1 DEF Apply
  <2>3. v = Crash \/ v.t \in {"null", "date"}
    <3>1. AsDate(arguments[1]).t \in {"null", "date"}
      BY <2>2, AsDateGivesDates
    <3>. QED
      BY <2>2, <3>1 DEF AddDays, Date, Failed
  <2>. QED
    BY <2>3 DEF Sound, Crash
<1>6. CASE fn = "days_between"
  <2>1. FUNCTIONS[fn].dates = {1, 2}
    BY <1>6 DEF FUNCTIONS, Exactly
  <2>2. /\ AsDate(arguments[1]) # RuleError /\ AsDate(arguments[2]) # RuleError
        /\ v = DaysBetween(AsDate(arguments[1]), AsDate(arguments[2]))
    BY <1>6, <2>1 DEF Apply
  <2>3. v.t \in {"null", "num"}
    <3>1. AsDate(arguments[1]).t \in {"null", "date"}
      BY <2>2, AsDateGivesDates
    <3>2. AsDate(arguments[2]).t \in {"null", "date"}
      BY <2>2, AsDateGivesDates
    <3>. QED
      BY <2>2, <3>1, <3>2 DEF DaysBetween, Null, Num, Failed
  <2>. QED
    BY <2>3 DEF Sound
<1>7. CASE fn \in {"min", "max"}
  <2>1. v \in {Null, Crash} \cup {arguments[p] : p \in DOMAIN arguments}
    BY <1>7, ExtremeIsOneOfThem DEF Apply
  <2>2. Sound(Null, D) /\ Sound(Crash, D)
    BY DEF Sound, Null, Crash, RuleError
  <2>. QED
    BY <2>1, <2>2
<1>8. CASE fn = "coalesce"
  <2>1. v = IF Present(arguments) = {} THEN Null ELSE arguments[Min(Present(arguments))]
    BY <1>8 DEF Apply
  <2>2. Sound(Null, D)
    BY DEF Sound, Null, RuleError
  <2>. QED
    BY <2>1, <2>2, CoalesceIsOneOfThem
<1>9. CASE fn = "first"
  <2>1. v = FirstOf(arguments[1]) /\ Sound(arguments[1], D)
    BY <1>9 DEF Apply, FUNCTIONS, Exactly
  <2>2. CASE ~ Truthy(arguments[1])
    <3>1. v = Null
      BY <2>1, <2>2 DEF FirstOf
    <3>. QED
      BY <3>1 DEF Sound, Null, RuleError
  <2>3. CASE Truthy(arguments[1]) /\ arguments[1].t = "list"
    <3>1. arguments[1].xs \in Seq(D) /\ arguments[1].xs # <<>>
      BY <2>1, <2>3 DEF Sound, IsData, Truthy
    <3>2. v = Head(arguments[1].xs)
      BY <2>1, <2>3 DEF FirstOf
    <3>3. v \in D
      BY <3>1, <3>2
    <3>. QED
      BY <3>3, FailuresDiffer DEF Sound, IsData
  <2>4. CASE Truthy(arguments[1]) /\ arguments[1].t # "list"
    BY <2>1, <2>4 DEF FirstOf, Sound, Str, Crash, RuleError
  <2>. QED
    BY <2>2, <2>3, <2>4
<1>10. CASE fn = "join"
  BY <1>10 DEF Apply, Join, Sound, Str, Crash, RuleError
<1>11. CASE fn = "concat"
  BY <1>11 DEF Apply, Concat, Sound, Str, RuleError
<1>12. CASE fn = "format_date"
  <2>1. FUNCTIONS[fn].dates = {1}
    BY <1>12 DEF FUNCTIONS, Exactly
  <2>2. AsDate(arguments[1]) # RuleError /\ v = FormatDate(AsDate(arguments[1]), arguments[2])
    BY <1>12, <2>1 DEF Apply
  <2>3. v.t \in {"null", "str"}
    <3>1. AsDate(arguments[1]).t \in {"null", "date"}
      BY <2>2, AsDateGivesDates
    <3>. QED
      BY <2>2, <3>1 DEF FormatDate, Null, Str, IsoText, Failed
  <2>. QED
    BY <2>3 DEF Sound
<1>13. fn \in {"today", "now", "is_null", "is_empty", "eq", "lt", "gt", "contains",
               "add_days", "days_between", "min", "max", "coalesce", "first", "join",
               "concat", "format_date"}
  BY DEF FUNCTIONS, Exactly, AtLeast
<1>. QED
  BY <1>1, <1>2, <1>3, <1>4, <1>5, <1>6, <1>7, <1>8, <1>9, <1>10, <1>11, <1>12, <1>13

\* A call that is provably a date gives one, if it gives anything.
LEMMA ApplyGivesDates ==
    ASSUME NEW fn \in DOMAIN FUNCTIONS, fn \notin {"if_else", "exists"},
           NEW arguments, Len(arguments) \in Nat, DOMAIN arguments = 1 .. Len(arguments),
           NEW today,
           \/ FUNCTIONS[fn].returns = "date"
           \/ /\ FUNCTIONS[fn].variadic /\ FUNCTIONS[fn].returns = "any"
              /\ \A p \in DOMAIN arguments : Dateable(arguments[p]),
           Apply(fn, arguments, today) # RuleError
    PROVE  Dateable(Apply(fn, arguments, today))
<1>. DEFINE v == Apply(fn, arguments, today)
<1>1. CASE FUNCTIONS[fn].returns = "date"
  <2>1. Failed(v) \/ v = Null \/ IsOf(v, "date")
    BY <1>1, ApplyReturns
  <2>2. Failed(v) => v = Crash
    <3>1. fn \in {"today", "now", "add_days"}
      BY <1>1 DEF FUNCTIONS, Exactly, AtLeast
    <3>2. CASE fn \in {"today", "now"}
      BY <3>2 DEF Apply, Date, Failed
    <3>3. CASE fn = "add_days"
      <4>1. v = AddDays(AsDate(arguments[1]), arguments[2])
        BY <3>3 DEF Apply
      <4>2. AsDate(arguments[1]) = RuleError \/ ~ Failed(AsDate(arguments[1]))
        BY AsDateGivesDates
      <4>. QED
        BY <4>1, <4>2, FailuresDiffer DEF AddDays, Date, Failed
    <3>. QED
      BY <3>1, <3>2, <3>3
  <2>3. v = Crash \/ v.t \in {"null", "date"}
    BY <2>1, <2>2 DEF IsOf, Null
  <2>4. v.t \in {"null", "date"} => AsDate(v) # RuleError
    BY DEF AsDate, Date, RuleError
  <2>. QED
    BY <2>3, <2>4 DEF Dateable
<1>2. CASE /\ FUNCTIONS[fn].variadic /\ FUNCTIONS[fn].returns = "any"
           /\ \A p \in DOMAIN arguments : Dateable(arguments[p])
  <2>1. fn \in {"coalesce", "min", "max"}
    BY <1>2 DEF FUNCTIONS, Exactly, AtLeast
  <2>2. Dateable(Null) /\ Dateable(Crash)
    BY DEF Dateable, AsDate, Null, RuleError
  <2>3. CASE fn \in {"min", "max"}
    <3>1. v \in {Null, Crash} \cup {arguments[p] : p \in DOMAIN arguments}
      BY <2>3, ExtremeIsOneOfThem DEF Apply
    <3>. QED
      BY <1>2, <2>2, <3>1
  <2>4. CASE fn = "coalesce"
    <3>1. v = IF Present(arguments) = {} THEN Null ELSE arguments[Min(Present(arguments))]
      BY <2>4 DEF Apply
    <3>. QED
      BY <1>2, <2>2, <3>1, CoalesceIsOneOfThem
  <2>. QED
    BY <2>1, <2>3, <2>4
<1>. QED
  BY <1>1, <1>2

\* What a rule is given: literals and names are data, and each name the check
\* takes for a date is one.
WellGiven(rule, env, date_like, D) ==
    /\ \A i \in DOMAIN rule : rule[i].op = "lit" => rule[i].value \in D
    /\ \A id \in NamesIn(rule) :
           Sound(env[id], D) /\ (id \in date_like => Dateable(env[id]))

\* The two halves of the induction hypothesis for one node.
NodeIsSound(rule, k, v, date_like, D) ==
    Sound(v, D) /\ (YieldsDate(rule, k, date_like) => Dateable(v))

LEMMA LeafIsSound ==
    ASSUME NEW D, IsData(D), NEW rule, Tree(rule), ParseRule(rule), NEW date_like,
           NEW env, WellGiven(rule, env, date_like, D), NEW known, NEW today, NEW values,
           NEW k \in DOMAIN rule, rule[k].op # "call"
    PROVE  NodeIsSound(rule, k, NodeValue(rule, rule[k], values, env, known, today), date_like, D)
<1>. DEFINE v == NodeValue(rule, rule[k], values, env, known, today)
<1>1. YieldsDate(rule, k, date_like) =
          ProvablyDate(rule[k], Dated(rule, date_like), date_like)
  BY VerdictOfNode
<1>2. CASE rule[k].op = "lit"
  <2>1. v = rule[k].value /\ v \in D
    BY <1>2 DEF NodeValue, WellGiven
  <2>2. Sound(v, D)
    BY <2>1, FailuresDiffer DEF IsData, Sound
  <2>3. YieldsDate(rule, k, date_like) => ~ Failed(AsDate(v))
    BY <1>1, <1>2, <2>1 DEF ProvablyDate
  <2>. QED
    BY <2>2, <2>3, FailuresDiffer DEF NodeIsSound, Dateable
<1>3. CASE rule[k].op = "name"
  <2>1. v = env[rule[k].id] /\ rule[k].id \in NamesIn(rule)
    BY <1>3 DEF NodeValue, NamesIn
  <2>2. YieldsDate(rule, k, date_like) => rule[k].id \in date_like
    BY <1>1, <1>3 DEF ProvablyDate
  <2>. QED
    BY <2>1, <2>2 DEF WellGiven, NodeIsSound
<1>. QED
  BY <1>2, <1>3 DEF Tree

\* A call whose date positions passed the check, on arguments that are sound.
LEMMA CallIsSound ==
    ASSUME NEW D, IsData(D), NEW rule, Tree(rule), ParseRule(rule), NEW date_like,
           NEW env, NEW known, NEW today, NEW values,
           NEW k \in DOMAIN rule, rule[k].op = "call",
           \A p \in FUNCTIONS[rule[k].fn].dates : YieldsDate(rule, rule[k].args[p], date_like),
           \A p \in DOMAIN rule[k].args :
               NodeIsSound(rule, rule[k].args[p], values[rule[k].args[p]], date_like, D)
    PROVE  NodeIsSound(rule, k, NodeValue(rule, rule[k], values, env, known, today), date_like, D)
<1>. DEFINE node      == rule[k]
            fn        == rule[k].fn
            v         == NodeValue(rule, rule[k], values, env, known, today)
            arguments == [p \in DOMAIN rule[k].args |-> values[rule[k].args[p]]]
            failing   == {p \in DOMAIN rule[k].args : Failed(arguments[p])}
<1>1. /\ fn \in DOMAIN FUNCTIONS /\ ArityFits(node)
      /\ Forwarded(node) \subseteq DOMAIN node.args
      /\ FUNCTIONS[fn].dates \subseteq DOMAIN node.args
      /\ Len(node.args) \in Nat /\ DOMAIN node.args = 1 .. Len(node.args)
  BY ForwardedAreArguments DEF ParseRule, Tree
<1>2. /\ DOMAIN arguments = 1 .. Len(node.args)
      /\ \A p \in DOMAIN node.args : Sound(arguments[p], D)
      /\ \A p \in DOMAIN node.args :
             YieldsDate(rule, node.args[p], date_like) => Dateable(arguments[p])
  BY <1>1 DEF NodeIsSound
<1>3. YieldsDate(rule, k, date_like) =>
          \/ FUNCTIONS[fn].returns = "date"
          \/ /\ FUNCTIONS[fn].returns = "any" /\ Forwarded(node) # {}
             /\ \A p \in Forwarded(node) : Dateable(arguments[p])
  <2>1. YieldsDate(rule, k, date_like) =
            ProvablyDate(node, Dated(rule, date_like), date_like)
    BY VerdictOfNode
  <2>. QED
    BY <1>1, <1>2, <2>1 DEF ProvablyDate, YieldsDate
<1>. SUFFICES Sound(v, D) /\ (YieldsDate(rule, k, date_like) => Dateable(v))
  BY DEF NodeIsSound
<1>4. CASE fn = "if_else"
  <2>1. /\ node.args # <<>> /\ 1 \in DOMAIN arguments /\ 2 \in DOMAIN arguments
        /\ 3 \in DOMAIN arguments /\ Forwarded(node) = {2, 3}
        /\ FUNCTIONS[fn].returns # "date"
    BY <1>1, <1>2, <1>4 DEF ArityFits, Forwarded, FUNCTIONS, Exactly
  <2>2. v = IF Failed(arguments[1]) THEN arguments[1]
            ELSE IF Truthy(arguments[1]) THEN arguments[2] ELSE arguments[3]
    BY <1>4 DEF NodeValue
  <2>. HIDE DEF arguments, v
  <2>3. Sound(v, D)
    BY <1>1, <1>2, <2>1, <2>2
  <2>4. Failed(arguments[1]) => arguments[1].t # "list" /\ Sound(arguments[1], D)
    BY <1>1, <1>2, <2>1 DEF Failed
  <2>. QED
    BY <1>1, <1>2, <1>3, <2>1, <2>2, <2>3, <2>4, FailedSoundIsCrash
<1>5. CASE fn = "exists"
  <2>1. v.t = "bool"
    BY <1>5 DEF NodeValue, Bool
  <2>2. FUNCTIONS[fn].returns = "boolean"
    BY <1>5 DEF FUNCTIONS, Exactly
  <2>. QED
    BY <1>3, <2>1, <2>2 DEF Sound, RuleError
<1>6. CASE fn \notin {"if_else", "exists"} /\ failing # {}
  <2>1. v = arguments[Min(failing)]
    BY <1>6 DEF NodeValue
  <2>2. Min(failing) \in failing
    <3>1. failing \subseteq Nat
      BY <1>1
    <3>. HIDE DEF failing
    <3>. QED
      BY <1>6, <3>1, LeastElement
  <2>3. Failed(v) /\ Sound(v, D)
    BY <1>2, <2>1, <2>2
  <2>. HIDE DEF v
  <2>. QED
    BY <2>3, FailedSoundIsCrash
<1>7. CASE fn \notin {"if_else", "exists"} /\ failing = {}
  <2>1. v = Apply(fn, arguments, today)
    BY <1>7 DEF NodeValue
  <2>2. \A p \in DOMAIN arguments : ~ Failed(arguments[p])
    BY <1>7
  <2>3. \A p \in FUNCTIONS[fn].dates : AsDate(arguments[p]) # RuleError
    BY <1>1, <1>2, <2>2, FailuresDiffer DEF Dateable
  <2>4. FUNCTIONS[fn].arity <= Len(arguments) /\ Len(arguments) = Len(node.args)
    <3>1. FUNCTIONS[fn].arity <= Len(node.args)
      BY <1>1 DEF ArityFits, FUNCTIONS, Exactly, AtLeast
    <3>2. Len(arguments) = Len(node.args)
      BY <1>1, <1>2
    <3>. QED
      BY <3>1, <3>2
  <2>5. FUNCTIONS[fn].returns = "any" /\ Forwarded(node) # {} =>
            FUNCTIONS[fn].variadic /\ Forwarded(node) = DOMAIN arguments
    BY <1>1, <1>2, <1>7 DEF Forwarded, FUNCTIONS, Exactly, AtLeast
  <2>. HIDE DEF arguments, v, fn
  <2>6. Sound(v, D)
    <3>1. /\ Len(arguments) \in Nat /\ DOMAIN arguments = 1 .. Len(arguments)
          /\ \A p \in DOMAIN arguments : Sound(arguments[p], D)
      BY <1>1, <1>2, <2>4
    <3>2. Sound(Apply(fn, arguments, today), D)
      BY <1>1, <1>7, <2>3, <2>4, <3>1, ApplyIsSound
    <3>. QED
      BY <2>1, <3>2
  <2>7. ASSUME YieldsDate(rule, k, date_like) PROVE Dateable(v)
    <3>1. v # RuleError
      BY <2>6 DEF Sound, RuleError
    <3>. QED
      BY <1>1, <1>2, <1>3, <1>7, <2>1, <2>4, <2>5, <2>7, <3>1, ApplyGivesDates
  <2>. QED
    BY <2>6, <2>7
<1>. QED
  BY <1>4, <1>5, <1>6, <1>7

\* A rule the startup check accepted raises no RuleError, and gives a date
\* where the check says so.
LEMMA AcceptedRuleIsSound ==
    ASSUME NEW D, IsData(D), NEW rule, Tree(rule), rule # <<>>, NEW names, NEW date_like,
           RuleAccepted(rule, names, date_like),
           NEW env, WellGiven(rule, env, date_like, D), NEW known, NEW today
    PROVE  NodeIsSound(rule, Len(rule), Interpret(rule, env, known, today), date_like, D)
<1>. DEFINE values == Values(rule, env, known, today)
            Fine(k) == NodeIsSound(rule, k, values[k], date_like, D)
            Reached == {n \in Nat : \A k \in DOMAIN rule : k <= n => Fine(k)}
<1>1. /\ Len(rule) \in Nat /\ DOMAIN rule = 1 .. Len(rule) /\ ParseRule(rule)
      /\ \A k \in DOMAIN rule :
             values[k] = NodeValue(rule, rule[k], values, env, known, today)
  <2>1. \A k \in DOMAIN rule :
            values[k] = NodeValue(rule, rule[k], values, env, known, today)
    BY ValueOfNode
  <2>. QED
    BY <2>1 DEF Tree, RuleAccepted
<1>. HIDE DEF values
<1>2. 0 \in Reached
  BY <1>1
<1>3. ASSUME NEW n \in Nat, n \in Reached PROVE n + 1 \in Reached
  <2>. SUFFICES ASSUME NEW k \in DOMAIN rule, k = n + 1 PROVE Fine(k)
    BY <1>1, <1>3
  <2>1. CASE rule[k].op # "call"
    BY <1>1, <2>1, LeafIsSound
  <2>2. CASE rule[k].op = "call"
    <3>1. \A p \in DOMAIN rule[k].args : Fine(rule[k].args[p])
      <4>1. \A p \in DOMAIN rule[k].args : rule[k].args[p] \in 1 .. k - 1
        BY <2>2 DEF Tree
      <4>. QED
        BY <1>1, <1>3, <4>1
    <3>2. \A p \in FUNCTIONS[rule[k].fn].dates : YieldsDate(rule, rule[k].args[p], date_like)
      BY <2>2 DEF RuleAccepted
    <3>. QED
      BY <1>1, <2>2, <3>1, <3>2, CallIsSound
  <2>. QED
    BY <2>1, <2>2
<1>4. Nat \subseteq Reached
  <2>. HIDE DEF Reached
  <2>. QED
    BY <1>2, <1>3, Counting
<1>5. Fine(Len(rule))
  BY <1>1, <1>4
<1>. QED
  BY <1>5 DEF Interpret, values

-----------------------------------------------------------------------------
(* What a rule reads *)

\* Evaluating a rule reads of a payload only the keys it names.
LEMMA EvaluateReadsItsKeys ==
    ASSUME NEW rule, NEW row, NEW other, NEW constants, NEW dates, NEW day, NEW computed,
           \A id \in NamesIn(rule) :
               /\ id \in DOMAIN row <=> id \in DOMAIN other
               /\ id \notin DOMAIN constants => Get(row, id) = Get(other, id)
    PROVE  Evaluate(rule, row, constants, dates, day, computed)
               = Evaluate(rule, other, constants, dates, day, computed)
<1>1. ASSUME NEW id \in NamesIn(rule)
      PROVE  ResolveName(id, row, constants, dates, computed)
                 = ResolveName(id, other, constants, dates, computed)
  BY DEF ResolveName
<1>2. NamesIn(rule) \cap (DOMAIN row \cup DOMAIN computed)
          = NamesIn(rule) \cap (DOMAIN other \cup DOMAIN computed)
  OBVIOUS
<1>3. [id \in NamesIn(rule) |-> ResolveName(id, row, constants, dates, computed)]
          = [id \in NamesIn(rule) |-> ResolveName(id, other, constants, dates, computed)]
  BY <1>1
<1>. QED
  BY <1>2, <1>3 DEF Evaluate

=============================================================================
