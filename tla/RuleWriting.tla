----------------------------- MODULE RuleWriting -----------------------------
(***************************************************************************)
(* Every rule up to a size, written node by node as the derived field of   *)
(* one view, to compare two programs that must agree about it: the startup *)
(* check of validation.py, which sees the text, and the evaluator of       *)
(* rules.py, which sees the rows.                                          *)
(***************************************************************************)
EXTENDS ViewConfig

CONSTANTS
    Leaves,       \* names and literals a site may write
    Functions,    \* the calls it may write
    Constants,    \* the constants of the configuration
    Fields,       \* the stored fields of the view
    TypedRows,    \* rows as producers should write them: every date is one
    Data,         \* what rows, constants and literals hold
    Today,
    MaxNodes,     \* bound: the size of a rule
    MaxArgs       \* bound: the arguments of a variadic call

ASSUME LeavesAssumption ==
    \A leaf \in Leaves :
        (leaf.op = "lit" /\ leaf = Lit(leaf.value)) \/ (leaf.op = "name" /\ leaf = Name(leaf.id))
ASSUME FunctionsAssumption == Functions \subseteq DOMAIN FUNCTIONS
ASSUME DataAssumption ==
    /\ IsData(Data)
    /\ \A leaf \in Leaves : leaf.op = "lit" => leaf.value \in Data
    /\ \A c \in DOMAIN Constants : Constants[c] \in Data
    /\ \A row \in TypedRows : \A n \in DOMAIN row : row[n] \in Data
ASSUME TypedRowsAssumption ==
    \A row \in TypedRows, n \in DOMAIN Fields :
        "DATETIME" \in Fields[n].kinds => AsDate(Get(row, n)) # RuleError
ASSUME BoundsAssumption == MaxNodes \in Nat /\ MaxArgs \in Nat

VARIABLES
    rule,    \* the nodes written so far
    open     \* those that are no argument yet, in the order they stand

vars == <<rule, open>>

Init == rule = <<>> /\ open = <<>>

\* The bounds: nothing is added to a rule that parse_rule refuses already, and
\* none is begun that the nodes left cannot finish, each of them closing at most
\* MaxArgs open ones.
Finishable ==
    /\ Len(rule') <= MaxNodes
    /\ Len(open') - 1 <= (MaxArgs - 1) * (MaxNodes - Len(rule'))
    /\ ParseRule(rule)

WriteLeaf(leaf) ==
    /\ rule' = Append(rule, leaf)
    /\ open' = Append(open, Len(rule) + 1)
    /\ Finishable

\* The last n nodes that are open become the arguments of a call; a site may
\* write any number of them.
WriteCall(fn, n) ==
    LET rest == Len(open) - n
    IN  /\ n <= Len(open)
        /\ rule' = Append(rule, Call(fn, SubSeq(open, rest + 1, Len(open))))
        /\ open' = Append(SubSeq(open, 1, rest), Len(rule) + 1)
        /\ Finishable

Next ==
    \/ \E leaf \in Leaves : WriteLeaf(leaf)
    \/ \E fn \in Functions, n \in 0 .. MaxArgs : WriteCall(fn, n)

Spec == Init /\ [][Next]_vars

-----------------------------------------------------------------------------
(* The view that has the rule *)

Whole == Len(open) = 1

Nothing == [n \in {} |-> n]

Site ==
    [constants |-> Constants,
     views     |-> [site |-> [fields   |-> Fields,
                              derived  |-> [computed |-> [kinds |-> {"TEXT"}, rule |-> rule]],
                              payloads |-> Nothing]]]

Served == Whole /\ Accepted(Site)

Value(node, row) ==
    Evaluate(SubSeq(rule, 1, node), row, Constants, datetime_fields(Site, "site"), Today, EmptyDict)

-----------------------------------------------------------------------------
(* Properties *)

Nodes == Leaves \cup [op : {"call"}, fn : Functions, args : Seq(1 .. MaxNodes)]

\* The shape of what is written: the arguments of a call stand before it.
TypeOK ==
    /\ rule \in Seq(Nodes) /\ Tree(rule)
    /\ open \in Seq(1 .. Len(rule))

\* "A wrong argument count is a startup-time RuleError, not a request-time
\* IndexError or ValueError from positional unpacking in evaluate" (Signature in
\* rules.py): in a rule that parse_rule returns, every call gives evaluate() the
\* arguments it takes by position, none too few and none that it would ignore.
EvaluateFindsItsArguments ==
    ParseRule(rule) =>
        \A i \in DOMAIN rule :
            rule[i].op = "call" /\ rule[i].fn \in DOMAIN TakenByPosition
                => Len(rule[i].args) = TakenByPosition[rule[i].fn]

\* "This failure mode lives in the row" (api/routers.py): a rule that passed the
\* startup check raises no RuleError on a row whose dates are dates, whatever
\* calls it puts between a field and a date position.
ServedRulesReadDates ==
    Served => \A row \in TypedRows : Value(Len(rule), row) # RuleError

TagOf == [date |-> "date", number |-> "num", boolean |-> "bool", string |-> "str"]

\* The function table and the evaluator agree: a parsed call that does not fail gives
\* null or a value of the type FUNCTIONS says it returns, which is what the
\* startup check reasons with.
CallsReturnWhatTheTableSays ==
    \A row \in TypedRows : Whole /\ ParseRule(rule) /\ rule[Len(rule)].op = "call" =>
        LET value    == Value(Len(rule), row)
            promised == FUNCTIONS[rule[Len(rule)].fn].returns
        IN  promised = "any" \/ Failed(value) \/ value = Null \/ value.t = TagOf[promised]

\* referenced_fields is "every field a producer must write" (validation.py): a
\* producer that writes those and nothing else gives each stored field and the
\* rule the value it has in the whole row.
ReferencedFieldsSuffice ==
    Served => \A row \in TypedRows :
        LET lean == [n \in DOMAIN row \cap referenced_fields(Site, "site") |-> row[n]]
        IN  /\ \A n \in DOMAIN Fields : Get(lean, n) = Get(row, n)
            /\ Value(Len(rule), lean) = Value(Len(rule), row)

\* docs/reference.md: "every argument in a date position of add_days or
\* days_between provably yields a date, following coalesce, min, max and the
\* branches of if_else recursively".
DateArgumentsYieldDates ==
    Served /\ rule[Len(rule)].op = "call" =>
        \A row \in TypedRows, p \in FUNCTIONS[rule[Len(rule)].fn].dates :
            LET argument == Value(rule[Len(rule)].args[p], row)
            IN  ~ Failed(argument) /\ ~ Failed(AsDate(argument))

=============================================================================
