---------------------------- MODULE MCRuleWriting ----------------------------
(***************************************************************************)
(* Instances of RuleWriting for TLC: a view with a date, a text and a      *)
(* list, one constant, and the calls that forward, consume and make dates. *)
(***************************************************************************)
EXTENDS RuleWriting

MCLeaves ==
    {Name("until"), Name("name"), Name("groups"), Name("open_ended"), Name("undeclared"),
     Lit(IsoText(2)), Lit(Num(1)), Lit(Pattern("YYYYMMDD"))}

MCFunctions ==
    {"today", "coalesce", "if_else", "exists", "lt", "contains",
     "add_days", "days_between", "min", "first", "concat", "format_date"}

MCConstants == [open_ended |-> Date(LastDay)]

\* The date, too, is the name of a constant.
ShadowingConstants == [open_ended |-> Date(LastDay), until |-> Date(1)]

MCFields ==
    [until  |-> [kinds |-> {"DATETIME"}],
     name   |-> [kinds |-> {"TEXT"}],
     groups |-> [kinds |-> {"TEXT"}]]

\* A complete row with one key more than declared, and one that lacks a date.
MCTypedRows ==
    {[until |-> IsoText(3), name |-> Text(1), groups |-> List(<<Text(1), Text(2)>>),
      undeclared |-> Text(2)],
     [until |-> Null, name |-> Str(<<>>)]}

\* What these rows, constants and literals hold.
MCData ==
    {Null, Date(LastDay), Date(1), Num(1), Pattern("YYYYMMDD"), IsoText(2), IsoText(3),
     Str(<<>>), Text(1), Text(2), List(<<Text(1), Text(2)>>)}

\* Dates only, for rules one node longer.
DateLeaves    == {Name("until"), Lit(IsoText(2))}
DateFunctions == {"coalesce", "min", "days_between"}

=============================================================================
