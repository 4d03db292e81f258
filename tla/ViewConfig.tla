----------------------------- MODULE ViewConfig -----------------------------
(***************************************************************************)
(* The view configuration: the structural checks of config.load_config,    *)
(* the cross-validation of validation.py and the catalogue.                *)
(*                                                                         *)
(* A configuration is [constants, views]; a view is [fields, derived,      *)
(* payloads], each a function from the names it declares.  A stored field  *)
(* is [kinds], a derived field or payload is [kinds, rule].                *)
(***************************************************************************)
EXTENDS RuleLanguage

CONSTANT NotFlat    \* the names with a dot or another forbidden character

\* Every function name is a flat name, so nothing stops a field from having one.
ASSUME NotFlatAssumption == NotFlat \cap DOMAIN FUNCTIONS = {}

Declared(view) == DOMAIN view.fields \cup DOMAIN view.derived \cup DOMAIN view.payloads

\* load_config, after the file has been parsed into the model: no view is
\* empty, every name is flat, no name stands in two sections.
WellStructured(config) ==
    \A view \in {config.views[v] : v \in DOMAIN config.views} :
        /\ Declared(view) # {}
        /\ Declared(view) \cap NotFlat = {}
        /\ DOMAIN view.fields \cap (DOMAIN view.derived \cup DOMAIN view.payloads) = {}
        /\ DOMAIN view.derived \cap DOMAIN view.payloads = {}

\* The function of a call is an ast.Name too, hence the subtraction: it also
\* takes away a field that has the name of a function.
rule_names(rule) == NamesIn(rule) \ DOMAIN FUNCTIONS

datetime_fields(config, view_type) ==
    LET view == config.views[view_type]
        DatedIn(section) == {n \in DOMAIN section : "DATETIME" \in section[n].kinds}
    IN  DatedIn(view.fields) \cup DatedIn(view.derived) \cup DatedIn(view.payloads)

\* Mutant: the declared fields are left out, the rules' inputs alone count.
referenced_fields_InputsOnly(config, view_type) ==
    LET view == config.views[view_type]
        Read(section) == UNION {rule_names(section[n].rule) : n \in DOMAIN section}
    IN  (Read(view.derived) \cup Read(view.payloads))
            \ (DOMAIN config.constants \cup DOMAIN view.derived \cup DOMAIN view.payloads)

referenced_fields(config, view_type) ==
    LET view == config.views[view_type]
        Read(section) == UNION {rule_names(section[n].rule) : n \in DOMAIN section}
    IN  (DOMAIN view.fields \cup Read(view.derived) \cup Read(view.payloads))
            \ (DOMAIN config.constants \cup DOMAIN view.derived \cup DOMAIN view.payloads)

\* The argument positions a call hands back unchanged.
Forwarded(node) ==
    IF FUNCTIONS[node.fn].variadic THEN DOMAIN node.args ELSE FUNCTIONS[node.fn].forward

\* Mutant: a call that returns "any" is taken for a date without looking into it.
ProvablyDate_AnyIsDate(node, dated, date_like) ==
    CASE node.op = "name" -> node.id \in date_like
      [] node.op = "lit"  -> node.value.t = "str" /\ ~ Failed(AsDate(node.value))
      [] node.op = "call" -> FUNCTIONS[node.fn].returns \in {"date", "any"}

\* _date_problems returns the empty list for the node, where `dated` says so
\* of its arguments.
ProvablyDate(node, dated, date_like) ==
    CASE node.op = "name" -> node.id \in date_like
      [] node.op = "lit"  -> node.value.t = "str" /\ ~ Failed(AsDate(node.value))
      [] node.op = "call" ->
             \/ FUNCTIONS[node.fn].returns = "date"
             \/ /\ FUNCTIONS[node.fn].returns = "any"
                /\ Forwarded(node) # {}
                /\ \A p \in Forwarded(node) : dated[node.args[p]]

\* Which nodes are provably dates.
Dated(rule, date_like) ==
    LET dated[k \in DOMAIN rule] == ProvablyDate(rule[k], dated, date_like)
    IN  dated

YieldsDate(rule, k, date_like) == Dated(rule, date_like)[k]

\* Mutant: the date positions go unchecked.
RuleAccepted_Undated(rule, known, date_like) ==
    ParseRule(rule) /\ rule_names(rule) \subseteq known

\* _check_rules finds no problem in one rule of a round that may read `known`.
RuleAccepted(rule, known, date_like) ==
    /\ ParseRule(rule)
    /\ rule_names(rule) \subseteq known
    /\ \A i \in DOMAIN rule : rule[i].op = "call" =>
           \A p \in FUNCTIONS[rule[i].fn].dates : YieldsDate(rule, rule[i].args[p], date_like)

\* _check_view: round one reads stored fields and constants, round two round
\* one as well.
ViewAccepted(config, view_type) ==
    LET view      == config.views[view_type]
        stored    == DOMAIN view.fields \cup DOMAIN config.constants
        date_like == datetime_fields(config, view_type) \cup DOMAIN config.constants
    IN  /\ \A n \in DOMAIN view.derived :
               RuleAccepted(view.derived[n].rule, stored, date_like)
        /\ \A n \in DOMAIN view.payloads :
               RuleAccepted(view.payloads[n].rule, stored \cup DOMAIN view.derived, date_like)

\* get_provider_config returns: the configuration the process serves.
Accepted(config) ==
    /\ WellStructured(config)
    /\ \A view_type \in DOMAIN config.views : ViewAccepted(config, view_type)

\* catalogue_for, as a function of the key; the wire form sorts it by key.
Catalogue(config, view_type) ==
    LET view == config.views[view_type]
    IN  [key \in Declared(view) |->
            [derived |-> key \notin DOMAIN view.fields,
             kinds   |-> IF key \in DOMAIN view.fields THEN view.fields[key].kinds
                         ELSE (view.derived @@ view.payloads)[key].kinds]]

=============================================================================
