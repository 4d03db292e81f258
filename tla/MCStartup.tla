----------------------------- MODULE MCStartup ------------------------------
(***************************************************************************)
(* Instances of Startup: every way settings, error reporting and the file  *)
(* can be right or wrong.                                                  *)
(***************************************************************************)
EXTENDS Startup

SettingsOf(token, url) == [complete |-> TRUE, token |-> token, url |-> url]
Unset                  == [complete |-> FALSE, token |-> "t", url |-> "usable"]

MCEnvironments ==
    [settings : {SettingsOf("t", "usable"), SettingsOf("u", "usable"), SettingsOf("t", "unparsable"),
                 SettingsOf("", "usable"), Unset},
     dsn      : {"unset", "valid", "malformed"}]

Stored == [since |-> [kinds |-> {"DATETIME"}], name |-> [kinds |-> {"TEXT"}]]

ViewWith(rule) ==
    [fields |-> Stored, payloads |-> <<>>,
     derived |-> [until |-> [kinds |-> {"DATETIME"}, rule |-> rule]]]

ConfigWith(view) == [constants |-> <<>>, views |-> [card |-> view]]

DaysAfter(field) == <<Name(field), Lit(Num(1)), Call("add_days", <<1, 2>>)>>

Good       == ConfigWith(ViewWith(DaysAfter("since")))
Edited     == ConfigWith(ViewWith(<<Name("since")>>))
Undeclared == ConfigWith(ViewWith(DaysAfter("name")))
NoFields   == ConfigWith([fields |-> <<>>, payloads |-> <<>>, derived |-> <<>>])

MCFiles ==
    [state  : {"missing", "unreadable", "duplicate", "not_yaml", "misshapen", "invalid"},
     config : {<<>>}]
    \cup [state : {"document"}, config : {Good, Edited, Undeclared, NoFields}]

=============================================================================
