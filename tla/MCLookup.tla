------------------------------ MODULE MCLookup ------------------------------
(***************************************************************************)
(* Instances of Lookup for TLC: a canteen pass in the shape of             *)
(* docs/reference.md, with a derived validity, a derived field that fails  *)
(* on some rows, and a payload that reads the validity.                    *)
(***************************************************************************)
EXTENDS Lookup

Nothing == [n \in {} |-> n]

-----------------------------------------------------------------------------
(* Rules *)

\* min(add_days(today(), 1), coalesce(until, open_ended))
ValidUntil ==
    <<Call("today", <<>>), Lit(Num(1)), Call("add_days", <<1, 2>>),
      Name("until"), Name("open_ended"), Call("coalesce", <<4, 5>>),
      Call("min", <<3, 6>>)>>

\* add_days(until, 1)
Grace == <<Name("until"), Lit(Num(1)), Call("add_days", <<1, 2>>)>>

\* concat(name, format_date(valid_until, 'YYYYMMDD'))
Nfc ==
    <<Name("name"), Name("valid_until"), Lit(Pattern("YYYYMMDD")),
      Call("format_date", <<2, 3>>), Call("concat", <<1, 4>>)>>

\* if_else(gt(today(), until), name, null): the day decides whether it is there
Expired ==
    <<Call("today", <<>>), Name("until"), Call("gt", <<1, 2>>), Name("name"), Lit(Null),
      Call("if_else", <<3, 4, 5>>)>>

\* concat(format_date(today(), 'YYYYMMDD'), format_date(valid_until, 'YYYYMMDD'))
Issued ==
    <<Call("today", <<>>), Lit(Pattern("YYYYMMDD")), Call("format_date", <<1, 2>>),
      Name("valid_until"), Lit(Pattern("YYYYMMDD")), Call("format_date", <<4, 5>>),
      Call("concat", <<3, 6>>)>>

-----------------------------------------------------------------------------
(* Configurations *)

Stored == [name |-> [kinds |-> {"TEXT"}], until |-> [kinds |-> {"DATETIME"}]]

Canteen ==
    [fields   |-> Stored,
     derived  |-> [valid_until |-> [kinds |-> {"TEXT", "DATETIME"}, rule |-> ValidUntil],
                   grace       |-> [kinds |-> {"DATETIME"}, rule |-> Grace]],
     payloads |-> [nfc     |-> [kinds |-> {"NFC"}, rule |-> Nfc],
                   issued  |-> [kinds |-> {"NFC"}, rule |-> Issued],
                   expired |-> [kinds |-> {"TEXT"}, rule |-> Expired]]]

\* A derived field that reads another one: refused at startup.
Chained ==
    [Canteen EXCEPT !.derived.grace.rule = <<Name("valid_until")>>]

\* Days are added to a name: refused at startup.
Undated ==
    [Canteen EXCEPT !.payloads.expired.rule =
        <<Name("name"), Lit(Num(1)), Call("add_days", <<1, 2>>)>>]

ConfigOf(view) ==
    [constants |-> [open_ended |-> Date(LastDay)], views |-> [canteen |-> view]]

MCConfigs == {ConfigOf(Canteen), ConfigOf(Chained), ConfigOf(Undated)}

\* For two requests: the validity is the day after `until`, and there is none
\* for a row whose date is not ISO.
PairConfigs ==
    {ConfigOf([Canteen EXCEPT
        !.derived  = [valid_until |-> Canteen.derived.grace],
        !.payloads = [nfc |-> Canteen.payloads.nfc]])}

\* The validity is called `first`, like a function of the language, and the
\* payload reads it under that name: accepted at startup.
Renamed ==
    [Canteen EXCEPT
        !.derived = [first |-> Canteen.derived.valid_until],
        !.payloads = [nfc |-> [kinds |-> {"NFC"},
                               rule  |-> [Nfc EXCEPT ![2] = Name("first")]]]]

AskFor(fields) == [person |-> "p", view |-> "canteen", fields |-> fields]

RenamedConfigs == {ConfigOf(Renamed)}
RenamedOrder   == <<"first", "name", "nfc", "until">>
RenamedAsks    == {AskFor(<<"nfc">>), AskFor(<<"nfc", "first">>)}

-----------------------------------------------------------------------------
(* Rows and requests *)

RowOf(name, until) == [name |-> name, until |-> until]

\* A pass of today; one whose date is not ISO; an open-ended one, on which
\* adding a day overflows; one without a date whose name is empty.
MCRows ==
    <<"p", "canteen">> :> {RowOf(Text(1), IsoText(1)), RowOf(Text(1), Text(2)),
                           RowOf(Text(2), IsoText(LastDay)), [name |-> Str(<<>>)]}
    @@ <<"p", "no_such_view">> :> {}

\* For two requests: a pass of today and one whose date is not ISO.
PairRows == <<"p", "canteen">> :> {RowOf(Text(1), IsoText(1)), RowOf(Text(1), Text(2))}

MCAsks ==
    {AskFor(fields) : fields \in
        {<<"nfc">>, <<"issued", "valid_until">>, <<"nfc", "valid_until">>, <<"grace", "name">>,
         <<"expired", "expired">>, <<"name", "bogus">>, <<>>}}
    \cup {[AskFor(<<"name">>) EXCEPT !.view = "no_such_view"]}

PairAsks == {AskFor(<<"nfc", "name">>), AskFor(<<"valid_until", "nfc">>)}

MCOrder == <<"expired", "grace", "issued", "name", "nfc", "until", "valid_until">>

=============================================================================
