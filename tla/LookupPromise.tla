--------------------------- MODULE LookupPromise ----------------------------
(***************************************************************************)
(* The meaning of a request to POST /lookup: what a consumer may ask, the  *)
(* responses there are, the value a field has in a row, and which response *)
(* is right.  It has no state: LookupContract states the promise as a      *)
(* behaviour, Lookup is the code that keeps it.                            *)
(***************************************************************************)
EXTENDS ViewConfig

CONSTANTS
    Requests,    \* the requests of the behaviour
    Asks,        \* what a consumer may ask: [person, view, fields]
    Configs,     \* candidate configuration files; only accepted ones serve
    Rows,        \* for each [person, view type], the rows producers may write
    NoRow,       \* stands for the absence of a row
    FirstDay,    \* the day the behaviour starts on
    MaxDay       \* bound: the last day the clock shows

NoAsk  == [person |-> "-", view |-> "-", fields |-> <<>>]
Unsent == [status |-> 0]     \* the request has not been made
Open   == [status |-> 1]     \* made, not answered

RowOrNone == {NoRow} \cup UNION {Rows[k] : k \in DOMAIN Rows}

KeyOf(a) == <<a.person, a.view>>

ASSUME DayAssumption  == FirstDay \in 0 .. MaxDay /\ MaxDay \in 0 .. LastDay
ASSUME RowsAssumption == \A a \in Asks : KeyOf(a) \in DOMAIN Rows
ASSUME ValuesAssumption ==     \* a row holds values, never an exception
    \A k \in DOMAIN Rows : \A row \in Rows[k] : \A n \in DOMAIN row : ~ Failed(row[n])
ASSUME AskAssumption  == \A a \in Asks : a.fields \in Seq(STRING)

-----------------------------------------------------------------------------
(* Responses, as status and title of the problem document *)

Found(answer)    == [status |-> 200, answer |-> answer]
UnknownViewType  == [status |-> 404, title |-> "Unknown view type"]
UnknownField     == [status |-> 400, title |-> "Unknown field"]
UnknownPerson    == [status |-> 404, title |-> "Unknown person"]
NotComputable(f) == [status |-> 500, title |-> "Derived field cannot be computed", field |-> f]
\* The cause is history: the wire carries one fixed text for every exception
\* nobody handled.
InternalError(cause) ==
    [status |-> 500, title |-> "Internal server error", cause |-> cause]

\* A date leaves the service as its ISO string, everything else as it is.
Wire(v) == IF v.t = "date" THEN IsoText(v.d) ELSE v

-----------------------------------------------------------------------------
(* The meaning of a field, as the documentation defines it *)

\* The derived fields a payload's rule names: docs/reference.md, "Two rounds".
Inputs(view, p) == NamesIn(view.payloads[p].rule) \cap DOMAIN view.derived

\* The computed fields a response depends on.
Needed(view, fields) ==
    LET payloads == ToSet(fields) \cap DOMAIN view.payloads
    IN  (ToSet(fields) \cap DOMAIN view.derived) \cup payloads
            \cup UNION {Inputs(view, p) : p \in payloads}

\* The value field f of view type vt has in a row, the rule of each computed
\* field n evaluated on day[n].
Meaning(c, vt, f, row, day) ==
    LET view  == c.views[vt]
        dates == datetime_fields(c, vt)
        Derived(n) ==
            Evaluate(view.derived[n].rule, row, c.constants, dates, day[n], EmptyDict)
    IN  IF f \in DOMAIN view.derived THEN Derived(f)
        ELSE IF f \in DOMAIN view.payloads
             THEN Evaluate(view.payloads[f].rule, row, c.constants, dates, day[f],
                           [n \in Inputs(view, f) |-> Derived(n)])
        ELSE Get(row, f)

\* The requested fields that have a value; a null is left out.
Projection(c, a, row, day) ==
    LET Of(f) == Meaning(c, a.view, f, row, day)
    IN  [f \in {g \in ToSet(a.fields) : Of(g) # Null} |-> Wire(Of(f))]

\* resp is a right response to a, given the row and the days.
RightGiven(c, a, row, day, resp) ==
    LET needed == Needed(c.views[a.view], a.fields)
        Of(f) == Meaning(c, a.view, f, row, day)
    IN  \/ /\ resp.status = 200
           /\ \A f \in needed : ~ Failed(Of(f))
           /\ resp = Found(Projection(c, a, row, day))
        \/ \E f \in needed : resp = NotComputable(f) /\ Of(f) = RuleError
        \/ /\ resp = InternalError("rule")
           /\ \E f \in needed : Failed(Of(f)) /\ Of(f) # RuleError

\* resp is a right response to a, given the versions of the row and the days
\* of the time the request was open.  A failing database may always answer
\* for a request that reached it.
Right(c, a, rows, days, resp) ==
    IF a.view \notin DOMAIN c.views THEN resp = UnknownViewType
    ELSE IF ~ ToSet(a.fields) \subseteq Declared(c.views[a.view]) THEN resp = UnknownField
    ELSE \/ NoRow \in rows /\ resp = UnknownPerson
         \/ resp = InternalError("database")
         \/ \E row \in rows \ {NoRow}, day \in [Needed(c.views[a.view], a.fields) -> days] :
                RightGiven(c, a, row, day, resp)

=============================================================================
