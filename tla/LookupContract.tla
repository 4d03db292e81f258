--------------------------- MODULE LookupContract ---------------------------
(***************************************************************************)
(* What POST /lookup promises, with no word on how: every request that is  *)
(* made is answered once, and a 200 carries exactly the requested fields,  *)
(* computed from one version of the person's row that was committed while  *)
(* the request was open, every rule evaluated on some day of that time.    *)
(* Producers write rows and days pass independently of the requests.       *)
(***************************************************************************)
EXTENDS Integers

CONSTANTS
    Requests, Asks, Configs, Rows, NoRow, FirstDay, MaxDay, Unsent, Open, NoAsk,
    KeyOf(_),             \* the key of the row a request is about
    Accepted(_),          \* a configuration a process may serve
    Right(_, _, _, _, _)  \* right: configuration, request, rows, days, response

VARIABLES
    config,      \* the configuration this process was started with
    today,       \* what date.today() returns
    db,          \* person_view: the current row of each key
    ask,         \* the body of each request
    response,    \* the response to each request
    seen,        \* history: the rows current at some time since the request
    since        \* history: the day the request was made

contractVars == <<config, today, db, ask, response, seen, since>>

-----------------------------------------------------------------------------
Init ==
    /\ config \in {c \in Configs : Accepted(c)}
    /\ today = FirstDay
    /\ db \in [DOMAIN Rows -> {NoRow} \cup UNION {Rows[k] : k \in DOMAIN Rows}]
    /\ \A k \in DOMAIN Rows : db[k] \in Rows[k] \cup {NoRow}
    /\ ask = [r \in Requests |-> NoAsk]
    /\ response = [r \in Requests |-> Unsent]
    /\ seen = [r \in Requests |-> {}]
    /\ since = [r \in Requests |-> FirstDay]

Ask(r, a) ==
    /\ response[r] = Unsent
    /\ ask' = [ask EXCEPT ![r] = a]
    /\ response' = [response EXCEPT ![r] = Open]
    /\ seen' = [seen EXCEPT ![r] = {db[KeyOf(a)]}]
    /\ since' = [since EXCEPT ![r] = today]
    /\ UNCHANGED <<config, today, db>>

Reply(r) ==
    /\ response[r] = Open /\ response'[r] # Open
    /\ response' = [response EXCEPT ![r] = response'[r]]
    /\ UNCHANGED <<config, today, db, ask, seen, since>>
    /\ Right(config, ask[r], seen[r], since[r] .. today, response'[r])

\* The producer upserts or deletes a row of person_view (last writer wins).
Produce(k, row) ==
    /\ row # db[k]
    /\ db' = [db EXCEPT ![k] = row]
    /\ seen' = [r \in Requests |->
                   IF response[r] = Open /\ KeyOf(ask[r]) = k
                   THEN seen[r] \cup {row} ELSE seen[r]]
    /\ UNCHANGED <<config, today, ask, response, since>>

NextDay ==
    /\ today < MaxDay
    /\ today' = today + 1
    /\ UNCHANGED <<config, db, ask, response, seen, since>>

Next ==
    \/ \E r \in Requests : Reply(r) \/ \E a \in Asks : Ask(r, a)
    \/ \E k \in DOMAIN Rows : \E row \in Rows[k] \cup {NoRow} : Produce(k, row)
    \/ NextDay

Safety == Init /\ [][Next]_contractVars

\* The obligation to make progress: an open request is answered.
Answered == \A r \in Requests : response[r] = Open ~> response[r] # Open

Spec == Safety /\ Answered

=============================================================================
