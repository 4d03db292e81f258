----------------------------- MODULE MCGateway ------------------------------
(***************************************************************************)
(* An instance of Gateway: two requests at once, two tokens, a database    *)
(* URL no engine can be built from, and a configuration edited underneath; *)
(* and a third request, as two can race for the engine and the next one    *)
(* comes later.                                                            *)
(***************************************************************************)
EXTENDS Gateway, MCStartup

GatewayEnvironments ==
    [settings : {SettingsOf("t", "usable"), SettingsOf("u", "usable"), SettingsOf("t", "unparsable")},
     dsn      : {"unset"}]

GatewayFiles == [state : {"document"}, config : {Good, Edited}]

CallOf(path, token, body) == [path |-> path, token |-> token, body |-> body]

MCCalls ==
    {CallOf("lookup", "t", "complete"), CallOf("lookup", "t", "incomplete"),
     CallOf("lookup", "", "complete"), CallOf("lookup", "", "garbled"),
     CallOf("lookup", "t", "undecodable"), CallOf("catalogue", "u", "complete"),
     CallOf("catalogue", "", "garbled"), CallOf("catalogue", "t", "incomplete"),
     CallOf("healthz", "", "complete"), CallOf("unknown", "", "complete"),
     CallOf("misused", "", "complete")}

-----------------------------------------------------------------------------
(* A third request, where all that happens is about the engine             *)

Third == CHOOSE r \in Requests : TRUE

OnlyTheEngine ==
    /\ env.settings = SettingsOf("t", "usable") /\ file.config = Good
    /\ pc = "serving" => cache = [settings |-> env.settings, config |-> file.config]
    /\ \A r \in Requests : call[r] \in {Contract!NoCall, CallOf("lookup", "t", "complete")}

MCSpec ==
    /\ GatewayInit
    /\ [][GatewayNext /\ (call[Third] # Contract!NoCall => OnlyTheEngine)']_vars

=============================================================================
