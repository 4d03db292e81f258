---------------------------- MODULE MCTelemetry -----------------------------
(***************************************************************************)
(* Two requests at once about two persons, one of each kind.               *)
(***************************************************************************)
EXTENDS Telemetry

CONSTANTS anna, bert

MCCalls ==
    {[path |-> "catalogue", person |-> anna, complete |-> FALSE],
     [path |-> "lookup", person |-> anna, complete |-> TRUE],
     [path |-> "lookup", person |-> bert, complete |-> TRUE],
     [path |-> "lookup", person |-> bert, complete |-> FALSE],
     [path |-> "catalogue", person |-> bert, complete |-> TRUE]}

=============================================================================
