------------------------------ MODULE ServerMC ------------------------------
(* Instances of Server for TLC. *)
EXTENDS Server, TLC

CONSTANTS c1, c2, hook

\* One client calls by gRPC, the other one by the gateway or MCP.
SomeWays == c1 :> {"native"} @@ c2 :> {"gateway", "mcp"}

\* The webhook forwards the events of one call.
SomeForwarded == hook :> {c1}
=============================================================================
