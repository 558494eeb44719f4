--------------------------- MODULE MCMcpDaemon ---------------------------
(* An instance of McpDaemon for TLC: two clients that call the same tool,  *)
(* with every other kind of request beside the calls.                      *)
EXTENDS McpDaemon, TLC

CONSTANTS c1, c2, call, other, ping, note, probe, tool

MCScript == c1 :> <<call, note>> @@ c2 :> <<other, probe, ping>>

MCKindOf == call :> "call" @@ other :> "call"
            @@ ping :> "inline" @@ note :> "notify" @@ probe :> "health"

MCToolOf == [r \in Requests |-> tool]

MCMaxConcurrency == [t \in Tools |-> 1]
=============================================================================
