----------------------------- MODULE MCMcpStdio -----------------------------
(***************************************************************************)
(* An instance of McpStdio for TLC: one health check and one tool call.    *)
(***************************************************************************)
EXTENDS McpStdio, TLC

CONSTANTS h, t

MCCalls == {h, t}
MCKindOf == h :> "health" @@ t :> "invoke"
=============================================================================
