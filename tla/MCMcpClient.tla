----------------------------- MODULE MCMcpClient -----------------------------
(* Small instances of McpClient for TLC.                                     *)
EXTENDS McpClient

CONSTANTS c1, c2, c3, n1

\* One request longer than the pipe, the other lines of a unit each.
MCSize == [c \in Calls |-> IF c = c2 THEN Capacity + 1 ELSE 1]
=============================================================================
