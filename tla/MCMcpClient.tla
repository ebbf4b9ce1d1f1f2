---------------------------- MODULE MCMcpClient ----------------------------
(* An instance of McpClient for TLC.                                       *)
EXTENDS McpClient

CONSTANTS p1, p2
=============================================================================
