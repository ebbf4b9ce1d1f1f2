------------------------------ MODULE MCWaits -------------------------------
(***************************************************************************)
(* Those who wait, for TLC: requests that wait for a probe, a slot or an   *)
(* upstream (Dispatch), and the callers of an MCP transport.  The two      *)
(* share no state: Init chooses the one that runs in a behaviour (part),   *)
(* and the other stays in its initial state, where none of its fair steps  *)
(* is enabled.                                                             *)
(***************************************************************************)
EXTENDS MCDispatch, McpTransport

VARIABLE part

CONSTANTS c1, c2

WaitsInit == part \in {"dispatch", "transport"} /\ DInit /\ TransportInit

WaitsNext ==
    \/ part = "dispatch" /\ DNext /\ UNCHANGED <<part, tvars>>
    \/ part = "transport" /\ TransportNext /\ UNCHANGED <<part, dvars>>

(* Goroutines that can move do, as each module says of its own.            *)
WaitsSpec ==
    /\ WaitsInit /\ [][WaitsNext]_<<part, dvars, tvars>>
    /\ \A r \in Requests : WF_dvars(Step(r))
    /\ TransportFairness
=============================================================================
