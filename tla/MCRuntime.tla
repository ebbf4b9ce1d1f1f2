----------------------------- MODULE MCRuntime ------------------------------
(***************************************************************************)
(* The goroutines around a request, for TLC: the gateway's life cycle, the *)
(* stall reader, the concurrency limiter, the MCP client and the tool      *)
(* loop.  They share no state, so Init chooses the one that runs in a      *)
(* behaviour (part) and the others stand still.                            *)
(***************************************************************************)
EXTENDS GatewayReload, StallReader, ConcurrencyLimiter, McpClient, ToolLoop

VARIABLE part

CONSTANTS r1, r2, s1, s2, tA, tB, tX, tC

Line(kind, index, id, name) == [kind |-> kind, index |-> index, id |-> id, name |-> name, leak |-> "none", total |-> 0]
Text == Line("text", 0, "", "")
Leak(g) == [Text EXCEPT !.leak = g]
Usage(n) == [Text EXCEPT !.kind = "usage", !.total = n]
Done == [Text EXCEPT !.kind = "done"]

(* An empty answer, plain ones, leaks of either kind, calls whose id or    *)
(* name arrives late, calls without an index, a tool of the client.        *)
UpstreamAnswers == {
    <<>>,
    <<Text, Usage(3), Done>>,
    <<Leak("exfil"), Text, Usage(3), Done>>,
    <<Text, Leak("canary"), Done>>,
    <<Line("call", 0, "a", ""), Line("call", 0, "", tA), Line("call", 1, "", tB), Usage(2), Done>>,
    <<Line("call", -1, "", tX), Line("call", -1, "", tC), Usage(0), Done>>,
    <<Line("call", 0, "c", tC), Line("call", 1, "d", ""), Usage(0), Done>>}

ToolServer == [tool \in {tA, tB, tX, tC} |-> CASE tool \in {tA, tB} -> s1 [] tool = tX -> s2 [] OTHER -> Absent]

ToolRanking == <<tX, tB, tA, tC>>

ASSUME ToolAssumption

-----------------------------------------------------------------------------
all == <<part, vars, stallVars, limiterVars, clientVars, tvars>>

RuntimeInit ==
    /\ part \in {"gateway", "stall", "limiter", "client", "tools"}
    /\ Init /\ StallInit /\ LimiterInit /\ MCInit /\ TLInit
    /\ part # "client" => up
    /\ part # "tools" => \A s \in Servers : ready[s] /\ mark[s] = Absent

RuntimeNext ==
    \/ part = "gateway" /\ Next /\ UNCHANGED <<part, stallVars, limiterVars, clientVars, tvars>>
    \/ part = "stall" /\ StallNext /\ UNCHANGED <<part, vars, limiterVars, clientVars, tvars>>
    \/ part = "limiter" /\ LimiterNext /\ UNCHANGED <<part, vars, stallVars, clientVars, tvars>>
    \/ part = "client" /\ MCNext /\ UNCHANGED <<part, vars, stallVars, limiterVars, tvars>>
    \/ part = "tools" /\ TLNext /\ UNCHANGED <<part, vars, stallVars, limiterVars, clientVars>>

(* The fairness of each component, where it runs.                          *)
RuntimeFairness ==
    /\ Fairness
    /\ WF_stallVars(part = "stall" /\ Send) /\ WF_stallVars(part = "stall" /\ GiveUp)
    /\ WF_stallVars(part = "stall" /\ Fetch /\ (srcClosed \/ canceled))
    /\ WF_stallVars(part = "stall" /\ Fire) /\ WF_stallVars(part = "stall" /\ Callback)
    /\ WF_stallVars(part = "stall" /\ Consume)
    /\ WF_stallVars(part = "stall" /\ report # "none" /\ CloseBody)
    /\ WF_stallVars(part = "stall" /\ StopReader) /\ WF_stallVars(part = "stall" /\ Drain)
    /\ WF_stallVars(part = "stall" /\ HandlerReturns)
    /\ WF_tvars(part = "tools" /\ Request)
    /\ WF_tvars(part = "tools" /\ \E k \in DOMAIN call : Goroutine(k))

RuntimeSpec == RuntimeInit /\ [][RuntimeNext]_all /\ RuntimeFairness

-----------------------------------------------------------------------------
(* GatewayReload: a replaced gateway is closed, though the last exit races *)
(* the arming of its gate, and a stop signal or a failed listener ends the *)
(* process.                                                                *)
ReplacedCloses == part = "gateway" => Retires
StopEnds == part = "gateway" => Exits

(* StallReader: a Read comes back, and the goroutine of a finished request *)
(* ends.                                                                   *)
BothSidesEnd ==
    part = "stall" => /\ (part = "stall" /\ Left) ~> (part = "stall" /\ Ended)
                      /\ (part = "stall" /\ Waiting) ~> (part = "stall" /\ ~Waiting)

(* ToolLoop: every loop ends.                                              *)
ToolLoopEnds == <>(part = "tools" => Over)
=============================================================================
