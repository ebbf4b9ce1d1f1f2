--------------------------- MODULE GatewayReload ---------------------------
(***************************************************************************)
(* Hot reload and shutdown of the gateway: the event loop of               *)
(* cmd/nenya/main.go, the admission of Proxy.ServeHTTP                     *)
(* (internal/proxy/handler.go), the drain gate of                          *)
(* internal/gateway/drain.go and the MCP auto-save goroutines of           *)
(* internal/proxy/stream.go.  A reload swaps in a new gateway and a        *)
(* detached goroutine closes the old one once nobody uses it.              *)
(*                                                                         *)
(* Gateways are numbered in the order they are built.  Each request runs   *)
(* once and may leave one auto-save goroutine behind.  GET /healthz does   *)
(* not pass the gate and touches none of the closed resources: left out.   *)
(***************************************************************************)
EXTENDS Integers, FiniteSets

CONSTANTS
    Requests,       \* client requests
    MaxGateways     \* bound: gateways built over the process's life

VARIABLES
    proc,           \* the event loop: running, building, stopping in 3 steps,
                    \* failing, over
    shutdown,       \* Proxy.Shutdown
    serving,        \* Proxy.gw
    gate,           \* per gateway: its drainGate, and whether Close ran
    drainer,        \* per gateway: the goroutine that disposes of it
    expired,        \* per gateway: a bounded wait of its disposal ran out
    req,            \* per request: label and gateway loaded
    save            \* per request: label and gateway of its auto-save

vars == <<proc, shutdown, serving, gate, drainer, expired, req, save>>

ASSUME ReloadAssumption ==
    /\ IsFiniteSet(Requests)
    /\ MaxGateways \in Nat \ {0}

Gateways == 1..MaxGateways

(* drained is "none" before it is armed with work in flight (the nil       *)
(* channel) and "closed" after the last exit.                              *)
Gate == [draining : BOOLEAN, inflight : Nat,
         drained : {"none", "open", "closed"}, closed : BOOLEAN]

openGate == [draining |-> FALSE, inflight |-> 0, drained |-> "none", closed |-> FALSE]

Users(g) == {r \in Requests : req[r] = [pc |-> "serving", gw |-> g]}

Saves == {r \in Requests : save[r].pc \in {"started", "calling"}}   \* autoSaveWG

Busy == {r \in Requests : req[r].pc \in {"loaded", "serving"}}

-----------------------------------------------------------------------------
(* Proxy.ServeHTTP.                                                        *)

Load(r) ==
    /\ req[r].pc = "idle" /\ proc \in {"run", "building", "http", "failing"}
    /\ req' = [req EXCEPT ![r] = IF shutdown THEN [pc |-> "stopping", gw |-> serving]
                                             ELSE [pc |-> "loaded", gw |-> serving]]
    /\ UNCHANGED <<proc, shutdown, serving, gate, drainer, expired, save>>

(* Mutant: the request is admitted but not counted.                        *)
uncounted(q) == q

counted(q) == [q EXCEPT !.inflight = @ + 1]

EnterRequest(r) ==
    LET g == req[r].gw IN
    /\ req[r].pc = "loaded"
    /\ IF gate[g].draining
       THEN /\ req' = [req EXCEPT ![r].pc = "refused"]
            /\ UNCHANGED gate
       ELSE /\ req' = [req EXCEPT ![r].pc = "serving"]
            /\ gate' = [gate EXCEPT ![g] = counted(@)]
    /\ UNCHANGED <<proc, shutdown, serving, drainer, expired, save>>

(* asyncMCPAutoSave, called by the handler of a stream that ended well.    *)
asyncMCPAutoSave(r) ==
    /\ req[r].pc = "serving" /\ save[r].pc = "none"
    /\ save' = [save EXCEPT ![r].pc = "started"]
    /\ UNCHANGED <<proc, shutdown, serving, gate, drainer, expired, req>>

(* Mutant: the last exit does not close the channel.                       *)
exitedSilently(q) == [q EXCEPT !.inflight = @ - 1]

exited(q) ==
    LET n == IF q.inflight > 0 THEN q.inflight - 1 ELSE q.inflight
    IN  [q EXCEPT !.inflight = n,
                  !.drained = IF n = 0 /\ q.draining /\ @ = "open" THEN "closed" ELSE @]

ExitRequest(r) ==
    /\ req[r].pc = "serving"
    /\ req' = [req EXCEPT ![r].pc = "done"]
    /\ gate' = [gate EXCEPT ![req[r].gw] = exited(@)]
    /\ UNCHANGED <<proc, shutdown, serving, drainer, expired, save>>

(* The auto-save goroutine uses the gateway that serves when it starts.    *)
SaveStart(r) ==
    /\ save[r].pc = "started"
    /\ save' = [save EXCEPT ![r] = [pc |-> "calling", gw |-> serving]]
    /\ UNCHANGED <<proc, shutdown, serving, gate, drainer, expired, req>>

SaveDone(r) ==
    /\ save[r].pc = "calling"
    /\ save' = [save EXCEPT ![r].pc = "done"]
    /\ UNCHANGED <<proc, shutdown, serving, gate, drainer, expired, req>>

-----------------------------------------------------------------------------
(* The event loop: reloadConfig.                                           *)

Build ==
    /\ proc = "run" /\ serving < MaxGateways
    /\ proc' = "building"
    /\ UNCHANGED <<shutdown, serving, gate, drainer, expired, req, save>>

(* Loading, validation or the continuity check refuses the configuration.  *)
ReloadRejected ==
    /\ proc = "building" /\ proc' = "run"
    /\ UNCHANGED <<shutdown, serving, gate, drainer, expired, req, save>>

(* The interceptor chain cannot be built: close without drain, and exit.   *)
ReloadFatal ==
    /\ proc = "building" /\ proc' = "over"
    /\ gate' = [gate EXCEPT ![serving].closed = TRUE]
    /\ UNCHANGED <<shutdown, serving, drainer, expired, req, save>>

StoreGateway ==
    /\ proc = "building" /\ proc' = "run"
    /\ serving' = serving + 1
    /\ drainer' = [drainer EXCEPT ![serving] = "saves"]
    /\ UNCHANGED <<shutdown, gate, expired, req, save>>

-----------------------------------------------------------------------------
(* The disposal goroutine: WaitAutoSave, then CloseWhenDrained.            *)

(* Mutant: the disposal does not wait for auto-saves.                      *)
WaitNoSave(g) ==
    /\ drainer[g] = "saves" /\ proc # "over"
    /\ drainer' = [drainer EXCEPT ![g] = "arm"]
    /\ UNCHANGED <<proc, shutdown, serving, gate, expired, req, save>>

WaitAutoSave(g) ==
    /\ drainer[g] = "saves" /\ proc # "over"
    /\ \/ Saves = {} /\ UNCHANGED expired
       \/ expired' = [expired EXCEPT ![g] = TRUE]
    /\ drainer' = [drainer EXCEPT ![g] = "arm"]
    /\ UNCHANGED <<proc, shutdown, serving, gate, req, save>>

arm(q) ==
    IF q.draining THEN q
    ELSE [q EXCEPT !.draining = TRUE,
                   !.drained = IF q.inflight > 0 THEN "open" ELSE "none"]

Arm(g) ==
    /\ drainer[g] = "arm" /\ proc # "over"
    /\ gate' = [gate EXCEPT ![g] = arm(@)]
    /\ drainer' = [drainer EXCEPT ![g] = IF arm(gate[g]).drained = "open" THEN "wait"
                                                                         ELSE "close"]
    /\ UNCHANGED <<proc, shutdown, serving, expired, req, save>>

Wait(g) ==
    /\ drainer[g] = "wait" /\ proc # "over"
    /\ \/ gate[g].drained = "closed" /\ UNCHANGED expired
       \/ expired' = [expired EXCEPT ![g] = TRUE]
    /\ drainer' = [drainer EXCEPT ![g] = "close"]
    /\ UNCHANGED <<proc, shutdown, serving, gate, req, save>>

Close(g) ==
    /\ drainer[g] = "close" /\ proc # "over"
    /\ gate' = [gate EXCEPT ![g].closed = TRUE]
    /\ drainer' = [drainer EXCEPT ![g] = "done"]
    /\ UNCHANGED <<proc, shutdown, serving, expired, req, save>>

-----------------------------------------------------------------------------
(* SIGTERM: refuse, drain HTTP, wait for auto-saves, shut the gateway down.*)

Stop ==
    /\ proc = "run" /\ proc' = "http"
    /\ shutdown' = TRUE
    /\ UNCHANGED <<serving, gate, drainer, expired, req, save>>

ShutdownHTTP ==
    /\ proc = "http" /\ proc' = "saves"
    /\ \/ Busy = {} /\ UNCHANGED expired
       \/ expired' = [expired EXCEPT ![serving] = TRUE]
    /\ UNCHANGED <<shutdown, serving, gate, drainer, req, save>>

(* Mutant: the disposal is never started.                                  *)
ShutdownSavesOnly ==
    /\ proc = "saves" /\ proc' = "gateway"
    /\ Saves = {}
    /\ UNCHANGED <<shutdown, serving, gate, drainer, expired, req, save>>

ShutdownSaves ==
    /\ proc = "saves" /\ proc' = "gateway"
    /\ \/ Saves = {} /\ UNCHANGED expired
       \/ expired' = [expired EXCEPT ![serving] = TRUE]
    /\ drainer' = [drainer EXCEPT ![serving] = "arm"]
    /\ UNCHANGED <<shutdown, serving, gate, req, save>>

(* The listener failed: the gateway is shut down at once, without refusing *)
(* requests on the open connections and without waiting for auto-saves.    *)
ServerFailed ==
    /\ proc = "run" /\ proc' = "failing"
    /\ drainer' = [drainer EXCEPT ![serving] = "arm"]
    /\ UNCHANGED <<shutdown, serving, gate, expired, req, save>>

ShutdownGateway ==
    /\ proc \in {"gateway", "failing"} /\ proc' = "over"
    /\ \/ drainer[serving] = "done" /\ UNCHANGED expired
       \/ expired' = [expired EXCEPT ![serving] = TRUE]
    /\ UNCHANGED <<shutdown, serving, gate, drainer, req, save>>

-----------------------------------------------------------------------------

Init ==
    /\ proc = "run" /\ shutdown = FALSE /\ serving = 1
    /\ gate = [g \in Gateways |-> openGate]
    /\ drainer = [g \in Gateways |-> "none"]
    /\ expired = [g \in Gateways |-> FALSE]
    /\ req = [r \in Requests |-> [pc |-> "idle", gw |-> 1]]
    /\ save = [r \in Requests |-> [pc |-> "none", gw |-> 1]]

Serve(r) ==
    /\ proc # "over"
    /\ \/ Load(r) \/ EnterRequest(r) \/ ExitRequest(r)
       \/ asyncMCPAutoSave(r) \/ SaveStart(r) \/ SaveDone(r)

Dispose(g) == WaitAutoSave(g) \/ Arm(g) \/ Wait(g) \/ Close(g)

Shutdown == ShutdownHTTP \/ ShutdownSaves \/ ShutdownGateway

Next ==
    \/ Build \/ ReloadRejected \/ ReloadFatal \/ StoreGateway
    \/ Stop \/ ServerFailed \/ Shutdown
    \/ \E g \in Gateways : Dispose(g)
    \/ \E r \in Requests : Serve(r)

Spec == Init /\ [][Next]_vars

(* Handlers return and auto-saves end (each is bounded by its own timeout),*)
(* the disposal goroutines and the shutdown sequence run.  No signal, no   *)
(* new request and no timeout is ever owed: progress may not rest on a     *)
(* bounded wait running out.                                               *)
Fairness ==
    /\ \A r \in Requests : WF_vars(proc # "over" /\ (EnterRequest(r) \/ ExitRequest(r)))
    /\ \A r \in Requests : WF_vars(proc # "over" /\ (SaveStart(r) \/ SaveDone(r)))
    /\ \A g \in Gateways : WF_vars(Dispose(g) /\ UNCHANGED expired)
    /\ WF_vars(Shutdown /\ UNCHANGED expired)

FairSpec == Spec /\ Fairness

-----------------------------------------------------------------------------
(* Properties.                                                             *)

(* Every variable keeps its type; in particular no exit drives a gate's    *)
(* counter below zero.                                                     *)
TypeOK ==
    /\ proc \in {"run", "building", "http", "saves", "gateway", "failing", "over"}
    /\ shutdown \in BOOLEAN
    /\ serving \in Gateways
    /\ gate \in [Gateways -> Gate]
    /\ drainer \in [Gateways -> {"none", "saves", "arm", "wait", "close", "done"}]
    /\ expired \in [Gateways -> BOOLEAN]
    /\ req \in [Requests -> [pc : {"idle", "loaded", "serving", "done", "refused", "stopping"},
                             gw : Gateways]]
    /\ save \in [Requests -> [pc : {"none", "started", "calling", "done"}, gw : Gateways]]

(* The gate counts exactly the requests that are being served from its     *)
(* gateway, through every admission, refusal and exit.                     *)
InflightExact == \A g \in Gateways : gate[g].inflight = Cardinality(Users(g))

(* Unless a bounded wait ran out or the process is over, no request and no *)
(* auto-save is using a gateway whose secure memory, MCP clients and       *)
(* caches have been torn down.  Only a failed listener does not wait for   *)
(* the auto-saves on the serving gateway.                                  *)
NoUseAfterClose ==
    \A g \in Gateways : gate[g].closed /\ ~expired[g] /\ proc # "over" =>
        /\ Users(g) = {}
        /\ g < serving \/ proc # "failing" =>
               \A r \in Requests : save[r] # [pc |-> "calling", gw |-> g]

(* A request is refused as "draining" only if a newer gateway had taken    *)
(* over by then or the process was stopping: swap first, dispose later.    *)
RefusedOnlyStale ==
    \A r \in Requests : req[r].pc = "refused" =>
        req[r].gw < serving \/ shutdown \/ proc \in {"failing", "over"}

(* What makes the above inductive.  The channel is closed only at zero,    *)
(* admission stops for good before the wait, and disposal of the serving   *)
(* gateway begins only in the last step of a shutdown.                     *)
GateProtocol ==
    \A g \in Gateways :
        /\ gate[g].draining <=> drainer[g] \in {"wait", "close", "done"}
        /\ gate[g].drained = "closed" => gate[g].draining /\ gate[g].inflight = 0
        /\ drainer[g] \in {"close", "done"} /\ ~expired[g] => gate[g].inflight = 0
        /\ gate[g].closed => drainer[g] = "done" \/ proc = "over"

DisposalOrder ==
    /\ \A g \in Gateways : g > serving => drainer[g] = "none"
    /\ drainer[serving] # "none" => proc \in {"gateway", "failing", "over"}
    /\ drainer[serving] # "saves"
    /\ proc = "building" => serving < MaxGateways
    /\ proc \in {"http", "saves", "gateway"} => shutdown
    /\ shutdown => proc \in {"http", "saves", "gateway", "over"}
    /\ \A r \in Requests : req[r].gw <= serving

SavesWaitedFor ==
    /\ \A g \in Gateways :
        g < serving /\ drainer[g] \notin {"none", "saves"} /\ ~expired[g] =>
            \A r \in Requests : save[r] # [pc |-> "calling", gw |-> g]
    /\ proc \in {"saves", "gateway"} /\ ~expired[serving] => Busy = {}
    /\ proc = "gateway" /\ ~expired[serving] => Saves = {}

IInv ==
    /\ TypeOK /\ InflightExact /\ GateProtocol /\ DisposalOrder /\ SavesWaitedFor
    /\ RefusedOnlyStale

(* A replaced gateway is closed, whether or not a wait runs out: the last  *)
(* exit's wake-up is never lost.                                           *)
Retires == \A g \in Gateways : (g < serving) ~> (gate[g].closed \/ proc = "over")

(* A stop signal or a failed listener ends the process.                    *)
Exits == (shutdown \/ proc = "failing") ~> (proc = "over")
=============================================================================
