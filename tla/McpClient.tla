------------------------------ MODULE McpClient ------------------------------
(***************************************************************************)
(* mcp.Client (internal/mcp/client.go): callers of CallTool over one       *)
(* session, the session's recovery, and Close.  A transport is a number;   *)
(* what it does inside is McpTransport's business: here it is new, live,   *)
(* dead (its stream was lost) or closed.  Whatever the client does under   *)
(* one lock, or by one atomic, is one step.                                *)
(*                                                                         *)
(* Callers come from requests.  A request offers a server's tools, and so  *)
(* gets to call them, only while the client is Ready                       *)
(* (serverInjectedTools, canPerformAutoSearch in internal/proxy/mcp).      *)
(***************************************************************************)
EXTENDS Integers, FiniteSets

CONSTANTS
    ToolCallers,
    MaxSessions      \* bound: transports built over the client's life

VARIABLES
    c,               \* client: current transport, initialized, closed, recoveryGen
    tr,              \* state of every transport
    lock,            \* holder of recoverMu, or "free"
    caller,          \* per caller: label, captured transport and generation, sends
    up,              \* the server answers
    closing          \* label of Close

clientVars == <<c, tr, lock, caller, up, closing>>

ASSUME ClientAssumption == "free" \notin ToolCallers /\ MaxSessions \in Nat \ {0}

Sessions == 1..MaxSessions

(* Initialize at start: the gateway connected and listed the tools.        *)
MCInit ==
    /\ c = [transport |-> 1, initialized |-> TRUE, closed |-> FALSE, recoveryGen |-> 0]
    /\ tr = [n \in Sessions |-> IF n = 1 THEN "live" ELSE "unused"]
    /\ lock = "free"
    /\ caller = [p \in ToolCallers |-> [at |-> "idle", tr |-> 0, gen |-> 0, sends |-> 0]]
    /\ up \in BOOLEAN
    /\ closing = "no"

At(p, label) == caller[p].at = label
Goto(p, label) == caller' = [caller EXCEPT ![p].at = label]

Ready == c.initialized /\ tr[c.transport] = "live"

(* The environment: the server loses its streams, or comes back.           *)
ServerDown ==
    /\ up' = FALSE /\ up
    /\ tr' = [n \in Sessions |-> IF tr[n] = "live" THEN "dead" ELSE tr[n]]
    /\ UNCHANGED <<c, lock, caller, closing>>
ServerUp == up' = TRUE /\ ~up /\ UNCHANGED <<c, tr, lock, caller, closing>>
StreamLost ==
    /\ tr[c.transport] = "live"
    /\ tr' = [tr EXCEPT ![c.transport] = "dead"]
    /\ UNCHANGED <<c, lock, caller, up, closing>>

(* A request offers the tools, and the model calls one.                    *)
Offered(p) ==
    /\ At(p, "idle") /\ Ready
    /\ caller' = [caller EXCEPT ![p] = [at |-> "check", tr |-> 0, gen |-> 0, sends |-> 0]]
    /\ UNCHANGED <<c, tr, lock, up, closing>>

(* CallTool: an uninitialized client is recovered first.                   *)
CallTool(p) ==
    /\ At(p, "check")
    /\ Goto(p, IF c.initialized THEN "capture" ELSE "recover")
    /\ UNCHANGED <<c, tr, lock, up, closing>>

(* currentTransport, read under the lock and used after it.                *)
Capture(p) ==
    /\ At(p, "capture")
    /\ caller' = [caller EXCEPT ![p] = [@ EXCEPT !.at = "sending", !.tr = c.transport, !.sends = caller[p].sends + 1]]
    /\ UNCHANGED <<c, tr, lock, up, closing>>

(* SendRequest fails on anything but a live transport, and may fail on one. *)
Sent(p) ==
    /\ At(p, "sending") /\ tr[caller[p].tr] = "live"
    /\ Goto(p, "idle")
    /\ UNCHANGED <<c, tr, lock, up, closing>>
SendFailed(p) ==
    /\ At(p, "sending")
    /\ Goto(p, IF caller[p].sends = 1 THEN "recover" ELSE "idle")
    /\ UNCHANGED <<c, tr, lock, up, closing>>

(* Recover: the generation is read before the lock is waited for.          *)
Recover(p) ==
    /\ At(p, "recover")
    /\ caller' = [caller EXCEPT ![p] = [@ EXCEPT !.at = "locking", !.gen = c.recoveryGen]]
    /\ UNCHANGED <<c, tr, lock, up, closing>>

(* Another caller recovered this generation.                               *)
recovered(p) == c.recoveryGen > caller[p].gen /\ Ready

RecoverLocked(p) ==
    /\ At(p, "locking") /\ lock = "free"
    /\ IF recovered(p) THEN Goto(p, "capture") /\ UNCHANGED lock
       ELSE Goto(p, "swap") /\ lock' = p
    /\ UNCHANGED <<c, tr, up, closing>>

(* reinitialize: the fresh transport is installed under the client's lock. *)
Swap(p) ==
    /\ At(p, "swap") /\ c.transport < MaxSessions
    /\ caller' = [caller EXCEPT ![p] = [@ EXCEPT !.at = "discard", !.tr = c.transport]]
    /\ c' = [c EXCEPT !.initialized = FALSE, !.transport = @ + 1]
    /\ tr' = [tr EXCEPT ![c.transport + 1] = "new"]
    /\ UNCHANGED <<lock, up, closing>>

Discard(p) ==
    /\ At(p, "discard")
    /\ tr' = [tr EXCEPT ![caller[p].tr] = "closed"]
    /\ caller' = [caller EXCEPT ![p] = [@ EXCEPT !.at = "connect", !.tr = c.transport]]
    /\ UNCHANGED <<c, lock, up, closing>>

(* A failed recovery unlocks and fails the call.                           *)
GiveUpCall(p) == Goto(p, "idle") /\ lock' = "free"

(* Initialize: Connect fails with the server, or on a closed transport.    *)
Connect(p) ==
    /\ At(p, "connect")
    /\ \/ /\ up /\ tr[caller[p].tr] = "new"
          /\ tr' = [tr EXCEPT ![caller[p].tr] = "live"]
          /\ Goto(p, "handshake") /\ UNCHANGED lock
       \/ GiveUpCall(p) /\ UNCHANGED tr
    /\ UNCHANGED <<c, up, closing>>

(* The initialize request fails: the transport is closed.                  *)
HandshakeFailed(p) ==
    /\ At(p, "handshake")
    /\ tr' = [tr EXCEPT ![caller[p].tr] = "closed"]
    /\ GiveUpCall(p)
    /\ UNCHANGED <<c, up, closing>>

(* Mutant: the tail of the handshake does not look at the closed gate.     *)
recoveryGateOpen == TRUE

(* The gate Close sets under the same lock.                                *)
recoveryGate == ~c.closed

Handshake(p) ==
    /\ At(p, "handshake") /\ tr[caller[p].tr] = "live"
    /\ IF recoveryGate THEN c' = [c EXCEPT !.initialized = TRUE] /\ Goto(p, "counting") /\ UNCHANGED <<tr, lock>>
       ELSE tr' = [tr EXCEPT ![caller[p].tr] = "closed"] /\ GiveUpCall(p) /\ UNCHANGED c
    /\ UNCHANGED <<up, closing>>

(* The tail of Recover.                                                    *)
CountRecovery(p) ==
    /\ At(p, "counting")
    /\ c' = [c EXCEPT !.recoveryGen = @ + 1]
    /\ Goto(p, "capture") /\ lock' = "free"
    /\ UNCHANGED <<tr, up, closing>>

(* Close: the gate, the flag and the transport in three steps.             *)
CloseClient ==
    \/ /\ closing = "no" /\ closing' = "gated"
       /\ c' = [c EXCEPT !.closed = TRUE] /\ UNCHANGED tr
    \/ /\ closing = "gated" /\ closing' = "flagged"
       /\ c' = [c EXCEPT !.initialized = FALSE] /\ UNCHANGED tr
    \/ /\ closing = "flagged" /\ closing' = "yes"
       /\ tr' = [tr EXCEPT ![c.transport] = "closed"] /\ UNCHANGED c

CloseStep == CloseClient /\ UNCHANGED <<lock, caller, up>>

CallStep(p) ==
    \/ CallTool(p) \/ Capture(p) \/ Sent(p) \/ SendFailed(p) \/ Recover(p) \/ RecoverLocked(p)
    \/ Swap(p) \/ Discard(p) \/ Connect(p) \/ HandshakeFailed(p) \/ Handshake(p) \/ CountRecovery(p)

MCNext ==
    \/ \E p \in ToolCallers : Offered(p) \/ CallStep(p)
    \/ CloseStep \/ ServerDown \/ ServerUp \/ StreamLost

MCSpec == MCInit /\ [][MCNext]_clientVars

(* Requests keep coming and calls end: every send has a timeout.           *)
MCFairSpec ==
    MCSpec /\ \A p \in ToolCallers : WF_clientVars(Offered(p)) /\ WF_clientVars(CallStep(p))

-----------------------------------------------------------------------------
(* Once Close and the handshakes it overtook are over, no session is open: *)
(* a recovery in flight cannot resurrect a closed client; and at no time   *)
(* does a replaced session outlive the recovery that replaced it           *)
(* (reinitialize, Initialize, Close).                                      *)
NoSessionLeft ==
    lock = "free" =>
        /\ \A n \in Sessions : tr[n] = "live" => n = c.transport
        /\ closing = "yes" => ~c.initialized /\ \A n \in Sessions : tr[n] # "live"

(* What docs/CONFIGURATION.md says of a lost session: requests bring it    *)
(* back.  While the server answers and the gateway runs, the client is     *)
(* Ready again.                                                            *)
RecoversAtRequestTime ==
    <>[](up /\ closing = "no" /\ c.transport < MaxSessions) => []<>Ready
=============================================================================
