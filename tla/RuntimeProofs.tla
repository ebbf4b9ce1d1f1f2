---------------------------- MODULE RuntimeProofs ----------------------------
(***************************************************************************)
(* Proofs about the goroutines around a request: the gateway's life cycle, *)
(* the stall reader, the concurrency limiter and the MCP client, the four  *)
(* components of MCRuntime that share no state, one section each.          *)
(***************************************************************************)
EXTENDS GatewayReload, StallReader, ConcurrencyLimiter, McpClient,
        FiniteSetTheorems, SequenceTheorems, TLAPS

-----------------------------------------------------------------------------
(***************************************************************************)
(* Proofs about GatewayReload, for any number of requests and gateways and *)
(* with or without timeouts: the drain gate's count is exact, a request is *)
(* only refused by a gateway that was replaced, and nothing is used after  *)
(* it was closed.                                                          *)
(***************************************************************************)

(* A gateway's users are finitely many and are counted in Nat.             *)
LEMMA UsersFinite ==
    \A g : IsFiniteSet(Users(g)) /\ Cardinality(Users(g)) \in Nat
  <1> TAKE g
  <1>1. Users(g) \subseteq Requests
    BY DEF Users
  <1>2. IsFiniteSet(Users(g))
    BY <1>1, ReloadAssumption, FS_Subset
  <1> QED
    BY <1>2, FS_CardinalityType

(* One more or one fewer user changes the count by one.                    *)
LEMMA CountAdd ==
    ASSUME NEW S, IsFiniteSet(S), NEW x, x \notin S
    PROVE  Cardinality(S \cup {x}) = Cardinality(S) + 1
  BY FS_AddElement

(* Removing a member lowers a count by one.                                *)
LEMMA CountRemove ==
    ASSUME NEW S, IsFiniteSet(S), NEW x \in S
    PROVE  Cardinality(S \ {x}) = Cardinality(S) - 1
  BY FS_RemoveElement

(* Empty sets of users are counted as zero and only they are.              *)
LEMMA CountZero ==
    ASSUME NEW S, IsFiniteSet(S), Cardinality(S) = 0
    PROVE  S = {}
  BY FS_EmptySet

-----------------------------------------------------------------------------
(* The initial states.                                                     *)

(* The invariant holds at the start.                                       *)
LEMMA GatewayInitInv == Init => IInv
  <1> SUFFICES ASSUME Init PROVE IInv
    OBVIOUS
  <1>0. 1 \in Gateways /\ openGate \in Gate
    BY ReloadAssumption DEF Gateways, Gate, openGate
  <1>1. TypeOK
    BY <1>0 DEF Init, TypeOK
  <1>2. \A g \in Gateways : Users(g) = {}
    BY DEF Init, Users
  <1>3. InflightExact
    BY <1>2, FS_EmptySet DEF Init, InflightExact, openGate
  <1>4. GateProtocol
    BY DEF Init, GateProtocol, openGate
  <1>5. DisposalOrder
    BY ReloadAssumption DEF Init, DisposalOrder, Gateways
  <1>6. SavesWaitedFor
    BY DEF Init, SavesWaitedFor
  <1>7. RefusedOnlyStale
    BY DEF Init, RefusedOnlyStale
  <1> QED
    BY <1>1, <1>3, <1>4, <1>5, <1>6, <1>7 DEF IInv

-----------------------------------------------------------------------------
(* Requests.                                                               *)

(* A request is admitted: it and the gate's counter change together.       *)
LEMMA EnterInv ==
    ASSUME IInv, proc # "over", NEW r \in Requests, EnterRequest(r)
    PROVE  IInv'
  <1> DEFINE g == req[r].gw
  <1> USE DEF IInv
  <1>0. /\ g \in Gateways /\ gate[g] \in Gate /\ req[r].pc = "loaded"
        /\ req[r] = [pc |-> "loaded", gw |-> g]
    BY DEF EnterRequest, TypeOK
  <1>1. CASE gate[g].draining
    <2>1. /\ req' = [req EXCEPT ![r].pc = "refused"]
          /\ UNCHANGED <<proc, shutdown, serving, gate, drainer, expired, save>>
      BY <1>1 DEF EnterRequest
    <2>2. \A h : Users(h)' = Users(h)
      BY <2>1, <1>0 DEF Users, TypeOK
    <2>3. TypeOK'
      BY <2>1, <1>0 DEF TypeOK
    <2>4. InflightExact'
      BY <2>1, <2>2 DEF InflightExact
    <2>5. GateProtocol'
      BY <2>1 DEF GateProtocol
    <2>6. DisposalOrder'
      BY <2>1, <1>0 DEF DisposalOrder, TypeOK
    <2>7. SavesWaitedFor'
      <3>1. Busy' \subseteq Busy
        BY <2>1, <1>0 DEF Busy, TypeOK
      <3>2. Saves' = Saves
        BY <2>1 DEF Saves
      <3> QED
        BY <2>1, <3>1, <3>2 DEF SavesWaitedFor
    <2>8. g < serving \/ shutdown \/ proc = "failing"
      <3>1. drainer[g] \in {"wait", "close", "done"}
        BY <1>1, <1>0 DEF GateProtocol
      <3>2. g <= serving /\ g \in Int /\ serving \in Int
        BY <1>0, ReloadAssumption DEF DisposalOrder, TypeOK, Gateways
      <3> QED
        BY <3>1, <3>2 DEF DisposalOrder
    <2>9. RefusedOnlyStale'
      BY <2>1, <2>8, <1>0 DEF RefusedOnlyStale, TypeOK
    <2> QED
      BY <2>3, <2>4, <2>5, <2>6, <2>7, <2>9
  <1>2. CASE ~gate[g].draining
    <2>1. /\ req' = [req EXCEPT ![r].pc = "serving"]
          /\ gate' = [gate EXCEPT ![g] = [gate[g] EXCEPT !.inflight = gate[g].inflight + 1]]
          /\ UNCHANGED <<proc, shutdown, serving, drainer, expired, save>>
      BY <1>2 DEF EnterRequest, counted
    <2>2. r \notin Users(g) /\ Users(g)' = Users(g) \cup {r}
      BY <2>1, <1>0 DEF Users, TypeOK
    <2>3. \A h : h # g => Users(h)' = Users(h)
      BY <2>1, <1>0 DEF Users, TypeOK
    <2>4. TypeOK'
      <3>1. [gate[g] EXCEPT !.inflight = gate[g].inflight + 1] \in Gate
        BY <1>0 DEF Gate
      <3> QED
        BY <2>1, <1>0, <3>1 DEF TypeOK
    <2>5. InflightExact'
      <3>1. Cardinality(Users(g)') = Cardinality(Users(g)) + 1
        BY <2>2, UsersFinite, CountAdd
      <3> QED
        BY <2>1, <2>3, <3>1, <1>0 DEF InflightExact, TypeOK, Gate
    <2>6. GateProtocol'
      BY <2>1, <1>0, <1>2 DEF GateProtocol, TypeOK, Gate
    <2>7. DisposalOrder'
      BY <2>1, <1>0 DEF DisposalOrder, TypeOK
    <2>8. SavesWaitedFor'
      <3>1. Busy' = Busy
        BY <2>1, <1>0 DEF Busy, TypeOK
      <3>2. Saves' = Saves
        BY <2>1 DEF Saves
      <3> QED
        BY <2>1, <3>1, <3>2 DEF SavesWaitedFor
    <2>9. RefusedOnlyStale'
      BY <2>1, <1>0 DEF RefusedOnlyStale, TypeOK
    <2> QED
      BY <2>4, <2>5, <2>6, <2>7, <2>8, <2>9
  <1> QED
    BY <1>1, <1>2

(* A request leaves: a user held it, so the count was positive.            *)
LEMMA ExitInv ==
    ASSUME IInv, NEW r \in Requests, ExitRequest(r)
    PROVE  IInv'
  <1> DEFINE g == req[r].gw
             n == gate[g].inflight - 1
  <1> USE DEF IInv
  <1>0. /\ g \in Gateways /\ gate[g] \in Gate /\ req[r].pc = "serving"
        /\ req[r] = [pc |-> "serving", gw |-> g]
    BY DEF ExitRequest, TypeOK
  <1>1. r \in Users(g)
    BY <1>0 DEF Users
  <1>2. gate[g].inflight # 0
    BY <1>0, <1>1, UsersFinite, CountZero DEF InflightExact
  <1>3. n \in Nat
    BY <1>0, <1>2 DEF Gate
  <1>4. /\ req' = [req EXCEPT ![r].pc = "done"]
        /\ gate' = [gate EXCEPT ![g] = [gate[g] EXCEPT !.inflight = n,
                       !.drained = IF n = 0 /\ gate[g].draining /\ gate[g].drained = "open"
                                   THEN "closed" ELSE gate[g].drained]]
        /\ UNCHANGED <<proc, shutdown, serving, drainer, expired, save>>
    <2>1. gate[g].inflight > 0
      BY <1>0, <1>2 DEF Gate
    <2>2. exited(gate[g]) =
              [gate[g] EXCEPT !.inflight = n,
                  !.drained = IF n = 0 /\ gate[g].draining /\ gate[g].drained = "open"
                              THEN "closed" ELSE gate[g].drained]
      BY <2>1 DEF exited
    <2> QED
      BY <2>2 DEF ExitRequest
  <1>5. Users(g)' = Users(g) \ {r}
    BY <1>4, <1>0 DEF Users, TypeOK
  <1>6. \A h : h # g => Users(h)' = Users(h)
    BY <1>4, <1>0 DEF Users, TypeOK
  <1>7. TypeOK'
    BY <1>4, <1>0, <1>3 DEF TypeOK, Gate
  <1>8. InflightExact'
    <2>1. Cardinality(Users(g)') = Cardinality(Users(g)) - 1
      BY <1>5, <1>1, UsersFinite, CountRemove
    <2> QED
      BY <1>4, <1>6, <2>1, <1>0 DEF InflightExact, TypeOK, Gate
  <1>9. GateProtocol'
    BY <1>4, <1>0, <1>2, <1>3 DEF GateProtocol, TypeOK, Gate
  <1>10. DisposalOrder'
    BY <1>4, <1>0 DEF DisposalOrder, TypeOK
  <1>11. SavesWaitedFor'
    <2>1. Busy' \subseteq Busy
      BY <1>4, <1>0 DEF Busy, TypeOK
    <2>2. Saves' = Saves
      BY <1>4 DEF Saves
    <2> QED
      BY <1>4, <2>1, <2>2 DEF SavesWaitedFor
  <1>12. RefusedOnlyStale'
    BY <1>4, <1>0 DEF RefusedOnlyStale, TypeOK
  <1> QED
    BY <1>7, <1>8, <1>9, <1>10, <1>11, <1>12

(* A request loads the serving gateway; during a shutdown it is turned     *)
(* away, so nobody becomes busy.                                           *)
LEMMA LoadInv ==
    ASSUME IInv, NEW r \in Requests, Load(r)
    PROVE  IInv'
  <1> USE DEF IInv
  <1>1. /\ req[r].pc = "idle" /\ req[r].gw \in Gateways
        /\ serving \in Gateways
        /\ UNCHANGED <<proc, shutdown, serving, gate, drainer, expired, save>>
    BY DEF Load, TypeOK
  <1>2. PICK p \in {"loaded", "stopping"} :
            /\ req' = [req EXCEPT ![r] = [pc |-> p, gw |-> serving]]
            /\ shutdown => p = "stopping"
    BY DEF Load
  <1>3. \A g : Users(g)' = Users(g)
    BY <1>1, <1>2 DEF Users, TypeOK
  <1>4. TypeOK'
    BY <1>1, <1>2 DEF TypeOK
  <1>5. InflightExact'
    BY <1>1, <1>3 DEF InflightExact
  <1>6. GateProtocol'
    BY <1>1 DEF GateProtocol
  <1>7. DisposalOrder'
    BY <1>1, <1>2 DEF DisposalOrder, TypeOK, Gateways
  <1>8. SavesWaitedFor'
    <2>1. shutdown => Busy' = Busy
      BY <1>1, <1>2 DEF Busy, TypeOK
    <2>2. Saves' = Saves
      BY <1>1 DEF Saves
    <2> QED
      BY <1>1, <2>1, <2>2 DEF SavesWaitedFor, DisposalOrder
  <1>9. RefusedOnlyStale'
    BY <1>1, <1>2 DEF RefusedOnlyStale, TypeOK
  <1> QED
    BY <1>4, <1>5, <1>6, <1>7, <1>8, <1>9

(* Auto-saves: one is started by a busy request and binds to the serving   *)
(* gateway, so a gateway that has been waited for gets no new one.         *)
LEMMA SaveInv ==
    ASSUME IInv, NEW r \in Requests,
           asyncMCPAutoSave(r) \/ SaveStart(r) \/ SaveDone(r)
    PROVE  IInv'
  <1> USE DEF IInv
  <1>1. UNCHANGED <<proc, shutdown, serving, gate, drainer, expired, req>>
    BY DEF asyncMCPAutoSave, SaveStart, SaveDone
  <1>2. TypeOK'
    <2>1. serving \in Gateways /\ save[r] \in [pc : {"none", "started", "calling", "done"}, gw : Gateways]
      BY DEF TypeOK
    <2>2. PICK s \in [pc : {"none", "started", "calling", "done"}, gw : Gateways] :
              save' = [save EXCEPT ![r] = s]
      <3>1. CASE asyncMCPAutoSave(r)
        BY <2>1, <3>1 DEF asyncMCPAutoSave
      <3>2. CASE SaveStart(r)
        BY <2>1, <3>2 DEF SaveStart
      <3>3. CASE SaveDone(r)
        BY <2>1, <3>3 DEF SaveDone
      <3> QED
        BY <3>1, <3>2, <3>3
    <2> QED
      BY <1>1, <2>2 DEF TypeOK
  <1>3. \A g : Users(g)' = Users(g)
    BY <1>1 DEF Users
  <1>4. InflightExact' /\ GateProtocol' /\ DisposalOrder' /\ RefusedOnlyStale'
    BY <1>1, <1>3 DEF InflightExact, GateProtocol, DisposalOrder, RefusedOnlyStale
  <1>5. Busy' = Busy
    BY <1>1 DEF Busy
  <1>6. CASE asyncMCPAutoSave(r)
    <2>1. r \in Busy
      BY <1>6 DEF asyncMCPAutoSave, Busy
    <2>2. \A g \in Gateways, q \in Requests :
              save'[q] = [pc |-> "calling", gw |-> g] => save[q] = save'[q]
      BY <1>6 DEF asyncMCPAutoSave, TypeOK
    <2> QED
      BY <1>1, <1>2, <1>4, <1>5, <2>1, <2>2 DEF SavesWaitedFor
  <1>7. CASE SaveStart(r)
    <2>1. r \in Saves
      BY <1>7 DEF SaveStart, Saves
    <2>2. \A g \in Gateways, q \in Requests :
              save'[q] = [pc |-> "calling", gw |-> g] => save[q] = save'[q] \/ g = serving
      BY <1>7 DEF SaveStart, TypeOK
    <2> QED
      BY <1>1, <1>2, <1>4, <1>5, <2>1, <2>2 DEF SavesWaitedFor, TypeOK, Gateways
  <1>8. CASE SaveDone(r)
    <2>1. Saves' \subseteq Saves
      BY <1>8 DEF SaveDone, Saves, TypeOK
    <2>2. \A g \in Gateways, q \in Requests :
              save'[q] = [pc |-> "calling", gw |-> g] => save[q] = save'[q]
      BY <1>8 DEF SaveDone, TypeOK
    <2> QED
      BY <1>1, <1>2, <1>4, <1>5, <2>1, <2>2 DEF SavesWaitedFor
  <1> QED
    BY <1>6, <1>7, <1>8

-----------------------------------------------------------------------------
(* The event loop.                                                         *)

(* Steps that touch neither requests nor auto-saves.                       *)
LEMMA Frame ==
    ASSUME UNCHANGED <<req, save>>
    PROVE  /\ \A g : Users(g)' = Users(g)
           /\ Busy' = Busy /\ Saves' = Saves
  BY DEF Users, Busy, Saves

(* Reload keeps the invariant.                                             *)
LEMMA ReloadInv ==
    ASSUME IInv, Build \/ ReloadRejected \/ ReloadFatal \/ StoreGateway
    PROVE  IInv'
  <1> USE DEF IInv
  <1>1. UNCHANGED <<shutdown, expired, req, save>>
    BY DEF Build, ReloadRejected, ReloadFatal, StoreGateway
  <1>2. /\ \A g : Users(g)' = Users(g)
        /\ Busy' = Busy /\ Saves' = Saves
    BY <1>1, Frame
  <1>3. CASE Build \/ ReloadRejected
    <2>1. /\ proc \in {"run", "building"} /\ proc' \in {"run", "building"}
          /\ UNCHANGED <<serving, gate, drainer>>
      BY <1>3 DEF Build, ReloadRejected
    <2>2. TypeOK' /\ GateProtocol'
      BY <1>1, <2>1 DEF TypeOK, GateProtocol
    <2>3. InflightExact'
      BY <1>2, <2>1 DEF InflightExact
    <2>4. proc' = "building" => serving < MaxGateways
      BY <1>3 DEF Build, ReloadRejected
    <2>5. DisposalOrder'
      BY <1>1, <2>1, <2>4 DEF DisposalOrder
    <2>6. SavesWaitedFor' /\ RefusedOnlyStale'
      BY <1>1, <1>2, <2>1 DEF SavesWaitedFor, RefusedOnlyStale
    <2> QED
      BY <2>2, <2>3, <2>5, <2>6
  <1>4. CASE ReloadFatal
    <2>1. /\ proc = "building" /\ proc' = "over" /\ serving \in Gateways
          /\ gate' = [gate EXCEPT ![serving] = [gate[serving] EXCEPT !.closed = TRUE]]
          /\ UNCHANGED <<serving, drainer>>
      BY <1>4 DEF ReloadFatal, TypeOK
    <2>2. TypeOK'
      <3>1. gate[serving] \in Gate
        BY <2>1 DEF TypeOK
      <3>2. [gate[serving] EXCEPT !.closed = TRUE] \in Gate
        BY <3>1 DEF Gate
      <3> QED
        BY <1>1, <2>1, <3>2 DEF TypeOK
    <2>3. InflightExact'
      BY <1>2, <2>1 DEF InflightExact, TypeOK, Gate
    <2>4. GateProtocol'
      BY <1>1, <2>1 DEF GateProtocol, TypeOK, Gate
    <2>5. DisposalOrder' /\ SavesWaitedFor' /\ RefusedOnlyStale'
      BY <1>1, <1>2, <2>1 DEF DisposalOrder, SavesWaitedFor, RefusedOnlyStale
    <2> QED
      BY <2>2, <2>3, <2>4, <2>5
  <1>5. CASE StoreGateway
    <2>1. /\ proc = "building" /\ proc' = "run" /\ serving' = serving + 1
          /\ drainer' = [drainer EXCEPT ![serving] = "saves"]
          /\ UNCHANGED gate
          /\ serving \in Gateways /\ ~shutdown /\ serving < MaxGateways
          /\ drainer[serving] = "none"
      BY <1>5 DEF StoreGateway, TypeOK, DisposalOrder
    <2>2. serving \in Int /\ serving + 1 \in Gateways /\ Gateways \subseteq Int
      BY <2>1, ReloadAssumption DEF Gateways
    <2>3. TypeOK'
      BY <1>1, <2>1, <2>2 DEF TypeOK
    <2>4. InflightExact'
      BY <1>2, <2>1 DEF InflightExact
    <2>5. GateProtocol'
      BY <1>1, <2>1 DEF GateProtocol, TypeOK
    <2>6. DisposalOrder'
      <3>1. \A h \in Gateways : h > serving + 1 => drainer'[h] = "none"
        BY <2>1, <2>2 DEF DisposalOrder, TypeOK
      <3>2. drainer'[serving + 1] = "none"
        BY <2>1, <2>2 DEF DisposalOrder, TypeOK
      <3>3. \A r \in Requests : req[r].gw <= serving + 1
        <4>1. \A r \in Requests : req[r].gw \in Int /\ req[r].gw <= serving
          BY <2>2 DEF DisposalOrder, TypeOK
        <4> QED
          BY <2>2, <4>1
      <3> QED
        BY <1>1, <2>1, <3>1, <3>2, <3>3 DEF DisposalOrder
    <2>7. SavesWaitedFor'
      <3>1. ASSUME NEW h \in Gateways, h < serving + 1, drainer'[h] \notin {"none", "saves"}
            PROVE  h < serving /\ drainer[h] = drainer'[h]
        BY <3>1, <2>1, <2>2 DEF TypeOK
      <3> QED
        BY <1>1, <1>2, <2>1, <3>1 DEF SavesWaitedFor
    <2>8. RefusedOnlyStale'
      <3>1. \A r \in Requests : req[r].gw \in Int
        BY <2>2 DEF TypeOK
      <3> QED
        BY <1>1, <2>1, <2>2, <3>1 DEF RefusedOnlyStale
    <2> QED
      BY <2>3, <2>4, <2>5, <2>6, <2>7, <2>8
  <1> QED
    BY <1>3, <1>4, <1>5

-----------------------------------------------------------------------------
(* The disposal goroutine of a gateway.                                    *)

(* Dispose keeps the invariant.                                            *)
LEMMA DisposeInv ==
    ASSUME IInv, NEW g \in Gateways, Dispose(g)
    PROVE  IInv'
  <1> USE DEF IInv
  <1>1. UNCHANGED <<proc, shutdown, serving, req, save>> /\ gate[g] \in Gate
    BY DEF Dispose, WaitAutoSave, Arm, Wait, Close, TypeOK
  <1>2. /\ \A h : Users(h)' = Users(h)
        /\ Busy' = Busy /\ Saves' = Saves
    BY <1>1, Frame
  <1>3. RefusedOnlyStale'
    BY <1>1 DEF RefusedOnlyStale
  <1>4. Gateways \subseteq Int /\ serving \in Gateways
    BY ReloadAssumption DEF Gateways, TypeOK
  <1>5. CASE WaitAutoSave(g)
    <2>1. PICK b \in BOOLEAN :
              /\ drainer[g] = "saves" /\ drainer' = [drainer EXCEPT ![g] = "arm"]
              /\ expired' = [expired EXCEPT ![g] = b]
              /\ UNCHANGED gate
              /\ b \/ Saves = {}
              /\ expired[g] => b
      <3>1. expired = [expired EXCEPT ![g] = expired[g]] /\ expired[g] \in BOOLEAN
        BY DEF TypeOK
      <3>2. CASE Saves = {} /\ UNCHANGED expired
        BY <1>5, <3>1, <3>2 DEF WaitAutoSave
      <3>3. CASE expired' = [expired EXCEPT ![g] = TRUE]
        BY <1>5, <3>3 DEF WaitAutoSave
      <3> QED
        BY <1>5, <3>2, <3>3 DEF WaitAutoSave
    <2>2. g < serving
      BY <2>1, <1>4 DEF DisposalOrder
    <2>3. TypeOK'
      BY <1>1, <2>1 DEF TypeOK
    <2>4. InflightExact'
      BY <1>2, <2>1 DEF InflightExact
    <2>5. GateProtocol'
      BY <1>1, <2>1 DEF GateProtocol, TypeOK
    <2>6. DisposalOrder'
      BY <1>1, <1>4, <2>1, <2>2 DEF DisposalOrder, TypeOK
    <2>7. SavesWaitedFor'
      <3>1. ~b => \A r \in Requests : save[r] # [pc |-> "calling", gw |-> g]
        BY <2>1 DEF Saves
      <3>2. expired'[serving] = expired[serving]
        BY <2>1, <2>2, <1>4 DEF TypeOK
      <3>3. \A h \in Gateways : h # g => drainer'[h] = drainer[h] /\ expired'[h] = expired[h]
        BY <2>1 DEF TypeOK
      <3>4. expired'[g] = b
        BY <2>1 DEF TypeOK
      <3> QED
        BY <1>1, <1>2, <3>1, <3>2, <3>3, <3>4 DEF SavesWaitedFor
    <2> QED
      BY <1>3, <2>3, <2>4, <2>5, <2>6, <2>7
  <1>6. CASE Arm(g)
    <2>0. drainer[g] = "arm" /\ ~gate[g].draining /\ gate[g].drained # "closed"
      BY <1>6 DEF Arm, GateProtocol
    <2>1. PICK d \in {"wait", "close"} :
              /\ drainer' = [drainer EXCEPT ![g] = d]
              /\ gate' = [gate EXCEPT ![g] = [gate[g] EXCEPT !.draining = TRUE,
                             !.drained = IF gate[g].inflight > 0 THEN "open" ELSE "none"]]
              /\ UNCHANGED expired
              /\ d = "close" => ~(gate[g].inflight > 0)
      BY <1>1, <1>6, <2>0 DEF Arm, arm, Gate
    <2>2. gate[g].inflight \in Nat
      BY <1>1 DEF Gate
    <2>3. TypeOK'
      BY <1>1, <2>1 DEF TypeOK, Gate
    <2>4. InflightExact'
      BY <1>2, <2>1 DEF InflightExact, TypeOK, Gate
    <2>5. GateProtocol'
      BY <1>1, <2>0, <2>1, <2>2 DEF GateProtocol, TypeOK, Gate
    <2>6. DisposalOrder'
      BY <1>1, <1>4, <2>0, <2>1 DEF DisposalOrder, TypeOK
    <2>7. SavesWaitedFor'
      BY <1>1, <1>2, <2>0, <2>1 DEF SavesWaitedFor, TypeOK
    <2> QED
      BY <1>3, <2>3, <2>4, <2>5, <2>6, <2>7
  <1>7. CASE Wait(g)
    <2>1. PICK b \in BOOLEAN :
              /\ drainer[g] = "wait" /\ drainer' = [drainer EXCEPT ![g] = "close"]
              /\ expired' = [expired EXCEPT ![g] = b]
              /\ UNCHANGED gate
              /\ b \/ gate[g].drained = "closed"
              /\ expired[g] => b
      <3>1. expired = [expired EXCEPT ![g] = expired[g]] /\ expired[g] \in BOOLEAN
        BY DEF TypeOK
      <3>2. CASE gate[g].drained = "closed" /\ UNCHANGED expired
        BY <1>7, <3>1, <3>2 DEF Wait
      <3>3. CASE expired' = [expired EXCEPT ![g] = TRUE]
        BY <1>7, <3>3 DEF Wait
      <3> QED
        BY <1>7, <3>2, <3>3 DEF Wait
    <2>2. TypeOK'
      BY <1>1, <2>1 DEF TypeOK
    <2>3. InflightExact'
      BY <1>2, <2>1 DEF InflightExact
    <2>4. GateProtocol'
      BY <1>1, <2>1 DEF GateProtocol, TypeOK
    <2>5. DisposalOrder'
      BY <1>1, <1>4, <2>1 DEF DisposalOrder, TypeOK
    <2>6. SavesWaitedFor'
      <3>1. \A h \in Gateways : ~expired'[h] => ~expired[h]
        BY <2>1 DEF TypeOK
      <3>2. \A h \in Gateways : drainer'[h] \in {"none", "saves"} <=> drainer[h] \in {"none", "saves"}
        BY <2>1 DEF TypeOK
      <3> QED
        BY <1>1, <1>2, <1>4, <3>1, <3>2 DEF SavesWaitedFor
    <2> QED
      BY <1>3, <2>2, <2>3, <2>4, <2>5, <2>6
  <1>8. CASE Close(g)
    <2>1. /\ drainer[g] = "close" /\ drainer' = [drainer EXCEPT ![g] = "done"]
          /\ gate' = [gate EXCEPT ![g] = [gate[g] EXCEPT !.closed = TRUE]]
          /\ UNCHANGED expired
      BY <1>8 DEF Close
    <2>2. TypeOK'
      BY <1>1, <2>1 DEF TypeOK, Gate
    <2>3. InflightExact'
      BY <1>2, <2>1 DEF InflightExact, TypeOK, Gate
    <2>4. GateProtocol'
      BY <1>1, <2>1 DEF GateProtocol, TypeOK, Gate
    <2>5. DisposalOrder'
      BY <1>1, <1>4, <2>1 DEF DisposalOrder, TypeOK
    <2>6. SavesWaitedFor'
      BY <1>1, <1>2, <2>1 DEF SavesWaitedFor, TypeOK
    <2> QED
      BY <1>3, <2>2, <2>3, <2>4, <2>5, <2>6
  <1> QED
    BY <1>5, <1>6, <1>7, <1>8 DEF Dispose

-----------------------------------------------------------------------------
(* Shutdown: nobody is busy when auto-saves are waited for, and none is    *)
(* left when the serving gateway is disposed of.                           *)

(* Shutdown keeps the invariant.                                           *)
LEMMA ShutdownInv ==
    ASSUME IInv, Stop \/ ServerFailed \/ Shutdown
    PROVE  IInv'
  <1> USE DEF IInv
  <1>1. UNCHANGED <<serving, gate, req, save>>
    BY DEF Stop, ServerFailed, Shutdown, ShutdownHTTP, ShutdownSaves, ShutdownGateway
  <1>2. /\ \A h : Users(h)' = Users(h)
        /\ Busy' = Busy /\ Saves' = Saves
    BY <1>1, Frame
  <1>3. InflightExact'
    BY <1>1, <1>2 DEF InflightExact
  <1>4. serving \in Gateways /\ Gateways \subseteq Int
    BY ReloadAssumption DEF Gateways, TypeOK
  <1>5. CASE Stop
    <2>1. /\ proc = "run" /\ proc' = "http" /\ shutdown' = TRUE
          /\ UNCHANGED <<drainer, expired>>
      BY <1>5 DEF Stop
    <2>2. TypeOK' /\ GateProtocol'
      BY <1>1, <2>1 DEF TypeOK, GateProtocol
    <2>3. DisposalOrder' /\ SavesWaitedFor' /\ RefusedOnlyStale'
      BY <1>1, <1>2, <2>1 DEF DisposalOrder, SavesWaitedFor, RefusedOnlyStale
    <2> QED
      BY <1>3, <2>2, <2>3
  <1>6. CASE ShutdownHTTP \/ ShutdownSaves
    <2>1. PICK b \in BOOLEAN :
              /\ expired' = [expired EXCEPT ![serving] = b]
              /\ expired[serving] => b
              /\ proc = "http" => b \/ Busy = {}
              /\ proc = "saves" => b \/ Saves = {}
      <3>1. expired = [expired EXCEPT ![serving] = expired[serving]] /\ expired[serving] \in BOOLEAN
        BY <1>4 DEF TypeOK
      <3>2. CASE expired' = expired
        <4>1. \/ (proc = "http" => Busy = {}) /\ (proc = "saves" => Saves = {})
              \/ expired[serving]
          BY <1>6, <1>4, <3>2 DEF ShutdownHTTP, ShutdownSaves, TypeOK
        <4> QED
          BY <3>1, <3>2, <4>1
      <3>3. CASE expired' = [expired EXCEPT ![serving] = TRUE]
        BY <3>3
      <3> QED
        BY <1>6, <3>2, <3>3 DEF ShutdownHTTP, ShutdownSaves
    <2>2. /\ UNCHANGED shutdown /\ shutdown
          /\ drainer[serving] = "none"
          /\ \/ proc = "http" /\ proc' = "saves" /\ UNCHANGED drainer
             \/ /\ proc = "saves" /\ proc' = "gateway"
                /\ drainer' = [drainer EXCEPT ![serving] = "arm"]
      BY <1>6 DEF ShutdownHTTP, ShutdownSaves, DisposalOrder
    <2>3. \A h \in Gateways : h # serving => drainer'[h] = drainer[h] /\ expired'[h] = expired[h]
      BY <2>1, <2>2 DEF TypeOK
    <2>4. TypeOK'
      BY <1>1, <2>1, <2>2 DEF TypeOK
    <2>5. drainer'[serving] \in {"none", "arm"} /\ expired'[serving] = b
      BY <1>4, <2>1, <2>2 DEF TypeOK
    <2>6. GateProtocol'
      BY <1>1, <1>4, <2>2, <2>3, <2>5 DEF GateProtocol
    <2>7. DisposalOrder'
      BY <1>1, <1>4, <2>2, <2>3, <2>5 DEF DisposalOrder
    <2>8. SavesWaitedFor'
      BY <1>1, <1>2, <1>4, <2>1, <2>2, <2>3, <2>5 DEF SavesWaitedFor
    <2>9. RefusedOnlyStale'
      BY <1>1, <2>2 DEF RefusedOnlyStale
    <2> QED
      BY <1>3, <2>4, <2>6, <2>7, <2>8, <2>9
  <1>7. CASE ShutdownGateway
    <2>1. /\ proc \in {"gateway", "failing"} /\ proc' = "over"
          /\ UNCHANGED <<shutdown, drainer>>
          /\ \/ expired' = expired
             \/ expired' = [expired EXCEPT ![serving] = TRUE]
      BY <1>7 DEF ShutdownGateway
    <2>4. \A h \in Gateways : expired'[h] \/ expired'[h] = expired[h]
      BY <1>4, <2>1 DEF TypeOK
    <2>5. TypeOK'
      BY <1>1, <1>4, <2>1 DEF TypeOK
    <2>2. GateProtocol'
      BY <1>1, <2>1, <2>4 DEF GateProtocol, TypeOK
    <2>3. DisposalOrder' /\ SavesWaitedFor' /\ RefusedOnlyStale'
      BY <1>1, <1>2, <2>1, <2>4 DEF DisposalOrder, SavesWaitedFor, RefusedOnlyStale
    <2> QED
      BY <1>3, <2>2, <2>3, <2>5
  <1>8. CASE ServerFailed
    <2>1. /\ proc = "run" /\ proc' = "failing"
          /\ drainer' = [drainer EXCEPT ![serving] = "arm"]
          /\ UNCHANGED <<shutdown, expired>> /\ drainer[serving] = "none" /\ ~shutdown
      BY <1>8 DEF ServerFailed, DisposalOrder
    <2>2. \A h \in Gateways : drainer'[h] = drainer[h] \/ (h = serving /\ drainer'[h] = "arm")
      BY <2>1, <1>4 DEF TypeOK
    <2>3. TypeOK'
      BY <1>1, <2>1 DEF TypeOK
    <2>4. GateProtocol'
      BY <1>1, <1>4, <2>1, <2>2 DEF GateProtocol
    <2>5. DisposalOrder'
      BY <1>1, <1>4, <2>1, <2>2 DEF DisposalOrder
    <2>6. SavesWaitedFor' /\ RefusedOnlyStale'
      BY <1>1, <1>2, <1>4, <2>1, <2>2 DEF SavesWaitedFor, RefusedOnlyStale
    <2> QED
      BY <1>3, <2>3, <2>4, <2>5, <2>6
  <1> QED
    BY <1>5, <1>6, <1>7, <1>8 DEF Shutdown

-----------------------------------------------------------------------------
(* The theorems.                                                           *)

(* Every step of every actor, and stuttering, preserves IInv.              *)
LEMMA StepInv == IInv /\ [Next]_vars => IInv'
  <1> SUFFICES ASSUME IInv, [Next]_vars PROVE IInv'
    OBVIOUS
  <1>1. CASE Build \/ ReloadRejected \/ ReloadFatal \/ StoreGateway
    BY <1>1, ReloadInv
  <1>2. CASE Stop \/ ServerFailed \/ Shutdown
    BY <1>2, ShutdownInv
  <1>3. ASSUME NEW g \in Gateways, Dispose(g) PROVE IInv'
    BY <1>3, DisposeInv
  <1>4. ASSUME NEW r \in Requests, Serve(r) PROVE IInv'
    BY <1>4, LoadInv, EnterInv, ExitInv, SaveInv DEF Serve
  <1>5. CASE UNCHANGED vars
    BY <1>5 DEF vars, IInv, TypeOK, InflightExact, GateProtocol, DisposalOrder,
                SavesWaitedFor, RefusedOnlyStale, Users, Busy, Saves
  <1> QED
    BY <1>1, <1>2, <1>3, <1>4, <1>5 DEF Next

(* The inductive invariant of hot reload holds in every behaviour.         *)
THEOREM GatewayInvariance == Spec => []IInv
  BY GatewayInitInv, StepInv, PTL DEF Spec

(* Every variable of the reload protocol keeps its type: no exit drives a  *)
(* drain gate's counter below zero.                                        *)
THEOREM TypeCorrect == Spec => []TypeOK
  <1>1. IInv => TypeOK
    BY DEF IInv
  <1> QED
    BY <1>1, GatewayInvariance, PTL

(* A drain gate counts exactly the requests served from its gateway.       *)
THEOREM GateCountExact == Spec => []InflightExact
  <1>1. IInv => InflightExact
    BY DEF IInv
  <1> QED
    BY <1>1, GatewayInvariance, PTL

(* A request is refused as draining only by a gateway that was replaced,   *)
(* or while the process stops.                                             *)
THEOREM RefusalsAreStale == Spec => []RefusedOnlyStale
  <1>1. IInv => RefusedOnlyStale
    BY DEF IInv
  <1> QED
    BY <1>1, GatewayInvariance, PTL

(* Neither a request nor an auto-save uses a gateway that Close tore down, *)
(* as long as no bounded wait of its disposal ran out (and, for auto-saves *)
(* on the serving gateway, the listener did not fail).                     *)
THEOREM CloseIsSafe == Spec => []NoUseAfterClose
  <1>1. IInv => NoUseAfterClose
    <2> SUFFICES ASSUME IInv, NEW g \in Gateways, gate[g].closed, ~expired[g], proc # "over"
                 PROVE  /\ Users(g) = {}
                        /\ g < serving \/ proc # "failing" =>
                             \A r \in Requests : save[r] # [pc |-> "calling", gw |-> g]
      BY DEF NoUseAfterClose
    <2> USE DEF IInv
    <2>1. drainer[g] = "done"
      BY DEF GateProtocol
    <2>2. gate[g].inflight = 0
      BY <2>1 DEF GateProtocol
    <2>3. Users(g) = {}
      BY <2>2, UsersFinite, CountZero DEF InflightExact
    <2>4. serving \in Int /\ g \in Int
      BY ReloadAssumption DEF Gateways, TypeOK
    <2>5. CASE g < serving
      BY <2>1, <2>5, <2>3 DEF SavesWaitedFor
    <2>6. CASE g = serving
      <3>1. proc \in {"gateway", "failing"}
        BY <2>1, <2>6 DEF DisposalOrder
      <3>2. proc = "gateway" => Saves = {}
        BY <2>6 DEF SavesWaitedFor
      <3> QED
        BY <3>1, <3>2, <2>3, <2>4, <2>6 DEF Saves
    <2>7. CASE g > serving
      BY <2>1, <2>7 DEF DisposalOrder
    <2> QED
      BY <2>4, <2>5, <2>6, <2>7
  <1> QED
    BY <1>1, GatewayInvariance, PTL

-----------------------------------------------------------------------------
(***************************************************************************)
(* The stall reader's accounting for any sizes of reads and of the         *)
(* consumer's buffers: the reader goroutine, the timer and the request's   *)
(* goroutine share the pool's buffers, the tail and the terminal error,    *)
(* and none of them is lost or used twice.                                 *)
(***************************************************************************)

Units(s) == IF s = <<>> THEN 0 ELSE s[1].n
InReader == IF readLoop.pc = "send" THEN readLoop.rr.n ELSE 0
InUser == IF user.pc = "serve" THEN user.rr.n ELSE 0

Types ==
    /\ readLoop \in [pc : {"read", "send", "end"}, rr : readResult]
    /\ ch \in Seq(readResult) /\ Len(ch) <= 1
    /\ timer \in BOOLEAN /\ firing \in BOOLEAN /\ stalled \in BOOLEAN /\ stallCh \in BOOLEAN
    /\ srcClosed \in BOOLEAN /\ canceled \in BOOLEAN
    /\ rem \in Nat /\ leased \in Nat /\ reads \in Nat /\ produced \in Nat /\ served \in Nat
    /\ pendingErr \in Errors
    /\ user \in [pc : {"between", "select", "serve", "stop", "drain", "left"}, rr : readResult]
    /\ report \in Errors \cup {"stalled", "canceled"}

(* The terminal result has left the reader: it is in the channel, with the *)
(* consumer or remembered as pendingErr.                                   *)
InChannel == ch # <<>> /\ ch[1].err # "none"
Taken == pendingErr # "none" \/ (user.pc = "serve" /\ user.rr.err # "none")

(* The reader ends with its terminal result, and what follows a result is  *)
(* nothing.                                                                *)
Terminal ==
    /\ InChannel => readLoop.pc = "end" /\ ~Taken
    /\ Taken => readLoop.pc = "end" /\ ch = <<>>

(* A Read waits or serves only with no tail and no error to hand out.      *)
Reading ==
    /\ user.pc \in {"select", "serve"} => rem = 0 /\ pendingErr = "none" /\ report = "none"
    /\ user.pc \in {"drain", "left"} => stalled

(* Until a stall is declared, every unit read is served, in the tail or on *)
(* its way, unless the reader gave up for a client that left.              *)
Conserved ==
    ~stalled /\ (readLoop.pc # "end" \/ InChannel \/ Taken) =>
        produced = served + rem + InReader + Units(ch) + InUser

(* A reported end of stream is final.                                      *)
Ending ==
    report = "eof" => readLoop.pc = "end" /\ ch = <<>> /\ rem = 0 /\ served = produced

Inv ==
    Types /\ BuffersAccounted /\ RetiredIsQuiet /\ Terminal /\ Reading /\ Conserved /\ Ending

(* A one-place channel.                                                    *)
LEMMA OnePlace ==
    ASSUME NEW S, NEW s \in Seq(S), Len(s) <= 1
    PROVE  /\ <<>> \in Seq(S) /\ Len(<<>>) = 0 /\ Len(s) \in {0, 1}
           /\ s # <<>> => Len(s) = 1 /\ s[1] \in S
<1>1. Len(s) \in Nat /\ (s # <<>> => Len(s) # 0)
  BY EmptySeq
<1>2. ASSUME Len(s) = 1 PROVE s[1] \in S
  BY <1>2
<1>3. <<>> \in Seq(S) /\ Len(<<>>) = 0
  OBVIOUS
<1>4. ASSUME NEW k \in Nat, k <= 1 PROVE k \in {0, 1}
  BY <1>4
<1> QED
  BY <1>1, <1>2, <1>3, <1>4, Zenon

(* The units in each place are numbers.                                    *)
LEMMA PlacesTyped ==
    ASSUME Types
    PROVE  Units(ch) \in Nat /\ InReader \in Nat /\ InUser \in Nat
<1>1. ch # <<>> => ch[1] \in readResult
  BY OnePlace DEF Types
<1>2. Units(ch) \in Nat
  BY <1>1 DEF Units, readResult
<1> QED
  BY <1>2 DEF Types, readResult, InReader, InUser

(* readLoop.                                                                *)

(* Fetch keeps the invariant.                                              *)
LEMMA FetchKeeps ==
    ASSUME Inv, Fetch
    PROVE  Inv'
<1>1. Types'
  BY StallAssumption DEF Inv, Fetch, Types, readResult, Errors, Nothing
<1>2. BuffersAccounted'
  <2>1. readLoop.pc = "read" /\ readLoop'.pc = "send" /\ UNCHANGED <<ch, user, leased>>
    BY DEF Fetch
  <2> QED
    BY <2>1 DEF Inv, BuffersAccounted
<1>3. RetiredIsQuiet'
  BY StallAssumption DEF Inv, Fetch, RetiredIsQuiet
<1>4. Terminal'
  BY StallAssumption DEF Inv, Fetch, Types, Terminal, InChannel, Taken, Nothing
<1>5. Reading'
  BY StallAssumption DEF Inv, Fetch, Reading
<1>6. Conserved'
  <2>1. PICK n \in Sizes \cup {0}, e \in Errors :
            readLoop' = [pc |-> "send", rr |-> [n |-> n, err |-> e]] /\ produced' = produced + n
    BY DEF Fetch
  <2>2. /\ n \in Nat /\ readLoop.pc = "read" /\ readLoop'.pc = "send" /\ readLoop'.rr.n = n
        /\ UNCHANGED <<ch, user, served, rem, stalled>>
    BY <2>1, StallAssumption DEF Fetch
  <2>3. produced = served + rem + 0 + Units(ch) + InUser \/ stalled
    BY <2>2 DEF Inv, Conserved, InReader
  <2>4. Units(ch) \in Nat /\ InUser \in Nat /\ served \in Nat /\ rem \in Nat /\ produced \in Nat
    BY PlacesTyped DEF Inv, Types
  <2>5. InReader' = n /\ Units(ch)' = Units(ch) /\ InUser' = InUser
    BY <2>2 DEF InReader, InUser, Units
  <2> QED
    BY <2>1, <2>2, <2>3, <2>4, <2>5 DEF Conserved
<1>7. Ending'
  BY StallAssumption DEF Inv, Fetch, Types, readResult, Terminal, Reading, Conserved, InChannel, Taken, InReader, InUser, Units, Ending
<1> QED
  BY <1>1, <1>2, <1>3, <1>4, <1>5, <1>6, <1>7 DEF Inv

(* Send keeps the invariant.                                               *)
LEMMA SendKeeps ==
    ASSUME Inv, Send
    PROVE  Inv'
<1>1. Types'
  BY StallAssumption DEF Inv, Send, Types, readResult, Errors, Nothing
<1>2. BuffersAccounted'
  BY StallAssumption DEF Inv, Send, Types, BuffersAccounted
<1>3. RetiredIsQuiet'
  BY StallAssumption DEF Inv, Send, RetiredIsQuiet
<1>4. Terminal'
  BY StallAssumption DEF Inv, Send, Types, Terminal, InChannel, Taken, Nothing
<1>5. Reading'
  BY StallAssumption DEF Inv, Send, Reading
<1>6. Conserved'
  BY StallAssumption DEF Inv, Send, Types, readResult, Terminal, Reading, Conserved, InChannel, Taken, InReader, InUser, Units
<1>7. Ending'
  BY StallAssumption DEF Inv, Send, Types, readResult, Terminal, Reading, Conserved, InChannel, Taken, InReader, InUser, Units, Ending
<1> QED
  BY <1>1, <1>2, <1>3, <1>4, <1>5, <1>6, <1>7 DEF Inv

(* GiveUp keeps the invariant.                                             *)
LEMMA GiveUpKeeps ==
    ASSUME Inv, GiveUp
    PROVE  Inv'
<1>a. readLoop.pc = "send" /\ readLoop'.pc = "end" /\ leased' = leased - 1 /\ UNCHANGED <<ch, user>>
  BY DEF GiveUp
<1>b. Len(ch) \in {0, 1}
  BY OnePlace DEF Inv, Types
<1>0. leased - 1 \in Nat
  BY <1>a, <1>b DEF Inv, BuffersAccounted
<1>1. Types'
  BY <1>0, <1>a DEF Inv, GiveUp, Types, readResult, Errors, Nothing
<1>2. BuffersAccounted'
  <2>1. PICK k \in {0, 1} : Len(ch) = k /\ Len(ch)' = k
    BY <1>a, <1>b, Zenon
  <2>2. leased = 1 + k + (IF user.pc = "serve" THEN 1 ELSE 0)
    BY <1>a, <2>1, Zenon DEF Inv, BuffersAccounted
  <2>3. leased' = 0 + k + (IF user'.pc = "serve" THEN 1 ELSE 0)
    BY <1>a, <2>2
  <2> QED
    BY <1>a, <2>1, <2>3, Zenon DEF BuffersAccounted
<1>3. RetiredIsQuiet'
  BY StallAssumption DEF Inv, GiveUp, RetiredIsQuiet
<1>4. Terminal'
  BY StallAssumption DEF Inv, GiveUp, Types, Terminal, InChannel, Taken, Nothing
<1>5. Reading'
  BY StallAssumption DEF Inv, GiveUp, Reading
<1>6. Conserved'
  BY StallAssumption DEF Inv, GiveUp, Types, readResult, Terminal, Reading, Conserved, InChannel, Taken, InReader, InUser, Units
<1>7. Ending'
  BY StallAssumption DEF Inv, GiveUp, Types, readResult, Terminal, Reading, Conserved, InChannel, Taken, InReader, InUser, Units, Ending
<1> QED
  BY <1>1, <1>2, <1>3, <1>4, <1>5, <1>6, <1>7 DEF Inv

(* The timer.                                                               *)

(* Fire keeps the invariant.                                               *)
LEMMA FireKeeps ==
    ASSUME Inv, Fire
    PROVE  Inv'
<1>1. Types'
  BY Zenon DEF Inv, Fire, Types
<1>2. BuffersAccounted'
  BY StallAssumption DEF Inv, Fire, Types, BuffersAccounted
<1>3. RetiredIsQuiet'
  BY StallAssumption DEF Inv, Fire, RetiredIsQuiet
<1>4. Terminal'
  BY StallAssumption DEF Inv, Fire, Types, Terminal, InChannel, Taken, Nothing
<1>5. Reading'
  BY StallAssumption DEF Inv, Fire, Reading
<1>6. Conserved'
  BY StallAssumption DEF Inv, Fire, Types, readResult, Terminal, Reading, Conserved, InChannel, Taken, InReader, InUser, Units
<1>7. Ending'
  BY StallAssumption DEF Inv, Fire, Types, readResult, Terminal, Reading, Conserved, InChannel, Taken, InReader, InUser, Units, Ending
<1> QED
  BY <1>1, <1>2, <1>3, <1>4, <1>5, <1>6, <1>7 DEF Inv

(* Callback keeps the invariant.                                           *)
LEMMA CallbackKeeps ==
    ASSUME Inv, Callback
    PROVE  Inv'
<1>1. Types'
  BY Zenon DEF Inv, Callback, Types
<1>2. BuffersAccounted'
  BY StallAssumption DEF Inv, Callback, Types, BuffersAccounted
<1>3. RetiredIsQuiet'
  BY StallAssumption DEF Inv, Callback, RetiredIsQuiet
<1>4. Terminal'
  BY StallAssumption DEF Inv, Callback, Types, Terminal, InChannel, Taken, Nothing
<1>5. Reading'
  BY StallAssumption DEF Inv, Callback, Reading
<1>6. Conserved'
  BY StallAssumption DEF Inv, Callback, Types, readResult, Terminal, Reading, Conserved, InChannel, Taken, InReader, InUser, Units
<1>7. Ending'
  BY StallAssumption DEF Inv, Callback, Types, readResult, Terminal, Reading, Conserved, InChannel, Taken, InReader, InUser, Units, Ending
<1> QED
  BY <1>1, <1>2, <1>3, <1>4, <1>5, <1>6, <1>7 DEF Inv

(* The consumer.                                                            *)

(* Read keeps the invariant.                                               *)
LEMMA ReadKeeps ==
    ASSUME Inv, Read
    PROVE  Inv'
<1>0. /\ rem \in Nat /\ served \in Nat /\ user.pc = "between" /\ report = "none"
      /\ Nothing \in readResult /\ UNCHANGED <<readLoop, ch, leased, pendingErr>>
      /\ Rooms \subseteq Nat \ {0} /\ pendingErr \in Errors
  BY StallAssumption DEF Inv, Types, Read, readResult, Nothing, Errors
<1>a. \/ user' = [pc |-> "between", rr |-> Nothing] /\ report' \in Errors \cup {"stalled"}
      \/ user' = [pc |-> "select", rr |-> Nothing] /\ report' = report /\ ~(rem > 0) /\ pendingErr = "none"
         /\ rem' = rem
  BY <1>0 DEF Read, Return, tailFirst, Errors
<1>b. user'.pc \in {"between", "select"}
  BY <1>a
<1>c. rem' \in Nat /\ served' \in Nat /\ timer' \in BOOLEAN
  <2>1. CASE tailFirst /\ timer' = TRUE
             /\ \E room \in Rooms : rem' = rem - Lower(room, rem) /\ served' = served + Lower(room, rem)
    BY <1>0, <2>1 DEF Lower
  <2>2. CASE UNCHANGED <<rem, served, timer>>
    BY <1>0, <2>2 DEF Inv, Types
  <2> QED
    BY <2>1, <2>2 DEF Read
<1>1. Types'
  <2>1. user' \in [pc : {"between", "select", "serve", "stop", "drain", "left"}, rr : readResult]
    BY <1>0, <1>a
  <2>2. report' \in Errors \cup {"stalled", "canceled"}
    BY <1>0, <1>a DEF Errors
  <2> QED
    BY <1>c, <2>1, <2>2, Zenon DEF Inv, Types, Read
<1>2. BuffersAccounted'
  BY <1>0, <1>b DEF Inv, BuffersAccounted
<1>3. RetiredIsQuiet'
  BY StallAssumption DEF Inv, Read, RetiredIsQuiet, Return, Lower, tailFirst
<1>4. Terminal'
  BY StallAssumption DEF Inv, Read, Types, Terminal, InChannel, Taken, Nothing, Return, Lower, tailFirst
<1>5. Reading'
  BY <1>0, <1>a DEF Reading
<1>6. Conserved'
  BY StallAssumption DEF Inv, Read, Types, readResult, Terminal, Reading, Conserved, InChannel, Taken, InReader, InUser, Units, Return, Lower, tailFirst
<1>7. Ending'
  BY StallAssumption DEF Inv, Read, Types, readResult, Terminal, Reading, Conserved, InChannel, Taken, InReader, InUser, Units, Ending, Return, Lower, tailFirst
<1> QED
  BY <1>1, <1>2, <1>3, <1>4, <1>5, <1>6, <1>7 DEF Inv

(* Wake keeps the invariant.                                               *)
LEMMA WakeKeeps ==
    ASSUME Inv, Wake
    PROVE  Inv'
<1>0. /\ user.pc = "select" /\ Nothing \in readResult /\ ch \in Seq(readResult) /\ Len(ch) <= 1
      /\ UNCHANGED <<readLoop, leased, rem, stalled, produced, served, pendingErr>>
  BY DEF Inv, Types, Wake, readResult, Nothing, Errors
<1>a. \/ user' = [pc |-> "between", rr |-> Nothing] /\ report' \in {"stalled", "canceled"} /\ ch' = ch
      \/ user' = [pc |-> "serve", rr |-> ch[1]] /\ report' = report /\ ch' = <<>> /\ ch # <<>>
  BY <1>0 DEF Wake, Return
<1>b. (ch # <<>> => ch[1] \in readResult /\ Len(ch) = 1) /\ <<>> \in Seq(readResult) /\ Len(<<>>) = 0
      /\ Len(ch) \in {0, 1}
  BY <1>0, OnePlace
<1>c. user'.pc \in {"between", "serve"}
  BY <1>a
<1>1. Types'
  <2>1. user' \in [pc : {"between", "select", "serve", "stop", "drain", "left"}, rr : readResult]
    BY <1>0, <1>a, <1>b
  <2>2. ch' \in Seq(readResult) /\ Len(ch') <= 1
    <3>1. Len(<<>>) <= 1
      OBVIOUS
    <3> QED
      BY <1>0, <1>a, <1>b, <3>1, Zenon
  <2>3. report' \in Errors \cup {"stalled", "canceled"}
    BY <1>a DEF Inv, Types
  <2> QED
    BY <2>1, <2>2, <2>3, Zenon DEF Inv, Types, Wake
<1>2. BuffersAccounted'
  <2>1. PICK k \in {0, 1} : Len(ch) = k
    BY <1>b
  <2>2. leased' = leased /\ readLoop' = readLoop /\ leased = (IF readLoop.pc = "end" THEN 0 ELSE 1) + k + 0
    BY <1>0, <2>1, Zenon DEF Inv, BuffersAccounted
  <2>3. CASE user'.pc = "between" /\ ch' = ch
    <3>1. Len(ch)' = k /\ user'.pc # "serve"
      BY <2>1, <2>3
    <3>2. leased' = (IF readLoop'.pc = "end" THEN 0 ELSE 1) + k + 0
      BY <2>2, Zenon
    <3>3. (IF user'.pc = "serve" THEN 1 ELSE 0) = 0
      BY <3>1
    <3> QED
      BY <3>1, <3>2, <3>3 DEF BuffersAccounted
  <2>4. CASE user'.pc = "serve" /\ ch' = <<>> /\ ch # <<>>
    <3>1. Len(ch)' = 0 /\ k = 1
      BY <1>b, <2>1, <2>4, Zenon
    <3>2. leased' = (IF readLoop'.pc = "end" THEN 0 ELSE 1) + 0 + 1
      BY <2>2, <3>1
    <3>3. (IF user'.pc = "serve" THEN 1 ELSE 0) = 1
      BY <2>4
    <3> QED
      BY <3>1, <3>2, <3>3 DEF BuffersAccounted
  <2> QED
    BY <1>a, <2>3, <2>4
<1>3. RetiredIsQuiet'
  BY StallAssumption DEF Inv, Wake, RetiredIsQuiet, Return, Lower, tailFirst
<1>4. Terminal'
  BY StallAssumption DEF Inv, Wake, Types, Terminal, InChannel, Taken, Nothing, Return, Lower, tailFirst
<1>5. Reading'
  BY StallAssumption DEF Inv, Wake, Reading, Return, Lower, tailFirst
<1>6. Conserved'
  <2>1. Units(ch)' + InUser' = Units(ch) + InUser
    BY <1>0, <1>a, <1>b DEF Units, InUser, readResult
  <2>2. InReader' = InReader /\ (readLoop.pc # "end" \/ InChannel' \/ Taken' => readLoop.pc # "end" \/ InChannel \/ Taken)
    BY <1>0, <1>a DEF InReader, InChannel, Taken, Nothing
  <2>3. /\ Units(ch) \in Nat /\ InUser \in Nat /\ InReader \in Nat /\ Units(ch)' \in Nat /\ InUser' \in Nat
    <3>1. (Types => Units(ch) \in Nat /\ InUser \in Nat)'
      BY PlacesTyped, PTL
    <3> QED
      BY <1>1, <3>1, PlacesTyped DEF Inv
  <2>4. {served, rem, produced} \subseteq Nat
    BY DEF Inv, Types
  <2> QED
    <3>1. SUFFICES ASSUME ~stalled, readLoop.pc # "end" \/ InChannel \/ Taken
                   PROVE  produced = served + rem + InReader + Units(ch)' + InUser'
      BY <1>0, <2>2 DEF Conserved
    <3>2. produced = served + rem + InReader + Units(ch) + InUser
      BY <3>1 DEF Inv, Conserved
    <3> QED
      BY <2>1, <2>3, <2>4, <3>2
<1>7. Ending'
  BY StallAssumption DEF Inv, Wake, Types, readResult, Terminal, Reading, Conserved, InChannel, Taken, InReader, InUser, Units, Ending, Return, Lower, tailFirst
<1> QED
  BY <1>1, <1>2, <1>3, <1>4, <1>5, <1>6, <1>7 DEF Inv

(* serveResult keeps the invariant.                                        *)
LEMMA serveResultKeeps ==
    ASSUME Inv, serveResult
    PROVE  Inv'
<1>0. /\ user.pc = "serve" /\ user.rr \in readResult /\ user.rr.n \in Nat /\ user.rr.err \in Errors
      /\ Nothing \in readResult /\ Rooms \subseteq Nat \ {0}
      /\ user' = [pc |-> "between", rr |-> Nothing] /\ leased' = leased - 1
      /\ rem \in Nat /\ served \in Nat /\ produced \in Nat /\ rem = 0 /\ pendingErr = "none"
      /\ UNCHANGED <<readLoop, ch, stalled, produced>>
  BY StallAssumption DEF Inv, Types, Reading, serveResult, Return, readResult, Nothing, Errors
<1>a. user'.pc = "between" /\ leased - 1 \in Nat
  BY <1>0 DEF Inv, Types, BuffersAccounted
<1>b. \/ stalled /\ report' = "stalled" /\ rem' = rem /\ served' = served
      \/ /\ ~stalled /\ rem' \in Nat /\ served' \in Nat /\ served' + rem' = served + user.rr.n
         /\ report' = IF rem' > 0 THEN "none" ELSE user.rr.err
  <2>1. CASE stalled
    BY <2>1 DEF serveResult, Return
  <2>2. CASE ~stalled
    <3>1. PICK room \in Rooms :
              /\ rem' = user.rr.n - Lower(room, user.rr.n) /\ served' = served + Lower(room, user.rr.n)
              /\ report' = IF user.rr.n > Lower(room, user.rr.n) THEN "none" ELSE user.rr.err
      BY <2>2 DEF serveResult, Return
    <3>2. Lower(room, user.rr.n) \in Nat /\ Lower(room, user.rr.n) <= user.rr.n
      BY <1>0 DEF Lower
    <3> QED
      BY <1>0, <2>2, <3>1, <3>2
  <2> QED
    BY <2>1, <2>2
<1>c. /\ pendingErr' = IF user.rr.err # "none" THEN user.rr.err ELSE pendingErr
      /\ timer' \in BOOLEAN
  BY DEF Inv, Types, serveResult
<1>1. Types'
  <2>1. user' \in [pc : {"between", "select", "serve", "stop", "drain", "left"}, rr : readResult]
    BY <1>0
  <2>2. rem' \in Nat /\ served' \in Nat /\ report' \in Errors \cup {"stalled", "canceled"}
    BY <1>0, <1>b DEF Errors
  <2>3. pendingErr' \in Errors /\ leased' \in Nat
    BY <1>0, <1>a, <1>c
  <2> QED
    BY <1>c, <2>1, <2>2, <2>3, Zenon DEF Inv, Types, serveResult
<1>2. BuffersAccounted'
  BY <1>0, <1>a DEF Inv, Types, BuffersAccounted
<1>3. RetiredIsQuiet'
  BY StallAssumption DEF Inv, serveResult, RetiredIsQuiet, Return, Lower, tailFirst
<1>4. Terminal'
  BY StallAssumption DEF Inv, serveResult, Types, Terminal, InChannel, Taken, Nothing, Return, Lower, tailFirst
<1>5. Reading'
  BY StallAssumption DEF Inv, serveResult, Reading, Return, Lower, tailFirst
<1>6. Conserved'
  <2>1. Units(ch)' = Units(ch) /\ InUser' = 0 /\ InReader' = InReader /\ InUser = user.rr.n
    BY <1>0, <1>a DEF InReader, InUser, Units
  <2>2. readLoop.pc # "end" \/ InChannel' \/ Taken' => readLoop.pc # "end" \/ InChannel \/ Taken
    BY <1>0, <1>a, <1>c DEF InChannel, Taken
  <2>3. Units(ch) \in Nat /\ InReader \in Nat
    BY PlacesTyped DEF Inv
  <2> QED
    BY <1>0, <1>b, <2>1, <2>2, <2>3 DEF Inv, Conserved
<1>7. Ending'
  BY StallAssumption DEF Inv, serveResult, Types, readResult, Terminal, Reading, Conserved, InChannel, Taken, InReader, InUser, Units, Ending, Return, Lower, tailFirst
<1> QED
  BY <1>1, <1>2, <1>3, <1>4, <1>5, <1>6, <1>7 DEF Inv

(* SetThinkingActive keeps the invariant.                                  *)
LEMMA SetThinkingActiveKeeps ==
    ASSUME Inv, SetThinkingActive
    PROVE  Inv'
<1>1. Types'
  BY StallAssumption DEF Inv, SetThinkingActive, Types, readResult, Errors, Nothing
<1>2. BuffersAccounted'
  BY StallAssumption DEF Inv, SetThinkingActive, Types, BuffersAccounted
<1>3. RetiredIsQuiet'
  BY StallAssumption DEF Inv, SetThinkingActive, RetiredIsQuiet
<1>4. Terminal'
  BY StallAssumption DEF Inv, SetThinkingActive, Types, Terminal, InChannel, Taken, Nothing
<1>5. Reading'
  BY StallAssumption DEF Inv, SetThinkingActive, Reading
<1>6. Conserved'
  BY StallAssumption DEF Inv, SetThinkingActive, Types, readResult, Terminal, Reading, Conserved, InChannel, Taken, InReader, InUser, Units
<1>7. Ending'
  BY StallAssumption DEF Inv, SetThinkingActive, Types, readResult, Terminal, Reading, Conserved, InChannel, Taken, InReader, InUser, Units, Ending
<1> QED
  BY <1>1, <1>2, <1>3, <1>4, <1>5, <1>6, <1>7 DEF Inv

(* Disconnect keeps the invariant.                                         *)
LEMMA DisconnectKeeps ==
    ASSUME Inv, Disconnect
    PROVE  Inv'
<1>1. Types'
  BY StallAssumption DEF Inv, Disconnect, Types, readResult, Errors, Nothing
<1>2. BuffersAccounted'
  BY StallAssumption DEF Inv, Disconnect, Types, BuffersAccounted
<1>3. RetiredIsQuiet'
  BY StallAssumption DEF Inv, Disconnect, RetiredIsQuiet
<1>4. Terminal'
  BY StallAssumption DEF Inv, Disconnect, Types, Terminal, InChannel, Taken, Nothing
<1>5. Reading'
  BY StallAssumption DEF Inv, Disconnect, Reading
<1>6. Conserved'
  BY StallAssumption DEF Inv, Disconnect, Types, readResult, Terminal, Reading, Conserved, InChannel, Taken, InReader, InUser, Units
<1>7. Ending'
  BY StallAssumption DEF Inv, Disconnect, Types, readResult, Terminal, Reading, Conserved, InChannel, Taken, InReader, InUser, Units, Ending
<1> QED
  BY <1>1, <1>2, <1>3, <1>4, <1>5, <1>6, <1>7 DEF Inv

(* The teardown.                                                            *)

(* CloseBody keeps the invariant.                                          *)
LEMMA CloseBodyKeeps ==
    ASSUME Inv, CloseBody
    PROVE  Inv'
<1>1. Types'
  BY StallAssumption DEF Inv, CloseBody, Types, readResult, Errors, Nothing
<1>2. BuffersAccounted'
  BY StallAssumption DEF Inv, CloseBody, Types, BuffersAccounted
<1>3. RetiredIsQuiet'
  BY StallAssumption DEF Inv, CloseBody, RetiredIsQuiet
<1>4. Terminal'
  BY StallAssumption DEF Inv, CloseBody, Types, Terminal, InChannel, Taken, Nothing
<1>5. Reading'
  BY StallAssumption DEF Inv, CloseBody, Reading
<1>6. Conserved'
  BY StallAssumption DEF Inv, CloseBody, Types, readResult, Terminal, Reading, Conserved, InChannel, Taken, InReader, InUser, Units
<1>7. Ending'
  BY StallAssumption DEF Inv, CloseBody, Types, readResult, Terminal, Reading, Conserved, InChannel, Taken, InReader, InUser, Units, Ending
<1> QED
  BY <1>1, <1>2, <1>3, <1>4, <1>5, <1>6, <1>7 DEF Inv

(* Stop keeps the invariant.                                               *)
LEMMA StopKeeps ==
    ASSUME Inv, StopReader
    PROVE  Inv'
<1>1. Types'
  BY StallAssumption DEF Inv, StopReader, Types, readResult, Errors, Nothing
<1>2. BuffersAccounted'
  BY StallAssumption DEF Inv, StopReader, Types, BuffersAccounted
<1>3. RetiredIsQuiet'
  BY StallAssumption DEF Inv, StopReader, RetiredIsQuiet
<1>4. Terminal'
  BY StallAssumption DEF Inv, StopReader, Types, Terminal, InChannel, Taken, Nothing
<1>5. Reading'
  BY StallAssumption DEF Inv, StopReader, Reading
<1>6. Conserved'
  BY StallAssumption DEF Inv, StopReader, Types, readResult, Terminal, Reading, Conserved, InChannel, Taken, InReader, InUser, Units
<1>7. Ending'
  BY StallAssumption DEF Inv, StopReader, Types, readResult, Terminal, Reading, Conserved, InChannel, Taken, InReader, InUser, Units, Ending
<1> QED
  BY <1>1, <1>2, <1>3, <1>4, <1>5, <1>6, <1>7 DEF Inv

(* Drain keeps the invariant.                                              *)
LEMMA DrainKeeps ==
    ASSUME Inv, Drain
    PROVE  Inv'
<1>0. /\ user.pc = "drain" /\ Nothing \in readResult /\ ch \in Seq(readResult) /\ Len(ch) <= 1
      /\ rem' = 0 /\ UNCHANGED readLoop /\ leased \in Nat
      /\ \/ ch # <<>> /\ ch' = <<>> /\ leased' = leased - 1 /\ user' = user
         \/ user' = [pc |-> "left", rr |-> Nothing] /\ ch' = ch /\ leased' = leased
  BY DEF Inv, Types, Drain, readResult, Nothing, Errors
<1>a. (ch # <<>> => Len(ch) = 1) /\ Len(<<>>) = 0 /\ <<>> \in Seq(readResult) /\ Len(ch) \in {0, 1}
  BY <1>0, OnePlace
<1>c. user'.pc \in {"drain", "left"}
  BY <1>0
<1>d. leased = (IF readLoop.pc = "end" THEN 0 ELSE 1) + Len(ch) + 0
  BY <1>0 DEF Inv, BuffersAccounted
<1>b. ch # <<>> => leased - 1 \in Nat
  BY <1>a, <1>d
<1>e. \/ Len(ch) = 1 /\ Len(ch') = 0 /\ leased' = leased - 1
      \/ Len(ch') = Len(ch) /\ leased' = leased
  BY <1>0, <1>a, Zenon
<1>1. Types'
  <2>1. user' \in [pc : {"between", "select", "serve", "stop", "drain", "left"}, rr : readResult]
    BY <1>0 DEF Inv, Types
  <2>2. ch' \in Seq(readResult) /\ Len(ch') <= 1 /\ leased' \in Nat /\ rem' \in Nat
    <3>1. Len(<<>>) <= 1 /\ 0 \in Nat
      OBVIOUS
    <3> QED
      BY <1>0, <1>a, <1>b, <3>1, Zenon
  <2> QED
    BY <2>1, <2>2, Zenon DEF Inv, Types, Drain
<1>2. BuffersAccounted'
  <2>1. readLoop' = readLoop /\ user'.pc # "serve"
    BY <1>0, <1>c
  <2>a. PICK k \in {0, 1} : Len(ch) = k
    BY <1>a
  <2>b. PICK m : Len(ch)' = m
    OBVIOUS
  <2>2. (k = 1 /\ m = 0 /\ leased' = leased - 1) \/ (m = k /\ leased' = leased)
    BY <1>e, <2>a, <2>b, Zenon
  <2>3. leased = (IF readLoop.pc = "end" THEN 0 ELSE 1) + k + 0
    BY <1>d, <2>a, Zenon
  <2>4. leased' = (IF readLoop'.pc = "end" THEN 0 ELSE 1) + m + 0
    BY <2>1, <2>2, <2>3
  <2> QED
    BY <2>1, <2>b, <2>4, Zenon DEF BuffersAccounted
<1>3. RetiredIsQuiet'
  BY StallAssumption DEF Inv, Drain, RetiredIsQuiet
<1>4. Terminal'
  BY StallAssumption DEF Inv, Drain, Types, Terminal, InChannel, Taken, Nothing
<1>5. Reading'
  BY StallAssumption DEF Inv, Drain, Reading
<1>6. Conserved'
  BY StallAssumption DEF Inv, Drain, Types, readResult, Terminal, Reading, Conserved, InChannel, Taken, InReader, InUser, Units
<1>7. Ending'
  BY StallAssumption DEF Inv, Drain, Types, readResult, Terminal, Reading, Conserved, InChannel, Taken, InReader, InUser, Units, Ending
<1> QED
  BY <1>1, <1>2, <1>3, <1>4, <1>5, <1>6, <1>7 DEF Inv

(* HandlerReturns keeps the invariant.                                     *)
LEMMA HandlerReturnsKeeps ==
    ASSUME Inv, HandlerReturns
    PROVE  Inv'
<1>1. Types'
  BY StallAssumption DEF Inv, HandlerReturns, Types, readResult, Errors, Nothing
<1>2. BuffersAccounted'
  BY StallAssumption DEF Inv, HandlerReturns, Types, BuffersAccounted
<1>3. RetiredIsQuiet'
  BY StallAssumption DEF Inv, HandlerReturns, RetiredIsQuiet
<1>4. Terminal'
  BY StallAssumption DEF Inv, HandlerReturns, Types, Terminal, InChannel, Taken, Nothing
<1>5. Reading'
  BY StallAssumption DEF Inv, HandlerReturns, Reading
<1>6. Conserved'
  BY StallAssumption DEF Inv, HandlerReturns, Types, readResult, Terminal, Reading, Conserved, InChannel, Taken, InReader, InUser, Units
<1>7. Ending'
  BY StallAssumption DEF Inv, HandlerReturns, Types, readResult, Terminal, Reading, Conserved, InChannel, Taken, InReader, InUser, Units, Ending
<1> QED
  BY <1>1, <1>2, <1>3, <1>4, <1>5, <1>6, <1>7 DEF Inv


-----------------------------------------------------------------------------

(* The invariant holds at the start.                                       *)
LEMMA StallInitInv ==
    ASSUME StallInit
    PROVE  Inv
<1>1. <<>> \in Seq(readResult) /\ Len(<<>>) = 0
  BY EmptySeq
<1>2. Types
  <2>1. Nothing \in readResult /\ Len(<<>>) <= 1 /\ 0 \in Nat /\ 1 \in Nat /\ "none" \in Errors
    BY <1>1 DEF readResult, Errors, Nothing
  <2>2. /\ readLoop \in [pc : {"read", "send", "end"}, rr : readResult]
        /\ user \in [pc : {"between", "select", "serve", "stop", "drain", "left"}, rr : readResult]
    BY <2>1 DEF StallInit
  <2> QED
    BY <1>1, <2>1, <2>2, Zenon DEF StallInit, Types
<1>3. BuffersAccounted
  BY <1>1 DEF StallInit, BuffersAccounted
<1>4. RetiredIsQuiet /\ Terminal /\ Reading /\ Ending
  BY DEF StallInit, RetiredIsQuiet, Terminal, InChannel, Taken, Reading, Ending
<1>5. Conserved
  <2>1. produced = 0 /\ served = 0 /\ rem = 0 /\ InReader = 0 /\ Units(ch) = 0 /\ InUser = 0
    BY DEF StallInit, InReader, InUser, Units
  <2> QED
    BY <2>1 DEF Conserved
<1> QED
  BY <1>2, <1>3, <1>4, <1>5 DEF Inv

(* A stuttering step keeps the invariant.                                  *)
LEMMA StutterKeeps ==
    ASSUME Inv, UNCHANGED stallVars
    PROVE  Inv'
<1>1. Types'
  BY Zenon DEF stallVars, Inv, Types
<1>2. BuffersAccounted' /\ RetiredIsQuiet' /\ Reading' /\ Ending'
  BY Zenon DEF stallVars, Inv, BuffersAccounted, RetiredIsQuiet, Reading, Ending
<1>3. Terminal'
  BY Zenon DEF stallVars, Inv, Terminal, InChannel, Taken
<1>4. Conserved'
  BY Zenon DEF stallVars, Inv, Conserved, InChannel, Taken, InReader, InUser, Units
<1> QED
  BY <1>1, <1>2, <1>3, <1>4 DEF Inv

(* The inductive invariant of the stall reader.                            *)
THEOREM StallInvariance == StallSpec => []Inv
<1>1. StallInit => Inv
  BY StallInitInv
<1>2. Inv /\ [StallNext]_stallVars => Inv'
  BY StutterKeeps, FetchKeeps, SendKeeps, GiveUpKeeps, FireKeeps, CallbackKeeps, ReadKeeps, WakeKeeps,
     serveResultKeeps, SetThinkingActiveKeeps, DisconnectKeeps, CloseBodyKeeps, StopKeeps, DrainKeeps,
     HandlerReturnsKeeps DEF StallNext, ReadLoop, Timer, Consume, Teardown
<1> QED
  BY <1>1, <1>2, PTL DEF StallSpec

(* stream_io.go: every pool buffer has one owner, an EOF is reported only  *)
(* after the last unit was served, and a retired reader's timer stays off, *)
(* whatever the sizes, the timer's timing and the point of the teardown.   *)
THEOREM NothingLost == StallSpec => []StreamSound
<1>1. Inv => StreamSound
  BY DEF Inv, Ending, StreamSound, EofMeansAll
<1> QED
  BY <1>1, StallInvariance, PTL

-----------------------------------------------------------------------------
(***************************************************************************)
(* The concurrency limiter for any goroutines, keys, limits, registry size *)
(* and number of semaphore objects: no token is lost, and the registry     *)
(* implements one counting semaphore per key.                              *)
(***************************************************************************)

(* The registry lock is held by the one goroutine between scan and delete. *)
Locked == \A p \in Callers : pc[p] = "evict" <=> mu = p

(* A goroutine in Acquire knows what it asked for, and has a semaphore in  *)
(* hand from the moment it found or made one.                              *)
Asking == \A p \in Callers : pc[p] # "idle" => key[p] \in Keys /\ ask[p] \in Limits
LimiterInHand == \A p \in Callers : pc[p] \in {"wait", "granted", "held"} <=> slot[p] # None

(* What the scan found still holds at the deletion: the key is not         *)
(* registered and nobody works under a victim's semaphore.  A victim may   *)
(* have been granted a token meanwhile; only Verify, which needs the lock, *)
(* makes it good.                                                          *)
Evicting ==
    \A p \in Callers : pc[p] = "evict" =>
        slots[key[p]] = None /\ \A k \in victims[p] : InFlight(k) = {}

(* Whoever works does so under the registered semaphore of its key.        *)
HeldRegistered == \A p \in Callers : pc[p] = "held" => slots[key[p]] = slot[p]

Bounded ==
    /\ \A s \in Slots : tokens[s] <= cap[s]
    /\ \A k \in Keys : slots[k] # None => cap[slots[k]] \in Limits

LimiterIInv ==
    /\ LimiterTypeOK /\ Locked /\ Asking /\ LimiterInHand /\ Evicting /\ HeldRegistered
    /\ Bounded /\ CapacityReturns

-----------------------------------------------------------------------------

(* The empty registry satisfies the invariant.                             *)
LEMMA LimiterInitInv == LimiterInit => LimiterIInv
<1> SUFFICES ASSUME LimiterInit PROVE LimiterIInv
  OBVIOUS
<1> USE LimiterAssumption DEF LimiterInit
<1>1. LimiterTypeOK
  BY DEF LimiterTypeOK, Labels
<1>2. Locked /\ Asking /\ LimiterInHand /\ Evicting /\ HeldRegistered /\ Bounded
  BY DEF Locked, Asking, LimiterInHand, Evicting, HeldRegistered, Bounded
<1>3. CapacityReturns
  <2>1. \A s \in Slots : Holders(s) = {}
    BY DEF Holders
  <2> QED
    BY <2>1, FS_EmptySet DEF CapacityReturns
<1> QED
  BY <1>1, <1>2, <1>3 DEF LimiterIInv

(* The holders of a semaphore are finitely many, and the requests in       *)
(* flight for a key are among the holders of its registered semaphore.     *)
LEMMA HoldersFinite ==
    ASSUME NEW s
    PROVE  IsFiniteSet(Holders(s)) /\ Cardinality(Holders(s)) \in Nat
<1>1. Holders(s) \in SUBSET Callers
  BY DEF Holders
<1> QED
  BY <1>1, FS_Subset, FS_CardinalityType, LimiterAssumption

(* Whoever is in flight holds a slot.                                      *)
LEMMA InFlightHold ==
    ASSUME LimiterIInv, NEW k \in Keys
    PROVE  /\ InFlight(k) \subseteq Holders(slots[k])
           /\ InFlight(k) # {} => slots[k] # None
  BY DEF LimiterIInv, HeldRegistered, LimiterInHand, InFlight, Holders

(* A semaphore without a token has no request in flight.                   *)
LEMMA EmptyIsIdle ==
    ASSUME LimiterIInv, NEW k \in Keys, slots[k] # None, tokens[slots[k]] = 0
    PROVE  InFlight(k) = {}
<1>1. slots[k] \in Slots
  BY DEF LimiterIInv, LimiterTypeOK
<1>2. Holders(slots[k]) = {}
  BY <1>1, HoldersFinite, FS_EmptySet DEF LimiterIInv, CapacityReturns
<1> QED
  BY <1>2, InFlightHold

(* Steps that move a goroutine between labels without a token.             *)
LEMMA TokenlessInv ==
    ASSUME LimiterIInv,
           UNCHANGED <<slots, cap, tokens, lastUsed>>,
           LimiterTypeOK', Locked', Asking', LimiterInHand', Evicting',
           \A q \in Callers : /\ pc'[q] \in {"granted", "held"} <=> pc[q] \in {"granted", "held"}
                              /\ pc'[q] = "held" <=> pc[q] = "held"
                              /\ pc[q] \in {"granted", "held"} => slot'[q] = slot[q] /\ key'[q] = key[q]
    PROVE  LimiterIInv'
<1>1. HeldRegistered' /\ Bounded'
  BY DEF LimiterIInv, HeldRegistered, Bounded
<1>2. \A s \in Slots : Holders(s)' = Holders(s)
  BY DEF Holders
<1>3. CapacityReturns'
  BY <1>2 DEF LimiterIInv, CapacityReturns
<1> QED
  BY <1>1, <1>3 DEF LimiterIInv

(* Acquire keeps the invariant.                                            *)
LEMMA AcquireInv ==
    ASSUME LimiterIInv, NEW p \in Callers, NEW k \in Keys, NEW l \in Limits, Acquire(p, k, l)
    PROVE  LimiterIInv'
<1> USE DEF LimiterIInv, Acquire
<1>1. LimiterTypeOK'
  BY DEF LimiterTypeOK, Labels
<1>2. Locked' /\ Asking' /\ LimiterInHand'
  BY DEF LimiterTypeOK, Locked, Asking, LimiterInHand
<1>3. Evicting'
  BY DEF LimiterTypeOK, Evicting, InFlight
<1>4. \A q \in Callers : /\ pc'[q] \in {"granted", "held"} <=> pc[q] \in {"granted", "held"}
                         /\ pc'[q] = "held" <=> pc[q] = "held"
                         /\ pc[q] \in {"granted", "held"} => slot'[q] = slot[q] /\ key'[q] = key[q]
  BY DEF LimiterTypeOK
<1> QED
  BY <1>1, <1>2, <1>3, <1>4, TokenlessInv

(* Lookup keeps the invariant.                                             *)
LEMMA LookupInv ==
    ASSUME LimiterIInv, NEW p \in Callers, Lookup(p)
    PROVE  LimiterIInv'
<1> USE DEF LimiterIInv, Lookup
<1>1. LimiterTypeOK'
  BY DEF LimiterTypeOK, Labels, Asking
<1>2. Locked' /\ Asking' /\ LimiterInHand'
  BY DEF LimiterTypeOK, Locked, Asking, LimiterInHand
<1>3. Evicting'
  BY DEF LimiterTypeOK, Evicting, InFlight
<1>4. \A q \in Callers : /\ pc'[q] \in {"granted", "held"} <=> pc[q] \in {"granted", "held"}
                         /\ pc'[q] = "held" <=> pc[q] = "held"
                         /\ pc[q] \in {"granted", "held"} => slot'[q] = slot[q] /\ key'[q] = key[q]
  BY DEF LimiterTypeOK
<1> QED
  BY <1>1, <1>2, <1>3, <1>4, TokenlessInv

(* CtxDone keeps the invariant.                                            *)
LEMMA CtxDoneInv ==
    ASSUME LimiterIInv, NEW p \in Callers, CtxDone(p)
    PROVE  LimiterIInv'
<1> USE DEF LimiterIInv, CtxDone, Depart
<1>1. LimiterTypeOK'
  BY DEF LimiterTypeOK, Labels
<1>2. Locked' /\ Asking' /\ LimiterInHand'
  BY DEF LimiterTypeOK, Locked, Asking, LimiterInHand
<1>3. Evicting'
  BY DEF LimiterTypeOK, Evicting, InFlight
<1>4. \A q \in Callers : /\ pc'[q] \in {"granted", "held"} <=> pc[q] \in {"granted", "held"}
                         /\ pc'[q] = "held" <=> pc[q] = "held"
                         /\ pc[q] \in {"granted", "held"} => slot'[q] = slot[q] /\ key'[q] = key[q]
  BY DEF LimiterTypeOK
<1> QED
  BY <1>1, <1>2, <1>3, <1>4, TokenlessInv

(* The scan picks keys whose semaphore is empty.                           *)
LEMMA VictimsEmpty ==
    ASSUME LimiterTypeOK, NEW v \in evictConcurrencySlotsLocked
    PROVE  v \subseteq Keys /\ \A k \in v : slots[k] # None /\ tokens[slots[k]] = 0
  BY DEF evictConcurrencySlotsLocked, idleEmpty, leastRecentlyUsed, Registered

(* The eviction scan keeps the invariant.                                  *)
LEMMA LockAndScanInv ==
    ASSUME LimiterIInv, NEW p \in Callers, LockAndScan(p)
    PROVE  LimiterIInv'
<1> USE DEF LimiterIInv
<1>0. /\ UNCHANGED <<now, slots, cap, tokens, lastUsed, key, ask>>
      /\ pc[p] = "create" /\ mu = None
      /\ \/ /\ slots[key[p]] # None
            /\ pc' = [pc EXCEPT ![p] = "wait"]
            /\ slot' = [slot EXCEPT ![p] = slots[key[p]]]
            /\ UNCHANGED <<mu, victims>>
         \/ /\ slots[key[p]] = None
            /\ pc' = [pc EXCEPT ![p] = "evict"]
            /\ mu' = p /\ slot' = slot
            /\ \E v \in SUBSET Keys :
                  /\ \A k \in v : slots[k] # None /\ tokens[slots[k]] = 0
                  /\ victims' = [victims EXCEPT ![p] = v]
  BY VictimsEmpty DEF LockAndScan
<1>1. LimiterTypeOK'
  BY <1>0 DEF LimiterTypeOK, Labels, Asking
<1>2. Locked'
  BY <1>0, LimiterAssumption DEF LimiterTypeOK, Locked
<1>a. Asking' /\ LimiterInHand'
  BY <1>0 DEF LimiterTypeOK, Asking, LimiterInHand
<1>b. \A k \in Keys : InFlight(k)' = InFlight(k)
  BY <1>0 DEF LimiterTypeOK, InFlight
<1>3. Evicting'
  <2> SUFFICES ASSUME NEW q \in Callers, pc'[q] = "evict"
               PROVE  slots'[key'[q]] = None /\ \A k \in victims'[q] : InFlight(k)' = {}
    BY DEF Evicting
  <2>1. q = p /\ slots[key[p]] = None
    BY <1>0, LimiterAssumption DEF LimiterTypeOK, Locked
  <2>2. \A k \in victims'[q] : k \in Keys /\ slots[k] # None /\ tokens[slots[k]] = 0
    BY <1>0, <2>1 DEF LimiterTypeOK
  <2> QED
    BY <1>0, <1>b, <2>1, <2>2, EmptyIsIdle
<1>4. \A q \in Callers : /\ pc'[q] \in {"granted", "held"} <=> pc[q] \in {"granted", "held"}
                         /\ pc'[q] = "held" <=> pc[q] = "held"
                         /\ pc[q] \in {"granted", "held"} => slot'[q] = slot[q] /\ key'[q] = key[q]
  BY <1>0 DEF LimiterTypeOK
<1> QED
  BY <1>0, <1>1, <1>2, <1>a, <1>3, <1>4, TokenlessInv

(* A new semaphore is an object nobody holds, and the victims are idle.    *)
LEMMA CreateInv ==
    ASSUME LimiterIInv, NEW p \in Callers, Create(p)
    PROVE  LimiterIInv'
<1> USE DEF LimiterIInv
<1>0. PICK s \in Free :
          /\ slots' = [k \in Keys |-> IF k = key[p] THEN s
                                      ELSE IF k \in victims[p] THEN None ELSE slots[k]]
          /\ cap' = [cap EXCEPT ![s] = ask[p]]
          /\ tokens' = [tokens EXCEPT ![s] = 0]
          /\ lastUsed' = [lastUsed EXCEPT ![s] = now]
          /\ slot' = [slot EXCEPT ![p] = s]
          /\ pc[p] = "evict" /\ pc' = [pc EXCEPT ![p] = "wait"]
          /\ victims' = [victims EXCEPT ![p] = {}]
          /\ mu' = None
          /\ UNCHANGED <<now, key, ask>>
  <2>1. (CHOOSE s \in Free : TRUE) \in Free
    BY DEF Create
  <2> QED
    BY <2>1 DEF Create
<1>a. s \in Slots /\ (\A k \in Keys : slots[k] # s) /\ \A q \in Callers : slot[q] # s
  BY <1>0 DEF Free
<1>b. key[p] \in Keys /\ ask[p] \in Limits
  BY <1>0 DEF Asking
<1>1. LimiterTypeOK'
  BY <1>0, <1>a, <1>b, LimiterAssumption DEF LimiterTypeOK, Labels
<1>2. Locked' /\ Asking' /\ LimiterInHand'
  BY <1>0, <1>a, LimiterAssumption DEF LimiterTypeOK, Locked, Asking, LimiterInHand
<1>3. Evicting'
  BY <1>0, LimiterAssumption DEF LimiterTypeOK, Evicting, Locked
<1>4. HeldRegistered'
  <2> SUFFICES ASSUME NEW q \in Callers, pc'[q] = "held" PROVE slots'[key'[q]] = slot'[q]
    BY DEF HeldRegistered
  <2>1. q # p /\ pc[q] = "held" /\ slot'[q] = slot[q] /\ key'[q] = key[q] /\ key[q] \in Keys
    BY <1>0 DEF LimiterTypeOK, Asking
  <2>2. slots[key[q]] = slot[q] /\ slot[q] # None
    BY <2>1 DEF HeldRegistered, LimiterInHand
  <2>3. key[q] # key[p] /\ key[q] \notin victims[p]
    BY <1>0, <2>1, <2>2 DEF Evicting, InFlight
  <2> QED
    BY <1>0, <2>1, <2>2, <2>3
<1>5. Bounded'
  <2>1. cap'[s] = ask[p] /\ ask[p] \in Nat /\ tokens'[s] = 0
    BY <1>0, <1>a, <1>b, LimiterAssumption DEF LimiterTypeOK
  <2>2. \A x \in Slots \ {s} : cap'[x] = cap[x] /\ tokens'[x] = tokens[x]
    BY <1>0, <1>a DEF LimiterTypeOK
  <2>3. \A x \in Slots : tokens'[x] <= cap'[x]
    BY <2>1, <2>2 DEF Bounded
  <2>4. \A k \in Keys : slots'[k] # None => cap'[slots'[k]] \in Limits
    BY <1>0, <1>a, <1>b, <2>1, <2>2 DEF LimiterTypeOK, Bounded
  <2> QED
    BY <2>3, <2>4 DEF Bounded
<1>6. CapacityReturns'
  <2>1. Holders(s)' = {}
    BY <1>0, <1>a DEF LimiterTypeOK, Holders
  <2>2. \A x \in Slots \ {s} : Holders(x)' = Holders(x)
    BY <1>0 DEF LimiterTypeOK, Holders
  <2>3. \A x \in Slots \ {s} : tokens'[x] = tokens[x]
    BY <1>0 DEF LimiterTypeOK
  <2>4. tokens'[s] = 0
    BY <1>0, <1>a DEF LimiterTypeOK
  <2> QED
    BY <2>1, <2>2, <2>3, <2>4, FS_EmptySet DEF CapacityReturns
<1> QED
  BY <1>1, <1>2, <1>3, <1>4, <1>5, <1>6

(* Grant keeps the invariant.                                              *)
LEMMA GrantInv ==
    ASSUME LimiterIInv, NEW p \in Callers, Grant(p)
    PROVE  LimiterIInv'
<1> USE DEF LimiterIInv, Grant
<1>0. slot[p] \in Slots
  BY DEF LimiterInHand, LimiterTypeOK
<1>1. LimiterTypeOK'
  BY <1>0 DEF LimiterTypeOK, Labels
<1>2. Locked' /\ Asking' /\ LimiterInHand'
  BY DEF LimiterTypeOK, Locked, Asking, LimiterInHand
<1>3. Evicting' /\ HeldRegistered'
  BY DEF LimiterTypeOK, Evicting, InFlight, HeldRegistered
<1>4. Bounded'
  BY <1>0 DEF LimiterTypeOK, Bounded
<1>5. CapacityReturns'
  <2> SUFFICES ASSUME NEW s \in Slots PROVE tokens'[s] = Cardinality(Holders(s)')
    BY DEF CapacityReturns
  <2>1. CASE s = slot[p]
    <3>1. Holders(s)' = Holders(s) \cup {p} /\ p \notin Holders(s)
      BY <2>1 DEF LimiterTypeOK, Holders
    <3>2. Cardinality(Holders(s)') = Cardinality(Holders(s)) + 1
      BY <3>1, HoldersFinite, FS_AddElement
    <3> QED
      BY <2>1, <3>2 DEF CapacityReturns, LimiterTypeOK
  <2>2. CASE s # slot[p]
    <3>1. Holders(s)' = Holders(s)
      BY <2>2 DEF LimiterTypeOK, Holders
    <3> QED
      BY <2>2, <3>1 DEF CapacityReturns, LimiterTypeOK
  <2> QED
    BY <2>1, <2>2
<1> QED
  BY <1>1, <1>2, <1>3, <1>4, <1>5

(* A token goes back to the semaphore it came from.                        *)
LEMMA DrainedInv ==
    ASSUME LimiterIInv, NEW p \in Callers,
           pc[p] \in {"granted", "held"}, pc'[p] \notin {"granted", "held"},
           tokens' = drained(p), cap' = cap, slots' = slots,
           \A q \in Callers \ {p} : pc'[q] = pc[q] /\ slot'[q] = slot[q]
    PROVE  tokens' \in [Slots -> Nat] /\ Bounded' /\ CapacityReturns'
<1> USE DEF LimiterIInv
<1>0. slot[p] \in Slots /\ p \in Holders(slot[p])
  BY DEF LimiterInHand, LimiterTypeOK, Holders
<1>1. tokens[slot[p]] = Cardinality(Holders(slot[p])) /\ tokens[slot[p]] \in Nat
  BY <1>0 DEF CapacityReturns, LimiterTypeOK
<1>2. Holders(slot[p]) # {}
  BY <1>0
<1>3. tokens[slot[p]] # 0
  BY <1>1, <1>2, HoldersFinite, FS_EmptySet
<1>4. tokens' \in [Slots -> Nat]
  BY <1>0, <1>1, <1>3 DEF drained, LimiterTypeOK
<1>5. Bounded'
  BY <1>0, <1>1, <1>3 DEF drained, LimiterTypeOK, Bounded
<1>6. CapacityReturns'
  <2> SUFFICES ASSUME NEW s \in Slots PROVE tokens'[s] = Cardinality(Holders(s)')
    BY DEF CapacityReturns
  <2>1. CASE s = slot[p]
    <3>1. Holders(s)' = Holders(s) \ {p}
      BY <2>1 DEF LimiterTypeOK, Holders
    <3>2. Cardinality(Holders(s)') = Cardinality(Holders(s)) - 1
      BY <1>0, <2>1, <3>1, HoldersFinite, FS_RemoveElement
    <3> QED
      BY <1>1, <2>1, <3>2 DEF drained, LimiterTypeOK
  <2>2. CASE s # slot[p]
    <3>1. Holders(s)' = Holders(s)
      BY <2>2 DEF LimiterTypeOK, Holders
    <3> QED
      BY <2>2, <3>1 DEF CapacityReturns, LimiterTypeOK, drained
  <2> QED
    BY <2>1, <2>2
<1> QED
  BY <1>4, <1>5, <1>6

(* Verify keeps the invariant.                                             *)
LEMMA VerifyInv ==
    ASSUME LimiterIInv, NEW p \in Callers, Verify(p)
    PROVE  LimiterIInv'
<1> USE DEF LimiterIInv
<1>0. slot[p] \in Slots /\ pc[p] = "granted" /\ mu = None
  BY DEF Verify, LimiterInHand, LimiterTypeOK
<1>a. \A q \in Callers : pc[q] # "evict"
  BY <1>0, LimiterAssumption DEF Locked
<1>1. CASE registered(p)
  <2> USE <1>1 DEF Verify
  <2>1. LimiterTypeOK'
    BY <1>0 DEF LimiterTypeOK, Labels
  <2>2. Locked' /\ Asking' /\ LimiterInHand' /\ Evicting'
    BY <1>a DEF LimiterTypeOK, Locked, Asking, LimiterInHand, Evicting
  <2>3. HeldRegistered' /\ Bounded'
    BY DEF LimiterTypeOK, HeldRegistered, Bounded, registered
  <2>4. \A s \in Slots : Holders(s)' = Holders(s)
    BY DEF LimiterTypeOK, Holders
  <2>5. CapacityReturns'
    BY <2>4 DEF CapacityReturns
  <2> QED
    BY <2>1, <2>2, <2>3, <2>5
<1>2. CASE ~registered(p)
  <2> USE <1>2 DEF Verify
  <2>0. tokens' \in [Slots -> Nat] /\ Bounded' /\ CapacityReturns'
    BY DrainedInv DEF LimiterTypeOK
  <2>1. LimiterTypeOK'
    BY <2>0 DEF LimiterTypeOK, Labels
  <2>2. Locked' /\ Asking' /\ LimiterInHand' /\ Evicting'
    BY <1>a DEF LimiterTypeOK, Locked, Asking, LimiterInHand, Evicting
  <2>3. HeldRegistered'
    BY DEF LimiterTypeOK, HeldRegistered
  <2> QED
    BY <2>0, <2>1, <2>2, <2>3
<1> QED
  BY <1>1, <1>2

(* Release keeps the invariant.                                            *)
LEMMA ReleaseInv ==
    ASSUME LimiterIInv, NEW p \in Callers, Release(p)
    PROVE  LimiterIInv'
<1> USE DEF LimiterIInv, Release, Depart
<1>0. tokens' \in [Slots -> Nat] /\ Bounded' /\ CapacityReturns'
  BY DrainedInv DEF LimiterTypeOK
<1>a. slot[p] \in Slots
  BY DEF LimiterInHand, LimiterTypeOK
<1>1. LimiterTypeOK'
  BY <1>0, <1>a DEF LimiterTypeOK, Labels
<1>2. Locked' /\ Asking' /\ LimiterInHand'
  BY DEF LimiterTypeOK, Locked, Asking, LimiterInHand
<1>3. Evicting'
  BY DEF LimiterTypeOK, Evicting, InFlight
<1>4. HeldRegistered'
  BY DEF LimiterTypeOK, HeldRegistered
<1> QED
  BY <1>0, <1>1, <1>2, <1>3, <1>4

(* Time, and steps that change nothing.                                    *)
LEMMA QuietInv ==
    ASSUME LimiterIInv, Tick \/ UNCHANGED limiterVars
    PROVE  LimiterIInv'
<1>1. UNCHANGED <<slots, cap, tokens, lastUsed, mu, pc, key, ask, slot, victims>> /\ now' \in Nat
  BY DEF Tick, limiterVars, LimiterIInv, LimiterTypeOK
<1>2. LimiterTypeOK' /\ Locked' /\ Asking' /\ LimiterInHand' /\ HeldRegistered' /\ Bounded'
  BY <1>1 DEF LimiterIInv, LimiterTypeOK, Locked, Asking, LimiterInHand, HeldRegistered, Bounded
<1>3. Evicting' /\ CapacityReturns'
  BY <1>1 DEF LimiterIInv, Evicting, InFlight, CapacityReturns, Holders
<1> QED
  BY <1>2, <1>3 DEF LimiterIInv

-----------------------------------------------------------------------------

(* The invariant of the limiter.                                           *)
THEOREM LimiterInvariance == LimiterSpec => []LimiterIInv
<1>1. LimiterIInv /\ [LimiterNext]_limiterVars => LimiterIInv'
  <2> SUFFICES ASSUME LimiterIInv, [LimiterNext]_limiterVars PROVE LimiterIInv'
    OBVIOUS
  <2>1. CASE Tick \/ UNCHANGED limiterVars
    BY <2>1, QuietInv
  <2>2. ASSUME NEW p \in Callers, Step(p) PROVE LimiterIInv'
    BY <2>2, AcquireInv, LookupInv, LockAndScanInv, CreateInv, GrantInv, CtxDoneInv, VerifyInv,
       ReleaseInv DEF Step
  <2> QED
    BY <2>1, <2>2 DEF LimiterNext
<1> QED
  BY LimiterInitInv, <1>1, PTL DEF LimiterSpec

(* No token is lost or returned twice: the channel of every semaphore,     *)
(* registered or orphaned, holds exactly the tokens of the goroutines that *)
(* took one from it (Acquire and Release of internal/infra/concurrency.go).*)
THEOREM NoTokenLost == LimiterSpec => []CapacityReturns
<1>1. LimiterIInv => CapacityReturns
  BY DEF LimiterIInv
<1> QED
  BY LimiterInvariance, <1>1, PTL

-----------------------------------------------------------------------------
(* The refinement: who holds a place for a key are the requests in flight, *)
(* and the key's bound is the capacity of its registered semaphore.        *)

BoundOf(k) == IF slots[k] = None THEN CHOOSE l \in Limits : TRUE ELSE cap[slots[k]]

(* The bound on the slots of a key is its limit.                           *)
LEMMA BoundIsLimit ==
    ASSUME LimiterIInv, NEW k \in Keys PROVE BoundOf(k) \in Limits
<1>1. (CHOOSE l \in Limits : TRUE) \in Limits
  BY LimiterAssumption
<1> QED
  BY <1>1 DEF LimiterIInv, Bounded, BoundOf

(* A step that starts and ends no work and keeps the registry is a         *)
(* stuttering step of the semaphores.                                      *)
LEMMA Stutter ==
    ASSUME slots' = slots, cap' = cap, \A k \in Keys : InFlight(k)' = InFlight(k)
    PROVE  UNCHANGED Abstract!semvars
  BY DEF Abstract!semvars

(* Replacing a semaphore resizes only keys nobody works under.             *)
LEMMA CreateResizes ==
    ASSUME LimiterIInv, LimiterIInv', NEW p \in Callers, Create(p)
    PROVE  Abstract!Resize
<1>0. PICK s \in Free :
          /\ slots' = [k \in Keys |-> IF k = key[p] THEN s
                                      ELSE IF k \in victims[p] THEN None ELSE slots[k]]
          /\ cap' = [cap EXCEPT ![s] = ask[p]]
          /\ pc[p] = "evict" /\ pc' = [pc EXCEPT ![p] = "wait"] /\ key' = key
  <2>1. (CHOOSE s \in Free : TRUE) \in Free
    BY DEF Create
  <2> QED
    BY <2>1 DEF Create
<1>1. \A k \in Keys : InFlight(k)' = InFlight(k)
  BY <1>0 DEF InFlight, LimiterIInv, LimiterTypeOK
<1>2. ASSUME NEW k \in Keys, InFlight(k) # {} PROVE BoundOf(k)' = BoundOf(k)
  <2>1. k # key[p] /\ k \notin victims[p] /\ slots[k] # None
    BY <1>0, <1>2, InFlightHold DEF LimiterIInv, Evicting
  <2>2. slots'[k] = slots[k] /\ slots[k] # s /\ slots[k] \in Slots
    BY <1>0, <2>1 DEF Free, LimiterIInv, LimiterTypeOK
  <2> QED
    BY <1>0, <2>1, <2>2 DEF BoundOf, LimiterIInv, LimiterTypeOK
<1>3. \A k \in Keys : BoundOf(k)' \in Limits
  <2> SUFFICES ASSUME NEW k \in Keys PROVE BoundOf(k)' \in Limits
    OBVIOUS
  <2>1. (CHOOSE l \in Limits : TRUE) \in Limits
    BY LimiterAssumption
  <2> QED
    BY <2>1 DEF LimiterIInv, Bounded, BoundOf
<1> QED
  BY <1>1, <1>2, <1>3 DEF Abstract!Resize, BoundOf

(* The abstract module counts as this one does.                            *)
LEMMA SameCount == ASSUME NEW S PROVE Abstract!Cardinality(S) = Cardinality(S)
  BY DEF Abstract!Cardinality, Cardinality

(* A verified token is a place that was free: the requests in flight and   *)
(* this one hold tokens of one semaphore, which never has more than its    *)
(* capacity.                                                               *)
LEMMA VerifyTakes ==
    ASSUME LimiterIInv, NEW p \in Callers, Verify(p), registered(p)
    PROVE  Abstract!Take(p, key[p])
<1>k. PICK k \in Keys : k = key[p]
  BY DEF Verify, LimiterIInv, Asking
<1> USE <1>k
<1>0. /\ pc[p] = "granted" /\ k \in Keys /\ slots[k] = slot[p]
      /\ slot[p] \in Slots /\ slots[k] # None
      /\ pc' = [pc EXCEPT ![p] = "held"] /\ UNCHANGED <<slots, cap, key>>
  BY DEF Verify, registered, LimiterIInv, Asking, LimiterInHand, LimiterTypeOK
<1>1. \A j \in Keys : p \notin InFlight(j)
  BY <1>0 DEF InFlight
<1>2. Cardinality(InFlight(k)) < cap[slots[k]]
  <2> DEFINE H == Holders(slots[k])
  <2>1. InFlight(k) \in SUBSET (H \ {p}) /\ p \in H
    BY <1>0, <1>1, InFlightHold DEF Holders
  <2>2. IsFiniteSet(H) /\ Cardinality(H) \in Nat
    BY HoldersFinite
  <2>3. IsFiniteSet(H \ {p}) /\ Cardinality(H \ {p}) = Cardinality(H) - 1
    BY <2>1, <2>2, FS_RemoveElement
  <2>4. Cardinality(InFlight(k)) <= Cardinality(H \ {p}) /\ IsFiniteSet(InFlight(k))
    BY <2>1, <2>3, FS_Subset
  <2>5. Cardinality(InFlight(k)) \in Nat
    BY <2>4, FS_CardinalityType
  <2>6. Cardinality(H) <= cap[slots[k]] /\ cap[slots[k]] \in Nat
    BY <1>0 DEF LimiterIInv, CapacityReturns, Bounded, LimiterTypeOK
  <2> QED
    BY <2>2, <2>3, <2>4, <2>5, <2>6
<1>3. InFlight(k)' = InFlight(k) \cup {p}
  BY <1>0 DEF InFlight, LimiterIInv, LimiterTypeOK
<1>4. \A j \in Keys \ {k} : InFlight(j)' = InFlight(j)
  BY <1>0 DEF InFlight, LimiterIInv, LimiterTypeOK
<1>5. [j \in Keys |-> InFlight(j)]' = [[j \in Keys |-> InFlight(j)] EXCEPT ![k] = @ \cup {p}]
  BY <1>0, <1>3, <1>4
<1>6. UNCHANGED [j \in Keys |-> IF slots[j] = None THEN CHOOSE l \in Limits : TRUE ELSE cap[slots[j]]]
  BY <1>0
<1>7. /\ \A j \in Keys : p \notin [i \in Keys |-> InFlight(i)][j]
      /\ [j \in Keys |-> InFlight(j)][k] = InFlight(k)
      /\ [j \in Keys |-> IF slots[j] = None THEN CHOOSE l \in Limits : TRUE ELSE cap[slots[j]]][k] = cap[slots[k]]
  BY <1>0, <1>1
<1> QED
  BY <1>2, <1>5, <1>6, <1>7, SameCount DEF Abstract!Take

(* A release gives one slot back.                                          *)
LEMMA ReleaseGives ==
    ASSUME LimiterIInv, NEW p \in Callers, Release(p)
    PROVE  Abstract!Give(p, key[p])
<1>k. PICK k \in Keys : k = key[p]
  BY DEF Release, LimiterIInv, Asking
<1> USE <1>k
<1>0. /\ pc[p] = "held" /\ k \in Keys
      /\ pc' = [pc EXCEPT ![p] = "idle"] /\ key' = [key EXCEPT ![p] = None] /\ UNCHANGED <<slots, cap>>
  BY DEF Release, Depart, LimiterIInv, Asking
<1>1. p \in InFlight(k) /\ InFlight(k)' = InFlight(k) \ {p}
  BY <1>0 DEF InFlight, LimiterIInv, LimiterTypeOK
<1>2. \A j \in Keys \ {k} : InFlight(j)' = InFlight(j)
  BY <1>0 DEF InFlight, LimiterIInv, LimiterTypeOK
<1>3. [j \in Keys |-> InFlight(j)]' = [[j \in Keys |-> InFlight(j)] EXCEPT ![k] = @ \ {p}]
  BY <1>0, <1>1, <1>2
<1> QED
  BY <1>0, <1>1, <1>3 DEF Abstract!Give

(* Every other step of a goroutine is invisible.                           *)
LEMMA OtherStepsStutter ==
    ASSUME LimiterIInv, NEW p \in Callers,
           \/ \E k \in Keys, l \in Limits : Acquire(p, k, l)
           \/ Lookup(p) \/ LockAndScan(p) \/ Grant(p) \/ CtxDone(p)
           \/ Verify(p) /\ ~registered(p)
    PROVE  UNCHANGED Abstract!semvars
<1>1. /\ UNCHANGED <<slots, cap>>
      /\ pc[p] # "held" /\ pc'[p] # "held"
      /\ \A q \in Callers \ {p} : pc'[q] = pc[q] /\ key'[q] = key[q]
  BY DEF Acquire, Lookup, LockAndScan, Grant, CtxDone, Depart, Verify, LimiterIInv, LimiterTypeOK
<1>2. \A k \in Keys : InFlight(k)' = InFlight(k)
  BY <1>1 DEF InFlight
<1> QED
  BY <1>1, <1>2, Stutter

(* The registry of semaphores, with its lazy creation, its evictions, its  *)
(* orphans and its reloaded limits, implements one counting semaphore per  *)
(* key: no interleaving of eviction and grant bypasses a limit.            *)
THEOREM Refinement == LimiterSpec => BoundedInFlight
<1>1. LimiterInit => Abstract!SemInit
  <2> SUFFICES ASSUME LimiterInit PROVE Abstract!SemInit
    OBVIOUS
  <2>1. \A k \in Keys : InFlight(k) = {}
    BY DEF LimiterInit, InFlight
  <2>2. \A k \in Keys : BoundOf(k) \in Limits
    BY LimiterInitInv, BoundIsLimit
  <2> QED
    BY <2>1, <2>2 DEF Abstract!SemInit, BoundOf
<1>2. LimiterIInv /\ LimiterIInv' /\ [LimiterNext]_limiterVars => [Abstract!SemNext]_(Abstract!semvars)
  <2> SUFFICES ASSUME LimiterIInv, LimiterIInv', [LimiterNext]_limiterVars
               PROVE  [Abstract!SemNext]_(Abstract!semvars)
    OBVIOUS
  <2>1. CASE Tick \/ UNCHANGED limiterVars
    <3>1. UNCHANGED <<slots, cap>> /\ \A k \in Keys : InFlight(k)' = InFlight(k)
      BY <2>1 DEF Tick, limiterVars, InFlight
    <3> QED
      BY <3>1, Stutter
  <2>2. ASSUME NEW p \in Callers, Step(p) PROVE [Abstract!SemNext]_(Abstract!semvars)
    <3>1. CASE Create(p)
      BY <3>1, CreateResizes DEF Abstract!SemNext
    <3>2. CASE Verify(p) /\ registered(p)
      <4>1. key[p] \in Keys
        BY <3>2 DEF Verify, LimiterIInv, Asking
      <4> QED
        BY <3>2, <4>1, VerifyTakes DEF Abstract!SemNext
    <3>3. CASE Release(p)
      <4>1. key[p] \in Keys
        BY <3>3 DEF Release, LimiterIInv, Asking
      <4> QED
        BY <3>3, <4>1, ReleaseGives DEF Abstract!SemNext
    <3>4. CASE \/ \E k \in Keys, l \in Limits : Acquire(p, k, l)
               \/ Lookup(p) \/ LockAndScan(p) \/ Grant(p) \/ CtxDone(p)
               \/ Verify(p) /\ ~registered(p)
      BY <3>4, OtherStepsStutter
    <3> QED
      BY <2>2, <3>1, <3>2, <3>3, <3>4 DEF Step
  <2> QED
    BY <2>1, <2>2 DEF LimiterNext
<1> QED
  BY LimiterInvariance, <1>1, <1>2, PTL DEF LimiterSpec, BoundedInFlight, Abstract!SemSpec

-----------------------------------------------------------------------------
(***************************************************************************)
(* The sessions of the MCP client for any number of callers and any number *)
(* of recoveries: however Close, lost streams and recoveries interleave,   *)
(* whoever holds recoverMu answers for every session but the current one.  *)
(***************************************************************************)

Recovering == {"swap", "discard", "connect", "handshake", "counting"}
ClientLabels == {"idle", "check", "capture", "sending", "recover", "locking"} \cup Recovering
States == {"unused", "new", "live", "dead", "closed"}

(* Every variable keeps its type.                                          *)
ClientTypeOK ==
    /\ c \in [transport : Sessions, initialized : BOOLEAN, closed : BOOLEAN, recoveryGen : Nat]
    /\ tr \in [Sessions -> States]
    /\ lock \in ToolCallers \cup {"free"}
    /\ caller \in [ToolCallers -> [at : ClientLabels, tr : Sessions \cup {0}, gen : Nat, sends : Nat]]
    /\ up \in BOOLEAN
    /\ closing \in {"no", "gated", "flagged", "yes"}

(* recoverMu is held by the one caller inside reinitialize.                *)
LockHeld == \A p \in ToolCallers : caller[p].at \in Recovering <=> lock = p

(* The session in the holder's hands: the replaced one until it is closed, *)
(* then the current one.                                                   *)
ClientInHand ==
    \A p \in ToolCallers :
        /\ caller[p].at = "discard" => caller[p].tr \in Sessions /\ tr[c.transport] # "live"
        /\ caller[p].at \in {"connect", "handshake"} => caller[p].tr = c.transport

(* A session open besides the current one is about to be discarded.        *)
OneCurrent ==
    \A n \in Sessions : tr[n] = "live" =>
        n = c.transport \/ \E p \in ToolCallers : caller[p].at = "discard" /\ caller[p].tr = n

(* The gate comes before the flag and the flag before the transport; once  *)
(* Close is over, an open session belongs to a recovery it overtook.       *)
Closed ==
    /\ closing # "no" <=> c.closed
    /\ closing \in {"flagged", "yes"} => ~c.initialized
    /\ closing = "yes" /\ tr[c.transport] = "live" =>
           \E p \in ToolCallers : caller[p].at = "handshake"

ClientIInv == ClientTypeOK /\ LockHeld /\ ClientInHand /\ OneCurrent /\ Closed

-----------------------------------------------------------------------------

(* The connected client satisfies the invariant.                           *)
LEMMA ClientInitInv == MCInit => ClientIInv
  BY ClientAssumption DEF MCInit, ClientIInv, ClientTypeOK, LockHeld, ClientInHand, OneCurrent, Closed,
         Sessions, ClientLabels, States, Recovering

(* Steps of a caller outside reinitialize move only the caller itself.     *)
LEMMA OutsideInv ==
    ASSUME ClientIInv, NEW p \in ToolCallers,
           \/ Offered(p) \/ CallTool(p) \/ Capture(p) \/ Sent(p) \/ SendFailed(p) \/ Recover(p)
    PROVE  ClientIInv'
<1> USE DEF ClientIInv
<1>0. /\ UNCHANGED <<c, tr, lock, up, closing>>
      /\ caller[p].at \notin Recovering /\ caller'[p].at \notin Recovering
      /\ \A q \in ToolCallers \ {p} : caller'[q] = caller[q]
      /\ ClientTypeOK'
  <2>1. CASE Offered(p)
    BY <2>1 DEF Offered, At, ClientTypeOK, ClientLabels, Recovering
  <2>2. CASE CallTool(p)
    BY <2>2 DEF CallTool, At, Goto, ClientTypeOK, ClientLabels, Recovering
  <2>3. CASE Capture(p)
    <3> c.transport \in Sessions /\ caller[p].sends + 1 \in Nat /\ caller[p].gen \in Nat
      BY DEF ClientTypeOK
    <3> caller'[p] = [at |-> "sending", tr |-> c.transport, gen |-> caller[p].gen, sends |-> caller[p].sends + 1]
      BY <2>3 DEF Capture, ClientTypeOK
    <3> QED
      BY <2>3 DEF Capture, At, ClientTypeOK, ClientLabels, Recovering
  <2>4. CASE Sent(p)
    BY <2>4 DEF Sent, At, Goto, ClientTypeOK, ClientLabels, Recovering
  <2>5. CASE SendFailed(p)
    BY <2>5 DEF SendFailed, At, Goto, ClientTypeOK, ClientLabels, Recovering
  <2>6. CASE Recover(p)
    BY <2>6 DEF Recover, At, Goto, ClientTypeOK, ClientLabels, Recovering
  <2> QED
    BY <2>1, <2>2, <2>3, <2>4, <2>5, <2>6
<1>1. LockHeld'
  BY <1>0 DEF LockHeld
<1>2. ClientInHand' /\ OneCurrent' /\ Closed'
  BY <1>0 DEF ClientInHand, OneCurrent, Closed, Recovering
<1> QED
  BY <1>0, <1>1, <1>2

(* The lock is taken by a caller that finds nobody recovered.              *)
LEMMA RecoverLockedInv ==
    ASSUME ClientIInv, NEW p \in ToolCallers, RecoverLocked(p)
    PROVE  ClientIInv'
<1> USE DEF ClientIInv, RecoverLocked, At, Goto
<1>1. ClientTypeOK'
  BY DEF ClientTypeOK, ClientLabels, Recovering
<1>2. LockHeld'
  BY ClientAssumption DEF ClientTypeOK, LockHeld, Recovering
<1>0. /\ UNCHANGED <<c, tr, closing>>
      /\ caller[p].at = "locking" /\ caller'[p].at \in {"capture", "swap"}
      /\ \A q \in ToolCallers \ {p} : caller'[q] = caller[q]
  BY DEF ClientTypeOK
<1>3. ClientInHand'
  BY <1>0 DEF ClientInHand
<1>4. OneCurrent'
  BY <1>0 DEF OneCurrent
<1>5. Closed'
  BY <1>0 DEF Closed
<1> QED
  BY <1>1, <1>2, <1>3, <1>4, <1>5

(* A caller that moves on with a session keeps its shape.                  *)
ClientCallers == [ToolCallers -> [at : ClientLabels, tr : Sessions \cup {0}, gen : Nat, sends : Nat]]
LEMMA CallerMoves ==
    ASSUME caller \in ClientCallers, NEW q \in ToolCallers, NEW l \in ClientLabels, NEW s \in Sessions
    PROVE  [caller EXCEPT ![q] = [@ EXCEPT !.at = l, !.tr = s]] \in ClientCallers
<1>1. [caller[q] EXCEPT !.at = l, !.tr = s] \in [at : ClientLabels, tr : Sessions \cup {0}, gen : Nat, sends : Nat]
  BY DEF ClientCallers
<1> QED
  BY <1>1 DEF ClientCallers

(* The holder of the lock installs the fresh transport; what it replaces   *)
(* is the only session that can be open.                                   *)
LEMMA SwapInv ==
    ASSUME ClientIInv, NEW p \in ToolCallers, Swap(p)
    PROVE  ClientIInv'
<1> USE DEF ClientIInv, Swap, At
<1>0. /\ c.transport \in Sessions /\ c.transport + 1 \in Sessions
      /\ c'.transport = c.transport + 1 /\ c'.closed = c.closed /\ ~c'.initialized
      /\ tr'[c'.transport] = "new"
      /\ \A n \in Sessions : tr'[n] = "live" => tr[n] = "live"
      /\ caller'[p].at = "discard" /\ caller'[p].tr = c.transport
      /\ \A q \in ToolCallers \ {p} : caller'[q] = caller[q]
  BY ClientAssumption DEF ClientTypeOK, Sessions
<1>1. ClientTypeOK'
  <2>1. "discard" \in ClientLabels /\ "new" \in States
    BY DEF ClientLabels, Recovering, States
  <2>2. caller' \in ClientCallers
    <3>1. caller \in ClientCallers
      BY DEF ClientTypeOK, ClientCallers
    <3> QED
      BY <3>1, <1>0, <2>1, CallerMoves, Zenon
  <2>3. tr' \in [Sessions -> States]
    BY <2>1 DEF ClientTypeOK
  <2>4. c' \in [transport : Sessions, initialized : BOOLEAN, closed : BOOLEAN, recoveryGen : Nat]
    BY <1>0 DEF ClientTypeOK
  <2> QED
    BY <2>2, <2>3, <2>4 DEF ClientTypeOK, ClientCallers
<1>a. \A q \in ToolCallers \ {p} : caller[q].at \notin Recovering
  BY DEF LockHeld, Recovering
<1>2. LockHeld'
  BY <1>0, <1>a DEF LockHeld, Recovering
<1>3. ClientInHand'
  BY <1>0, <1>a DEF ClientInHand, Recovering
<1>4. OneCurrent'
  BY <1>0, <1>a DEF OneCurrent, Recovering
<1>5. Closed'
  BY <1>0 DEF Closed
<1> QED
  BY <1>1, <1>2, <1>3, <1>4, <1>5

(* The replaced session is closed before the fresh one connects.           *)
LEMMA DiscardInv ==
    ASSUME ClientIInv, NEW p \in ToolCallers, Discard(p)
    PROVE  ClientIInv'
<1> USE DEF ClientIInv, Discard, At
<1>0. /\ UNCHANGED <<c, lock, up, closing>>
      /\ caller[p].tr \in Sessions /\ tr'[caller[p].tr] = "closed"
      /\ \A n \in Sessions : n # caller[p].tr => tr'[n] = tr[n]
      /\ caller'[p].at = "connect" /\ caller'[p].tr = c.transport
      /\ \A q \in ToolCallers \ {p} : caller'[q] = caller[q]
      /\ c.transport \in Sessions /\ tr[c.transport] # "live"
  BY DEF ClientTypeOK, ClientInHand
<1>1. ClientTypeOK'
  <2>1. "connect" \in ClientLabels /\ "closed" \in States
    BY DEF ClientLabels, Recovering, States
  <2>2. caller' \in ClientCallers
    <3>1. caller \in ClientCallers
      BY DEF ClientTypeOK, ClientCallers
    <3> QED
      BY <3>1, <1>0, <2>1, CallerMoves, Zenon
  <2>3. tr' \in [Sessions -> States]
    BY <2>1 DEF ClientTypeOK
  <2> QED
    BY <1>0, <2>2, <2>3 DEF ClientTypeOK, ClientCallers
<1>a. \A q \in ToolCallers \ {p} : caller[q].at \notin Recovering
  BY DEF LockHeld, Recovering
<1>2. LockHeld'
  BY <1>0, <1>a DEF LockHeld, Recovering
<1>3. ClientInHand' /\ OneCurrent' /\ Closed'
  BY <1>0, <1>a DEF ClientInHand, OneCurrent, Closed, Recovering
<1> QED
  BY <1>1, <1>2, <1>3

(* The holder opens, abandons or completes the current session.            *)
LEMMA ConnectInv ==
    ASSUME ClientIInv, NEW p \in ToolCallers, Connect(p)
    PROVE  ClientIInv'
<1> USE DEF ClientIInv, Connect, At, Goto, GiveUpCall
<1>0. /\ UNCHANGED <<c, up, closing>>
      /\ c.transport \in Sessions /\ caller[p].tr = c.transport /\ lock = p
      /\ \A n \in Sessions : n # c.transport => tr'[n] = tr[n]
      /\ \A q \in ToolCallers \ {p} : caller'[q] = caller[q] /\ caller[q].at \notin Recovering
      /\ caller'[p].tr = caller[p].tr
      /\ \/ caller'[p].at = "handshake" /\ lock' = lock
         \/ caller'[p].at = "idle" /\ lock' = "free" /\ tr' = tr
  BY DEF ClientTypeOK, ClientInHand, LockHeld, Recovering
<1>1. ClientTypeOK'
  BY DEF ClientTypeOK, ClientLabels, Recovering, States
<1>2. LockHeld'
  BY <1>0, ClientAssumption DEF LockHeld, Recovering
<1>3. ClientInHand' /\ OneCurrent' /\ Closed'
  BY <1>0 DEF ClientInHand, OneCurrent, Closed, Recovering
<1> QED
  BY <1>1, <1>2, <1>3

(* Handshake keeps the invariant.                                          *)
LEMMA HandshakeInv ==
    ASSUME ClientIInv, NEW p \in ToolCallers, HandshakeFailed(p) \/ Handshake(p)
    PROVE  ClientIInv'
<1> USE DEF ClientIInv, At, Goto, GiveUpCall
<1>a. /\ c.transport \in Sessions /\ caller[p].tr = c.transport /\ lock = p
      /\ \A q \in ToolCallers \ {p} : caller[q].at \notin Recovering
  BY DEF HandshakeFailed, Handshake, ClientTypeOK, ClientInHand, LockHeld, Recovering
<1>0. /\ UNCHANGED <<up, closing>>
      /\ \A n \in Sessions : n # c.transport => tr'[n] = tr[n]
      /\ \A q \in ToolCallers \ {p} : caller'[q] = caller[q]
      /\ \/ caller'[p].at = "idle" /\ lock' = "free"
         \/ caller'[p].at = "counting" /\ lock' = lock
      /\ c'.transport = c.transport /\ c'.closed = c.closed
      /\ c' # c => ~c.closed
      /\ tr'[c.transport] = "live" => ~c.closed
      /\ ClientTypeOK'
  <2>1. CASE HandshakeFailed(p)
    BY <1>a, <2>1 DEF HandshakeFailed, ClientTypeOK, ClientLabels, Recovering, States
  <2>2. CASE Handshake(p) /\ recoveryGate
    <3> c' = [transport |-> c.transport, initialized |-> TRUE, closed |-> c.closed, recoveryGen |-> c.recoveryGen]
      BY <2>2 DEF Handshake, ClientTypeOK
    <3> QED
      BY <1>a, <2>2 DEF Handshake, ClientTypeOK, ClientLabels, Recovering, States, recoveryGate
  <2>3. CASE Handshake(p) /\ ~recoveryGate
    BY <1>a, <2>3 DEF Handshake, ClientTypeOK, ClientLabels, Recovering, States, recoveryGate
  <2> QED
    BY <2>1, <2>2, <2>3
<1>2. LockHeld'
  BY <1>a, <1>0, ClientAssumption DEF LockHeld, Recovering
<1>3. ClientInHand' /\ OneCurrent'
  BY <1>a, <1>0 DEF ClientInHand, OneCurrent, Recovering
<1>4. Closed'
  BY <1>a, <1>0 DEF Closed
<1> QED
  BY <1>0, <1>2, <1>3, <1>4

(* The generation counts the recovery, and the lock is given back.         *)
LEMMA CountRecoveryInv ==
    ASSUME ClientIInv, NEW p \in ToolCallers, CountRecovery(p)
    PROVE  ClientIInv'
<1> USE DEF ClientIInv, At, Goto
<1>a. lock = p /\ \A q \in ToolCallers \ {p} : caller[q].at \notin Recovering
  BY DEF CountRecovery, LockHeld, Recovering, ClientTypeOK
<1>0. /\ UNCHANGED <<tr, up, closing>> /\ lock' = "free"
      /\ \A q \in ToolCallers \ {p} : caller'[q] = caller[q]
      /\ caller[p].at = "counting" /\ caller'[p].at = "capture"
      /\ c'.transport = c.transport /\ c'.closed = c.closed /\ c'.initialized = c.initialized
      /\ ClientTypeOK'
  <2> c' = [transport |-> c.transport, initialized |-> c.initialized, closed |-> c.closed, recoveryGen |-> c.recoveryGen + 1]
    BY DEF CountRecovery, ClientTypeOK
  <2> QED
    BY <1>a DEF CountRecovery, ClientTypeOK, ClientLabels, Recovering, States
<1>1. LockHeld'
  BY <1>a, <1>0, ClientAssumption DEF LockHeld, Recovering
<1>2. ClientInHand' /\ OneCurrent' /\ Closed'
  BY <1>a, <1>0 DEF ClientInHand, OneCurrent, Closed, Recovering
<1> QED
  BY <1>0, <1>1, <1>2

(* Close and the environment: no session opens.                            *)
LEMMA OthersInv ==
    ASSUME ClientIInv, CloseStep \/ ServerDown \/ ServerUp \/ StreamLost
    PROVE  ClientIInv'
<1> USE DEF ClientIInv, CloseStep, CloseClient, ServerDown, ServerUp, StreamLost
<1>0. /\ UNCHANGED <<lock, caller>> /\ c'.transport = c.transport
      /\ \A n \in Sessions : tr'[n] = "live" => tr[n] = "live"
      /\ closing' = "yes" /\ closing # "yes" => tr'[c.transport] # "live"
      /\ ClientTypeOK'
  BY DEF ClientTypeOK, States
<1>1. LockHeld' /\ ClientInHand' /\ OneCurrent'
  BY <1>0 DEF ClientTypeOK, LockHeld, ClientInHand, OneCurrent
<1>2. Closed'
  BY <1>0 DEF ClientTypeOK, Closed
<1> QED
  BY <1>0, <1>1, <1>2

-----------------------------------------------------------------------------

(* The invariant of the client, for any callers and any bound on sessions. *)
THEOREM ClientInvariance == MCSpec => []ClientIInv
<1>1. ClientIInv /\ [MCNext]_clientVars => ClientIInv'
  <2> SUFFICES ASSUME ClientIInv, [MCNext]_clientVars PROVE ClientIInv'
    OBVIOUS
  <2>1. CASE UNCHANGED clientVars
    BY <2>1 DEF clientVars, ClientIInv, ClientTypeOK, LockHeld, ClientInHand, OneCurrent, Closed
  <2>2. ASSUME NEW p \in ToolCallers, Offered(p) \/ CallStep(p) PROVE ClientIInv'
    BY <2>2, OutsideInv, RecoverLockedInv, SwapInv, DiscardInv, ConnectInv, HandshakeInv, CountRecoveryInv
       DEF CallStep
  <2>3. CASE CloseStep \/ ServerDown \/ ServerUp \/ StreamLost
    BY <2>3, OthersInv
  <2> QED
    BY <2>1, <2>2, <2>3 DEF MCNext
<1> QED
  BY ClientInitInv, <1>1, PTL DEF MCSpec

(* Close is final and recovery leaves nothing behind: whenever no recovery *)
(* is in progress only the current session can be open, and once Close has *)
(* returned none is and the client is not initialized (reinitialize,       *)
(* Initialize and Close of internal/mcp/client.go).                        *)
THEOREM NoneResurrected == MCSpec => []NoSessionLeft
<1>1. ClientIInv => NoSessionLeft
  BY ClientAssumption DEF ClientIInv, LockHeld, OneCurrent, Closed, NoSessionLeft, Recovering
<1> QED
  BY ClientInvariance, <1>1, PTL
=============================================================================
