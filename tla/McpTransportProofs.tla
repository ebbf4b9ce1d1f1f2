------------------------ MODULE McpTransportProofs --------------------------
(***************************************************************************)
(* The safety of the MCP transport for any number of callers of Connect    *)
(* and SendRequest, and any capacity of the event channel.                 *)
(***************************************************************************)
EXTENDS McpTransport, TLAPS

(* A request that has not registered is not in the map and its channel is  *)
(* empty.                                                                  *)
Fresh ==
    \A r \in Calls : call[r] \in {"idle", "checked"} =>
        r \notin pending /\ box[r] = "empty"

(* The connect slot: whoever is between reserveConnectSlot and its release *)
(* is alone there, and the flag is up.                                     *)
Early == {"dialing", "dialed"}
Busy == Early \cup {"handshake", "starting", "completing"}

SlotHeld ==
    \A c \in Connectors : conn[c] \in Busy =>
        /\ t.connecting
        /\ \A d \in Connectors \ {c} : conn[d] \notin Busy

(* Until the loops run nothing was started, and until a body is registered *)
(* there is none.                                                          *)
NotStarted ==
    /\ readers = IF t.started THEN 1 ELSE 0
    /\ \A c \in Connectors : conn[c] \in Busy \ {"completing"} => ~t.started

DialsAlone == \A c \in Connectors : conn[c] \in Early => t.sseBody = None

StreamOwned ==
    \A c \in Connectors : stream[c] = "open" => conn[c] = "dialed" \/ t.sseBody = c

IInv ==
    /\ TransportTypeOK /\ MailboxFree /\ Fresh
    /\ SlotHeld /\ NotStarted /\ DialsAlone /\ StreamOwned

-----------------------------------------------------------------------------

(* The constructor's transport satisfies the invariant.                    *)
LEMMA InitInv == TransportInit => IInv
<1> SUFFICES ASSUME TransportInit PROVE IInv
  OBVIOUS
<1> USE TransportAssumption
<1>1. TransportTypeOK
  BY DEF TransportInit, TransportTypeOK, Transport, Loops
<1>2. MailboxFree /\ Fresh
  BY DEF TransportInit, MailboxFree, Fresh
<1>3. SlotHeld /\ NotStarted /\ DialsAlone /\ StreamOwned
  BY DEF TransportInit, SlotHeld, NotStarted, DialsAlone, StreamOwned, Busy, Early
<1> QED
  BY <1>1, <1>2, <1>3 DEF IInv

(* Every step keeps it: first the callers of Connect, ...                  *)

(* Connect keeps the invariant.                                            *)
LEMMA ConnectInv ==
    ASSUME IInv, NEW c \in Connectors,
           \/ reserveConnectSlot(c) \/ DialFailed(c) \/ Dialed(c)
           \/ RegisterBody(c) \/ abortHandshake(c) \/ Install(c)
           \/ StartLoops(c) \/ completeConnect(c) \/ MarkReady(c)
    PROVE  IInv'
<1> USE TransportAssumption
<1>1. CASE reserveConnectSlot(c)
  <2>1. TransportTypeOK'
    <3>1. CASE free
      <4>1. t' = [t EXCEPT !.connecting = TRUE]
        BY <1>1, <3>1 DEF reserveConnectSlot, IInv, TransportTypeOK, Transport
      <4> QED
        BY <1>1, <4>1 DEF IInv, TransportTypeOK, Transport, connAt, connTo, reserveConnectSlot
    <3>2. CASE ~free
      <4>1. t' = t
        BY <1>1, <3>2 DEF reserveConnectSlot, IInv, TransportTypeOK, Transport
      <4> QED
        BY <1>1, <4>1 DEF IInv, TransportTypeOK, connAt, connTo, reserveConnectSlot
    <3> QED
      BY <3>1, <3>2
  <2>2. MailboxFree' /\ Fresh'
    BY <1>1 DEF IInv, MailboxFree, Fresh, reserveConnectSlot
  <2>3. SlotHeld' /\ NotStarted' /\ DialsAlone' /\ StreamOwned'
    <3>1. CASE free
      <4>1. t' = [t EXCEPT !.connecting = TRUE] /\ conn' = [conn EXCEPT ![c] = "dialing"]
        BY <1>1, <3>1 DEF reserveConnectSlot, connTo, IInv, TransportTypeOK, Transport
      <4> QED
        BY <1>1, <3>1, <4>1 DEF IInv, TransportTypeOK, Transport, SlotHeld, NotStarted, DialsAlone,
           StreamOwned, Busy, Early, connAt, free, reserveConnectSlot
    <3>2. CASE ~free
      <4>1. t' = t /\ conn' = [conn EXCEPT ![c] = "refused"]
        BY <1>1, <3>2 DEF reserveConnectSlot, connTo, IInv, TransportTypeOK, Transport
      <4>2. readers' = readers /\ stream' = stream
        BY <1>1 DEF reserveConnectSlot
      <4>3. SlotHeld' /\ NotStarted'
        BY <4>1, <4>2 DEF IInv, TransportTypeOK, SlotHeld, NotStarted, Busy, Early
      <4>4. DialsAlone' /\ StreamOwned'
        BY <1>1, <4>1, <4>2 DEF IInv, TransportTypeOK, DialsAlone, StreamOwned, Early, connAt,
           reserveConnectSlot
      <4> QED
        BY <4>3, <4>4
    <3> QED
      BY <3>1, <3>2
  <2> QED
    BY <2>1, <2>2, <2>3 DEF IInv
<1>2. CASE DialFailed(c)
  <2>1. TransportTypeOK'
    BY <1>2 DEF IInv, TransportTypeOK, Transport, connTo, DialFailed
  <2>2. MailboxFree' /\ Fresh'
    BY <1>2 DEF IInv, MailboxFree, Fresh, DialFailed
  <2>3. SlotHeld' /\ NotStarted' /\ DialsAlone' /\ StreamOwned'
    BY <1>2 DEF IInv, TransportTypeOK, Transport, SlotHeld, NotStarted, DialsAlone,
       StreamOwned, Busy, Early, connAt, connTo, DialFailed
  <2> QED
    BY <2>1, <2>2, <2>3 DEF IInv
<1>3. CASE Dialed(c)
  <2>1. TransportTypeOK'
    BY <1>3 DEF IInv, TransportTypeOK, connTo, Dialed
  <2>2. MailboxFree' /\ Fresh'
    BY <1>3 DEF IInv, MailboxFree, Fresh, Dialed
  <2>3. SlotHeld' /\ NotStarted' /\ DialsAlone' /\ StreamOwned'
    BY <1>3 DEF IInv, TransportTypeOK, SlotHeld, NotStarted, DialsAlone, StreamOwned, Busy,
       Early, connAt, connTo, Dialed
  <2> QED
    BY <2>1, <2>2, <2>3 DEF IInv
<1>4. CASE RegisterBody(c)
  <2>1. TransportTypeOK'
    BY <1>4 DEF IInv, TransportTypeOK, Transport, connTo, RegisterBody
  <2>2. MailboxFree' /\ Fresh'
    BY <1>4 DEF IInv, MailboxFree, Fresh, RegisterBody
  <2>3. SlotHeld' /\ NotStarted' /\ DialsAlone' /\ StreamOwned'
    BY <1>4 DEF IInv, TransportTypeOK, Transport, SlotHeld, NotStarted, DialsAlone,
       StreamOwned, Busy, Early, connAt, connTo, RegisterBody
  <2> QED
    BY <2>1, <2>2, <2>3 DEF IInv
<1>5. CASE abortHandshake(c)
  <2>1. TransportTypeOK'
    BY <1>5 DEF IInv, TransportTypeOK, Transport, connTo, abortHandshake, closeBody
  <2>2. MailboxFree' /\ Fresh'
    BY <1>5 DEF IInv, MailboxFree, Fresh, abortHandshake
  <2>3. SlotHeld' /\ NotStarted' /\ DialsAlone' /\ StreamOwned'
    BY <1>5 DEF IInv, TransportTypeOK, Transport, SlotHeld, NotStarted, DialsAlone,
       StreamOwned, Busy, Early, connAt, connTo, abortHandshake, closeBody
  <2> QED
    BY <2>1, <2>2, <2>3 DEF IInv
<1>6. CASE Install(c)
  <2>1. TransportTypeOK'
    <3>1. CASE t.closed
      <4>1. t' \in Transport
        <5>1. t \in Transport /\ t' = [t EXCEPT !.connecting = FALSE]
          BY <1>6, <3>1 DEF IInv, TransportTypeOK, Install
        <5> QED
          BY ONLY <5>1 DEF Transport
      <4>2. stream' \in [Connectors -> {"none", "open", "closed"}]
        BY <1>6, <3>1 DEF IInv, TransportTypeOK, Install, closeBody
      <4> QED
        BY <1>6, <3>1, <4>1, <4>2 DEF IInv, TransportTypeOK, connTo, Install
    <3>2. CASE ~t.closed
      BY <1>6, <3>2 DEF IInv, TransportTypeOK, Transport, connAt, connTo, Install
    <3> QED
      BY <3>1, <3>2
  <2>2. MailboxFree' /\ Fresh'
    BY <1>6 DEF IInv, MailboxFree, Fresh, Install
  <2>3. SlotHeld' /\ NotStarted' /\ DialsAlone' /\ StreamOwned'
    BY <1>6 DEF IInv, TransportTypeOK, Transport, SlotHeld, NotStarted, DialsAlone,
       StreamOwned, Busy, Early, connAt, connTo, Install, closeBody
  <2> QED
    BY <2>1, <2>2, <2>3 DEF IInv
<1>7. CASE StartLoops(c)
  <2>1. TransportTypeOK'
    <3>1. readers' \in 0..1
      BY <1>7 DEF IInv, NotStarted, Busy, Early, connAt, StartLoops
    <3>2. t' \in Transport /\ loop' \in Loops
      BY <1>7 DEF IInv, TransportTypeOK, Transport, Loops, StartLoops
    <3> QED
      BY <1>7, <3>1, <3>2 DEF IInv, TransportTypeOK, connAt, connTo, StartLoops
  <2>2. MailboxFree' /\ Fresh'
    BY <1>7 DEF IInv, MailboxFree, Fresh, StartLoops
  <2>3. SlotHeld' /\ NotStarted' /\ DialsAlone' /\ StreamOwned'
    BY <1>7 DEF IInv, TransportTypeOK, Transport, SlotHeld, NotStarted, DialsAlone,
       StreamOwned, Busy, Early, connAt, connTo, StartLoops
  <2> QED
    BY <2>1, <2>2, <2>3 DEF IInv
<1>8. CASE completeConnect(c)
  <2>1. TransportTypeOK'
    BY <1>8 DEF IInv, TransportTypeOK, Transport, connTo, completeConnect
  <2>2. MailboxFree' /\ Fresh'
    BY <1>8 DEF IInv, MailboxFree, Fresh, completeConnect
  <2>3. SlotHeld' /\ NotStarted' /\ DialsAlone' /\ StreamOwned'
    BY <1>8 DEF IInv, TransportTypeOK, Transport, SlotHeld, NotStarted, DialsAlone,
       StreamOwned, Busy, Early, connAt, connTo, completeConnect
  <2> QED
    BY <2>1, <2>2, <2>3 DEF IInv
<1>9. CASE MarkReady(c)
  <2>1. TransportTypeOK'
    BY <1>9 DEF IInv, TransportTypeOK, Transport, connTo, MarkReady
  <2>2. MailboxFree' /\ Fresh'
    BY <1>9 DEF IInv, MailboxFree, Fresh, MarkReady
  <2>3. SlotHeld' /\ NotStarted' /\ DialsAlone' /\ StreamOwned'
    BY <1>9 DEF IInv, TransportTypeOK, Transport, SlotHeld, NotStarted, DialsAlone,
       StreamOwned, Busy, Early, connAt, connTo, MarkReady
  <2> QED
    BY <2>1, <2>2, <2>3 DEF IInv
<1> QED
  BY <1>1, <1>2, <1>3, <1>4, <1>5, <1>6, <1>7, <1>8, <1>9

(* ... then the callers of SendRequest, ...                                *)
LEMMA RequestInv ==
    ASSUME IInv, NEW r \in Calls,
           \/ CheckReady(r) \/ Register(r) \/ Recheck(r) \/ Post(r)
           \/ Receive(r) \/ TimeOut(r)
    PROVE  IInv'
<1> USE TransportAssumption
<1>1. CASE CheckReady(r)
  <2>1. TransportTypeOK'
    BY <1>1 DEF IInv, TransportTypeOK, Returned, CheckReady
  <2>2. MailboxFree' /\ Fresh'
    BY <1>1 DEF IInv, TransportTypeOK, MailboxFree, Fresh, Returned, CheckReady
  <2>3. SlotHeld' /\ NotStarted' /\ DialsAlone' /\ StreamOwned'
    BY <1>1 DEF IInv, SlotHeld, NotStarted, DialsAlone, StreamOwned, CheckReady
  <2> QED
    BY <2>1, <2>2, <2>3 DEF IInv
<1>2. CASE Register(r)
  <2>1. TransportTypeOK'
    BY <1>2 DEF IInv, TransportTypeOK, Returned, Register
  <2>2. MailboxFree' /\ Fresh'
    BY <1>2 DEF IInv, TransportTypeOK, MailboxFree, Fresh, Returned, Register
  <2>3. SlotHeld' /\ NotStarted' /\ DialsAlone' /\ StreamOwned'
    BY <1>2 DEF IInv, SlotHeld, NotStarted, DialsAlone, StreamOwned, Register
  <2> QED
    BY <2>1, <2>2, <2>3 DEF IInv
<1>3. CASE Recheck(r)
  <2>1. TransportTypeOK'
    BY <1>3 DEF IInv, TransportTypeOK, Returned, Recheck
  <2>2. MailboxFree' /\ Fresh'
    BY <1>3 DEF IInv, TransportTypeOK, MailboxFree, Fresh, Returned, Recheck
  <2>3. SlotHeld' /\ NotStarted' /\ DialsAlone' /\ StreamOwned'
    BY <1>3 DEF IInv, SlotHeld, NotStarted, DialsAlone, StreamOwned, Recheck
  <2> QED
    BY <2>1, <2>2, <2>3 DEF IInv
<1>4. CASE Post(r)
  <2>1. TransportTypeOK'
    BY <1>4 DEF IInv, TransportTypeOK, Returned, Post, returns
  <2>2. MailboxFree' /\ Fresh'
    BY <1>4 DEF IInv, TransportTypeOK, MailboxFree, Fresh, Returned, Post, returns
  <2>3. SlotHeld' /\ NotStarted' /\ DialsAlone' /\ StreamOwned'
    BY <1>4 DEF IInv, SlotHeld, NotStarted, DialsAlone, StreamOwned, Post
  <2> QED
    BY <2>1, <2>2, <2>3 DEF IInv
<1>5. CASE Receive(r)
  <2>1. TransportTypeOK'
    BY <1>5 DEF IInv, TransportTypeOK, Returned, Receive, returns
  <2>2. MailboxFree' /\ Fresh'
    BY <1>5 DEF IInv, TransportTypeOK, MailboxFree, Fresh, Returned, Receive, returns
  <2>3. SlotHeld' /\ NotStarted' /\ DialsAlone' /\ StreamOwned'
    BY <1>5 DEF IInv, SlotHeld, NotStarted, DialsAlone, StreamOwned, Receive
  <2> QED
    BY <2>1, <2>2, <2>3 DEF IInv
<1>6. CASE TimeOut(r)
  <2>1. TransportTypeOK'
    BY <1>6 DEF IInv, TransportTypeOK, Returned, TimeOut, returns
  <2>2. MailboxFree' /\ Fresh'
    BY <1>6 DEF IInv, TransportTypeOK, MailboxFree, Fresh, Returned, TimeOut, returns
  <2>3. SlotHeld' /\ NotStarted' /\ DialsAlone' /\ StreamOwned'
    BY <1>6 DEF IInv, SlotHeld, NotStarted, DialsAlone, StreamOwned, TimeOut
  <2> QED
    BY <2>1, <2>2, <2>3 DEF IInv
<1> QED
  BY <1>1, <1>2, <1>3, <1>4, <1>5, <1>6

(* ... the three loops and Close.                                          *)
LEMMA LoopInv ==
    ASSUME IInv, 
           \/ ReadEvent \/ StreamLost \/ ReaderSeesClose \/ ReaderFailsPending
           \/ ReaderEnds \/ DispatchResponse \/ DispatchEndpoint
           \/ EndpointMarks \/ DispatchEnds \/ PingFails \/ PingSucceeds
           \/ PingMarks \/ KeepaliveEnds \/ CloseStart \/ CloseCancels
           \/ CloseFailsPending \/ CloseJoins \/ CloseGivesUp \/ CloseSweeps
    PROVE  IInv'
<1> USE TransportAssumption
<1>1. CASE ReadEvent
  <2>1. TransportTypeOK'
    <3>1. PICK e \in Calls \cup {"endpoint"} : events' = Append(events, e)
      BY <1>1 DEF IInv, TransportTypeOK, ReadEvent
    <3>2. events' \in Seq(Calls \cup {"endpoint"}) /\ Len(events') <= EventCap
      BY <1>1, <3>1 DEF IInv, TransportTypeOK, ReadEvent
    <3>3. answers' \subseteq Calls
      BY <1>1 DEF IInv, TransportTypeOK, ReadEvent
    <3> QED
      BY <1>1, <3>2, <3>3 DEF IInv, TransportTypeOK, ReadEvent
  <2>2. MailboxFree' /\ Fresh'
    BY <1>1 DEF IInv, MailboxFree, Fresh, ReadEvent
  <2>3. SlotHeld' /\ NotStarted' /\ DialsAlone' /\ StreamOwned'
    BY <1>1 DEF IInv, SlotHeld, NotStarted, DialsAlone, StreamOwned, ReadEvent
  <2> QED
    BY <2>1, <2>2, <2>3 DEF IInv
<1>2. CASE StreamLost
  <2>1. TransportTypeOK'
    BY <1>2 DEF IInv, TransportTypeOK, Transport, Loops, StreamLost, Reading
  <2>2. MailboxFree' /\ Fresh'
    BY <1>2 DEF IInv, MailboxFree, Fresh, StreamLost
  <2>3. SlotHeld' /\ NotStarted' /\ DialsAlone' /\ StreamOwned'
    BY <1>2 DEF IInv, TransportTypeOK, Transport, SlotHeld, NotStarted, DialsAlone,
       StreamOwned, StreamLost, Reading
  <2> QED
    BY <2>1, <2>2, <2>3 DEF IInv
<1>3. CASE ReaderSeesClose
  <2>1. TransportTypeOK'
    BY <1>3 DEF IInv, TransportTypeOK, Loops, ReaderSeesClose, Reading
  <2>2. MailboxFree' /\ Fresh'
    BY <1>3 DEF IInv, MailboxFree, Fresh, ReaderSeesClose
  <2>3. SlotHeld' /\ NotStarted' /\ DialsAlone' /\ StreamOwned'
    BY <1>3 DEF IInv, SlotHeld, NotStarted, DialsAlone, StreamOwned, ReaderSeesClose
  <2> QED
    BY <2>1, <2>2, <2>3 DEF IInv
<1>4. CASE ReaderFailsPending
  <2>1. TransportTypeOK'
    BY <1>4 DEF IInv, TransportTypeOK, Loops, ReaderFailsPending, failPending
  <2>2. MailboxFree' /\ Fresh'
    BY <1>4 DEF IInv, TransportTypeOK, MailboxFree, Fresh, ReaderFailsPending, failPending
  <2>3. SlotHeld' /\ NotStarted' /\ DialsAlone' /\ StreamOwned'
    BY <1>4 DEF IInv, SlotHeld, NotStarted, DialsAlone, StreamOwned,
       ReaderFailsPending
  <2> QED
    BY <2>1, <2>2, <2>3 DEF IInv
<1>5. CASE ReaderEnds
  <2>1. TransportTypeOK'
    BY <1>5 DEF IInv, TransportTypeOK, Transport, Loops, ReaderEnds, closeBody
  <2>2. MailboxFree' /\ Fresh'
    BY <1>5 DEF IInv, MailboxFree, Fresh, ReaderEnds
  <2>3. SlotHeld' /\ NotStarted' /\ DialsAlone' /\ StreamOwned'
    BY <1>5 DEF IInv, TransportTypeOK, Transport, SlotHeld, NotStarted, DialsAlone,
       StreamOwned, ReaderEnds, closeBody
  <2> QED
    BY <2>1, <2>2, <2>3 DEF IInv
<1>6. CASE DispatchResponse
  <2>1. TransportTypeOK'
    BY <1>6 DEF IInv, TransportTypeOK, DispatchResponse, delivered
  <2>2. MailboxFree' /\ Fresh'
    BY <1>6 DEF IInv, TransportTypeOK, MailboxFree, Fresh, DispatchResponse, delivered
  <2>3. SlotHeld' /\ NotStarted' /\ DialsAlone' /\ StreamOwned'
    BY <1>6 DEF IInv, SlotHeld, NotStarted, DialsAlone, StreamOwned, DispatchResponse
  <2> QED
    BY <2>1, <2>2, <2>3 DEF IInv
<1>7. CASE DispatchEndpoint
  <2>1. TransportTypeOK'
    <3>1. events' \in Seq(Calls \cup {"endpoint"}) /\ Len(events') <= EventCap
      BY <1>7 DEF IInv, TransportTypeOK, DispatchEndpoint
    <3>2. t' \in Transport
      BY <1>7 DEF IInv, TransportTypeOK, Transport, DispatchEndpoint
    <3>3. loop' \in Loops
      BY <1>7 DEF IInv, TransportTypeOK, Loops, DispatchEndpoint
    <3> QED
      BY <1>7, <3>1, <3>2, <3>3 DEF IInv, TransportTypeOK, DispatchEndpoint
  <2>2. MailboxFree' /\ Fresh'
    BY <1>7 DEF IInv, MailboxFree, Fresh, DispatchEndpoint
  <2>3. SlotHeld' /\ NotStarted' /\ DialsAlone' /\ StreamOwned'
    BY <1>7 DEF IInv, TransportTypeOK, Transport, SlotHeld, NotStarted, DialsAlone,
       StreamOwned, DispatchEndpoint
  <2> QED
    BY <2>1, <2>2, <2>3 DEF IInv
<1>8. CASE EndpointMarks
  <2>1. TransportTypeOK'
    BY <1>8 DEF IInv, TransportTypeOK, Transport, Loops, EndpointMarks
  <2>2. MailboxFree' /\ Fresh'
    BY <1>8 DEF IInv, MailboxFree, Fresh, EndpointMarks
  <2>3. SlotHeld' /\ NotStarted' /\ DialsAlone' /\ StreamOwned'
    BY <1>8 DEF IInv, TransportTypeOK, Transport, SlotHeld, NotStarted, DialsAlone,
       StreamOwned, EndpointMarks
  <2> QED
    BY <2>1, <2>2, <2>3 DEF IInv
<1>9. CASE DispatchEnds
  <2>1. TransportTypeOK'
    BY <1>9 DEF IInv, TransportTypeOK, Loops, DispatchEnds
  <2>2. MailboxFree' /\ Fresh'
    BY <1>9 DEF IInv, MailboxFree, Fresh, DispatchEnds
  <2>3. SlotHeld' /\ NotStarted' /\ DialsAlone' /\ StreamOwned'
    BY <1>9 DEF IInv, SlotHeld, NotStarted, DialsAlone, StreamOwned, DispatchEnds
  <2> QED
    BY <2>1, <2>2, <2>3 DEF IInv
<1>10. CASE PingFails
  <2>1. TransportTypeOK'
    BY <1>10 DEF IInv, TransportTypeOK, Transport, PingFails
  <2>2. MailboxFree' /\ Fresh'
    BY <1>10 DEF IInv, MailboxFree, Fresh, PingFails
  <2>3. SlotHeld' /\ NotStarted' /\ DialsAlone' /\ StreamOwned'
    BY <1>10 DEF IInv, TransportTypeOK, Transport, SlotHeld, NotStarted, DialsAlone,
       StreamOwned, PingFails
  <2> QED
    BY <2>1, <2>2, <2>3 DEF IInv
<1>11. CASE PingSucceeds
  <2>1. TransportTypeOK'
    BY <1>11 DEF IInv, TransportTypeOK, Loops, PingSucceeds
  <2>2. MailboxFree' /\ Fresh'
    BY <1>11 DEF IInv, MailboxFree, Fresh, PingSucceeds
  <2>3. SlotHeld' /\ NotStarted' /\ DialsAlone' /\ StreamOwned'
    BY <1>11 DEF IInv, SlotHeld, NotStarted, DialsAlone, StreamOwned, PingSucceeds
  <2> QED
    BY <2>1, <2>2, <2>3 DEF IInv
<1>12. CASE PingMarks
  <2>1. TransportTypeOK'
    BY <1>12 DEF IInv, TransportTypeOK, Transport, Loops, PingMarks
  <2>2. MailboxFree' /\ Fresh'
    BY <1>12 DEF IInv, MailboxFree, Fresh, PingMarks
  <2>3. SlotHeld' /\ NotStarted' /\ DialsAlone' /\ StreamOwned'
    BY <1>12 DEF IInv, TransportTypeOK, Transport, SlotHeld, NotStarted, DialsAlone,
       StreamOwned, PingMarks
  <2> QED
    BY <2>1, <2>2, <2>3 DEF IInv
<1>13. CASE KeepaliveEnds
  <2>1. TransportTypeOK'
    BY <1>13 DEF IInv, TransportTypeOK, Loops, KeepaliveEnds
  <2>2. MailboxFree' /\ Fresh'
    BY <1>13 DEF IInv, MailboxFree, Fresh, KeepaliveEnds
  <2>3. SlotHeld' /\ NotStarted' /\ DialsAlone' /\ StreamOwned'
    BY <1>13 DEF IInv, SlotHeld, NotStarted, DialsAlone, StreamOwned, KeepaliveEnds
  <2> QED
    BY <2>1, <2>2, <2>3 DEF IInv
<1>14. CASE CloseStart
  <2>1. TransportTypeOK'
    BY <1>14 DEF IInv, TransportTypeOK, Transport, Loops, CloseStart
  <2>2. MailboxFree' /\ Fresh'
    BY <1>14 DEF IInv, MailboxFree, Fresh, CloseStart
  <2>3. SlotHeld' /\ NotStarted' /\ DialsAlone' /\ StreamOwned'
    BY <1>14 DEF IInv, TransportTypeOK, Transport, SlotHeld, NotStarted, DialsAlone,
       StreamOwned, CloseStart
  <2> QED
    BY <2>1, <2>2, <2>3 DEF IInv
<1>15. CASE CloseCancels
  <2>1. TransportTypeOK'
    BY <1>15 DEF IInv, TransportTypeOK, Transport, Loops, CloseCancels, stop
  <2>2. MailboxFree' /\ Fresh'
    BY <1>15 DEF IInv, MailboxFree, Fresh, CloseCancels
  <2>3. SlotHeld' /\ NotStarted' /\ DialsAlone' /\ StreamOwned'
    BY <1>15 DEF IInv, TransportTypeOK, Transport, SlotHeld, NotStarted, DialsAlone,
       StreamOwned, CloseCancels, stop
  <2> QED
    BY <2>1, <2>2, <2>3 DEF IInv
<1>16. CASE CloseFailsPending
  <2>1. TransportTypeOK'
    BY <1>16 DEF IInv, TransportTypeOK, Loops, CloseFailsPending, failPending
  <2>2. MailboxFree' /\ Fresh'
    BY <1>16 DEF IInv, TransportTypeOK, MailboxFree, Fresh, CloseFailsPending, failPending
  <2>3. SlotHeld' /\ NotStarted' /\ DialsAlone' /\ StreamOwned'
    BY <1>16 DEF IInv, SlotHeld, NotStarted, DialsAlone, StreamOwned,
       CloseFailsPending
  <2> QED
    BY <2>1, <2>2, <2>3 DEF IInv
<1>17. CASE CloseJoins
  <2>1. TransportTypeOK'
    BY <1>17 DEF IInv, TransportTypeOK, Loops, CloseJoins
  <2>2. MailboxFree' /\ Fresh'
    BY <1>17 DEF IInv, MailboxFree, Fresh, CloseJoins
  <2>3. SlotHeld' /\ NotStarted' /\ DialsAlone' /\ StreamOwned'
    BY <1>17 DEF IInv, SlotHeld, NotStarted, DialsAlone, StreamOwned, CloseJoins
  <2> QED
    BY <2>1, <2>2, <2>3 DEF IInv
<1>18. CASE CloseGivesUp
  <2>1. TransportTypeOK'
    BY <1>18 DEF IInv, TransportTypeOK, Loops, CloseGivesUp
  <2>2. MailboxFree' /\ Fresh'
    BY <1>18 DEF IInv, MailboxFree, Fresh, CloseGivesUp
  <2>3. SlotHeld' /\ NotStarted' /\ DialsAlone' /\ StreamOwned'
    BY <1>18 DEF IInv, SlotHeld, NotStarted, DialsAlone, StreamOwned, CloseGivesUp
  <2> QED
    BY <2>1, <2>2, <2>3 DEF IInv
<1>19. CASE CloseSweeps
  <2>1. TransportTypeOK'
    BY <1>19 DEF IInv, TransportTypeOK, Transport, Loops, CloseSweeps, closeBody
  <2>2. MailboxFree' /\ Fresh'
    BY <1>19 DEF IInv, MailboxFree, Fresh, CloseSweeps
  <2>3. SlotHeld' /\ NotStarted' /\ DialsAlone' /\ StreamOwned'
    BY <1>19 DEF IInv, TransportTypeOK, Transport, SlotHeld, NotStarted, DialsAlone,
       StreamOwned, CloseSweeps, closeBody
  <2> QED
    BY <2>1, <2>2, <2>3 DEF IInv
<1> QED
  BY <1>1, <1>2, <1>3, <1>4, <1>5, <1>6, <1>7, <1>8, <1>9, <1>10, <1>11, <1>12, <1>13,
     <1>14, <1>15, <1>16, <1>17, <1>18, <1>19

(* The invariant holds throughout.                                         *)
THEOREM Invariance == TransportSpec => []IInv
<1>1. IInv /\ [TransportNext]_tvars => IInv'
  <2> SUFFICES ASSUME IInv, [TransportNext]_tvars PROVE IInv'
    OBVIOUS
  <2>1. CASE UNCHANGED tvars
    BY <2>1 DEF tvars, IInv, TransportTypeOK, MailboxFree, Fresh, SlotHeld, NotStarted, DialsAlone,
       StreamOwned
  <2>2. ASSUME NEW c \in Connectors, reserveConnectSlot(c) \/ Connect(c) PROVE IInv'
    BY <2>2, ConnectInv DEF Connect
  <2>3. ASSUME NEW r \in Calls, CheckReady(r) \/ SendRequest(r) \/ TimeOut(r)
        PROVE  IInv'
    BY <2>3, RequestInv DEF SendRequest
  <2>4. CASE \/ ReadEvent \/ StreamLost \/ ReaderStops \/ eventDispatchLoop
             \/ PingFails \/ PingSucceeds \/ PingMarks \/ KeepaliveEnds
             \/ CloseStart \/ CloseRuns \/ CloseGivesUp
    BY <2>4, LoopInv DEF ReaderStops, eventDispatchLoop, CloseRuns
  <2> QED
    BY <2>1, <2>2, <2>3, <2>4 DEF TransportNext
<1> QED
  BY InitInv, <1>1, PTL DEF TransportSpec

(* The variables keep their types and the read loop is started at most     *)
(* once, so close(t.doneCh) runs at most once.                             *)
THEOREM TypeCorrect == TransportSpec => []TransportTypeOK
<1>1. IInv => TransportTypeOK
  BY DEF IInv
<1> QED
  BY Invariance, <1>1, PTL

(* The send of failPending, under pendingMu, never finds a full channel.   *)
THEOREM FailPendingNeverBlocks == TransportSpec => []MailboxFree
<1>1. IInv => MailboxFree
  BY DEF IInv
<1> QED
  BY Invariance, <1>1, PTL

(* Connect never leaves a second stream open, nor one that Close and the   *)
(* read loop cannot find.                                                  *)
THEOREM SingleStream == TransportSpec => []OneStream
<1>1. IInv => OneStream
  <2> SUFFICES ASSUME IInv, NEW c \in Connectors, stream[c] = "open"
               PROVE  /\ \A d \in Connectors \ {c} : stream[d] # "open"
                      /\ connAt(c, "dialed") \/ t.sseBody = c
    BY DEF OneStream
  <2>1. connAt(c, "dialed") \/ t.sseBody = c
    BY DEF IInv, StreamOwned, connAt
  <2>2. ASSUME NEW d \in Connectors \ {c}, stream[d] = "open" PROVE FALSE
    BY <2>1, <2>2, TransportAssumption DEF IInv, StreamOwned, DialsAlone, SlotHeld,
       Busy, Early, connAt
  <2> QED
    BY <2>1, <2>2
<1> QED
  BY Invariance, <1>1, PTL
=============================================================================
