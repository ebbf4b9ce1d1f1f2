---------------------------- MODULE McpTransport ----------------------------
(***************************************************************************)
(* HTTPTransport (internal/mcp/transport.go): one server-sent-events       *)
(* stream to an MCP server, requests posted next to it, and the goroutines *)
(* around them.  Actors: callers of Connect, callers of SendRequest, the   *)
(* read loop, the dispatch loop, the keepalive loop and the caller of      *)
(* Close.  What is done under one mutex, or by one atomic, is one step.    *)
(*                                                                         *)
(* The server may answer a POST at once, accept it and answer over the     *)
(* stream later or never, refuse it, and drop the stream at any time.      *)
(* Calls differ only in their ids; endpoints only in being known.          *)
(***************************************************************************)
EXTENDS Integers, Sequences, FiniteSets

CONSTANTS
    Connectors,     \* callers of Connect; a caller's stream has its name
    Calls,          \* calls of SendRequest, each with an id of its own
    None,           \* no body registered
    EventCap        \* capacity of eventCh

VARIABLES
    t,              \* fields of the transport
    stream,         \* per connector: its response body, "none", "open" or "closed"
    pending,        \* ids in the pending map
    box,            \* per request: what its channel holds
    events,         \* eventCh
    conn,           \* per connector: label
    loop,           \* labels of the three loops and of Close
    call,           \* per request: label, or how the call returned
    answers,        \* ids the server has answers for, not pushed yet
    readers         \* history: read loops started

tvars == <<t, stream, pending, box, events, conn, loop, call, answers, readers>>

ASSUME TransportAssumption ==
    /\ IsFiniteSet(Calls)
    /\ None \notin Connectors
    /\ "endpoint" \notin Calls
    /\ EventCap \in Nat \ {0}

Transport ==
    [closed : BOOLEAN, ready : BOOLEAN, connecting : BOOLEAN, endpoint : BOOLEAN,
     started : BOOLEAN, done : BOOLEAN, closeCh : BOOLEAN, canceled : BOOLEAN,
     sseBody : Connectors \cup {None}]

Loops ==
    [read : {"off", "reading", "failing", "closing", "ended"},
     event : {"off", "idle", "checked", "ended"},
     keep : {"off", "idle", "checked", "ended"},
     close : {"idle", "stopping", "failing", "joining", "sweeping", "finished"}]

Returned == {"answered", "failed", "timeout", "closed", "notready"}

-----------------------------------------------------------------------------
(* Connect.                                                                *)

connAt(c, label) == conn[c] = label
connTo(c, label) == conn' = [conn EXCEPT ![c] = label]

(* Mutant: a Connect in flight does not reserve the slot.                  *)
freeWhileDialing == ~t.closed /\ t.sseBody = None /\ ~t.started

(* reserveConnectSlot: the transport is single-use.                        *)
free == ~t.closed /\ t.sseBody = None /\ ~t.connecting /\ ~t.started

reserveConnectSlot(c) ==
    /\ connAt(c, "idle")
    /\ connTo(c, IF free THEN "dialing" ELSE "refused")
    /\ t' = [t EXCEPT !.connecting = @ \/ free]
    /\ UNCHANGED <<stream, pending, box, events, loop, call, answers, readers>>

(* The GET fails or is refused: the slot is released, Connect may be       *)
(* called again.  Close cancels a GET that is still waiting.               *)
DialFailed(c) ==
    /\ connAt(c, "dialing")
    /\ connTo(c, "idle")
    /\ t' = [t EXCEPT !.connecting = FALSE]
    /\ UNCHANGED <<stream, pending, box, events, loop, call, answers, readers>>

Dialed(c) ==
    /\ connAt(c, "dialing") /\ ~t.canceled
    /\ connTo(c, "dialed")
    /\ stream' = [stream EXCEPT ![c] = "open"]
    /\ UNCHANGED <<t, pending, box, events, loop, call, answers, readers>>

RegisterBody(c) ==
    /\ connAt(c, "dialed")
    /\ connTo(c, "handshake")
    /\ t' = [t EXCEPT !.endpoint = FALSE, !.sseBody = c]
    /\ UNCHANGED <<stream, pending, box, events, loop, call, answers, readers>>

closeBody(b) == [c \in Connectors |-> IF c = b THEN "closed" ELSE stream[c]]

(* No endpoint event in time, a bad one, or the stream was cut.  The body  *)
(* is closed unless Close has taken it.                                    *)
abortHandshake(c) ==
    /\ connAt(c, "handshake")
    /\ connTo(c, "idle")
    /\ t' = [t EXCEPT !.connecting = FALSE, !.sseBody = None]
    /\ stream' = closeBody(t.sseBody)
    /\ UNCHANGED <<pending, box, events, loop, call, answers, readers>>

(* The endpoint arrived: install the stream unless Close has won.          *)
Install(c) ==
    /\ connAt(c, "handshake")
    /\ IF t.closed
       THEN /\ connTo(c, "refused")
            /\ t' = [t EXCEPT !.connecting = FALSE]
            /\ stream' = closeBody(c)
       ELSE /\ connTo(c, "starting")
            /\ t' = [t EXCEPT !.endpoint = TRUE]
            /\ UNCHANGED stream
    /\ UNCHANGED <<pending, box, events, loop, call, answers, readers>>

StartLoops(c) ==
    /\ connAt(c, "starting")
    /\ connTo(c, "completing")
    /\ t' = [t EXCEPT !.started = TRUE]
    /\ loop' = [loop EXCEPT !.read = "reading", !.event = "idle", !.keep = "idle"]
    /\ readers' = readers + 1
    /\ UNCHANGED <<stream, pending, box, events, call, answers>>

(* completeConnect: the slot is released; then the stream is looked at,    *)
(* and the flag is set in a step of its own.                               *)
completeConnect(c) ==
    /\ connAt(c, "completing")
    /\ connTo(c, CASE t.closed -> "refused"
                 [] ~t.closed /\ t.done -> "connected"
                 [] OTHER -> "marking")
    /\ t' = [t EXCEPT !.connecting = FALSE]
    /\ UNCHANGED <<stream, pending, box, events, loop, call, answers, readers>>

MarkReady(c) ==
    /\ connAt(c, "marking")
    /\ connTo(c, "connected")
    /\ t' = [t EXCEPT !.ready = TRUE]
    /\ UNCHANGED <<stream, pending, box, events, loop, call, answers, readers>>

-----------------------------------------------------------------------------
(* SendRequest.                                                            *)

CheckReady(r) ==
    /\ call[r] = "idle"
    /\ call' = [call EXCEPT ![r] = CASE t.closed -> "closed"
                                   [] ~t.closed /\ ~t.ready -> "notready"
                                   [] OTHER -> "checked"]
    /\ UNCHANGED <<t, stream, pending, box, events, conn, loop, answers, readers>>

Register(r) ==
    /\ call[r] = "checked"
    /\ call' = [call EXCEPT ![r] = "registered"]
    /\ pending' = pending \cup {r}
    /\ UNCHANGED <<t, stream, box, events, conn, loop, answers, readers>>

(* Mutant: a Close that raced the registration goes unnoticed.             *)
NoRecheck(r) ==
    /\ call[r] = "registered"
    /\ call' = [call EXCEPT ![r] = "posting"]
    /\ UNCHANGED <<t, stream, pending, box, events, conn, loop, answers, readers>>

(* The second look at closed returns before the deferred delete is set up. *)
Recheck(r) ==
    /\ call[r] = "registered"
    /\ call' = [call EXCEPT ![r] = IF t.closed THEN "closed" ELSE "posting"]
    /\ UNCHANGED <<t, stream, pending, box, events, conn, loop, answers, readers>>

(* The call returns and its deferred delete runs.                          *)
returns(r, how) ==
    /\ call' = [call EXCEPT ![r] = how]
    /\ pending' = pending \ {r}

(* The POST is accepted, to be answered over the stream or never, or it    *)
(* carries the answer, or fails (an unknown endpoint included).            *)
Post(r) ==
    /\ call[r] = "posting"
    /\ \/ /\ t.endpoint
          /\ call' = [call EXCEPT ![r] = "waiting"]
          /\ answers' \in {answers, answers \cup {r}}
          /\ UNCHANGED pending
       \/ t.endpoint /\ returns(r, "answered") /\ UNCHANGED answers
       \/ returns(r, "failed") /\ UNCHANGED answers
    /\ UNCHANGED <<t, stream, box, events, conn, loop, readers>>

(* waitForJSONRPCResponse: an answer, or RequestTimeout.                   *)
Receive(r) ==
    /\ call[r] = "waiting" /\ box[r] # "empty"
    /\ returns(r, box[r])
    /\ box' = [box EXCEPT ![r] = "empty"]
    /\ UNCHANGED <<t, stream, events, conn, loop, answers, readers>>

TimeOut(r) ==
    /\ call[r] = "waiting"
    /\ returns(r, "timeout")
    /\ UNCHANGED <<t, stream, box, events, conn, loop, answers, readers>>

-----------------------------------------------------------------------------
(* failPending: every registered channel gets an error, under pendingMu.   *)
failPending ==
    /\ box' = [r \in Calls |-> IF r \in pending THEN "failed" ELSE box[r]]
    /\ pending' = {}

(* sseReadLoop: it queues what arrives (what was buffered before a cancel  *)
(* included), and ends when the stream breaks or the transport is closed.  *)
Reading == loop.read = "reading"

ReadEvent ==
    /\ Reading /\ Len(events) < EventCap
    /\ \/ \E r \in answers : events' = Append(events, r) /\ answers' = answers \ {r}
       \/ events' = Append(events, "endpoint") /\ UNCHANGED answers
    /\ UNCHANGED <<t, stream, pending, box, conn, loop, call, readers>>

(* The server drops the stream, or Close has canceled it.                  *)
StreamLost ==
    /\ Reading
    /\ loop' = [loop EXCEPT !.read = "failing"]
    /\ t' = [t EXCEPT !.ready = @ /\ t.closed]
    /\ UNCHANGED <<stream, pending, box, events, conn, call, answers, readers>>

ReaderSeesClose ==
    /\ Reading /\ t.closeCh
    /\ loop' = [loop EXCEPT !.read = "failing"]
    /\ UNCHANGED <<t, stream, pending, box, events, conn, call, answers, readers>>

(* Mutant: the reader leaves its callers waiting.                          *)
ReaderForgets ==
    /\ loop.read = "failing" /\ loop' = [loop EXCEPT !.read = "closing"]
    /\ UNCHANGED <<t, stream, pending, box, events, conn, call, answers, readers>>

ReaderFailsPending ==
    /\ loop.read = "failing" /\ loop' = [loop EXCEPT !.read = "closing"]
    /\ failPending
    /\ UNCHANGED <<t, stream, events, conn, call, answers, readers>>

ReaderEnds ==
    /\ loop.read = "closing" /\ loop' = [loop EXCEPT !.read = "ended"]
    /\ stream' = closeBody(t.sseBody)
    /\ t' = [t EXCEPT !.sseBody = None, !.done = TRUE]
    /\ UNCHANGED <<pending, box, events, conn, call, answers, readers>>

-----------------------------------------------------------------------------
(* eventDispatchLoop.                                                      *)

(* dispatchJSONRPCResponse: an id nobody waits for is dropped.             *)
delivered(r) ==
    /\ box' = [box EXCEPT ![r] = IF r \in pending THEN "answered" ELSE @]
    /\ pending' = pending \ {r}

(* A select with several ready cases picks any: an event may still be      *)
(* taken after closeCh or doneCh is closed.                                *)
DispatchResponse ==
    /\ loop.event = "idle" /\ events # <<>> /\ Head(events) \in Calls
    /\ events' = Tail(events)
    /\ delivered(Head(events))
    /\ UNCHANGED <<t, stream, conn, loop, call, answers, readers>>

(* An endpoint event is validated, stored, and marks a live stream ready.  *)
DispatchEndpoint ==
    /\ loop.event = "idle" /\ events # <<>> /\ Head(events) \notin Calls
    /\ events' = Tail(events)
    /\ \/ /\ t' = [t EXCEPT !.endpoint = TRUE]
          /\ loop' = [loop EXCEPT !.event = IF t.done THEN "idle" ELSE "checked"]
       \/ UNCHANGED <<t, loop>>                         \* another origin
    /\ UNCHANGED <<stream, pending, box, conn, call, answers, readers>>

EndpointMarks ==
    /\ loop.event = "checked" /\ loop' = [loop EXCEPT !.event = "idle"]
    /\ t' = [t EXCEPT !.ready = @ \/ ~t.closed]
    /\ UNCHANGED <<stream, pending, box, events, conn, call, answers, readers>>

DispatchEnds ==
    /\ loop.event = "idle" /\ (t.closeCh \/ t.done)
    /\ loop' = [loop EXCEPT !.event = "ended"]
    /\ UNCHANGED <<t, stream, pending, box, events, conn, call, answers, readers>>

-----------------------------------------------------------------------------
(* keepaliveLoop: a ping that fails clears the flag; one that succeeds     *)
(* looks at doneCh and sets it.                                            *)

PingFails ==
    /\ loop.keep = "idle"
    /\ t' = [t EXCEPT !.ready = @ /\ t.closed]
    /\ UNCHANGED <<stream, pending, box, events, conn, loop, call, answers, readers>>

PingSucceeds ==
    /\ loop.keep = "idle" /\ t.endpoint /\ ~t.done
    /\ loop' = [loop EXCEPT !.keep = "checked"]
    /\ UNCHANGED <<t, stream, pending, box, events, conn, call, answers, readers>>

PingMarks ==
    /\ loop.keep = "checked" /\ loop' = [loop EXCEPT !.keep = "idle"]
    /\ t' = [t EXCEPT !.ready = @ \/ ~t.closed]
    /\ UNCHANGED <<stream, pending, box, events, conn, call, answers, readers>>

KeepaliveEnds ==
    /\ loop.keep = "idle" /\ (t.closeCh \/ t.done)
    /\ loop' = [loop EXCEPT !.keep = "ended"]
    /\ UNCHANGED <<t, stream, pending, box, events, conn, call, answers, readers>>

-----------------------------------------------------------------------------
(* Close; closeOnce makes later calls return at once.                      *)

CloseStart ==
    /\ loop.close = "idle" /\ loop' = [loop EXCEPT !.close = "stopping"]
    /\ t' = [t EXCEPT !.closed = TRUE]
    /\ UNCHANGED <<stream, pending, box, events, conn, call, answers, readers>>

(* Mutant: the loops are told, the stream is not canceled.                 *)
stopLoops == [t EXCEPT !.ready = FALSE, !.closeCh = TRUE]

stop == [t EXCEPT !.ready = FALSE, !.canceled = TRUE, !.closeCh = TRUE]

CloseCancels ==
    /\ loop.close = "stopping" /\ loop' = [loop EXCEPT !.close = "failing"]
    /\ t' = stop
    /\ UNCHANGED <<stream, pending, box, events, conn, call, answers, readers>>

CloseFailsPending ==
    /\ loop.close = "failing"
    /\ loop' = [loop EXCEPT !.close = IF t.started THEN "joining" ELSE "sweeping"]
    /\ failPending
    /\ UNCHANGED <<t, stream, events, conn, call, answers, readers>>

(* The read loop is waited for, up to five seconds.                        *)
CloseJoins ==
    /\ loop.close = "joining" /\ t.done
    /\ loop' = [loop EXCEPT !.close = "sweeping"]
    /\ UNCHANGED <<t, stream, pending, box, events, conn, call, answers, readers>>

CloseGivesUp ==
    /\ loop.close = "joining"
    /\ loop' = [loop EXCEPT !.close = "sweeping"]
    /\ UNCHANGED <<t, stream, pending, box, events, conn, call, answers, readers>>

CloseSweeps ==
    /\ loop.close = "sweeping" /\ loop' = [loop EXCEPT !.close = "finished"]
    /\ t' = [t EXCEPT !.sseBody = None]
    /\ stream' = closeBody(t.sseBody)
    /\ UNCHANGED <<pending, box, events, conn, call, answers, readers>>

-----------------------------------------------------------------------------

TransportInit ==
    /\ t = [closed |-> FALSE, ready |-> FALSE, connecting |-> FALSE, endpoint |-> FALSE,
            started |-> FALSE, done |-> FALSE, closeCh |-> FALSE, canceled |-> FALSE,
            sseBody |-> None]
    /\ stream = [c \in Connectors |-> "none"]
    /\ pending = {} /\ box = [r \in Calls |-> "empty"] /\ events = <<>>
    /\ conn = [c \in Connectors |-> "idle"]
    /\ loop = [read |-> "off", event |-> "off", keep |-> "off", close |-> "idle"]
    /\ call = [r \in Calls |-> "idle"]
    /\ answers = {} /\ readers = 0

Connect(c) ==
    \/ DialFailed(c) \/ Dialed(c) \/ RegisterBody(c) \/ abortHandshake(c)
    \/ Install(c) \/ StartLoops(c) \/ completeConnect(c) \/ MarkReady(c)

SendRequest(r) == Register(r) \/ Recheck(r) \/ Post(r) \/ Receive(r)

ReaderStops == ReaderSeesClose \/ ReaderFailsPending \/ ReaderEnds

eventDispatchLoop ==
    DispatchResponse \/ DispatchEndpoint \/ EndpointMarks \/ DispatchEnds

CloseRuns == CloseCancels \/ CloseFailsPending \/ CloseJoins \/ CloseSweeps

TransportNext ==
    \/ \E c \in Connectors : reserveConnectSlot(c) \/ Connect(c)
    \/ \E r \in Calls : CheckReady(r) \/ SendRequest(r) \/ TimeOut(r)
    \/ ReadEvent \/ StreamLost \/ ReaderStops
    \/ eventDispatchLoop
    \/ PingFails \/ PingSucceeds \/ PingMarks \/ KeepaliveEnds
    \/ CloseStart \/ CloseRuns \/ CloseGivesUp

TransportSpec == TransportInit /\ [][TransportNext]_tvars

(* Goroutines run, dials, handshakes and POSTs end (each has a timeout),   *)
(* and a read on a canceled stream returns.  The server owes nothing, no   *)
(* call of Connect, SendRequest or Close is owed, and neither is the       *)
(* RequestTimeout of a waiting call nor Close's grace period.              *)
TransportFairness ==
    /\ \A c \in Connectors : WF_tvars(Connect(c))
    /\ \A r \in Calls : WF_tvars(SendRequest(r))
    /\ WF_tvars(ReaderFailsPending \/ ReaderEnds)
    /\ WF_tvars(t.canceled /\ StreamLost)
    /\ WF_tvars(eventDispatchLoop)
    /\ WF_tvars(PingMarks) /\ WF_tvars(KeepaliveEnds)
    /\ WF_tvars(CloseRuns)

FairTransportSpec == TransportSpec /\ TransportFairness

-----------------------------------------------------------------------------
(* Properties.                                                             *)

(* Every variable keeps its type; the read loop is started at most once in *)
(* the life of a transport, since a second one would close doneCh twice.   *)
TransportTypeOK ==
    /\ t \in Transport
    /\ stream \in [Connectors -> {"none", "open", "closed"}]
    /\ pending \subseteq Calls /\ answers \subseteq Calls
    /\ box \in [Calls -> {"empty", "answered", "failed"}]
    /\ events \in Seq(Calls \cup {"endpoint"}) /\ Len(events) <= EventCap
    /\ loop \in Loops
    /\ conn \in [Connectors -> {"idle", "dialing", "dialed", "handshake", "starting",
                                "completing", "marking", "connected", "refused"}]
    /\ call \in [Calls -> {"idle", "checked", "registered", "posting", "waiting"}
                            \cup Returned]
    /\ readers \in 0..1

(* A registered channel is empty, so failPending, which sends under        *)
(* pendingMu, never blocks and no answer is dropped because of an older    *)
(* one.                                                                    *)
MailboxFree == \A r \in pending : box[r] = "empty"

(* At most one body is open at any time, however Connect is called and     *)
(* retried, and it is either still with its Connect or registered where    *)
(* Close finds it.                                                         *)
OneStream ==
    \A c \in Connectors : stream[c] = "open" =>
        /\ \A d \in Connectors \ {c} : stream[d] # "open"
        /\ connAt(c, "dialed") \/ t.sseBody = c

(* A request registered when the stream dies is failed at once, and Close  *)
(* releases every caller, the ones that register while it runs included:   *)
(* nobody sits out a timeout.                                              *)
CallersReleased ==
    \A r \in Calls :
        ((loop.read = "failing" /\ r \in pending) \/ (t.closed /\ call[r] # "idle"))
            ~> call[r] \in Returned

(* Close ends, ends the three loops and closes the stream, wherever it     *)
(* finds a Connect, without its grace period running out.                  *)
TearsDown ==
    []<>(t.closed => /\ loop.close = "finished"
                     /\ \A l \in {"read", "event", "keep"} : loop[l] \in {"off", "ended"}
                     /\ \A c \in Connectors : stream[c] # "open")
=============================================================================
