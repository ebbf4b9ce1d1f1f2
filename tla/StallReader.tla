---------------------------- MODULE StallReader ----------------------------
(***************************************************************************)
(* stallReader (internal/proxy/stream_io.go): a background goroutine reads *)
(* the upstream body ahead of its consumer through a one-place channel,    *)
(* and a timer declares a stall when the stream is idle for too long.      *)
(* Three actors: the reader goroutine, the timer's callback and the        *)
(* request's goroutine, which reads, and in the end retires the reader on  *)
(* one of the teardown paths of stream.go and stream_recovery.go.          *)
(*                                                                         *)
(* A chunk is a number of units; a read buffer holds at most Room units.   *)
(* Read buffers come from a shared pool.                                   *)
(***************************************************************************)
EXTENDS Integers, Sequences

CONSTANTS
    Sizes,        \* units one upstream read may return
    Rooms,        \* units a Read call of the consumer may take
    MaxReads      \* bound: upstream reads that return data

VARIABLES
    readLoop,     \* readLoop: label, and the result in hand
    ch,           \* sr.ch, at most one result
    timer,        \* sr.timer is armed
    firing,       \* its callback has started and waits for sr.mu
    stalled,      \* sr.stalled
    stallCh,      \* sr.stallCh is closed
    rem,          \* unread units of sr.remainBuf
    pendingErr,   \* sr.pendingErr
    user,         \* the request's goroutine: label, and the result in hand
    report,       \* error of its last Read
    srcClosed,    \* the upstream body is closed
    canceled,     \* the request's context is done
    leased,       \* pool buffers taken and not put back
    reads, produced, served   \* history: reads, units read, units served

stallVars == <<readLoop, ch, timer, firing, stalled, stallCh, rem, pendingErr, user,
          report, srcClosed, canceled, leased, reads, produced, served>>

ASSUME StallAssumption ==
    /\ Sizes \subseteq Nat \ {0}
    /\ Rooms \subseteq Nat \ {0}
    /\ MaxReads \in Nat

Errors == {"none", "eof", "failed"}
readResult == [n : Nat, err : Errors]
Nothing == [n |-> 0, err |-> "none"]

Lower(a, b) == IF a < b THEN a ELSE b

-----------------------------------------------------------------------------
(* readLoop.  It owns a pool buffer from the moment it reads.              *)

Fetch ==
    /\ readLoop.pc = "read"
    /\ \E n \in Sizes \cup {0}, e \in Errors :
        /\ srcClosed \/ canceled => n = 0 /\ e = "failed"
        /\ n = 0 => e # "none"
        /\ n > 0 => reads < MaxReads
        /\ readLoop' = [pc |-> "send", rr |-> [n |-> n, err |-> e]]
        /\ reads' = IF n > 0 THEN reads + 1 ELSE reads
        /\ produced' = produced + n
    /\ UNCHANGED <<ch, timer, firing, stalled, stallCh, rem, pendingErr, user, report,
                   srcClosed, canceled, leased, served>>

(* The buffer travels with the result; the next read takes another one.    *)
Send ==
    /\ readLoop.pc = "send" /\ ch = <<>>
    /\ ch' = <<readLoop.rr>>
    /\ IF readLoop.rr.err = "none"
       THEN readLoop' = [pc |-> "read", rr |-> Nothing] /\ leased' = leased + 1
       ELSE readLoop' = [pc |-> "end", rr |-> Nothing] /\ UNCHANGED leased
    /\ UNCHANGED <<timer, firing, stalled, stallCh, rem, pendingErr, user, report,
                   srcClosed, canceled, reads, produced, served>>

GiveUp ==
    /\ readLoop.pc = "send" /\ canceled
    /\ readLoop' = [pc |-> "end", rr |-> Nothing]
    /\ leased' = leased - 1
    /\ UNCHANGED <<ch, timer, firing, stalled, stallCh, rem, pendingErr, user, report,
                   srcClosed, canceled, reads, produced, served>>

-----------------------------------------------------------------------------
(* The timer: it fires, and its callback runs when it gets the lock.       *)

Fire ==
    /\ timer /\ timer' = FALSE /\ firing' = TRUE
    /\ UNCHANGED <<readLoop, ch, stalled, stallCh, rem, pendingErr, user, report,
                   srcClosed, canceled, leased, reads, produced, served>>

(* Mutant: the callback sets the flag but wakes nobody.                    *)
CallbackSilent ==
    /\ firing /\ firing' = FALSE
    /\ stalled' = TRUE
    /\ UNCHANGED <<readLoop, ch, timer, stallCh, rem, pendingErr, user, report,
                   srcClosed, canceled, leased, reads, produced, served>>

(* The flag under the lock, then the channel.                              *)
Callback ==
    /\ firing
    /\ IF ~stalled THEN stalled' = TRUE /\ UNCHANGED <<firing, stallCh>>
       ELSE firing' = FALSE /\ stallCh' = TRUE /\ UNCHANGED stalled
    /\ UNCHANGED <<readLoop, ch, timer, rem, pendingErr, user, report,
                   srcClosed, canceled, leased, reads, produced, served>>

-----------------------------------------------------------------------------
(* The request's goroutine.  Read's locked prefix, its select, and         *)
(* serveResult are separate steps.                                         *)

Return(err) ==
    /\ user' = [pc |-> "between", rr |-> Nothing]
    /\ report' = err

(* Mutant: the terminal error is reported ahead of the buffered tail.      *)
tailFirstDropped == rem > 0 /\ pendingErr = "none"

tailFirst == rem > 0

Read ==
    /\ user.pc = "between" /\ report = "none"
    /\ \/ /\ stalled /\ Return("stalled")
          /\ UNCHANGED <<rem, served, timer>>
       \/ /\ ~stalled /\ tailFirst
          /\ \E room \in Rooms :
                /\ rem' = rem - Lower(room, rem)
                /\ served' = served + Lower(room, rem)
          /\ timer' = TRUE
          /\ Return("none")
       \/ /\ ~stalled /\ ~tailFirst /\ pendingErr # "none"
          /\ Return(pendingErr)
          /\ UNCHANGED <<rem, served, timer>>
       \/ /\ ~stalled /\ ~tailFirst /\ pendingErr = "none"
          /\ user' = [pc |-> "select", rr |-> Nothing]
          /\ UNCHANGED <<rem, served, timer, report>>
    /\ UNCHANGED <<readLoop, ch, firing, stalled, stallCh, pendingErr, srcClosed, canceled,
                   leased, reads, produced>>

(* The select of Read: any ready case may be taken.                        *)
Wake ==
    /\ user.pc = "select"
    /\ \/ stallCh /\ Return("stalled") /\ UNCHANGED ch
       \/ canceled /\ Return("canceled") /\ UNCHANGED ch
       \/ /\ ch # <<>>
          /\ user' = [pc |-> "serve", rr |-> Head(ch)]
          /\ ch' = <<>>
          /\ UNCHANGED report
    /\ UNCHANGED <<readLoop, timer, firing, stalled, stallCh, rem, pendingErr, srcClosed,
                   canceled, leased, reads, produced, served>>

serveResult ==
    /\ user.pc = "serve"
    /\ pendingErr' = IF user.rr.err # "none" THEN user.rr.err ELSE pendingErr
    /\ timer' = (timer \/ (~stalled /\ user.rr.n > 0))
    /\ leased' = leased - 1
    /\ IF stalled
       THEN Return("stalled") /\ UNCHANGED <<rem, served>>
       ELSE \E room \in Rooms :
              LET n == Lower(room, user.rr.n) IN
              /\ rem' = user.rr.n - n
              /\ served' = served + n
              /\ Return(IF user.rr.n > n THEN "none" ELSE user.rr.err)
    /\ UNCHANGED <<readLoop, ch, firing, stalled, stallCh, srcClosed, canceled, reads, produced>>

(* SetThinkingActive: a change of phase restarts the timer.                *)
SetThinkingActive ==
    /\ user.pc = "between" /\ report = "none" /\ ~stalled
    /\ timer' = TRUE
    /\ UNCHANGED <<readLoop, ch, firing, stalled, stallCh, rem, pendingErr, user, report,
                   srcClosed, canceled, leased, reads, produced, served>>

(* The client disconnects; the server cancels the context at the end too.  *)
Disconnect ==
    /\ ~canceled /\ canceled' = TRUE
    /\ UNCHANGED <<readLoop, ch, timer, firing, stalled, stallCh, rem, pendingErr, user,
                   report, srcClosed, leased, reads, produced, served>>

-----------------------------------------------------------------------------
(* Teardown: close the body, Stop, drop the tail, drain the channel.       *)

CloseBody ==
    /\ user.pc = "between"
    /\ user' = [pc |-> "stop", rr |-> Nothing]
    /\ srcClosed' = TRUE
    /\ UNCHANGED <<readLoop, ch, timer, firing, stalled, stallCh, rem, pendingErr, report,
                   canceled, leased, reads, produced, served>>

StopReader ==
    /\ user.pc = "stop"
    /\ user' = [pc |-> "drain", rr |-> Nothing]
    /\ timer' = FALSE /\ stalled' = TRUE /\ stallCh' = TRUE
    /\ UNCHANGED <<readLoop, ch, firing, rem, pendingErr, report, srcClosed, canceled, leased,
                   reads, produced, served>>

(* DrainBuffered and DrainPending: drop the tail, take what the channel    *)
(* holds or receives in a bounded time, and leave.                         *)
Drain ==
    /\ user.pc = "drain"
    /\ rem' = 0
    /\ \/ ch # <<>> /\ ch' = <<>> /\ leased' = leased - 1 /\ UNCHANGED user
       \/ user' = [pc |-> "left", rr |-> Nothing] /\ UNCHANGED <<ch, leased>>
    /\ UNCHANGED <<readLoop, timer, firing, stalled, stallCh, pendingErr, report, srcClosed,
                   canceled, reads, produced, served>>

(* The handler returns and net/http cancels its context.                   *)
HandlerReturns ==
    /\ user.pc = "left" /\ ~canceled
    /\ canceled' = TRUE
    /\ UNCHANGED <<readLoop, ch, timer, firing, stalled, stallCh, rem, pendingErr, user,
                   report, srcClosed, leased, reads, produced, served>>

-----------------------------------------------------------------------------

StallInit ==
    /\ readLoop = [pc |-> "read", rr |-> Nothing]
    /\ ch = <<>>
    /\ timer = TRUE /\ firing = FALSE /\ stalled = FALSE /\ stallCh = FALSE
    /\ rem = 0 /\ pendingErr = "none"
    /\ user = [pc |-> "between", rr |-> Nothing] /\ report = "none"
    /\ srcClosed = FALSE /\ canceled = FALSE
    /\ leased = 1 /\ reads = 0 /\ produced = 0 /\ served = 0

ReadLoop == Fetch \/ Send \/ GiveUp

Timer == Fire \/ Callback

Consume == Read \/ Wake \/ serveResult

Teardown == CloseBody \/ StopReader \/ Drain \/ HandlerReturns

StallNext == ReadLoop \/ Timer \/ Consume \/ SetThinkingActive \/ Disconnect \/ Teardown

StallSpec == StallInit /\ [][StallNext]_stallVars

(* The goroutines run, an armed timer fires, and the consumer tears the    *)
(* reader down once Read has reported an error.  The upstream owes nothing *)
(* while its body is open.                                                 *)
StallFairness ==
    /\ WF_stallVars(Send) /\ WF_stallVars(GiveUp)
    /\ WF_stallVars(Fetch /\ (srcClosed \/ canceled))
    /\ WF_stallVars(Fire) /\ WF_stallVars(Callback)
    /\ WF_stallVars(Consume)
    /\ WF_stallVars(report # "none" /\ CloseBody)
    /\ WF_stallVars(StopReader) /\ WF_stallVars(Drain) /\ WF_stallVars(HandlerReturns)

StallFairSpec == StallSpec /\ StallFairness

-----------------------------------------------------------------------------
(* Properties.                                                             *)

(* Types; the channel never holds more than one result.                    *)
StallTypeOK ==
    /\ readLoop \in [pc : {"read", "send", "end"}, rr : readResult]
    /\ ch = <<>> \/ (Len(ch) = 1 /\ ch[1] \in readResult)
    /\ {timer, firing, stalled, stallCh, srcClosed, canceled} \subseteq BOOLEAN
    /\ {rem, leased, reads, produced, served} \subseteq Nat
    /\ pendingErr \in Errors
    /\ user \in [pc : {"between", "select", "serve", "stop", "drain", "left"}, rr : readResult]
    /\ report \in Errors \cup {"stalled", "canceled"}

(* Every pool buffer taken is in exactly one place: with the reader, in    *)
(* the channel or with the consumer.  None is put back twice or lost       *)
(* between two owners.                                                     *)
BuffersAccounted ==
    leased = (IF readLoop.pc = "end" THEN 0 ELSE 1) + Len(ch)
                 + (IF user.pc = "serve" THEN 1 ELSE 0)

(* A clean end of stream is reported only after the last unit was served:  *)
(* the tail is never lost behind the EOF that came with it.                *)
EofMeansAll == report = "eof" => served = produced /\ rem = 0 /\ ch = <<>>

(* A retired reader stays quiet: after Stop no late result and no phase    *)
(* change arms its timer again.                                            *)
RetiredIsQuiet == user.pc \in {"drain", "left"} => ~timer

(* What the reader owes at any moment.                                     *)
StreamSound == BuffersAccounted /\ EofMeansAll /\ RetiredIsQuiet

(* The background goroutine of a finished request ends, wherever the       *)
(* teardown left it.                                                       *)
Left == user.pc = "left"
Ended == readLoop.pc = "end"
ReaderEnds == Left ~> Ended

(* A Read on a silent upstream comes back: the timer, the client's         *)
(* departure or a result wakes it.                                         *)
Waiting == user.pc = "select"
ReadReturns == Waiting ~> ~Waiting
=============================================================================
