--------------------------- MODULE ToolLoopProofs ---------------------------
(***************************************************************************)
(* Proofs about the MCP tool loop: what a request owes at any moment, and  *)
(* that a refused credential is forgotten only by a success that saw it.   *)
(* The invariant has one part per promise; an action is first reduced to   *)
(* the fields it sets, then each part is shown to be kept.                 *)
(***************************************************************************)
EXTENDS ToolLoop, TLAPS

-----------------------------------------------------------------------------
(* Credential marks.                                                       *)

Mark == [n : Nat, permanent : BOOLEAN, expired : BOOLEAN]
MarksTyped == mark \in [Servers -> Mark \cup {Absent}] /\ "rejections" \in DOMAIN history /\ history.rejections \in Nat

(* A step leaves the marks alone, ages one, sets one, or clears the one it *)
(* saw.                                                                    *)
MarkStep ==
    \/ mark' = mark
    \/ \E s \in Servers : mark[s] # Absent /\ mark' = [mark EXCEPT ![s].expired = TRUE]
    \/ \E s : mark' = [mark EXCEPT ![s] = [n |-> history.rejections + 1, permanent |-> FALSE, expired |-> FALSE]]
    \/ \E k \in DOMAIN call :
         LET s == Registry[call[k].tool] IN
         call[k].at = "clear" /\ clears(s, call[k].seen) /\ mark' = [mark EXCEPT ![s] = Absent]

(* The refusals counted so far never go down to anything but a number.     *)
RejectionsStep ==
    /\ DOMAIN history' = DOMAIN history
    /\ history'.rejections = history.rejections \/ history'.rejections = history.rejections + 1

(* Every action is such a step.                                            *)
LEMMA MarkSteps ==
    ASSUME "rejections" \in DOMAIN history, TLNext
    PROVE  MarkStep /\ RejectionsStep
  <1> USE DEF MarkStep, RejectionsStep
  <1>1. CASE \E s \in Servers : Expire(s)
    BY <1>1 DEF Expire, Fresh
  <1>2. CASE Deadline
    BY <1>2 DEF Deadline
  <1>3. CASE Request
    <2> USE DEF RecordMCPUsage, RecordMCPIterationUsage, charged
    <2>1. CASE CheckMCPAvailability \/ InjectAutoSearch \/ InjectMCPTools \/ ReserveKeyBudget \/ ForwardFailed \/ Exhausted \/ BufferFailed
      BY <2>1 DEF CheckMCPAvailability, InjectAutoSearch, InjectMCPTools, ReserveKeyBudget, ForwardFailed, Exhausted, BufferFailed
    <2>2. CASE Iterate
      BY <2>2 DEF Iterate
    <2>3. CASE Forward
      BY <2>3 DEF Forward
    <2>4. ASSUME NEW lines \in Answers, Buffered(lines) PROVE MarkStep /\ RejectionsStep
      BY <2>4 DEF Buffered
    <2>5. CASE AppendResults
      BY <2>5 DEF AppendResults
    <2> QED
      BY <1>3, <2>1, <2>2, <2>3, <2>4, <2>5 DEF Request
  <1>4. ASSUME NEW k \in DOMAIN call, Goroutine(k) PROVE MarkStep /\ RejectionsStep
    <2>1. CASE Vet(k)
      BY <2>1 DEF Vet
    <2>2. CASE Screen(k)
      BY <2>2 DEF Screen
    <2>3. CASE ToolReturns(k)
      BY <2>3 DEF ToolReturns, MarkMCPCredentialRejected
    <2>4. CASE Observe(k)
      BY <2>4 DEF Observe
    <2>5. CASE Clear(k)
      BY <2>5 DEF Clear, CallAt
    <2> QED
      BY <1>4, <2>1, <2>2, <2>3, <2>4, <2>5 DEF Goroutine
  <1> QED
    BY <1>1, <1>2, <1>3, <1>4 DEF TLNext

(* recordMCPCallOutcome and ClearMCPUnavailable: for any servers, tools    *)
(* and number of calls in flight, a refused credential is forgotten only   *)
(* by a success that saw that very refusal.                                *)
THEOREM RefusalSurvives ==
    ASSUME ToolAssumption
    PROVE  TLSpec => FreshRejectionSurvives
  <1>1. TLInit => MarksTyped
    <2> SUFFICES ASSUME TLInit PROVE MarksTyped
      OBVIOUS
    <2>1. Misconfigured \in Mark
      BY DEF Misconfigured, Mark
    <2>2. mark \in [Servers -> Mark \cup {Absent}]
      BY <2>1 DEF TLInit
    <2>3. "rejections" \in DOMAIN history /\ history.rejections = 0
      BY DEF TLInit
    <2> QED
      BY <2>2, <2>3 DEF MarksTyped
  <1>2. MarksTyped /\ [TLNext]_tvars => MarksTyped' /\ [ForgetsOnlySeen]_tvars
    <2> SUFFICES ASSUME MarksTyped, [TLNext]_tvars PROVE MarksTyped' /\ [ForgetsOnlySeen]_tvars
      OBVIOUS
    <2>1. CASE UNCHANGED tvars
      BY <2>1 DEF tvars, MarksTyped
    <2>2. CASE TLNext
      <3>1. MarkStep /\ RejectionsStep
        BY <2>2, MarkSteps DEF MarksTyped
      <3>2. "rejections" \in DOMAIN history' /\ history'.rejections \in Nat
        BY <3>1 DEF RejectionsStep, MarksTyped
      <3>3. CASE mark' = mark
        BY <3>2, <3>3 DEF MarksTyped, ForgetsOnlySeen
      <3>4. ASSUME NEW s \in Servers, mark[s] # Absent, mark' = [mark EXCEPT ![s].expired = TRUE]
            PROVE  MarksTyped' /\ ForgetsOnlySeen
        <4>1. mark[s] \in Mark
          BY <3>4 DEF MarksTyped
        <4>2. [mark[s] EXCEPT !.expired = TRUE] \in Mark
          BY <4>1 DEF Mark
        <4>3. [mark[s] EXCEPT !.expired = TRUE] # Absent
          BY <4>2 DEF ToolAssumption, Mark
        <4> QED
          BY <3>2, <3>4, <4>2, <4>3 DEF MarksTyped, ForgetsOnlySeen
      <3>5. ASSUME NEW s, mark' = [mark EXCEPT ![s] = [n |-> history.rejections + 1, permanent |-> FALSE, expired |-> FALSE]]
            PROVE  MarksTyped' /\ ForgetsOnlySeen
        <4> DEFINE new == [n |-> history.rejections + 1, permanent |-> FALSE, expired |-> FALSE]
        <4>1. new \in Mark
          BY DEF Mark, MarksTyped
        <4>2. new # Absent
          BY <4>1 DEF ToolAssumption, Mark
        <4> HIDE DEF new
        <4>3. mark' = [mark EXCEPT ![s] = new]
          BY <3>5 DEF new
        <4> QED
          BY <3>2, <4>1, <4>2, <4>3 DEF MarksTyped, ForgetsOnlySeen
      <3>6. ASSUME NEW k \in DOMAIN call, NEW s, s = Registry[call[k].tool], call[k].at = "clear", clears(s, call[k].seen),
                   mark' = [mark EXCEPT ![s] = Absent]
            PROVE  MarksTyped' /\ ForgetsOnlySeen
        BY <3>2, <3>6 DEF MarksTyped, ForgetsOnlySeen, clears
      <3> QED
        BY <3>1, <3>3, <3>4, <3>5, <3>6 DEF MarkStep
    <2> QED
      BY <2>1, <2>2
  <1> QED
    BY <1>1, <1>2, PTL DEF TLSpec, FreshRejectionSurvives

-----------------------------------------------------------------------------
(* What each action of the handler sets.                                   *)

LoopFields == {"pc", "iter", "i", "attempt", "same", "held", "expired", "offered", "conv", "buf", "last", "answer", "screened"}
HistoryFields == {"ran", "charged", "claimed", "sends", "judged", "rejections"}
Shaped == DOMAIN loop = LoopFields /\ DOMAIN history = HistoryFields

(* At most the named fields of the request, of the history, change.        *)
Sets(F) == DOMAIN loop' = LoopFields /\ \A f \in LoopFields \ F : loop'[f] = loop[f]
Notes(F) == DOMAIN history' = HistoryFields /\ \A f \in HistoryFields \ F : history'[f] = history[f]

(* One response, and the handler returns.                                  *)
Responds == loop'.pc = "done" /\ \E what : loop'.answer = Append(loop.answer, what)

(* A buffer's tokens go to iteration k, which claims them.                 *)
Charges(k) ==
    /\ history'.charged = [history.charged EXCEPT ![k] = @ + 1]
    /\ history'.claimed = history.claimed \cup {k}

(* Answer                                                                  *)
LEMMA AnswerEffect ==
    ASSUME Shaped, NEW what, Answer(what)
    PROVE  Sets({"pc", "answer"}) /\ Responds
  BY DEF Answer, answered, Shaped, Sets, Responds, LoopFields

(* Goto                                                                    *)
LEMMA GotoEffect ==
    ASSUME Shaped, NEW pc, LoopTo(pc)
    PROVE  Sets({"pc"}) /\ loop'.pc = pc
  BY DEF LoopTo, Shaped, Sets, LoopFields

(* The history as it is.                                                   *)
LEMMA Silent ==
    ASSUME Shaped, history' = history
    PROVE  Notes({})
  BY DEF Shaped, Notes

(* The one way a charge is made.                                           *)
LEMMA ChargeEffect ==
    ASSUME Shaped, NEW k, history' = [charged(k) EXCEPT !.claimed = @ \cup {k}]
    PROVE  Notes({"charged", "claimed"}) /\ Charges(k)
  BY DEF charged, Shaped, Notes, Charges, HistoryFields

(* RecordMCPUsage charges iteration k unless it has been claimed.          *)
LEMMA UsageEffect ==
    ASSUME Shaped, NEW buf, NEW k, history' = RecordMCPUsage(buf, k)
    PROVE  Notes({"charged", "claimed"}) /\ (history' = history \/ (k \notin history.claimed /\ Charges(k)))
  <1>1. CASE history' = history
    <2>1. Notes({"charged", "claimed"})
      BY ONLY Shaped, <1>1 DEF Shaped, Notes
    <2> QED
      BY <1>1, <2>1
  <1>2. CASE history' # history
    <2>1. k \notin history.claimed /\ history' = [charged(k) EXCEPT !.claimed = @ \cup {k}]
      BY <1>2 DEF RecordMCPUsage
    <2> QED
      BY <2>1, ChargeEffect
  <1> QED
    BY <1>1, <1>2

(* SendFailed: on to the next target, the same one again within its        *)
(* budget, or the end of the sweep.                                        *)
LEMMA SendFailedEffect ==
    ASSUME Shaped, ForwardFailed
    PROVE  /\ Sets({"pc", "held", "attempt", "i", "same"}) /\ loop'.held = FALSE
           /\ \/ loop'.pc = "send" /\ loop'.i = loop.i + 1 /\ loop'.same = loop.same
              \/ loop'.pc = "send" /\ loop'.i = loop.i /\ loop'.same = loop.same + 1 /\ ~(loop.same >= maxSameTargetRetries)
              \/ loop'.pc = "failed" /\ loop'.i = loop.i /\ loop'.same = loop.same
  <1> DEFINE back == [loop EXCEPT !.held = FALSE]
             err == [back EXCEPT !.attempt = @ + 1]
  <1>1. PICK l \in {back, err} : loop' = next(l) \/ (loop' = repeated(l) /\ ~(l.same >= maxSameTargetRetries)) \/ loop' = stopped(l)
    BY DEF ForwardFailed, retried
  <1>2. DOMAIN l = LoopFields /\ l.held = FALSE /\ \A f \in LoopFields \ {"held", "attempt"} : l[f] = loop[f]
    BY DEF Shaped, LoopFields
  <1> HIDE DEF back, err
  <1>3. CASE loop' = next(l)
    BY <1>2, <1>3 DEF next, Sets, LoopFields
  <1>4. CASE loop' = repeated(l) /\ ~(l.same >= maxSameTargetRetries)
    BY <1>2, <1>4 DEF repeated, Sets, LoopFields
  <1>5. CASE loop' = stopped(l)
    BY <1>2, <1>5 DEF stopped, Sets, LoopFields
  <1> QED
    BY <1>1, <1>3, <1>4, <1>5

(* An answer that reports tokens.                                          *)
Billable(buf) == Named /\ \E n \in buf.usage : n > 0

(* The buffered answer is charged to this iteration, at the latest when it *)
(* is handed on; one that reports tokens always is.                        *)
ChargedHere(buf) ==
    /\ Notes({"charged", "claimed"})
    /\ Charges(loop.iter + 1) \/ (history' = history /\ ~Billable(buf))

(* RecordMCPIterationUsage                                                 *)
LEMMA IterationUsageEffect ==
    ASSUME Shaped, NEW buf, history' = RecordMCPIterationUsage(buf)
    PROVE  ChargedHere(buf)
  <1>1. CASE Billable(buf)
    <2>1. history' = [charged(loop.iter + 1) EXCEPT !.claimed = @ \cup {loop.iter + 1}]
      BY <1>1 DEF RecordMCPIterationUsage, Billable
    <2> QED
      BY <2>1, ChargeEffect DEF ChargedHere
  <1>2. CASE ~Billable(buf)
    <2>1. history' = history
      BY <1>2 DEF RecordMCPIterationUsage, Billable
    <2> QED
      BY <1>2, <2>1 DEF Shaped, Notes, ChargedHere
  <1> QED
    BY <1>1, <1>2

(* Buffered: an empty answer moves on, one without calls for the gateway's *)
(* tools, or blocked, is handed to the client, the others are run.         *)
Empty == Sets({"held", "pc", "i"}) /\ loop'.pc = "send" /\ loop'.held = FALSE /\ loop'.i = loop.i + 1 /\ history' = history /\ call' = call
HandedOn(buf) ==
    /\ Sets({"held", "buf", "pc", "answer"}) /\ Responds /\ loop'.held = FALSE /\ loop'.buf = buf
    /\ ChargedHere(buf) /\ call' = call
Started(buf) ==
    /\ Sets({"held", "buf", "pc"}) /\ loop'.pc = "exec" /\ loop'.held = FALSE /\ loop'.buf = buf
    /\ ChargedHere(buf)
    /\ call' = [k \in DOMAIN mcpCalls(buf) |-> [tool |-> mcpCalls(buf)[k].tool, at |-> "start", seen |-> 0, result |-> "none"]]

(* Every answer is one of the three.                                       *)
LEMMA BufferedEffect ==
    ASSUME Shaped, NEW lines, Buffered(lines)
    PROVE  loop.pc = "sent" /\ (Empty \/ HandedOn(BufferedResult(lines)) \/ Started(BufferedResult(lines)))
  <1> DEFINE buf == BufferedResult(lines)
             free == [loop EXCEPT !.held = FALSE]
             got == [loop EXCEPT !.held = FALSE, !.buf = buf]
             charge == RecordMCPIterationUsage(buf)
             one == [charged(loop.iter + 1) EXCEPT !.claimed = @ \cup {loop.iter + 1}]
  <1>1. \/ loop' = next(free) /\ call' = call /\ history' = history
        \/ loop' = answered(got, replayOf(buf)) /\ call' = call /\ (history' = one \/ history' = charge)
        \/ /\ loop' = [got EXCEPT !.pc = "exec"] /\ history' = charge
           /\ call' = [k \in DOMAIN mcpCalls(buf) |-> [tool |-> mcpCalls(buf)[k].tool, at |-> "start", seen |-> 0, result |-> "none"]]
    BY DEF Buffered
  <1>2. loop.pc = "sent"
    BY DEF Buffered
  <1>3. ASSUME history' = one PROVE ChargedHere(buf)
    BY <1>3, ChargeEffect DEF ChargedHere
  <1>4. ASSUME history' = charge PROVE ChargedHere(buf)
    BY <1>4, IterationUsageEffect
  <1>5. DOMAIN free = LoopFields /\ free.held = FALSE /\ \A f \in LoopFields \ {"held"} : free[f] = loop[f]
    BY DEF Shaped, LoopFields
  <1> HIDE DEF buf
  <1>6. DOMAIN got = LoopFields /\ got.held = FALSE /\ got.buf = buf /\ \A f \in LoopFields \ {"held", "buf"} : got[f] = loop[f]
    BY DEF Shaped, LoopFields
  <1> HIDE DEF free, got, charge, one
  <1>7. CASE loop' = next(free) /\ call' = call /\ history' = history
    BY <1>2, <1>5, <1>7 DEF next, Sets, Empty, LoopFields
  <1>8. CASE loop' = answered(got, replayOf(buf)) /\ call' = call /\ (history' = one \/ history' = charge)
    <2>1. ChargedHere(buf)
      BY <1>3, <1>4, <1>8
    <2>2. Sets({"held", "buf", "pc", "answer"}) /\ Responds /\ loop'.held = FALSE /\ loop'.buf = buf
      BY <1>6, <1>8 DEF answered, Sets, Responds, LoopFields
    <2> QED
      BY <1>2, <1>8, <2>1, <2>2 DEF HandedOn, buf
  <1>9. CASE /\ loop' = [got EXCEPT !.pc = "exec"] /\ history' = charge
             /\ call' = [k \in DOMAIN mcpCalls(buf) |-> [tool |-> mcpCalls(buf)[k].tool, at |-> "start", seen |-> 0, result |-> "none"]]
    <2>1. ChargedHere(buf)
      BY <1>4, <1>9
    <2>2. Sets({"held", "buf", "pc"}) /\ loop'.pc = "exec" /\ loop'.held = FALSE /\ loop'.buf = buf
      BY <1>6, <1>9 DEF Sets, LoopFields
    <2> QED
      BY <1>2, <1>9, <2>1, <2>2 DEF Started, buf
  <1> QED
    BY <1>1, <1>7, <1>8, <1>9

-----------------------------------------------------------------------------
(* The invariant.                                                          *)

Turns == [role : {"user", "memory", "system"}] \cup [role : {"assistant"}, ids : Seq(STRING)] \cup [role : {"tool"}, id : STRING]

Answered ==
    /\ loop.pc # "done" => loop.answer = <<>>
    /\ loop.pc = "done" => Len(loop.answer) = 1

(* Sends are paid for by targets passed and by repeats of one.             *)
Sending ==
    /\ loop.i \in Nat /\ loop.i >= 1 /\ loop.same \in Nat /\ loop.same <= maxSameTargetRetries
    /\ history.sends \in Nat /\ history.sends <= Targets + maxSameTargetRetries
    /\ loop.pc = "send" => loop.i <= Targets + 1 /\ history.sends <= loop.i - 1 + loop.same
    /\ loop.pc = "sent" => loop.i <= Targets /\ history.sends <= loop.i + loop.same
    /\ loop.pc # "sent" => loop.held = FALSE

Judging ==
    \/ loop.screened = FALSE /\ history.judged = 0
    \/ loop.screened = TRUE /\ history.judged \in {0, 1}

(* Who is charged has claimed it, and no later iteration has.              *)
Claims ==
    /\ loop.iter \in Nat /\ loop.iter <= maxIter
    /\ loop.pc \in {"send", "sent", "failed", "exec"} => loop.iter < maxIter
    /\ history.charged \in [1..maxIter -> {0, 1}]
    /\ \A k \in 1..maxIter : history.charged[k] = 1 <=> k \in history.claimed
    /\ loop.pc \notin {"exec", "done"} => \A k \in history.claimed : k \in Nat /\ k <= loop.iter
    /\ loop.pc = "exec" => \A k \in history.claimed : k \in Nat /\ k <= loop.iter + 1
    /\ loop.pc = "exec" /\ Billable(loop.buf) => history.charged[loop.iter + 1] = 1
    /\ Billable(loop.buf) => \E k \in 1..maxIter : k >= loop.iter /\ history.charged[k] = 1

(* No assistant turn before the loop; the calls of an answer that is run   *)
(* are a sequence.                                                         *)
Pairing ==
    /\ loop.conv \in Seq(Turns) /\ TurnsPaired
    /\ loop.pc \in {"check", "search"} => loop.conv = <<[role |-> "user"]>>
    /\ loop.pc = "inject" => \A k \in DOMAIN loop.conv : loop.conv[k].role # "assistant"
    /\ loop.pc = "exec" => mcpCalls(loop.buf) \in Seq(Call)

Runnable == {t \in Granted \cap Allowed : Registry[t] \in AgentServers}
Past == {"screen", "calling", "observe", "clear"}
Offering ==
    /\ loop.offered \subseteq Granted \cap Allowed
    /\ \A k \in DOMAIN call : {"tool", "at", "seen", "result"} \subseteq DOMAIN call[k] /\ (call[k].at \in Past => call[k].tool \in Runnable)
    /\ history.ran \subseteq Runnable

LoopInv == Shaped /\ Answered /\ Sending /\ Judging /\ Claims /\ Pairing /\ Offering

(* The bounds are numbers.                                                 *)
LEMMA Bounds ==
    ASSUME ToolAssumption
    PROVE  maxIter \in Nat /\ maxIter >= 1 /\ maxSameTargetRetries \in Nat /\ Targets \in Nat
  BY DEF ToolAssumption, maxIter, maxSameTargetRetries

(* The invariant is what the loop owes.                                    *)
LEMMA InvOwes ==
    ASSUME ToolAssumption, LoopInv
    PROVE  ToolTurnsSound
  <1> USE DEF LoopInv
  <1>1. TurnsPaired
    BY DEF Pairing
  <1>2. RunsOnlyOffered
    BY DEF Offering, Runnable, RunsOnlyOffered
  <1>3. Len(loop.answer) = IF loop.pc = "done" THEN 1 ELSE 0
    BY DEF Answered
  <1>4. DOMAIN history.charged = 1..maxIter /\ \A k \in DOMAIN history.charged : history.charged[k] <= 1
    <2>1. history.charged \in [1..maxIter -> {0, 1}]
      BY DEF Claims
    <2>2. \A x \in {0, 1} : x <= 1
      OBVIOUS
    <2> QED
      BY ONLY <2>1, <2>2, Zenon
  <1>5. Billable(loop.buf) => \E k \in DOMAIN history.charged : k >= loop.iter /\ history.charged[k] = 1
    BY <1>4 DEF Claims
  <1>6. history.sends <= Targets + maxSameTargetRetries /\ (loop.held => loop.pc = "sent")
    BY DEF Sending
  <1>7. history.judged <= 1
    BY DEF Judging
  <1> QED
    BY <1>1, <1>2, <1>3, <1>4, <1>5, <1>6, <1>7 DEF ToolTurnsSound, LoopAccounted, Billable

-----------------------------------------------------------------------------
(* What keeps each part.                                                   *)

(* The one response of a request.                                          *)
LEMMA AnsweredKept ==
    ASSUME Answered, \/ loop'.pc # "done" /\ loop.pc # "done" /\ loop'.answer = loop.answer
                     \/ loop.pc # "done" /\ Responds
    PROVE  Answered'
  <1>1. CASE loop'.pc # "done" /\ loop.pc # "done" /\ loop'.answer = loop.answer
    BY <1>1 DEF Answered
  <1>2. CASE loop.pc # "done" /\ Responds
    <2>1. PICK what : loop'.answer = Append(loop.answer, what)
      BY <1>2 DEF Responds
    <2>2. loop.answer = <<>>
      BY <1>2 DEF Answered
    <2>3. Len(loop'.answer) = 1
      BY <2>1, <2>2
    <2> QED
      BY <1>2, <2>3 DEF Answered, Responds
  <1> QED
    BY <1>1, <1>2

(* Outside a sweep nothing is sent.                                        *)
LEMMA SendingKept ==
    ASSUME Sending, Shaped, NEW F, Sets(F), {"i", "same"} \cap F = {}, history'.sends = history.sends,
           loop'.pc \notin {"send", "sent"}, loop'.held = FALSE
    PROVE  Sending'
  <1>1. loop'.i = loop.i /\ loop'.same = loop.same
    BY DEF Sets, LoopFields
  <1> QED
    BY <1>1 DEF Sending, maxSameTargetRetries

(* Who does not come to the screen judges nothing.                         *)
LEMMA JudgingKept ==
    ASSUME Judging, NEW F, Sets(F), "screened" \notin F, history'.judged = history.judged
    PROVE  Judging'
  <1>1. loop'.screened = loop.screened
    BY DEF Sets, LoopFields
  <1> QED
    BY <1>1 DEF Judging

(* Neither the iteration, its answer nor the charges change.               *)
LEMMA ClaimsKept ==
    ASSUME Claims, NEW F, Sets(F), {"iter", "buf"} \cap F = {},
           history'.charged = history.charged, history'.claimed = history.claimed,
           loop.pc \notin {"exec", "done"} \/ loop'.pc = loop.pc \/ loop'.pc = "done",
           loop'.pc \in {"send", "sent", "failed", "exec"} => loop.iter < maxIter, loop'.pc = "exec" => loop.pc = "exec"
    PROVE  Claims'
  <1>1. loop'.iter = loop.iter /\ loop'.buf = loop.buf
    BY DEF Sets, LoopFields
  <1>2. Billable(loop'.buf) = Billable(loop.buf)
    BY <1>1
  <1> QED
    BY <1>1, <1>2 DEF Claims, maxIter, Billable

(* The conversation stays, in the loop.                                    *)
LEMMA PairingKept ==
    ASSUME Pairing, NEW F, Sets(F), "conv" \notin F, loop'.pc \notin {"check", "search", "inject"} \/ loop'.pc = loop.pc,
           loop'.pc = "exec" => loop.pc = "exec" /\ loop'.buf = loop.buf
    PROVE  Pairing'
  <1>1. loop'.conv = loop.conv
    BY DEF Sets, LoopFields
  <1>2. loop'.pc = "exec" => mcpCalls(loop'.buf) \in Seq(Call)
    BY DEF Pairing
  <1>3. TurnsPaired'
    BY <1>1 DEF Pairing, TurnsPaired
  <1>4. loop'.conv \in Seq(Turns)
    BY <1>1 DEF Pairing
  <1>5. loop'.pc \in {"check", "search"} => loop'.conv = <<[role |-> "user"]>>
    BY <1>1 DEF Pairing
  <1>6. loop'.pc = "inject" => \A k \in DOMAIN loop'.conv : loop'.conv[k].role # "assistant"
    BY <1>1 DEF Pairing
  <1> QED
    BY <1>2, <1>3, <1>4, <1>5, <1>6 DEF Pairing

(* Neither the offer, the goroutines nor what they ran change.             *)
LEMMA OfferingKept ==
    ASSUME Offering, NEW F, Sets(F), "offered" \notin F, call' = call \/ call' = <<>>, history'.ran = history.ran
    PROVE  Offering'
  <1>1. loop'.offered = loop.offered
    BY DEF Sets, LoopFields
  <1>2. CASE call' = call
    BY <1>1, <1>2 DEF Offering, Runnable, Past
  <1>3. CASE call' = <<>>
    <2>1. DOMAIN call' = {}
      BY <1>3
    <2> QED
      BY <1>1, <2>1 DEF Offering, Runnable, Past
  <1> QED
    BY <1>2, <1>3

(* A response that charges nothing new ends the request soundly.           *)
LEMMA ResponseKept ==
    ASSUME LoopInv, NEW F, Sets(F), F \subseteq {"pc", "answer"}, Responds, loop.pc \notin {"sent", "done"},
           history' = history, call' = call
    PROVE  LoopInv'
  <1> USE DEF LoopInv
  <1>1. loop'.pc = "done" /\ loop'.held = loop.held /\ loop.held = FALSE
    BY DEF Responds, Sets, LoopFields, Sending
  <1>2. Shaped'
    BY DEF Sets, Shaped
  <1>3. Answered'
    BY AnsweredKept
  <1>4. Sending'
    BY <1>1, SendingKept
  <1>5. Judging'
    BY JudgingKept
  <1>6. Claims'
    BY <1>1, ClaimsKept
  <1>7. Pairing'
    BY <1>1, PairingKept
  <1>8. Offering'
    BY OfferingKept
  <1> QED
    BY <1>2, <1>3, <1>4, <1>5, <1>6, <1>7, <1>8

-----------------------------------------------------------------------------
(* The actions before the loop.                                            *)

(* CheckMCPAvailability                                                    *)
LEMMA CheckMCPKept ==
    ASSUME LoopInv, CheckMCPAvailability
    PROVE  LoopInv'
  <1> USE DEF LoopInv
  <1>1. loop.pc = "check" /\ call' = call /\ history' = history
    BY DEF CheckMCPAvailability
  <1>2. CASE Answer("unavailable")
    BY <1>1, <1>2, AnswerEffect, ResponseKept
  <1>3. CASE LoopTo("search")
    <2>1. Sets({"pc"}) /\ loop'.pc = "search"
      BY <1>3, GotoEffect
    <2>2. loop'.held = loop.held /\ loop.held = FALSE /\ loop'.answer = loop.answer /\ loop'.conv = loop.conv
      BY <1>1, <2>1 DEF Sets, LoopFields, Sending
    <2>3. Shaped' /\ Answered'
      BY <1>1, <2>1, <2>2, AnsweredKept DEF Sets, Shaped
    <2>4. Sending' /\ Judging' /\ Offering'
      BY <1>1, <2>1, <2>2, SendingKept, JudgingKept, OfferingKept
    <2>5. Claims'
      BY <1>1, <2>1, ClaimsKept
    <2>6. Pairing'
      BY <1>1, <2>1, <2>2 DEF Pairing, TurnsPaired
    <2> QED
      BY <2>3, <2>4, <2>5, <2>6
  <1> QED
    BY <1>2, <1>3 DEF CheckMCPAvailability

(* InjectAutoSearch puts a memory message beside the only turn.            *)
LEMMA SearchKept ==
    ASSUME LoopInv, InjectAutoSearch
    PROVE  LoopInv'
  <1> USE DEF LoopInv
  <1>1. loop.pc = "search" /\ call' = call /\ history' = history
    BY DEF InjectAutoSearch
  <1>2. PICK found \in BOOLEAN :
            loop' = [loop EXCEPT !.pc = "inject", !.conv = IF found THEN Front(@) \o <<[role |-> "memory"], Last(@)>> ELSE @]
    BY DEF InjectAutoSearch
  <1> DEFINE u == [role |-> "user"]
             conv == IF found THEN Front(loop.conv) \o <<[role |-> "memory"], Last(loop.conv)>> ELSE loop.conv
  <1>3. loop.conv = <<u>>
    BY <1>1 DEF Pairing
  <1>4. conv = <<u>> \/ conv = <<[role |-> "memory"], u>>
    <2>1. Front(<<u>>) = <<>> /\ Last(<<u>>) = u
      BY DEF Front, Last
    <2> QED
      BY <1>3, <2>1
  <1>5. loop' = [[loop EXCEPT !.pc = "inject"] EXCEPT !.conv = conv]
    BY <1>2
  <1> HIDE DEF conv
  <1>6. Sets({"pc", "conv"}) /\ loop'.pc = "inject" /\ loop'.conv = conv
    BY <1>5 DEF Shaped, Sets, LoopFields
  <1>7. loop'.held = loop.held /\ loop.held = FALSE /\ loop'.answer = loop.answer
    BY <1>1, <1>6 DEF Sets, LoopFields, Sending
  <1>8. Shaped' /\ Answered'
    BY <1>1, <1>6, <1>7, AnsweredKept DEF Sets, Shaped
  <1>9. Sending' /\ Judging' /\ Offering'
    BY <1>1, <1>6, <1>7, SendingKept, JudgingKept, OfferingKept
  <1>10. Claims'
    BY <1>1, <1>6, ClaimsKept
  <1>11. Pairing'
    <2>1. u \in Turns /\ [role |-> "memory"] \in Turns
      BY DEF Turns
    <2>2. conv \in Seq(Turns) /\ \A k \in DOMAIN conv : conv[k].role # "assistant"
      <3>1. CASE conv = <<u>>
        BY <2>1, <3>1
      <3>2. CASE conv = <<[role |-> "memory"], u>>
        BY <2>1, <3>2
      <3> QED
        BY <1>4, <3>1, <3>2
    <2> QED
      BY <1>6, <2>2 DEF Pairing, TurnsPaired
  <1> QED
    BY <1>8, <1>9, <1>10, <1>11

(* serverInjectedTools: what is offered is granted and allowed.            *)
LEMMA OfferedGranted ==
    UNION {serverInjectedTools(s) : s \in AgentServers} \subseteq Granted \cap Allowed
  <1>1. ASSUME NEW s \in AgentServers PROVE serverInjectedTools(s) \subseteq Granted \cap Allowed
    <2> DEFINE T == ServerTools(s) \cap Granted \cap Allowed
    <2>1. selectConversationTools(T) \subseteq T
      BY DEF selectConversationTools
    <2> QED
      BY <2>1 DEF serverInjectedTools
  <1> QED
    BY <1>1

(* InjectMCPTools                                                          *)
LEMMA InjectKept ==
    ASSUME LoopInv, InjectMCPTools
    PROVE  LoopInv'
  <1> USE DEF LoopInv
  <1> DEFINE offered == UNION {serverInjectedTools(s) : s \in AgentServers}
             pc == IF offered = {} THEN "plain" ELSE "reserve"
             conv == IF offered = {} THEN loop.conv ELSE <<[role |-> "system"]>> \o loop.conv
  <1>1. loop.pc = "inject" /\ call' = call /\ history' = history
    BY DEF InjectMCPTools
  <1>2. loop' = [[[loop EXCEPT !.pc = pc] EXCEPT !.offered = offered] EXCEPT !.conv = conv]
    BY DEF InjectMCPTools
  <1>3. offered \subseteq Granted \cap Allowed
    BY OfferedGranted
  <1>4. pc \in {"plain", "reserve"}
    OBVIOUS
  <1>5. conv = loop.conv \/ conv = <<[role |-> "system"]>> \o loop.conv
    OBVIOUS
  <1> HIDE DEF offered, pc, conv
  <1>6. Sets({"pc", "offered", "conv"}) /\ loop'.pc = pc /\ loop'.offered = offered /\ loop'.conv = conv
    BY <1>2 DEF Shaped, Sets, LoopFields
  <1>7. loop'.held = loop.held /\ loop.held = FALSE /\ loop'.answer = loop.answer
    BY <1>1, <1>6 DEF Sets, LoopFields, Sending
  <1>8. Shaped' /\ Answered'
    BY <1>1, <1>4, <1>6, <1>7, AnsweredKept DEF Sets, Shaped
  <1>9. Sending' /\ Judging'
    BY <1>1, <1>4, <1>6, <1>7, SendingKept, JudgingKept
  <1>10. Claims'
    BY <1>1, <1>4, <1>6, ClaimsKept
  <1>11. Pairing'
    <2>1. conv \in Seq(Turns) /\ \A k \in DOMAIN conv : conv[k].role # "assistant"
      <3>1. loop.conv \in Seq(Turns) /\ \A k \in DOMAIN loop.conv : loop.conv[k].role # "assistant"
        BY <1>1 DEF Pairing
      <3>2. [role |-> "system"] \in Turns
        BY DEF Turns
      <3> DEFINE sys == [role |-> "system"]
      <3>3. sys.role # "assistant"
        OBVIOUS
      <3> HIDE DEF sys
      <3>4. <<sys>> \o loop.conv \in Seq(Turns) /\ Len(<<sys>> \o loop.conv) = Len(loop.conv) + 1
        BY <3>1, <3>2 DEF sys
      <3>5. ASSUME NEW k \in DOMAIN (<<sys>> \o loop.conv) PROVE (<<sys>> \o loop.conv)[k].role # "assistant"
        <4>1. k \in 1..(Len(loop.conv) + 1) /\ Len(loop.conv) \in Nat
          BY <3>1, <3>4
        <4>2. CASE k = 1
          <5>1. (<<sys>> \o loop.conv)[k] = sys
            BY <3>1, <4>2
          <5> QED
            BY <3>3, <5>1
        <4>3. CASE k # 1
          <5>1. (<<sys>> \o loop.conv)[k] = loop.conv[k - 1] /\ k - 1 \in DOMAIN loop.conv
            BY <3>1, <3>2, <4>1, <4>3 DEF sys
          <5> QED
            BY <3>1, <5>1
        <4> QED
          BY <4>2, <4>3
      <3> QED
        BY <1>5, <3>1, <3>4, <3>5 DEF sys
    <2> QED
      BY <1>4, <1>6, <2>1 DEF Pairing, TurnsPaired
  <1>12. Offering'
    BY <1>1, <1>3, <1>6 DEF Offering, Runnable, Past
  <1> QED
    BY <1>8, <1>9, <1>10, <1>11, <1>12

(* ReserveKeyBudget                                                        *)
LEMMA ReserveKept ==
    ASSUME LoopInv, ReserveKeyBudget
    PROVE  LoopInv'
  <1> USE DEF LoopInv
  <1>1. loop.pc = "reserve" /\ call' = call /\ history' = history
    BY DEF ReserveKeyBudget
  <1>2. CASE Answer("budget")
    BY <1>1, <1>2, AnswerEffect, ResponseKept
  <1>3. CASE LoopTo("iterate")
    <2>1. Sets({"pc"}) /\ loop'.pc = "iterate"
      BY <1>3, GotoEffect
    <2>2. loop'.held = loop.held /\ loop.held = FALSE /\ loop'.answer = loop.answer
      BY <1>1, <2>1 DEF Sets, LoopFields, Sending
    <2>3. Shaped' /\ Answered'
      BY <1>1, <2>1, <2>2, AnsweredKept DEF Sets, Shaped
    <2>4. Sending' /\ Judging' /\ Offering'
      BY <1>1, <2>1, <2>2, SendingKept, JudgingKept, OfferingKept
    <2>5. Claims' /\ Pairing'
      BY <1>1, <2>1, ClaimsKept, PairingKept
    <2> QED
      BY <2>3, <2>4, <2>5
  <1> QED
    BY <1>2, <1>3 DEF ReserveKeyBudget

-----------------------------------------------------------------------------
(* The loop.                                                               *)

(* The clock: the deadline of the loop, the cooldown of a mark.            *)
LEMMA ClockKept ==
    ASSUME LoopInv, Deadline \/ \E s \in Servers : Expire(s)
    PROVE  LoopInv'
  <1> USE DEF LoopInv
  <1>1. Sets({"expired"}) /\ history' = history /\ call' = call
    BY DEF Deadline, Expire, Shaped, Sets, LoopFields
  <1>2. /\ loop'.pc = loop.pc /\ loop'.answer = loop.answer /\ loop'.held = loop.held /\ loop'.i = loop.i
        /\ loop'.same = loop.same /\ loop'.buf = loop.buf
    BY <1>1 DEF Sets, LoopFields
  <1>3. Shaped' /\ Answered'
    BY <1>1, <1>2 DEF Sets, Shaped, Answered
  <1>4. Sending'
    BY <1>1, <1>2 DEF Sending, maxSameTargetRetries
  <1>5. Judging' /\ Offering'
    BY <1>1, JudgingKept, OfferingKept
  <1>6. Claims'
    <2>1. loop'.pc \in {"send", "sent", "failed", "exec"} => loop.iter < maxIter
      BY <1>2 DEF Claims
    <2> QED
      BY <1>1, <1>2, <2>1, ClaimsKept
  <1>7. Pairing'
    BY <1>1, <1>2, PairingKept
  <1> QED
    BY <1>3, <1>4, <1>5, <1>6, <1>7

(* A charge on an iteration that no one has claimed, as the request ends:  *)
(* no iteration is charged twice, and none loses its charge.               *)
LEMMA ChargeKept ==
    ASSUME ToolAssumption, Claims, NEW k \in Nat, k \notin history.claimed, Charges(k), loop'.iter = loop.iter
    PROVE  /\ history'.charged \in [1..maxIter -> {0, 1}]
           /\ \A j \in 1..maxIter : history'.charged[j] = 1 <=> j \in history'.claimed
           /\ \A j \in 1..maxIter : history.charged[j] = 1 => history'.charged[j] = 1
           /\ k \in 1..maxIter => history'.charged[k] = 1
  <1> DEFINE c == history.charged
             d == history'.charged
  <1>1. maxIter \in Nat
    BY Bounds
  <1>2. c \in [1..maxIter -> {0, 1}] /\ (\A j \in 1..maxIter : c[j] = 1 <=> j \in history.claimed)
    BY DEF Claims
  <1>3. d = [c EXCEPT ![k] = c[k] + 1] /\ history'.claimed = history.claimed \cup {k}
    BY DEF Charges
  <1> HIDE DEF c, d
  <1> DEFINE HaveCharges ==
                 /\ d \in [1..maxIter -> {0, 1}]
                 /\ \A j \in 1..maxIter : d[j] = 1 <=> j \in history'.claimed
                 /\ \A j \in 1..maxIter : c[j] = 1 => d[j] = 1
                 /\ k \in 1..maxIter => d[k] = 1
  <1>4. ASSUME k \in 1..maxIter PROVE HaveCharges
    <2>1. c[k] = 0
      BY <1>2, <1>4
    <2>2. d = [c EXCEPT ![k] = 1]
      BY <1>3, <2>1
    <2>3. d \in [1..maxIter -> {0, 1}] /\ \A j \in 1..maxIter : d[j] = IF j = k THEN 1 ELSE c[j]
      BY <1>2, <2>2
    <2> QED
      BY <1>2, <1>3, <1>4, <2>3
  <1>5. ASSUME k \notin 1..maxIter PROVE HaveCharges
    <2>1. d = c
      BY <1>2, <1>3, <1>5
    <2>2. \A j \in 1..maxIter : j \in history'.claimed <=> j \in history.claimed
      BY <1>3, <1>5
    <2>3. d \in [1..maxIter -> {0, 1}] /\ (\A j \in 1..maxIter : d[j] = 1 <=> j \in history.claimed)
      BY ONLY <1>2, <2>1, Zenon
    <2>4. \A j \in 1..maxIter : c[j] = 1 => d[j] = 1
      BY ONLY <2>1, Zenon
    <2> QED
      BY ONLY <1>5, <2>2, <2>3, <2>4, Zenon
  <1>6. HaveCharges
    BY <1>4, <1>5
  <1> QED
    BY <1>6 DEF c, d

(* The end of a request whose last answer may still have to be charged.    *)
LEMMA LastChargeKept ==
    ASSUME ToolAssumption, LoopInv, NEW buf, NEW k \in Nat, history' = RecordMCPUsage(buf, k),
           Sets({"pc", "answer"}), Responds, loop.pc \notin {"sent", "done"}, call' = call \/ call' = <<>>
    PROVE  LoopInv'
  <1> USE DEF LoopInv
  <1>1. loop'.pc = "done" /\ loop'.held = FALSE /\ loop'.iter = loop.iter /\ loop'.buf = loop.buf
    BY DEF Responds, Sets, LoopFields, Sending
  <1>2. Notes({"charged", "claimed"}) /\ (history' = history \/ (k \notin history.claimed /\ Charges(k)))
    BY UsageEffect
  <1>3. history'.sends = history.sends /\ history'.judged = history.judged /\ history'.ran = history.ran
    BY <1>2 DEF Notes, HistoryFields
  <1>4. Shaped' /\ Answered'
    BY <1>2, AnsweredKept DEF Sets, Notes, Shaped
  <1>5. Sending' /\ Judging'
    BY <1>1, <1>3, SendingKept, JudgingKept
  <1>6. Offering'
    BY <1>3, OfferingKept
  <1>7. Pairing'
    BY <1>1, PairingKept
  <1>8. Claims'
    <2>1. CASE history' = history
      BY <1>1, <2>1, ClaimsKept
    <2>2. CASE k \notin history.claimed /\ Charges(k)
      <3>1. /\ history'.charged \in [1..maxIter -> {0, 1}]
            /\ \A j \in 1..maxIter : history'.charged[j] = 1 <=> j \in history'.claimed
            /\ \A j \in 1..maxIter : history.charged[j] = 1 => history'.charged[j] = 1
        BY <1>1, <2>2, ChargeKept
      <3>2. Billable(loop'.buf) => \E j \in 1..maxIter : j >= loop'.iter /\ history'.charged[j] = 1
        BY <1>1, <3>1 DEF Claims
      <3> QED
        BY <1>1, <3>1, <3>2 DEF Claims, maxIter, Billable
    <2> QED
      BY <1>2, <2>1, <2>2
  <1> QED
    BY <1>4, <1>5, <1>6, <1>7, <1>8

(* Iterate                                                                 *)
LEMMA IterateKept ==
    ASSUME ToolAssumption, LoopInv, Iterate
    PROVE  LoopInv'
  <1> USE DEF LoopInv
  <1>1. loop.pc = "iterate" /\ call' = call
    BY DEF Iterate
  <1>2. CASE loop.iter < maxIter /\ ~loop.expired
    <2>1. /\ loop' = [loop EXCEPT !.pc = "send", !.i = 1, !.attempt = 0, !.same = 0]
          /\ history' = [history EXCEPT !.sends = 0]
      BY <1>2 DEF Iterate
    <2>2. Sets({"pc", "i", "attempt", "same"}) /\ loop'.pc = "send" /\ loop'.i = 1 /\ loop'.same = 0
      BY <2>1 DEF Shaped, Sets, LoopFields
    <2>3. Notes({"sends"}) /\ history'.sends = 0
      BY <2>1 DEF Shaped, Notes, HistoryFields
    <2>4. /\ history'.judged = history.judged /\ history'.ran = history.ran
          /\ history'.charged = history.charged /\ history'.claimed = history.claimed
      BY <2>3 DEF Notes, HistoryFields
    <2>5. loop'.held = loop.held /\ loop.held = FALSE /\ loop'.answer = loop.answer
      BY <1>1, <2>2 DEF Sets, LoopFields, Sending
    <2>6. Shaped' /\ Answered'
      BY <1>1, <2>2, <2>3, <2>5, AnsweredKept DEF Sets, Notes, Shaped
    <2>7. Sending'
      BY <2>2, <2>3, <2>5, Bounds DEF Sending, maxSameTargetRetries
    <2>8. Judging' /\ Offering'
      BY <1>1, <2>2, <2>4, JudgingKept, OfferingKept
    <2>9. Claims' /\ Pairing'
      BY <1>1, <1>2, <2>2, <2>4, ClaimsKept, PairingKept
    <2> QED
      BY <2>6, <2>7, <2>8, <2>9
  <1>3. CASE ~(loop.iter < maxIter /\ ~loop.expired)
    <2>1. \E what : Answer(what)
      BY <1>3 DEF Iterate, Replay
    <2>2. Sets({"pc", "answer"}) /\ Responds
      BY <2>1, AnswerEffect
    <2>3. history' = RecordMCPUsage(loop.last, loop.iter)
      BY <1>3 DEF Iterate
    <2>4. loop.iter \in Nat
      BY DEF Claims
    <2> QED
      BY <1>1, <2>2, <2>3, <2>4, LastChargeKept
  <1> QED
    BY <1>2, <1>3

(* Send                                                                    *)
LEMMA SendKept ==
    ASSUME ToolAssumption, LoopInv, Forward
    PROVE  LoopInv'
  <1> USE DEF LoopInv
  <1>1. loop.pc = "send" /\ call' = call /\ loop.i <= Targets
    BY DEF Forward
  <1>2. Sets({"pc", "held"}) /\ loop'.pc = "sent"
    BY DEF Forward, Shaped, Sets, LoopFields
  <1>3. Notes({"sends"}) /\ history'.sends = history.sends + 1
    BY DEF Forward, Shaped, Notes, HistoryFields
  <1>4. /\ history'.judged = history.judged /\ history'.ran = history.ran
        /\ history'.charged = history.charged /\ history'.claimed = history.claimed
    BY <1>3 DEF Notes, HistoryFields
  <1>5. loop'.i = loop.i /\ loop'.same = loop.same /\ loop'.answer = loop.answer
    BY <1>2 DEF Sets, LoopFields
  <1>6. Shaped' /\ Answered'
    BY <1>1, <1>2, <1>3, <1>5, AnsweredKept DEF Sets, Notes, Shaped
  <1>7. Sending'
    BY <1>1, <1>2, <1>3, <1>5, Bounds DEF Sending, maxSameTargetRetries
  <1>8. Judging' /\ Offering'
    BY <1>1, <1>2, <1>4, JudgingKept, OfferingKept
  <1>9. Claims' /\ Pairing'
    <2>1. loop.iter < maxIter
      BY <1>1 DEF Claims
    <2> QED
      BY <1>1, <1>2, <1>4, <2>1, ClaimsKept, PairingKept
  <1> QED
    BY <1>6, <1>7, <1>8, <1>9

(* A send that brings no answer: SendFailed, BufferFailed, an empty one.   *)
LEMMA NoAnswerKept ==
    ASSUME ToolAssumption, LoopInv, loop.pc = "sent", history' = history, call' = call,
           Sets({"pc", "held", "attempt", "i", "same"}), loop'.held = FALSE,
           \/ loop'.pc = "send" /\ loop'.i = loop.i + 1 /\ loop'.same = loop.same
           \/ loop'.pc = "send" /\ loop'.i = loop.i /\ loop'.same = loop.same + 1 /\ ~(loop.same >= maxSameTargetRetries)
           \/ loop'.pc = "failed" /\ loop'.i = loop.i /\ loop'.same = loop.same
    PROVE  LoopInv'
  <1> USE DEF LoopInv
  <1>1. loop'.pc \in {"send", "failed"} /\ loop'.answer = loop.answer
    BY DEF Sets, LoopFields
  <1>2. Shaped' /\ Answered'
    BY <1>1, AnsweredKept DEF Sets, Shaped
  <1>3. maxSameTargetRetries \in Nat /\ Targets \in Nat
    BY Bounds
  <1>4. /\ loop.i \in Nat /\ loop.i >= 1 /\ loop.same \in Nat /\ loop.same <= maxSameTargetRetries
        /\ history.sends \in Nat /\ history.sends <= Targets + maxSameTargetRetries
        /\ loop.i <= Targets /\ history.sends <= loop.i + loop.same
    BY DEF Sending
  <1>5. Sending'
    BY <1>1, <1>3, <1>4 DEF Sending, maxSameTargetRetries
  <1>6. Judging' /\ Offering'
    BY JudgingKept, OfferingKept
  <1>7. Claims' /\ Pairing'
    <2>1. loop.iter < maxIter
      BY DEF Claims
    <2> QED
      BY <1>1, <2>1, ClaimsKept, PairingKept
  <1> QED
    BY <1>2, <1>5, <1>6, <1>7

(* SendFailed, BufferFailed and Exhausted.                                 *)
LEMMA FailureKept ==
    ASSUME ToolAssumption, LoopInv, ForwardFailed \/ BufferFailed \/ Exhausted
    PROVE  LoopInv'
  <1> USE DEF LoopInv
  <1>1. CASE ForwardFailed
    <2>1. loop.pc = "sent" /\ history' = history /\ call' = call
      BY <1>1 DEF ForwardFailed
    <2> QED
      BY <1>1, <2>1, SendFailedEffect, NoAnswerKept
  <1>2. CASE BufferFailed
    <2>1. loop.pc = "sent" /\ history' = history /\ call' = call
      BY <1>2 DEF BufferFailed
    <2>2. loop' = [[loop EXCEPT !.held = FALSE] EXCEPT !.pc = "failed"]
      BY <1>2 DEF BufferFailed, stopped
    <2>3. /\ Sets({"pc", "held", "attempt", "i", "same"}) /\ loop'.held = FALSE
          /\ loop'.pc = "failed" /\ loop'.i = loop.i /\ loop'.same = loop.same
      BY <2>2 DEF Shaped, Sets, LoopFields
    <2> QED
      BY <2>1, <2>3, NoAnswerKept
  <1>3. CASE Exhausted
    <2>1. loop.pc \in {"failed", "send"} /\ history' = history /\ call' = call
      BY <1>3 DEF Exhausted
    <2>2. \E what : Answer(what)
      BY <1>3 DEF Exhausted, Replay
    <2>3. Sets({"pc", "answer"}) /\ Responds
      BY <2>2, AnswerEffect
    <2> QED
      BY <2>1, <2>3, ResponseKept
  <1> QED
    BY <1>1, <1>2, <1>3

(* The answer of this iteration is charged here: nobody has claimed it.    *)
LEMMA BufferCharged ==
    ASSUME ToolAssumption, Claims, loop.pc = "sent", NEW buf, ChargedHere(buf),
           loop'.iter = loop.iter, loop'.buf = buf, loop'.pc \in {"exec", "done"}
    PROVE  Claims'
  <1>1. maxIter \in Nat
    BY Bounds
  <1>2. loop.iter \in Nat /\ loop.iter < maxIter /\ \A k \in history.claimed : k \in Nat /\ k <= loop.iter
    BY DEF Claims
  <1> DEFINE n == loop.iter + 1
  <1>3. n \in Nat /\ n \in 1..maxIter /\ n >= loop.iter /\ n \notin history.claimed
    BY <1>1, <1>2
  <1>4. CASE Charges(n)
    <2>1. /\ history'.charged \in [1..maxIter -> {0, 1}]
          /\ \A j \in 1..maxIter : history'.charged[j] = 1 <=> j \in history'.claimed
          /\ history'.charged[n] = 1
      BY <1>3, <1>4, ChargeKept
    <2>2. \A k \in history'.claimed : k \in Nat /\ k <= loop.iter + 1
      BY <1>2, <1>4 DEF Charges
    <2> QED
      BY <1>1, <1>2, <1>3, <2>1, <2>2 DEF Claims, maxIter
  <1>5. CASE history' = history /\ ~Billable(buf)
    <2>1. \A k \in history'.claimed : k \in Nat /\ k <= loop.iter + 1
      BY <1>2, <1>5
    <2>2. ~Billable(loop.buf)'
      BY <1>5 DEF Billable
    <2> QED
      BY <1>1, <1>2, <1>5, <2>1, <2>2 DEF Claims, maxIter
  <1> QED
    BY <1>4, <1>5 DEF ChargedHere

(* Buffered                                                                *)
LEMMA BufferedKept ==
    ASSUME ToolAssumption, LoopInv, NEW lines \in Answers, Buffered(lines)
    PROVE  LoopInv'
  <1> USE DEF LoopInv
  <1> DEFINE buf == BufferedResult(lines)
  <1>1. loop.pc = "sent" /\ (Empty \/ HandedOn(buf) \/ Started(buf))
    BY BufferedEffect
  <1>2. mcpCalls(buf) \in Seq(Call)
    BY DEF ToolAssumption
  <1> HIDE DEF buf
  <1>3. CASE Empty
    <2>1. Sets({"pc", "held", "attempt", "i", "same"}) /\ loop'.same = loop.same
      BY <1>3 DEF Empty, Sets, LoopFields
    <2> QED
      BY <1>1, <1>3, <2>1, NoAnswerKept DEF Empty
  <1>4. ASSUME HandedOn(buf) \/ Started(buf)
        PROVE  /\ Sets({"held", "buf", "pc", "answer"}) /\ loop'.held = FALSE /\ loop'.buf = buf /\ loop'.iter = loop.iter
               /\ ChargedHere(buf) /\ loop'.pc \in {"done", "exec"}
               /\ history'.sends = history.sends /\ history'.judged = history.judged /\ history'.ran = history.ran
               /\ Shaped' /\ Sending' /\ Judging' /\ Claims'
    <2>1. /\ Sets({"held", "buf", "pc", "answer"}) /\ loop'.held = FALSE /\ loop'.buf = buf
          /\ ChargedHere(buf) /\ loop'.pc \in {"done", "exec"}
      BY <1>4 DEF HandedOn, Started, Sets, Responds
    <2>2. loop'.iter = loop.iter
      BY <2>1 DEF Sets, LoopFields
    <2>3. /\ history'.sends = history.sends /\ history'.judged = history.judged /\ history'.ran = history.ran
          /\ DOMAIN history' = HistoryFields
      BY <2>1 DEF ChargedHere, Notes, HistoryFields
    <2>4. Shaped'
      BY <2>1, <2>3 DEF Sets, Shaped
    <2>5. Sending' /\ Judging'
      BY <2>1, <2>3, SendingKept, JudgingKept
    <2>6. Claims'
      BY <1>1, <2>1, <2>2, BufferCharged
    <2> QED
      BY <2>1, <2>2, <2>3, <2>4, <2>5, <2>6
  <1>5. CASE HandedOn(buf)
    <2>1. Responds /\ loop'.pc = "done" /\ call' = call
      BY <1>5 DEF HandedOn, Responds
    <2>2. Answered'
      BY <1>1, <2>1, AnsweredKept
    <2>3. Pairing' /\ Offering'
      BY <1>4, <1>5, <2>1, PairingKept, OfferingKept
    <2> QED
      BY <1>4, <1>5, <2>2, <2>3
  <1>6. CASE Started(buf)
    <2>1. Sets({"held", "buf", "pc"}) /\ loop'.pc = "exec"
          /\ call' = [k \in DOMAIN mcpCalls(buf) |-> [tool |-> mcpCalls(buf)[k].tool, at |-> "start", seen |-> 0, result |-> "none"]]
      BY <1>6 DEF Started
    <2>2. loop'.answer = loop.answer /\ loop'.conv = loop.conv /\ loop'.offered = loop.offered
      BY <2>1 DEF Sets, LoopFields
    <2>3. Answered'
      BY <1>1, <2>1, <2>2, AnsweredKept
    <2>4. Pairing'
      <3>1. TurnsPaired'
        BY <2>2 DEF Pairing, TurnsPaired
      <3>2. mcpCalls(loop.buf)' \in Seq(Call)
        BY <1>2, <1>4, <1>6
      <3> QED
        BY <2>1, <2>2, <3>1, <3>2 DEF Pairing
    <2>5. Offering'
      <3>1. \A k \in DOMAIN call' : {"tool", "at", "seen", "result"} \subseteq DOMAIN call'[k] /\ call'[k].at = "start"
        BY <2>1
      <3> QED
        BY <1>4, <1>6, <2>2, <3>1 DEF Offering, Runnable, Past
    <2> QED
      BY <1>4, <1>6, <2>3, <2>4, <2>5
  <1> QED
    BY <1>1, <1>3, <1>5, <1>6

(* appendMCPResults: an assistant turn and one result per call, in order,  *)
(* after turns that were paired.                                           *)
LEMMA PairsAppended ==
    ASSUME loop.conv \in Seq(Turns), TurnsPaired, NEW buf, mcpCalls(buf) \in Seq(Call),
           loop'.conv = loop.conv \o appendMCPResults(buf)
    PROVE  loop'.conv \in Seq(Turns) /\ TurnsPaired'
  <1> DEFINE calls == mcpCalls(buf)
             ids == [k \in DOMAIN calls |-> calls[k].id]
             turn == [role |-> "assistant", ids |-> ids]
             res == [k \in DOMAIN calls |-> [role |-> "tool", id |-> calls[k].id]]
             old == loop.conv
             m == Len(calls)
             n == Len(old)
  <1>1. appendMCPResults(buf) = <<turn>> \o res
    BY DEF appendMCPResults, results
  <1>a. calls \in Seq(Call)
    OBVIOUS
  <1> HIDE DEF calls
  <1>2. m \in Nat /\ DOMAIN calls = 1..m /\ \A k \in 1..m : calls[k].id \in STRING
    <2>1. m \in Nat /\ DOMAIN calls = 1..m /\ \A k \in 1..m : calls[k] \in Call
      BY <1>a
    <2> QED
      BY <2>1 DEF Call
  <1>3. ids \in Seq(STRING) /\ Len(ids) = m /\ DOMAIN ids = 1..m
    BY <1>2
  <1>4. turn \in Turns /\ turn.role = "assistant" /\ turn.ids = ids
    BY <1>3 DEF Turns
  <1>5. res \in Seq(Turns) /\ Len(res) = m /\ \A k \in 1..m : res[k] = [role |-> "tool", id |-> ids[k]]
    <2>1. \A k \in 1..m : [role |-> "tool", id |-> calls[k].id] \in Turns
      BY <1>2 DEF Turns
    <2> QED
      BY <1>2, <2>1
  <1>6. n \in Nat /\ old \in Seq(Turns) /\ DOMAIN old = 1..n
    OBVIOUS
  <1> HIDE DEF ids, turn, res
  <1> DEFINE tail == <<turn>> \o res
  <1>7. /\ tail \in Seq(Turns) /\ Len(tail) = m + 1 /\ tail[1] = turn
        /\ \A j \in 1..m : tail[j + 1] = res[j]
    BY <1>2, <1>4, <1>5
  <1> HIDE DEF tail, old, m, n
  <1> DEFINE new == old \o tail
  <1>8. /\ new \in Seq(Turns) /\ Len(new) = n + m + 1 /\ DOMAIN new = 1..(n + m + 1)
        /\ \A k \in 1..n : new[k] = old[k]
        /\ \A j \in 1..(m + 1) : new[n + j] = tail[j]
    <2>1. Len(old) = n
      BY DEF n
    <2>a. \A s, t \in Seq(Turns) : s \o t \in Seq(Turns) /\ Len(s \o t) = Len(s) + Len(t)
      OBVIOUS
    <2>2. new \in Seq(Turns) /\ Len(new) = n + (m + 1)
      BY ONLY <1>6, <1>7, <2>1, <2>a, Zenon
    <2>3. DOMAIN new = 1..(n + m + 1) /\ Len(new) = n + m + 1
      BY <1>2, <1>6, <2>2
    <2>4. \A k \in 1..n : new[k] = old[k]
      BY <1>6, <1>7, <2>1
    <2>5. ASSUME NEW j \in 1..(m + 1) PROVE new[n + j] = tail[j]
      <3>1. n + j \in 1..(n + (m + 1)) /\ n + j > n /\ (n + j) - n = j
        BY <1>2, <1>6
      <3> QED
        BY <1>6, <1>7, <2>1, <3>1
    <2> QED
      BY <2>2, <2>3, <2>4, <2>5
  <1>b. new = old \o tail
    OBVIOUS
  <1> HIDE DEF new
  <1>9. new[n + 1] = turn /\ \A j \in 1..m : new[n + 1 + j] = [role |-> "tool", id |-> ids[j]]
    <2>1. new[n + 1] = tail[1]
      BY <1>2, <1>8
    <2>2. ASSUME NEW j \in 1..m PROVE new[n + 1 + j] = [role |-> "tool", id |-> ids[j]]
      <3>1. j + 1 \in 1..(m + 1) /\ n + (j + 1) = n + 1 + j
        BY <1>2, <1>6
      <3>2. new[n + (j + 1)] = tail[j + 1]
        BY <1>8, <3>1
      <3> QED
        BY <1>5, <1>7, <3>1, <3>2
    <2> QED
      BY <1>7, <2>1, <2>2
  <1>10. loop'.conv = new
    BY <1>1, <1>b DEF old, tail
  <1>11. ASSUME NEW k \in DOMAIN new, new[k].role = "assistant"
         PROVE  /\ k + Len(new[k].ids) <= Len(new)
                /\ \A j \in DOMAIN new[k].ids : new[k + j] = [role |-> "tool", id |-> new[k].ids[j]]
                /\ k + Len(new[k].ids) < Len(new) => new[k + Len(new[k].ids) + 1].role # "tool"
    <2>1. CASE k \in 1..n
      <3>1. new[k] = old[k] /\ old[k].role = "assistant" /\ k \in DOMAIN old
        BY <1>6, <1>8, <1>11, <2>1
      <3> DEFINE those == old[k].ids
      <3>2. /\ k + Len(those) <= n
            /\ \A j \in DOMAIN those : old[k + j] = [role |-> "tool", id |-> those[j]]
            /\ k + Len(those) < n => old[k + Len(those) + 1].role # "tool"
        BY <3>1 DEF TurnsPaired, old, n
      <3>3. those \in Seq(STRING)
        <4>1. old[k] \in Turns
          BY <1>6, <3>1
        <4>2. old[k] \in [role : {"assistant"}, ids : Seq(STRING)]
          BY <3>1, <4>1 DEF Turns
        <4> QED
          BY <4>2
      <3> HIDE DEF those
      <3>4. Len(those) \in Nat /\ DOMAIN those = 1..Len(those)
        BY <3>3
      <3>5. k + Len(those) <= Len(new)
        BY <1>2, <1>6, <1>8, <2>1, <3>2, <3>4
      <3>6. ASSUME NEW j \in DOMAIN those PROVE new[k + j] = [role |-> "tool", id |-> those[j]]
        <4>1. k + j \in 1..n
          BY <1>6, <2>1, <3>2, <3>4
        <4> QED
          BY <1>8, <3>2, <4>1
      <3>7. ASSUME k + Len(those) < Len(new) PROVE new[k + Len(those) + 1].role # "tool"
        <4>1. CASE k + Len(those) < n
          <5>1. k + Len(those) + 1 \in 1..n
            BY <1>6, <2>1, <3>4, <4>1
          <5> QED
            BY <1>8, <3>2, <4>1, <5>1
        <4>2. CASE k + Len(those) = n
          <5>1. k + Len(those) + 1 = n + 1
            BY <4>2
          <5> QED
            BY <1>4, <1>9, <5>1
        <4>3. k + Len(those) < n \/ k + Len(those) = n
          BY ONLY <1>6, <2>1, <3>2, <3>4
        <4> QED
          BY <4>1, <4>2, <4>3
      <3> QED
        BY <3>1, <3>5, <3>6, <3>7 DEF those
    <2>2. CASE k = n + 1
      <3>1. new[k] = turn /\ new[k].ids = ids
        BY <1>4, <1>9, <2>2
      <3>2. k + Len(ids) = Len(new)
        BY <1>2, <1>3, <1>6, <1>8, <2>2
      <3>3. \A j \in DOMAIN ids : new[k + j] = [role |-> "tool", id |-> ids[j]]
        BY <1>3, <1>9, <2>2
      <3>4. Len(new) \in Nat
        BY <1>2, <1>6, <1>8
      <3> QED
        BY <3>1, <3>2, <3>3, <3>4
    <2>3. CASE k \in (n + 2)..(n + m + 1)
      <3>1. k - (n + 1) \in 1..m /\ n + 1 + (k - (n + 1)) = k
        BY <1>2, <1>6, <2>3
      <3>2. new[k] = [role |-> "tool", id |-> ids[k - (n + 1)]]
        BY <1>9, <3>1
      <3> QED
        BY <1>11, <3>2
    <2> QED
      BY <1>2, <1>6, <1>8, <2>1, <2>2, <2>3
  <1>12. TurnsPaired'
    BY <1>10, <1>11 DEF TurnsPaired
  <1> QED
    BY <1>8, <1>10, <1>12

(* AppendResults                                                           *)
LEMMA AppendKept ==
    ASSUME ToolAssumption, LoopInv, AppendResults
    PROVE  LoopInv'
  <1> USE DEF LoopInv
  <1>1. loop.pc = "exec" /\ call' = <<>>
    BY DEF AppendResults
  <1>2. CASE /\ loop' = [loop EXCEPT !.pc = "iterate", !.conv = @ \o appendMCPResults(loop.buf), !.last = loop.buf, !.iter = @ + 1]
             /\ history' = history
    <2> DEFINE conv == loop.conv \o appendMCPResults(loop.buf)
    <2>1. loop' = [[[[loop EXCEPT !.pc = "iterate"] EXCEPT !.conv = conv] EXCEPT !.last = loop.buf] EXCEPT !.iter = loop.iter + 1]
      BY <1>2
    <2> HIDE DEF conv
    <2>2. Sets({"pc", "conv", "last", "iter"}) /\ loop'.pc = "iterate" /\ loop'.conv = conv /\ loop'.iter = loop.iter + 1
      BY <2>1 DEF Shaped, Sets, LoopFields
    <2>3. loop'.answer = loop.answer /\ loop'.buf = loop.buf /\ loop'.held = loop.held /\ loop.held = FALSE
      BY <1>1, <2>2 DEF Sets, LoopFields, Sending
    <2>4. Shaped' /\ Answered'
      BY <1>1, <1>2, <2>2, <2>3, AnsweredKept DEF Sets, Shaped
    <2>5. Sending' /\ Judging' /\ Offering'
      BY <1>1, <1>2, <2>2, <2>3, SendingKept, JudgingKept, OfferingKept
    <2>6. Claims'
      <3>1. maxIter \in Nat
        BY Bounds
      <3>2. loop.iter \in Nat /\ loop.iter < maxIter /\ (\A k \in history.claimed : k \in Nat /\ k <= loop.iter + 1)
        BY <1>1 DEF Claims
      <3>3. Billable(loop.buf)' => history.charged[loop.iter + 1] = 1
        BY <1>1, <2>3 DEF Claims, Billable
      <3>4. loop.iter + 1 \in 1..maxIter /\ loop.iter + 1 >= loop.iter + 1
        BY <3>1, <3>2
      <3>5. Billable(loop.buf)' => \E k \in 1..maxIter : k >= loop.iter + 1 /\ history.charged[k] = 1
        BY <3>3, <3>4
      <3> QED
        BY <1>2, <2>2, <3>1, <3>2, <3>5 DEF Claims, maxIter
    <2>7. Pairing'
      <3>1. loop.conv \in Seq(Turns) /\ TurnsPaired /\ mcpCalls(loop.buf) \in Seq(Call)
        BY <1>1 DEF Pairing
      <3>2. loop'.conv = loop.conv \o appendMCPResults(loop.buf)
        BY <2>2 DEF conv
      <3>3. loop'.conv \in Seq(Turns) /\ TurnsPaired'
        BY <3>1, <3>2, PairsAppended
      <3> QED
        BY <2>2, <3>3 DEF Pairing
    <2> QED
      BY <2>4, <2>5, <2>6, <2>7
  <1>3. CASE (\E what : Answer(what)) /\ history' = RecordMCPUsage(loop.buf, loop.iter + 1)
    <2>1. Sets({"pc", "answer"}) /\ Responds
      BY <1>3, AnswerEffect
    <2>2. loop.iter + 1 \in Nat
      BY DEF Claims
    <2> QED
      BY <1>1, <1>3, <2>1, <2>2, LastChargeKept
  <1> QED
    BY <1>2, <1>3 DEF AppendResults, Replay

-----------------------------------------------------------------------------
(* The goroutines.                                                         *)

(* One call moves to a label, with the tool it has.                        *)
Moves(k, label) ==
    /\ DOMAIN call' = DOMAIN call
    /\ \A j \in DOMAIN call \ {k} : call'[j] = call[j]
    /\ {"tool", "at", "seen", "result"} \subseteq DOMAIN call'[k]
    /\ call'[k].at = label /\ call'[k].tool = call[k].tool

(* Step and Finish.                                                        *)
LEMMA CallEffect ==
    ASSUME Offering, NEW k \in DOMAIN call
    PROVE  /\ \A label : Passes(k, label) => Moves(k, label)
           /\ \A result : Finish(k, result) => Moves(k, "done")
           /\ \A n : call' = [call EXCEPT ![k].at = "clear", ![k].seen = n] => Moves(k, "clear")
  <1>1. {"tool", "at", "seen", "result"} \subseteq DOMAIN call[k]
    BY DEF Offering
  <1>2. ASSUME NEW label, Passes(k, label) PROVE Moves(k, label)
    <2>1. call' = [call EXCEPT ![k] = [call[k] EXCEPT !.at = label]]
      BY <1>2 DEF Passes
    <2> QED
      BY <1>1, <2>1 DEF Moves
  <1>3. ASSUME NEW result, Finish(k, result) PROVE Moves(k, "done")
    <2> DEFINE new == [[call[k] EXCEPT !.at = "done"] EXCEPT !.result = result]
    <2>1. call' = [call EXCEPT ![k] = new]
      BY <1>3 DEF Finish
    <2>2. {"tool", "at", "seen", "result"} \subseteq DOMAIN new /\ new.at = "done" /\ new.tool = call[k].tool
      BY <1>1
    <2> HIDE DEF new
    <2> QED
      BY <2>1, <2>2 DEF Moves
  <1>4. ASSUME NEW n, call' = [call EXCEPT ![k].at = "clear", ![k].seen = n] PROVE Moves(k, "clear")
    <2> DEFINE new == [[call[k] EXCEPT !.at = "clear"] EXCEPT !.seen = n]
    <2>1. call' = [call EXCEPT ![k] = new]
      BY <1>4
    <2>2. {"tool", "at", "seen", "result"} \subseteq DOMAIN new /\ new.at = "clear" /\ new.tool = call[k].tool
      BY <1>1
    <2> HIDE DEF new
    <2> QED
      BY <2>1, <2>2 DEF Moves
  <1> QED
    BY <1>2, <1>3, <1>4

(* A call that moves changes nothing else, and gets past its check only    *)
(* with a tool that may be run.                                            *)
LEMMA MoveKept ==
    ASSUME LoopInv, NEW k \in DOMAIN call, NEW label, Moves(k, label), loop.pc = "exec",
           label \in Past => call[k].tool \in Runnable,
           Sets({"screened"}), Notes({"ran", "judged", "rejections"}), history'.ran \subseteq history.ran \cup Runnable, Judging'
    PROVE  LoopInv'
  <1> USE DEF LoopInv
  <1>1. /\ loop'.pc = loop.pc /\ loop'.answer = loop.answer /\ loop'.held = loop.held /\ loop'.i = loop.i
        /\ loop'.same = loop.same /\ loop'.buf = loop.buf /\ loop'.offered = loop.offered
    BY DEF Sets, LoopFields
  <1>2. history'.sends = history.sends /\ history'.charged = history.charged /\ history'.claimed = history.claimed
    BY DEF Notes, HistoryFields
  <1>3. Shaped' /\ Answered'
    BY <1>1 DEF Sets, Notes, Shaped, Answered
  <1>4. Sending'
    BY <1>1, <1>2 DEF Sending, maxSameTargetRetries
  <1>5. Claims'
    <2>1. loop.iter < maxIter
      BY DEF Claims
    <2> QED
      BY <1>1, <1>2, <2>1, ClaimsKept
  <1>6. Pairing'
    BY <1>1, PairingKept
  <1>7. Offering'
    <2>1. ASSUME NEW j \in DOMAIN call'
          PROVE  {"tool", "at", "seen", "result"} \subseteq DOMAIN call'[j] /\ (call'[j].at \in Past => call'[j].tool \in Runnable)
      <3>1. CASE j = k
        BY <3>1 DEF Moves
      <3>2. CASE j # k
        BY <2>1, <3>2 DEF Moves, Offering
      <3> QED
        BY <3>1, <3>2
    <2>2. history'.ran \subseteq Runnable /\ loop'.offered \subseteq Granted \cap Allowed
      BY <1>1 DEF Offering
    <2> QED
      BY <2>1, <2>2 DEF Offering, Runnable, Past
  <1> QED
    BY <1>3, <1>4, <1>5, <1>6, <1>7

(* Vet, Screen, CallTool, Observe and Clear.                               *)
LEMMA GoroutineKept ==
    ASSUME LoopInv, NEW k \in DOMAIN call, Goroutine(k)
    PROVE  LoopInv'
  <1> USE DEF LoopInv
  <1>1. ASSUME loop' = loop PROVE Sets({"screened"})
    BY <1>1 DEF Sets, Shaped
  <1>2. ASSUME history' = history PROVE Notes({"ran", "judged", "rejections"}) /\ history'.ran \subseteq history.ran \cup Runnable
    BY <1>2 DEF Notes, Shaped
  <1>3. ASSUME loop' = loop, history'.judged = history.judged PROVE Judging'
    BY <1>3 DEF Judging
  <1>4. call[k].at \in Past => call[k].tool \in Runnable
    BY DEF Offering
  <1>5. CASE Vet(k)
    <2>1. loop.pc = "exec" /\ loop' = loop /\ history' = history
      BY <1>5 DEF Vet, CallAt
    <2>2. dispatchable(call[k].tool) => call[k].tool \in Runnable
      BY DEF dispatchable, Offering, Runnable
    <2>3. Moves(k, "done") \/ (dispatchable(call[k].tool) /\ (Moves(k, "screen") \/ Moves(k, "calling")))
      BY <1>5, CallEffect DEF Vet, refuse
    <2>4. "done" \notin Past
      BY DEF Past
    <2> QED
      BY <1>1, <1>2, <1>3, <2>1, <2>2, <2>3, <2>4, MoveKept
  <1>6. CASE Screen(k)
    <2>1. loop.pc = "exec" /\ call[k].at = "screen"
      BY <1>6 DEF Screen, CallAt
    <2>2. Sets({"screened"}) /\ loop'.screened = TRUE
      BY <1>6 DEF Screen, screenSpent, Shaped, Sets, LoopFields
    <2>3. Notes({"ran", "judged", "rejections"}) /\ history'.ran = history.ran
      BY <1>6 DEF Screen, Shaped, Notes, HistoryFields
    <2>4. Judging'
      <3>1. CASE loop.screened = FALSE /\ history.judged = 0
        <4>1. history' = [history EXCEPT !.judged = @ + 1]
          BY <1>6, <3>1 DEF Screen
        <4>2. history'.judged = 1
          BY <3>1, <4>1 DEF Shaped, HistoryFields
        <4> QED
          BY <2>2, <4>2 DEF Judging
      <3>2. CASE loop.screened = TRUE /\ history.judged \in {0, 1}
        <4>1. history' = history
          BY <1>6, <3>2 DEF Screen
        <4> QED
          BY <2>2, <3>2, <4>1 DEF Judging
      <3> QED
        BY <3>1, <3>2 DEF Judging
    <2>5. Moves(k, "calling") \/ Moves(k, "done")
      BY <1>6, CallEffect DEF Screen, refuse
    <2>6. call[k].tool \in Runnable
      BY <1>4, <2>1 DEF Past
    <2> QED
      BY <2>1, <2>2, <2>3, <2>4, <2>5, <2>6, MoveKept
  <1>7. CASE ToolReturns(k)
    <2>1. loop.pc = "exec" /\ call[k].at = "calling" /\ loop' = loop
      BY <1>7 DEF ToolReturns, CallAt
    <2>2. call[k].tool \in Runnable
      BY <1>4, <2>1 DEF Past
    <2>3. Notes({"ran", "judged", "rejections"}) /\ history'.judged = history.judged /\ history'.ran \subseteq history.ran \cup {call[k].tool}
      BY <1>7 DEF ToolReturns, Shaped, Notes, HistoryFields
    <2>4. Moves(k, "observe") \/ Moves(k, "done")
      BY <1>7, CallEffect DEF ToolReturns
    <2>5. history'.ran \subseteq history.ran \cup Runnable
      BY <2>2, <2>3
    <2> QED
      BY <1>1, <1>3, <2>1, <2>2, <2>3, <2>4, <2>5, MoveKept
  <1>8. CASE Observe(k)
    <2>1. loop.pc = "exec" /\ call[k].at = "observe" /\ loop' = loop /\ history' = history
      BY <1>8 DEF Observe, CallAt
    <2>2. call[k].tool \in Runnable
      BY <1>4, <2>1 DEF Past
    <2>3. Moves(k, "clear") \/ Moves(k, "done")
      BY <1>8, CallEffect DEF Observe
    <2> QED
      BY <1>1, <1>2, <1>3, <2>1, <2>2, <2>3, MoveKept
  <1>9. CASE Clear(k)
    <2>1. loop.pc = "exec" /\ call[k].at = "clear" /\ loop' = loop /\ history' = history
      BY <1>9 DEF Clear, CallAt
    <2>2. Moves(k, "done") /\ "done" \notin Past
      BY <1>9, CallEffect DEF Clear, Past
    <2> QED
      BY <1>1, <1>2, <1>3, <2>1, <2>2, MoveKept
  <1> QED
    BY <1>5, <1>6, <1>7, <1>8, <1>9 DEF Goroutine

(* The request as it enters the loop.                                      *)
LEMMA LoopStart ==
    ASSUME ToolAssumption, TLInit
    PROVE  LoopInv
  <1>1. /\ loop = [pc |-> "check", iter |-> 0, i |-> 1, attempt |-> 0, same |-> 0, held |-> FALSE,
                   expired |-> FALSE, offered |-> {}, conv |-> <<[role |-> "user"]>>,
                   buf |-> NoBuf, last |-> NoBuf, answer |-> <<>>, screened |-> FALSE]
        /\ call = <<>>
        /\ history = [ran |-> {}, charged |-> [k \in 1..maxIter |-> 0], claimed |-> {}, sends |-> 0, judged |-> 0, rejections |-> 0]
    BY DEF TLInit
  <1>2. /\ DOMAIN loop = LoopFields /\ loop.pc = "check" /\ loop.iter = 0 /\ loop.i = 1 /\ loop.same = 0 /\ loop.held = FALSE
        /\ loop.offered = {} /\ loop.conv = <<[role |-> "user"]>> /\ loop.buf = NoBuf /\ loop.answer = <<>> /\ loop.screened = FALSE
    BY <1>1 DEF LoopFields
  <1>3. /\ DOMAIN history = HistoryFields /\ history.ran = {} /\ history.charged = [k \in 1..maxIter |-> 0]
        /\ history.claimed = {} /\ history.sends = 0 /\ history.judged = 0
    BY <1>1 DEF HistoryFields
  <1>4. Shaped /\ Answered
    BY <1>2, <1>3 DEF Shaped, Answered
  <1>5. Sending /\ Judging
    BY <1>2, <1>3, Bounds DEF Sending, Judging
  <1>6. ~Billable(loop.buf)
    BY <1>2 DEF Billable, NoBuf
  <1>7. Claims
    BY <1>2, <1>3, <1>6, Bounds DEF Claims
  <1>8. [role |-> "user"] \in Turns /\ [role |-> "user"].role # "assistant"
    BY DEF Turns
  <1>9. Pairing
    BY <1>2, <1>8 DEF Pairing, TurnsPaired
  <1>10. Offering
    BY <1>1, <1>2, <1>3 DEF Offering
  <1> QED
    BY <1>4, <1>5, <1>7, <1>9, <1>10 DEF LoopInv

(* The whole loop: for any servers, tools, grants, answers, targets and    *)
(* budgets, each assistant turn is paired with its results, each answer is *)
(* charged once, sends stay within the budget, only tools that were        *)
(* offered run, and the client gets one response.                          *)
THEOREM TurnsSound ==
    ASSUME ToolAssumption
    PROVE  TLSpec => []ToolTurnsSound
  <1>1. TLInit => LoopInv
    BY LoopStart
  <1>2. LoopInv /\ [TLNext]_tvars => LoopInv'
    <2> SUFFICES ASSUME LoopInv, [TLNext]_tvars PROVE LoopInv'
      OBVIOUS
    <2>1. CASE Request
      BY <2>1, CheckMCPKept, SearchKept, InjectKept, ReserveKept, IterateKept, SendKept, FailureKept, BufferedKept, AppendKept DEF Request
    <2>2. CASE Deadline \/ \E s \in Servers : Expire(s)
      BY <2>2, ClockKept
    <2>3. CASE \E k \in DOMAIN call : Goroutine(k)
      BY <2>3, GoroutineKept
    <2>4. CASE UNCHANGED tvars
      BY <2>4 DEF tvars, LoopInv, Shaped, Answered, Sending, Judging, Claims, Billable, Pairing, TurnsPaired, Offering, Runnable, Past,
                  maxIter, maxSameTargetRetries
    <2> QED
      BY <2>1, <2>2, <2>3, <2>4 DEF TLNext
  <1>3. LoopInv => ToolTurnsSound
    BY InvOwes
  <1> QED
    BY <1>1, <1>2, <1>3, PTL DEF TLSpec
=============================================================================
