------------------------------ MODULE Dispatch ------------------------------
(***************************************************************************)
(* The chat dispatch of internal/proxy (retry.go, stream.go, chat.go,      *)
(* stream_recovery.go, context_limit.go, error_classify.go, slowcall.go)   *)
(* composed with the shared circuit breaker.  Every request is one         *)
(* goroutine sweeping its own target list; what requests share is the      *)
(* breaker registry and the per-model concurrency slots.  A step of a      *)
(* request ends at each call into shared state and at each point where it  *)
(* waits for the upstream, the client or a slot.                           *)
(*                                                                         *)
(* Abstracted: payloads, headers and error texts; a reply is a status and  *)
(* the set of wordings its body contains (Classifier's marks and the ones  *)
(* below).  Rate limits, cost limits, budgets and token counts are         *)
(* environment choices here.                                               *)
(***************************************************************************)
EXTENDS CircuitBreaker, Classifier, Sequences

CONSTANTS
    Requests,           \* client requests
    Profiles,           \* [Requests -> the agents a request may name]
    Chain,              \* the agent's models: sequence of [key, model, pair]
    Starts,             \* selectStart's answers: {0}, or 0..n-1 for round robin
    MaxRetryAttempts,   \* governance.max_retry_attempts
    AgentCooldown,      \* the agent's cooldown_seconds
    ConcLimit,          \* per-model concurrency limit, 0 = unlimited
    StreamAttempts,     \* stream_continuation.max_attempts, 1 = disabled
    Retryable,          \* retryable_status_codes
    Faults              \* what the environment may do, a subset of AllFaults

VARIABLE req            \* [Requests -> the request's retryLoop]

dvars == <<now, circuits, modelLocks, levels, req>>

AllFaults == {"cancel", "guard", "key_budget", "provider_budget", "build",
              "network", "html", "error", "stream", "body", "head", "refusal",
              "copy", "cut", "stream_error", "slow", "block"}

(* Body wordings that only the dispatcher reads: a parameter complaint, an *)
(* operator's request-scoped rule, a concurrency cap, a retryable phrase,  *)
(* an opaque body, an adapter verdict.                                     *)
DispatchMarks == {"param", "scoped", "concurrency", "phrase", "opaque",
                  "adapter", "adapter_quota"}

(* What a request brings along: whether it carries the caller's own        *)
(* credential, its agent's sticky_provider and max_retries (0 = unset).    *)
Agents == [byok : BOOLEAN, sticky : {"off", "lenient", "strict"}, maxRetries : Nat]

NoAgent == [byok |-> FALSE, sticky |-> "off", maxRetries |-> 0]

ASSUME DispatchAssumption ==
    /\ Profiles \in [Requests -> SUBSET Agents]
    /\ IsFiniteSet(Requests)
    /\ Chain \in Seq([key : Keys, model : {Chain[i].model : i \in DOMAIN Chain},
                     pair : {Chain[i].pair : i \in DOMAIN Chain}])
    /\ Starts \subseteq Nat
    /\ {MaxRetryAttempts, ConcLimit} \subseteq Nat
    /\ StreamAttempts \in Nat \ {0}
    /\ AgentCooldown \in Nat
    /\ Faults \subseteq AllFaults
    /\ Cardinality(Keys) < MaxCircuits      \* no eviction here: see CircuitBreaker

(* The loop's state.  kind and reply are the upstreamAction in hand; held  *)
(* counts the concurrency slots it owns; resuming marks a continuation's   *)
(* re-dispatch.  sent, tried and last are history: upstream calls made,    *)
(* targets reached, kind of the last outcome the loop handled.             *)
Kinds == {"none", "skip", "budget_skip", "network", "html", "error", "response",
          "stream", "retry", "advance"}

NoReply == [status |-> 0, marks |-> {}]

(* What a failed continuation is recorded with: the status, no body.       *)
bodiless(reply) == [status |-> reply.status, marks |-> {}]

(* The classifier is total: it has a decision for a reply without a body.  *)
ASSUME BodilessAssumption ==
    \A reply \in Replies \cup {NoReply}, level \in 0..MaxBackoffLevel :
        Classifier(bodiless(reply), level) \subseteq Decision

newRetryLoop(agent, targets) ==
    [agent |-> agent, pc |-> "sweep", targets |-> targets, idx |-> 1, kind |-> "none",
     reply |-> NoReply, held |-> 0, resuming |-> FALSE, resumes |-> 0,
     canceled |-> FALSE, attempt |-> 0, same |-> 0, summarized |-> FALSE,
     stripped |-> FALSE, quota |-> FALSE, last4xx |-> 0, limited |-> {},
     budgetSkipped |-> FALSE, reached |-> FALSE, reason |-> "none",
     charged |-> FALSE, seen |-> FALSE, answers |-> 0, answer |-> "none",
     sent |-> 0, tried |-> {}, last |-> "none"]

Idle == [newRetryLoop(NoAgent, <<>>) EXCEPT !.pc = "idle"]

Target(r) == req[r].targets[req[r].idx]
KeyOf(r) == Target(r).key
Byok(r) == req[r].agent.byok
LaterTarget(r) == req[r].idx < Len(req[r].targets)

At(r, label) == req[r].pc = label
Goto(r, q) == req' = [req EXCEPT ![r] = q]

(* The slots of a model in use; a request only holds slots of its target.  *)
SlotsOf(model) ==
    {s \in Requests \X {1, 2} :
        s[2] <= req[s[1]].held /\ Target(s[1]).model = model}

-----------------------------------------------------------------------------
(* AgentState: breaker writes stand down for a caller-funded request.      *)
(* Direct calls of CB.ReleaseHalfOpen and CB.RecordOpaqueFailure do not.   *)

NoOutcome == UNCHANGED vars

Charge(r, cd) == IF Byok(r) THEN NoOutcome ELSE RecordFailure(KeyOf(r), cd)

(* Mutant: the BYOK stand-down is missing.                                 *)
ChargeAnyone(r, reply) == RecordFailureWithStatus(KeyOf(r), reply)

ChargeStatus(r, reply) ==
    IF Byok(r) THEN NoOutcome ELSE RecordFailureWithStatus(KeyOf(r), reply)

Credit(r) == IF Byok(r) THEN NoOutcome ELSE RecordSuccess(KeyOf(r))

Release(r) == ReleaseHalfOpen(KeyOf(r))

Served(r) == \/ "slow" \in Faults /\ Charge(r, AgentCooldown)
             \/ Credit(r)

-----------------------------------------------------------------------------
(* Starting: BuildTargetList puts Open targets last, drops locked ones.    *)

Rotated(start) == [i \in DOMAIN Chain |-> Chain[((start + i - 1) % Len(Chain)) + 1]]

(* The positions of a set in ascending order: the one such sequence.       *)
inOrder(S) ==
    {o \in [1..Cardinality(S) -> S] : \A a, b \in DOMAIN o : a < b => o[a] < o[b]}

targetsAt(chain, S, c) ==
    {[i \in DOMAIN o |-> [key |-> chain[o[i]].key, model |-> chain[o[i]].model,
                          pair |-> chain[o[i]].pair, cooling |-> c]] : o \in inOrder(S)}

BuildTargetList(start) ==
    LET chain == Rotated(start)
        unlocked == {i \in DOMAIN Chain : ~IsModelLocked(chain[i].key)}
        active == {i \in unlocked : Permitted(chain[i].key)}
    IN  {front \o back : front \in targetsAt(chain, active, FALSE),
                         back \in targetsAt(chain, unlocked \ active, TRUE)}

(* Peek creates or touches the circuit of every target it looks at.        *)
Peeked(list) ==
    LET peeked == {list[i].key : i \in DOMAIN list}
    IN  [k \in DOMAIN circuits \cup peeked |->
            IF k \in peeked THEN getOrCreate(k, {}) ELSE circuits[k]]

(* An agent without a usable target is answered before the loop exists.    *)
(* The circuits and locks of the chain are read in one step.               *)
Start(r) ==
    /\ At(r, "idle")
    /\ \E start \in Starts, agent \in Profiles[r] : \E list \in BuildTargetList(start) :
        LET loop == newRetryLoop(agent, list)
        IN  /\ Goto(r, IF list = <<>>
                       THEN [loop EXCEPT !.pc = "done", !.answers = 1, !.answer = "no_target"]
                       ELSE loop)
            /\ circuits' = Peeked(list)
    /\ UNCHANGED <<now, modelLocks, levels>>

(* The client disconnects: r.Context() is done from here on.               *)
Cancel(r) ==
    /\ "cancel" \in Faults
    /\ req[r].pc \notin {"idle", "done"} /\ ~req[r].canceled
    /\ Goto(r, [req[r] EXCEPT !.canceled = TRUE])
    /\ NoOutcome

-----------------------------------------------------------------------------
(* The tail of Run's loop body: same-target repeat, sticky gate, advance.  *)

maxSameTargetRetries(q) ==
    IF q.agent.maxRetries > 0 THEN q.agent.maxRetries ELSE MaxRetryAttempts

(* Mutant: repeats of the last target are not counted.                     *)
consumeUncounted(q, retryable, status) ==
    retryable /\ status # 413 /\ q.idx = Len(q.targets)

consumeSameTargetRetry(q, retryable, status) ==
    /\ retryable /\ status # 413
    /\ q.idx = Len(q.targets)
    /\ q.same < maxSameTargetRetries(q)

stickyAllowsFailover(q) ==
    CASE q.agent.sticky = "strict" -> q.reason = "summarized"
      [] q.agent.sticky = "lenient" ->
            \/ q.reason \in {"summarized", "5xx", "policy"}
            \/ q.reason \in {"dispatch", "stream"} /\ q.targets[q.idx].cooling
      [] OTHER -> TRUE

(* The deferred ReleaseSlot of handleActionResult and streamResponse.      *)
settled(q, pc) == [q EXCEPT !.pc = pc, !.held = 0]

afterOutcome(q, retryable, status) ==
    IF consumeSameTargetRetry(q, retryable, status)
    THEN [settled(q, "sweep") EXCEPT !.same = @ + 1, !.reason = "none"]
    ELSE IF stickyAllowsFailover(q)
         THEN [settled(q, "sweep") EXCEPT !.idx = @ + 1, !.reason = "none"]
         ELSE settled(q, "exhausted")

(* Mutant: the deferred release is lost on the way out.                    *)
doneKeepsSlot(q) == [q EXCEPT !.pc = "done"]

done(q) == settled(q, "done")

write(q, what) == [q EXCEPT !.answers = @ + 1, !.answer = what]

-----------------------------------------------------------------------------
(* The top of Run's loop body.                                             *)

hasOtherEligiblePair(q) ==
    \E j \in (q.idx + 1)..Len(q.targets) : q.targets[j].pair \notin q.limited

(* Mutant: a benched pair is skipped even when nothing else is left.       *)
skipEveryLimitedPair(q) == q.targets[q.idx].pair \in q.limited

shouldSkipRateLimitedPair(q) ==
    q.targets[q.idx].pair \in q.limited /\ hasOtherEligiblePair(q)

attemptsSpent(q) == q.agent.maxRetries > 0 /\ q.attempt > q.agent.maxRetries

Sweep(r) ==
    LET q == req[r]
        over == q.idx > Len(q.targets) \/ q.canceled \/ attemptsSpent(q)
    IN  /\ At(r, "sweep")
        /\ \/ over /\ Goto(r, [q EXCEPT !.pc = "exhausted"])
           \/ /\ ~over /\ shouldSkipRateLimitedPair(q)
              /\ Goto(r, [q EXCEPT !.idx = @ + 1])
           \/ /\ ~over /\ ~shouldSkipRateLimitedPair(q)
              /\ Goto(r, [q EXCEPT !.pc = "guards", !.charged = TRUE,
                                   !.tried = @ \cup {q.idx}])
           \/ /\ ~over /\ ~shouldSkipRateLimitedPair(q) /\ ~q.charged
              /\ "key_budget" \in Faults
              /\ Goto(r, [done(write(q, "key_budget")) EXCEPT !.charged = TRUE])
        /\ NoOutcome

-----------------------------------------------------------------------------
(* prepareAndSend, for the sweep and for a stream continuation.            *)

returned(q, kind) ==
    [q EXCEPT !.kind = kind, !.pc = IF q.resuming THEN "resumed" ELSE "returned"]

(* checkPreDispatchGuards: rate limit, cost and agent budget ...           *)
GuardSkip(r) ==
    /\ At(r, "guards") /\ "guard" \in Faults
    /\ Goto(r, returned(req[r], "skip"))
    /\ NoOutcome

(* ... then the breaker, which a caller-funded request does not consult... *)
breakerGate(r) ==
    LET passes == Byok(r) \/ Permitted(KeyOf(r))
    IN  /\ At(r, "guards")
        /\ Goto(r, IF passes
                   THEN [req[r] EXCEPT !.pc = "gated"]
                   ELSE returned(req[r], "skip"))
        /\ IF Byok(r) THEN NoOutcome ELSE Allow(KeyOf(r))

(* ... then the provider's daily budget, which returns a consumed probe.   *)
providerBudgetGate(r) ==
    /\ At(r, "gated")
    /\ \/ Goto(r, [req[r] EXCEPT !.pc = "queued"]) /\ NoOutcome
       \/ /\ "provider_budget" \in Faults /\ ~Byok(r)
          /\ Goto(r, returned(req[r], "budget_skip"))
          /\ Release(r)

(* ConcurrencyLimiter.Acquire blocks until a slot frees ...                *)
Acquire(r) ==
    /\ At(r, "queued")
    /\ ConcLimit > 0 => Cardinality(SlotsOf(Target(r).model)) < ConcLimit
    /\ Goto(r, [req[r] EXCEPT !.pc = "sending", !.held = @ + 1])
    /\ NoOutcome

(* ... or the client goes away.                                            *)
AcquireCanceled(r) ==
    /\ At(r, "queued") /\ req[r].canceled
    /\ Goto(r, returned(req[r], "skip"))
    /\ Release(r)

BuildFailed(r) ==
    /\ At(r, "sending") /\ "build" \in Faults
    /\ Goto(r, returned(req[r], "skip"))
    /\ Release(r)

sent(r) == [req[r] EXCEPT !.sent = @ + 1]

(* Mutant: only the canceled branch reports to the breaker.                *)
NetworkErrorUnrecorded(r) ==
    /\ At(r, "sending")
    /\ Goto(r, returned(sent(r), "network"))
    /\ \/ req[r].canceled /\ Release(r)
       \/ "network" \in Faults /\ NoOutcome

(* recordNetworkError: a canceled client is not the provider's failure.    *)
NetworkError(r) ==
    /\ At(r, "sending")
    /\ Goto(r, returned(sent(r), "network"))
    /\ \/ req[r].canceled /\ Release(r)
       \/ "network" \in Faults /\ Charge(r, AgentCooldown)

UpstreamError(r) ==
    /\ At(r, "sending") /\ "error" \in Faults
    /\ \E reply \in Replies :
        Goto(r, [returned(sent(r), "error") EXCEPT !.reply = reply])
    /\ NoOutcome

handleUpstreamResponse(r) ==
    /\ At(r, "sending")
    /\ \E kind \in {"response"} \cup (Faults \cap {"html", "stream"}) :
        Goto(r, returned(sent(r), kind))
    /\ NoOutcome

prepareAndSend(r) ==
    \/ GuardSkip(r) \/ breakerGate(r) \/ providerBudgetGate(r)
    \/ Acquire(r) \/ AcquireCanceled(r)
    \/ BuildFailed(r) \/ NetworkError(r) \/ UpstreamError(r)
    \/ handleUpstreamResponse(r)

-----------------------------------------------------------------------------
(* Run after prepareAndSend, and handleActionResult.                       *)

attempted(kind) == kind \notin {"skip", "budget_skip"}

(* A client that left during prepareAndSend ends the sweep with no word to *)
(* the breaker.                                                            *)
ReturnedCanceled(r) ==
    /\ At(r, "returned") /\ req[r].canceled
    /\ Goto(r, settled(req[r], "exhausted"))
    /\ NoOutcome

(* Mutant: a remembered client error outlives later outcomes.              *)
notedKeeping4xx(q) ==
    [q EXCEPT !.reached = @ \/ attempted(q.kind), !.last = q.kind]

noted(q) ==
    [q EXCEPT !.reached = @ \/ attempted(q.kind), !.last = q.kind,
              !.last4xx = IF q.kind = "error" THEN @ ELSE 0]

handleActionResult(r) ==
    LET q == noted(req[r])
    IN  /\ At(r, "returned") /\ ~req[r].canceled
        /\ Goto(r, CASE q.kind \in {"skip", "budget_skip", "network", "html"} ->
                          afterOutcome([q EXCEPT !.reason = "dispatch",
                                         !.budgetSkipped = @ \/ q.kind = "budget_skip"],
                                       q.kind = "network", 0)
                     [] q.kind = "error" ->
                          [q EXCEPT !.pc = "error",
                             !.reason = IF q.reply.status >= 500 THEN "5xx" ELSE "4xx"]
                     [] q.kind = "stream" -> [q EXCEPT !.pc = "head"]
                     [] OTHER -> [q EXCEPT !.pc = "response"])
        /\ NoOutcome

-----------------------------------------------------------------------------
(* handleActionError.  The checks are tried in the code's order.           *)

has(q, mark) == mark \in q.reply.marks

(* The strip-and-retry net fires once, on a 400.                           *)
maybeStripAndRetry(q) == q.reply.status = 400 /\ has(q, "param") /\ ~q.stripped

marked(q) ==
    LET limited == IF q.reply.status = 429 THEN q.limited \cup {q.targets[q.idx].pair} ELSE q.limited
    IN  [q EXCEPT !.attempt = q.attempt + 1, !.last4xx = 0, !.limited = limited]

(* The slot is kept during the backoff sleep that follows a classified     *)
(* error.  rememberRetryable4xx runs here, with the updated quota flag.    *)
backoff(q, retryable, isQuota) ==
    LET status == q.reply.status
        quota == q.quota \/ isQuota
    IN  [q EXCEPT !.pc = "backoff", !.quota = quota,
                  !.kind = IF retryable /\ ~attemptsSpent(q) THEN "retry" ELSE "advance",
                  !.last4xx = IF /\ retryable /\ ~quota
                                 /\ status \in (400..499) \ {429}
                              THEN status ELSE 0]

corrective(q) ==
    afterOutcome([q EXCEPT !.reason = "summarized", !.summarized = TRUE],
                 TRUE, q.reply.status)

(* Client gone, context limit, parameter complaint, request-scoped rule:   *)
(* none of them is the target's failure.                                   *)
RequestFault(r) ==
    LET q == marked(req[r])
        writeError == done(write(q, "upstream_error"))
    IN  /\ At(r, "error")
        /\ \/ req[r].canceled /\ Goto(r, done([req[r] EXCEPT !.attempt = @ + 1, !.last4xx = 0]))
           \/ /\ ~req[r].canceled /\ IsContextLengthError(q.reply)
              /\ \/ ~q.summarized /\ Goto(r, corrective(q))
                 \/ Goto(r, writeError)
           \/ /\ ~req[r].canceled /\ ~IsContextLengthError(q.reply)
              /\ maybeStripAndRetry(q)
              /\ Goto(r, corrective([q EXCEPT !.stripped = TRUE]))
           \/ /\ ~req[r].canceled /\ ~IsContextLengthError(q.reply)
              /\ ~maybeStripAndRetry(q) /\ has(q, "scoped")
              /\ Goto(r, writeError)
        /\ Release(r)

targetFault(q) ==
    /\ ~q.canceled /\ ~IsContextLengthError(q.reply)
    /\ ~maybeStripAndRetry(q) /\ ~has(q, "scoped")

(* handleUpstreamError.  A 429 first forces the circuit open, then records *)
(* the classified failure: two calls, two steps.                           *)
ForceCooldown(r) ==
    /\ At(r, "error") /\ targetFault(req[r]) /\ ~has(req[r], "concurrency")
    /\ req[r].reply.status = 429 /\ 429 \in Retryable /\ ~Byok(r)
    /\ Goto(r, [marked(req[r]) EXCEPT !.pc = "cooled"])
    /\ \E cd \in CooldownOverrides : ForceOpen(KeyOf(r), cd)

RateLimited(r) ==
    /\ At(r, "cooled")
    /\ Goto(r, backoff(req[r], TRUE, has(req[r], "quota")))
    /\ ChargeStatus(r, req[r].reply)

handleUpstreamError(r) ==
    LET q == marked(req[r])
        status == q.reply.status
        client == status \in 400..499
        saturated == has(q, "concurrency")
        retryableStatus == ~saturated /\ status \in Retryable
        rest == ~saturated /\ ~retryableStatus
        phrase == rest /\ client /\ has(q, "phrase")
        opaque == rest /\ client /\ has(q, "opaque")
        adapter == rest /\ client /\ has(q, "adapter")
        missing == LaterTarget(r) /\ IsModelNotFoundStatus(q.reply)
        permanent == rest /\ ~phrase /\ ~opaque /\ ~adapter
    IN  /\ At(r, "error") /\ targetFault(req[r])
        /\ \/ saturated /\ Goto(r, backoff(q, TRUE, FALSE)) /\ Release(r)
           \/ /\ retryableStatus /\ status # 429
              /\ Goto(r, backoff(q, TRUE, FALSE)) /\ ChargeStatus(r, q.reply)
           \/ /\ retryableStatus /\ status = 429 /\ Byok(r)
              /\ Goto(r, backoff(q, TRUE, has(q, "quota"))) /\ NoOutcome
           \/ /\ phrase
              /\ Goto(r, backoff(q, TRUE, FALSE)) /\ ChargeStatus(r, q.reply)
           \/ /\ ~phrase /\ opaque
              /\ Goto(r, backoff(q, TRUE, FALSE)) /\ RecordOpaqueFailure(KeyOf(r))
           \/ /\ ~phrase /\ ~opaque /\ adapter
              /\ Goto(r, backoff(q, TRUE, has(q, "adapter_quota")))
              /\ ChargeStatus(r, q.reply)
           \/ /\ permanent /\ missing
              /\ Goto(r, backoff(q, FALSE, FALSE)) /\ ChargeStatus(r, q.reply)
           \/ /\ permanent /\ ~missing
              /\ Goto(r, IF LaterTarget(r) THEN backoff(q, FALSE, FALSE)
                                           ELSE done(write(q, "upstream_error")))
              /\ Release(r)

Backoff(r) ==
    /\ At(r, "backoff")
    /\ Goto(r, afterOutcome(req[r], req[r].kind = "retry", req[r].reply.status))
    /\ NoOutcome

-----------------------------------------------------------------------------
(* handleNonStreamingResponse.                                             *)

Response(r) ==
    LET q == req[r] IN
    /\ At(r, "response")
    /\ \/ /\ Goto(r, done(write(q, "served")))      \* delivered
          /\ Served(r)
       \/ /\ "body" \in Faults                      \* empty, unparseable, failed
          /\ Goto(r, afterOutcome(q, TRUE, 0))
          /\ Charge(r, AgentCooldown)
       \/ /\ "body" \in Faults \/ q.canceled        \* read error
          /\ Goto(r, done(write(q, "read_error")))
          /\ IF q.canceled THEN Release(r) ELSE Charge(r, AgentCooldown)
       \/ /\ "block" \in Faults \/ q.canceled       \* too large, blocked, write failed
          /\ Goto(r, done(write(q, "blocked")))
          /\ Release(r)

-----------------------------------------------------------------------------
(* streamResponse: the head probe decides before the client sees a byte.   *)

StreamHead(r) ==
    LET q == req[r] IN
    /\ At(r, "head")
    /\ \/ /\ Goto(r, [write(q, "stream") EXCEPT !.pc = "copying"])
          /\ NoOutcome
       \/ /\ \/ "head" \in Faults     \* empty stream or read error ...
             \/ q.canceled            \* ... the client's own disconnect included
          /\ Goto(r, afterOutcome([q EXCEPT !.reason = "stream"], TRUE, 0))
          /\ Charge(r, AgentCooldown)
       \/ /\ "refusal" \in Faults /\ LaterTarget(r)
          /\ Goto(r, afterOutcome([q EXCEPT !.reason = "policy"], TRUE, 0))
          /\ Release(r)

mayResume(q) == q.resumes + 1 < StreamAttempts

(* upstreamErrorObserver: an error event inside the 200 stream.            *)
StreamErrorEvent(r) ==
    /\ At(r, "copying") /\ "stream_error" \in Faults
    /\ Goto(r, [req[r] EXCEPT !.seen = TRUE])
    /\ Charge(r, 0)

handleStreamDone(r) ==
    /\ At(r, "copying")
    /\ Goto(r, done(req[r]))
    /\ \/ IF req[r].seen THEN NoOutcome ELSE Served(r)      \* served in full
       \/ "block" \in Faults /\ Release(r)                  \* content policy
       \/ req[r].canceled /\ Release(r)                     \* client gone
       \/ "copy" \in Faults /\ Charge(r, AgentCooldown)     \* stalled, read error
       \/ /\ "cut" \in Faults /\ ~mayResume(req[r])
          /\ Charge(r, AgentCooldown)                       \* truncated

(* tryContinueStream: the cut stream's slot and probe are kept while the   *)
(* same target is dispatched again.                                        *)
StreamCut(r) ==
    /\ At(r, "copying") /\ "cut" \in Faults
    /\ mayResume(req[r])
    /\ \/ /\ Goto(r, [req[r] EXCEPT !.pc = "guards", !.resuming = TRUE])
          /\ NoOutcome
       \/ Goto(r, done(req[r])) /\ Release(r)               \* nothing to resume

resolveRedispatchOutcome(r) ==
    LET q == req[r] IN
    /\ At(r, "resumed")
    /\ \/ /\ q.kind = "stream"
          /\ Goto(r, [q EXCEPT !.pc = "copying", !.resuming = FALSE,
                               !.resumes = @ + 1, !.held = 1])
          /\ Release(r)
       \/ /\ q.kind = "error"
          /\ Goto(r, [q EXCEPT !.pc = "gave_up"])
          /\ ChargeStatus(r, bodiless(q.reply))
       \/ /\ q.kind \in {"network", "html", "response"}
          /\ Goto(r, [q EXCEPT !.pc = "gave_up"])
          /\ Release(r)
       \/ /\ ~attempted(q.kind)
          /\ Goto(r, [q EXCEPT !.pc = "gave_up"])
          /\ NoOutcome

(* Mutants: a continuation that failed drops its probe, or writes an error *)
(* into the stream the client already has.                                 *)
GaveUpSilently(r) == At(r, "gave_up") /\ Goto(r, done(req[r])) /\ NoOutcome

GaveUpLoudly(r) ==
    At(r, "gave_up") /\ Goto(r, done(write(req[r], "provider_error"))) /\ Release(r)

(* The stream is closed with its terminator frames, which are no answer.   *)
GaveUp(r) == At(r, "gave_up") /\ Goto(r, done(req[r])) /\ Release(r)

-----------------------------------------------------------------------------
(* Exhausted.                                                              *)

report(q) ==
    CASE q.budgetSkipped /\ ~q.reached -> "provider_budget"
      [] ~(q.budgetSkipped /\ ~q.reached) /\ q.last4xx # 0 -> "relay"
      [] OTHER -> IF q.quota THEN "quota_exhausted" ELSE "provider_error"

Exhausted(r) ==
    /\ At(r, "exhausted")
    /\ Goto(r, done(IF req[r].canceled THEN req[r] ELSE write(req[r], report(req[r]))))
    /\ NoOutcome

-----------------------------------------------------------------------------

Step(r) ==
    \/ Sweep(r) \/ prepareAndSend(r)
    \/ ReturnedCanceled(r) \/ handleActionResult(r)
    \/ RequestFault(r) \/ ForceCooldown(r) \/ RateLimited(r)
    \/ handleUpstreamError(r) \/ Backoff(r)
    \/ Response(r)
    \/ StreamHead(r) \/ StreamErrorEvent(r) \/ handleStreamDone(r)
    \/ StreamCut(r) \/ resolveRedispatchOutcome(r) \/ GaveUp(r)
    \/ Exhausted(r)

DInit == Init /\ req = [r \in Requests |-> Idle]

DNext == \/ Tick /\ UNCHANGED req
         \/ \E r \in Requests : Start(r) \/ Cancel(r) \/ Step(r)

DSpec == DInit /\ [][DNext]_dvars

(* A goroutine that can move does: upstream calls end (timeouts bound the  *)
(* body and the stream's idle time), sleeps end, a free slot is taken.     *)
(* Neither a disconnect nor a new request is ever owed.                    *)
FairDSpec == DSpec /\ \A r \in Requests : WF_dvars(Step(r))

-----------------------------------------------------------------------------
(* Properties.                                                             *)

(* The loop's cursor, slots and counters stay in range: the cursor never   *)
(* passes one beyond the list, a request owns at most the slots of a       *)
(* stream and its continuation, and continuations respect max_attempts.    *)
DTypeOK ==
    /\ TypeOK
    /\ \A r \in Requests :
        /\ req[r].idx \in 1..(Len(req[r].targets) + 1)
        /\ req[r].held \in 0..2
        /\ req[r].resumes \in 0..(StreamAttempts - 1)
        /\ req[r].kind \in Kinds /\ req[r].reply \in Replies \cup {NoReply}
        /\ req[r].attempt \in Nat /\ req[r].same \in Nat

(* Dispatches of r to key k that consumed an admission and have not yet    *)
(* told the breaker anything; a continuation has two at once.              *)
Unsettled(r, k) ==
    IF req[r].pc \in {"idle", "sweep", "backoff", "exhausted", "done"}
       \/ Byok(r) \/ KeyOf(r) # k THEN 0
    ELSE IF req[r].pc = "guards"
         THEN IF req[r].resuming THEN 1 ELSE 0
         ELSE IF req[r].resuming THEN 2 ELSE 1

UnsettledOn(k) == {s \in Requests \X {1, 2} : s[2] <= Unsettled(s[1], k)}

(* No probe slot is orphaned: a HalfOpen circuit counts at most the        *)
(* dispatches still on their way to an outcome, so finished requests never *)
(* keep it shut.                                                           *)
NoProbeLeak ==
    \A k \in DOMAIN circuits :
        circuits[k].inflight <= Cardinality(UnsettledOn(k))

(* A HalfOpen circuit whose probe budget is used up does not stay so.      *)
ProbesReturn ==
    \A k \in Keys :
        []<>~(k \in DOMAIN circuits /\ circuits[k].inflight >= HalfOpenMaxRequests)

(* Every request that starts is finished.                                  *)
Terminates == \A r \in Requests : []<>(At(r, "idle") \/ At(r, "done"))

(* The per-model concurrency limit holds through failover, backoff and     *)
(* continuation, and a finished request or one between targets holds none. *)
SlotDiscipline ==
    /\ \A r \in Requests :
            req[r].pc \in {"idle", "sweep", "exhausted", "done"} => req[r].held = 0
    /\ ConcLimit > 0 => \A i \in DOMAIN Chain :
            Cardinality(SlotsOf(Chain[i].model)) <= ConcLimit

(* Whatever way a request leaves a target, it takes no probe and no slot   *)
(* with it.                                                                *)
NothingLeaks == NoProbeLeak /\ SlotDiscipline

(* A client still connected gets exactly one answer: no second one and no  *)
(* error is written after a committed stream or a terminal error.  (The    *)
(* frames that end a stream cut short belong to the stream.)               *)
AnsweredOnce ==
    \A r \in Requests :
        /\ req[r].answers <= 1
        /\ At(r, "done") /\ ~req[r].canceled => req[r].answers = 1

(* The upstream work of a request is bounded: every target once, the last  *)
(* one again at most maxSameTargetRetries times, plus one call per stream  *)
(* continuation; and max_retries bounds the errors it may draw over all    *)
(* targets, repeats and corrective retries together.                       *)
RetryBudget ==
    \A r \in Requests :
        /\ req[r].sent <= Len(req[r].targets) + maxSameTargetRetries(req[r]) + (StreamAttempts - 1)
        /\ req[r].agent.maxRetries > 0 => req[r].attempt <= req[r].agent.maxRetries + 1

(* The final report is true: a relayed client error is the last failure of *)
(* the sweep, never an earlier target's, and the provider_budget denial    *)
(* means that nothing was sent upstream (NENYA-188), on whatever mix of    *)
(* skips.                                                                  *)
ReportHonest ==
    \A r \in Requests :
        /\ req[r].answer = "relay" =>
               req[r].last = "error" /\ req[r].last4xx = req[r].reply.status
        /\ req[r].answer = "provider_budget" => req[r].sent = 0

(* A sweep that runs out has used every credential of the list, and a      *)
(* target it passed over, its credential being benched by a 429, was       *)
(* passed over for a later one it then tried.                              *)
EveryPairTried ==
    \A r \in Requests :
        LET q == req[r]
            pairsOf(I) == {q.targets[i].pair : i \in I}
        IN  At(r, "exhausted") /\ ~q.canceled /\ ~attemptsSpent(q) /\ q.agent.sticky = "off"
            => /\ pairsOf(q.tried) = pairsOf(DOMAIN q.targets)
               /\ \A i \in DOMAIN q.targets \ q.tried : \E j \in q.tried : j > i

(* Whatever happens to a caller-funded request, the shared account is not  *)
(* charged for it: no lock, no backoff level and no failure appears, and   *)
(* no Closed circuit opens, on any of its outcomes.                        *)
ByokNeverCharged ==
    [][\A r \in Requests : Byok(r) /\ req'[r] # req[r] =>
          /\ UNCHANGED <<modelLocks, levels>>
          /\ \A k \in DOMAIN circuits :
                /\ circuits'[k].fails <= circuits[k].fails
                /\ circuits[k].state = "Closed" => circuits'[k].state = "Closed"]_dvars
=============================================================================
