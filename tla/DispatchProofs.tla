--------------------------- MODULE DispatchProofs ---------------------------
(***************************************************************************)
(* The safety of a request's retry loop for every chain of targets, every  *)
(* agent, every set of upstream replies and faults, and any number of      *)
(* requests around it.  A request's step changes only its own loop, so the *)
(* invariant is a predicate of one loop q, and every action is shown to    *)
(* take a loop that satisfies it to one that does.                         *)
(*                                                                         *)
(* The second part is about the breaker all requests share: every probe    *)
(* slot it counts is owed by a loop that will still report (ProbeInv), and *)
(* every step is a safe step of module CircuitBreakerProofs (DispatchSafe).*)
(***************************************************************************)
EXTENDS Dispatch, CircuitBreakerProofs

Pairs == {Chain[i].pair : i \in DOMAIN Chain}
Models == {Chain[i].model : i \in DOMAIN Chain}
Targets == Seq([key : Keys, model : Models, pair : Pairs, cooling : BOOLEAN])

(* Where a loop is.  Sending: on its way to the upstream, for the sweep or *)
(* for a continuation; Handling: the outcome of a target is in hand.       *)
Sending == {"guards", "gated", "queued", "sending"}
Handling == {"returned", "error", "cooled", "backoff", "response", "head"}
Streaming == {"copying", "resumed", "gave_up"}
Places == {"idle", "sweep", "exhausted", "done"} \cup Sending \cup Handling \cup Streaming

Reports == {"none", "no_target", "key_budget", "upstream_error", "served", "read_error", "blocked",
            "stream", "provider_budget", "relay", "quota_exhausted", "provider_error"}
Reasons == {"none", "dispatch", "5xx", "4xx", "summarized", "policy", "stream"}

Loop ==
    [agent : Agents, pc : Places, targets : Targets, idx : Nat \ {0}, kind : Kinds,
     reply : Replies \cup {NoReply}, held : Nat, resuming : BOOLEAN, resumes : Nat,
     canceled : BOOLEAN, attempt : Nat, same : Nat, summarized : BOOLEAN,
     stripped : BOOLEAN, quota : BOOLEAN, last4xx : Int, limited : SUBSET Pairs,
     budgetSkipped : BOOLEAN, reached : BOOLEAN, reason : Reasons,
     charged : BOOLEAN, seen : BOOLEAN, answers : Nat, answer : Reports,
     sent : Nat, tried : SUBSET Nat, last : Kinds]

(* One answer.  A loop writes when it commits a stream or ends; only a     *)
(* continuation dispatches after that.                                     *)
Answered(q) ==
    /\ q.pc \in {"idle", "sweep", "exhausted"} \cup Handling => ~q.resuming /\ q.answers = 0
    /\ q.pc \in Sending => q.answers = IF q.resuming THEN 1 ELSE 0
    /\ q.pc \in {"resumed", "gave_up"} => q.resuming
    /\ q.pc = "copying" => ~q.resuming
    /\ q.pc \in Streaming => q.answers = 1
    /\ q.pc = "done" => q.answers <= 1 /\ (~q.canceled => q.answers = 1)

(* The cursor and the calls.  Up to the present target the loop has made   *)
(* at most one call per target, repeat and continuation.                   *)
Budgeted(q) ==
    /\ q.same <= maxSameTargetRetries(q)
    /\ q.idx <= Len(q.targets) + 1
    /\ q.pc \in Sending \cup Handling \cup Streaming => q.idx <= Len(q.targets)
    /\ q.pc \in {"idle", "sweep"} => q.resumes = 0 /\ q.sent <= q.idx - 1 + q.same
    /\ q.pc \in Sending =>
           q.sent <= q.idx + q.same + (IF q.resuming THEN q.resumes ELSE q.resumes - 1)
    /\ q.pc \in Handling \cup Sending /\ ~q.resuming => q.resumes = 0
    /\ q.pc \in Handling \cup {"copying"} => q.sent <= q.idx + q.same + q.resumes
    /\ q.pc \in {"resumed", "gave_up"} => q.sent <= q.idx + q.same + q.resumes + 1
    /\ q.resumes < StreamAttempts
    /\ q.resuming => q.resumes + 1 < StreamAttempts
    /\ q.pc \in {"exhausted", "done"} => q.sent <= Len(q.targets) + q.same + (StreamAttempts - 1)

(* max_retries: an error is drawn only while the attempts are not spent.   *)
Patient(q) ==
    q.agent.maxRetries > 0 =>
        /\ q.attempt <= q.agent.maxRetries + 1
        /\ ~q.resuming /\ q.pc \in Sending \cup {"returned", "error"} => q.attempt <= q.agent.maxRetries

(* The final report.  last4xx is the status of the reply in hand unless a  *)
(* newer reply is about to replace it; nothing was sent before the loop    *)
(* noted that it reached a target.                                         *)
Unreported(q) ==
    /\ q.last4xx # 0 => q.last = "error" /\ q.last4xx = q.reply.status
    /\ ~q.reached => q.sent = 0

Reported(q) ==
    /\ q.answer \in {"relay", "provider_budget"} => q.pc = "done"
    /\ q.answer = "relay" => q.last = "error" /\ q.last4xx = q.reply.status
    /\ q.answer = "provider_budget" => q.sent = 0
    /\ q.pc \in {"idle", "sweep"} => Unreported(q)
    /\ q.pc \in Sending /\ ~q.resuming => Unreported(q)
    /\ q.pc = "exhausted" /\ ~q.canceled => Unreported(q)
    /\ q.pc = "returned" /\ ~q.reached /\ ~attempted(q.kind) => q.sent = 0
    /\ q.pc \in {"error", "cooled"} => q.reached /\ q.last = "error"
    /\ q.pc = "backoff" => q.reached /\ Unreported(q)
    /\ q.pc \in {"cooled", "response", "head"} => q.reached /\ q.last4xx = 0

(* The sweep.  A target behind the cursor was tried, or its credential was *)
(* benched and a later target was tried or is still eligible.              *)
PassedOver(q, i) ==
    /\ q.targets[i].pair \in q.limited
    /\ \/ \E j \in q.tried : j > i
       \/ \E j \in q.idx..Len(q.targets) : q.targets[j].pair \notin q.limited

Tracked(q) ==
    /\ q.tried \subseteq 1..Len(q.targets)
    /\ q.limited \subseteq {q.targets[i].pair : i \in q.tried}
    /\ \A i \in 1..(q.idx - 1) : i \in q.tried \/ PassedOver(q, i)

Covered(q) ==
    /\ Tracked(q)
    /\ q.pc \in Sending \cup Handling \cup Streaming => q.idx \in q.tried
    /\ q.pc = "exhausted" /\ ~q.canceled /\ ~attemptsSpent(q) /\ q.agent.sticky = "off" =>
           q.idx = Len(q.targets) + 1

(* Slots: none between targets, one while a call is under way, and a       *)
(* second one for a continuation's call.                                   *)
Slotted(q) ==
    /\ q.held <= 2
    /\ q.pc \in {"idle", "sweep", "exhausted", "done"} => q.held = 0
    /\ q.pc \in {"guards", "gated", "queued"} => q.held <= IF q.resuming THEN 1 ELSE 0
    /\ q.pc = "sending" => q.held \in 1..(IF q.resuming THEN 2 ELSE 1)
    /\ q.pc \in Handling \cup {"copying"} => q.held <= 1
    /\ q.pc = "resumed" /\ q.kind = "stream" => q.held > 0

Sound(q) ==
    q \in Loop /\ Answered(q) /\ Budgeted(q) /\ Patient(q) /\ Reported(q) /\ Covered(q) /\ Slotted(q)

LoopInv == req \in [Requests -> Loop] /\ \A r \in Requests : Sound(req[r])

-----------------------------------------------------------------------------
(* A loop that has answered nobody yet, and one with a target's outcome in *)
(* hand, whatever their labels.                                            *)
Running(q) ==
    /\ q \in Loop /\ Tracked(q)
    /\ ~q.resuming /\ q.resumes = 0
    /\ q.answers = 0 /\ q.answer \notin {"relay", "provider_budget"}
    /\ q.same <= maxSameTargetRetries(q)
    /\ q.agent.maxRetries > 0 => q.attempt <= q.agent.maxRetries + 1

Handled(q) ==
    /\ Running(q)
    /\ q.idx \in q.tried /\ q.idx <= Len(q.targets)
    /\ q.sent <= q.idx + q.same

(* What the arithmetic needs of the types.                                 *)
LEMMA LoopTypes ==
    ASSUME NEW q \in Loop
    PROVE  /\ {q.idx, q.held, q.resumes, q.attempt, q.same, q.answers, q.sent} \subseteq Nat
           /\ q.idx > 0
           /\ q.agent.maxRetries \in Nat /\ Len(q.targets) \in Nat
           /\ maxSameTargetRetries(q) \in Nat
           /\ StreamAttempts \in Nat \ {0}
           /\ {q.resuming, q.canceled, q.reached} \subseteq BOOLEAN
<1>1. q.agent \in Agents /\ q.targets \in Targets
  BY DEF Loop
<1>2. q.agent.maxRetries \in Nat /\ Len(q.targets) \in Nat
  BY <1>1 DEF Agents, Targets
<1> QED
  BY <1>2, DispatchAssumption DEF Loop, maxSameTargetRetries

(* The sweep's record depends on four fields only.                         *)
LEMMA TrackedFrame ==
    ASSUME NEW q, NEW n, Tracked(q),
           n.targets = q.targets, n.idx = q.idx, n.tried = q.tried, n.limited = q.limited
    PROVE  Tracked(n)
  BY DEF Tracked, PassedOver

(* Moving on from a tried target.                                          *)
LEMMA TrackedNext ==
    ASSUME NEW q \in Loop, NEW n, Tracked(q), q.idx \in q.tried,
           n.targets = q.targets, n.idx = q.idx + 1, n.tried = q.tried, n.limited = q.limited
    PROVE  Tracked(n)
<1>1. q.idx \in Nat /\ q.idx > 0 /\ Len(q.targets) \in Nat
  BY LoopTypes
<1>2. ASSUME NEW i \in 1..q.idx, i \notin q.tried PROVE PassedOver(n, i)
  <2>1. i \in 1..(q.idx - 1) /\ q.idx > i
    BY <1>1, <1>2
  <2> QED
    BY <1>2, <2>1 DEF Tracked, PassedOver
<1> QED
  BY <1>1, <1>2 DEF Tracked

(* Skipping a benched target while another one is eligible.                *)
LEMMA TrackedSkip ==
    ASSUME NEW q \in Loop, NEW n, Tracked(q), shouldSkipRateLimitedPair(q), q.idx <= Len(q.targets),
           n.targets = q.targets, n.idx = q.idx + 1, n.tried = q.tried, n.limited = q.limited
    PROVE  Tracked(n)
<1>1. q.idx \in Nat /\ q.idx > 0 /\ Len(q.targets) \in Nat
  BY LoopTypes
<1>2. ASSUME NEW i \in 1..q.idx, i \notin q.tried PROVE PassedOver(n, i)
  <2>1. CASE i = q.idx
    BY <1>1, <2>1 DEF shouldSkipRateLimitedPair, hasOtherEligiblePair, PassedOver
  <2>2. CASE i # q.idx
    <3>1. i \in 1..(q.idx - 1)
      BY <1>1, <2>2
    <3>2. PassedOver(q, i)
      BY <1>2, <3>1 DEF Tracked
    <3>3. ASSUME NEW j \in q.idx..Len(q.targets), q.targets[j].pair \notin q.limited
          PROVE  j \in (q.idx + 1)..Len(q.targets)
      BY <1>1, <3>3 DEF shouldSkipRateLimitedPair
    <3> QED
      BY <3>2, <3>3 DEF PassedOver
  <2> QED
    BY <2>1, <2>2
<1> QED
  BY <1>1, <1>2 DEF Tracked

(* A target that is tried, and one whose credential is benched after it.   *)
LEMMA TrackedTry ==
    ASSUME NEW q \in Loop, NEW n, Tracked(q), q.idx <= Len(q.targets),
           n.targets = q.targets, n.idx = q.idx, n.tried = q.tried \cup {q.idx}, n.limited = q.limited
    PROVE  Tracked(n)
<1>1. q.idx \in Nat /\ q.idx > 0 /\ Len(q.targets) \in Nat
  BY LoopTypes
<1>2. n.limited \subseteq {n.targets[i].pair : i \in n.tried}
  BY DEF Tracked
<1>3. \A i \in 1..(n.idx - 1) : i \in n.tried \/ PassedOver(n, i)
  BY DEF Tracked, PassedOver
<1>4. n.tried \subseteq 1..Len(n.targets)
  BY <1>1 DEF Tracked
<1> QED
  BY <1>2, <1>3, <1>4 DEF Tracked

(* Benching the credential of the target in hand forgets no target.        *)
LEMMA TrackedBench ==
    ASSUME NEW q \in Loop, NEW n, Tracked(q), q.idx \in q.tried,
           n.targets = q.targets, n.idx = q.idx, n.tried = q.tried,
           n.limited \in {q.limited, q.limited \cup {q.targets[q.idx].pair}}
    PROVE  Tracked(n)
<1>1. q.idx \in Nat /\ q.idx > 0
  BY LoopTypes
<1>2. n.limited \subseteq {n.targets[i].pair : i \in n.tried}
  BY DEF Tracked
<1>3. ASSUME NEW i \in 1..(q.idx - 1), i \notin q.tried PROVE PassedOver(n, i)
  <2>1. q.idx > i
    BY <1>1
  <2> QED
    BY <1>3, <2>1 DEF Tracked, PassedOver
<1> QED
  BY <1>2, <1>3 DEF Tracked

-----------------------------------------------------------------------------
(* n is q but for the fields F, of those the invariant speaks about.       *)
Keeps(q, n, F) ==
    /\ n \in Loop
    /\ "pc" \in F \/ n.pc = q.pc
    /\ "agent" \in F \/ n.agent = q.agent
    /\ "targets" \in F \/ n.targets = q.targets
    /\ "idx" \in F \/ n.idx = q.idx
    /\ "kind" \in F \/ n.kind = q.kind
    /\ "reply" \in F \/ n.reply = q.reply
    /\ "held" \in F \/ n.held = q.held
    /\ "resuming" \in F \/ n.resuming = q.resuming
    /\ "resumes" \in F \/ n.resumes = q.resumes
    /\ "canceled" \in F \/ n.canceled = q.canceled
    /\ "seen" \in F \/ n.seen = q.seen
    /\ "attempt" \in F \/ n.attempt = q.attempt
    /\ "same" \in F \/ n.same = q.same
    /\ "last4xx" \in F \/ n.last4xx = q.last4xx
    /\ "limited" \in F \/ n.limited = q.limited
    /\ "reached" \in F \/ n.reached = q.reached
    /\ "answers" \in F \/ n.answers = q.answers
    /\ "answer" \in F \/ n.answer = q.answer
    /\ "sent" \in F \/ n.sent = q.sent
    /\ "tried" \in F \/ n.tried = q.tried
    /\ "last" \in F \/ n.last = q.last

(* The loop's own updates keep its type and touch a few fields each.       *)

(* settled moves the loop and frees its slots, nothing else.               *)
LEMMA SettledKeeps ==
    ASSUME NEW q \in Loop, NEW pc \in Places
    PROVE  /\ Keeps(q, settled(q, pc), {"pc", "held"})
           /\ settled(q, pc).pc = pc /\ settled(q, pc).held = 0
<1>1. 0 \in Nat
  OBVIOUS
<1> QED
  BY <1>1, Zenon DEF settled, Loop, Keeps

(* write counts one answer and nothing else.                               *)
LEMMA WriteKeeps ==
    ASSUME NEW q \in Loop, NEW what \in Reports
    PROVE  /\ Keeps(q, write(q, what), {"answers", "answer"})
           /\ write(q, what).answers = q.answers + 1 /\ write(q, what).answer = what
<1>1. q.answers + 1 \in Nat
  BY DEF Loop
<1> QED
  BY <1>1, Zenon DEF write, Loop, Keeps

(* returned sets the outcome and the label.                                *)
LEMMA ReturnedKeeps ==
    ASSUME NEW q \in Loop, NEW kind \in Kinds
    PROVE  /\ Keeps(q, returned(q, kind), {"pc", "kind"})
           /\ returned(q, kind).kind = kind
           /\ returned(q, kind).pc = IF q.resuming THEN "resumed" ELSE "returned"
<1>1. (IF q.resuming THEN "resumed" ELSE "returned") \in Places
  BY DEF Places, Handling, Streaming
<1> QED
  BY <1>1, Zenon DEF returned, Loop, Keeps

(* noted records the outcome for the final report.                         *)
LEMMA NotedKeeps ==
    ASSUME NEW q \in Loop
    PROVE  /\ Keeps(q, noted(q), {"reached", "last", "last4xx"})
           /\ noted(q).reached = (q.reached \/ attempted(q.kind)) /\ noted(q).last = q.kind
           /\ noted(q).last4xx = IF q.kind = "error" THEN q.last4xx ELSE 0
<1>1. /\ (q.reached \/ attempted(q.kind)) \in BOOLEAN
      /\ (IF q.kind = "error" THEN q.last4xx ELSE 0) \in Int
  BY DEF Loop, attempted
<1> QED
  BY <1>1, Zenon DEF noted, Loop, Keeps

(* marked counts the attempt and benches a rate-limited credential.        *)
LEMMA MarkedKeeps ==
    ASSUME NEW q \in Loop, q.idx <= Len(q.targets)
    PROVE  /\ Keeps(q, marked(q), {"attempt", "last4xx", "limited"})
           /\ marked(q).attempt = q.attempt + 1 /\ marked(q).last4xx = 0
           /\ marked(q).limited \in {q.limited, q.limited \cup {q.targets[q.idx].pair}}
<1>1. q.targets \in Targets /\ q.idx \in 1..Len(q.targets)
  BY LoopTypes DEF Loop
<1>2. q.targets[q.idx].pair \in Pairs
  <2> DEFINE T == [key : Keys, model : Models, pair : Pairs, cooling : BOOLEAN]
  <2>1. q.targets \in Seq(T)
    BY <1>1 DEF Targets
  <2> HIDE DEF T
  <2>2. q.targets[q.idx] \in T
    BY <1>1, <2>1
  <2> QED
    BY <2>2 DEF T
<1> DEFINE L == IF q.reply.status = 429 THEN q.limited \cup {q.targets[q.idx].pair} ELSE q.limited
<1>3. L \in SUBSET Pairs /\ L \in {q.limited, q.limited \cup {q.targets[q.idx].pair}}
  BY <1>2 DEF Loop
<1>4. q.attempt + 1 \in Nat /\ 0 \in Int
  BY DEF Loop
<1>5. marked(q) = [q EXCEPT !.attempt = q.attempt + 1, !.last4xx = 0, !.limited = L]
  BY Zenon DEF marked
<1> HIDE DEF L
<1>6. LET n == [q EXCEPT !.attempt = q.attempt + 1, !.last4xx = 0, !.limited = L] IN
      /\ Keeps(q, n, {"attempt", "last4xx", "limited"})
      /\ n.attempt = q.attempt + 1 /\ n.last4xx = 0 /\ n.limited = L
  BY <1>3, <1>4, Zenon DEF Loop, Keeps
<1> QED
  BY <1>3, <1>5, <1>6, Zenon

(* backoff remembers the reply and the verdict.                            *)
LEMMA BackoffKeeps ==
    ASSUME NEW q \in Loop, NEW retryable, NEW isQuota
    PROVE  LET n == backoff(q, retryable, isQuota) IN
           /\ Keeps(q, n, {"pc", "kind", "last4xx"})
           /\ n.pc = "backoff" /\ n.last4xx \in {0, q.reply.status}
<1> DEFINE u == q.quota \/ isQuota
           k == IF retryable /\ ~attemptsSpent(q) THEN "retry" ELSE "advance"
           l == IF retryable /\ ~u /\ q.reply.status \in (400..499) \ {429} THEN q.reply.status ELSE 0
<1>1. "backoff" \in Places
  BY DEF Places, Handling
<1>a. k \in Kinds
  BY Zenon DEF Kinds
<1>b. u \in BOOLEAN
  OBVIOUS
<1>2. l \in {0, q.reply.status} /\ l \in Int
  OBVIOUS
<1>3. backoff(q, retryable, isQuota) = [q EXCEPT !.pc = "backoff", !.quota = u, !.kind = k, !.last4xx = l]
  BY Zenon DEF backoff
<1> HIDE DEF u, k, l
<1>4. LET n == [q EXCEPT !.pc = "backoff", !.quota = u, !.kind = k, !.last4xx = l] IN
      Keeps(q, n, {"pc", "kind", "last4xx"}) /\ n.pc = "backoff" /\ n.last4xx = l
  BY <1>1, <1>a, <1>b, <1>2, Zenon DEF Loop, Keeps
<1> QED
  BY <1>2, <1>3, <1>4, Zenon

-----------------------------------------------------------------------------
(* Where a step may land: what makes a loop at a label sound.              *)

(* A running loop may go on with its sweep.                                *)
LEMMA SweepSound ==
    ASSUME NEW n, Running(n), n.pc \in {"idle", "sweep"}, n.held = 0, Unreported(n),
           n.idx <= Len(n.targets) + 1, n.sent <= n.idx - 1 + n.same
    PROVE  Sound(n)
<1>0. n \in Loop
  BY DEF Running
<1>t. StreamAttempts \in Nat \ {0}
  BY DispatchAssumption
<1>p. n.pc \notin Sending \cup Handling \cup Streaming /\ n.pc \notin {"exhausted", "done"}
  BY DEF Sending, Handling, Streaming
<1>q. n.pc \notin {"returned", "error", "cooled", "backoff", "response", "head", "copying",
                   "resumed", "gave_up", "sending"}
  OBVIOUS
<1>1. Answered(n)
  BY <1>p, <1>q DEF Answered, Running
<1>2. Budgeted(n)
  BY <1>0, <1>t, <1>p, <1>q, LoopTypes DEF Budgeted, Running
<1>3. Patient(n)
  BY <1>p, <1>q DEF Patient, Running
<1>4. Reported(n)
  BY <1>p, <1>q DEF Reported, Running
<1>5. Covered(n)
  BY <1>p DEF Covered, Running
<1>6. Slotted(n)
  BY <1>p, <1>q DEF Slotted, Sending
<1> QED
  BY <1>0, <1>1, <1>2, <1>3, <1>4, <1>5, <1>6 DEF Sound

(* A running loop may end its sweep.                                       *)
LEMMA ExhaustedSound ==
    ASSUME NEW n, Running(n), n.pc = "exhausted", n.held = 0, n.canceled \/ Unreported(n),
           n.idx <= Len(n.targets) + 1, n.sent <= Len(n.targets) + n.same,
           ~n.canceled /\ ~attemptsSpent(n) /\ n.agent.sticky = "off" => n.idx = Len(n.targets) + 1
    PROVE  Sound(n)
<1>0. n \in Loop
  BY DEF Running
<1>t. StreamAttempts \in Nat \ {0}
  BY DispatchAssumption
<1>p. n.pc \notin Sending \cup Handling \cup Streaming
  BY DEF Sending, Handling, Streaming
<1>q. n.pc \notin {"idle", "sweep", "done", "returned", "error", "cooled", "backoff", "response",
                   "head", "copying", "resumed", "gave_up", "sending"}
  OBVIOUS
<1>1. Answered(n)
  BY <1>p, <1>q DEF Answered, Running
<1>2. Budgeted(n)
  BY <1>0, <1>t, <1>p, <1>q, LoopTypes DEF Budgeted, Running
<1>3. Patient(n)
  BY <1>p, <1>q DEF Patient, Running
<1>4. Reported(n)
  BY <1>p, <1>q DEF Reported, Running
<1>5. Covered(n)
  BY <1>p DEF Covered, Running
<1>6. Slotted(n)
  BY <1>p, <1>q DEF Slotted, Sending
<1> QED
  BY <1>0, <1>1, <1>2, <1>3, <1>4, <1>5, <1>6 DEF Sound

(* A loop with an outcome in hand may carry it to the next handler.        *)
LEMMA HandlingSound ==
    ASSUME NEW n, Handled(n), n.pc \in Handling, Reported(n), n.held <= 1,
           n.pc \in {"returned", "error"} /\ n.agent.maxRetries > 0 => n.attempt <= n.agent.maxRetries
    PROVE  Sound(n)
<1>0. n \in Loop /\ Running(n)
  BY DEF Running, Handled
<1>t. StreamAttempts \in Nat \ {0}
  BY DispatchAssumption
<1>p. n.pc \notin Sending \cup Streaming
  BY DEF Sending, Handling, Streaming
<1>q. n.pc \notin {"idle", "sweep", "exhausted", "done", "copying", "resumed", "gave_up", "sending"}
  BY DEF Handling
<1>1. Answered(n)
  BY <1>0, <1>p, <1>q DEF Answered, Running
<1>2. Budgeted(n)
  BY <1>0, <1>t, <1>p, <1>q, LoopTypes DEF Budgeted, Running, Handled
<1>3. Patient(n)
  BY <1>0, <1>p, <1>q DEF Patient, Running
<1>5. Covered(n)
  BY <1>0, <1>p, <1>q DEF Covered, Running, Handled
<1>6. Slotted(n)
  BY <1>0, <1>p, <1>q, LoopTypes DEF Slotted, Sending
<1> QED
  BY <1>0, <1>1, <1>2, <1>3, <1>5, <1>6 DEF Sound

(* What makes a finished loop Sound.                                       *)
LEMMA DoneSound ==
    ASSUME NEW n, n \in Loop, Tracked(n), n.pc = "done", n.held = 0, n.idx <= Len(n.targets) + 1,
           n.answers <= 1, n.canceled \/ n.answers = 1,
           n.same <= maxSameTargetRetries(n),
           n.agent.maxRetries > 0 => n.attempt <= n.agent.maxRetries + 1,
           n.resumes < StreamAttempts, n.resuming => n.resumes + 1 < StreamAttempts,
           n.sent <= Len(n.targets) + n.same + (StreamAttempts - 1),
           n.answer = "relay" => n.last = "error" /\ n.last4xx = n.reply.status,
           n.answer = "provider_budget" => n.sent = 0
    PROVE  Sound(n)
<1>p. n.pc \notin Sending \cup Handling \cup Streaming
  BY DEF Sending, Handling, Streaming
<1>q. n.pc \notin {"idle", "sweep", "exhausted", "returned", "error", "cooled", "backoff", "response",
                   "head", "copying", "resumed", "gave_up", "sending"}
  OBVIOUS
<1>1. Answered(n)
  BY <1>p, <1>q DEF Answered
<1>2. Budgeted(n)
  BY <1>p, <1>q, LoopTypes DEF Budgeted
<1>3. Patient(n)
  BY <1>p, <1>q DEF Patient
<1>4. Reported(n)
  BY <1>p, <1>q DEF Reported
<1>5. Covered(n)
  BY <1>p DEF Covered
<1>6. Slotted(n)
  BY <1>p, <1>q DEF Slotted, Sending
<1> QED
  BY <1>1, <1>2, <1>3, <1>4, <1>5, <1>6 DEF Sound

(* What the invariant says of a loop, label by label.                      *)

(* At the labels of Handling an outcome is in hand.                        *)
LEMMA HandlingIsHandled ==
    ASSUME NEW q, Sound(q), q.pc \in Handling
    PROVE  Handled(q)
<1>1. q.pc \notin {"done", "idle"}
  BY DEF Handling
<1> QED
  BY <1>1, LoopTypes DEF Sound, Running, Handled, Answered, Budgeted, Patient, Reported, Covered, Handling

(* Handled survives updates of the fields it does not speak about, and     *)
(* Running those of the cursor's call count too.                           *)
LEMMA RunningFrame ==
    ASSUME NEW q, NEW n, Running(q), Tracked(n),
           Keeps(q, n, {"pc", "kind", "held", "last4xx", "reached", "last", "canceled", "reply",
                        "idx", "same", "sent", "tried", "limited"}),
           n.same <= maxSameTargetRetries(q)
    PROVE  Running(n)
  BY DEF Keeps, Running, maxSameTargetRetries

(* An outcome stays in hand over the fields that do not decide it.         *)
LEMMA HandledFrame ==
    ASSUME NEW q, NEW n, Handled(q),
           Keeps(q, n, {"pc", "kind", "held", "last4xx", "reached", "last", "canceled", "reply"})
    PROVE  Handled(n)
<1>1. Tracked(n)
  BY TrackedFrame DEF Keeps, Handled, Running
<1> QED
  BY <1>1 DEF Keeps, Handled, Running, maxSameTargetRetries

(* The three ways out of a target: again, the next one, or no more.        *)
LEMMA AfterOutcomeSound ==
    ASSUME NEW q, NEW retryable, NEW status, Handled(q), Unreported(q)
    PROVE  Sound(afterOutcome(q, retryable, status)) /\ afterOutcome(q, retryable, status).held = 0
<1> DEFINE n == afterOutcome(q, retryable, status)
<1>0. q \in Loop /\ Running(q)
  BY DEF Handled, Running
<1>t. /\ {q.idx, q.same, q.sent} \subseteq Nat /\ Len(q.targets) \in Nat
      /\ maxSameTargetRetries(q) \in Nat /\ q.idx > 0
  BY <1>0, LoopTypes
<1>p. {"sweep", "exhausted"} \subseteq Places
  BY DEF Places
<1>1. CASE consumeSameTargetRetry(q, retryable, status)
  <2> DEFINE m == settled(q, "sweep")
  <2>1. /\ Keeps(q, m, {"pc", "held"}) /\ m.pc = "sweep" /\ m.held = 0
    BY <1>0, <1>p, SettledKeeps
  <2>2. n = [m EXCEPT !.same = q.same + 1, !.reason = "none"]
    BY <1>1, <2>1 DEF afterOutcome, Keeps, Loop
  <2> HIDE DEF m
  <2>3. q.same + 1 \in Nat /\ "none" \in Reasons
    BY <1>t DEF Reasons
  <2>4. LET x == [m EXCEPT !.same = q.same + 1, !.reason = "none"] IN
        Keeps(m, x, {"same"}) /\ x.same = q.same + 1
    BY <2>1, <2>3, Zenon DEF Keeps, Loop
  <2>5. Keeps(q, n, {"pc", "held", "same"}) /\ n.pc = "sweep" /\ n.held = 0 /\ n.same = q.same + 1
    BY <2>1, <2>2, <2>4 DEF Keeps
  <2> HIDE DEF n
  <2>6. q.idx = Len(q.targets) /\ q.same + 1 <= maxSameTargetRetries(q)
    BY <1>1, <1>t DEF consumeSameTargetRetry
  <2>7. Tracked(n)
    BY <2>5, TrackedFrame DEF Keeps, Handled, Running
  <2>8. Running(n)
    BY <1>0, <2>5, <2>6, <2>7 DEF Keeps, Running, maxSameTargetRetries
  <2>9. Unreported(n)
    BY <2>5 DEF Keeps, Unreported
  <2>10. n.idx <= Len(n.targets) + 1 /\ n.sent <= n.idx - 1 + n.same
    BY <1>t, <2>5 DEF Keeps, Handled
  <2>11. Sound(n) /\ n.held = 0
    BY <2>5, <2>8, <2>9, <2>10, SweepSound
  <2> QED
    BY <2>11 DEF n
<1>2. CASE ~consumeSameTargetRetry(q, retryable, status) /\ stickyAllowsFailover(q)
  <2> DEFINE m == settled(q, "sweep")
  <2>1. /\ Keeps(q, m, {"pc", "held"}) /\ m.pc = "sweep" /\ m.held = 0
    BY <1>0, <1>p, SettledKeeps
  <2>2. n = [m EXCEPT !.idx = q.idx + 1, !.reason = "none"]
    BY <1>2, <2>1 DEF afterOutcome, Keeps, Loop
  <2> HIDE DEF m
  <2>3. q.idx + 1 \in Nat \ {0} /\ "none" \in Reasons
    BY <1>t DEF Reasons
  <2>4. LET x == [m EXCEPT !.idx = q.idx + 1, !.reason = "none"] IN
        Keeps(m, x, {"idx"}) /\ x.idx = q.idx + 1
    BY <2>1, <2>3, Zenon DEF Keeps, Loop
  <2>5. Keeps(q, n, {"pc", "held", "idx"}) /\ n.pc = "sweep" /\ n.held = 0 /\ n.idx = q.idx + 1
    BY <2>1, <2>2, <2>4 DEF Keeps
  <2> HIDE DEF n
  <2>7. Tracked(n)
    BY <1>0, <2>5, TrackedNext DEF Keeps, Handled, Running
  <2>8. Running(n)
    BY <1>0, <2>5, <2>7 DEF Keeps, Running, maxSameTargetRetries
  <2>9. Unreported(n)
    BY <2>5 DEF Keeps, Unreported
  <2>10. n.idx <= Len(n.targets) + 1 /\ n.sent <= n.idx - 1 + n.same
    BY <1>t, <2>5 DEF Keeps, Handled
  <2>11. Sound(n) /\ n.held = 0
    BY <2>5, <2>8, <2>9, <2>10, SweepSound
  <2> QED
    BY <2>11 DEF n
<1>3. CASE ~consumeSameTargetRetry(q, retryable, status) /\ ~stickyAllowsFailover(q)
  <2>1. n = settled(q, "exhausted")
    BY <1>3 DEF afterOutcome
  <2>2. Keeps(q, n, {"pc", "held"}) /\ n.pc = "exhausted" /\ n.held = 0
    BY <1>0, <1>p, <2>1, SettledKeeps
  <2> HIDE DEF n
  <2>3. q.agent.sticky # "off"
    BY <1>3 DEF stickyAllowsFailover
  <2>4. Handled(n)
    BY <2>2, HandledFrame DEF Keeps
  <2>5. Unreported(n)
    BY <2>2 DEF Keeps, Unreported
  <2>6. n.idx <= Len(n.targets) + 1 /\ n.sent <= Len(n.targets) + n.same
    BY <1>t, <2>2 DEF Keeps, Handled
  <2>7. Sound(n) /\ n.held = 0
    BY <2>2, <2>3, <2>4, <2>5, <2>6, ExhaustedSound DEF Keeps, Handled
  <2> QED
    BY <2>7 DEF n
<1> QED
  BY <1>1, <1>2, <1>3

(* A final answer, an error being backed off, a sweep that is over.        *)

(* Answering with an outcome in hand is the one answer.                    *)
LEMMA AnswerSound ==
    ASSUME NEW q, NEW what \in Reports \ {"relay", "provider_budget"}, Handled(q)
    PROVE  Sound(done(write(q, what))) /\ done(write(q, what)).held = 0
<1> DEFINE m == write(q, what)
           n == done(m)
<1>0. q \in Loop /\ Running(q) /\ "done" \in Places
  BY DEF Handled, Running, Places
<1>1. Keeps(q, m, {"answers", "answer"}) /\ m.answers = q.answers + 1 /\ m.answer = what
  BY <1>0, WriteKeeps
<1>2. Keeps(m, n, {"pc", "held"}) /\ n.pc = "done" /\ n.held = 0
  BY <1>0, <1>1, SettledKeeps DEF done, Keeps
<1> HIDE DEF m, n
<1>3. /\ Keeps(q, n, {"pc", "held", "answers", "answer"})
      /\ n.pc = "done" /\ n.held = 0 /\ n.answers = 1 /\ n.answer = what
  BY <1>0, <1>1, <1>2 DEF Keeps, Running
<1>4. Tracked(n)
  BY <1>0, <1>3, TrackedFrame DEF Keeps, Running
<1>5. n.sent <= Len(n.targets) + n.same + (StreamAttempts - 1)
  BY <1>0, <1>3, LoopTypes DEF Keeps, Handled
<1>6. n.resumes < StreamAttempts /\ ~n.resuming
  BY <1>0, <1>3, LoopTypes DEF Keeps, Running
<1>7. /\ n.same <= maxSameTargetRetries(n)
      /\ n.agent.maxRetries > 0 => n.attempt <= n.agent.maxRetries + 1
  BY <1>0, <1>3 DEF Keeps, Running, maxSameTargetRetries
<1>8. n \in Loop
  BY <1>3 DEF Keeps
<1>i. n.idx <= Len(n.targets) + 1
  BY <1>0, <1>3, LoopTypes DEF Keeps, Handled
<1>9. Sound(n)
  BY <1>3, <1>4, <1>5, <1>6, <1>7, <1>8, <1>i, DoneSound
<1> QED
  BY <1>3, <1>9 DEF n, m

(* What every step but Acquire does to the slots: it keeps at most the     *)
(* ones it had, at the same target, or gives all of them back.             *)
Frees(q, n) ==
    n.held = 0 \/ (n.held <= q.held /\ n.idx = q.idx /\ n.targets = q.targets)

(* A backed-off error leaves the loop Sound.                               *)
LEMMA BackoffSound ==
    ASSUME NEW q, NEW retryable, NEW isQuota, Handled(q), q.held <= 1, q.reached, q.last = "error"
    PROVE  Sound(backoff(q, retryable, isQuota)) /\ Frees(q, backoff(q, retryable, isQuota))
<1> DEFINE n == backoff(q, retryable, isQuota)
<1>0. q \in Loop
  BY DEF Handled, Running
<1>1. Keeps(q, n, {"pc", "kind", "last4xx"}) /\ n.pc = "backoff" /\ n.last4xx \in {0, q.reply.status}
  BY <1>0, BackoffKeeps
<1> HIDE DEF n
<1>2. Handled(n)
  BY <1>1, HandledFrame DEF Keeps
<1>3. Reported(n)
  BY <1>1, <1>2 DEF Keeps, Handled, Running, Reported, Unreported, Sending
<1>4. Sound(n)
  BY <1>1, <1>2, <1>3, HandlingSound DEF Keeps, Handling
<1>5. Frees(q, n)
  BY <1>0, <1>1, LoopTypes DEF Keeps, Frees
<1> QED
  BY <1>4, <1>5 DEF n

(* An error is marked: one more attempt, the credential benched on a 429.  *)
LEMMA MarkedHandled ==
    ASSUME NEW q, Sound(q), q.pc = "error"
    PROVE  /\ Handled(marked(q)) /\ Unreported(marked(q)) /\ marked(q).held <= 1
           /\ marked(q).reached /\ marked(q).last = "error" /\ marked(q).held = q.held
           /\ marked(q).idx = q.idx /\ marked(q).targets = q.targets
<1> DEFINE n == marked(q)
<1>0. q \in Loop /\ Handled(q) /\ Running(q) /\ q.idx <= Len(q.targets)
  BY HandlingIsHandled DEF Sound, Handling, Handled, Running
<1>1. /\ Keeps(q, n, {"attempt", "last4xx", "limited"})
      /\ n.attempt = q.attempt + 1 /\ n.last4xx = 0
      /\ n.limited \in {q.limited, q.limited \cup {q.targets[q.idx].pair}}
  BY <1>0, MarkedKeeps
<1>2. q.reached /\ q.last = "error" /\ q.held <= 1
  BY DEF Sound, Reported, Slotted, Handling
<1>3. q.agent.maxRetries > 0 => q.attempt <= q.agent.maxRetries
  BY <1>0 DEF Sound, Patient, Running
<1> HIDE DEF n
<1>4. Tracked(n)
  BY <1>0, <1>1, TrackedBench DEF Keeps, Handled, Running
<1>5. n.agent.maxRetries > 0 => n.attempt <= n.agent.maxRetries + 1
  BY <1>0, <1>1, <1>3, LoopTypes DEF Keeps
<1>6. Handled(n)
  BY <1>0, <1>1, <1>4, <1>5 DEF Keeps, Handled, Running, maxSameTargetRetries
<1>7. Unreported(n)
  BY <1>1, <1>2 DEF Keeps, Unreported
<1> QED
  BY <1>1, <1>2, <1>6, <1>7 DEF n, Keeps

-----------------------------------------------------------------------------
(* A loop at a target, for the sweep or for a continuation.                *)
Live(q) ==
    /\ q \in Loop /\ Tracked(q)
    /\ q.idx \in q.tried /\ q.idx <= Len(q.targets)
    /\ q.same <= maxSameTargetRetries(q)
    /\ q.agent.maxRetries > 0 => q.attempt <= q.agent.maxRetries + 1
    /\ q.answer \notin {"relay", "provider_budget"}
    /\ q.resumes < StreamAttempts /\ (q.resuming => q.resumes + 1 < StreamAttempts)
    /\ q.held <= 2

(* What every loop under way satisfies, whatever its label.                *)
LEMMA SoundIsLive ==
    ASSUME NEW q, Sound(q), q.pc \in Sending \cup Handling \cup Streaming
    PROVE  Live(q)
<1>1. q.pc # "done"
  BY DEF Sending, Handling, Streaming
<1> QED
  BY <1>1 DEF Sound, Live, Budgeted, Patient, Reported, Covered, Slotted

(* Live does not depend on the label, the kind or the slots.               *)
LEMMA LiveFrame ==
    ASSUME NEW q, NEW n, Live(q), n.held <= 2,
           Keeps(q, n, {"pc", "kind", "reply", "held", "canceled", "seen", "last4xx",
                        "reached", "sent", "last"})
    PROVE  Live(n)
<1>1. Tracked(n)
  BY TrackedFrame DEF Keeps, Live
<1> QED
  BY <1>1 DEF Keeps, Live, maxSameTargetRetries

(* What makes a loop on its way to an upstream Sound.                      *)
LEMMA SendingSound ==
    ASSUME NEW n, Live(n), n.pc \in Sending,
           n.answers = IF n.resuming THEN 1 ELSE 0,
           n.sent <= n.idx + n.same + (IF n.resuming THEN n.resumes ELSE n.resumes - 1),
           ~n.resuming => n.resumes = 0 /\ Unreported(n),
           ~n.resuming /\ n.agent.maxRetries > 0 => n.attempt <= n.agent.maxRetries,
           Slotted(n)
    PROVE  Sound(n)
<1>0. n \in Loop
  BY DEF Live
<1>p. n.pc \notin Handling \cup Streaming
  BY DEF Sending, Handling, Streaming
<1>q. n.pc \notin {"idle", "sweep", "exhausted", "done", "returned", "error", "cooled", "backoff",
                   "response", "head", "copying", "resumed", "gave_up"}
  BY DEF Sending
<1>1. Answered(n)
  BY <1>p, <1>q DEF Answered
<1>2. Budgeted(n)
  BY <1>0, <1>p, <1>q, LoopTypes DEF Budgeted, Live
<1>3. Patient(n)
  BY <1>p, <1>q DEF Patient, Live
<1>4. Reported(n)
  BY <1>p, <1>q DEF Reported, Live
<1>5. Covered(n)
  BY <1>q DEF Covered, Live
<1> QED
  BY <1>0, <1>1, <1>2, <1>3, <1>4, <1>5 DEF Sound

(* What makes a loop with a committed stream Sound.                        *)
LEMMA StreamingSound ==
    ASSUME NEW n, Live(n), n.pc \in Streaming, n.answers = 1,
           n.pc = "copying" => ~n.resuming /\ n.held <= 1 /\ n.sent <= n.idx + n.same + n.resumes,
           n.pc # "copying" => n.resuming /\ n.sent <= n.idx + n.same + n.resumes + 1,
           n.pc = "resumed" /\ n.kind = "stream" => n.held > 0
    PROVE  Sound(n)
<1>0. n \in Loop
  BY DEF Live
<1>p. n.pc \notin Handling \cup Sending
  BY DEF Sending, Handling, Streaming
<1>q. n.pc \notin {"idle", "sweep", "exhausted", "done", "returned", "error", "cooled", "backoff",
                   "response", "head", "guards", "gated", "queued", "sending"}
  BY DEF Streaming
<1>r. n.pc \in {"copying", "resumed", "gave_up"}
  BY DEF Streaming
<1>1. Answered(n)
  BY <1>p, <1>q, <1>r DEF Answered
<1>2. Budgeted(n)
  BY <1>0, <1>p, <1>q, <1>r, LoopTypes DEF Budgeted, Live
<1>3. Patient(n)
  BY <1>p, <1>q DEF Patient, Live
<1>4. Reported(n)
  BY <1>p, <1>q DEF Reported, Live
<1>5. Covered(n)
  BY <1>q DEF Covered, Live
<1>6. Slotted(n)
  BY <1>p, <1>q, <1>r DEF Slotted, Live
<1> QED
  BY <1>0, <1>1, <1>2, <1>3, <1>4, <1>5, <1>6 DEF Sound

(* The end of a stream, its continuation included.                         *)
LEMMA StreamDoneSound ==
    ASSUME NEW q, Sound(q), q.pc \in Streaming
    PROVE  Sound(done(q)) /\ done(q).held = 0
<1> DEFINE n == done(q)
<1>0. q \in Loop /\ "done" \in Places /\ Live(q)
  BY SoundIsLive DEF Sound, Places
<1>1. Keeps(q, n, {"pc", "held"}) /\ n.pc = "done" /\ n.held = 0
  BY <1>0, SettledKeeps DEF done
<1> HIDE DEF n
<1>2. n \in Loop /\ Tracked(n) /\ q.pc # "done"
  BY <1>0, <1>1, TrackedFrame DEF Keeps, Live, Streaming
<1>3. n.answers = 1 /\ n.answer \notin {"relay", "provider_budget"}
  BY <1>0, <1>1 DEF Sound, Answered, Live, Keeps
<1>4. n.resumes < StreamAttempts /\ (n.resuming => n.resumes + 1 < StreamAttempts)
  BY <1>0, <1>1 DEF Live, Keeps
<1>5. q.sent <= Len(q.targets) + q.same + (StreamAttempts - 1)
  <2>t. {q.idx, q.same, q.sent, q.resumes, Len(q.targets), StreamAttempts} \subseteq Nat
    BY <1>0, LoopTypes
  <2>0. q.idx <= Len(q.targets) /\ q.resumes < StreamAttempts
    BY <1>0 DEF Live
  <2>1. CASE q.pc = "copying"
    <3>1. q.sent <= q.idx + q.same + q.resumes
      BY <2>1 DEF Sound, Budgeted
    <3> QED
      BY <2>t, <2>0, <3>1
  <2>2. CASE q.pc \in {"resumed", "gave_up"}
    <3>1. q.sent <= q.idx + q.same + q.resumes + 1
      BY <2>2 DEF Sound, Budgeted
    <3>2. q.resumes + 1 < StreamAttempts
      BY <1>0, <2>2 DEF Sound, Answered, Live
    <3> QED
      BY <2>t, <2>0, <3>1, <3>2
  <2> QED
    BY <2>1, <2>2 DEF Streaming
<1>6. /\ n.same <= maxSameTargetRetries(n)
      /\ n.agent.maxRetries > 0 => n.attempt <= n.agent.maxRetries + 1
      /\ n.sent <= Len(n.targets) + n.same + (StreamAttempts - 1)
  BY <1>0, <1>1, <1>5 DEF Live, Keeps, maxSameTargetRetries
<1>i. n.idx <= Len(n.targets) + 1
  BY <1>1 DEF Keeps, Sound, Budgeted
<1>7. Sound(n)
  BY <1>1, <1>2, <1>3, <1>4, <1>6, <1>i, DoneSound
<1> QED
  BY <1>1, <1>7 DEF n

(* prepareAndSend is over, with or without a call.                         *)
LEMMA ReturnedSound ==
    ASSUME NEW q, NEW n, Sound(q), q.pc \in Sending,
           Keeps(q, n, {"pc", "kind", "reply", "sent"}),
           n.pc = IF q.resuming THEN "resumed" ELSE "returned",
           \/ n.sent = q.sent
           \/ n.sent = q.sent + 1 /\ attempted(n.kind),
           q.pc = "sending" \/ n.kind # "stream"
    PROVE  Sound(n) /\ Frees(q, n)
<1>0. q \in Loop /\ n \in Loop /\ Live(q)
  BY SoundIsLive DEF Sound, Keeps
<1>t. {q.idx, q.same, q.sent, q.held, q.resumes} \subseteq Nat
  BY <1>0, LoopTypes
<1>1. Live(n) /\ n.held = q.held /\ n.answers = q.answers /\ n.resuming = q.resuming
      /\ n.resumes = q.resumes /\ n.idx = q.idx /\ n.same = q.same
  BY <1>0, LiveFrame DEF Keeps, Live
<1>2. CASE q.resuming
  <2>1. n.pc = "resumed" /\ n.resuming /\ n.answers = 1 /\ n.pc \in Streaming
    BY <1>1, <1>2 DEF Sound, Answered, Streaming
  <2>2. q.sent <= q.idx + q.same + q.resumes
    BY <1>2 DEF Sound, Budgeted
  <2>3. n.sent <= n.idx + n.same + n.resumes + 1
    BY <1>t, <1>1, <2>2
  <2>4. n.kind = "stream" => n.held > 0
    BY <1>t, <1>1 DEF Sound, Slotted
  <2> QED
    BY <1>t, <1>1, <2>1, <2>3, <2>4, StreamingSound DEF Frees, Keeps
<1>3. CASE ~q.resuming
  <2>1. n.pc = "returned" /\ n.pc \in Handling /\ ~n.resuming
    BY <1>1, <1>3 DEF Handling
  <2>2. q.sent <= q.idx + q.same + (q.resumes - 1) /\ q.resumes = 0 /\ q.answers = 0 /\ Unreported(q)
    BY <1>3 DEF Sound, Answered, Budgeted, Reported
  <2>3. n.sent <= n.idx + n.same
    BY <1>t, <1>1, <2>2
  <2>4. Handled(n)
    BY <1>1, <2>1, <2>2, <2>3 DEF Live, Handled, Running
  <2>5. ~n.reached /\ ~attempted(n.kind) => n.sent = 0
    BY <2>2 DEF Keeps, Unreported
  <2>6. Reported(n)
    BY <1>1, <2>1, <2>5 DEF Reported, Live, Sending
  <2>7. n.held <= 1
    BY <1>t, <1>1, <1>3 DEF Sound, Slotted, Sending
  <2>8. n.agent.maxRetries > 0 => n.attempt <= n.agent.maxRetries
    BY <1>3 DEF Sound, Patient, Keeps
  <2> QED
    BY <1>t, <1>1, <2>1, <2>4, <2>6, <2>7, <2>8, HandlingSound DEF Frees, Keeps
<1> QED
  BY <1>0, <1>2, <1>3 DEF Loop

-----------------------------------------------------------------------------
(* The steps.  Each takes a sound loop to a sound loop, and all but        *)
(* Acquire give slots back or keep what they have.                         *)
Moves(r) == \E n : Goto(r, n) /\ Sound(n) /\ Frees(req[r], n)

(* A new loop has tried nothing and answered nobody.                       *)
LEMMA NewLoop ==
    ASSUME NEW agent \in Agents, NEW list \in Targets
    PROVE  LET n == newRetryLoop(agent, list)
           IN  n \in Loop /\ Running(n) /\ Unreported(n) /\ n.pc = "sweep" /\ n.held = 0 /\ n.idx = 1
               /\ n.sent = 0 /\ n.targets = list
<1> DEFINE n == newRetryLoop(agent, list)
<1>1. "sweep" \in Places /\ "none" \in Kinds /\ "none" \in Reports /\ "none" \in Reasons
      /\ 0 \in Nat /\ 1 \in Nat \ {0} /\ 0 \in Int
      /\ {} \in SUBSET Pairs /\ {} \in SUBSET Nat /\ FALSE \in BOOLEAN /\ NoReply \in Replies \cup {NoReply}
  BY DEF Places, Kinds, Reports, Reasons
<1>2. n \in Loop
  BY <1>1, Zenon DEF newRetryLoop, Loop
<1>3. /\ n.agent = agent /\ n.pc = "sweep" /\ n.targets = list /\ n.idx = 1 /\ n.held = 0
      /\ n.resuming = FALSE /\ n.resumes = 0 /\ n.attempt = 0 /\ n.same = 0 /\ n.last4xx = 0
      /\ n.limited = {} /\ n.answers = 0 /\ n.answer = "none" /\ n.sent = 0 /\ n.tried = {}
  BY Zenon DEF newRetryLoop
<1> HIDE DEF n
<1>4. Tracked(n)
  BY <1>3 DEF Tracked
<1>5. Running(n) /\ Unreported(n)
  BY <1>2, <1>3, <1>4, LoopTypes DEF Running, Unreported
<1> QED
  BY <1>2, <1>3, <1>5 DEF n

(* A request that has not started is Sound.                                *)
LEMMA IdleSound == Sound(Idle)
<1> DEFINE m == newRetryLoop(NoAgent, <<>>)
           n == [m EXCEPT !.pc = "idle"]
<1>1. NoAgent \in Agents /\ <<>> \in Targets /\ "idle" \in Places
  BY DEF NoAgent, Agents, Targets, Places
<1>2. m \in Loop /\ Running(m) /\ Unreported(m) /\ m.pc = "sweep" /\ m.held = 0 /\ m.idx = 1
      /\ m.sent = 0 /\ m.targets = <<>>
  BY <1>1, NewLoop
<1> HIDE DEF m
<1>3. Keeps(m, n, {"pc"}) /\ n.pc = "idle"
  BY <1>1, <1>2, Zenon DEF Keeps, Loop
<1> HIDE DEF n
<1>4. Tracked(n)
  BY <1>2, <1>3, TrackedFrame DEF Keeps, Running
<1>5. Running(n) /\ Unreported(n)
  BY <1>2, <1>3, <1>4 DEF Keeps, Running, Unreported, maxSameTargetRetries
<1>6. n.idx <= Len(n.targets) + 1 /\ n.sent <= n.idx - 1 + n.same /\ n.held = 0
  BY <1>2, <1>3, LoopTypes DEF Keeps
<1>7. Sound(n)
  BY <1>3, <1>5, <1>6, SweepSound
<1> QED
  BY <1>7 DEF n, m, Idle

(* The list BuildTargetList makes of the chain is a list of targets.       *)
LEMMA ListTypes ==
    ASSUME NEW start \in Nat, NEW list \in BuildTargetList(start)
    PROVE  list \in Targets
<1> DEFINE T == [key : Keys, model : Models, pair : Pairs, cooling : BOOLEAN]
           C == [key : Keys, model : Models, pair : Pairs]
           chain == Rotated(start)
           unlocked == {i \in DOMAIN Chain : ~IsModelLocked(chain[i].key)}
           active == {i \in unlocked : Permitted(chain[i].key)}
<1>1. Chain \in Seq(C)
  BY DispatchAssumption DEF Models, Pairs
<1>2. DOMAIN Chain = 1..Len(Chain) /\ Len(Chain) \in Nat
  BY <1>1
<1>3. ASSUME NEW i \in DOMAIN Chain PROVE chain[i] \in C
  <2>1. ((start + i - 1) % Len(Chain)) + 1 \in 1..Len(Chain)
    BY <1>2
  <2> HIDE DEF C
  <2> QED
    BY <1>1, <1>2, <2>1 DEF Rotated
<1>4. ASSUME NEW S \in SUBSET DOMAIN Chain, NEW c \in BOOLEAN, NEW x \in targetsAt(chain, S, c)
      PROVE  x \in Seq(T)
  <2>0. IsFiniteSet(DOMAIN Chain)
    BY <1>2, FS_Interval
  <2>1. Cardinality(S) \in Nat
    BY <2>0, FS_Subset, FS_CardinalityType
  <2>2. PICK o \in inOrder(S) :
            x = [i \in DOMAIN o |-> [key |-> chain[o[i]].key, model |-> chain[o[i]].model,
                                     pair |-> chain[o[i]].pair, cooling |-> c]]
    BY DEF targetsAt
  <2>3. o \in [1..Cardinality(S) -> S]
    BY DEF inOrder
  <2>4. ASSUME NEW i \in DOMAIN o PROVE x[i] \in T
    <3>1. chain[o[i]] \in C
      BY <1>3, <2>3
    <3> HIDE DEF chain
    <3> QED
      BY <2>2, <3>1
  <2> HIDE DEF T
  <2>5. x \in [1..Cardinality(S) -> T]
    BY <2>2, <2>3, <2>4
  <2> QED
    BY <2>1, <2>5
<1> DEFINE X == targetsAt(chain, active, FALSE)
           Y == targetsAt(chain, unlocked \ active, TRUE)
<1>5. active \in SUBSET DOMAIN Chain /\ (unlocked \ active) \in SUBSET DOMAIN Chain
  OBVIOUS
<1>6. PICK x \in X, y \in Y : list = x \o y
  <2>1. BuildTargetList(start) = {front \o back : front \in X, back \in Y}
    BY DEF BuildTargetList
  <2> HIDE DEF X, Y
  <2> QED
    BY <2>1
<1> HIDE DEF T
<1>7. X \subseteq Seq(T) /\ Y \subseteq Seq(T)
  BY <1>4, <1>5, Zenon
<1> HIDE DEF X, Y
<1>8. list \in Seq(T)
  BY <1>6, <1>7
<1> QED
  BY <1>8 DEF T, Targets

(* Start leaves a Sound loop and takes no slot.                            *)
LEMMA StartMoves ==
    ASSUME NEW r \in Requests, Start(r)
    PROVE  Moves(r)
<1>1. PICK start \in Starts, agent \in Profiles[r] : \E list \in BuildTargetList(start) :
          LET loop == newRetryLoop(agent, list)
          IN  Goto(r, IF list = <<>>
                      THEN [loop EXCEPT !.pc = "done", !.answers = 1, !.answer = "no_target"]
                      ELSE loop)
  BY DEF Start
<1>2. PICK list \in BuildTargetList(start) :
          Goto(r, IF list = <<>>
                  THEN [newRetryLoop(agent, list) EXCEPT !.pc = "done", !.answers = 1, !.answer = "no_target"]
                  ELSE newRetryLoop(agent, list))
  BY <1>1
<1>3. start \in Nat /\ agent \in Agents
  BY DispatchAssumption
<1>4. list \in Targets
  BY <1>3, ListTypes
<1> DEFINE m == newRetryLoop(agent, list)
           n == [m EXCEPT !.pc = "done", !.answers = 1, !.answer = "no_target"]
<1>5. m \in Loop /\ Running(m) /\ Unreported(m) /\ m.pc = "sweep" /\ m.held = 0 /\ m.idx = 1
      /\ m.sent = 0 /\ m.targets = list
  BY <1>3, <1>4, NewLoop
<1>6. Goto(r, IF list = <<>> THEN n ELSE m)
  BY <1>2
<1> HIDE DEF m
<1>7. Sound(m)
  <2>1. m.idx <= Len(m.targets) + 1 /\ m.sent <= m.idx - 1 + m.same
    BY <1>5, LoopTypes
  <2> QED
    BY <1>5, <2>1, SweepSound
<1>8. Sound(n) /\ n.held = 0
  <2>1. "done" \in Places /\ 1 \in Nat /\ "no_target" \in Reports
    BY DEF Places, Reports
  <2>2. /\ Keeps(m, n, {"pc", "answers", "answer"})
        /\ n.pc = "done" /\ n.answers = 1 /\ n.answer = "no_target"
    BY <1>5, <2>1, Zenon DEF Keeps, Loop
  <2> HIDE DEF n
  <2>3. n \in Loop /\ Tracked(n)
    BY <1>5, <2>2, TrackedFrame DEF Keeps, Running
  <2>4. /\ n.same <= maxSameTargetRetries(n) /\ n.held = 0
        /\ n.agent.maxRetries > 0 => n.attempt <= n.agent.maxRetries + 1
    BY <1>5, <2>2 DEF Keeps, Running, maxSameTargetRetries
  <2>5. /\ n.resumes < StreamAttempts /\ ~n.resuming
        /\ n.sent <= Len(n.targets) + n.same + (StreamAttempts - 1)
    BY <1>5, <2>2, LoopTypes DEF Keeps, Running
  <2>i. n.idx <= Len(n.targets) + 1
    BY <1>5, <2>2, LoopTypes DEF Keeps
  <2> QED
    BY <2>2, <2>3, <2>4, <2>5, <2>i, DoneSound
<1> HIDE DEF n
<1> QED
  BY <1>5, <1>6, <1>7, <1>8 DEF Moves, Frees

(* Cancel leaves a Sound loop and takes no slot.                           *)
LEMMA CancelMoves ==
    ASSUME NEW r \in Requests, Sound(req[r]), Cancel(r)
    PROVE  Moves(r)
<1> DEFINE q == req[r]
           n == [q EXCEPT !.canceled = TRUE]
<1>0. q \in Loop /\ q.pc \notin {"idle", "done"} /\ Goto(r, n)
  BY DEF Cancel, Sound
<1> HIDE DEF q
<1>1. Keeps(q, n, {"canceled"}) /\ n.canceled
  BY <1>0, Zenon DEF Keeps, Loop
<1> HIDE DEF n
<1>s. Sound(q)
  BY DEF q
<1>2. Answered(n)
  BY <1>0, <1>1, <1>s DEF Keeps, Sound, Answered
<1>3. Budgeted(n)
  BY <1>0, <1>1, <1>s DEF Keeps, Sound, Budgeted, maxSameTargetRetries
<1>4. Patient(n)
  BY <1>0, <1>1, <1>s DEF Keeps, Sound, Patient
<1>5. Reported(n)
  BY <1>0, <1>1, <1>s DEF Keeps, Sound, Reported, Unreported
<1>6. Covered(n)
  BY <1>0, <1>1, <1>s, TrackedFrame DEF Keeps, Sound, Covered
<1>7. Slotted(n)
  BY <1>0, <1>1, <1>s DEF Keeps, Sound, Slotted
<1>8. Sound(n)
  BY <1>1, <1>2, <1>3, <1>4, <1>5, <1>6, <1>7 DEF Sound, Keeps
<1>9. Frees(q, n)
  BY <1>0, <1>1, LoopTypes DEF Frees, Keeps
<1> QED
  BY <1>0, <1>8, <1>9 DEF Moves, q

(* What the top of the loop body finds.                                    *)
LEMMA SweepIsRunning ==
    ASSUME NEW q, Sound(q), q.pc = "sweep"
    PROVE  /\ Running(q) /\ q.held = 0 /\ q.idx <= Len(q.targets) + 1
           /\ Unreported(q) /\ q.sent <= q.idx - 1 + q.same
<1>1. q.pc # "done" /\ q.pc \notin {"idle", "done"} /\ q.pc \in {"idle", "sweep", "exhausted"} \cup Handling
  OBVIOUS
<1>2. q \in Loop /\ Tracked(q) /\ ~q.resuming /\ q.answers = 0
  BY <1>1 DEF Sound, Covered, Answered
<1> QED
  BY <1>1, <1>2 DEF Sound, Running, Budgeted, Patient, Reported, Slotted

(* Sweep leaves a Sound loop and takes no slot.                            *)
LEMMA SweepMoves ==
    ASSUME NEW r \in Requests, Sound(req[r]), Sweep(r)
    PROVE  Moves(r)
<1> DEFINE q == req[r]
           over == q.idx > Len(q.targets) \/ q.canceled \/ attemptsSpent(q)
<1>0. /\ q \in Loop /\ q.pc = "sweep" /\ Running(q) /\ q.held = 0 /\ q.idx <= Len(q.targets) + 1
      /\ Unreported(q) /\ q.sent <= q.idx - 1 + q.same
  BY SweepIsRunning DEF Sweep, At, Sound
<1>t. {q.idx, q.same, q.sent, Len(q.targets)} \subseteq Nat /\ q.idx > 0
  BY <1>0, LoopTypes
<1>1. CASE over /\ Goto(r, [q EXCEPT !.pc = "exhausted"])
  <2> DEFINE n == [q EXCEPT !.pc = "exhausted"]
  <2>g. Goto(r, n)
    BY <1>1
  <2>o. over
    BY <1>1
  <2> HIDE DEF q
  <2>1. "exhausted" \in Places
    BY DEF Places
  <2>2. Keeps(q, n, {"pc"}) /\ n.pc = "exhausted"
    BY <1>0, <2>1, Zenon DEF Keeps, Loop
  <2> HIDE DEF n
  <2>3. Tracked(n)
    BY <1>0, <2>2, TrackedFrame DEF Keeps, Running
  <2>4. Running(n) /\ Unreported(n) /\ n.held = 0
    BY <1>0, <2>2, <2>3 DEF Keeps, Running, Unreported, maxSameTargetRetries
  <2>5. n.idx <= Len(n.targets) + 1 /\ n.sent <= Len(n.targets) + n.same
    BY <1>0, <1>t, <2>2 DEF Keeps
  <2>6. ~n.canceled /\ ~attemptsSpent(n) => n.idx = Len(n.targets) + 1
    BY <1>0, <1>t, <2>o, <2>2 DEF Keeps, attemptsSpent
  <2>7. Sound(n)
    BY <2>2, <2>4, <2>5, <2>6, ExhaustedSound
  <2> QED
    BY <2>g, <2>4, <2>7 DEF Moves, Frees
<1>2. CASE ~over /\ shouldSkipRateLimitedPair(q) /\ Goto(r, [q EXCEPT !.idx = @ + 1])
  <2> DEFINE n == [q EXCEPT !.idx = q.idx + 1]
  <2>g. Goto(r, n)
    BY <1>2 DEF Goto
  <2>o. q.idx <= Len(q.targets) /\ shouldSkipRateLimitedPair(q)
    BY <1>t, <1>2
  <2> HIDE DEF q
  <2>1. q.idx + 1 \in Nat \ {0}
    BY <1>t
  <2>2. Keeps(q, n, {"idx"}) /\ n.idx = q.idx + 1
    BY <1>0, <2>1, Zenon DEF Keeps, Loop
  <2> HIDE DEF n
  <2>3. Tracked(n)
    BY <1>0, <2>o, <2>2, TrackedSkip DEF Keeps, Running
  <2>4. Running(n) /\ Unreported(n) /\ n.held = 0 /\ n.pc = "sweep"
    BY <1>0, <2>2, <2>3 DEF Keeps, Running, Unreported, maxSameTargetRetries
  <2>5. n.idx <= Len(n.targets) + 1 /\ n.sent <= n.idx - 1 + n.same
    BY <1>0, <1>t, <2>o, <2>2 DEF Keeps
  <2>6. Sound(n)
    BY <2>4, <2>5, SweepSound
  <2> QED
    BY <2>g, <2>4, <2>6 DEF Moves, Frees
<1>3. CASE ~over /\ Goto(r, [q EXCEPT !.pc = "guards", !.charged = TRUE, !.tried = @ \cup {q.idx}])
  <2> DEFINE n == [q EXCEPT !.pc = "guards", !.charged = TRUE, !.tried = q.tried \cup {q.idx}]
  <2>g. Goto(r, n)
    BY <1>3 DEF Goto
  <2>o. q.idx <= Len(q.targets) /\ ~attemptsSpent(q)
    BY <1>t, <1>3
  <2> HIDE DEF q
  <2>1. "guards" \in Places /\ "guards" \in Sending /\ q.tried \cup {q.idx} \in SUBSET Nat /\ TRUE \in BOOLEAN
    BY <1>0, <1>t DEF Places, Sending, Loop
  <2>2. Keeps(q, n, {"pc", "tried"}) /\ n.pc = "guards" /\ n.tried = q.tried \cup {q.idx}
    BY <1>0, <2>1, Zenon DEF Keeps, Loop
  <2> HIDE DEF n
  <2>3. Tracked(n)
    BY <1>0, <2>o, <2>2, TrackedTry DEF Keeps, Running
  <2>4. Running(n) /\ Unreported(n) /\ n.held = 0
    BY <1>0, <2>2, <2>3 DEF Keeps, Running, Unreported, maxSameTargetRetries
  <2>5. n.idx <= Len(n.targets) /\ n.sent <= n.idx - 1 + n.same /\ n.idx \in n.tried
    BY <1>0, <1>t, <2>o, <2>2 DEF Keeps
  <2>6. Live(n)
    BY <2>4, <2>5, DispatchAssumption DEF Live, Running
  <2>7. n.agent.maxRetries > 0 => n.attempt <= n.agent.maxRetries
    BY <1>0, <2>o, <2>2, LoopTypes DEF Keeps, attemptsSpent
  <2>8. Slotted(n)
    BY <2>2, <2>4 DEF Slotted, Handling
  <2>9. n.sent <= n.idx + n.same + (n.resumes - 1)
    BY <1>t, <2>2, <2>4, <2>5 DEF Running, Keeps
  <2>10. Sound(n)
    BY <2>1, <2>2, <2>4, <2>6, <2>7, <2>8, <2>9, SendingSound DEF Running
  <2> QED
    BY <2>g, <2>4, <2>10 DEF Moves, Frees
<1>4. CASE ~over /\ Goto(r, [done(write(q, "key_budget")) EXCEPT !.charged = TRUE])
  <2> DEFINE w == write(q, "key_budget")
             m == done(w)
             n == [m EXCEPT !.charged = TRUE]
  <2>g. Goto(r, n)
    BY <1>4
  <2> HIDE DEF q
  <2>1. "key_budget" \in Reports /\ "done" \in Places /\ TRUE \in BOOLEAN
    BY DEF Reports, Places
  <2>2. Keeps(q, w, {"answers", "answer"}) /\ w.answers = q.answers + 1 /\ w.answer = "key_budget"
    BY <1>0, <2>1, WriteKeeps
  <2>3. Keeps(w, m, {"pc", "held"}) /\ m.pc = "done" /\ m.held = 0
    BY <2>1, <2>2, SettledKeeps DEF done, Keeps
  <2> HIDE DEF w, m
  <2>4. Keeps(m, n, {})
    BY <2>1, <2>3, Zenon DEF Keeps, Loop
  <2> HIDE DEF n
  <2>5. /\ Keeps(q, n, {"pc", "held", "answers", "answer"}) /\ n.pc = "done" /\ n.held = 0
        /\ n.answers = 1 /\ n.answer = "key_budget"
    BY <1>0, <2>2, <2>3, <2>4 DEF Keeps, Running
  <2>6. n \in Loop /\ Tracked(n)
    BY <1>0, <2>5, TrackedFrame DEF Keeps, Running
  <2>7. /\ n.same <= maxSameTargetRetries(n)
        /\ n.agent.maxRetries > 0 => n.attempt <= n.agent.maxRetries + 1
        /\ n.resumes = 0 /\ ~n.resuming
    BY <1>0, <2>5 DEF Keeps, Running, maxSameTargetRetries
  <2>a. q.sent <= Len(q.targets) + q.same /\ StreamAttempts \in Nat \ {0}
    BY <1>0, <1>t, DispatchAssumption
  <2>8. n.resumes < StreamAttempts /\ n.sent <= Len(n.targets) + n.same + (StreamAttempts - 1)
    BY <1>t, <2>5, <2>7, <2>a DEF Keeps
  <2>i. n.idx <= Len(n.targets) + 1
    BY <2>5 DEF Keeps, Sound, Budgeted, q
  <2>9. Sound(n)
    BY <2>5, <2>6, <2>7, <2>8, <2>i, DoneSound
  <2> QED
    BY <2>g, <2>5, <2>9 DEF Moves, Frees
<1> QED
  BY <1>1, <1>2, <1>3, <1>4 DEF Sweep

(* prepareAndSend.                                                         *)

(* Passing a gate before the upstream call keeps the loop Sound.           *)
LEMMA GateSound ==
    ASSUME NEW q, NEW pc \in {"gated", "queued"}, Sound(q), q.pc \in {"guards", "gated"}
    PROVE  Sound([q EXCEPT !.pc = pc]) /\ Frees(q, [q EXCEPT !.pc = pc])
<1> DEFINE n == [q EXCEPT !.pc = pc]
<1>0. q \in Loop /\ q.pc \in Sending /\ pc \in Places
  BY DEF Sound, Sending, Places
<1>1. Keeps(q, n, {"pc"}) /\ n.pc = pc
  BY <1>0, Zenon DEF Keeps, Loop
<1> HIDE DEF n
<1>2. Live(q)
  BY <1>0, SoundIsLive
<1>3. Live(n)
  BY <1>1, <1>2, LiveFrame DEF Keeps, Live
<1>4. Slotted(n)
  BY <1>0, <1>1 DEF Sound, Slotted, Keeps, Handling
<1>5. n.answers = IF n.resuming THEN 1 ELSE 0
  BY <1>0, <1>1 DEF Sound, Answered, Keeps
<1>6. n.sent <= n.idx + n.same + (IF n.resuming THEN n.resumes ELSE n.resumes - 1)
  BY <1>0, <1>1 DEF Sound, Budgeted, Keeps
<1>7. ~n.resuming => n.resumes = 0 /\ Unreported(n)
  BY <1>0, <1>1 DEF Sound, Budgeted, Reported, Unreported, Keeps
<1>8. ~n.resuming /\ n.agent.maxRetries > 0 => n.attempt <= n.agent.maxRetries
  BY <1>0, <1>1 DEF Sound, Patient, Keeps
<1>9. Sound(n)
  BY <1>1, <1>3, <1>4, <1>5, <1>6, <1>7, <1>8, SendingSound DEF Sending
<1>10. Frees(q, n)
  BY <1>0, <1>1, LoopTypes DEF Frees, Keeps
<1> QED
  BY <1>9, <1>10 DEF n

(* A target skipped before the call leaves the loop Sound.                 *)
LEMMA SkippedSound ==
    ASSUME NEW q, NEW kind \in {"skip", "budget_skip"}, Sound(q), q.pc \in Sending
    PROVE  Sound(returned(q, kind)) /\ Frees(q, returned(q, kind))
<1> DEFINE n == returned(q, kind)
<1>0. q \in Loop /\ kind \in Kinds /\ kind # "stream"
  BY DEF Sound, Kinds
<1>1. /\ Keeps(q, n, {"pc", "kind"}) /\ n.kind = kind
      /\ n.pc = IF q.resuming THEN "resumed" ELSE "returned"
  BY <1>0, ReturnedKeeps
<1> HIDE DEF n
<1>2. Keeps(q, n, {"pc", "kind", "reply", "sent"}) /\ n.sent = q.sent
  BY <1>1 DEF Keeps
<1>3. Sound(n) /\ Frees(q, n)
  BY <1>0, <1>1, <1>2, ReturnedSound
<1> QED
  BY <1>3 DEF n

(* A call that was made leaves the loop Sound.                             *)
LEMMA SentSound ==
    ASSUME NEW r \in Requests, NEW kind \in Kinds, attempted(kind),
           Sound(req[r]), At(r, "sending")
    PROVE  LET n == returned(sent(r), kind)
           IN  Sound(n) /\ Frees(req[r], n) /\ n.sent = req[r].sent + 1 /\ n.kind = kind
               /\ Keeps(req[r], n, {"pc", "kind", "sent"})
               /\ n.pc = IF req[r].resuming THEN "resumed" ELSE "returned"
<1> DEFINE q == req[r]
           m == [q EXCEPT !.sent = q.sent + 1]
           n == returned(m, kind)
<1>0. q \in Loop /\ q.pc = "sending" /\ q.pc \in Sending /\ Sound(q)
  BY DEF Sound, At, Sending
<1>a. sent(r) = m
  BY DEF sent
<1> HIDE DEF q
<1>1. q.sent + 1 \in Nat
  BY <1>0, LoopTypes
<1>2. Keeps(q, m, {"sent"}) /\ m.sent = q.sent + 1
  BY <1>0, <1>1, Zenon DEF Keeps, Loop
<1> HIDE DEF m
<1>3. /\ Keeps(m, n, {"pc", "kind"}) /\ n.kind = kind
      /\ n.pc = IF m.resuming THEN "resumed" ELSE "returned"
  BY <1>2, ReturnedKeeps DEF Keeps
<1> HIDE DEF n
<1>4. /\ Keeps(q, n, {"pc", "kind", "sent"}) /\ n.sent = q.sent + 1
      /\ n.pc = IF q.resuming THEN "resumed" ELSE "returned"
  BY <1>2, <1>3 DEF Keeps
<1>5. Keeps(q, n, {"pc", "kind", "reply", "sent"})
  BY <1>4 DEF Keeps
<1>6. Sound(n) /\ Frees(q, n)
  BY <1>0, <1>3, <1>4, <1>5, ReturnedSound
<1> QED
  BY <1>3, <1>4, <1>6, <1>a DEF q, n

(* GuardSkip leaves a Sound loop and takes no slot.                        *)
LEMMA GuardSkipMoves ==
    ASSUME NEW r \in Requests, Sound(req[r]), GuardSkip(r)
    PROVE  Moves(r)
  BY SkippedSound DEF GuardSkip, At, Moves, Sending

(* breakerGate leaves a Sound loop and takes no slot.                      *)
LEMMA breakerGateMoves ==
    ASSUME NEW r \in Requests, Sound(req[r]), breakerGate(r)
    PROVE  Moves(r)
<1>1. req[r].pc = "guards" /\ req[r].pc \in Sending
  BY DEF breakerGate, At, Sending
<1>2. Goto(r, [req[r] EXCEPT !.pc = "gated"]) \/ Goto(r, returned(req[r], "skip"))
  BY DEF breakerGate
<1>3. Sound([req[r] EXCEPT !.pc = "gated"]) /\ Frees(req[r], [req[r] EXCEPT !.pc = "gated"])
  BY <1>1, GateSound
<1>4. Sound(returned(req[r], "skip")) /\ Frees(req[r], returned(req[r], "skip"))
  BY <1>1, SkippedSound
<1> QED
  BY <1>2, <1>3, <1>4, Zenon DEF Moves

(* providerBudgetGate leaves a Sound loop and takes no slot.               *)
LEMMA providerBudgetGateMoves ==
    ASSUME NEW r \in Requests, Sound(req[r]), providerBudgetGate(r)
    PROVE  Moves(r)
<1>1. req[r].pc = "gated" /\ req[r].pc \in Sending
  BY DEF providerBudgetGate, At, Sending
<1>2. Goto(r, [req[r] EXCEPT !.pc = "queued"]) \/ Goto(r, returned(req[r], "budget_skip"))
  BY DEF providerBudgetGate
<1>3. Sound([req[r] EXCEPT !.pc = "queued"]) /\ Frees(req[r], [req[r] EXCEPT !.pc = "queued"])
  BY <1>1, GateSound
<1>4. Sound(returned(req[r], "budget_skip")) /\ Frees(req[r], returned(req[r], "budget_skip"))
  BY <1>1, SkippedSound
<1> QED
  BY <1>2, <1>3, <1>4, Zenon DEF Moves

(* AcquireCanceled leaves a Sound loop and takes no slot.                  *)
LEMMA AcquireCanceledMoves ==
    ASSUME NEW r \in Requests, Sound(req[r]), AcquireCanceled(r) \/ BuildFailed(r)
    PROVE  Moves(r)
  BY SkippedSound DEF AcquireCanceled, BuildFailed, At, Moves, Sending

(* NetworkError leaves a Sound loop and takes no slot.                     *)
LEMMA NetworkErrorMoves ==
    ASSUME NEW r \in Requests, Sound(req[r]), NetworkError(r)
    PROVE  Moves(r)
<1>1. "network" \in Kinds /\ attempted("network")
  BY DEF Kinds, attempted
<1> QED
  BY <1>1, SentSound DEF NetworkError, Moves

(* handleUpstreamResponse leaves a Sound loop and takes no slot.           *)
LEMMA handleUpstreamResponseMoves ==
    ASSUME NEW r \in Requests, Sound(req[r]), handleUpstreamResponse(r)
    PROVE  Moves(r)
<1>1. PICK kind \in {"response", "html", "stream"} : Goto(r, returned(sent(r), kind))
  BY DEF handleUpstreamResponse
<1>2. kind \in Kinds /\ attempted(kind)
  BY DEF Kinds, attempted
<1> QED
  BY <1>1, <1>2, SentSound DEF handleUpstreamResponse, Moves

(* UpstreamError leaves a Sound loop and takes no slot.                    *)
LEMMA UpstreamErrorMoves ==
    ASSUME NEW r \in Requests, Sound(req[r]), UpstreamError(r)
    PROVE  Moves(r)
<1> DEFINE q == req[r]
           m == returned(sent(r), "error")
<1>1. PICK reply \in Replies : Goto(r, [m EXCEPT !.reply = reply])
  BY DEF UpstreamError
<1> DEFINE n == [m EXCEPT !.reply = reply]
<1>2. "error" \in Kinds /\ attempted("error") /\ q.pc = "sending" /\ q.pc \in Sending
  BY DEF Kinds, attempted, UpstreamError, At, Sending
<1>3. /\ m.sent = q.sent + 1 /\ m.kind = "error" /\ Keeps(q, m, {"pc", "kind", "sent"})
      /\ m.pc = IF q.resuming THEN "resumed" ELSE "returned"
  BY <1>2, SentSound DEF UpstreamError
<1> HIDE DEF m
<1>4. reply \in Replies \cup {NoReply}
  OBVIOUS
<1>5. Keeps(m, n, {"reply"})
  BY <1>3, <1>4, Zenon DEF Keeps, Loop
<1>a. Goto(r, n)
  BY <1>1
<1> HIDE DEF n, q
<1>6. /\ Keeps(q, n, {"pc", "kind", "reply", "sent"}) /\ n.sent = q.sent + 1 /\ n.kind = "error"
      /\ n.pc = IF q.resuming THEN "resumed" ELSE "returned"
  BY <1>3, <1>5 DEF Keeps
<1>7. Sound(q)
  BY DEF q
<1>8. Sound(n) /\ Frees(q, n)
  BY <1>2, <1>6, <1>7, ReturnedSound
<1> QED
  BY <1>a, <1>8 DEF Moves, q

(* Run after prepareAndSend, and handleActionResult.                       *)

(* ReturnedCanceled leaves a Sound loop and takes no slot.                 *)
LEMMA ReturnedCanceledMoves ==
    ASSUME NEW r \in Requests, Sound(req[r]), ReturnedCanceled(r)
    PROVE  Moves(r)
<1> DEFINE q == req[r]
           n == settled(q, "exhausted")
<1>0. /\ q \in Loop /\ Handled(q) /\ q.canceled /\ "exhausted" \in Places /\ Goto(r, n)
  BY HandlingIsHandled DEF Sound, ReturnedCanceled, At, Handling, Places
<1>1. Keeps(q, n, {"pc", "held"}) /\ n.pc = "exhausted" /\ n.held = 0
  BY <1>0, SettledKeeps
<1> HIDE DEF q, n
<1>2. Handled(n) /\ n.canceled
  BY <1>0, <1>1, HandledFrame DEF Keeps
<1>3. n.idx <= Len(n.targets) + 1 /\ n.sent <= Len(n.targets) + n.same
  BY <1>1, <1>2, LoopTypes DEF Handled, Keeps
<1>4. Sound(n)
  BY <1>1, <1>2, <1>3, ExhaustedSound DEF Handled
<1> QED
  BY <1>0, <1>1, <1>4 DEF Moves, Frees

(* handleActionResult leaves a Sound loop and takes no slot.               *)
LEMMA handleActionResultMoves ==
    ASSUME NEW r \in Requests, Sound(req[r]), handleActionResult(r)
    PROVE  Moves(r)
<1> DEFINE o == req[r]
           q == noted(o)
<1>0. o \in Loop /\ Sound(o) /\ o.pc = "returned" /\ o.pc \in Handling /\ Handled(o)
  BY HandlingIsHandled DEF Sound, handleActionResult, At, Handling
<1>1. /\ Keeps(o, q, {"reached", "last", "last4xx"})
      /\ q.reached = (o.reached \/ attempted(o.kind)) /\ q.last = o.kind
      /\ q.last4xx = IF o.kind = "error" THEN o.last4xx ELSE 0
  BY <1>0, NotedKeeps
<1>g. Goto(r, CASE q.kind \in {"skip", "budget_skip", "network", "html"} ->
                     afterOutcome([q EXCEPT !.reason = "dispatch",
                                    !.budgetSkipped = @ \/ q.kind = "budget_skip"],
                                  q.kind = "network", 0)
                [] q.kind = "error" ->
                     [q EXCEPT !.pc = "error",
                        !.reason = IF q.reply.status >= 500 THEN "5xx" ELSE "4xx"]
                [] q.kind = "stream" -> [q EXCEPT !.pc = "head"]
                [] OTHER -> [q EXCEPT !.pc = "response"])
  BY DEF handleActionResult
<1>b. o.held <= 1 /\ (o.agent.maxRetries > 0 => o.attempt <= o.agent.maxRetries)
  BY <1>0 DEF Sound, Slotted, Patient, Handled, Running
<1>c. ~o.reached /\ ~attempted(o.kind) => o.sent = 0
  BY <1>0 DEF Sound, Reported
<1> HIDE DEF o, q
<1>2. Handled(q) /\ q.kind = o.kind
  BY <1>0, <1>1, HandledFrame DEF Keeps
<1>3. CASE q.kind \in {"skip", "budget_skip", "network", "html"}
  <2> DEFINE bs == q.budgetSkipped \/ q.kind = "budget_skip"
             m == [q EXCEPT !.reason = "dispatch", !.budgetSkipped = bs]
             n == afterOutcome(m, q.kind = "network", 0)
  <2>g. Goto(r, n)
    BY <1>g, <1>3, Zenon
  <2>1. bs \in BOOLEAN /\ "dispatch" \in Reasons
    BY DEF Reasons
  <2> HIDE DEF bs
  <2>2. Keeps(q, m, {})
    BY <1>1, <2>1, Zenon DEF Keeps, Loop
  <2> HIDE DEF m
  <2>3. Handled(m)
    BY <1>2, <2>2, HandledFrame DEF Keeps
  <2>4. Unreported(m)
    BY <1>1, <1>2, <1>3, <1>c, <2>2 DEF Keeps, Unreported
  <2>5. Sound(n) /\ n.held = 0
    BY <2>3, <2>4, AfterOutcomeSound
  <2> HIDE DEF n
  <2> QED
    BY <2>g, <2>5 DEF Moves, Frees
<1>4. CASE q.kind = "error"
  <2> DEFINE why == IF q.reply.status >= 500 THEN "5xx" ELSE "4xx"
             n == [q EXCEPT !.pc = "error", !.reason = why]
  <2>g. Goto(r, n)
    BY <1>g, <1>4, Zenon
  <2>1. "error" \in Places /\ "error" \in Handling /\ why \in Reasons
    BY DEF Places, Handling, Reasons
  <2> HIDE DEF why
  <2>2. Keeps(q, n, {"pc"}) /\ n.pc = "error"
    BY <1>1, <2>1, Zenon DEF Keeps, Loop
  <2> HIDE DEF n
  <2>3. Handled(n)
    BY <1>2, <2>2, HandledFrame DEF Keeps
  <2>4. n.reached /\ n.last = "error"
    BY <1>1, <1>2, <1>4, <2>2 DEF Keeps, attempted
  <2>5. Reported(n)
    BY <2>2, <2>3, <2>4 DEF Reported, Handled, Running, Sending
  <2>6. n.held <= 1 /\ (n.agent.maxRetries > 0 => n.attempt <= n.agent.maxRetries)
    BY <1>b, <1>1, <2>2 DEF Keeps
  <2>7. Sound(n)
    BY <2>1, <2>2, <2>3, <2>5, <2>6, HandlingSound
  <2>8. Frees(o, n)
    BY <1>0, <1>1, <2>2, LoopTypes DEF Frees, Keeps
  <2> QED
    BY <2>g, <2>7, <2>8 DEF Moves, o
<1>5. ASSUME NEW pc \in {"head", "response"}, Goto(r, [q EXCEPT !.pc = pc]),
             q.kind \notin {"skip", "budget_skip", "network", "html", "error"}
      PROVE  Moves(r)
  <2> DEFINE n == [q EXCEPT !.pc = pc]
  <2>g. Goto(r, n)
    BY <1>5
  <2>1. pc \in Places /\ pc \in Handling
    BY DEF Places, Handling
  <2>2. Keeps(q, n, {"pc"}) /\ n.pc = pc
    BY <1>1, <2>1, Zenon DEF Keeps, Loop
  <2> HIDE DEF n
  <2>3. Handled(n)
    BY <1>2, <2>2, HandledFrame DEF Keeps
  <2>4. n.reached /\ n.last4xx = 0
    BY <1>1, <1>2, <1>5, <2>2 DEF Keeps, attempted
  <2>5. Reported(n)
    BY <2>2, <2>3, <2>4 DEF Reported, Handled, Running, Sending
  <2>6. n.held <= 1
    BY <1>b, <1>1, <2>2 DEF Keeps
  <2>7. Sound(n)
    BY <2>1, <2>2, <2>3, <2>5, <2>6, HandlingSound
  <2>8. Frees(o, n)
    BY <1>0, <1>1, <2>2, LoopTypes DEF Frees, Keeps
  <2> QED
    BY <2>g, <2>7, <2>8 DEF Moves, o
<1>6. CASE q.kind = "stream"
  BY <1>g, <1>5, <1>6, Zenon
<1>7. CASE q.kind \notin {"skip", "budget_skip", "network", "html", "error", "stream"}
  BY <1>g, <1>5, <1>7, Zenon
<1> QED
  BY <1>3, <1>4, <1>6, <1>7

(* handleActionError and handleUpstreamError.                              *)

(* A corrective retry leaves the loop Sound.                               *)
LEMMA CorrectiveSound ==
    ASSUME NEW q, Handled(q), Unreported(q)
    PROVE  Sound(corrective(q)) /\ corrective(q).held = 0
<1> DEFINE m == [q EXCEPT !.reason = "summarized", !.summarized = TRUE]
<1>1. q \in Loop /\ "summarized" \in Reasons /\ TRUE \in BOOLEAN
  BY DEF Handled, Running, Reasons
<1>2. Keeps(q, m, {})
  BY <1>1, Zenon DEF Keeps, Loop
<1>3. corrective(q) = afterOutcome(m, TRUE, q.reply.status)
  BY Zenon DEF corrective
<1> HIDE DEF m
<1>4. Handled(m) /\ Unreported(m)
  BY <1>2, HandledFrame DEF Keeps, Unreported
<1> QED
  BY <1>3, <1>4, AfterOutcomeSound

(* RequestFault leaves a Sound loop and takes no slot.                     *)
LEMMA RequestFaultMoves ==
    ASSUME NEW r \in Requests, Sound(req[r]), RequestFault(r)
    PROVE  Moves(r)
<1> DEFINE o == req[r]
           q == marked(o)
<1>0. o \in Loop /\ Sound(o) /\ o.pc = "error" /\ Handled(o)
  BY HandlingIsHandled DEF Sound, RequestFault, At, Handling
<1>1. Handled(q) /\ Unreported(q)
  BY <1>0, MarkedHandled
<1>2. \/ o.canceled /\ Goto(r, done([o EXCEPT !.attempt = @ + 1, !.last4xx = 0]))
      \/ Goto(r, corrective(q))
      \/ Goto(r, done(write(q, "upstream_error")))
      \/ Goto(r, corrective([q EXCEPT !.stripped = TRUE]))
  BY DEF RequestFault
<1> HIDE DEF q
<1>3. CASE o.canceled /\ Goto(r, done([o EXCEPT !.attempt = @ + 1, !.last4xx = 0]))
  <2> DEFINE m == [o EXCEPT !.attempt = o.attempt + 1, !.last4xx = 0]
             n == done(m)
  <2>g. Goto(r, n) /\ o.canceled
    BY <1>3 DEF Goto
  <2> HIDE DEF o
  <2>1. o.attempt + 1 \in Nat /\ 0 \in Int /\ "done" \in Places
    BY <1>0, LoopTypes DEF Places
  <2>2. Keeps(o, m, {"attempt", "last4xx"}) /\ m.attempt = o.attempt + 1
    BY <1>0, <2>1, Zenon DEF Keeps, Loop
  <2> HIDE DEF m
  <2>3. Keeps(m, n, {"pc", "held"}) /\ n.pc = "done" /\ n.held = 0
    BY <2>1, <2>2, SettledKeeps DEF done, Keeps
  <2> HIDE DEF n
  <2>4. Keeps(o, n, {"pc", "held", "attempt", "last4xx"}) /\ n.attempt = o.attempt + 1
    BY <2>2, <2>3 DEF Keeps
  <2>5. n \in Loop /\ Tracked(n)
    BY <1>0, <2>4, TrackedFrame DEF Keeps, Handled, Running
  <2>6. o.agent.maxRetries > 0 => o.attempt <= o.agent.maxRetries
    BY <1>0 DEF Sound, Patient, Handled, Running
  <2>7. n.agent.maxRetries > 0 => n.attempt <= n.agent.maxRetries + 1
    BY <1>0, <2>4, <2>6, LoopTypes DEF Keeps
  <2>8. /\ n.same <= maxSameTargetRetries(n) /\ n.canceled /\ n.answers = 0 /\ ~n.resuming
        /\ n.answer \notin {"relay", "provider_budget"} /\ n.resumes = 0
    BY <1>0, <2>g, <2>4 DEF Keeps, Handled, Running, maxSameTargetRetries
  <2>a. {o.idx, o.same, o.sent, Len(o.targets)} \subseteq Nat /\ StreamAttempts \in Nat \ {0}
    BY <1>0, LoopTypes
  <2>b. o.sent <= Len(o.targets) + o.same
    BY <1>0, <2>a DEF Handled
  <2>9. n.resumes < StreamAttempts /\ n.sent <= Len(n.targets) + n.same + (StreamAttempts - 1)
    BY <2>4, <2>8, <2>a, <2>b DEF Keeps
  <2>i. n.idx <= Len(n.targets) + 1
    BY <2>4 DEF Keeps, Sound, Budgeted, o
  <2>10. Sound(n)
    BY <2>3, <2>5, <2>7, <2>8, <2>9, <2>i, DoneSound
  <2> QED
    BY <2>g, <2>3, <2>10 DEF Moves, Frees
<1>4. CASE Goto(r, corrective(q))
  BY <1>1, <1>4, CorrectiveSound DEF Moves, Frees
<1>5. CASE Goto(r, done(write(q, "upstream_error")))
  <2>1. "upstream_error" \in Reports \ {"relay", "provider_budget"}
    BY DEF Reports
  <2> QED
    BY <1>1, <1>5, <2>1, AnswerSound DEF Moves, Frees
<1>6. CASE Goto(r, corrective([q EXCEPT !.stripped = TRUE]))
  <2> DEFINE m == [q EXCEPT !.stripped = TRUE]
  <2>1. q \in Loop /\ TRUE \in BOOLEAN
    BY <1>1 DEF Handled, Running
  <2>2. Keeps(q, m, {})
    BY <2>1, Zenon DEF Keeps, Loop
  <2>g. Goto(r, corrective(m))
    BY <1>6
  <2> HIDE DEF m
  <2>3. Handled(m) /\ Unreported(m)
    BY <1>1, <2>2, HandledFrame DEF Keeps, Unreported
  <2> QED
    BY <2>g, <2>3, CorrectiveSound DEF Moves, Frees
<1> QED
  BY <1>2, <1>3, <1>4, <1>5, <1>6

(* ForceCooldown leaves a Sound loop and takes no slot.                    *)
LEMMA ForceCooldownMoves ==
    ASSUME NEW r \in Requests, Sound(req[r]), ForceCooldown(r)
    PROVE  Moves(r)
<1> DEFINE o == req[r]
           q == marked(o)
           n == [q EXCEPT !.pc = "cooled"]
<1>0. o \in Loop /\ Sound(o) /\ o.pc = "error" /\ Goto(r, n)
  BY DEF Sound, ForceCooldown, At
<1>1. /\ Handled(q) /\ Unreported(q) /\ q.held <= 1 /\ q.reached /\ q.last = "error"
      /\ q.held = o.held /\ q.idx = o.idx /\ q.targets = o.targets
  BY <1>0, MarkedHandled
<1>2. q.last4xx = 0
  <2>1. o.idx <= Len(o.targets)
    BY <1>1 DEF Handled
  <2> QED
    BY <1>0, <2>1, MarkedKeeps
<1> HIDE DEF q, o
<1>3. q \in Loop /\ "cooled" \in Places /\ "cooled" \in Handling
  BY <1>1 DEF Handled, Running, Places, Handling
<1>4. Keeps(q, n, {"pc"}) /\ n.pc = "cooled"
  BY <1>3, Zenon DEF Keeps, Loop
<1> HIDE DEF n
<1>5. Handled(n) /\ n.reached /\ n.last = "error" /\ n.last4xx = 0 /\ n.held <= 1
  BY <1>1, <1>2, <1>4, HandledFrame DEF Keeps
<1>6. Reported(n)
  BY <1>4, <1>5 DEF Reported, Handled, Running, Sending
<1>7. Sound(n)
  BY <1>3, <1>4, <1>5, <1>6, HandlingSound
<1>8. Frees(o, n)
  BY <1>0, <1>1, <1>4, LoopTypes DEF Frees, Keeps
<1> QED
  BY <1>0, <1>7, <1>8 DEF Moves, o

(* RateLimited leaves a Sound loop and takes no slot.                      *)
LEMMA RateLimitedMoves ==
    ASSUME NEW r \in Requests, Sound(req[r]), RateLimited(r)
    PROVE  Moves(r)
<1>1. Handled(req[r]) /\ Goto(r, backoff(req[r], TRUE, has(req[r], "quota"))) /\ req[r].pc = "cooled"
  BY HandlingIsHandled DEF RateLimited, At, Handling
<1>2. req[r].held <= 1 /\ req[r].reached /\ req[r].last = "error"
  BY <1>1 DEF Sound, Slotted, Reported, Handling
<1> QED
  BY <1>1, <1>2, BackoffSound DEF Moves

(* handleUpstreamError leaves a Sound loop and takes no slot.              *)
LEMMA handleUpstreamErrorMoves ==
    ASSUME NEW r \in Requests, Sound(req[r]), handleUpstreamError(r)
    PROVE  Moves(r)
<1> DEFINE o == req[r]
           q == marked(o)
<1>0. o \in Loop /\ Sound(o) /\ o.pc = "error"
  BY DEF Sound, handleUpstreamError, At
<1>1. /\ Handled(q) /\ Unreported(q) /\ q.held <= 1 /\ q.reached /\ q.last = "error"
      /\ q.held = o.held /\ q.idx = o.idx /\ q.targets = o.targets
  BY <1>0, MarkedHandled
<1>2. \/ \E retryable, isQuota \in BOOLEAN : Goto(r, backoff(q, retryable, isQuota))
      \/ Goto(r, done(write(q, "upstream_error")))
  <2>1. has(q, "quota") \in BOOLEAN /\ has(q, "adapter_quota") \in BOOLEAN
    BY DEF has
  <2>2. \/ Goto(r, backoff(q, TRUE, FALSE)) \/ Goto(r, backoff(q, FALSE, FALSE))
        \/ Goto(r, backoff(q, TRUE, has(q, "quota")))
        \/ Goto(r, backoff(q, TRUE, has(q, "adapter_quota")))
        \/ Goto(r, done(write(q, "upstream_error")))
    BY DEF handleUpstreamError
  <2> HIDE DEF q
  <2> QED
    BY <2>1, <2>2
<1> HIDE DEF q
<1>3. CASE \E retryable, isQuota \in BOOLEAN : Goto(r, backoff(q, retryable, isQuota))
  <2>1. PICK retryable \in BOOLEAN, isQuota \in BOOLEAN : Goto(r, backoff(q, retryable, isQuota))
    BY <1>3
  <2> DEFINE n == backoff(q, retryable, isQuota)
  <2>2. Sound(n) /\ Frees(q, n) /\ Goto(r, n)
    BY <1>1, <2>1, BackoffSound
  <2> HIDE DEF n
  <2>3. Frees(o, n)
    BY <1>1, <2>2 DEF Frees
  <2> QED
    BY <2>2, <2>3 DEF Moves
<1>4. CASE Goto(r, done(write(q, "upstream_error")))
  <2>1. "upstream_error" \in Reports \ {"relay", "provider_budget"}
    BY DEF Reports
  <2> QED
    BY <1>1, <1>4, <2>1, AnswerSound DEF Moves, Frees
<1> QED
  BY <1>2, <1>3, <1>4

(* Backoff leaves a Sound loop and takes no slot.                          *)
LEMMA BackoffMoves ==
    ASSUME NEW r \in Requests, Sound(req[r]), Backoff(r)
    PROVE  Moves(r)
<1>1. Handled(req[r]) /\ req[r].pc = "backoff"
      /\ Goto(r, afterOutcome(req[r], req[r].kind = "retry", req[r].reply.status))
  BY HandlingIsHandled DEF Backoff, At, Handling
<1>2. Unreported(req[r])
  BY <1>1 DEF Sound, Reported
<1> QED
  BY <1>1, <1>2, AfterOutcomeSound DEF Moves, Frees

(* The response, the stream and its continuation.                          *)

(* Response leaves a Sound loop and takes no slot.                         *)
LEMMA ResponseMoves ==
    ASSUME NEW r \in Requests, Sound(req[r]), Response(r)
    PROVE  Moves(r)
<1> DEFINE q == req[r]
<1>0. Handled(q) /\ q.pc = "response"
  BY HandlingIsHandled DEF Response, At, Handling
<1>1. Unreported(q)
  BY <1>0 DEF Sound, Reported, Unreported
<1>2. \/ Goto(r, afterOutcome(q, TRUE, 0))
      \/ \E what \in {"served", "read_error", "blocked"} : Goto(r, done(write(q, what)))
  BY Zenon DEF Response
<1> HIDE DEF q
<1>3. CASE Goto(r, afterOutcome(q, TRUE, 0))
  BY <1>0, <1>1, <1>3, AfterOutcomeSound DEF Moves, Frees
<1>4. ASSUME NEW what \in {"served", "read_error", "blocked"}, Goto(r, done(write(q, what)))
      PROVE  Moves(r)
  <2>1. what \in Reports \ {"relay", "provider_budget"}
    BY DEF Reports
  <2> QED
    BY <1>0, <1>4, <2>1, AnswerSound DEF Moves, Frees
<1> QED
  BY <1>2, <1>3, <1>4

(* StreamHead leaves a Sound loop and takes no slot.                       *)
LEMMA StreamHeadMoves ==
    ASSUME NEW r \in Requests, Sound(req[r]), StreamHead(r)
    PROVE  Moves(r)
<1> DEFINE q == req[r]
<1>0. Handled(q) /\ q.pc = "head" /\ Sound(q) /\ q \in Loop
  BY HandlingIsHandled DEF StreamHead, At, Handling, Sound
<1>1. Unreported(q) /\ Live(q) /\ q.held <= 1
  BY <1>0, SoundIsLive DEF Sound, Reported, Unreported, Slotted, Handling
<1>2. \/ Goto(r, [write(q, "stream") EXCEPT !.pc = "copying"])
      \/ \E why \in {"stream", "policy"} : Goto(r, afterOutcome([q EXCEPT !.reason = why], TRUE, 0))
  BY Zenon DEF StreamHead
<1>3. CASE Goto(r, [write(q, "stream") EXCEPT !.pc = "copying"])
  <2> DEFINE m == write(q, "stream")
             n == [m EXCEPT !.pc = "copying"]
  <2>g. Goto(r, n)
    BY <1>3
  <2> HIDE DEF q
  <2>1. "stream" \in Reports /\ "copying" \in Places /\ "copying" \in Streaming
    BY DEF Reports, Places, Streaming
  <2>2. Keeps(q, m, {"answers", "answer"}) /\ m.answers = q.answers + 1 /\ m.answer = "stream"
    BY <1>0, <2>1, WriteKeeps
  <2> HIDE DEF m
  <2>3. Keeps(m, n, {"pc"}) /\ n.pc = "copying"
    BY <2>1, <2>2, Zenon DEF Keeps, Loop
  <2> HIDE DEF n
  <2>4. Keeps(q, n, {"pc", "answers", "answer"}) /\ n.answers = 1 /\ n.answer = "stream"
    BY <1>0, <2>2, <2>3 DEF Keeps, Handled, Running
  <2>5. Tracked(n)
    BY <1>1, <2>4, TrackedFrame DEF Keeps, Live
  <2>6. Live(n)
    BY <1>1, <2>4, <2>5 DEF Keeps, Live, maxSameTargetRetries
  <2>7. ~n.resuming /\ n.resumes = 0 /\ n.held <= 1 /\ n.sent <= n.idx + n.same
    BY <1>0, <1>1, <2>4 DEF Keeps, Handled, Running
  <2>8. n.sent <= n.idx + n.same + n.resumes
    BY <2>6, <2>7, LoopTypes DEF Live
  <2>9. Sound(n)
    BY <2>1, <2>3, <2>4, <2>6, <2>7, <2>8, StreamingSound
  <2>10. Frees(q, n)
    BY <1>0, <2>4, LoopTypes DEF Keeps, Frees
  <2> QED
    BY <2>g, <2>9, <2>10 DEF Moves, q
<1>4. ASSUME NEW why \in {"stream", "policy"}, Goto(r, afterOutcome([q EXCEPT !.reason = why], TRUE, 0))
      PROVE  Moves(r)
  <2> DEFINE m == [q EXCEPT !.reason = why]
  <2>g. Goto(r, afterOutcome(m, TRUE, 0))
    BY <1>4
  <2> HIDE DEF q
  <2>1. why \in Reasons
    BY DEF Reasons
  <2>2. Keeps(q, m, {})
    BY <1>0, <2>1, Zenon DEF Keeps, Loop
  <2> HIDE DEF m
  <2>3. Handled(m) /\ Unreported(m)
    BY <1>0, <1>1, <2>2, HandledFrame DEF Keeps, Unreported
  <2> QED
    BY <2>g, <2>3, AfterOutcomeSound DEF Moves, Frees
<1> QED
  BY <1>2, <1>3, <1>4

(* What a stream under copy is.                                            *)
LEMMA CopyingIs ==
    ASSUME NEW q, Sound(q), q.pc = "copying"
    PROVE  /\ Live(q) /\ ~q.resuming /\ q.answers = 1 /\ q.held <= 1
           /\ q.sent <= q.idx + q.same + q.resumes
<1>1. q.pc \in Streaming
  BY DEF Streaming
<1> QED
  BY <1>1, SoundIsLive DEF Sound, Answered, Budgeted, Slotted

(* StreamErrorEvent leaves a Sound loop and takes no slot.                 *)
LEMMA StreamErrorEventMoves ==
    ASSUME NEW r \in Requests, Sound(req[r]), StreamErrorEvent(r)
    PROVE  Moves(r)
<1> DEFINE q == req[r]
           n == [q EXCEPT !.seen = TRUE]
<1>0. q \in Loop /\ Sound(q) /\ q.pc = "copying" /\ Goto(r, n) /\ TRUE \in BOOLEAN
  BY DEF StreamErrorEvent, At, Sound
<1> HIDE DEF q
<1>1. Keeps(q, n, {"seen"})
  BY <1>0, Zenon DEF Keeps, Loop
<1> HIDE DEF n
<1>2. Live(q) /\ ~q.resuming /\ q.answers = 1 /\ q.held <= 1 /\ q.sent <= q.idx + q.same + q.resumes
  BY <1>0, CopyingIs
<1>3. Live(n)
  BY <1>1, <1>2, LiveFrame DEF Keeps, Live
<1>4. Sound(n)
  BY <1>0, <1>1, <1>2, <1>3, StreamingSound DEF Keeps, Streaming
<1>5. Frees(q, n)
  BY <1>0, <1>1, LoopTypes DEF Keeps, Frees
<1> QED
  BY <1>0, <1>4, <1>5 DEF Moves, q

(* A stream that ends ends the loop.                                       *)
LEMMA StreamEnds ==
    ASSUME NEW r \in Requests, Sound(req[r]), req[r].pc \in Streaming, Goto(r, done(req[r]))
    PROVE  Moves(r)
  BY StreamDoneSound DEF Moves, Frees

(* StreamCut leaves a Sound loop and takes no slot.                        *)
LEMMA StreamCutMoves ==
    ASSUME NEW r \in Requests, Sound(req[r]), StreamCut(r)
    PROVE  Moves(r)
<1>1. CASE Goto(r, done(req[r]))
  BY <1>1, StreamEnds DEF StreamCut, At, Streaming
<1>2. CASE Goto(r, [req[r] EXCEPT !.pc = "guards", !.resuming = TRUE])
  <2> DEFINE q == req[r]
             n == [q EXCEPT !.pc = "guards", !.resuming = TRUE]
  <2>0. q \in Loop /\ Sound(q) /\ q.pc = "copying" /\ Goto(r, n) /\ mayResume(q)
        /\ TRUE \in BOOLEAN /\ "guards" \in Places /\ "guards" \in Sending
    BY <1>2 DEF StreamCut, At, Sound, Places, Sending
  <2> HIDE DEF q
  <2>1. Keeps(q, n, {"pc", "resuming"}) /\ n.pc = "guards" /\ n.resuming
    BY <2>0, Zenon DEF Keeps, Loop
  <2> HIDE DEF n
  <2>2. Live(q) /\ q.answers = 1 /\ q.held <= 1 /\ q.sent <= q.idx + q.same + q.resumes
    BY <2>0, CopyingIs
  <2>3. Tracked(n)
    BY <2>1, <2>2, TrackedFrame DEF Keeps, Live
  <2>4. Live(n)
    BY <2>0, <2>1, <2>2, <2>3 DEF Keeps, Live, maxSameTargetRetries, mayResume
  <2>5. Slotted(n)
    BY <2>1, <2>2, <2>4 DEF Slotted, Keeps, Live, Handling
  <2>6. Sound(n)
    BY <2>0, <2>1, <2>2, <2>4, <2>5, SendingSound DEF Keeps
  <2>7. Frees(q, n)
    BY <2>0, <2>1, LoopTypes DEF Keeps, Frees
  <2> QED
    BY <2>0, <2>6, <2>7 DEF Moves, q
<1> QED
  BY <1>1, <1>2 DEF StreamCut

(* resolveRedispatchOutcome leaves a Sound loop and takes no slot.         *)
LEMMA resolveRedispatchOutcomeMoves ==
    ASSUME NEW r \in Requests, Sound(req[r]), resolveRedispatchOutcome(r)
    PROVE  Moves(r)
<1> DEFINE q == req[r]
<1>0. q \in Loop /\ Sound(q) /\ q.pc = "resumed" /\ q.pc \in Streaming /\ Live(q)
  BY SoundIsLive DEF resolveRedispatchOutcome, At, Sound, Streaming
<1>1. /\ q.resuming /\ q.answers = 1 /\ q.sent <= q.idx + q.same + q.resumes + 1
      /\ q.resumes + 1 < StreamAttempts /\ (q.kind = "stream" => q.held > 0)
  BY <1>0 DEF Sound, Answered, Budgeted, Slotted
<1>t. {q.idx, q.same, q.sent, q.resumes, q.held} \subseteq Nat
  BY <1>0, LoopTypes
<1>2. CASE Goto(r, [q EXCEPT !.pc = "gave_up"])
  <2> DEFINE n == [q EXCEPT !.pc = "gave_up"]
  <2>g. Goto(r, n)
    BY <1>2
  <2> HIDE DEF q
  <2>1. "gave_up" \in Places /\ "gave_up" \in Streaming
    BY DEF Places, Streaming
  <2>2. Keeps(q, n, {"pc"}) /\ n.pc = "gave_up"
    BY <1>0, <2>1, Zenon DEF Keeps, Loop
  <2> HIDE DEF n
  <2>3. Live(n)
    BY <1>0, <2>2, LiveFrame DEF Keeps, Live
  <2>4. Sound(n)
    BY <1>1, <2>1, <2>2, <2>3, StreamingSound DEF Keeps
  <2>5. Frees(q, n)
    BY <1>t, <2>2 DEF Keeps, Frees
  <2> QED
    BY <2>g, <2>4, <2>5 DEF Moves, q
<1>3. CASE q.kind = "stream" /\ Goto(r, [q EXCEPT !.pc = "copying", !.resuming = FALSE,
                                                 !.resumes = @ + 1, !.held = 1])
  <2> DEFINE n == [q EXCEPT !.pc = "copying", !.resuming = FALSE, !.resumes = q.resumes + 1, !.held = 1]
  <2>g. Goto(r, n) /\ q.kind = "stream"
    BY <1>3 DEF Goto
  <2> HIDE DEF q
  <2>1. "copying" \in Places /\ "copying" \in Streaming /\ FALSE \in BOOLEAN /\ 1 \in Nat /\ q.resumes + 1 \in Nat
    BY <1>t DEF Places, Streaming
  <2>2. /\ Keeps(q, n, {"pc", "resuming", "resumes", "held"})
        /\ n.pc = "copying" /\ n.resuming = FALSE /\ n.resumes = q.resumes + 1 /\ n.held = 1
    BY <1>0, <2>1, Zenon DEF Keeps, Loop
  <2> HIDE DEF n
  <2>3. Tracked(n)
    BY <1>0, <2>2, TrackedFrame DEF Keeps, Live
  <2>4. Live(n)
    BY <1>0, <1>1, <2>2, <2>3 DEF Keeps, Live, maxSameTargetRetries
  <2>5. n.sent <= n.idx + n.same + n.resumes
    BY <1>1, <1>t, <2>2 DEF Keeps
  <2>6. Sound(n)
    BY <1>1, <2>1, <2>2, <2>4, <2>5, StreamingSound DEF Keeps
  <2>7. Frees(q, n)
    BY <1>1, <1>t, <2>g, <2>2 DEF Keeps, Frees
  <2> QED
    BY <2>g, <2>6, <2>7 DEF Moves, q
<1> QED
  BY <1>2, <1>3, Zenon DEF resolveRedispatchOutcome

(* Exhausted leaves a Sound loop and takes no slot.                        *)
LEMMA ExhaustedMoves ==
    ASSUME NEW r \in Requests, Sound(req[r]), Exhausted(r)
    PROVE  Moves(r)
<1> DEFINE q == req[r]
           m == IF q.canceled THEN q ELSE write(q, report(q))
           n == done(m)
<1>0. q \in Loop /\ Sound(q) /\ q.pc = "exhausted" /\ Goto(r, n) /\ "done" \in Places
  BY DEF Exhausted, At, Sound, Places
<1> HIDE DEF q
<1>1. /\ q.answers = 0 /\ ~q.resuming /\ Tracked(q) /\ q.same <= maxSameTargetRetries(q)
      /\ q.agent.maxRetries > 0 => q.attempt <= q.agent.maxRetries + 1
      /\ q.answer \notin {"relay", "provider_budget"} /\ q.resumes < StreamAttempts
      /\ q.sent <= Len(q.targets) + q.same + (StreamAttempts - 1)
      /\ ~q.canceled => Unreported(q)
  BY <1>0 DEF Sound, Answered, Budgeted, Patient, Reported, Covered
<1>2. /\ report(q) \in Reports
      /\ report(q) = "relay" => q.last4xx # 0
      /\ report(q) = "provider_budget" => ~q.reached
  BY DEF report, Reports
<1>3. /\ Keeps(q, m, {"answers", "answer"})
      /\ q.canceled => m = q
      /\ ~q.canceled => m.answers = 1 /\ m.answer = report(q)
  <2>1. CASE q.canceled
    BY <1>0, <2>1 DEF Keeps
  <2>2. CASE ~q.canceled
    <3>1. m = write(q, report(q))
      BY <2>2
    <3> QED
      BY <1>0, <1>1, <1>2, <2>2, <3>1, WriteKeeps
  <2> QED
    BY <2>1, <2>2
<1> HIDE DEF m
<1>4. Keeps(m, n, {"pc", "held"}) /\ n.pc = "done" /\ n.held = 0
  BY <1>0, <1>3, SettledKeeps DEF Keeps, done
<1> HIDE DEF n
<1>5. /\ Keeps(q, n, {"pc", "held", "answers", "answer"})
      /\ q.canceled => n.answers = 0 /\ n.answer = q.answer
      /\ ~q.canceled => n.answers = 1 /\ n.answer = report(q)
  BY <1>1, <1>3, <1>4 DEF Keeps
<1>6. n \in Loop /\ Tracked(n)
  BY <1>1, <1>5, TrackedFrame DEF Keeps
<1>7. n.answers <= 1 /\ (n.canceled \/ n.answers = 1)
  BY <1>5 DEF Keeps
<1>8. /\ n.answer = "relay" => n.last = "error" /\ n.last4xx = n.reply.status
      /\ n.answer = "provider_budget" => n.sent = 0
  BY <1>1, <1>2, <1>5 DEF Keeps, Unreported
<1>9. /\ n.same <= maxSameTargetRetries(n) /\ ~n.resuming /\ n.resumes < StreamAttempts
      /\ n.agent.maxRetries > 0 => n.attempt <= n.agent.maxRetries + 1
      /\ n.sent <= Len(n.targets) + n.same + (StreamAttempts - 1)
  BY <1>1, <1>5 DEF Keeps, maxSameTargetRetries
<1>i. n.idx <= Len(n.targets) + 1
  BY <1>0, <1>5 DEF Keeps, Sound, Budgeted
<1>10. Sound(n)
  BY <1>4, <1>6, <1>7, <1>8, <1>9, <1>i, DoneSound
<1> QED
  BY <1>0, <1>4, <1>10 DEF Moves, Frees

(* Acquire is the one step that takes a slot.                              *)
LEMMA AcquireSound ==
    ASSUME NEW r \in Requests, Sound(req[r]), Acquire(r)
    PROVE  LET n == [req[r] EXCEPT !.pc = "sending", !.held = req[r].held + 1]
           IN  /\ Goto(r, n) /\ Sound(n) /\ n.held = req[r].held + 1
               /\ n.idx = req[r].idx /\ n.targets = req[r].targets
<1> DEFINE q == req[r]
           n == [q EXCEPT !.pc = "sending", !.held = q.held + 1]
<1>0. q \in Loop /\ Sound(q) /\ q.pc = "queued" /\ Goto(r, n) /\ q.pc \in Sending
      /\ "sending" \in Sending /\ "sending" \in Places
  BY DEF Acquire, At, Goto, Sound, Sending, Places
<1> HIDE DEF q
<1>1. q.held + 1 \in Nat /\ q.held \in Nat
  BY <1>0, LoopTypes
<1>2. Keeps(q, n, {"pc", "held"}) /\ n.pc = "sending" /\ n.held = q.held + 1
  BY <1>0, <1>1, Zenon DEF Keeps, Loop
<1> HIDE DEF n
<1>3. q.held <= IF q.resuming THEN 1 ELSE 0
  BY <1>0 DEF Sound, Slotted
<1>4. Slotted(n)
  BY <1>1, <1>2, <1>3 DEF Slotted, Keeps, Handling
<1>5. Live(n)
  BY <1>0, <1>2, <1>4, SoundIsLive, LiveFrame DEF Keeps, Slotted
<1>6. n.answers = IF n.resuming THEN 1 ELSE 0
  BY <1>0, <1>2 DEF Sound, Answered, Keeps
<1>7. n.sent <= n.idx + n.same + (IF n.resuming THEN n.resumes ELSE n.resumes - 1)
  BY <1>0, <1>2 DEF Sound, Budgeted, Keeps
<1>8. ~n.resuming => n.resumes = 0 /\ Unreported(n)
  BY <1>0, <1>2 DEF Sound, Budgeted, Reported, Unreported, Keeps
<1>9. ~n.resuming /\ n.agent.maxRetries > 0 => n.attempt <= n.agent.maxRetries
  BY <1>0, <1>2 DEF Sound, Patient, Keeps
<1>10. Sound(n)
  BY <1>0, <1>2, <1>4, <1>5, <1>6, <1>7, <1>8, <1>9, SendingSound
<1> QED
  BY <1>0, <1>2, <1>10 DEF Keeps, q, n

(* Every step of a request but Acquire.                                    *)
LEMMA StepMoves ==
    ASSUME NEW r \in Requests, Sound(req[r]), Start(r) \/ Cancel(r) \/ Step(r), ~Acquire(r)
    PROVE  Moves(r)
<1>1. CASE Start(r) \/ Cancel(r) \/ Sweep(r)
  BY <1>1, StartMoves, CancelMoves, SweepMoves
<1>2. CASE prepareAndSend(r)
  BY <1>2, GuardSkipMoves, breakerGateMoves, providerBudgetGateMoves, AcquireCanceledMoves,
     NetworkErrorMoves, UpstreamErrorMoves, handleUpstreamResponseMoves DEF prepareAndSend
<1>3. CASE ReturnedCanceled(r) \/ handleActionResult(r) \/ RequestFault(r) \/ ForceCooldown(r)
           \/ RateLimited(r) \/ handleUpstreamError(r) \/ Backoff(r)
  BY <1>3, ReturnedCanceledMoves, handleActionResultMoves, RequestFaultMoves, ForceCooldownMoves,
     RateLimitedMoves, handleUpstreamErrorMoves, BackoffMoves
<1>4. CASE handleStreamDone(r) \/ GaveUp(r)
  BY <1>4, StreamEnds DEF handleStreamDone, GaveUp, At, Streaming
<1>5. CASE Response(r) \/ StreamHead(r) \/ StreamErrorEvent(r) \/ StreamCut(r)
           \/ resolveRedispatchOutcome(r) \/ Exhausted(r)
  BY <1>5, ResponseMoves, StreamHeadMoves, StreamErrorEventMoves, StreamCutMoves,
     resolveRedispatchOutcomeMoves, ExhaustedMoves
<1> QED
  BY <1>1, <1>2, <1>3, <1>4, <1>5 DEF Step

-----------------------------------------------------------------------------
(* The slots of a model over all requests.                                 *)

SlotsBounded ==
    ConcLimit > 0 => \A i \in DOMAIN Chain : Cardinality(SlotsOf(Chain[i].model)) <= ConcLimit

Inv == LoopInv /\ SlotsBounded

(* The slots of a model are finitely many.                                 *)
LEMMA SlotsFinite ==
    ASSUME NEW m
    PROVE  IsFiniteSet(SlotsOf(m)) /\ Cardinality(SlotsOf(m)) \in Nat
<1>1. IsFiniteSet({1, 2})
  <2>1. 1..2 = {1, 2} /\ 1 \in Int /\ 2 \in Int
    OBVIOUS
  <2>2. IsFiniteSet(1..2)
    BY <2>1, FS_Interval
  <2> QED
    BY <2>1, <2>2, Zenon
<1>2. IsFiniteSet(Requests \X {1, 2})
  BY <1>1, FS_Product, DispatchAssumption
<1>3. SlotsOf(m) \subseteq Requests \X {1, 2}
  BY DEF SlotsOf
<1>4. IsFiniteSet(SlotsOf(m))
  BY <1>2, <1>3, FS_Subset
<1> QED
  BY <1>4, FS_CardinalityType

(* A step that takes no slot keeps the invariant.                          *)
LEMMA MovesKeeps ==
    ASSUME NEW r \in Requests, Inv, Moves(r)
    PROVE  Inv'
<1>1. PICK n : Goto(r, n) /\ Sound(n) /\ Frees(req[r], n)
  BY DEF Moves
<1>2. req' = [req EXCEPT ![r] = n] /\ req \in [Requests -> Loop] /\ n \in Loop
  BY <1>1 DEF Goto, Inv, LoopInv, Sound
<1>3. req' \in [Requests -> Loop] /\ req'[r] = n /\ \A s \in Requests \ {r} : req'[s] = req[s]
  BY <1>2
<1>4. LoopInv'
  BY <1>1, <1>3 DEF Inv, LoopInv
<1>5. ASSUME NEW m PROVE SlotsOf(m)' \subseteq SlotsOf(m)
  <2>1. SUFFICES ASSUME NEW s \in Requests, NEW j \in {1, 2}, j <= req'[s].held,
                        req'[s].targets[req'[s].idx].model = m
                 PROVE  j <= req[s].held /\ req[s].targets[req[s].idx].model = m
    BY DEF SlotsOf, Target
  <2>2. CASE s = r
    <3>1. req[r].held \in Nat /\ n.held \in Nat
      BY <1>2, LoopTypes
    <3> QED
      BY <1>1, <1>3, <2>1, <2>2, <3>1 DEF Frees
  <2>3. CASE s # r
    BY <1>3, <2>1, <2>3
  <2> QED
    BY <2>2, <2>3
<1>6. SlotsBounded'
  <2>1. SUFFICES ASSUME ConcLimit > 0, NEW i \in DOMAIN Chain
                 PROVE  Cardinality(SlotsOf(Chain[i].model)') <= ConcLimit
    BY DEF SlotsBounded
  <2> DEFINE old == SlotsOf(Chain[i].model)
  <2>2. old' \subseteq old
    BY <1>5
  <2>3. Cardinality(old) <= ConcLimit
    BY <2>1 DEF Inv, SlotsBounded
  <2>4. IsFiniteSet(old) /\ Cardinality(old) \in Nat
    BY SlotsFinite
  <2> HIDE DEF old
  <2>5. IsFiniteSet(old') /\ Cardinality(old') <= Cardinality(old) /\ Cardinality(old') \in Nat
    BY <2>2, <2>4, FS_Subset, FS_CardinalityType
  <2>6. Cardinality(old') <= ConcLimit
    BY <2>3, <2>4, <2>5, DispatchAssumption
  <2> QED
    BY <2>6 DEF old
<1> QED
  BY <1>4, <1>6 DEF Inv

(* Acquire takes a slot only where one is free.                            *)
LEMMA AcquireKeeps ==
    ASSUME NEW r \in Requests, Inv, Acquire(r)
    PROVE  Inv'
<1> DEFINE n == [req[r] EXCEPT !.pc = "sending", !.held = req[r].held + 1]
<1>1. /\ Goto(r, n) /\ Sound(n) /\ n.held = req[r].held + 1
      /\ n.idx = req[r].idx /\ n.targets = req[r].targets
  BY AcquireSound DEF Inv, LoopInv
<1> HIDE DEF n
<1>2. req' = [req EXCEPT ![r] = n] /\ req \in [Requests -> Loop] /\ n \in Loop
  BY <1>1 DEF Goto, Inv, LoopInv, Sound
<1>3. req' \in [Requests -> Loop] /\ req'[r] = n /\ \A s \in Requests \ {r} : req'[s] = req[s]
  BY <1>2
<1>4. LoopInv'
  BY <1>1, <1>3 DEF Inv, LoopInv
<1>h. req[r].held \in Nat
  BY <1>2, LoopTypes
<1> DEFINE here == Target(r).model
           slot == <<r, req[r].held + 1>>
<1>5. ASSUME NEW m, NEW x \in SlotsOf(m)' PROVE x \in SlotsOf(m) \/ (m = here /\ x = slot)
  <2>1. PICK s \in Requests, j \in {1, 2} :
            x = <<s, j>> /\ j <= req'[s].held /\ req'[s].targets[req'[s].idx].model = m
    BY <1>5 DEF SlotsOf, Target
  <2>2. CASE s = r
    <3>1. j <= req[r].held + 1 /\ here = m
      BY <1>1, <1>3, <2>1, <2>2 DEF Target
    <3>2. j <= req[r].held \/ j = req[r].held + 1
      BY <1>h, <3>1
    <3> QED
      BY <2>1, <2>2, <3>1, <3>2 DEF SlotsOf
  <2>3. CASE s # r
    BY <1>3, <2>1, <2>3 DEF SlotsOf, Target
  <2> QED
    BY <2>2, <2>3
<1>6. SlotsBounded'
  <2>1. SUFFICES ASSUME ConcLimit > 0, NEW i \in DOMAIN Chain
                 PROVE  Cardinality(SlotsOf(Chain[i].model)') <= ConcLimit
    BY DEF SlotsBounded
  <2>2. PICK old : old = SlotsOf(Chain[i].model)
    OBVIOUS
  <2>3. PICK new : new = SlotsOf(Chain[i].model)'
    OBVIOUS
  <2>c. ConcLimit \in Nat
    BY DispatchAssumption
  <2>4. IsFiniteSet(old) /\ Cardinality(old) \in Nat
    BY <2>2, SlotsFinite
  <2>5. CASE Chain[i].model # here
    <3>1. new \subseteq old
      BY <1>5, <2>2, <2>3, <2>5
    <3>2. Cardinality(old) <= ConcLimit
      BY <2>1, <2>2 DEF Inv, SlotsBounded
    <3>3. Cardinality(new) <= Cardinality(old) /\ Cardinality(new) \in Nat
      BY <2>4, <3>1, FS_Subset, FS_CardinalityType
    <3>4. Cardinality(new) <= ConcLimit
      BY <2>c, <2>4, <3>2, <3>3
    <3> QED
      BY <2>3, <3>4
  <2>6. CASE Chain[i].model = here
    <3>1. new \subseteq old \cup {slot}
      BY <1>5, <2>2, <2>3
    <3>2. Cardinality(old) < ConcLimit
      BY <2>1, <2>2, <2>6 DEF Acquire
    <3> HIDE DEF slot
    <3>3. IsFiniteSet(old \cup {slot}) /\ Cardinality(old \cup {slot}) \in {Cardinality(old), Cardinality(old) + 1}
      BY <2>4, FS_AddElement
    <3>4. Cardinality(new) <= Cardinality(old \cup {slot}) /\ Cardinality(new) \in Nat
      BY <3>1, <3>3, FS_Subset, FS_CardinalityType
    <3>5. Cardinality(new) <= ConcLimit
      BY <2>c, <2>4, <3>2, <3>3, <3>4
    <3> QED
      BY <2>3, <3>5
  <2> QED
    BY <2>5, <2>6
<1> QED
  BY <1>4, <1>6 DEF Inv

(* No request holds a slot at the start.                                   *)
LEMMA InitInv == DInit => Inv
<1> SUFFICES ASSUME DInit PROVE Inv
  OBVIOUS
<1>1. Idle \in Loop /\ Idle.held = 0 /\ Sound(Idle)
  <2>1. Idle.pc = "idle"
    BY IdleSound DEF Idle, newRetryLoop
  <2> QED
    BY <2>1, IdleSound DEF Sound, Slotted
<1>2. req = [r \in Requests |-> Idle]
  BY DEF DInit
<1> HIDE DEF Idle
<1>3. LoopInv
  BY <1>1, <1>2 DEF LoopInv
<1>4. ASSUME NEW m PROVE SlotsOf(m) = {}
  BY <1>1, <1>2 DEF SlotsOf
<1>5. SlotsBounded
  <2>1. \A i \in DOMAIN Chain : Cardinality(SlotsOf(Chain[i].model)) = 0
    BY <1>4, FS_EmptySet
  <2> QED
    BY <2>1, DispatchAssumption DEF SlotsBounded
<1> QED
  BY <1>3, <1>5 DEF Inv

(* Every step keeps the invariant.                                         *)
LEMMA NextInv == Inv /\ [DNext]_dvars => Inv'
<1> SUFFICES ASSUME Inv, [DNext]_dvars PROVE Inv'
  OBVIOUS
<1>1. CASE UNCHANGED req
  BY <1>1 DEF Inv, LoopInv, SlotsBounded, SlotsOf, Target
<1>2. ASSUME NEW r \in Requests, Start(r) \/ Cancel(r) \/ Step(r)
      PROVE  Inv'
  <2>1. Sound(req[r])
    BY DEF Inv, LoopInv
  <2>2. CASE Acquire(r)
    BY <2>2, AcquireKeeps
  <2>3. CASE ~Acquire(r)
    BY <1>2, <2>1, <2>3, StepMoves, MovesKeeps
  <2> QED
    BY <2>2, <2>3
<1> QED
  BY <1>1, <1>2 DEF DNext, dvars

(* The inductive invariant of the dispatch loop.                           *)
THEOREM LoopInvariance == DSpec => []Inv
  BY InitInv, NextInv, PTL DEF DSpec

(* retry.go, stream.go: whatever the upstream, the breaker, the limits and *)
(* the client do, a request is answered at most once, and exactly once if  *)
(* its client stayed.                                                      *)
THEOREM OneAnswer == DSpec => []AnsweredOnce
<1>1. ASSUME Inv PROVE AnsweredOnce
  <2>1. SUFFICES ASSUME NEW r \in Requests
                 PROVE  /\ req[r].answers <= 1
                        /\ req[r].pc = "done" /\ ~req[r].canceled => req[r].answers = 1
    BY DEF AnsweredOnce, At
  <2>2. Sound(req[r]) /\ req[r].pc \in Places
    BY <1>1 DEF Inv, LoopInv, Sound, Loop
  <2> QED
    BY <2>2 DEF Sound, Answered, Places
<1> QED
  BY <1>1, LoopInvariance, PTL

(* retry.go: one call per target, repeat and continuation, and max_retries *)
(* errors at most, for every agent and every target list.                  *)
THEOREM BoundedWork == DSpec => []RetryBudget
<1>1. ASSUME Inv PROVE RetryBudget
  <2>1. SUFFICES ASSUME NEW r \in Requests
                 PROVE  LET q == req[r] IN
                        /\ q.sent <= Len(q.targets) + maxSameTargetRetries(q) + (StreamAttempts - 1)
                        /\ q.agent.maxRetries > 0 => q.attempt <= q.agent.maxRetries + 1
    BY DEF RetryBudget
  <2> DEFINE q == req[r]
  <2>2. Sound(q) /\ q \in Loop
    BY <1>1 DEF Inv, LoopInv, Sound
  <2> DEFINE bound == Len(q.targets) + maxSameTargetRetries(q) + (StreamAttempts - 1)
  <2> HIDE DEF q
  <2>t. /\ {q.idx, q.same, q.sent, q.resumes, Len(q.targets), maxSameTargetRetries(q)} \subseteq Nat
        /\ StreamAttempts \in Nat \ {0}
    BY <2>2, LoopTypes
  <2>3. q.same <= maxSameTargetRetries(q) /\ q.resumes < StreamAttempts
    BY <2>2 DEF Sound, Budgeted
  <2>4. ASSUME q.pc \in {"exhausted", "done"} PROVE q.sent <= bound
    <3>1. q.sent <= Len(q.targets) + q.same + (StreamAttempts - 1)
      BY <2>2, <2>4 DEF Sound, Budgeted
    <3> QED
      BY <2>t, <2>3, <3>1
  <2>5. ASSUME q.pc \in {"idle", "sweep"} PROVE q.sent <= bound
    <3>1. q.sent <= q.idx - 1 + q.same /\ q.resumes = 0
      BY <2>2, <2>5 DEF Sound, Budgeted
    <3>2. q.pc # "done"
      BY <2>5
    <3>3. q.idx <= Len(q.targets) + 1
      BY <2>2, <3>2 DEF Sound, Budgeted
    <3> QED
      BY <2>t, <2>3, <3>1, <3>3
  <2>6. ASSUME q.pc \in Sending \cup Handling \cup Streaming PROVE q.sent <= bound
    <3>1. q.idx <= Len(q.targets)
      BY <2>2, <2>6 DEF Sound, Budgeted
    <3>2. q.sent <= q.idx + q.same + (StreamAttempts - 1)
      <4>1. CASE q.pc \in Sending
        <5>1. q.sent <= q.idx + q.same + (IF q.resuming THEN q.resumes ELSE q.resumes - 1)
          BY <2>2, <4>1 DEF Sound, Budgeted
        <5> QED
          BY <2>t, <2>3, <5>1
      <4>2. CASE q.pc \in Handling \cup {"copying"}
        <5>1. q.sent <= q.idx + q.same + q.resumes
          BY <2>2, <4>2 DEF Sound, Budgeted
        <5> QED
          BY <2>t, <2>3, <5>1
      <4>3. CASE q.pc \in {"resumed", "gave_up"}
        <5>1. q.sent <= q.idx + q.same + q.resumes + 1
          BY <2>2, <4>3 DEF Sound, Budgeted
        <5>2. q.resumes + 1 < StreamAttempts
          BY <2>2, <4>3 DEF Sound, Budgeted, Answered
        <5> QED
          BY <2>t, <5>1, <5>2
      <4> QED
        BY <2>6, <4>1, <4>2, <4>3 DEF Streaming
    <3> QED
      BY <2>t, <2>3, <3>1, <3>2
  <2>7. q.agent.maxRetries > 0 => q.attempt <= q.agent.maxRetries + 1
    BY <2>2 DEF Sound, Patient
  <2>8. q.pc \in Places
    BY <2>2 DEF Loop
  <2>9. q.sent <= bound
    BY <2>4, <2>5, <2>6, <2>8 DEF Places
  <2> QED
    BY <2>7, <2>9 DEF q
<1> QED
  BY <1>1, LoopInvariance, PTL

(* retry.go, exhausted: the final report speaks of the last failure, and   *)
(* denies an upstream call only when none was made.                        *)
THEOREM HonestReport == DSpec => []ReportHonest
<1>1. ASSUME Inv PROVE ReportHonest
  BY <1>1 DEF Inv, LoopInv, Sound, Reported, ReportHonest
<1> QED
  BY <1>1, LoopInvariance, PTL

(* retry.go, shouldSkipRateLimitedPair: benching a credential never costs  *)
(* the request a credential or its last chance.                            *)
THEOREM NoPairSkipped == DSpec => []EveryPairTried
<1>1. ASSUME Inv PROVE EveryPairTried
  <2>1. SUFFICES ASSUME NEW r \in Requests, NEW q, q = req[r], q.pc = "exhausted",
                        ~q.canceled, ~attemptsSpent(q), q.agent.sticky = "off"
                 PROVE  /\ {q.targets[i].pair : i \in q.tried} = {q.targets[i].pair : i \in DOMAIN q.targets}
                        /\ \A i \in DOMAIN q.targets \ q.tried : \E j \in q.tried : j > i
    BY DEF EveryPairTried, At
  <2>2. Sound(q) /\ q \in Loop
    BY <1>1, <2>1 DEF Inv, LoopInv, Sound
  <2>3. Tracked(q) /\ q.idx = Len(q.targets) + 1
    BY <2>1, <2>2 DEF Sound, Covered
  <2>4. DOMAIN q.targets = 1..Len(q.targets) /\ Len(q.targets) \in Nat
    BY <2>2 DEF Loop, Targets
  <2>5. ASSUME NEW i \in DOMAIN q.targets, i \notin q.tried
        PROVE  q.targets[i].pair \in q.limited /\ \E j \in q.tried : j > i
    <3>1. i \in 1..(q.idx - 1)
      BY <2>3, <2>4
    <3>2. PassedOver(q, i)
      BY <2>3, <2>5, <3>1 DEF Tracked
    <3>3. q.idx..Len(q.targets) = {}
      BY <2>3, <2>4
    <3> QED
      BY <3>2, <3>3 DEF PassedOver
  <2>6. q.tried \subseteq DOMAIN q.targets /\ q.limited \subseteq {q.targets[i].pair : i \in q.tried}
    BY <2>3, <2>4 DEF Tracked
  <2> QED
    BY <2>5, <2>6
<1> QED
  BY <1>1, LoopInvariance, PTL

(* ConcurrencyLimiter slots through failover, backoff and continuation:    *)
(* never more than the limit on a model, none kept between targets.        *)
THEOREM SlotsHeld == DSpec => []SlotDiscipline
<1>1. ASSUME Inv PROVE SlotDiscipline
  BY <1>1 DEF Inv, LoopInv, Sound, Slotted, SlotsBounded, SlotDiscipline
<1> QED
  BY <1>1, LoopInvariance, PTL

-----------------------------------------------------------------------------
(* What a loop owes the breaker, per dispatch that consumed an admission:  *)
(* the stream a client is reading, until an error event in it is charged,  *)
(* and the call under way.                                                 *)
Earlier(q) ==
    IF q.pc # "done" /\ (q.resuming \/ q.pc = "copying") /\ ~q.seen THEN 1 ELSE 0

Current(q) ==
    IF \/ q.pc \in {"gated", "queued", "sending", "error", "cooled", "response", "head"}
       \/ q.pc \in {"returned", "resumed"} /\ q.kind \in {"error", "response", "stream"}
    THEN 1 ELSE 0

Owed(q) == IF q.agent.byok THEN 0 ELSE Earlier(q) + Current(q)

KeyAt(q) == q.targets[q.idx].key

OwedIn(f, k) == {s \in Requests \X {1, 2} : s[2] <= Owed(f[s[1]]) /\ KeyAt(f[s[1]]) = k}

OwedOn(k) == OwedIn(req, k)

(* A circuit's fields, and probes only while it is HalfOpen.               *)
IsCircuit(c) ==
    c = [state |-> c.state, expiry |-> c.expiry, fails |-> c.fails, succs |-> c.succs,
         inflight |-> c.inflight, lastUsed |-> c.lastUsed]

Shaped(c) ==
    /\ IsCircuit(c)
    /\ c.inflight \in Nat /\ (c.inflight > 0 => c.state = "HalfOpen")

AllShaped == \A k \in DOMAIN circuits : Shaped(circuits[k])

(* The client stays, no HTML page arrives, and an error event belongs to a *)
(* stream the client already has.                                          *)
Undisturbed(q) ==
    ~q.canceled /\ q.kind # "html" /\ (q.seen => q.resuming \/ q.pc \in {"copying", "done"})

Repaid == \A k \in DOMAIN circuits : circuits[k].inflight <= Cardinality(OwedOn(k))

ProbeInv == AllShaped /\ Repaid /\ \A r \in Requests : Undisturbed(req[r])

-----------------------------------------------------------------------------
(* What the breaker's methods do to the probes of a circuit.               *)

(* d is c with its probe count moved by at most x, or reset.               *)
Counts(c, d, x) == Shaped(d) /\ (d.inflight = 0 \/ d.inflight <= c.inflight + x)

(* A transition drops the probes, a non-transition changes nothing.        *)
LEMMA SetStateShaped ==
    ASSUME NEW c, NEW s, Shaped(c)
    PROVE  /\ Shaped(setState(c, s)) /\ setState(c, s).state = s
           /\ c.state # s => setState(c, s).inflight = 0
           /\ c.state = s => setState(c, s) = c
<1> DEFINE e == IF s = "Open" THEN now + Cooldown ELSE 0
           c1 == [c EXCEPT !.state = s]
           c2 == [c1 EXCEPT !.fails = 0]
           c3 == [c2 EXCEPT !.succs = 0]
           c4 == [c3 EXCEPT !.inflight = 0]
           c5 == [c4 EXCEPT !.expiry = e]
<1>1. CASE c.state = s
  BY <1>1 DEF setState
<1>2. CASE c.state # s
  <2>0. setState(c, s) = c5
    BY <1>2, Zenon DEF setState
  <2> HIDE DEF e
  <2>1. IsCircuit(c1) /\ c1.state = s
    BY DEF Shaped, IsCircuit
  <2> HIDE DEF c1
  <2>2. IsCircuit(c2) /\ c2.state = s
    BY <2>1 DEF IsCircuit
  <2> HIDE DEF c2
  <2>3. IsCircuit(c3) /\ c3.state = s
    BY <2>2 DEF IsCircuit
  <2> HIDE DEF c3
  <2>4. IsCircuit(c4) /\ c4.state = s /\ c4.inflight = 0
    BY <2>3 DEF IsCircuit
  <2> HIDE DEF c4
  <2>5. IsCircuit(c5) /\ c5.state = s /\ c5.inflight = 0
    BY <2>4 DEF IsCircuit
  <2> HIDE DEF c5
  <2> QED
    BY <1>2, <2>0, <2>5 DEF Shaped
<1> QED
  BY <1>1, <1>2

(* Updates of the other fields leave the probe count alone.                *)
LEMMA FieldShaped ==
    ASSUME NEW c, NEW v, Shaped(c)
    PROVE  /\ Shaped([c EXCEPT !.expiry = v]) /\ [c EXCEPT !.expiry = v].inflight = c.inflight
           /\ Shaped([c EXCEPT !.fails = v]) /\ [c EXCEPT !.fails = v].inflight = c.inflight
           /\ Shaped([c EXCEPT !.succs = v]) /\ [c EXCEPT !.succs = v].inflight = c.inflight
           /\ Shaped([c EXCEPT !.lastUsed = v]) /\ [c EXCEPT !.lastUsed = v].inflight = c.inflight
  BY DEF Shaped, IsCircuit

(* releaseSlot gives one probe slot back.                                  *)
LEMMA ReleaseCounts == ASSUME NEW c, Shaped(c) PROVE Counts(c, releaseSlot(c), -1)
<1>1. CASE c.state = "HalfOpen" /\ c.inflight > 0
  <2> DEFINE i == c.inflight - 1
  <2>1. i \in Nat /\ i = c.inflight + (-1)
    BY <1>1 DEF Shaped
  <2>2. releaseSlot(c) = [c EXCEPT !.inflight = i]
    BY <1>1 DEF releaseSlot
  <2> HIDE DEF i
  <2>3. Shaped([c EXCEPT !.inflight = i]) /\ [c EXCEPT !.inflight = i].inflight = i
    BY <1>1, <2>1 DEF Shaped, IsCircuit
  <2> QED
    BY <2>1, <2>2, <2>3 DEF Counts
<1>2. CASE ~(c.state = "HalfOpen" /\ c.inflight > 0)
  <2>1. releaseSlot(c) = c /\ c.inflight = 0
    BY <1>2 DEF releaseSlot, Shaped
  <2> QED
    BY <2>1 DEF Counts
<1> QED
  BY <1>1, <1>2

(* A tripped circuit counts no probe.                                      *)
LEMMA OpenCounts ==
    ASSUME NEW c, NEW v, Shaped(c)
    PROVE  Counts(c, setState(c, "Open"), -1) /\ Counts(c, openUntil(c, v), -1)
<1>1. Shaped(setState(c, "Open")) /\ setState(c, "Open").inflight = 0
  BY SetStateShaped DEF Shaped
<1> QED
  BY <1>1, FieldShaped DEF Counts, openUntil

(* A failure gives the slot back: a HalfOpen circuit trips.                *)
LEMMA FailCounts ==
    ASSUME NEW key, NEW c, NEW cd, Shaped(c)
    PROVE  Counts(c, fail(key, c, cd), -1) /\ Counts(c, failWithStatus(key, c, cd), -1)
<1>1. CASE c.state = "Closed"
  <2>1. c.inflight = 0
    BY <1>1 DEF Shaped
  <2>2. Counts(c, [c EXCEPT !.fails = @ + 1], -1)
    BY <2>1, FieldShaped DEF Counts
  <2> QED
    BY <1>1, <2>2, OpenCounts DEF fail, failWithStatus
<1>2. CASE c.state = "HalfOpen"
  BY <1>2, OpenCounts DEF fail, failWithStatus
<1>3. CASE c.state # "Closed" /\ c.state # "HalfOpen"
  <2>1. c.inflight = 0
    BY <1>3 DEF Shaped
  <2>2. Counts(c, [c EXCEPT !.expiry = Later(@, now + cd)], -1)
    BY <2>1, FieldShaped DEF Counts
  <2> QED
    BY <1>3, <2>2 DEF fail, failWithStatus
<1> QED
  BY <1>1, <1>2, <1>3

(* A success gives the slot back or closes the circuit.                    *)
LEMMA SucceedCounts ==
    ASSUME NEW key, NEW c, Shaped(c)
    PROVE  Counts(c, succeed(key, c), -1)
<1>1. CASE c.state = "Closed"
  <2>1. c.inflight = 0
    BY <1>1 DEF Shaped
  <2> QED
    BY <1>1, <2>1, FieldShaped DEF succeed, Counts
<1>2. CASE c.state = "HalfOpen"
  <2>1. Counts(c, setState(c, "Closed"), -1)
    BY <1>2, SetStateShaped DEF Counts
  <2>2. Counts(c, releaseSlot(c), -1)
    BY ReleaseCounts
  <2>3. Counts(c, [releaseSlot(c) EXCEPT !.succs = @ + 1], -1)
    BY <2>2, FieldShaped DEF Counts
  <2> QED
    BY <1>2, <2>1, <2>3 DEF succeed
<1>3. CASE c.state # "Closed" /\ c.state # "HalfOpen"
  BY <1>3 DEF succeed, Counts, Shaped
<1> QED
  BY <1>1, <1>2, <1>3

(* An admission takes one probe slot, and only where Peek would say yes.   *)
LEMMA AdmitCounts ==
    ASSUME NEW c, Shaped(c)
    PROVE  /\ Counts(c, admit(c), 1)
           /\ c.state = "Closed" \/ ~permits(c) => admit(c) = c
<1>1. CASE c.state = "Closed" \/ ~permits(c)
  BY <1>1 DEF admit, Counts, Shaped
<1>2. CASE ~(c.state = "Closed" \/ ~permits(c))
  <2> DEFINE h == setState(c, "HalfOpen")
             i == h.inflight + 1
  <2>1. Shaped(h) /\ h.state = "HalfOpen" /\ h.inflight <= c.inflight
    BY SetStateShaped DEF Shaped
  <2>2. admit(c) = [h EXCEPT !.inflight = i]
    BY <1>2 DEF admit
  <2>3. i \in Nat /\ i <= c.inflight + 1
    BY <2>1 DEF Shaped
  <2> HIDE DEF h, i
  <2>4. Shaped([h EXCEPT !.inflight = i]) /\ [h EXCEPT !.inflight = i].inflight = i
    BY <2>1, <2>3 DEF Shaped, IsCircuit
  <2> QED
    BY <1>2, <2>2, <2>3, <2>4 DEF Counts
<1> QED
  BY <1>1, <1>2

(* The probes after a call about key: every count is reset or stays, but   *)
(* for that of key, which moves by x.                                      *)
Accounted(key, x) ==
    /\ AllShaped'
    /\ \A j \in DOMAIN circuits' :
          \/ circuits'[j].inflight = 0
          \/ /\ j \in DOMAIN circuits
             /\ circuits'[j].inflight <= circuits[j].inflight + (IF j = key THEN x ELSE 0)

(* getOrCreate finds the circuit as it was, or makes one without probes.   *)
LEMMA FoundShaped ==
    ASSUME AllShaped, NEW key, NEW shed
    PROVE  LET c == getOrCreate(key, shed) IN
           /\ Shaped(c)
           /\ key \in DOMAIN circuits \ shed => c.inflight = circuits[key].inflight
           /\ key \notin DOMAIN circuits \ shed => c.inflight = 0 /\ c.state = "Closed"
<1>1. CASE key \in DOMAIN circuits \ shed
  <2>1. Shaped(circuits[key]) /\ getOrCreate(key, shed) = [circuits[key] EXCEPT !.lastUsed = now]
    BY <1>1 DEF AllShaped, getOrCreate
  <2>2. /\ Shaped([circuits[key] EXCEPT !.lastUsed = now])
        /\ [circuits[key] EXCEPT !.lastUsed = now].inflight = circuits[key].inflight
    BY <2>1, FieldShaped, Zenon
  <2> QED
    BY <1>1, <2>1, <2>2, Zenon
<1>2. CASE key \notin DOMAIN circuits \ shed
  <2>1. getOrCreate(key, shed) = newCircuit
    BY <1>2 DEF getOrCreate
  <2>2. Shaped(newCircuit) /\ newCircuit.inflight = 0 /\ newCircuit.state = "Closed"
    BY DEF newCircuit, Shaped, IsCircuit
  <2> QED
    BY <1>2, <2>1, <2>2
<1> QED
  BY <1>1, <1>2

(* Storing an accounted circuit accounts for the whole map.                *)
LEMMA StoreAccounted ==
    ASSUME AllShaped, NEW key, NEW shed, NEW x \in Int, NEW d,
           Counts(getOrCreate(key, shed), d, x),
           key \notin DOMAIN circuits \ shed => d.inflight = 0,
           circuits' = store(key, shed, d)
    PROVE  Accounted(key, x)
<1> DEFINE D == (DOMAIN circuits \ shed) \cup {key}
<1>1. circuits' = [k \in D |-> IF k = key THEN d ELSE circuits[k]]
  BY DEF store
<1> HIDE DEF D
<1>2. DOMAIN circuits' = D
  BY <1>1
<1>3. ASSUME NEW j \in D
      PROVE  /\ Shaped(circuits'[j])
             /\ \/ circuits'[j].inflight = 0
                \/ /\ j \in DOMAIN circuits
                   /\ circuits'[j].inflight <= circuits[j].inflight + (IF j = key THEN x ELSE 0)
  <2>1. CASE j = key
    <3>1. circuits'[j] = d /\ Shaped(d)
      BY <1>1, <2>1 DEF Counts
    <3>2. key \in DOMAIN circuits \ shed =>
              d.inflight = 0 \/ d.inflight <= circuits[key].inflight + x
      BY FoundShaped DEF Counts
    <3> QED
      BY <2>1, <3>1, <3>2
  <2>2. CASE j # key
    <3>1. circuits'[j] = circuits[j] /\ j \in DOMAIN circuits
      BY <1>1, <2>2 DEF D
    <3>2. Shaped(circuits[j]) /\ circuits[j].inflight \in Nat
      BY <3>1 DEF AllShaped, Shaped
    <3> QED
      BY <2>2, <3>1, <3>2
  <2> QED
    BY <2>1, <2>2
<1>4. AllShaped'
  BY <1>2, <1>3 DEF AllShaped
<1> QED
  BY <1>2, <1>3, <1>4 DEF Accounted

(* Every outcome a caller reports gives a probe slot back, or resets the   *)
(* count.                                                                  *)
LEMMA OutcomeAccounted ==
    ASSUME AllShaped, NEW key, NEW reply, NEW cd,
           \/ RecordFailure(key, cd) \/ RecordOpaqueFailure(key) \/ RecordFailureWithStatus(key, reply)
           \/ RecordSuccess(key) \/ ForceOpen(key, cd)
    PROVE  Accounted(key, -1)
<1>1. ASSUME NEW shed, NEW d, Counts(getOrCreate(key, shed), d, -1), circuits' = store(key, shed, d)
      PROVE  Accounted(key, -1)
  <2>1. key \notin DOMAIN circuits \ shed => getOrCreate(key, shed).inflight = 0
    BY FoundShaped
  <2>2. d.inflight \in Nat /\ (d.inflight = 0 \/ d.inflight <= getOrCreate(key, shed).inflight + (-1))
    BY <1>1 DEF Counts, Shaped
  <2>3. key \notin DOMAIN circuits \ shed => d.inflight = 0
    BY <2>1, <2>2
  <2> QED
    BY <1>1, <2>3, StoreAccounted
<1>2. \A shed : Shaped(getOrCreate(key, shed))
  BY FoundShaped
<1>3. CASE RecordFailure(key, cd)
  <2>1. PICK shed : circuits' = store(key, shed, fail(key, getOrCreate(key, shed),
                                                     IF cd > 0 THEN cd ELSE Cooldown))
    BY <1>3 DEF RecordFailure
  <2> QED
    BY <1>1, <1>2, <2>1, FailCounts
<1>4. CASE RecordOpaqueFailure(key)
  <2>1. PICK shed : circuits' = store(key, shed, releaseSlot(getOrCreate(key, shed)))
    BY <1>4 DEF RecordOpaqueFailure
  <2> QED
    BY <1>1, <1>2, <2>1, ReleaseCounts
<1>5. CASE RecordFailureWithStatus(key, reply)
  <2>1. PICK shed, v : circuits' = store(key, shed, failWithStatus(key, getOrCreate(key, shed), v))
    BY <1>5 DEF RecordFailureWithStatus
  <2> QED
    BY <1>1, <1>2, <2>1, FailCounts
<1>6. CASE RecordSuccess(key)
  <2>1. PICK shed : circuits' = store(key, shed, succeed(key, getOrCreate(key, shed)))
    BY <1>6 DEF RecordSuccess, RecordSuccessWithModel
  <2> QED
    BY <1>1, <1>2, <2>1, SucceedCounts
<1>7. CASE ForceOpen(key, cd)
  <2>1. PICK shed : circuits' = store(key, shed, force(getOrCreate(key, shed), cd))
    BY <1>7 DEF ForceOpen
  <2>2. Counts(getOrCreate(key, shed), force(getOrCreate(key, shed), cd), -1)
    BY <1>2, OpenCounts DEF force
  <2> QED
    BY <1>1, <2>1, <2>2
<1> QED
  BY <1>3, <1>4, <1>5, <1>6, <1>7

(* ReleaseHalfOpen gives one probe slot back.                              *)
LEMMA ReleaseAccounted ==
    ASSUME AllShaped, NEW key, ReleaseHalfOpen(key)
    PROVE  Accounted(key, -1)
<1>1. CASE key \notin DOMAIN circuits
  <2>1. circuits' = circuits
    BY <1>1 DEF ReleaseHalfOpen
  <2> QED
    BY <1>1, <2>1 DEF Accounted, AllShaped, Shaped
<1>2. CASE key \in DOMAIN circuits
  <2> DEFINE d == releaseSlot(circuits[key])
  <2>1. Counts(circuits[key], d, -1)
    BY <1>2, ReleaseCounts DEF AllShaped
  <2>2. circuits' = [circuits EXCEPT ![key] = d]
    BY <1>2 DEF ReleaseHalfOpen
  <2> HIDE DEF d
  <2>3. /\ DOMAIN circuits' = DOMAIN circuits /\ circuits'[key] = d
        /\ \A j \in DOMAIN circuits : j # key => circuits'[j] = circuits[j]
    BY <1>2, <2>2
  <2>4. AllShaped'
    BY <2>1, <2>3 DEF AllShaped, Counts
  <2>5. \A j \in DOMAIN circuits : circuits[j].inflight \in Nat
    BY DEF AllShaped, Shaped
  <2> QED
    BY <2>1, <2>3, <2>4, <2>5 DEF Accounted, Counts
<1> QED
  BY <1>1, <1>2

(* Saying nothing to the breaker moves no count.                           *)
LEMMA SilenceAccounted ==
    ASSUME AllShaped, NEW key, circuits' = circuits
    PROVE  Accounted(key, 0)
  BY DEF Accounted, AllShaped, Shaped

(* Allow takes a slot if it admits and nothing if it refuses.              *)
LEMMA AllowAccounted ==
    ASSUME AllShaped, NEW key, Allow(key)
    PROVE  Accounted(key, IF Permitted(key) THEN 1 ELSE 0)
<1>1. PICK shed \in evictForCapacity : circuits' = store(key, shed, admit(getOrCreate(key, shed)))
  BY DEF Allow
<1> DEFINE c == getOrCreate(key, shed)
           x == IF Permitted(key) THEN 1 ELSE 0
<1>2. /\ Shaped(c)
      /\ key \notin DOMAIN circuits \ shed => c.inflight = 0 /\ c.state = "Closed"
  BY FoundShaped
<1>3. key \notin DOMAIN circuits \ shed => admit(c) = c
  BY <1>2, AdmitCounts
<1>4. ~Permitted(key) => ~permits(c) \/ c.state = "Closed"
  <2>1. CASE key \in DOMAIN circuits \ shed
    <3>1. Shaped(circuits[key]) /\ c = [circuits[key] EXCEPT !.lastUsed = now]
      BY <2>1 DEF AllShaped, getOrCreate
    <3>2. c.state = circuits[key].state /\ c.expiry = circuits[key].expiry /\ c.inflight = circuits[key].inflight
      BY <3>1 DEF Shaped, IsCircuit
    <3> QED
      BY <2>1, <3>2 DEF Permitted, permits
  <2>2. CASE key \notin DOMAIN circuits \ shed
    BY <1>2, <2>2
  <2> QED
    BY <2>1, <2>2
<1>5. Counts(c, admit(c), x)
  <2>1. CASE Permitted(key)
    BY <1>2, <2>1, AdmitCounts
  <2>2. CASE ~Permitted(key)
    <3>1. admit(c) = c /\ c.inflight \in Nat
      BY <1>2, <1>4, <2>2, AdmitCounts DEF Shaped
    <3> QED
      BY <1>2, <2>2, <3>1 DEF Counts
  <2> QED
    BY <2>1, <2>2
<1>6. x \in Int /\ (key \notin DOMAIN circuits \ shed => admit(c).inflight = 0)
  BY <1>2, <1>3
<1> HIDE DEF x
<1>7. Accounted(key, x)
  BY <1>1, <1>5, <1>6, StoreAccounted
<1> QED
  BY <1>7 DEF x

(* Peeking at the targets of a list takes nothing.                         *)
LEMMA PeekedAccounted ==
    ASSUME AllShaped, NEW key, NEW list, circuits' = Peeked(list)
    PROVE  Accounted(key, 0)
<1> DEFINE P == {list[i].key : i \in DOMAIN list}
<1>1. circuits' = [k \in DOMAIN circuits \cup P |-> IF k \in P THEN getOrCreate(k, {}) ELSE circuits[k]]
  BY DEF Peeked
<1> HIDE DEF P
<1>2. ASSUME NEW j \in DOMAIN circuits \cup P
      PROVE  /\ Shaped(circuits'[j])
             /\ \/ circuits'[j].inflight = 0
                \/ j \in DOMAIN circuits /\ circuits'[j].inflight <= circuits[j].inflight
  <2>1. CASE j \in P
    <3>1. circuits'[j] = getOrCreate(j, {})
      BY <1>1, <2>1
    <3>2. Shaped(circuits'[j]) /\ circuits'[j].inflight \in Nat
      BY <3>1, FoundShaped DEF Shaped
    <3>3. \/ j \in DOMAIN circuits \ {} /\ circuits'[j].inflight = circuits[j].inflight
          \/ circuits'[j].inflight = 0
      BY <3>1, FoundShaped
    <3> QED
      BY <3>2, <3>3
  <2>2. CASE j \notin P
    <3>1. j \in DOMAIN circuits /\ circuits'[j] = circuits[j]
      BY <1>1, <2>2
    <3>2. Shaped(circuits[j]) /\ circuits[j].inflight \in Nat
      BY <3>1 DEF AllShaped, Shaped
    <3> QED
      BY <3>1, <3>2
  <2> QED
    BY <2>1, <2>2
<1>3. DOMAIN circuits' = DOMAIN circuits \cup P
  BY <1>1
<1>4. AllShaped'
  BY <1>2, <1>3 DEF AllShaped
<1>5. \A j \in DOMAIN circuits : circuits[j].inflight \in Nat
  BY DEF AllShaped, Shaped
<1> QED
  BY <1>2, <1>3, <1>4, <1>5 DEF Accounted

-----------------------------------------------------------------------------
(* What a request's report to the breaker is worth.                        *)
Told(r) == Accounted(KeyOf(r), IF Byok(r) THEN 0 ELSE -1)

(* A release is a report.                                                  *)
LEMMA ReleaseTells ==
    ASSUME NEW r \in Requests, AllShaped, Release(r) \/ RecordOpaqueFailure(KeyOf(r))
    PROVE  Told(r)
<1>1. Accounted(KeyOf(r), -1)
  BY ReleaseAccounted, OutcomeAccounted DEF Release
<1>2. \A j \in DOMAIN circuits : circuits[j].inflight \in Nat
  BY DEF AllShaped, Shaped
<1>3. \A j \in DOMAIN circuits' : circuits'[j].inflight \in Nat
  BY <1>1 DEF Accounted, AllShaped, Shaped
<1> QED
  BY <1>1, <1>2, <1>3 DEF Accounted, Told

(* A charge and a credit are reports.                                      *)
LEMMA ChargeTells ==
    ASSUME NEW r \in Requests, AllShaped, NEW cd, NEW reply,
           Charge(r, cd) \/ ChargeStatus(r, reply) \/ Credit(r) \/ Served(r)
    PROVE  Told(r)
<1>1. CASE Byok(r)
  <2>1. circuits' = circuits
    BY <1>1 DEF Charge, ChargeStatus, Credit, Served, NoOutcome, vars
  <2>2. Accounted(KeyOf(r), 0)
    BY <2>1, SilenceAccounted
  <2> QED
    BY <1>1, <2>2 DEF Told
<1>2. CASE ~Byok(r)
  <2>1. \/ \E d : RecordFailure(KeyOf(r), d)
        \/ RecordFailureWithStatus(KeyOf(r), reply) \/ RecordSuccess(KeyOf(r))
    BY <1>2, Zenon DEF Charge, ChargeStatus, Credit, Served
  <2>2. Accounted(KeyOf(r), -1)
    BY <2>1, OutcomeAccounted
  <2> QED
    BY <1>2, <2>2 DEF Told
<1> QED
  BY <1>1, <1>2

-----------------------------------------------------------------------------
(* Counting what is owed.                                                  *)

Own(r, m) == {s \in {r} \X {1, 2} : s[2] <= m}

Others(f, r, k) == {s \in OwedIn(f, k) : s[1] # r}

(* A loop owes at most two reports.                                        *)
LEMMA OwedType == ASSUME NEW q PROVE Owed(q) \in {0, 1, 2}
  BY DEF Owed, Earlier, Current

(* What is owed on a key is finite.                                        *)
LEMMA OwedFinite ==
    ASSUME NEW f, NEW k
    PROVE  IsFiniteSet(OwedIn(f, k)) /\ Cardinality(OwedIn(f, k)) \in Nat
<1>1. IsFiniteSet({1, 2})
  <2>1. 1..2 = {1, 2} /\ 1 \in Int /\ 2 \in Int
    OBVIOUS
  <2>2. IsFiniteSet(1..2)
    BY <2>1, FS_Interval
  <2> QED
    BY <2>1, <2>2, Zenon
<1>2. IsFiniteSet(Requests \X {1, 2})
  BY <1>1, FS_Product, DispatchAssumption
<1>3. OwedIn(f, k) \subseteq Requests \X {1, 2}
  BY DEF OwedIn
<1>4. IsFiniteSet(OwedIn(f, k))
  BY <1>2, <1>3, FS_Subset
<1> QED
  BY <1>4, FS_CardinalityType

(* The debt on a key is that of one request and that of the others.        *)
LEMMA OwedSplit ==
    ASSUME NEW f, NEW r \in Requests, NEW k
    PROVE  OwedIn(f, k) = Others(f, r, k) \cup (IF KeyAt(f[r]) = k THEN Own(r, Owed(f[r])) ELSE {})
<1>1. ASSUME NEW s \in OwedIn(f, k), s[1] = r
      PROVE  KeyAt(f[r]) = k /\ s \in Own(r, Owed(f[r]))
  BY <1>1 DEF OwedIn, Own
<1>2. ASSUME NEW s \in Own(r, Owed(f[r])), KeyAt(f[r]) = k
      PROVE  s \in OwedIn(f, k)
  BY <1>2 DEF OwedIn, Own
<1>3. Others(f, r, k) \subseteq OwedIn(f, k)
  BY DEF Others
<1>4. ASSUME NEW s \in OwedIn(f, k), s[1] # r PROVE s \in Others(f, r, k)
  BY <1>4 DEF Others
<1> QED
  BY <1>1, <1>2, <1>3, <1>4

(* A request that owes m reports counts m times.                           *)
LEMMA OwnCounts ==
    ASSUME NEW r, NEW m \in {0, 1, 2}, NEW A, IsFiniteSet(A), \A s \in A : s[1] # r
    PROVE  Cardinality(A \cup Own(r, m)) = Cardinality(A) + m
<1>1. <<r, 1>> \notin A /\ <<r, 2>> \notin A
  OBVIOUS
<1>0. Cardinality(A) \in Nat
  BY FS_CardinalityType
<1>2. CASE m = 0
  <2>1. Own(r, m) = {}
    BY <1>2 DEF Own
  <2>2. A \cup Own(r, m) = A
    BY <2>1
  <2> QED
    BY <1>0, <1>2, <2>2
<1> DEFINE B == A \cup {<<r, 1>>}
<1>3. IsFiniteSet(B) /\ Cardinality(B) = Cardinality(A) + 1
  BY <1>1, FS_AddElement
<1>4. CASE m = 1
  <2>1. Own(r, m) = {<<r, 1>>}
    BY <1>4 DEF Own
  <2> QED
    BY <1>3, <1>4, <2>1
<1>5. CASE m = 2
  <2>1. Own(r, m) = {<<r, 1>>} \cup {<<r, 2>>}
    BY <1>5 DEF Own
  <2>2. A \cup Own(r, m) = B \cup {<<r, 2>>}
    BY <2>1
  <2>3. <<r, 2>> \notin B
    BY <1>1
  <2>4. Cardinality(B \cup {<<r, 2>>}) = Cardinality(B) + 1
    BY <1>3, <2>3, FS_AddElement
  <2>5. Cardinality(A \cup Own(r, m)) = Cardinality(B) + 1
    BY <2>2, <2>4, Zenon
  <2>6. m = 1 + 1 /\ Cardinality(B) = Cardinality(A) + 1
    BY <1>3, <1>5
  <2> HIDE DEF B
  <2> QED
    BY <1>0, <2>5, <2>6
<1> QED
  BY <1>2, <1>4, <1>5

(* A step that leaves its request owing what it still has to report keeps  *)
(* the account.                                                            *)
LEMMA StepRepays ==
    ASSUME LoopInv, ProbeInv, NEW r \in Requests, NEW n, NEW x \in Int,
           Goto(r, n), Accounted(KeyOf(r), x), Undisturbed(n),
           Owed(n) >= Owed(req[r]) + x,
           Owed(n) = 0 \/ KeyAt(n) = KeyOf(r)
    PROVE  ProbeInv'
<1> DEFINE q == req[r]
<1>1. /\ req' = [req EXCEPT ![r] = n] /\ req \in [Requests -> Loop]
      /\ req'[r] = n /\ \A s \in Requests \ {r} : req'[s] = req[s]
  BY DEF Goto, LoopInv
<1>2. \A s \in Requests : Undisturbed(req'[s])
  BY <1>1 DEF ProbeInv
<1>3. KeyOf(r) = KeyAt(q)
  BY DEF KeyOf, Target, KeyAt
<1>4. ASSUME NEW k PROVE Others(req', r, k) = Others(req, r, k)
  BY <1>1 DEF Others, OwedIn
<1>s. ASSUME NEW k
      PROVE  /\ OwedIn(req, k) = Others(req, r, k) \cup (IF KeyOf(r) = k THEN Own(r, Owed(q)) ELSE {})
             /\ OwedIn(req', k) = Others(req, r, k) \cup (IF KeyAt(n) = k THEN Own(r, Owed(n)) ELSE {})
  <2>1. OwedIn(req, k) = Others(req, r, k) \cup (IF KeyAt(q) = k THEN Own(r, Owed(q)) ELSE {})
    BY OwedSplit, Zenon
  <2>2. OwedIn(req', k) = Others(req', r, k) \cup (IF KeyAt(req'[r]) = k THEN Own(r, Owed(req'[r])) ELSE {})
    BY OwedSplit, Zenon
  <2> QED
    BY <1>1, <1>3, <1>4, <2>1, <2>2, Zenon
<1>5. ASSUME NEW k, k # KeyOf(r) PROVE OwedIn(req', k) = OwedIn(req, k)
  <2>1. OwedIn(req, k) = Others(req, r, k)
    BY <1>s, <1>5
  <2>2. OwedIn(req', k) = Others(req, r, k)
    <3>1. CASE KeyAt(n) # k
      BY <1>s, <3>1
    <3>2. CASE KeyAt(n) = k
      <4>1. Own(r, Owed(n)) = {}
        BY <1>5, <3>2 DEF Own
      <4> QED
        BY <1>s, <4>1
    <3> QED
      BY <3>1, <3>2
  <2> QED
    BY <2>1, <2>2
<1>6. Cardinality(OwedIn(req', KeyOf(r))) >= Cardinality(OwedIn(req, KeyOf(r))) + x
  <2> DEFINE A == Others(req, r, KeyOf(r))
  <2>1. IsFiniteSet(A) /\ \A s \in A : s[1] # r
    <3>1. A \subseteq OwedIn(req, KeyOf(r)) /\ \A s \in A : s[1] # r
      BY DEF Others
    <3>2. IsFiniteSet(OwedIn(req, KeyOf(r)))
      BY OwedFinite
    <3> QED
      BY <3>1, <3>2, FS_Subset
  <2>2. OwedIn(req, KeyOf(r)) = A \cup Own(r, Owed(q))
    BY <1>s, Zenon
  <2>3. OwedIn(req', KeyOf(r)) = A \cup Own(r, Owed(n))
    <3>1. CASE KeyAt(n) = KeyOf(r)
      BY <1>s, <3>1, Zenon
    <3>2. CASE KeyAt(n) # KeyOf(r)
      <4>1. Own(r, Owed(n)) = {}
        BY <3>2 DEF Own
      <4> QED
        BY <1>s, <3>2, <4>1
    <3> QED
      BY <3>1, <3>2
  <2>4. Owed(q) \in {0, 1, 2} /\ Owed(n) \in {0, 1, 2}
    BY OwedType
  <2>5. Cardinality(A) \in Nat
    BY <2>1, FS_CardinalityType
  <2>6. /\ Cardinality(A \cup Own(r, Owed(q))) = Cardinality(A) + Owed(q)
        /\ Cardinality(A \cup Own(r, Owed(n))) = Cardinality(A) + Owed(n)
    BY <2>1, <2>4, OwnCounts
  <2> HIDE DEF A
  <2> QED
    BY <2>2, <2>3, <2>4, <2>5, <2>6
<1>7. ASSUME NEW k \in DOMAIN circuits'
      PROVE  circuits'[k].inflight <= Cardinality(OwedIn(req', k))
  <2>1. /\ Cardinality(OwedIn(req', k)) \in Nat /\ Cardinality(OwedIn(req, k)) \in Nat
    BY OwedFinite
  <2>2. CASE circuits'[k].inflight = 0
    BY <2>1, <2>2
  <2>3. CASE circuits'[k].inflight # 0
    <3>1. /\ k \in DOMAIN circuits
          /\ circuits'[k].inflight <= circuits[k].inflight + (IF k = KeyOf(r) THEN x ELSE 0)
      BY <2>3 DEF Accounted
    <3>2. circuits[k].inflight <= Cardinality(OwedIn(req, k)) /\ circuits[k].inflight \in Nat
      BY <3>1 DEF ProbeInv, Repaid, OwedOn, AllShaped, Shaped
    <3>3. circuits'[k].inflight \in Nat
      BY DEF Accounted, AllShaped, Shaped
    <3>4. CASE k = KeyOf(r)
      BY <1>6, <2>1, <3>1, <3>2, <3>3, <3>4
    <3>5. CASE k # KeyOf(r)
      BY <1>5, <2>1, <3>1, <3>2, <3>3, <3>5
    <3> QED
      BY <3>4, <3>5
  <2> QED
    BY <2>2, <2>3
<1>8. Repaid'
  BY <1>7 DEF Repaid, OwedOn
<1> QED
  BY <1>2, <1>8 DEF ProbeInv, Accounted

-----------------------------------------------------------------------------
(* The account over the steps of a request.                                *)

(* Everything but what decides a loop's debt.                              *)
Rest == {"pc", "kind", "targets", "idx", "reply", "held", "resumes", "attempt", "same", "last4xx",
         "limited", "reached", "answers", "answer", "sent", "tried", "last"}

(* afterOutcome repeats the target, moves the cursor or ends the sweep.    *)
LEMMA AfterOutcomeKeeps ==
    ASSUME NEW q \in Loop, NEW retryable, NEW status
    PROVE  LET n == afterOutcome(q, retryable, status) IN
           Keeps(q, n, {"pc", "held", "same", "idx"}) /\ n.pc \in {"sweep", "exhausted"}
<1>p. {"sweep", "exhausted"} \subseteq Places /\ "none" \in Reasons
  BY DEF Places, Reasons
<1> DEFINE m == settled(q, "sweep")
<1>1. Keeps(q, m, {"pc", "held"}) /\ m.pc = "sweep" /\ m \in Loop
  BY <1>p, SettledKeeps DEF Keeps
<1>2. m.same + 1 \in Nat /\ m.idx + 1 \in Nat \ {0}
  BY <1>1, LoopTypes
<1>3. LET x == [m EXCEPT !.same = m.same + 1, !.reason = "none"] IN
      Keeps(m, x, {"same"}) /\ x.pc = m.pc
  BY <1>p, <1>1, <1>2, Zenon DEF Keeps, Loop
<1>4. LET x == [m EXCEPT !.idx = m.idx + 1, !.reason = "none"] IN
      Keeps(m, x, {"idx"}) /\ x.pc = m.pc
  BY <1>p, <1>1, <1>2, Zenon DEF Keeps, Loop
<1>5. \/ afterOutcome(q, retryable, status) = [m EXCEPT !.same = m.same + 1, !.reason = "none"]
      \/ afterOutcome(q, retryable, status) = [m EXCEPT !.idx = m.idx + 1, !.reason = "none"]
      \/ afterOutcome(q, retryable, status) = settled(q, "exhausted")
  BY Zenon DEF afterOutcome
<1>6. Keeps(q, settled(q, "exhausted"), {"pc", "held"}) /\ settled(q, "exhausted").pc = "exhausted"
  BY <1>p, SettledKeeps
<1> HIDE DEF m
<1>7. CASE afterOutcome(q, retryable, status) = [m EXCEPT !.same = m.same + 1, !.reason = "none"]
  BY <1>1, <1>3, <1>7 DEF Keeps
<1>8. CASE afterOutcome(q, retryable, status) = [m EXCEPT !.idx = m.idx + 1, !.reason = "none"]
  BY <1>1, <1>4, <1>8 DEF Keeps
<1>9. CASE afterOutcome(q, retryable, status) = settled(q, "exhausted")
  BY <1>6, <1>9 DEF Keeps
<1> QED
  BY <1>5, <1>7, <1>8, <1>9

(* The last answer ends the loop and changes nothing else.                 *)
LEMMA AnswerKeeps ==
    ASSUME NEW q \in Loop, NEW what \in Reports
    PROVE  LET n == done(write(q, what)) IN
           Keeps(q, n, {"pc", "held", "answers", "answer"}) /\ n.pc = "done"
<1>1. Keeps(q, write(q, what), {"answers", "answer"}) /\ write(q, what) \in Loop
  BY WriteKeeps DEF Keeps
<1>2. "done" \in Places
  BY DEF Places
<1>3. Keeps(write(q, what), done(write(q, what)), {"pc", "held"}) /\ done(write(q, what)).pc = "done"
  BY <1>1, <1>2, SettledKeeps DEF done
<1> QED
  BY <1>1, <1>3 DEF Keeps

(* done ends the loop and frees its slots.                                 *)
LEMMA DoneKeeps ==
    ASSUME NEW q \in Loop
    PROVE  Keeps(q, done(q), {"pc", "held"}) /\ done(q).pc = "done"
<1>1. "done" \in Places
  BY DEF Places
<1> QED
  BY <1>1, SettledKeeps DEF done

(* A loop with an outcome in hand owes one report at most, and nothing     *)
(* once it has moved on.                                                   *)
LEMMA LeavesRepays ==
    ASSUME LoopInv, ProbeInv, NEW r \in Requests, NEW n, Goto(r, n), Told(r),
           req[r].pc \in Handling, Keeps(req[r], n, Rest), n.kind # "html",
           n.pc \in {"sweep", "exhausted", "backoff", "done"}
    PROVE  ProbeInv'
<1> DEFINE q == req[r]
<1>1. Sound(q) /\ Undisturbed(q) /\ ~q.resuming /\ q.pc # "copying" /\ q.pc # "done"
  BY DEF LoopInv, ProbeInv, Sound, Answered, Handling
<1>2. ~q.seen /\ ~q.canceled
  BY <1>1 DEF Undisturbed
<1>3. n.agent = q.agent /\ ~n.resuming /\ ~n.seen /\ ~n.canceled
  BY <1>1, <1>2 DEF Keeps, Rest
<1>4. Undisturbed(n) /\ Owed(n) = 0
  BY <1>3 DEF Undisturbed, Owed, Earlier, Current
<1>5. Owed(q) <= 1 /\ Owed(q) \in Nat /\ (Byok(r) => Owed(q) = 0)
  BY <1>1 DEF Owed, Earlier, Current, Byok
<1> DEFINE x == IF Byok(r) THEN 0 ELSE -1
<1>6. x \in Int /\ Owed(n) >= Owed(q) + x
  BY <1>4, <1>5
<1>7. Accounted(KeyOf(r), x)
  BY DEF Told
<1> HIDE DEF x
<1> QED
  BY <1>4, <1>6, <1>7, StepRepays

(* Back from prepareAndSend.                                               *)
LEMMA ReturnsOwed ==
    ASSUME NEW q, NEW n, Sound(q), Undisturbed(q), q.pc \in Sending,
           Keeps(q, n, {"pc", "kind", "reply", "sent"}), n.kind # "html",
           n.pc = IF q.resuming THEN "resumed" ELSE "returned"
    PROVE  /\ Undisturbed(n) /\ KeyAt(n) = KeyAt(q)
           /\ q.pc # "guards" /\ n.kind \in {"error", "response", "stream"} => Owed(n) = Owed(q)
           /\ q.pc # "guards" /\ ~q.agent.byok => Owed(n) >= Owed(q) - 1
           /\ q.pc = "guards" => Owed(n) >= Owed(q)
           /\ q.agent.byok => Owed(n) = 0 /\ Owed(q) = 0
<1>1. n.agent = q.agent /\ n.resuming = q.resuming /\ n.seen = q.seen /\ n.canceled = q.canceled
  BY DEF Keeps
<1>2. q.pc \in {"guards", "gated", "queued", "sending"}
  BY DEF Sending
<1>3. ~q.canceled /\ (q.seen => q.resuming)
  BY <1>2 DEF Undisturbed
<1>4. Undisturbed(n) /\ KeyAt(n) = KeyAt(q)
  BY <1>1, <1>3 DEF Undisturbed, KeyAt, Keeps
<1>5. Earlier(n) = Earlier(q) /\ Earlier(q) \in {0, 1}
  BY <1>1, <1>2 DEF Earlier
<1>6. q.pc # "guards" => Current(q) = 1
  BY <1>2 DEF Current
<1>7. q.pc = "guards" => Current(q) = 0
  BY DEF Current
<1>8. Current(n) \in {0, 1} /\ (n.kind \in {"error", "response", "stream"} => Current(n) = 1)
  BY DEF Current
<1> QED
  BY <1>1, <1>4, <1>5, <1>6, <1>7, <1>8 DEF Owed

(* Steps that tell the breaker nothing and change no debt.                 *)
LEMMA QuietRepays ==
    ASSUME LoopInv, ProbeInv, NEW r \in Requests, NEW n, Goto(r, n), circuits' = circuits,
           Undisturbed(n), Owed(n) >= Owed(req[r]), Owed(n) = 0 \/ KeyAt(n) = KeyOf(r)
    PROVE  ProbeInv'
<1>1. Accounted(KeyOf(r), 0)
  BY SilenceAccounted DEF ProbeInv
<1>2. Owed(n) >= Owed(req[r]) + 0 /\ 0 \in Int
  BY OwedType
<1> QED
  BY <1>1, <1>2, StepRepays

(* Steps that report an outcome.                                           *)
LEMMA ToldRepays ==
    ASSUME LoopInv, ProbeInv, NEW r \in Requests, NEW n, Goto(r, n), Told(r), Undisturbed(n),
           Byok(r) => Owed(req[r]) = 0, ~Byok(r) => Owed(n) >= Owed(req[r]) - 1,
           Owed(n) = 0 \/ KeyAt(n) = KeyOf(r)
    PROVE  ProbeInv'
<1> DEFINE x == IF Byok(r) THEN 0 ELSE -1
<1>1. Accounted(KeyOf(r), x) /\ x \in Int
  BY DEF Told
<1>2. Owed(n) >= Owed(req[r]) + x
  BY OwedType
<1> HIDE DEF x
<1> QED
  BY <1>1, <1>2, StepRepays

(* Start keeps the account of the probes.                                  *)
LEMMA StartRepays ==
    ASSUME LoopInv, ProbeInv, NEW r \in Requests, Start(r)
    PROVE  ProbeInv'
<1>1. PICK agent, list :
          /\ Goto(r, IF list = <<>>
                     THEN [newRetryLoop(agent, list) EXCEPT !.pc = "done", !.answers = 1, !.answer = "no_target"]
                     ELSE newRetryLoop(agent, list))
          /\ circuits' = Peeked(list)
  BY DEF Start
<1> DEFINE loop == newRetryLoop(agent, list)
           last == [loop EXCEPT !.pc = "done", !.answers = 1, !.answer = "no_target"]
           n == IF list = <<>> THEN last ELSE loop
<1>2. /\ loop.pc = "sweep" /\ ~loop.canceled /\ ~loop.seen /\ ~loop.resuming /\ loop.kind = "none"
      /\ last.pc = "done" /\ ~last.canceled /\ ~last.seen /\ ~last.resuming /\ last.kind = "none"
  BY DEF newRetryLoop
<1> HIDE DEF loop, last
<1>3. n.pc \in {"sweep", "done"} /\ ~n.canceled /\ ~n.seen /\ ~n.resuming /\ n.kind = "none"
  BY <1>2
<1>4. Goto(r, n)
  BY <1>1 DEF loop, last
<1> HIDE DEF n
<1>5. Undisturbed(n) /\ Owed(n) = 0
  BY <1>3 DEF Undisturbed, Owed, Earlier, Current
<1>6. req[r].pc = "idle" /\ ~req[r].resuming
  BY DEF Start, At, LoopInv, Sound, Answered
<1>7. Owed(req[r]) = 0
  BY <1>6 DEF Owed, Earlier, Current
<1>8. Accounted(KeyOf(r), 0)
  BY <1>1, PeekedAccounted DEF ProbeInv
<1>9. Owed(n) >= Owed(req[r]) + 0 /\ 0 \in Int
  BY <1>5, <1>7
<1> QED
  BY <1>4, <1>5, <1>8, <1>9, StepRepays

(* Sweep keeps the account of the probes.                                  *)
LEMMA SweepRepays ==
    ASSUME LoopInv, ProbeInv, NEW r \in Requests, Sweep(r)
    PROVE  ProbeInv'
<1> DEFINE q == req[r]
<1>0. /\ q \in Loop /\ q.pc = "sweep" /\ ~q.resuming /\ ~q.canceled /\ ~q.seen /\ q.kind # "html"
      /\ circuits' = circuits
  BY DEF Sweep, At, LoopInv, ProbeInv, Sound, Answered, Undisturbed, NoOutcome, vars
<1>1. Owed(q) = 0
  BY <1>0 DEF Owed, Earlier, Current
<1>2. ASSUME NEW n, Goto(r, n), n.pc \in {"exhausted", "sweep", "guards", "done"},
             n.kind = q.kind, ~n.resuming, ~n.canceled, ~n.seen
      PROVE  ProbeInv'
  <2>1. Undisturbed(n) /\ Owed(n) = 0
    BY <1>0, <1>2 DEF Undisturbed, Owed, Earlier, Current
  <2> QED
    BY <1>0, <1>1, <1>2, <2>1, QuietRepays
<1> DEFINE w == write(q, "key_budget")
           m == done(w)
<1>3. \/ Goto(r, [q EXCEPT !.pc = "exhausted"])
      \/ Goto(r, [q EXCEPT !.idx = @ + 1])
      \/ Goto(r, [q EXCEPT !.pc = "guards", !.charged = TRUE, !.tried = @ \cup {q.idx}])
      \/ Goto(r, [m EXCEPT !.charged = TRUE])
  BY DEF Sweep
<1>4. Keeps(q, m, {"pc", "held", "answers", "answer"}) /\ m.pc = "done" /\ m \in Loop
  <2>1. "key_budget" \in Reports
    BY DEF Reports
  <2> QED
    BY <1>0, <2>1, AnswerKeeps DEF Keeps
<1> HIDE DEF q, w, m
<1>5. LET n == [q EXCEPT !.pc = "exhausted"] IN
      n.pc = "exhausted" /\ n.kind = q.kind /\ ~n.resuming /\ ~n.canceled /\ ~n.seen
  BY <1>0, Zenon DEF Loop
<1>6. LET n == [q EXCEPT !.idx = @ + 1] IN
      n.pc = "sweep" /\ n.kind = q.kind /\ ~n.resuming /\ ~n.canceled /\ ~n.seen
  BY <1>0, Zenon DEF Loop
<1>7. LET n == [q EXCEPT !.pc = "guards", !.charged = TRUE, !.tried = @ \cup {q.idx}] IN
      n.pc = "guards" /\ n.kind = q.kind /\ ~n.resuming /\ ~n.canceled /\ ~n.seen
  BY <1>0, Zenon DEF Loop
<1>8. LET n == [m EXCEPT !.charged = TRUE] IN
      n.pc = "done" /\ n.kind = q.kind /\ ~n.resuming /\ ~n.canceled /\ ~n.seen
  <2>1. m.kind = q.kind /\ ~m.resuming /\ ~m.canceled /\ ~m.seen
    BY <1>0, <1>4 DEF Keeps
  <2> QED
    BY <1>4, <2>1, Zenon DEF Loop
<1> QED
  BY <1>2, <1>3, <1>5, <1>6, <1>7, <1>8, Zenon

(* A step on its way to the upstream, told or not told to the breaker.     *)
LEMMA SkipRepays ==
    ASSUME LoopInv, ProbeInv, NEW r \in Requests, NEW kind \in {"skip", "budget_skip"},
           req[r].pc \in Sending, Goto(r, returned(req[r], kind)),
           (req[r].pc = "guards" /\ circuits' = circuits) \/ (req[r].pc # "guards" /\ Told(r))
    PROVE  ProbeInv'
<1> DEFINE q == req[r]
           n == returned(q, kind)
<1>0. Sound(q) /\ q \in Loop /\ Undisturbed(q) /\ kind \in Kinds
  BY DEF LoopInv, ProbeInv, Sound, Kinds
<1>1. /\ Keeps(q, n, {"pc", "kind", "reply", "sent"}) /\ n.kind # "html"
      /\ n.pc = IF q.resuming THEN "resumed" ELSE "returned"
  BY <1>0, ReturnedKeeps DEF Keeps
<1>2. Goto(r, n)
  OBVIOUS
<1>k. KeyOf(r) = KeyAt(q) /\ Byok(r) = q.agent.byok
  BY DEF KeyOf, Target, KeyAt, Byok
<1> HIDE DEF n
<1>3. /\ Undisturbed(n) /\ KeyAt(n) = KeyAt(q)
      /\ q.pc # "guards" /\ ~q.agent.byok => Owed(n) >= Owed(q) - 1
      /\ q.pc = "guards" => Owed(n) >= Owed(q)
      /\ q.agent.byok => Owed(n) = 0 /\ Owed(q) = 0
  BY <1>0, <1>1, ReturnsOwed
<1>4. CASE q.pc = "guards" /\ circuits' = circuits
  BY <1>2, <1>3, <1>4, <1>k, QuietRepays
<1>5. CASE q.pc # "guards" /\ Told(r)
  BY <1>2, <1>3, <1>5, <1>k, ToldRepays
<1> QED
  BY <1>4, <1>5

(* A gate adds one debt at the breaker and none after it.                  *)
LEMMA GateOwed ==
    ASSUME NEW q, NEW n, Sound(q), Undisturbed(q), q.pc \in Sending, n.pc \in {"gated", "queued", "sending"},
           n.agent = q.agent, n.targets = q.targets, n.idx = q.idx, n.kind = q.kind,
           n.resuming = q.resuming, n.seen = q.seen, n.canceled = q.canceled
    PROVE  /\ Undisturbed(n) /\ KeyAt(n) = KeyAt(q)
           /\ q.agent.byok => Owed(n) = 0 /\ Owed(q) = 0
           /\ ~q.agent.byok => Owed(n) = Owed(q) + (IF q.pc = "guards" THEN 1 ELSE 0)
<1>1. q.pc \in {"guards", "gated", "queued", "sending"}
  BY DEF Sending
<1>2. Undisturbed(n) /\ KeyAt(n) = KeyAt(q)
  BY <1>1 DEF Undisturbed, KeyAt
<1>3. Earlier(n) = Earlier(q) /\ Earlier(q) \in {0, 1}
  BY <1>1 DEF Earlier
<1>4. Current(n) = 1 /\ Current(q) = IF q.pc = "guards" THEN 0 ELSE 1
  BY <1>1 DEF Current
<1> QED
  BY <1>2, <1>3, <1>4 DEF Owed

(* breakerGate keeps the account of the probes.                            *)
LEMMA breakerGateRepays ==
    ASSUME LoopInv, ProbeInv, NEW r \in Requests, breakerGate(r)
    PROVE  ProbeInv'
<1> DEFINE q == req[r]
           n == [q EXCEPT !.pc = "gated"]
<1>0. Sound(q) /\ q \in Loop /\ Undisturbed(q) /\ q.pc = "guards" /\ q.pc \in Sending
  BY DEF LoopInv, ProbeInv, Sound, breakerGate, At, Sending
<1>k. KeyOf(r) = KeyAt(q) /\ Byok(r) = q.agent.byok
  BY DEF KeyOf, Target, KeyAt, Byok
<1>1. /\ n.pc = "gated" /\ n.agent = q.agent /\ n.targets = q.targets /\ n.idx = q.idx /\ n.kind = q.kind
      /\ n.resuming = q.resuming /\ n.seen = q.seen /\ n.canceled = q.canceled
  BY <1>0, Zenon DEF Loop
<1>2. /\ Undisturbed(n) /\ KeyAt(n) = KeyAt(q)
      /\ q.agent.byok => Owed(n) = 0 /\ Owed(q) = 0
      /\ ~q.agent.byok => Owed(n) = Owed(q) + 1
  <2> HIDE DEF n, q
  <2> QED
    BY <1>0, <1>1, GateOwed
<1>3. CASE Byok(r)
  <2>1. Goto(r, n) /\ circuits' = circuits
    BY <1>3 DEF breakerGate, NoOutcome, vars
  <2> HIDE DEF n
  <2>2. Owed(n) = 0 /\ Owed(q) = 0
    BY <1>2, <1>3, <1>k
  <2> QED
    BY <1>2, <2>1, <2>2, QuietRepays
<1>4. CASE ~Byok(r) /\ Permitted(KeyOf(r))
  <2>1. Goto(r, n) /\ Allow(KeyOf(r))
    BY <1>4 DEF breakerGate
  <2>2. Accounted(KeyOf(r), 1) /\ 1 \in Int
    BY <1>4, <2>1, AllowAccounted DEF ProbeInv
  <2>3. Owed(n) >= Owed(q) + 1
    BY <1>2, <1>4, <1>k, OwedType
  <2> HIDE DEF n
  <2> QED
    BY <1>2, <1>k, <2>1, <2>2, <2>3, StepRepays
<1>5. CASE ~Byok(r) /\ ~Permitted(KeyOf(r))
  <2> DEFINE m == returned(q, "skip")
  <2>1. Goto(r, m) /\ Allow(KeyOf(r))
    BY <1>5 DEF breakerGate
  <2>2. Accounted(KeyOf(r), 0) /\ 0 \in Int
    BY <1>5, <2>1, AllowAccounted DEF ProbeInv
  <2>3. /\ Keeps(q, m, {"pc", "kind", "reply", "sent"}) /\ m.kind # "html"
        /\ m.pc = IF q.resuming THEN "resumed" ELSE "returned"
    <3>1. "skip" \in Kinds
      BY DEF Kinds
    <3> QED
      BY <1>0, <3>1, ReturnedKeeps DEF Keeps
  <2> HIDE DEF m
  <2>4. Undisturbed(m) /\ KeyAt(m) = KeyAt(q) /\ Owed(m) >= Owed(q)
    BY <1>0, <2>3, ReturnsOwed
  <2>5. Owed(m) >= Owed(q) + 0
    BY <2>4, OwedType
  <2> QED
    BY <1>k, <2>1, <2>2, <2>4, <2>5, StepRepays
<1> QED
  BY <1>3, <1>4, <1>5

(* prepareAndSend keeps the account of the probes.                         *)
LEMMA prepareAndSendRepays ==
    ASSUME LoopInv, ProbeInv, NEW r \in Requests, prepareAndSend(r), "html" \notin Faults
    PROVE  ProbeInv'
<1> DEFINE q == req[r]
<1>0. Sound(q) /\ q \in Loop /\ Undisturbed(q) /\ ~q.canceled /\ AllShaped
  BY DEF LoopInv, ProbeInv, Sound, Undisturbed
<1>k. KeyOf(r) = KeyAt(q) /\ Byok(r) = q.agent.byok
  BY DEF KeyOf, Target, KeyAt, Byok
<1>1. CASE GuardSkip(r)
  BY <1>1, SkipRepays DEF GuardSkip, At, Sending, NoOutcome, vars
<1>2. CASE breakerGate(r)
  BY <1>2, breakerGateRepays
<1>3. ASSUME NEW n, Goto(r, n), circuits' = circuits, q.pc \in {"gated", "queued"},
             n.pc \in {"queued", "sending"},
             n.agent = q.agent, n.targets = q.targets, n.idx = q.idx, n.kind = q.kind,
             n.resuming = q.resuming, n.seen = q.seen, n.canceled = q.canceled
      PROVE  ProbeInv'
  <2>1. q.pc \in Sending /\ q.pc # "guards"
    BY <1>3 DEF Sending
  <2>2. /\ Undisturbed(n) /\ KeyAt(n) = KeyAt(q)
        /\ q.agent.byok => Owed(n) = 0 /\ Owed(q) = 0
        /\ ~q.agent.byok => Owed(n) = Owed(q) + 0
    <3> HIDE DEF q
    <3> QED
      BY <1>0, <1>3, <2>1, GateOwed
  <2>3. Owed(n) >= Owed(q)
    BY <2>2, OwedType
  <2> QED
    BY <1>3, <1>k, <2>2, <2>3, QuietRepays
<1>4. CASE providerBudgetGate(r)
  <2>1. CASE Goto(r, [q EXCEPT !.pc = "queued"]) /\ NoOutcome
    <3> DEFINE n == [q EXCEPT !.pc = "queued"]
    <3>1. /\ n.pc = "queued" /\ n.agent = q.agent /\ n.targets = q.targets /\ n.idx = q.idx
          /\ n.kind = q.kind /\ n.resuming = q.resuming /\ n.seen = q.seen /\ n.canceled = q.canceled
      BY <1>0, Zenon DEF Loop
    <3>2. Goto(r, n) /\ circuits' = circuits /\ q.pc = "gated"
      BY <1>4, <2>1 DEF providerBudgetGate, At, NoOutcome, vars
    <3> HIDE DEF n, q
    <3> QED
      BY <1>3, <3>1, <3>2
  <2>2. CASE Goto(r, returned(q, "budget_skip")) /\ Release(r)
    <3>1. q.pc \in Sending /\ q.pc # "guards" /\ Told(r)
      BY <1>0, <1>4, <2>2, ReleaseTells DEF providerBudgetGate, At, Sending
    <3> QED
      BY <2>2, <3>1, SkipRepays
  <2> QED
    BY <1>4, <2>1, <2>2 DEF providerBudgetGate
<1>5. CASE Acquire(r)
  <2> DEFINE n == [q EXCEPT !.pc = "sending", !.held = @ + 1]
  <2>1. /\ n.pc = "sending" /\ n.agent = q.agent /\ n.targets = q.targets /\ n.idx = q.idx
        /\ n.kind = q.kind /\ n.resuming = q.resuming /\ n.seen = q.seen /\ n.canceled = q.canceled
    BY <1>0, Zenon DEF Loop
  <2>2. Goto(r, n) /\ circuits' = circuits /\ q.pc = "queued"
    BY <1>5 DEF Acquire, At, NoOutcome, vars
  <2> HIDE DEF n, q
  <2> QED
    BY <1>3, <2>1, <2>2
<1>6. CASE AcquireCanceled(r)
  BY <1>0, <1>6 DEF AcquireCanceled
<1>7. CASE BuildFailed(r)
  <2>1. q.pc \in Sending /\ q.pc # "guards" /\ Told(r) /\ Goto(r, returned(q, "skip"))
    BY <1>0, <1>7, ReleaseTells DEF BuildFailed, At, Sending
  <2> QED
    BY <2>1, SkipRepays
<1>8. ASSUME NEW kind \in Kinds \ {"html"}, attempted(kind), NEW n, Goto(r, n), At(r, "sending"),
             Keeps(returned(sent(r), kind), n, {"reply"}),
             Told(r) \/ (kind \in {"error", "response", "stream"} /\ circuits' = circuits)
      PROVE  ProbeInv'
  <2> DEFINE m == returned(sent(r), kind)
  <2>1. /\ Keeps(q, m, {"pc", "kind", "sent"}) /\ m.kind = kind
        /\ m.pc = IF q.resuming THEN "resumed" ELSE "returned"
    BY <1>0, <1>8, SentSound
  <2> HIDE DEF m
  <2>2. /\ Keeps(q, n, {"pc", "kind", "reply", "sent"}) /\ n.kind = kind /\ n.kind # "html"
        /\ n.pc = IF q.resuming THEN "resumed" ELSE "returned"
    BY <1>8, <2>1 DEF Keeps, m
  <2>3. q.pc \in Sending /\ q.pc # "guards"
    BY <1>8 DEF At, Sending
  <2>4. /\ Undisturbed(n) /\ KeyAt(n) = KeyAt(q)
        /\ n.kind \in {"error", "response", "stream"} => Owed(n) = Owed(q)
        /\ ~q.agent.byok => Owed(n) >= Owed(q) - 1
        /\ q.agent.byok => Owed(n) = 0 /\ Owed(q) = 0
    <3> HIDE DEF q
    <3> QED
      BY <1>0, <2>2, <2>3, ReturnsOwed
  <2>5. CASE Told(r)
    BY <1>8, <1>k, <2>4, <2>5, ToldRepays
  <2>6. CASE kind \in {"error", "response", "stream"} /\ circuits' = circuits
    <3>1. Owed(n) >= Owed(q)
      BY <2>2, <2>4, <2>6, OwedType
    <3> QED
      BY <1>8, <1>k, <2>4, <2>6, <3>1, QuietRepays
  <2> QED
    BY <1>8, <2>5, <2>6
<1>s. ASSUME NEW kind \in Kinds, attempted(kind), At(r, "sending")
      PROVE  Keeps(returned(sent(r), kind), returned(sent(r), kind), {"reply"})
             /\ returned(sent(r), kind) \in Loop
  BY <1>0, <1>s, SentSound DEF Keeps
<1>9. CASE NetworkError(r)
  <2>1. "network" \in Kinds \ {"html"} /\ attempted("network")
    BY DEF Kinds, attempted
  <2>2. At(r, "sending") /\ Goto(r, returned(sent(r), "network")) /\ Charge(r, AgentCooldown)
    BY <1>0, <1>9 DEF NetworkError
  <2>3. Told(r)
    BY <1>0, <2>2, ChargeTells
  <2> QED
    BY <1>8, <1>s, <2>1, <2>2, <2>3
<1>10. CASE UpstreamError(r)
  <2>1. "error" \in Kinds \ {"html"} /\ attempted("error")
    BY DEF Kinds, attempted
  <2> DEFINE m == returned(sent(r), "error")
  <2>2. PICK reply \in Replies : Goto(r, [m EXCEPT !.reply = reply])
    BY <1>10 DEF UpstreamError
  <2>3. At(r, "sending") /\ circuits' = circuits /\ reply \in Replies \cup {NoReply}
    BY <1>10 DEF UpstreamError, NoOutcome, vars
  <2>4. m \in Loop
    BY <1>s, <2>1, <2>3
  <2>5. Keeps(m, [m EXCEPT !.reply = reply], {"reply"})
    <3> HIDE DEF m
    <3> QED
      BY <2>3, <2>4, Zenon DEF Keeps, Loop
  <2> QED
    BY <1>8, <2>1, <2>2, <2>3, <2>5
<1>11. CASE handleUpstreamResponse(r)
  <2>1. PICK kind \in {"response", "stream"} : Goto(r, returned(sent(r), kind))
    BY <1>11 DEF handleUpstreamResponse
  <2>2. kind \in Kinds \ {"html"} /\ attempted(kind) /\ kind \in {"error", "response", "stream"}
    BY DEF Kinds, attempted
  <2>3. At(r, "sending") /\ circuits' = circuits
    BY <1>11 DEF handleUpstreamResponse, NoOutcome, vars
  <2> QED
    BY <1>8, <1>s, <2>1, <2>2, <2>3
<1> QED
  BY <1>1, <1>2, <1>4, <1>5, <1>6, <1>7, <1>9, <1>10, <1>11 DEF prepareAndSend

(* handleActionResult keeps the account of the probes.                     *)
LEMMA handleActionResultRepays ==
    ASSUME LoopInv, ProbeInv, NEW r \in Requests, handleActionResult(r)
    PROVE  ProbeInv'
<1> DEFINE o == req[r]
           q == noted(o)
<1>0. /\ Sound(o) /\ o \in Loop /\ Undisturbed(o) /\ ~o.canceled /\ o.kind # "html"
      /\ o.pc = "returned" /\ o.pc \in Handling /\ circuits' = circuits
  BY DEF LoopInv, ProbeInv, Sound, Undisturbed, handleActionResult, At, Handling, NoOutcome, vars
<1>k. KeyOf(r) = KeyAt(o)
  BY DEF KeyOf, Target, KeyAt
<1>1. ~o.resuming /\ ~o.seen
  BY <1>0 DEF Sound, Answered, Undisturbed
<1>2. Keeps(o, q, {"reached", "last", "last4xx"}) /\ q \in Loop
  BY <1>0, NotedKeeps DEF Keeps
<1> DEFINE a == [q EXCEPT !.reason = "dispatch", !.budgetSkipped = @ \/ q.kind = "budget_skip"]
           e == [q EXCEPT !.pc = "error", !.reason = IF q.reply.status >= 500 THEN "5xx" ELSE "4xx"]
<1>3. \/ /\ q.kind \in {"skip", "budget_skip", "network", "html"}
         /\ Goto(r, afterOutcome(a, q.kind = "network", 0))
      \/ Goto(r, e)
      \/ Goto(r, [q EXCEPT !.pc = "head"])
      \/ Goto(r, [q EXCEPT !.pc = "response"])
  BY Zenon DEF handleActionResult
<1> HIDE DEF q
<1>q. q.kind = o.kind /\ q.agent = o.agent /\ q.targets = o.targets /\ q.idx = o.idx
      /\ ~q.resuming /\ ~q.seen /\ ~q.canceled
  BY <1>0, <1>1, <1>2 DEF Keeps
<1>4. ASSUME NEW n, Goto(r, n), n.pc \in {"error", "head", "response"},
             n.kind = q.kind, n.agent = q.agent, n.targets = q.targets, n.idx = q.idx,
             n.resuming = q.resuming, n.seen = q.seen, n.canceled = q.canceled
      PROVE  ProbeInv'
  <2>1. Undisturbed(n) /\ KeyAt(n) = KeyAt(o)
    BY <1>0, <1>q, <1>4 DEF Undisturbed, KeyAt
  <2>2. Owed(n) >= Owed(o)
    BY <1>0, <1>1, <1>q, <1>4 DEF Owed, Earlier, Current
  <2> QED
    BY <1>0, <1>4, <1>k, <2>1, <2>2, QuietRepays
<1>5. CASE Goto(r, e)
  <2> DEFINE why == IF q.reply.status >= 500 THEN "5xx" ELSE "4xx"
  <2> HIDE DEF why
  <2>1. LET n == [q EXCEPT !.pc = "error", !.reason = why] IN
        /\ n.pc = "error" /\ n.kind = q.kind /\ n.agent = q.agent /\ n.targets = q.targets /\ n.idx = q.idx
        /\ n.resuming = q.resuming /\ n.seen = q.seen /\ n.canceled = q.canceled
    BY <1>2, Zenon DEF Loop
  <2>2. Goto(r, [q EXCEPT !.pc = "error", !.reason = why])
    BY <1>5 DEF why
  <2> QED
    BY <1>4, <2>1, <2>2
<1>6. CASE Goto(r, [q EXCEPT !.pc = "head"])
  <2>1. LET n == [q EXCEPT !.pc = "head"] IN
        /\ n.pc = "head" /\ n.kind = q.kind /\ n.agent = q.agent /\ n.targets = q.targets /\ n.idx = q.idx
        /\ n.resuming = q.resuming /\ n.seen = q.seen /\ n.canceled = q.canceled
    BY <1>2, Zenon DEF Loop
  <2> QED
    BY <1>4, <1>6, <2>1
<1>7. CASE Goto(r, [q EXCEPT !.pc = "response"])
  <2>1. LET n == [q EXCEPT !.pc = "response"] IN
        /\ n.pc = "response" /\ n.kind = q.kind /\ n.agent = q.agent /\ n.targets = q.targets /\ n.idx = q.idx
        /\ n.resuming = q.resuming /\ n.seen = q.seen /\ n.canceled = q.canceled
    BY <1>2, Zenon DEF Loop
  <2> QED
    BY <1>4, <1>7, <2>1
<1>8. CASE /\ q.kind \in {"skip", "budget_skip", "network", "html"}
           /\ Goto(r, afterOutcome(a, q.kind = "network", 0))
  <2>1. Keeps(q, a, {})
    <3>1. (q.budgetSkipped \/ q.kind = "budget_skip") \in BOOLEAN /\ "dispatch" \in Reasons
      BY DEF Reasons
    <3> QED
      BY <1>2, <3>1, Zenon DEF Keeps, Loop
  <2> HIDE DEF a
  <2> DEFINE n == afterOutcome(a, q.kind = "network", 0)
  <2>2. Keeps(a, n, {"pc", "held", "same", "idx"}) /\ n.pc \in {"sweep", "exhausted"}
    BY <2>1, AfterOutcomeKeeps DEF Keeps
  <2>3. Goto(r, n)
    BY <1>8
  <2> HIDE DEF n
  <2>4. n.kind = q.kind /\ ~n.resuming /\ ~n.seen /\ ~n.canceled
    BY <1>q, <2>1, <2>2 DEF Keeps
  <2>5. Undisturbed(n) /\ Owed(n) = 0
    BY <1>0, <1>q, <2>2, <2>4 DEF Undisturbed, Owed, Earlier, Current
  <2>6. Owed(o) = 0
    BY <1>0, <1>1, <1>q, <1>8 DEF Owed, Earlier, Current
  <2> QED
    BY <1>0, <2>3, <2>5, <2>6, QuietRepays
<1> QED
  BY <1>3, <1>5, <1>6, <1>7, <1>8

(* A marked error's loop on its way out of the target.                     *)
LEMMA CorrectiveKeeps ==
    ASSUME NEW q \in Loop
    PROVE  /\ Keeps(q, corrective(q), {"pc", "held", "same", "idx"})
           /\ corrective(q).pc \in {"sweep", "exhausted"}
<1> DEFINE m == [q EXCEPT !.reason = "summarized", !.summarized = TRUE]
<1>1. "summarized" \in Reasons /\ TRUE \in BOOLEAN
  BY DEF Reasons
<1>2. Keeps(q, m, {})
  BY <1>1, Zenon DEF Keeps, Loop
<1>3. corrective(q) = afterOutcome(m, TRUE, q.reply.status)
  BY Zenon DEF corrective
<1> HIDE DEF m
<1>4. /\ Keeps(m, afterOutcome(m, TRUE, q.reply.status), {"pc", "held", "same", "idx"})
      /\ afterOutcome(m, TRUE, q.reply.status).pc \in {"sweep", "exhausted"}
  BY <1>2, AfterOutcomeKeeps DEF Keeps
<1> QED
  BY <1>2, <1>3, <1>4 DEF Keeps

(* RequestFault keeps the account of the probes.                           *)
LEMMA RequestFaultRepays ==
    ASSUME LoopInv, ProbeInv, NEW r \in Requests, RequestFault(r)
    PROVE  ProbeInv'
<1> DEFINE o == req[r]
           q == marked(o)
<1>0. /\ Sound(o) /\ o \in Loop /\ Undisturbed(o) /\ ~o.canceled /\ o.kind # "html"
      /\ o.pc = "error" /\ o.pc \in Handling /\ o.idx <= Len(o.targets) /\ Told(r)
  BY ReleaseTells DEF LoopInv, ProbeInv, Sound, Budgeted, Undisturbed, RequestFault, At, Handling
<1>1. Keeps(o, q, {"attempt", "last4xx", "limited"}) /\ q \in Loop
  BY <1>0, MarkedKeeps DEF Keeps
<1>2. \/ Goto(r, corrective(q))
      \/ Goto(r, done(write(q, "upstream_error")))
      \/ Goto(r, corrective([q EXCEPT !.stripped = TRUE]))
  BY <1>0 DEF RequestFault
<1> HIDE DEF q
<1>3. CASE Goto(r, corrective(q))
  <2>1. /\ Keeps(o, corrective(q), Rest) /\ corrective(q).kind # "html"
        /\ corrective(q).pc \in {"sweep", "exhausted", "backoff", "done"}
    BY <1>0, <1>1, CorrectiveKeeps DEF Keeps, Rest
  <2> QED
    BY <1>0, <1>3, <2>1, LeavesRepays
<1>4. CASE Goto(r, done(write(q, "upstream_error")))
  <2> DEFINE n == done(write(q, "upstream_error"))
  <2>1. Keeps(q, n, {"pc", "held", "answers", "answer"}) /\ n.pc = "done"
    <3>1. "upstream_error" \in Reports
      BY DEF Reports
    <3> QED
      BY <1>1, <3>1, AnswerKeeps
  <2> HIDE DEF n
  <2>2. Keeps(o, n, Rest) /\ n.kind # "html"
    BY <1>0, <1>1, <2>1 DEF Keeps, Rest
  <2> QED
    BY <1>0, <1>4, <2>1, <2>2, LeavesRepays DEF n
<1>5. CASE Goto(r, corrective([q EXCEPT !.stripped = TRUE]))
  <2> DEFINE m == [q EXCEPT !.stripped = TRUE]
  <2>1. Keeps(q, m, {})
    BY <1>1, Zenon DEF Keeps, Loop
  <2>2. Goto(r, corrective(m))
    BY <1>5
  <2> HIDE DEF m
  <2>3. /\ Keeps(o, corrective(m), Rest) /\ corrective(m).kind # "html"
        /\ corrective(m).pc \in {"sweep", "exhausted", "backoff", "done"}
    BY <1>0, <1>1, <2>1, CorrectiveKeeps DEF Keeps, Rest
  <2> QED
    BY <1>0, <2>2, <2>3, LeavesRepays
<1> QED
  BY <1>2, <1>3, <1>4, <1>5

(* A backed-off error keeps its target.                                    *)
LEMMA BackedOff ==
    ASSUME NEW q \in Loop, NEW retryable, NEW isQuota
    PROVE  LET n == backoff(q, retryable, isQuota) IN
           Keeps(q, n, {"pc", "kind", "last4xx"}) /\ n.pc = "backoff" /\ n.kind # "html"
<1> DEFINE n == backoff(q, retryable, isQuota)
           k == IF retryable /\ ~attemptsSpent(q) THEN "retry" ELSE "advance"
           u == q.quota \/ isQuota
           l == IF retryable /\ ~u /\ q.reply.status \in (400..499) \ {429} THEN q.reply.status ELSE 0
<1>1. n = [q EXCEPT !.pc = "backoff", !.quota = u, !.kind = k, !.last4xx = l]
  BY Zenon DEF backoff
<1>2. k # "html"
  OBVIOUS
<1> HIDE DEF k, u, l
<1>3. [q EXCEPT !.pc = "backoff", !.quota = u, !.kind = k, !.last4xx = l].kind = k
  BY Zenon DEF Loop
<1>4. n.kind # "html"
  BY <1>1, <1>2, <1>3, Zenon
<1>5. Keeps(q, n, {"pc", "kind", "last4xx"}) /\ n.pc = "backoff"
  BY BackoffKeeps
<1> QED
  BY <1>4, <1>5

(* The classified error is reported before the backoff.                    *)
LEMMA UpstreamErrorRepays ==
    ASSUME LoopInv, ProbeInv, NEW r \in Requests,
           ForceCooldown(r) \/ RateLimited(r) \/ handleUpstreamError(r)
    PROVE  ProbeInv'
<1> DEFINE o == req[r]
           q == marked(o)
<1>0. /\ Sound(o) /\ o \in Loop /\ Undisturbed(o) /\ ~o.canceled /\ o.kind # "html" /\ AllShaped
      /\ o.pc \in {"error", "cooled"} /\ o.pc \in Handling /\ o.idx <= Len(o.targets)
  BY DEF LoopInv, ProbeInv, Sound, Budgeted, Undisturbed, ForceCooldown, RateLimited, handleUpstreamError,
         At, Handling
<1>k. KeyOf(r) = KeyAt(o) /\ Byok(r) = o.agent.byok
  BY DEF KeyOf, Target, KeyAt, Byok
<1>r. ~o.resuming /\ ~o.seen
  BY <1>0 DEF Sound, Answered, Undisturbed
<1>1. Keeps(o, q, {"attempt", "last4xx", "limited"}) /\ q \in Loop
  BY <1>0, MarkedKeeps DEF Keeps
<1>2. ASSUME NEW p, Keeps(o, p, {"attempt", "last4xx", "limited"}), NEW retryable, NEW isQuota,
             Goto(r, backoff(p, retryable, isQuota)), Told(r)
      PROVE  ProbeInv'
  <2> DEFINE n == backoff(p, retryable, isQuota)
  <2>1. Keeps(p, n, {"pc", "kind", "last4xx"}) /\ n.pc = "backoff" /\ n.kind # "html"
    <3>1. p \in Loop
      BY <1>2 DEF Keeps
    <3> QED
      BY <3>1, BackedOff
  <2>2. Goto(r, n)
    BY <1>2
  <2> HIDE DEF n
  <2>3. Keeps(o, n, Rest)
    BY <1>2, <2>1 DEF Keeps, Rest
  <2> QED
    BY <1>0, <1>2, <2>1, <2>2, <2>3, LeavesRepays
<1>3. CASE ForceCooldown(r)
  <2> DEFINE n == [q EXCEPT !.pc = "cooled"]
  <2>1. PICK cd : ForceOpen(KeyOf(r), cd)
    BY <1>3 DEF ForceCooldown
  <2>2. Goto(r, n) /\ o.pc = "error"
    BY <1>3 DEF ForceCooldown, At
  <2> HIDE DEF q
  <2>3. /\ n.pc = "cooled" /\ n.kind = q.kind /\ n.agent = q.agent /\ n.targets = q.targets /\ n.idx = q.idx
        /\ n.resuming = q.resuming /\ n.seen = q.seen /\ n.canceled = q.canceled
    BY <1>1, Zenon DEF Loop
  <2> HIDE DEF n
  <2>4. /\ n.pc = "cooled" /\ n.kind = o.kind /\ n.agent = o.agent /\ KeyAt(n) = KeyAt(o)
        /\ ~n.resuming /\ ~n.seen /\ ~n.canceled
    BY <1>0, <1>r, <1>1, <2>3 DEF Keeps, KeyAt
  <2>5. Undisturbed(n) /\ Owed(n) = Owed(o)
    BY <1>0, <1>r, <2>2, <2>4 DEF Undisturbed, Owed, Earlier, Current
  <2>6. Accounted(KeyOf(r), -1)
    BY <1>0, <2>1, OutcomeAccounted
  <2>7. Owed(n) >= Owed(o) + (-1) /\ -1 \in Int
    BY <2>5, OwedType
  <2> QED
    BY <1>k, <2>2, <2>4, <2>5, <2>6, <2>7, StepRepays
<1>4. CASE RateLimited(r)
  <2>1. Keeps(o, o, {"attempt", "last4xx", "limited"})
    BY <1>0 DEF Keeps
  <2>2. Goto(r, backoff(o, TRUE, has(o, "quota"))) /\ ChargeStatus(r, o.reply)
    BY <1>4 DEF RateLimited
  <2>3. Told(r)
    BY <1>0, <2>2, ChargeTells
  <2> QED
    BY <1>2, <2>1, <2>2, <2>3
<1>5. CASE handleUpstreamError(r)
  <2>1. \/ Release(r) \/ RecordOpaqueFailure(KeyOf(r)) \/ ChargeStatus(r, q.reply)
        \/ Byok(r) /\ NoOutcome
    BY <1>5, Zenon DEF handleUpstreamError
  <2>2. Told(r)
    <3>1. CASE Release(r) \/ RecordOpaqueFailure(KeyOf(r))
      BY <1>0, <3>1, ReleaseTells
    <3>2. CASE ChargeStatus(r, q.reply)
      BY <1>0, <3>2, ChargeTells
    <3>3. CASE Byok(r) /\ NoOutcome
      BY <1>0, <3>3, SilenceAccounted DEF Told, NoOutcome, vars
    <3> QED
      BY <2>1, <3>1, <3>2, <3>3
  <2>3. \/ \E retryable, isQuota : Goto(r, backoff(q, retryable, isQuota))
        \/ Goto(r, done(write(q, "upstream_error")))
    <3>1. \/ Goto(r, backoff(q, TRUE, FALSE)) \/ Goto(r, backoff(q, FALSE, FALSE))
          \/ Goto(r, backoff(q, TRUE, has(q, "quota")))
          \/ Goto(r, backoff(q, TRUE, has(q, "adapter_quota")))
          \/ Goto(r, done(write(q, "upstream_error")))
      BY <1>5 DEF handleUpstreamError
    <3> HIDE DEF q
    <3> QED
      BY <3>1, Zenon
  <2> HIDE DEF q
  <2>4. CASE \E retryable, isQuota : Goto(r, backoff(q, retryable, isQuota))
    BY <1>1, <1>2, <2>2, <2>4
  <2>5. CASE Goto(r, done(write(q, "upstream_error")))
    <3> DEFINE n == done(write(q, "upstream_error"))
    <3>1. Keeps(q, n, {"pc", "held", "answers", "answer"}) /\ n.pc = "done"
      <4>1. "upstream_error" \in Reports
        BY DEF Reports
      <4> QED
        BY <1>1, <4>1, AnswerKeeps
    <3> HIDE DEF n
    <3>2. Keeps(o, n, Rest) /\ n.kind # "html"
      BY <1>0, <1>1, <3>1 DEF Keeps, Rest
    <3> QED
      BY <1>0, <2>2, <2>5, <3>1, <3>2, LeavesRepays DEF n
  <2> QED
    BY <2>3, <2>4, <2>5
<1> QED
  BY <1>3, <1>4, <1>5

(* Backoff keeps the account of the probes.                                *)
LEMMA BackoffRepays ==
    ASSUME LoopInv, ProbeInv, NEW r \in Requests, Backoff(r)
    PROVE  ProbeInv'
<1> DEFINE q == req[r]
           n == afterOutcome(q, q.kind = "retry", q.reply.status)
<1>0. /\ Sound(q) /\ q \in Loop /\ q.pc = "backoff" /\ q.pc \in Handling /\ Undisturbed(q)
      /\ Goto(r, n) /\ circuits' = circuits
  BY DEF LoopInv, ProbeInv, Sound, Backoff, At, Handling, NoOutcome, vars
<1>1. ~q.resuming /\ ~q.seen /\ ~q.canceled /\ q.kind # "html"
  BY <1>0 DEF Sound, Answered, Undisturbed
<1>2. Keeps(q, n, {"pc", "held", "same", "idx"}) /\ n.pc \in {"sweep", "exhausted"}
  BY <1>0, AfterOutcomeKeeps
<1> HIDE DEF n
<1>3. n.kind = q.kind /\ ~n.resuming /\ ~n.seen /\ ~n.canceled
  BY <1>1, <1>2 DEF Keeps
<1>4. Undisturbed(n) /\ Owed(n) = 0
  BY <1>1, <1>2, <1>3 DEF Undisturbed, Owed, Earlier, Current
<1>5. Owed(q) = 0
  BY <1>0, <1>1 DEF Owed, Earlier, Current
<1> QED
  BY <1>0, <1>4, <1>5, QuietRepays

(* Response keeps the account of the probes.                               *)
LEMMA ResponseRepays ==
    ASSUME LoopInv, ProbeInv, NEW r \in Requests, Response(r)
    PROVE  ProbeInv'
<1> DEFINE q == req[r]
<1>0. /\ Sound(q) /\ q \in Loop /\ q.pc = "response" /\ q.pc \in Handling /\ q.kind # "html"
      /\ ~q.canceled /\ AllShaped
  BY DEF LoopInv, ProbeInv, Sound, Undisturbed, Response, At, Handling
<1>1. Served(r) \/ Charge(r, AgentCooldown) \/ Release(r)
  BY <1>0 DEF Response
<1>2. Told(r)
  BY <1>0, <1>1, ReleaseTells, ChargeTells
<1>3. \/ Goto(r, afterOutcome(q, TRUE, 0))
      \/ \E what \in {"served", "read_error", "blocked"} : Goto(r, done(write(q, what)))
  BY Zenon DEF Response
<1> HIDE DEF q
<1>4. CASE Goto(r, afterOutcome(q, TRUE, 0))
  <2> DEFINE n == afterOutcome(q, TRUE, 0)
  <2>1. Keeps(q, n, {"pc", "held", "same", "idx"}) /\ n.pc \in {"sweep", "exhausted"}
    BY <1>0, AfterOutcomeKeeps
  <2> HIDE DEF n
  <2>2. Keeps(q, n, Rest) /\ n.kind # "html"
    BY <1>0, <2>1 DEF Keeps, Rest
  <2> QED
    BY <1>0, <1>2, <1>4, <2>1, <2>2, LeavesRepays DEF n, q
<1>5. ASSUME NEW what \in {"served", "read_error", "blocked"}, Goto(r, done(write(q, what)))
      PROVE  ProbeInv'
  <2> DEFINE n == done(write(q, what))
  <2>1. Keeps(q, n, {"pc", "held", "answers", "answer"}) /\ n.pc = "done"
    <3>1. what \in Reports
      BY DEF Reports
    <3> QED
      BY <1>0, <3>1, AnswerKeeps
  <2> HIDE DEF n
  <2>2. Keeps(q, n, Rest) /\ n.kind # "html"
    BY <1>0, <2>1 DEF Keeps, Rest
  <2> QED
    BY <1>0, <1>2, <1>5, <2>1, <2>2, LeavesRepays DEF n, q
<1> QED
  BY <1>3, <1>4, <1>5

(* StreamHead keeps the account of the probes.                             *)
LEMMA StreamHeadRepays ==
    ASSUME LoopInv, ProbeInv, NEW r \in Requests, StreamHead(r)
    PROVE  ProbeInv'
<1> DEFINE q == req[r]
<1>0. /\ Sound(q) /\ q \in Loop /\ q.pc = "head" /\ q.pc \in Handling /\ q.kind # "html"
      /\ ~q.canceled /\ AllShaped
  BY DEF LoopInv, ProbeInv, Sound, Undisturbed, StreamHead, At, Handling
<1>r. ~q.resuming /\ ~q.seen
  BY <1>0 DEF Sound, Answered, ProbeInv, Undisturbed
<1>k. KeyOf(r) = KeyAt(q)
  BY DEF KeyOf, Target, KeyAt
<1>1. \/ Goto(r, [write(q, "stream") EXCEPT !.pc = "copying"]) /\ NoOutcome
      \/ \E why \in {"stream", "policy"} :
            /\ Goto(r, afterOutcome([q EXCEPT !.reason = why], TRUE, 0))
            /\ Charge(r, AgentCooldown) \/ Release(r)
  BY Zenon DEF StreamHead
<1>2. CASE Goto(r, [write(q, "stream") EXCEPT !.pc = "copying"]) /\ NoOutcome
  <2> DEFINE m == write(q, "stream")
             n == [m EXCEPT !.pc = "copying"]
  <2>1. Goto(r, n) /\ circuits' = circuits
    BY <1>2 DEF NoOutcome, vars
  <2>2. Keeps(q, m, {"answers", "answer"}) /\ m \in Loop
    <3>1. "stream" \in Reports
      BY DEF Reports
    <3> QED
      BY <1>0, <3>1, WriteKeeps DEF Keeps
  <2> HIDE DEF m
  <2>3. /\ n.pc = "copying" /\ n.kind = m.kind /\ n.agent = m.agent /\ n.targets = m.targets /\ n.idx = m.idx
        /\ n.resuming = m.resuming /\ n.seen = m.seen /\ n.canceled = m.canceled
    BY <2>2, Zenon DEF Loop
  <2> HIDE DEF n
  <2>4. /\ n.kind = q.kind /\ n.agent = q.agent /\ KeyAt(n) = KeyAt(q)
        /\ ~n.resuming /\ ~n.seen /\ ~n.canceled
    BY <1>0, <1>r, <2>2, <2>3 DEF Keeps, KeyAt
  <2>5. Undisturbed(n) /\ Owed(n) = Owed(q)
    BY <1>0, <1>r, <2>3, <2>4 DEF Undisturbed, Owed, Earlier, Current
  <2>6. Owed(n) >= Owed(q)
    BY <2>5, OwedType
  <2> QED
    BY <1>k, <2>1, <2>4, <2>5, <2>6, QuietRepays
<1>3. ASSUME NEW why \in {"stream", "policy"}, Goto(r, afterOutcome([q EXCEPT !.reason = why], TRUE, 0)),
             Charge(r, AgentCooldown) \/ Release(r)
      PROVE  ProbeInv'
  <2> DEFINE m == [q EXCEPT !.reason = why]
             n == afterOutcome(m, TRUE, 0)
  <2>1. Told(r)
    BY <1>0, <1>3, ReleaseTells, ChargeTells
  <2>2. Keeps(q, m, {})
    <3>1. why \in Reasons
      BY DEF Reasons
    <3> QED
      BY <1>0, <3>1, Zenon DEF Keeps, Loop
  <2>3. Goto(r, n)
    BY <1>3
  <2> HIDE DEF m
  <2>4. Keeps(m, n, {"pc", "held", "same", "idx"}) /\ n.pc \in {"sweep", "exhausted"}
    BY <2>2, AfterOutcomeKeeps DEF Keeps
  <2> HIDE DEF n
  <2>5. Keeps(q, n, Rest) /\ n.kind # "html"
    BY <1>0, <2>2, <2>4 DEF Keeps, Rest
  <2> QED
    BY <1>0, <2>1, <2>3, <2>4, <2>5, LeavesRepays
<1> QED
  BY <1>1, <1>2, <1>3

(* A stream that ends has told the breaker: an error event in it, its      *)
(* completion or its failure.                                              *)
LEMMA StreamEndRepays ==
    ASSUME LoopInv, ProbeInv, NEW r \in Requests, Goto(r, done(req[r])),
           \/ req[r].pc = "copying" /\ (Told(r) \/ (req[r].seen /\ circuits' = circuits))
           \/ req[r].pc = "gave_up" /\ Told(r)
    PROVE  ProbeInv'
<1> DEFINE q == req[r]
           n == done(q)
<1>0. Sound(q) /\ q \in Loop /\ Undisturbed(q) /\ q.pc \in {"copying", "gave_up"}
  BY DEF LoopInv, ProbeInv, Sound
<1>1. Goto(r, n) /\ Keeps(q, n, {"pc", "held"}) /\ n.pc = "done"
  BY <1>0, DoneKeeps
<1>k. KeyOf(r) = KeyAt(q) /\ Byok(r) = q.agent.byok
  BY DEF KeyOf, Target, KeyAt, Byok
<1> HIDE DEF n
<1>2. n.kind = q.kind /\ ~n.canceled /\ n.kind # "html"
  BY <1>0, <1>1 DEF Keeps, Undisturbed
<1>3. Undisturbed(n) /\ Owed(n) = 0
  BY <1>1, <1>2 DEF Undisturbed, Owed, Earlier, Current
<1>4. Current(q) = 0 /\ Earlier(q) \in {0, 1} /\ (q.seen => Earlier(q) = 0)
  BY <1>0 DEF Current, Earlier
<1>5. CASE Told(r)
  <2>1. (Byok(r) => Owed(q) = 0) /\ (~Byok(r) => Owed(n) >= Owed(q) - 1)
    BY <1>3, <1>4, <1>k DEF Owed
  <2> QED
    BY <1>1, <1>3, <1>5, <2>1, ToldRepays
<1>6. CASE q.seen /\ circuits' = circuits
  <2>1. Owed(q) = 0
    BY <1>4, <1>6 DEF Owed
  <2> QED
    BY <1>1, <1>3, <1>6, <2>1, QuietRepays
<1> QED
  BY <1>5, <1>6

(* StreamCopy keeps the account of the probes.                             *)
LEMMA StreamCopyRepays ==
    ASSUME LoopInv, ProbeInv, NEW r \in Requests,
           StreamErrorEvent(r) \/ handleStreamDone(r) \/ StreamCut(r) \/ GaveUp(r)
    PROVE  ProbeInv'
<1> DEFINE q == req[r]
<1>0. Sound(q) /\ q \in Loop /\ Undisturbed(q) /\ ~q.canceled /\ q.kind # "html" /\ AllShaped
  BY DEF LoopInv, ProbeInv, Sound, Undisturbed
<1>k. KeyOf(r) = KeyAt(q) /\ Byok(r) = q.agent.byok
  BY DEF KeyOf, Target, KeyAt, Byok
<1>1. CASE StreamErrorEvent(r)
  <2> DEFINE n == [q EXCEPT !.seen = TRUE]
  <2>1. Goto(r, n) /\ Charge(r, 0) /\ q.pc = "copying"
    BY <1>1 DEF StreamErrorEvent, At
  <2>2. Told(r)
    BY <1>0, <2>1, ChargeTells
  <2> HIDE DEF q
  <2>3. /\ n.pc = q.pc /\ n.kind = q.kind /\ n.agent = q.agent /\ n.targets = q.targets /\ n.idx = q.idx
        /\ n.resuming = q.resuming /\ n.canceled = q.canceled
    BY <1>0, Zenon DEF Loop
  <2> HIDE DEF n
  <2>4. Undisturbed(n) /\ KeyAt(n) = KeyAt(q)
    BY <1>0, <2>1, <2>3 DEF Undisturbed, KeyAt
  <2>5. (q.agent.byok => Owed(q) = 0) /\ (~q.agent.byok => Owed(n) >= Owed(q) - 1)
    BY <2>1, <2>3 DEF Owed, Earlier, Current
  <2>6. (Byok(r) => Owed(q) = 0) /\ (~Byok(r) => Owed(n) >= Owed(q) - 1)
    BY <1>k, <2>5
  <2> QED
    BY <1>k, <2>1, <2>2, <2>4, <2>6, ToldRepays DEF q
<1>2. CASE handleStreamDone(r)
  <2>1. /\ q.pc = "copying" /\ Goto(r, done(q))
        /\ Served(r) \/ Release(r) \/ Charge(r, AgentCooldown) \/ (q.seen /\ NoOutcome)
    BY <1>2 DEF handleStreamDone, At
  <2>2. Told(r) \/ (q.seen /\ circuits' = circuits)
    BY <1>0, <2>1, ReleaseTells, ChargeTells DEF NoOutcome, vars
  <2> QED
    BY <2>1, <2>2, StreamEndRepays
<1>3. CASE StreamCut(r)
  <2>1. CASE Goto(r, done(q)) /\ Release(r)
    BY <1>0, <1>3, <2>1, ReleaseTells, StreamEndRepays DEF StreamCut, At
  <2>2. CASE Goto(r, [q EXCEPT !.pc = "guards", !.resuming = TRUE]) /\ NoOutcome
    <3> DEFINE n == [q EXCEPT !.pc = "guards", !.resuming = TRUE]
    <3>1. Goto(r, n) /\ circuits' = circuits /\ q.pc = "copying"
      BY <1>3, <2>2 DEF StreamCut, At, NoOutcome, vars
    <3> HIDE DEF q
    <3>2. /\ n.pc = "guards" /\ n.kind = q.kind /\ n.agent = q.agent /\ n.targets = q.targets
          /\ n.idx = q.idx /\ n.resuming /\ n.seen = q.seen /\ n.canceled = q.canceled
      BY <1>0, Zenon DEF Loop
    <3> HIDE DEF n
    <3>3. Undisturbed(n) /\ KeyAt(n) = KeyAt(q)
      BY <1>0, <3>2 DEF Undisturbed, KeyAt
    <3>4. Owed(n) >= Owed(q)
      BY <3>1, <3>2 DEF Owed, Earlier, Current
    <3> QED
      BY <1>k, <3>1, <3>3, <3>4, QuietRepays DEF q
  <2> QED
    BY <1>3, <2>1, <2>2 DEF StreamCut
<1>4. CASE GaveUp(r)
  BY <1>0, <1>4, ReleaseTells, StreamEndRepays DEF GaveUp, At
<1> QED
  BY <1>1, <1>2, <1>3, <1>4

(* resolveRedispatchOutcome keeps the account of the probes.               *)
LEMMA resolveRedispatchOutcomeRepays ==
    ASSUME LoopInv, ProbeInv, NEW r \in Requests, resolveRedispatchOutcome(r)
    PROVE  ProbeInv'
<1> DEFINE q == req[r]
<1>0. /\ Sound(q) /\ q \in Loop /\ Undisturbed(q) /\ ~q.canceled /\ q.kind # "html" /\ AllShaped
      /\ q.pc = "resumed" /\ q.resuming
  BY DEF LoopInv, ProbeInv, Sound, Undisturbed, resolveRedispatchOutcome, At, Answered
<1>k. KeyOf(r) = KeyAt(q) /\ Byok(r) = q.agent.byok
  BY DEF KeyOf, Target, KeyAt, Byok
<1>1. CASE /\ Goto(r, [q EXCEPT !.pc = "copying", !.resuming = FALSE, !.resumes = @ + 1, !.held = 1])
           /\ Release(r)
  <2> DEFINE n == [q EXCEPT !.pc = "copying", !.resuming = FALSE, !.resumes = @ + 1, !.held = 1]
  <2>1. Goto(r, n) /\ Told(r)
    BY <1>0, <1>1, ReleaseTells
  <2> HIDE DEF q
  <2>2. /\ n.pc = "copying" /\ n.kind = q.kind /\ n.agent = q.agent /\ n.targets = q.targets
        /\ n.idx = q.idx /\ ~n.resuming /\ n.seen = q.seen /\ n.canceled = q.canceled
    BY <1>0, Zenon DEF Loop
  <2> HIDE DEF n
  <2>3. Undisturbed(n) /\ KeyAt(n) = KeyAt(q)
    BY <1>0, <2>2 DEF Undisturbed, KeyAt
  <2>4. (q.agent.byok => Owed(q) = 0) /\ (~q.agent.byok => Owed(n) >= Owed(q) - 1)
    BY <1>0, <2>2 DEF Owed, Earlier, Current
  <2>5. (Byok(r) => Owed(q) = 0) /\ (~Byok(r) => Owed(n) >= Owed(q) - 1)
    BY <1>k, <2>4
  <2> QED
    BY <1>k, <2>1, <2>3, <2>5, ToldRepays DEF q
<1>2. CASE /\ Goto(r, [q EXCEPT !.pc = "gave_up"])
           /\ \/ ChargeStatus(r, bodiless(q.reply)) \/ Release(r)
              \/ ~attempted(q.kind) /\ NoOutcome
  <2> DEFINE n == [q EXCEPT !.pc = "gave_up"]
  <2>1. Goto(r, n) /\ (Told(r) \/ (q.kind \in {"skip", "budget_skip"} /\ circuits' = circuits))
    BY <1>0, <1>2, ReleaseTells, ChargeTells DEF attempted, NoOutcome, vars
  <2> HIDE DEF q
  <2>2. /\ n.pc = "gave_up" /\ n.kind = q.kind /\ n.agent = q.agent /\ n.targets = q.targets
        /\ n.idx = q.idx /\ n.resuming = q.resuming /\ n.seen = q.seen /\ n.canceled = q.canceled
    BY <1>0, Zenon DEF Loop
  <2> HIDE DEF n
  <2>3. Undisturbed(n) /\ KeyAt(n) = KeyAt(q)
    BY <1>0, <2>2 DEF Undisturbed, KeyAt
  <2>4. CASE Told(r)
    <3>1. (q.agent.byok => Owed(q) = 0) /\ (~q.agent.byok => Owed(n) >= Owed(q) - 1)
      BY <1>0, <2>2 DEF Owed, Earlier, Current
    <3>2. (Byok(r) => Owed(q) = 0) /\ (~Byok(r) => Owed(n) >= Owed(q) - 1)
      BY <1>k, <3>1
    <3> QED
      BY <1>k, <2>1, <2>3, <2>4, <3>2, ToldRepays DEF q
  <2>5. CASE q.kind \in {"skip", "budget_skip"} /\ circuits' = circuits
    <3>1. Owed(n) >= Owed(q)
      BY <1>0, <2>2, <2>5 DEF Owed, Earlier, Current
    <3> QED
      BY <1>k, <2>1, <2>3, <2>5, <3>1, QuietRepays DEF q
  <2> QED
    BY <2>1, <2>4, <2>5
<1> QED
  BY <1>1, <1>2, Zenon DEF resolveRedispatchOutcome

(* Exhausted keeps the account of the probes.                              *)
LEMMA ExhaustedRepays ==
    ASSUME LoopInv, ProbeInv, NEW r \in Requests, Exhausted(r)
    PROVE  ProbeInv'
<1> DEFINE q == req[r]
           n == done(write(q, report(q)))
<1>0. /\ Sound(q) /\ q \in Loop /\ q.pc = "exhausted" /\ ~q.canceled /\ q.kind # "html"
      /\ circuits' = circuits
  BY DEF LoopInv, ProbeInv, Sound, Exhausted, At, Undisturbed, NoOutcome, vars
<1>1. Goto(r, n)
  BY <1>0 DEF Exhausted
<1>2. ~q.resuming /\ report(q) \in Reports
  BY <1>0 DEF Sound, Answered, report, Reports
<1>3. Keeps(q, n, {"pc", "held", "answers", "answer"}) /\ n.pc = "done"
  BY <1>0, <1>2, AnswerKeeps
<1> HIDE DEF n
<1>4. n.kind = q.kind /\ ~n.canceled
  BY <1>0, <1>3 DEF Keeps
<1>5. Undisturbed(n) /\ Owed(n) = 0
  BY <1>0, <1>3, <1>4 DEF Undisturbed, Owed, Earlier, Current
<1>6. Owed(q) = 0
  BY <1>0, <1>2 DEF Owed, Earlier, Current
<1> QED
  BY <1>0, <1>1, <1>5, <1>6, QuietRepays

-----------------------------------------------------------------------------

(* No probe is out at the start.                                           *)
LEMMA InitProbes == DInit => ProbeInv
<1> SUFFICES ASSUME DInit PROVE ProbeInv
  OBVIOUS
<1>1. DOMAIN circuits = {}
  BY DEF DInit, Init
<1>2. ~Idle.canceled /\ ~Idle.seen /\ Idle.kind = "none"
  BY DEF Idle, newRetryLoop
<1>3. req = [r \in Requests |-> Idle]
  BY DEF DInit
<1> HIDE DEF Idle
<1>4. \A r \in Requests : Undisturbed(req[r])
  BY <1>2, <1>3 DEF Undisturbed
<1> QED
  BY <1>1, <1>4 DEF ProbeInv, AllShaped, Repaid

(* Every step keeps the account while the client stays and no page comes.  *)
LEMMA NextProbes ==
    ASSUME Faults \cap {"cancel", "html"} = {}, LoopInv, ProbeInv, [DNext]_dvars
    PROVE  ProbeInv'
<1>1. CASE UNCHANGED <<circuits, req>>
  <2>1. \A k : OwedOn(k)' = OwedOn(k)
    BY <1>1 DEF OwedOn, OwedIn
  <2> QED
    BY <1>1, <2>1 DEF ProbeInv, AllShaped, Repaid
<1>2. ASSUME NEW r \in Requests, Start(r) \/ Cancel(r) \/ Step(r)
      PROVE  ProbeInv'
  <2>1. CASE Start(r) \/ Sweep(r) \/ prepareAndSend(r)
    BY <2>1, StartRepays, SweepRepays, prepareAndSendRepays
  <2>2. CASE Cancel(r) \/ ReturnedCanceled(r)
    BY <2>2 DEF Cancel, ReturnedCanceled, ProbeInv, Undisturbed
  <2>3. CASE handleActionResult(r) \/ RequestFault(r) \/ ForceCooldown(r) \/ RateLimited(r)
             \/ handleUpstreamError(r) \/ Backoff(r) \/ Response(r)
    BY <2>3, handleActionResultRepays, RequestFaultRepays, UpstreamErrorRepays, BackoffRepays, ResponseRepays
  <2>4. CASE StreamHead(r) \/ StreamErrorEvent(r) \/ handleStreamDone(r) \/ StreamCut(r)
             \/ resolveRedispatchOutcome(r) \/ GaveUp(r) \/ Exhausted(r)
    BY <2>4, StreamHeadRepays, StreamCopyRepays, resolveRedispatchOutcomeRepays, ExhaustedRepays
  <2> QED
    BY <1>2, <2>1, <2>2, <2>3, <2>4 DEF Step
<1> QED
  BY <1>1, <1>2 DEF DNext, dvars, Tick

(* What a loop owes, it has not settled.                                   *)
LEMMA OwedUnsettled ==
    ASSUME LoopInv, NEW k
    PROVE  /\ OwedOn(k) \subseteq UnsettledOn(k)
           /\ IsFiniteSet(UnsettledOn(k)) /\ Cardinality(OwedOn(k)) <= Cardinality(UnsettledOn(k))
<1>1. ASSUME NEW r \in Requests, KeyAt(req[r]) = k PROVE Owed(req[r]) <= Unsettled(r, k)
  <2>1. /\ req[r].pc \in {"idle", "sweep", "backoff", "exhausted"} => ~req[r].resuming
        /\ req[r].pc = "copying" => ~req[r].resuming
    BY DEF LoopInv, Sound, Answered, Handling
  <2>2. KeyOf(r) = k /\ Byok(r) = req[r].agent.byok
    BY <1>1 DEF KeyOf, Target, KeyAt, Byok
  <2>3. CASE req[r].pc \in {"idle", "sweep", "backoff", "exhausted", "done"} \/ req[r].agent.byok
    <3>1. Owed(req[r]) = 0
      BY <2>1, <2>3 DEF Owed, Earlier, Current
    <3> QED
      BY <2>2, <2>3, <3>1 DEF Unsettled
  <2>4. CASE req[r].pc \notin {"idle", "sweep", "backoff", "exhausted", "done"} /\ ~req[r].agent.byok
    <3>1. Unsettled(r, k) = IF req[r].pc = "guards" THEN (IF req[r].resuming THEN 1 ELSE 0)
                            ELSE (IF req[r].resuming THEN 2 ELSE 1)
      BY <2>2, <2>4 DEF Unsettled
    <3>2. Earlier(req[r]) \in {0, 1} /\ Current(req[r]) \in {0, 1}
      BY DEF Earlier, Current
    <3>3. Owed(req[r]) = Earlier(req[r]) + Current(req[r])
      BY <2>4 DEF Owed
    <3>4. CASE req[r].pc = "guards"
      <4>1. Current(req[r]) = 0 /\ (~req[r].resuming => Earlier(req[r]) = 0)
        BY <3>4 DEF Current, Earlier
      <4> QED
        BY <3>1, <3>2, <3>3, <3>4, <4>1
    <3>5. CASE req[r].pc = "copying"
      <4>1. Current(req[r]) = 0
        BY <3>5 DEF Current
      <4> QED
        BY <3>1, <3>2, <3>3, <3>5, <4>1
    <3>6. CASE req[r].pc \notin {"guards", "copying"}
      <4>1. ~req[r].resuming => Earlier(req[r]) = 0
        BY <3>6 DEF Earlier
      <4> QED
        BY <3>1, <3>2, <3>3, <3>6, <4>1
    <3> QED
      BY <3>4, <3>5, <3>6
  <2> QED
    BY <2>3, <2>4
<1>2. OwedOn(k) \subseteq UnsettledOn(k)
  <2>1. SUFFICES ASSUME NEW r \in Requests, NEW j \in {1, 2}, j <= Owed(req[r]), KeyAt(req[r]) = k
                 PROVE  j <= Unsettled(r, k)
    BY DEF OwedOn, OwedIn, UnsettledOn
  <2>2. Unsettled(r, k) \in {0, 1, 2} /\ Owed(req[r]) \in {0, 1, 2}
    BY OwedType DEF Unsettled
  <2> QED
    BY <1>1, <2>1, <2>2
<1>3. IsFiniteSet(UnsettledOn(k))
  <2>1. IsFiniteSet({1, 2})
    <3>1. 1..2 = {1, 2} /\ 1 \in Int /\ 2 \in Int
      OBVIOUS
    <3>2. IsFiniteSet(1..2)
      BY <3>1, FS_Interval
    <3> QED
      BY <3>1, <3>2, Zenon
  <2>2. IsFiniteSet(Requests \X {1, 2})
    BY <2>1, FS_Product, DispatchAssumption
  <2>3. UnsettledOn(k) \subseteq Requests \X {1, 2}
    BY DEF UnsettledOn
  <2> QED
    BY <2>2, <2>3, FS_Subset
<1>4. Cardinality(OwedOn(k)) <= Cardinality(UnsettledOn(k))
  BY <1>2, <1>3, FS_Subset
<1> QED
  BY <1>2, <1>3, <1>4

(* An account that balances leaks no probe.                                *)
LEMMA RepaidIsNoLeak ==
    ASSUME LoopInv, ProbeInv
    PROVE  NoProbeLeak
<1> SUFFICES ASSUME NEW k \in DOMAIN circuits
             PROVE  circuits[k].inflight <= Cardinality(UnsettledOn(k))
  BY DEF NoProbeLeak
<1>1. circuits[k].inflight <= Cardinality(OwedOn(k)) /\ circuits[k].inflight \in Nat
  BY DEF ProbeInv, Repaid, AllShaped, Shaped
<1>2. IsFiniteSet(UnsettledOn(k)) /\ Cardinality(OwedOn(k)) <= Cardinality(UnsettledOn(k))
  BY OwedUnsettled
<1>3. Cardinality(UnsettledOn(k)) \in Nat
  BY <1>2, FS_CardinalityType
<1>4. Cardinality(OwedOn(k)) \in Nat
  BY OwedFinite DEF OwedOn
<1> QED
  BY <1>1, <1>2, <1>3, <1>4

(* chat.go, retry.go, stream_recovery.go: whatever way a request leaves a  *)
(* target, its probe goes back to the breaker and its slot to the limiter, *)
(* as long as the client stays and the upstream answers no HTML page, the  *)
(* two outcomes the code does not report.                                  *)
THEOREM LeakFree ==
    ASSUME Faults \cap {"cancel", "html"} = {}
    PROVE  DSpec => []NothingLeaks
<1>1. DInit => Inv /\ ProbeInv
  BY InitInv, InitProbes
<1>2. Inv /\ ProbeInv /\ [DNext]_dvars => (Inv /\ ProbeInv)'
  <2>1. Inv => LoopInv
    BY DEF Inv
  <2> QED
    BY <2>1, NextInv, NextProbes
<1>3. Inv /\ ProbeInv /\ SlotDiscipline => NothingLeaks
  BY RepaidIsNoLeak DEF Inv, NothingLeaks
<1> QED
  BY <1>1, <1>2, <1>3, SlotsHeld, PTL DEF DSpec

-----------------------------------------------------------------------------
(* The breaker as the dispatcher uses it: with room for the circuits of    *)
(* all keys nothing is swept.                                              *)
LEMMA NothingSwept ==
    ASSUME TypeOK
    PROVE  /\ ~atCapacity /\ evictForCapacity = {{}}
           /\ pruneExpiredLocks = modelLocks /\ resetLevels({}) = levels
<1>1. IsFiniteSet(Keys) /\ DOMAIN circuits \subseteq Keys
  BY LimitAssumption DEF TypeOK
<1>2. IsFiniteSet(DOMAIN circuits) /\ Cardinality(DOMAIN circuits) <= Cardinality(Keys)
  BY <1>1, FS_Subset
<1>3. Cardinality(DOMAIN circuits) \in Nat /\ Cardinality(Keys) \in Nat
  BY <1>1, <1>2, FS_CardinalityType
<1>4. ~atCapacity
  BY <1>2, <1>3, DispatchAssumption, LimitAssumption DEF atCapacity
<1>5. evictForCapacity = {{}}
  BY <1>4 DEF evictForCapacity
<1>6. pruneExpiredLocks = modelLocks
  BY <1>4 DEF pruneExpiredLocks, TypeOK
<1>7. resetLevels({}) = levels
  BY DEF resetLevels, TypeOK
<1> QED
  BY <1>4, <1>5, <1>6, <1>7

(* The methods the dispatcher calls, with the arguments it may give them.  *)
Classified(reply) ==
    \A level \in 0..MaxBackoffLevel : Classifier(reply, level) \subseteq Decision

Uses(key) ==
    \/ Allow(key)
    \/ \E cd \in Nat : RecordFailure(key, cd)
    \/ RecordOpaqueFailure(key)
    \/ \E reply : Classified(reply) /\ RecordFailureWithStatus(key, reply)
    \/ RecordSuccess(key)
    \/ ReleaseHalfOpen(key)
    \/ \E cd \in CooldownOverrides : ForceOpen(key, cd)

(* Whatever the dispatcher calls is a safe step of the breaker.            *)
LEMMA UsesSafe ==
    ASSUME IInv, NEW key \in Keys, Uses(key)
    PROVE  SafeStep
<1>1. CASE Call(key)
  BY <1>1, CallSafe
<1>2. ASSUME NEW cd \in Nat, RecordFailure(key, cd) PROVE SafeStep
  BY <1>2, RecordFailureSafe
<1>3. ASSUME NEW reply, Classified(reply), RecordFailureWithStatus(key, reply) PROVE SafeStep
  BY <1>3, RecordFailureWithStatusSafe DEF Classified
<1> QED
  BY <1>1, <1>2, <1>3, Zenon DEF Uses, Call

(* What a step of r says to the breaker.  The request of a caller who pays *)
(* himself says nothing that counts.                                       *)
Says(r) ==
    \/ NoOutcome \/ Release(r) \/ RecordOpaqueFailure(KeyOf(r))
    \/ ~Byok(r) /\ Uses(KeyOf(r))

(* Every reply in hand has a decision, with its body and without.          *)
LEMMA ReplyClassified ==
    ASSUME NEW reply \in Replies \cup {NoReply}
    PROVE  Classified(reply) /\ Classified(bodiless(reply))
<1>1. Classified(bodiless(reply))
  BY BodilessAssumption DEF Classified
<1>2. CASE reply \in Replies
  BY <1>1, <1>2, ClassifierAssumption DEF Classified
<1>3. CASE reply = NoReply
  <2>1. bodiless(NoReply) = NoReply
    BY DEF bodiless, NoReply
  <2> QED
    BY <1>1, <1>3, <2>1
<1> QED
  BY <1>1, <1>2, <1>3

(* Charges and credits stand down for a caller-funded request.             *)
LEMMA OutcomeSays ==
    ASSUME NEW r \in Requests, NEW cd \in Nat, NEW reply, Classified(reply),
           Charge(r, cd) \/ ChargeStatus(r, reply) \/ Credit(r) \/ Served(r)
    PROVE  Says(r)
<1>1. AgentCooldown \in Nat
  BY DispatchAssumption
<1>2. CASE Byok(r)
  BY <1>2 DEF Charge, ChargeStatus, Credit, Served, Says
<1>3. CASE ~Byok(r)
  <2>1. \/ \E d \in Nat : RecordFailure(KeyOf(r), d)
        \/ RecordFailureWithStatus(KeyOf(r), reply) \/ RecordSuccess(KeyOf(r))
    BY <1>1, <1>3, Zenon DEF Charge, ChargeStatus, Credit, Served
  <2> QED
    BY <1>3, <2>1 DEF Says, Uses
<1> QED
  BY <1>2, <1>3

(* Every step says at most one thing to the breaker.                       *)
LEMMA StepSays ==
    ASSUME NEW r \in Requests, Sound(req[r]), Step(r)
    PROVE  Says(r)
<1> DEFINE q == req[r]
<1>0. q \in Loop /\ q.reply \in Replies \cup {NoReply}
  BY DEF Sound, Loop
<1>1. Classified(q.reply) /\ Classified(bodiless(q.reply))
  BY <1>0, ReplyClassified
<1>2. marked(q).reply = q.reply
  BY <1>0, Zenon DEF marked, Loop
<1>c. AgentCooldown \in Nat /\ 0 \in Nat
  BY DispatchAssumption
<1>3. ASSUME NEW cd \in Nat, Charge(r, cd) PROVE Says(r)
  BY <1>1, <1>3, OutcomeSays
<1>4. CASE ChargeStatus(r, q.reply) \/ ChargeStatus(r, bodiless(q.reply))
  BY <1>1, <1>4, <1>c, OutcomeSays
<1>5. CASE Credit(r) \/ Served(r)
  BY <1>1, <1>5, <1>c, OutcomeSays
<1>6. CASE NoOutcome \/ Release(r) \/ RecordOpaqueFailure(KeyOf(r))
  BY <1>6 DEF Says
<1> HIDE DEF q
<1>7. CASE Sweep(r) \/ prepareAndSend(r)
  <2>1. CASE Sweep(r) \/ GuardSkip(r) \/ providerBudgetGate(r) \/ Acquire(r) \/ AcquireCanceled(r)
             \/ BuildFailed(r) \/ UpstreamError(r) \/ handleUpstreamResponse(r)
    BY <1>6, <2>1, Zenon DEF Sweep, GuardSkip, providerBudgetGate, Acquire, AcquireCanceled,
       BuildFailed, UpstreamError, handleUpstreamResponse
  <2>2. CASE breakerGate(r)
    BY <2>2, Zenon DEF breakerGate, Says, Uses
  <2>3. CASE NetworkError(r)
    BY <1>3, <1>6, <1>c, <2>3, Zenon DEF NetworkError
  <2> QED
    BY <1>7, <2>1, <2>2, <2>3 DEF prepareAndSend
<1>8. CASE ReturnedCanceled(r) \/ handleActionResult(r) \/ RequestFault(r) \/ Backoff(r) \/ GaveUp(r)
           \/ Exhausted(r)
  BY <1>6, <1>8, Zenon DEF ReturnedCanceled, handleActionResult, RequestFault, Backoff, GaveUp, Exhausted
<1>9. CASE ForceCooldown(r)
  BY <1>9, Zenon DEF ForceCooldown, Says, Uses
<1>10. CASE RateLimited(r)
  BY <1>4, <1>10, Zenon DEF RateLimited, q
<1>11. CASE handleUpstreamError(r)
  <2>1. ChargeStatus(r, marked(req[r]).reply) \/ NoOutcome \/ Release(r) \/ RecordOpaqueFailure(KeyOf(r))
    BY <1>11, Zenon DEF handleUpstreamError
  <2> QED
    BY <1>2, <1>4, <1>6, <2>1, Zenon DEF q
<1>12. CASE Response(r)
  BY <1>3, <1>5, <1>6, <1>c, <1>12, Zenon DEF Response
<1>13. CASE StreamHead(r) \/ StreamErrorEvent(r) \/ StreamCut(r)
  BY <1>3, <1>6, <1>c, <1>13, Zenon DEF StreamHead, StreamErrorEvent, StreamCut
<1>14. CASE handleStreamDone(r)
  BY <1>3, <1>5, <1>6, <1>c, <1>14, Zenon DEF handleStreamDone
<1>15. CASE resolveRedispatchOutcome(r)
  BY <1>4, <1>6, <1>15, Zenon DEF resolveRedispatchOutcome, q
<1> QED
  BY <1>7, <1>8, <1>9, <1>10, <1>11, <1>12, <1>13, <1>14, <1>15, Zenon DEF Step

(* A step that calls the breaker has a target, whose key the breaker knows.*)
LEMMA StepKnowsKey ==
    ASSUME NEW r \in Requests, Sound(req[r]), Step(r)
    PROVE  NoOutcome \/ KeyOf(r) \in Keys
<1>1. CASE req[r].pc \in Sending \cup Handling \cup Streaming
  <2> DEFINE T == [key : Keys, model : Models, pair : Pairs, cooling : BOOLEAN]
             list == req[r].targets
             i == req[r].idx
  <2>1. list \in Seq(T) /\ i \in Nat \ {0} /\ i <= Len(list)
    BY <1>1 DEF Sound, Loop, Targets, Budgeted
  <2> HIDE DEF T, list, i
  <2>2. list[i] \in T
    BY <2>1
  <2> QED
    BY <2>2 DEF KeyOf, Target, T, list, i
<1>2. CASE Sweep(r) \/ Exhausted(r)
  BY <1>2, Zenon DEF Sweep, Exhausted
<1>3. CASE ~(Sweep(r) \/ Exhausted(r))
  <2>1. req[r].pc \in Sending \cup Handling \cup Streaming
    BY <1>3, Zenon DEF Step, prepareAndSend, GuardSkip, breakerGate, providerBudgetGate, Acquire, AcquireCanceled,
       BuildFailed, NetworkError, UpstreamError, handleUpstreamResponse, ReturnedCanceled, handleActionResult,
       RequestFault, ForceCooldown, RateLimited, handleUpstreamError, Backoff, Response, StreamHead,
       StreamErrorEvent, handleStreamDone, StreamCut, resolveRedispatchOutcome, GaveUp, At,
       Sending, Handling, Streaming
  <2> QED
    BY <1>1, <2>1
<1> QED
  BY <1>2, <1>3

(* Every step moves the loop of the request it is a step of.               *)
LEMMA Moved ==
    ASSUME NEW r \in Requests, LoopInv, Start(r) \/ Cancel(r) \/ Step(r)
    PROVE  \E n : Goto(r, n)
<1>1. CASE Acquire(r)
  BY <1>1 DEF Acquire
<1>2. CASE ~Acquire(r)
  BY <1>2, StepMoves DEF LoopInv, Moves
<1> QED
  BY <1>1, <1>2

(* The start of a request only touches the circuits of its targets.        *)
LEMMA PeekedSafe ==
    ASSUME IInv, NEW list \in Targets, circuits' = Peeked(list), UNCHANGED <<now, modelLocks, levels>>
    PROVE  /\ SafeStep
           /\ \A k \in DOMAIN circuits :
                  circuits'[k].fails = circuits[k].fails /\ circuits'[k].state = circuits[k].state
<1> DEFINE P == {list[i].key : i \in DOMAIN list}
<1>0. /\ TypeOK /\ now \in Nat \ {0} /\ DOMAIN circuits \subseteq Keys
      /\ modelLocks \in [Keys -> Nat] /\ levels \in [Keys -> 0..MaxBackoffLevel]
  BY DEF IInv, TypeOK
<1>1. circuits' = [k \in DOMAIN circuits \cup P |-> IF k \in P THEN getOrCreate(k, {}) ELSE circuits[k]]
  BY DEF Peeked
<1>2. P \subseteq Keys
  <2> DEFINE T == [key : Keys, model : Models, pair : Pairs, cooling : BOOLEAN]
  <2>1. list \in Seq(T)
    BY DEF Targets
  <2>2. ASSUME NEW i \in DOMAIN list PROVE list[i].key \in Keys
    <3> HIDE DEF T
    <3>1. list[i] \in T
      BY <2>1
    <3> QED
      BY <3>1 DEF T
  <2> QED
    BY <2>2
<1> HIDE DEF P
<1>3. DOMAIN circuits' = DOMAIN circuits \cup P /\ DOMAIN circuits' \subseteq Keys
  BY <1>0, <1>1, <1>2
<1>4. {} \in evictForCapacity /\ ~atCapacity
  BY <1>0, NothingSwept
<1>5. ASSUME NEW k \in DOMAIN circuits' PROVE WellFormed(k, circuits'[k])
  <2>1. CASE k \in P
    BY <1>1, <1>2, <1>3, <1>4, <2>1, GetOrCreateWellFormed
  <2>2. CASE k \notin P
    BY <1>1, <1>3, <2>2 DEF IInv
  <2> QED
    BY <2>1, <2>2
<1>6. ASSUME NEW k \in DOMAIN circuits
      PROVE  /\ circuits'[k].fails = circuits[k].fails /\ circuits'[k].state = circuits[k].state
             /\ circuits'[k].expiry = circuits[k].expiry /\ circuits[k].expiry \in Nat
  <2>0. circuits[k] \in Circuit
    BY DEF IInv, WellFormed
  <2>1. CASE k \in P
    <3>1. circuits'[k] = [circuits[k] EXCEPT !.lastUsed = now]
      BY <1>1, <2>1 DEF getOrCreate
    <3> QED
      BY <2>0, <3>1 DEF Circuit
  <2>2. CASE k \notin P
    BY <1>1, <2>0, <2>2 DEF Circuit
  <2> QED
    BY <2>1, <2>2
<1>7. IInv'
  <2>1. circuits' \in [DOMAIN circuits' -> Circuit]
    BY <1>1, <1>3, <1>5 DEF WellFormed
  <2>2. BackoffOnlyRegistered'
    BY <1>3 DEF IInv, BackoffOnlyRegistered
  <2> QED
    BY <1>0, <1>3, <1>5, <2>1, <2>2 DEF IInv, TypeOK
<1>8. CircuitDeadlines /\ Kept /\ LockDeadlines
  BY <1>0, <1>3, <1>6 DEF CircuitDeadlines, Kept, LockDeadlines
<1>9. Growth
  <2>1. IsFiniteSet(DOMAIN circuits)
    BY <1>0, FS_Subset, LimitAssumption
  <2>2. Cardinality(DOMAIN circuits) \in Nat
    BY <2>1, FS_CardinalityType
  <2> QED
    BY <1>4, <2>2, LimitAssumption DEF Growth, atCapacity
<1> QED
  BY <1>6, <1>7, <1>8, <1>9 DEF SafeStep

(* Starting a request is a safe step of the breaker and charges nobody.    *)
LEMMA StartSafe ==
    ASSUME IInv, NEW r \in Requests, Start(r)
    PROVE  /\ SafeStep /\ UNCHANGED <<modelLocks, levels>>
           /\ \A k \in DOMAIN circuits :
                  circuits'[k].fails = circuits[k].fails /\ circuits'[k].state = circuits[k].state
<1>1. PICK start \in Starts : \E list \in BuildTargetList(start) : circuits' = Peeked(list)
  BY DEF Start
<1>2. PICK list \in BuildTargetList(start) : circuits' = Peeked(list)
  BY <1>1
<1>3. list \in Targets
  BY ListTypes, DispatchAssumption
<1>4. UNCHANGED <<now, modelLocks, levels>>
  BY DEF Start
<1> QED
  BY <1>2, <1>3, <1>4, PeekedSafe

(* Every step of the dispatcher is a safe step of the breaker.             *)
LEMMA DispatchSafe ==
    ASSUME IInv, LoopInv, [DNext]_dvars
    PROVE  SafeStep
<1>1. CASE [Next]_vars
  BY <1>1, NextSafe
<1>2. CASE Tick \/ UNCHANGED dvars
  BY <1>1, <1>2 DEF Next, dvars, vars
<1>3. ASSUME NEW r \in Requests, Start(r) \/ Cancel(r) \/ Step(r) PROVE SafeStep
  <2>1. CASE Start(r)
    BY <2>1, StartSafe
  <2>2. CASE Cancel(r) \/ NoOutcome
    BY <1>1, <2>2 DEF Cancel, NoOutcome
  <2>3. CASE Step(r) /\ ~NoOutcome
    <3>1. Says(r) /\ KeyOf(r) \in Keys
      BY <2>3, StepSays, StepKnowsKey DEF LoopInv
    <3>2. Uses(KeyOf(r))
      BY <2>3, <3>1 DEF Says, Uses, Release
    <3> QED
      BY <3>1, <3>2, UsesSafe
  <2> QED
    BY <1>3, <2>1, <2>2, <2>3
<1> QED
  BY <1>2, <1>3 DEF DNext

(* routing/targets.go, circuitbreaker.go: the calls the dispatcher makes,  *)
(* in any order its requests interleave them, keep the breaker coherent:   *)
(* the failure that reaches the threshold opens the circuit, probes stay   *)
(* within their budget, and no backoff level outlives its circuit.         *)
THEOREM BreakerCoherent == DSpec => []CircuitCoherent
<1>1. DInit => IInv
  BY InitIInv DEF DInit
<1>2. IInv /\ Inv /\ [DNext]_dvars => IInv'
  BY DispatchSafe DEF Inv, SafeStep
<1>3. IInv => CircuitCoherent
  <2> SUFFICES ASSUME IInv, NEW k \in DOMAIN circuits
               PROVE  /\ circuits[k].state = "Closed" =>
                            /\ circuits[k].fails < failureThresholdFor(k)
                            /\ circuits[k].inflight = 0
                      /\ circuits[k].inflight <= HalfOpenMaxRequests
                      /\ circuits[k].inflight > 0 => circuits[k].state = "HalfOpen"
                      /\ circuits[k].state = "HalfOpen" =>
                            circuits[k].succs < successThresholdFor(k)
    BY DEF CircuitCoherent, ClosedBelowThreshold, ProbeBudget, IInv
  <2>1. WellFormed(k, circuits[k])
    BY DEF IInv
  <2> QED
    BY <2>1 DEF WellFormed, Circuit
<1> QED
  BY <1>1, <1>2, <1>3, LoopInvariance, PTL DEF DSpec

(* retry.go, chat.go: a loop's cursor never passes one beyond its list, a  *)
(* request owns at most two slots, continuations respect max_attempts, and *)
(* the breaker's registry stays well typed, whatever the upstreams answer. *)
THEOREM TypesKept == DSpec => []DTypeOK
<1>1. DInit => IInv
  BY InitIInv DEF DInit
<1>2. IInv /\ Inv /\ [DNext]_dvars => IInv'
  BY DispatchSafe DEF Inv, SafeStep
<1>3. IInv /\ Inv => DTypeOK
  <2> SUFFICES ASSUME IInv, Inv, NEW r \in Requests
               PROVE  /\ req[r].idx \in 1..(Len(req[r].targets) + 1)
                      /\ req[r].held \in 0..2
                      /\ req[r].resumes \in 0..(StreamAttempts - 1)
                      /\ req[r].kind \in Kinds /\ req[r].reply \in Replies \cup {NoReply}
                      /\ req[r].attempt \in Nat /\ req[r].same \in Nat
    BY DEF DTypeOK, IInv
  <2>1. Sound(req[r]) /\ req[r] \in Loop
    BY DEF Inv, LoopInv, Sound
  <2>2. req[r].kind \in Kinds /\ req[r].reply \in Replies \cup {NoReply}
    BY <2>1 DEF Loop
  <2>3. /\ {req[r].idx, req[r].held, req[r].resumes, req[r].attempt, req[r].same} \subseteq Nat
        /\ req[r].idx # 0 /\ Len(req[r].targets) \in Nat /\ StreamAttempts \in Nat \ {0}
    BY <2>1, LoopTypes, DispatchAssumption DEF Loop
  <2>4. /\ req[r].idx <= Len(req[r].targets) + 1 /\ req[r].held <= 2
        /\ req[r].resumes < StreamAttempts
    BY <2>1 DEF Sound, Budgeted, Slotted
  <2> QED
    BY <2>2, <2>3, <2>4
<1> QED
  BY <1>1, <1>2, <1>3, LoopInvariance, PTL DEF DSpec

(* chat.go, routing/targets.go: whatever happens to the request of a       *)
(* caller who brings his own key, no step of it locks a model, raises a    *)
(* backoff level, counts a failure or opens a Closed circuit.              *)
THEOREM ByokUncharged == DSpec => ByokNeverCharged
<1> DEFINE Free(r) == /\ UNCHANGED <<modelLocks, levels>>
                      /\ \A k \in DOMAIN circuits :
                            /\ circuits'[k].fails <= circuits[k].fails
                            /\ circuits[k].state = "Closed" => circuits'[k].state = "Closed"
           Quiet == \A r \in Requests : Byok(r) /\ req'[r] # req[r] => Free(r)
<1>1. DInit => IInv
  BY InitIInv DEF DInit
<1>2. IInv /\ Inv /\ [DNext]_dvars => IInv'
  BY DispatchSafe DEF Inv, SafeStep
<1>3. IInv /\ Inv /\ [DNext]_dvars => Quiet
  <2> SUFFICES ASSUME IInv, Inv, [DNext]_dvars, NEW r \in Requests, Byok(r), req'[r] # req[r]
               PROVE  Free(r)
    OBVIOUS
  <2>0. TypeOK /\ req \in [Requests -> Loop]
    BY DEF IInv, Inv, LoopInv
  <2>1. PICK s \in Requests : Start(s) \/ Cancel(s) \/ Step(s)
    BY DEF DNext, dvars
  <2>2. Start(r) \/ Cancel(r) \/ Step(r)
    <3>1. \A x \in Requests : x # s => req'[x] = req[x]
      <4>1. \E n : Goto(s, n)
        BY <2>1, Moved DEF Inv
      <4> QED
        BY <2>0, <4>1 DEF Goto
    <3> QED
      BY <2>1, <3>1
  <2>n. \A k \in DOMAIN circuits : circuits[k] \in Circuit /\ circuits[k].fails \in Nat
    BY <2>0 DEF TypeOK, Circuit
  <2>3. CASE Start(r)
    BY <2>3, <2>n, StartSafe
  <2>4. CASE Cancel(r) \/ NoOutcome
    BY <2>4, <2>n DEF Cancel, NoOutcome, vars
  <2>5. CASE Step(r) /\ ~NoOutcome
    <3>1. Release(r) \/ RecordOpaqueFailure(KeyOf(r))
      BY <2>5, StepSays DEF Says, Inv, LoopInv
    <3>2. ASSUME NEW c \in Circuit
          PROVE  releaseSlot(c).fails = c.fails /\ releaseSlot(c).state = c.state
      BY DEF releaseSlot, Circuit
    <3>3. CASE Release(r)
      BY <2>n, <3>2, <3>3 DEF Release, ReleaseHalfOpen
    <3>4. CASE RecordOpaqueFailure(KeyOf(r))
      <4> DEFINE key == KeyOf(r)
                 c == getOrCreate(key, {})
      <4>1. /\ circuits' = store(key, {}, releaseSlot(c))
            /\ UNCHANGED <<modelLocks, levels>>
        BY <2>0, <3>4, NothingSwept DEF RecordOpaqueFailure, Swept
      <4>2. ASSUME NEW k \in DOMAIN circuits, k # key PROVE circuits'[k] = circuits[k]
        BY <4>1, <4>2 DEF store
      <4>3. ASSUME key \in DOMAIN circuits
            PROVE  circuits'[key].fails = circuits[key].fails /\ circuits'[key].state = circuits[key].state
        <5>1. c = [circuits[key] EXCEPT !.lastUsed = now] /\ now \in Nat
          BY <2>0, <4>3 DEF getOrCreate, TypeOK
        <5>2. c \in Circuit /\ c.fails = circuits[key].fails /\ c.state = circuits[key].state
          BY <2>n, <4>3, <5>1 DEF Circuit
        <5>3. circuits'[key] = releaseSlot(c)
          BY <4>1 DEF store
        <5> QED
          BY <3>2, <5>2, <5>3
      <4> HIDE DEF key, c
      <4> QED
        BY <2>n, <4>1, <4>2, <4>3
    <3> QED
      BY <3>1, <3>3, <3>4
  <2> QED
    BY <2>2, <2>3, <2>4, <2>5
<1>4. QED
  BY <1>1, <1>2, <1>3, LoopInvariance, PTL DEF DSpec, ByokNeverCharged
=============================================================================
