------------------------------ MODULE ToolLoop ------------------------------
(***************************************************************************)
(* The MCP tool loop (internal/proxy/mcp): a request of an agent with MCP  *)
(* servers.  The gateway offers the servers' tools to the model, buffers   *)
(* each upstream answer, runs the calls that name its tools, one goroutine *)
(* per call, appends the results and asks again, until the model answers   *)
(* without calling one of its tools.  The marks of servers that refused    *)
(* their credential (gateway.go) are shared with every other request.      *)
(*                                                                         *)
(* A line of an upstream answer is a record that says which of the fields  *)
(* read by the accumulator it carries; texts, schemas and arguments are    *)
(* reduced to the verdicts the guards give on them.                        *)
(***************************************************************************)
EXTENDS Integers, Sequences, FiniteSets, SequencesExt

CONSTANTS
    Servers, Tools,
    Absent,
    Registry,        \* tool index: tool -> server, or Absent for a tool of the client
    AgentServers,    \* agent.mcp.servers
    Granted,         \* tools the API key's grant covers
    Allowed,         \* tools the servers' include and exclude patterns keep
    Ranked,          \* all tools by relevance to the query, best first
    TopN, Floor,     \* agent.mcp.tool_search, tool_search_floor
    Named,           \* the agent has a name: usage is accounted
    MaxIterations,   \* agent.mcp.max_iterations
    DefaultIterations, IterationCeiling,
    Targets,         \* length of the target list
    MaxRetries, GovernanceRetries,
    Answers,         \* upstream answers: sequences of lines
    Strict           \* the egress screen blocks, rather than logs

VARIABLES
    loop,            \* the request
    call,            \* the goroutines of the current iteration
    mark,            \* per server: record of a refused credential, or Absent
    ready,           \* per server: its client has a live session
    history          \* what was run, charged and judged

tvars == <<loop, call, mark, ready, history>>

-----------------------------------------------------------------------------
(* SSEAccumulator: what a buffered answer is taken for.                    *)

NewSSEAccumulator ==
    [names |-> <<>>, ids |-> <<>>, content |-> FALSE, error |-> FALSE,
     data |-> 0, gemini |-> 0, done |-> FALSE, raw |-> <<>>]

Put(f, i, v) == [k \in DOMAIN f \cup {i} |-> IF k = i THEN v ELSE f[k]]

(* A tool-call fragment of any of the three formats.  OpenAI and Anthropic *)
(* carry an index, id and name may come in different chunks; Gemini calls  *)
(* come whole and are numbered as they arrive.                             *)
processToolCallChunk(acc, l) ==
    LET i == IF l.index = -1 THEN acc.gemini ELSE l.index IN
    [acc EXCEPT !.ids = IF l.id = "" THEN @ ELSE Put(@, i, l.id),
                !.names = IF l.name = "" THEN @ ELSE Put(@, i, l.name),
                !.gemini = IF l.index = -1 THEN @ + 1 ELSE @]

(* ProcessLine: nothing after the end marker is read.                      *)
ProcessLine(acc, l) ==
    IF acc.done THEN acc ELSE
    LET counted == [acc EXCEPT !.data = @ + 1, !.raw = Append(@, l),
                               !.done = l.kind = "done",
                               !.content = @ \/ l.kind = "text",
                               !.error = @ \/ l.kind = "error"]
    IN  IF l.kind = "call" THEN processToolCallChunk(counted, l) ELSE counted

SyntheticToolCallID(i) == "gen_" \o ToString(i)

(* BuildToolCalls: in index order, an unnamed call is dropped.             *)
BuildToolCalls(acc) ==
    LET idx == SetToSortSeq(DOMAIN acc.names, <) IN
    [k \in 1..Len(idx) |->
        [tool |-> acc.names[idx[k]],
         id |-> IF idx[k] \in DOMAIN acc.ids THEN acc.ids[idx[k]]
                ELSE SyntheticToolCallID(idx[k])]]

-----------------------------------------------------------------------------
(* The egress guards over the buffered lines: after a blocked line only    *)
(* usage is kept; a redacted line stays, without its leak.                 *)

guardLine(out, l) ==
    CASE out.blocked /\ l.kind # "usage" -> out
      [] ~out.blocked /\ l.leak = out.guard -> [out EXCEPT !.blocked = TRUE]
      [] OTHER -> [out EXCEPT !.raw = Append(@, l)]

guarded(lines, guard) ==
    FoldLeft(guardLine, [raw |-> <<>>, blocked |-> FALSE, guard |-> guard], lines)

ApplyExfilToBufferedSSE(lines) == guarded(lines, "exfil")
ApplyCanaryToBufferedSSE(lines) == guarded(lines, "canary")

(* Result, after both guards: the tool calls were read before the guards.  *)
BufferedResult(lines) ==
    LET acc == FoldLeft(ProcessLine, NewSSEAccumulator, lines)
        exfil == ApplyExfilToBufferedSSE(acc.raw)
        canary == ApplyCanaryToBufferedSSE(exfil.raw)
    IN  [calls |-> BuildToolCalls(acc), raw |-> canary.raw,
         blocked |-> exfil.blocked \/ canary.blocked,
         error |-> acc.error, empty |-> acc.data = 0,
         usage |-> {canary.raw[k].total :
                       k \in {j \in DOMAIN canary.raw : canary.raw[j].kind = "usage"}}]

NoBuf == [calls |-> <<>>, raw |-> <<>>, blocked |-> FALSE, error |-> FALSE,
          empty |-> TRUE, usage |-> {}]

-----------------------------------------------------------------------------
(* The credential marks.                                                   *)

Fresh(s) == mark[s] # Absent /\ ~mark[s].expired

(* MCPUnavailableReason: an expired mark reads as available.               *)
unavailable(s) == Fresh(s)

(* markMCPUnavailable: a refusal at run time never replaces the permanent  *)
(* mark of a misconfigured server.                                         *)
MarkMCPCredentialRejected(s) ==
    mark' = IF mark[s] # Absent /\ mark[s].permanent THEN mark
            ELSE [mark EXCEPT ![s] =
                    [n |-> history.rejections + 1, permanent |-> FALSE, expired |-> FALSE]]

(* Mutant: the clear takes whatever mark it finds.                         *)
clearsAny(s, seen) == mark[s] # Absent

(* ClearMCPUnavailable: only the entry that was observed is deleted.       *)
clears(s, seen) == mark[s] # Absent /\ mark[s].n = seen

(* The cooldown of a refused credential passes.                            *)
Expire(s) ==
    /\ Fresh(s) /\ ~mark[s].permanent
    /\ mark' = [mark EXCEPT ![s].expired = TRUE]
    /\ UNCHANGED <<loop, call, ready, history>>

-----------------------------------------------------------------------------
(* Before the loop: availability, auto-search, tool injection.             *)

LoopTo(pc) == loop' = [loop EXCEPT !.pc = pc]

(* One response to the client, and the handler returns.                    *)
answered(l, what) == [l EXCEPT !.pc = "done", !.answer = Append(@, what)]
Answer(what) == loop' = answered(loop, what)

ServerTools(s) == {t \in Tools : Registry[t] = s}

(* MCPGrantTouchesServer *)
touches(s) == ServerTools(s) \cap Granted # {}

(* CheckMCPAvailability: fail closed.                                      *)
CheckMCPAvailability ==
    /\ loop.pc = "check"
    /\ IF \E s \in AgentServers : touches(s) /\ unavailable(s)
       THEN Answer("unavailable") ELSE LoopTo("search")
    /\ UNCHANGED <<call, mark, ready, history>>

(* guardMCPArgs: the grant and the server's health bound the dispatches    *)
(* that no model asked for; the argument policy may refuse any of them.    *)
guardMCPArgs(s) == touches(s) /\ ~unavailable(s)

(* InjectAutoSearch: the first server with a live client, a granted search *)
(* tool and a result contributes a memory message before the last one.     *)
(* Its outcome touches no mark.                                            *)
InjectAutoSearch ==
    /\ loop.pc = "search"
    /\ \E found \in {FALSE} \cup {TRUE : s \in {x \in AgentServers : ready[x] /\ guardMCPArgs(x)}} :
         loop' = [loop EXCEPT !.pc = "inject",
                    !.conv = IF found THEN Front(@) \o <<[role |-> "memory"], Last(@)>> ELSE @]
    /\ UNCHANGED <<call, mark, ready, history>>

(* selectToolsForRequest: the TopN best and the floor, or everything.      *)
rank(t) == CHOOSE k \in DOMAIN Ranked : Ranked[k] = t
selectConversationTools(tools) ==
    IF TopN <= 0 THEN tools
    ELSE {t \in tools : t \in Floor \/ Cardinality({u \in tools : rank(u) < rank(t)}) < TopN}

(* serverInjectedTools, with the server's tool policy.                     *)
serverInjectedTools(s) ==
    IF ready[s] THEN selectConversationTools(ServerTools(s) \cap Granted \cap Allowed)
    ELSE {}

(* InjectMCPTools: with nothing to offer the request takes the plain path. *)
InjectMCPTools ==
    /\ loop.pc = "inject"
    /\ LET offered == UNION {serverInjectedTools(s) : s \in AgentServers} IN
       loop' = [loop EXCEPT
                  !.pc = IF offered = {} THEN "plain" ELSE "reserve",
                  !.offered = offered,
                  !.conv = IF offered = {} THEN @ ELSE <<[role |-> "system"]>> \o @]
    /\ UNCHANGED <<call, mark, ready, history>>

(* The key's token budget is reserved once for the whole loop.             *)
ReserveKeyBudget ==
    /\ loop.pc = "reserve"
    /\ LoopTo("iterate") \/ Answer("budget")
    /\ UNCHANGED <<call, mark, ready, history>>

maxIter == IF MaxIterations <= 0 THEN DefaultIterations
           ELSE IF MaxIterations > IterationCeiling THEN IterationCeiling
           ELSE MaxIterations

(* The loop's five minutes are over, or the client left.                   *)
Deadline ==
    /\ loop.pc \notin {"done", "plain"} /\ ~loop.expired
    /\ loop' = [loop EXCEPT !.expired = TRUE]
    /\ UNCHANGED <<call, mark, ready, history>>

-----------------------------------------------------------------------------
(* Usage.  A buffer is charged once: by the iteration that fetched it when *)
(* it reports tokens, else by the path that hands it to the client.        *)

charged(k) == [history EXCEPT !.charged[k] = @ + 1]

(* RecordMCPIterationUsage *)
RecordMCPIterationUsage(buf) ==
    IF Named /\ \E n \in buf.usage : n > 0
    THEN [charged(loop.iter + 1) EXCEPT !.claimed = @ \cup {loop.iter + 1}]
    ELSE history

(* RecordMCPUsage of the buffer of iteration k.                            *)
RecordMCPUsage(buf, k) ==
    IF Named /\ k \notin history.claimed /\ buf.usage # {}
    THEN [charged(k) EXCEPT !.claimed = @ \cup {k}] ELSE history

-----------------------------------------------------------------------------
(* mcpIteration and ForwardBuffered.                                       *)

(* ReplayGuardedBufferedWithProvider *)
replayOf(buf) == IF buf.blocked THEN "blocked" ELSE "replay"
Replay(buf) == Answer(replayOf(buf))

(* The head of an iteration, and the end of the loop.                      *)
Iterate ==
    /\ loop.pc = "iterate"
    /\ IF loop.iter < maxIter /\ ~loop.expired
       THEN /\ loop' = [loop EXCEPT !.pc = "send", !.i = 1, !.attempt = 0, !.same = 0]
            /\ history' = [history EXCEPT !.sends = 0]
       ELSE /\ IF loop.last # NoBuf THEN Replay(loop.last)
               ELSE Answer(IF loop.expired THEN "timeout" ELSE "internal")
            /\ history' = RecordMCPUsage(loop.last, loop.iter)
    /\ UNCHANGED <<call, mark, ready>>

(* One PrepareAndSend: the target's probe is taken.                        *)
Forward ==
    /\ loop.pc = "send"
    /\ loop.i <= Targets /\ ~(MaxRetries > 0 /\ loop.attempt > MaxRetries)
    /\ loop' = [loop EXCEPT !.pc = "sent", !.held = TRUE]
    /\ history' = [history EXCEPT !.sends = @ + 1]
    /\ UNCHANGED <<call, mark, ready>>

maxSameTargetRetries == IF MaxRetries > 0 THEN MaxRetries ELSE GovernanceRetries

repeated(l) == [l EXCEPT !.pc = "send", !.same = @ + 1]

next(l) == [l EXCEPT !.pc = "send", !.i = @ + 1]
stopped(l) == [l EXCEPT !.pc = "failed"]

(* BufferedStepRetry: the same target only when no later one may answer,   *)
(* the body may still fit and the budget lasts.                            *)
retried(l, fits, later) ==
    IF ~fits \/ later \/ l.same >= maxSameTargetRetries THEN next(l) ELSE repeated(l)

Later == {FALSE} \cup {TRUE : k \in {j \in 1..Targets : j > loop.i}}

(* HandleBufferedAction without an answer: the send failed, or the error   *)
(* status is final, retryable or moves on.                                 *)
ForwardFailed ==
    /\ loop.pc = "sent"
    /\ \E fits \in BOOLEAN, later \in Later :
       LET back == [loop EXCEPT !.held = FALSE]
           err == [back EXCEPT !.attempt = @ + 1]
           spent == loop.expired \/ (MaxRetries > 0 /\ err.attempt > MaxRetries)
       IN  loop' \in {next(back), retried(back, TRUE, later), stopped(err)}
                     \cup (IF spent THEN {} ELSE {next(err), retried(err, fits, later)})
    /\ UNCHANGED <<call, mark, ready, history>>

(* The sweep is over: the previous answer is replayed, not charged again.  *)
Exhausted ==
    /\ \/ loop.pc = "failed"
       \/ loop.pc = "send" /\ (loop.i > Targets \/ (MaxRetries > 0 /\ loop.attempt > MaxRetries))
    /\ IF loop.last # NoBuf THEN Replay(loop.last) ELSE Answer("badgateway")
    /\ UNCHANGED <<call, mark, ready, history>>

(* partitionMCPToolCalls *)
mcpCalls(buf) == SelectSeq(buf.calls, LAMBDA c : Registry[c.tool] # Absent)

(* What the accumulator makes of an answer is a sequence of calls.         *)
Call == [tool : Tools, id : STRING]
ToolAssumption ==
    /\ Targets \in Nat /\ MaxRetries \in Int /\ GovernanceRetries \in Nat
    /\ MaxIterations \in Int /\ {DefaultIterations, IterationCeiling} \subseteq Nat \ {0}
    /\ Named \in BOOLEAN
    /\ Absent \notin [n : Nat, permanent : BOOLEAN, expired : BOOLEAN]
    /\ \A lines \in Answers : mcpCalls(BufferedResult(lines)) \in Seq(Call)

(* HandleBufferedStream and the rest of mcpIteration.                      *)
Buffered(lines) ==
    /\ loop.pc = "sent"
    /\ LET buf == BufferedResult(lines)
           got == [loop EXCEPT !.held = FALSE, !.buf = buf]
           charge == RecordMCPIterationUsage(buf)
       IN  IF buf.empty
           THEN loop' = next([loop EXCEPT !.held = FALSE]) /\ UNCHANGED <<call, history>>
           ELSE \/ /\ buf.blocked \/ mcpCalls(buf) = <<>>
                   /\ loop' = answered(got, replayOf(buf))
                   /\ history' = IF Named /\ charge = history /\ buf.usage # {} /\ ~buf.blocked
                                 THEN [charged(loop.iter + 1) EXCEPT !.claimed = @ \cup {loop.iter + 1}]
                                 ELSE charge
                   /\ UNCHANGED call
                \/ /\ ~buf.blocked /\ mcpCalls(buf) # <<>>
                   /\ loop' = [got EXCEPT !.pc = "exec"]
                   /\ call' = [k \in DOMAIN mcpCalls(buf) |->
                                [tool |-> mcpCalls(buf)[k].tool, at |-> "start", seen |-> 0, result |-> "none"]]
                   /\ history' = charge
    /\ UNCHANGED <<mark, ready>>

(* The stream cannot be read to its end: the sweep stops.                  *)
BufferFailed ==
    /\ loop.pc = "sent"
    /\ loop' = stopped([loop EXCEPT !.held = FALSE])
    /\ UNCHANGED <<call, mark, ready, history>>

-----------------------------------------------------------------------------
(* executeMCPCallsWithUnavailable: a goroutine per call.                   *)

CallAt(k, label) == loop.pc = "exec" /\ k \in DOMAIN call /\ call[k].at = label
Passes(k, label) == call' = [call EXCEPT ![k].at = label]
Finish(k, result) == call' = [call EXCEPT ![k].at = "done", ![k].result = result]

(* mcpDispatchRefusal, then the guard on tools that were not offered.      *)
dispatchable(t) ==
    /\ Registry[t] \in AgentServers
    /\ t \in Granted
    /\ ~unavailable(Registry[t])
    /\ t \in loop.offered

(* Mutant: a refused call returns without reporting to the wait group.     *)
refuseSilently(k) == Passes(k, "lost")

refuse(k) == Finish(k, "refused")

(* The checks before the call: a canary in the arguments, the routing and  *)
(* the grant, the argument policy.  Suspect arguments go to the screen.    *)
Vet(k) ==
    /\ CallAt(k, "start")
    /\ \/ refuse(k)
       \/ dispatchable(call[k].tool) /\ (Passes(k, "screen") \/ Passes(k, "calling"))
    /\ UNCHANGED <<loop, mark, ready, history>>

screenSpent(used) == TRUE

(* ScreenToolArgs: one judgment per request, whoever comes first.          *)
Screen(k) ==
    /\ CallAt(k, "screen")
    /\ loop' = [loop EXCEPT !.screened = screenSpent(@)]
    /\ history' = IF loop.screened THEN history ELSE [history EXCEPT !.judged = @ + 1]
    /\ \/ Passes(k, "calling")
       \/ Strict /\ ~loop.screened /\ refuse(k)
    /\ UNCHANGED <<mark, ready>>

(* Client.CallTool returns; recordMCPCallOutcome.                          *)
ToolReturns(k) ==
    /\ CallAt(k, "calling")
    /\ LET s == Registry[call[k].tool]
           ran == [history EXCEPT !.ran = @ \cup {call[k].tool}]
       IN  \/ Passes(k, "observe") /\ history' = ran /\ UNCHANGED mark
           \/ Finish(k, "failed") /\ history' = ran /\ UNCHANGED mark
           \/ /\ Finish(k, "failed")
              /\ MarkMCPCredentialRejected(s)
              /\ history' = [history EXCEPT !.rejections = @ + 1]
    /\ UNCHANGED <<loop, ready>>

(* A success reads the mark under one lock and deletes it under another.   *)
Observe(k) ==
    /\ CallAt(k, "observe")
    /\ LET m == mark[Registry[call[k].tool]] IN
       IF m = Absent THEN Finish(k, "ok")
       ELSE call' = [call EXCEPT ![k].at = "clear", ![k].seen = m.n]
    /\ UNCHANGED <<loop, mark, ready, history>>

Clear(k) ==
    /\ CallAt(k, "clear")
    /\ LET s == Registry[call[k].tool] IN
       mark' = IF clears(s, call[k].seen) THEN [mark EXCEPT ![s] = Absent] ELSE mark
    /\ Finish(k, "ok")
    /\ UNCHANGED <<loop, ready, history>>

-----------------------------------------------------------------------------
(* Results.                                                                *)

(* Mutant: only the calls that ran get a result.                           *)
resultsOfRuns(calls) ==
    LET ran == SelectSeq([k \in DOMAIN calls |-> k], LAMBDA k : call[k].result # "refused")
    IN  [k \in DOMAIN ran |-> [role |-> "tool", id |-> calls[ran[k]].id]]

(* buildToolResultMessage: every call has a result, refusals included.     *)
results(calls) == [k \in DOMAIN calls |-> [role |-> "tool", id |-> calls[k].id]]

(* appendMCPResults: the assistant turn names the calls that were run,     *)
(* calls of the client's own tools are left out.                           *)
appendMCPResults(buf) ==
    <<[role |-> "assistant", ids |-> [k \in DOMAIN mcpCalls(buf) |-> mcpCalls(buf)[k].id]]>>
    \o results(mcpCalls(buf))

(* wg.Wait, append, and the security chain over what was appended: it may  *)
(* reject the results, or fail with the loop's context.                    *)
AppendResults ==
    /\ loop.pc = "exec" /\ \A k \in DOMAIN call : call[k].at = "done"
    /\ call' = <<>>
    /\ \/ /\ loop' = [loop EXCEPT !.pc = "iterate", !.conv = @ \o appendMCPResults(loop.buf),
                                  !.last = loop.buf, !.iter = @ + 1]
          /\ UNCHANGED history
       \/ /\ Answer("rejected") /\ history' = RecordMCPUsage(loop.buf, loop.iter + 1)
       \/ /\ loop.expired
          /\ IF loop.last # NoBuf THEN Replay(loop.last) ELSE Answer("timeout")
          /\ history' = RecordMCPUsage(loop.buf, loop.iter + 1)
    /\ UNCHANGED <<mark, ready>>

-----------------------------------------------------------------------------
Misconfigured == [n |-> 0, permanent |-> TRUE, expired |-> FALSE]

(* A server marked at start has no session.                                *)
TLInit ==
    /\ loop = [pc |-> "check", iter |-> 0, i |-> 1, attempt |-> 0, same |-> 0, held |-> FALSE,
               expired |-> FALSE, offered |-> {}, conv |-> <<[role |-> "user"]>>,
               buf |-> NoBuf, last |-> NoBuf, answer |-> <<>>, screened |-> FALSE]
    /\ call = <<>>
    /\ mark \in [Servers -> {Absent, Misconfigured}]
    /\ ready \in [Servers -> BOOLEAN]
    /\ \A s \in Servers : mark[s] # Absent => ~ready[s]
    /\ history = [ran |-> {}, charged |-> [k \in 1..maxIter |-> 0], claimed |-> {},
                  sends |-> 0, judged |-> 0, rejections |-> 0]

Goroutine(k) == Vet(k) \/ Screen(k) \/ ToolReturns(k) \/ Observe(k) \/ Clear(k)

Request ==
    \/ CheckMCPAvailability \/ InjectAutoSearch \/ InjectMCPTools \/ ReserveKeyBudget
    \/ Iterate \/ Forward \/ ForwardFailed \/ Exhausted \/ BufferFailed
    \/ \E lines \in Answers : Buffered(lines)
    \/ AppendResults

TLNext ==
    \/ Request
    \/ Deadline
    \/ \E k \in DOMAIN call : Goroutine(k)
    \/ \E s \in Servers : Expire(s)

(* Upstream sends and tool calls are bounded by timeouts, so the handler   *)
(* and its goroutines always get on.                                       *)
TLFairness == WF_tvars(Request) /\ WF_tvars(\E k \in DOMAIN call : Goroutine(k))
TLSpec == TLInit /\ [][TLNext]_tvars /\ TLFairness

-----------------------------------------------------------------------------
(* Every assistant turn of the conversation sent upstream is followed by   *)
(* exactly one result per call, in order and under its id                  *)
(* (appendMCPResults): a provider rejects anything else.                   *)
TurnsPaired ==
    \A k \in DOMAIN loop.conv : loop.conv[k].role = "assistant" =>
        LET ids == loop.conv[k].ids IN
        /\ k + Len(ids) <= Len(loop.conv)
        /\ \A j \in DOMAIN ids : loop.conv[k + j] = [role |-> "tool", id |-> ids[j]]
        /\ k + Len(ids) < Len(loop.conv) => loop.conv[k + Len(ids) + 1].role # "tool"

(* The client gets one response on every path, every upstream answer that  *)
(* reports tokens is charged exactly once (RecordMCPIterationUsage and the *)
(* later RecordMCPUsage share one claim), and a repeated target stays      *)
(* within the retry budget of each iteration (ForwardBuffered).            *)
LoopAccounted ==
    /\ Len(loop.answer) = IF loop.pc = "done" THEN 1 ELSE 0
    /\ \A k \in DOMAIN history.charged : history.charged[k] <= 1
    /\ (loop.pc \in {"iterate", "exec", "done"} /\ Named
        /\ \E n \in loop.buf.usage : n > 0) =>
            \E k \in DOMAIN history.charged : k >= loop.iter /\ history.charged[k] = 1
    /\ history.sends <= Targets + maxSameTargetRetries
    /\ loop.held => loop.pc = "sent"
    /\ history.judged <= 1

(* A tool runs only if the key's grant, the server's include and exclude   *)
(* policy and the agent's server list all allow it and it was offered to   *)
(* this conversation, though dispatch itself never looks at the policy     *)
(* (mcpDispatchRefusal, unavailableMCPToolCalls, serverInjectedTools).     *)
RunsOnlyOffered ==
    history.ran \subseteq {t \in Granted \cap Allowed : Registry[t] \in AgentServers}

(* What the loop owes at any moment.                                       *)
ToolTurnsSound == TurnsPaired /\ LoopAccounted /\ RunsOnlyOffered

(* A refused credential is forgotten only by a success that saw that very  *)
(* refusal: a mark set between the read and the lock of                    *)
(* ClearMCPUnavailable survives.                                           *)
ForgetsOnlySeen ==
    \A s \in Servers : (mark[s] # Absent /\ mark'[s] = Absent) =>
        \E k \in DOMAIN call : /\ Registry[call[k].tool] = s
                               /\ call[k].at = "clear" /\ call[k].seen = mark[s].n

FreshRejectionSurvives == [][ForgetsOnlySeen]_tvars

(* Every request that enters the loop is answered.                         *)
Over == loop.pc \in {"done", "plain"}
LoopEnds == <>Over
=============================================================================
