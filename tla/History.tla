------------------------------ MODULE History -------------------------------
(***************************************************************************)
(* The conversation on its way to an upstream: stale tool exchanges and    *)
(* thoughts are pruned, old turns give way to a compacted head that is     *)
(* cached by lineage, and for each target role order is repaired and the   *)
(* rest is trimmed to its budget (internal/pipeline: prefix.go,            *)
(* tool_prune.go, thought_prune.go, window.go, summary_cache.go,           *)
(* window_head_cache.go, trim.go; routing: sanitize.go, transform.go; the  *)
(* order of the stages is proxy/content_pipeline.go's).                    *)
(*                                                                         *)
(* A text is a sequence of tokens, <<>> where the content is null or "";   *)
(* a whole thought block is the token "think".  White space, which         *)
(* ApplyCompaction removes, is not modelled, nor what an engine writes: a  *)
(* head is the text it was made of, who made it, and whether it is         *)
(* enveloped as inert data.                                                *)
(***************************************************************************)
EXTENDS Naturals, Sequences, SequencesExt, FiniteSetsExt

CONSTANTS
    Requests,           \* concurrent client requests
    Inputs,             \* what they carry: the messages, whether the client is an IDE, whether cache_aware applies
    Settings,           \* compaction, window and prompt settings of the gateway and the agent
    CacheCap,           \* lineages a cache holds
    ActiveMessages,     \* window.active_messages
    TriggerTokens,      \* context limit * window.trigger_ratio
    HardLimit,          \* the agent's hard limit in tokens
    Regen,              \* summary_regen_ratio, as <<numerator, denominator>>
    ToolProtectionWindow, MutationWindow,
    Targets,            \* input budget, 0 = unknown, and whether content arrays are taken
    ToolOutputClamp,    \* toolOutputClampRunes
    KeepPct             \* truncation_keep_first_pct and truncation_keep_last_pct

VARIABLES
    settings,           \* pin, prune, thoughts; the window mode or "off"; the fidelity gate's action; the agent's prompt
    cache,              \* SummaryCache or WindowHeadCache: entries, most recently used first
    req                 \* [Requests -> the request's payload and what it waits for]

hvars == <<settings, cache, req>>

-----------------------------------------------------------------------------
(* Messages.  parts: the content is an array, not a string.                *)
compactedHead(covers, engine, enveloped) == [covers |-> covers, engine |-> engine, enveloped |-> enveloped]
Message(role, text, calls, of) ==
    [role |-> role, text |-> text, parts |-> FALSE, calls |-> calls, of |-> of, head |-> compactedHead(<<>>, FALSE, FALSE)]

(* What the runtime leaves in a slice element that was set to nil.         *)
Null == Message("nil", <<>>, <<>>, "")

Placeholder == Message("assistant", <<"pruned">>, <<>>, "")
ResumedMarker == Message("user", <<"resumed">>, <<>>, "")
Bridge == Message("assistant", <<>>, <<>>, "")
AgentPrompt == Message("system", <<"prompt">>, <<>>, "")
HeadMessage(head) == [Message("system", <<"head">>, <<>>, "") EXCEPT !.head = head]

(* Role and text of every message that has a text.                         *)
Serialized(m) == IF m.text = <<>> THEN <<>> ELSE <<m.role>> \o m.text
SerializeMessages(messages) == FlattenSeq([i \in DOMAIN messages |-> Serialized(messages[i])])
countAllTokens(messages) == Len(FlattenSeq([i \in DOMAIN messages |-> messages[i].text]))

-----------------------------------------------------------------------------
(* PinSystemMessages.                                                      *)
systemOf(messages) == SelectSeq(messages, LAMBDA x : x.role = "system")
nonSystemOf(messages) == SelectSeq(messages, LAMBDA x : x.role # "system")
PinSystemMessages(m) == IF settings.pin THEN systemOf(m) \o nonSystemOf(m) ELSE m

-----------------------------------------------------------------------------
(* PruneStaleToolCalls.  Indices count from 1.                             *)

areToolResultsPaired(m, i) ==
    \A j \in DOMAIN m[i].calls : m[i + j].role = "tool" /\ m[i + j].of = m[i].calls[j]

Prunable(m, i, pruneEnd) ==
    /\ m[i].role = "assistant" /\ m[i].calls # <<>>
    /\ i + Len(m[i].calls) < pruneEnd + 1
    /\ areToolResultsPaired(m, i)

pruneWindowStart(n) == IF MutationWindow < n THEN n - MutationWindow ELSE 0

(* The last prunable exchange before pruneEnd gives way to a placeholder.  *)
pruneLast(m, windowStart) ==
    LET pruneEnd == IF ToolProtectionWindow < Len(m) THEN Len(m) - ToolProtectionWindow ELSE 0
        stale == {i \in windowStart + 1..pruneEnd : Prunable(m, i, pruneEnd)}
        last == Max(stale)
    IN  IF stale = {} THEN m
        ELSE SubSeq(m, 1, last - 1) \o <<Placeholder>> \o SubSeq(m, last + Len(m[last].calls) + 1, Len(m))

(* ... over and over; there are fewer exchanges than messages.             *)
PruneStaleToolCalls(m) ==
    IF settings.prune THEN FoldLeft(LAMBDA rest, x : pruneLast(rest, pruneWindowStart(Len(m))), m, m) ELSE m

(* PruneThoughts, on the slice that pruning left.                          *)
stripThoughtBlocks(m) ==
    IF m.role = "assistant" /\ ~m.parts
    THEN [m EXCEPT !.text = [k \in DOMAIN @ |-> IF @[k] = "think" THEN "thought pruned" ELSE @[k]]] ELSE m
PruneThoughts(m) ==
    IF settings.thoughts THEN [i \in DOMAIN m |-> IF i > pruneWindowStart(Len(m)) THEN stripThoughtBlocks(m[i]) ELSE m[i]] ELSE m

(* The same slice seen through the header the caller still holds: pruning  *)
(* shifts the elements in place and sets the ones it vacates to nil.       *)
Backing(pruned, n) == pruned \o [i \in 1..n - Len(pruned) |-> Null]

-----------------------------------------------------------------------------
(* Window compaction: where the head ends and the active window begins.    *)

(* Mutant: the split may fall between a call and its results.              *)
splitAnywhere(m) == Max({0} \cup 1..Len(m) - ActiveMessages)

splitIdx(m) == Max({0} \cup {s \in 1..Len(m) - ActiveMessages : m[s + 1].role # "tool"})

historyStart(m, split) == Max({0} \cup {h \in 1..split : \A i \in 1..h : m[i].role = "system"})

(* calculateWindowParams, or NoWindow where it says no.                    *)
NoWindow == [ok |-> FALSE, system |-> <<>>, history |-> <<>>, active |-> <<>>]
windowAt(m, split) ==
    [ok |-> TRUE, system |-> SubSeq(m, 1, historyStart(m, split)),
     history |-> SubSeq(m, historyStart(m, split) + 1, split), active |-> SubSeq(m, split + 1, Len(m))]
calculateWindowParams(m, tokens) ==
    IF tokens > TriggerTokens /\ Len(m) > ActiveMessages /\ splitIdx(m) > 0
    THEN windowAt(m, splitIdx(m)) ELSE NoWindow

lineageKey(w) == <<w.system, w.history[1]>>

buildCompactedMessages(w, head, deltaStart) ==
    w.system \o <<HeadMessage(head)>> \o SubSeq(w.history, deltaStart + 1, Len(w.history))
        \o (IF w.active[1].role = "assistant" THEN <<ResumedMarker>> ELSE <<>>) \o w.active

-----------------------------------------------------------------------------
(* The lineage caches.                                                     *)

Entry(key, text, len, engine) == [key |-> key, text |-> text, len |-> len, engine |-> engine]
Without(key) == SelectSeq(cache, LAMBDA e : e.key # key)
entryOf(key) == SelectSeq(cache, LAMBDA e : e.key = key)
WithinRegen(grown, len) == grown * Regen[2] < len * Regen[1]

(* A stored summary is taken for the engine's.                             *)
Hit(e, deltaStart) ==
    [hit |-> TRUE, head |-> compactedHead(e.text, e.engine, settings.mode = "summarize"), deltaStart |-> deltaStart,
     cache |-> <<e>> \o Without(e.key)]
Miss(c) == [hit |-> FALSE, head |-> Null.head, deltaStart |-> 0, cache |-> c]

(* SummaryCache.Lookup: equal text, or a few messages more.  Nothing tells *)
(* an edited history from a grown one.                                     *)
SummaryLookup(e, text, len) ==
    IF e.text = text THEN Hit(e, len)
    ELSE IF len > e.len /\ WithinRegen(len - e.len, e.len) THEN Hit(e, e.len)
    ELSE Miss(<<e>> \o Without(e.key))

(* Mutant: as long as before is taken for the same.                        *)
HeadLookupByLength(e, text, len) ==
    IF len < e.len THEN Miss(Without(e.key))
    ELSE IF len = e.len \/ WithinRegen(len - e.len, e.len) THEN Hit(e, e.len)
    ELSE Miss(<<e>> \o Without(e.key))

(* WindowHeadCache.Lookup: the covered text must still be a prefix.        *)
HeadLookup(e, text, len) ==
    IF len < e.len \/ ~IsPrefix(e.text, text) THEN Miss(Without(e.key))
    ELSE IF len = e.len \/ WithinRegen(len - e.len, e.len) THEN Hit(e, e.len)
    ELSE Miss(<<e>> \o Without(e.key))

lookupCachedWindowHead(key, text, len) ==
    IF settings.mode = "truncate" \/ entryOf(key) = <<>> THEN Miss(cache)
    ELSE IF settings.mode = "summarize" THEN SummaryLookup(entryOf(key)[1], text, len)
    ELSE HeadLookup(entryOf(key)[1], text, len)

Store(e) == SubSeq(<<e>> \o Without(e.key), 1, Min({CacheCap, Len(Without(e.key)) + 1}))

-----------------------------------------------------------------------------
(* The payload for a target.                                               *)

flattenContentArrays(m, target) ==
    IF target.arrays THEN m ELSE [i \in DOMAIN m |-> IF m[i].text = <<>> THEN m[i] ELSE [m[i] EXCEPT !.parts = FALSE]]

repairStep(acc, m) ==
    [out |-> acc.out \o (IF m.role = "user" /\ acc.sawTool THEN <<Bridge>> ELSE <<>>) \o <<m>>,
     sawTool |-> m.role = "tool" \/ (m.role = "nil" /\ acc.sawTool)]
repairMessageOrdering(m) == FoldLeft(repairStep, [out |-> <<>>, sawTool |-> FALSE], m).out

(* shouldInjectSystem: a client's own system message keeps an agent's      *)
(* prompt out unless that is forced.                                       *)
injectSystemMessage(m) ==
    IF m # <<>> /\ (settings.prompt = "forced" \/ (settings.prompt = "default" /\ m[1].role # "system"))
    THEN <<AgentPrompt>> \o m ELSE m

(* truncationSplits: of n tokens, how many from the front and the back.    *)
keepOf(n, k) == (n * KeepPct[k]) \div 100
truncationSplits(n) ==
    CASE keepOf(n, 1) = 0 -> <<1, n - 1>>
      [] keepOf(n, 1) > 0 /\ keepOf(n, 2) = 0 -> <<n - 1, 1>>
      [] keepOf(n, 1) > 0 /\ keepOf(n, 2) > 0 -> <<keepOf(n, 1), keepOf(n, 2)>>

(* TruncateMiddleOut, with a marker of one token.                          *)
TruncateMiddleOut(text, n) ==
    IF Len(text) <= n THEN text
    ELSE IF n <= 1 THEN <<"truncated">>
    ELSE SubSeq(text, 1, truncationSplits(n - 1)[1]) \o <<"truncated">>
            \o SubSeq(text, Len(text) - truncationSplits(n - 1)[2] + 1, Len(text))

clampToolOutput(m) ==
    IF m.role = "tool" /\ ~m.parts THEN [m EXCEPT !.text = TruncateMiddleOut(@, ToolOutputClamp)] ELSE m

(* Mutant: every message may be dropped alone.                             *)
startsAlways(m, i) == TRUE

(* groupTrimUnits: i starts a unit unless it is a result of the calls that *)
(* open the unit it stands in.                                             *)
startsUnit(m, i) ==
    ~ /\ m[i].role = "tool"
      /\ \E k \in 1..i - 1 : m[k].calls # <<>> /\ \A j \in k + 1..i : m[j].role = "tool"

keepFrom(m, budget) ==
    Min({i \in 1..Len(m) + 1 : (i > Len(m) \/ startsUnit(m, i)) /\ countAllTokens(SubSeq(m, i, Len(m))) <= budget})

(* The unit at the boundary is shortened when it is a single message.      *)
shortened(m, from, room) ==
    IF from > 1 /\ startsUnit(m, from - 1) /\ room > 0
    THEN <<IF m[from - 1].parts THEN m[from - 1] ELSE [m[from - 1] EXCEPT !.text = TruncateMiddleOut(@, room)]>> ELSE <<>>

keptFrom(m, from, budget) ==
    shortened(m, from, budget - countAllTokens(SubSeq(m, from, Len(m)))) \o SubSeq(m, from, Len(m))
keepUnits(m, budget) == keptFrom(m, keepFrom(m, budget), budget)

TrimPayload(m, budget) ==
    IF budget = 0 \/ countAllTokens(m) <= budget THEN m
    ELSE systemOf(m) \o keepUnits([i \in DOMAIN nonSystemOf(m) |-> clampToolOutput(nonSystemOf(m)[i])], budget)

-----------------------------------------------------------------------------
NoRequest == [pc |-> "idle", input |-> <<>>, msgs |-> <<>>, window |-> NoWindow, out |-> <<>>]

HInit == settings \in Settings /\ cache = <<>> /\ req = [r \in Requests |-> NoRequest]

(* The payload as the window stage leaves it to the interceptor chain.     *)
Leaves(r, input, msgs) == req' = [req EXCEPT ![r] = [NoRequest EXCEPT !.pc = "chain", !.input = input, !.msgs = msgs]]

(* ApplyWindowCompaction of a payload whose compacted region is w.         *)
Compact(r, input, pruned, w, found) ==
    /\ cache' = found.cache
    /\ IF found.hit THEN Leaves(r, input, buildCompactedMessages(w, found.head, found.deltaStart))
       ELSE req' = [req EXCEPT ![r] = [NoRequest EXCEPT !.pc = "engine", !.input = input, !.msgs = pruned, !.window = w]]

applyWindowStage(r, input, pruned, w) ==
    IF w.ok /\ SerializeMessages(w.history) # <<>>
    THEN Compact(r, input, pruned, w,
                 lookupCachedWindowHead(lineageKey(w), SerializeMessages(w.history), Len(w.history)))
    ELSE Leaves(r, input, pruned) /\ UNCHANGED cache

(* A payload that fits is left to the provider's own prefix cache.         *)
cacheAwareActive(input, tokens) == input.aware /\ tokens < HardLimit

(* applyContentPipeline up to the engine call.  The payload has the pruned *)
(* slice; the window stage is given the slice and the token count from     *)
(* before the pruning.                                                     *)
applyContentPipeline(r, input) ==
    LET messages == PinSystemMessages(input.messages)
        tokens == countAllTokens(messages)
        pruned == IF input.ide THEN messages ELSE PruneThoughts(PruneStaleToolCalls(messages))
    IN  /\ req[r].pc \in {"idle", "target"}
        /\ IF settings.mode = "off" \/ cacheAwareActive(input, tokens)
           THEN Leaves(r, input.messages, pruned) /\ UNCHANGED cache
           ELSE applyWindowStage(r, input.messages, pruned, calculateWindowParams(Backing(pruned, Len(messages)), tokens))
        /\ UNCHANGED settings

(* InterceptorChain.Execute, in outline: what has nothing to screen passes *)
(* unchanged, an abort ends the request.                                  *)
ChainPasses(r) ==
    req[r].pc = "chain" /\ req' = [req EXCEPT ![r].pc = "target"] /\ UNCHANGED <<settings, cache>>
ChainAborts(r) ==
    req[r].pc = "chain" /\ req' = [req EXCEPT ![r] = NoRequest] /\ UNCHANGED <<settings, cache>>

(* generateWindowSummaryTracked: the head covers the whole history, and    *)
(* only a summary the gate keeps and the tfidf head are stored.            *)
Generated(r, w, text, engine, stored) ==
    /\ cache' = IF stored THEN Store(Entry(lineageKey(w), text, Len(w.history), engine)) ELSE cache
    /\ Leaves(r, req[r].input, buildCompactedMessages(w, compactedHead(text, engine, engine), Len(w.history)))
    /\ UNCHANGED settings

(* Mutant: whatever stands for the summary is cached (AUD-11).             *)
GeneratedAndKept(r, engine, stored) ==
    Generated(r, req[r].window, SerializeMessages(req[r].window.history), engine, TRUE)

GeneratedBy(r, engine, stored) ==
    Generated(r, req[r].window, SerializeMessages(req[r].window.history), engine, stored)

(* generateWindowSummary, per mode.                                        *)
Tfidf(r) == req[r].pc = "engine" /\ settings.mode = "tfidf" /\ GeneratedBy(r, FALSE, TRUE)
Truncate(r) == req[r].pc = "engine" /\ settings.mode = "truncate" /\ GeneratedBy(r, FALSE, FALSE)

(* applyFidelityGate: only a strict gate's "insufficient" discards.        *)
Verdicts == {"faithful", "insufficient", "inconclusive", "failed"}
applyFidelityGate(verdict) == ~(settings.gate = "strict" /\ verdict = "insufficient")

(* generateEngineSummary: a summary, truncation when the engine fails, or  *)
(* nothing, which leaves the payload as it was.                            *)
EngineSummary(r) ==
    /\ req[r].pc = "engine" /\ settings.mode = "summarize"
    /\ \E verdict \in Verdicts : GeneratedBy(r, applyFidelityGate(verdict), applyFidelityGate(verdict))
EngineFails(r) == req[r].pc = "engine" /\ settings.mode = "summarize" /\ GeneratedBy(r, FALSE, FALSE)
EngineSaysNothing(r) ==
    req[r].pc = "engine" /\ settings.mode = "summarize" /\ Leaves(r, req[r].input, req[r].msgs) /\ UNCHANGED <<settings, cache>>

(* TransformRequestForUpstream, for each target anew: the retry loop gives *)
(* every attempt a fresh copy of the payload.                              *)
TransformRequestForUpstream(r, target) ==
    LET sanitized == repairMessageOrdering(flattenContentArrays(req[r].msgs, target))
    IN  /\ req[r].pc = "target"
        /\ req' = [req EXCEPT ![r].out = TrimPayload(injectSystemMessage(sanitized), target.budget)]
        /\ UNCHANGED <<settings, cache>>

HNext == \E r \in Requests :
    \/ \E input \in Inputs : applyContentPipeline(r, input)
    \/ Tfidf(r) \/ Truncate(r) \/ EngineSummary(r) \/ EngineFails(r) \/ EngineSaysNothing(r)
    \/ ChainPasses(r) \/ ChainAborts(r)
    \/ \E target \in Targets : TransformRequestForUpstream(r, target)

HSpec == HInit /\ [][HNext]_hvars

-----------------------------------------------------------------------------
(* Properties.                                                             *)

(* What a payload tells the model, thoughts aside, heads replaced by what  *)
(* they stand for.                                                         *)
Plain(text) == SelectSeq(text, LAMBDA x : x \notin {"think", "thought pruned"})
Told(m) == Plain(FlattenSeq([i \in DOMAIN m |->
    IF m[i].head.covers # <<>> THEN m[i].head.covers ELSE IF m[i] = ResumedMarker THEN <<>> ELSE Serialized(m[i])]))

(* A summary was made of another branch of the conversation: the client    *)
(* edited a turn the cached summary covers (SummaryCache.Lookup keeps it). *)
OfOtherBranch(m, input) ==
    /\ settings.mode = "summarize"
    /\ \E i \in DOMAIN m : /\ m[i].head.covers # <<>>
                           /\ ~IsPrefix(m[i].head.covers, SerializeMessages(nonSystemOf(input)))

(* No turn is lost or told twice, however often the head was reused: the   *)
(* head and the messages after it tell the client's conversation, in       *)
(* order, and what was pruned is only whole tool exchanges.                *)
ToldOnce == \A r \in Requests :
    req[r].pc \in {"chain", "target"} /\ ~OfOtherBranch(req[r].msgs, req[r].input) =>
        IF settings.prune
        THEN SelectSeq(req[r].msgs, LAMBDA x : x.role = "user") = SelectSeq(req[r].input, LAMBDA x : x.role = "user")
        ELSE Told(req[r].msgs) = Plain(SerializeMessages(PinSystemMessages(req[r].input)))

(* Whatever was pruned, compacted, repaired and trimmed, a call is         *)
(* followed by its results, a result follows its call, and no user message *)
(* directly follows a result.                                              *)
ExchangesWhole == \A r \in Requests :
    ~OfOtherBranch(req[r].msgs, req[r].input) =>
        LET m == req[r].out
        IN  \A i \in DOMAIN m :
                /\ i + Len(m[i].calls) <= Len(m) /\ areToolResultsPaired(m, i)
                /\ m[i].role = "tool" => \E k \in 1..i - 1 : k + Len(m[k].calls) >= i
                /\ m[i].role = "user" /\ i > 1 => m[i - 1].role # "tool"

(* A head is enveloped as inert data exactly when an engine wrote it, also *)
(* when it comes from the cache turns later: a truncated stand-in for a    *)
(* failed summary is never kept as one.                                    *)
EnvelopedAsMade == \A r \in Requests : \A i \in DOMAIN req[r].msgs :
    req[r].msgs[i].head.enveloped = req[r].msgs[i].head.engine

Newest(m, n) == [i \in 1..n |-> [m[Len(m) - n + i] EXCEPT !.text = Plain(@)]]

(* The newest messages, which neither pruning nor the window may touch     *)
(* ("Keeping recent messages intact", window.go:8), end the payload.       *)
RecentKept == \A r \in Requests :
    req[r].pc \in {"chain", "target"} =>
        LET n == Min({ActiveMessages, ToolProtectionWindow, Len(req[r].input)})
        IN  /\ Len(req[r].msgs) >= n
            /\ Newest(req[r].msgs, n) = Newest(PinSystemMessages(req[r].input), n)
=============================================================================
