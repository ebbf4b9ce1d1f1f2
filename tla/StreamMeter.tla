----------------------------- MODULE StreamMeter -----------------------------
(***************************************************************************)
(* What the stream reader reads out of the chunks it forwards: the token   *)
(* usage, reduced to one shape and reported as deltas (internal/stream/    *)
(* usage_normalize.go, reader_pipeline.go extractUsageFromMap), and the    *)
(* tool calls, given ids and held until they have a name                   *)
(* (normalizeToolCalls, internal/util/toolcall.go).                        *)
(*                                                                         *)
(* The usage object is the record of the numbers readUsageFields finds in  *)
(* it, 0 where a field is missing.  A tool-call id is <<>> when it is not  *)
(* valid, <<"call", n>> for the text call_n, which is how ids are made     *)
(* here, and <<"id", n>> for any other text.  A delta of several calls is  *)
(* one step per call.  A call without an index has its position in the     *)
(* delta for one, so the calls of an upstream that sends no index, each in *)
(* deltas of its own, all have index 0.                                    *)
(***************************************************************************)
EXTENDS Integers, Sequences

CONSTANTS
    Streams,     \* what upstreams send: shape of the usage; id and index of each call
    Prompts,     \* tokens of the input, and those of them read from and written to a cache
    MaxOutput,   \* bound: tokens generated
    MaxParts     \* bound: argument fragments of a call

VARIABLES
    stream,          \* the upstream's shape and calls
    truth,           \* what it has used: input, cached, created, output, thoughts
    mark, reported,  \* the reader's last* fields; the sum of the deltas
    seenIndices, seenIDs, pending,  \* toolCallState
    fed,             \* per call: fragments sent in all, and to an index not known; name sent
    shown            \* per call: what the client gets of it, id, name, arguments

usageVars == <<truth, mark, reported>>
callVars == <<seenIndices, seenIDs, pending, fed, shown>>
mvars == <<stream, usageVars, callVars>>

Shapes == {"openai", "no total", "with miss", "both", "relay", "anthropic", "gemini"}

MeterAssumption ==
    /\ \A s \in Streams : s.shape \in Shapes /\ DOMAIN s.calls \subseteq Nat
    /\ Prompts \subseteq [input : Nat, cached : Nat, created : Nat]
    /\ \A p \in Prompts : p.cached + p.created <= p.input
    /\ {MaxOutput, MaxParts} \subseteq Nat

max(a, b) == IF a >= b THEN a ELSE b

-----------------------------------------------------------------------------
(* The running totals an upstream reports.  OpenAI counts the cached       *)
(* tokens into its input, Anthropic beside it and sends input and output   *)
(* in different chunks, Gemini counts thoughts beside the output.  A relay *)
(* passes Anthropic's numbers on under OpenAI's names, or adds both kinds. *)
NoFields == [openAIInput |-> 0, openAIOutput |-> 0, openAITotal |-> 0, cacheHit |-> 0, cacheMiss |-> 0, cacheCreation |-> 0,
             nativeInput |-> 0, nativeOutput |-> 0, nativeCacheRead |-> 0, nativeCacheCreation |-> 0,
             geminiPrompt |-> 0, geminiCandidates |-> 0, geminiThoughts |-> 0, geminiTotal |-> 0, geminiCached |-> 0, reasoning |-> 0]

usageObject(shape, part) ==
    LET t == truth
        fresh == t.input - t.cached - t.created
        openAI == [NoFields EXCEPT !.openAIInput = t.input, !.openAIOutput = t.output, !.cacheHit = t.cached,
                                   !.cacheCreation = t.created, !.reasoning = t.thoughts]
    IN  CASE shape = "openai" -> [openAI EXCEPT !.openAITotal = t.input + t.output]
          [] shape = "no total" -> openAI
          [] shape = "with miss" -> [openAI EXCEPT !.cacheMiss = fresh]
          [] shape = "both" -> [openAI EXCEPT !.nativeCacheRead = t.cached, !.nativeCacheCreation = t.created, !.openAITotal = t.input + t.output]
          [] shape = "relay" -> [NoFields EXCEPT !.openAIInput = fresh, !.openAIOutput = t.output, !.nativeCacheRead = t.cached,
                                                 !.nativeCacheCreation = t.created]
          [] shape = "anthropic" /\ part = "start" -> [NoFields EXCEPT !.nativeInput = fresh, !.nativeCacheRead = t.cached,
                                                                      !.nativeCacheCreation = t.created]
          [] shape = "anthropic" /\ part = "delta" -> [NoFields EXCEPT !.nativeOutput = t.output, !.reasoning = t.thoughts]
          [] shape = "gemini" -> [NoFields EXCEPT !.geminiPrompt = t.input, !.geminiCached = t.cached, !.geminiThoughts = t.thoughts,
                                                  !.geminiCandidates = t.output - t.thoughts, !.geminiTotal = t.input + t.output]

-----------------------------------------------------------------------------
(* usage_normalize.go.                                                     *)
NoTotals == [prompt |-> 0, completion |-> 0, total |-> 0, hit |-> 0, miss |-> 0, creation |-> 0, reasoning |-> 0]

hasGemini(f) == f.geminiPrompt # 0 \/ f.geminiCandidates # 0 \/ f.geminiThoughts # 0
geminiOnly(f) == hasGemini(f) \/ f.geminiTotal # 0 \/ f.geminiCached # 0

openAICacheDecomposition(f) == f.cacheHit > 0 \/ f.cacheCreation > 0

(* The input field excludes the cache dimensions.                          *)
anthropicInputSemantics(f) ==
    \/ f.nativeInput # 0 \/ f.nativeOutput # 0
    \/ ~openAICacheDecomposition(f) /\ (f.nativeCacheRead # 0 \/ f.nativeCacheCreation # 0)

ExtractReasoningTokens(f) == IF f.reasoning > 0 THEN f.reasoning ELSE f.geminiThoughts

geminiTotals(f) ==
    [prompt |-> f.geminiPrompt, completion |-> f.geminiCandidates + f.geminiThoughts, total |-> f.geminiTotal,
     hit |-> f.geminiCached, miss |-> max(0, f.geminiPrompt - f.geminiCached), creation |-> f.cacheCreation,
     reasoning |-> ExtractReasoningTokens(f)]

anthropicTotals(f) ==
    LET input == IF f.nativeInput = 0 THEN f.openAIInput ELSE f.nativeInput
        output == IF f.nativeOutput = 0 THEN f.openAIOutput ELSE f.nativeOutput
        prompt == input + f.nativeCacheRead + f.nativeCacheCreation
        hit == max(f.nativeCacheRead, f.cacheHit)
        creation == max(f.nativeCacheCreation, f.cacheCreation)
    IN  [prompt |-> prompt, completion |-> output, total |-> prompt + output, hit |-> hit,
         miss |-> max(0, prompt - hit - creation), creation |-> creation, reasoning |-> ExtractReasoningTokens(f)]

(* A miss the provider reports wins over the remainder.                    *)
openAITotals(f) ==
    [prompt |-> f.openAIInput, completion |-> f.openAIOutput, total |-> f.openAITotal, hit |-> f.cacheHit,
     miss |-> IF f.cacheMiss = 0 /\ (f.cacheHit > 0 \/ f.cacheCreation > 0)
              THEN max(0, f.openAIInput - f.cacheHit - f.cacheCreation) ELSE f.cacheMiss,
     creation |-> f.cacheCreation, reasoning |-> ExtractReasoningTokens(f)]

NormalizeUsageTotals(f) ==
    LET t == IF geminiOnly(f) THEN geminiTotals(f) ELSE IF anthropicInputSemantics(f) THEN anthropicTotals(f) ELSE openAITotals(f)
    IN  [t EXCEPT !.total = IF @ = 0 THEN t.prompt + t.completion ELSE @]

TotalReported(f) ==
    IF geminiOnly(f) THEN f.geminiTotal # 0 ELSE ~anthropicInputSemantics(f) /\ f.openAITotal # 0

-----------------------------------------------------------------------------
(* Mutant: the running total is taken for a delta.                         *)
advanceEvery(current, last) == [delta |-> current, mark |-> current]

advanceHighWater(current, last) ==
    IF current <= last THEN [delta |-> 0, mark |-> last] ELSE [delta |-> current - last, mark |-> current]

(* extractUsageFromMap: a total the provider does not report follows its   *)
(* parts, and leaves its mark alone.  An object of zeros, and one that     *)
(* moves nothing, report nothing.                                          *)
ExtractUsage(part) ==
    LET f == usageObject(stream.shape, part)
        totals == NormalizeUsageTotals(f)
        adv == [k \in DOMAIN NoTotals |-> advanceHighWater(totals[k], mark[k])]
        delta == [k \in DOMAIN NoTotals |->
                    IF k = "total" /\ ~TotalReported(f) THEN adv.prompt.delta + adv.completion.delta ELSE adv[k].delta]
    IN  /\ part = "delta" => stream.shape = "anthropic"
        /\ totals # NoTotals /\ delta # NoTotals
        /\ mark' = [k \in DOMAIN NoTotals |-> IF k = "total" /\ ~TotalReported(f) THEN mark[k] ELSE adv[k].mark]
        /\ reported' = [k \in DOMAIN NoTotals |-> reported[k] + delta[k]]
        /\ UNCHANGED <<stream, truth, callVars>>

(* The model writes.                                                       *)
Generate(thought) ==
    /\ truth.output < MaxOutput
    /\ truth' = [truth EXCEPT !.output = @ + 1, !.thoughts = @ + (IF thought THEN 1 ELSE 0)]
    /\ UNCHANGED <<stream, mark, reported, callVars>>

-----------------------------------------------------------------------------
(* toolcall.go.                                                            *)
SyntheticToolCallID(i) == <<"call", i>>
IsSyntheticToolCallID(id) == id # <<>> /\ id[1] = "call"
ValidToolCallID(id) == id # <<>>

(* Mutant: an id is passed on whether or not another call has it.          *)
normalizedAsGiven(i, id) == IF ValidToolCallID(id) THEN id ELSE SyntheticToolCallID(i)

normalizeToolCallID(i, id) ==
    IF ValidToolCallID(id) /\ id \notin seenIDs THEN id ELSE SyntheticToolCallID(i)

noPending == [id |-> <<>>, args |-> 0]
noCall == [id |-> <<>>, name |-> FALSE, args |-> 0]
unfed == [args |-> 0, named |-> FALSE, early |-> 0]

(* mergePendingToolCall: an id made here gives way to the one held back.   *)
mergePending(i, id, n) ==
    [id |-> IF IsSyntheticToolCallID(id) /\ pending[i] # noPending THEN pending[i].id ELSE id,
     name |-> TRUE, args |-> pending[i].args + n]

(* A chunk of a known index passes as it came: its id is not looked at,    *)
(* and the client keeps the first one it gets.                             *)
forwarded(call, given, named, n) ==
    [id |-> IF call.id = <<>> THEN given ELSE call.id, name |-> call.name \/ named, args |-> call.args + n]

Calls == DOMAIN stream.calls
index(c) == stream.calls[c].index
opens(c) == \A d \in Calls : d < c => index(d) # index(c)

(* The calls of one index come one after the other.                        *)
inTurn(c) ==
    \A d \in Calls : index(d) = index(c) => (d < c => fed[d].named) /\ (d > c => fed[d] = unfed)

(* processToolCallDelta, for one call with n argument fragments (0 for     *)
(* none, or the placeholder {}): a known index passes; a named call is     *)
(* merged with what is pending; fragments without a name are buffered in   *)
(* place of the ones before; with neither the call is dropped.             *)
ToolDelta(c, given, named, n) ==
    LET i == index(c)
        id == normalizeToolCallID(i, given)
        known == i \in seenIndices
    IN  /\ inTurn(c) /\ fed[c].args + n <= MaxParts /\ (named => ~fed[c].named)
        /\ fed' = [fed EXCEPT ![c] = [args |-> @.args + n, named |-> @.named \/ named,
                                        early |-> @.early + (IF named \/ known THEN 0 ELSE n)]]
        /\ shown' = IF known THEN [shown EXCEPT ![c] = forwarded(@, given, named, n)]
                    ELSE IF named THEN [shown EXCEPT ![c] = mergePending(i, id, n)] ELSE shown
        /\ seenIndices' = IF named THEN seenIndices \cup {i} ELSE seenIndices
        /\ seenIDs' = IF known \/ ~ValidToolCallID(given) THEN seenIDs ELSE seenIDs \cup {given}
        /\ pending' = IF known THEN pending
                      ELSE IF named THEN [pending EXCEPT ![i] = noPending]
                      ELSE IF n > 0 THEN [pending EXCEPT ![i] = [id |-> id, args |-> n]] ELSE pending
        /\ UNCHANGED <<stream, usageVars>>

MInit ==
    /\ stream \in Streams
    /\ \E p \in Prompts :
         /\ stream.shape = "gemini" => p.created = 0
         /\ truth = [input |-> p.input, cached |-> p.cached, created |-> p.created, output |-> 0, thoughts |-> 0]
    /\ mark = NoTotals /\ reported = NoTotals
    /\ seenIndices = {} /\ seenIDs = {} /\ pending = [i \in {index(c) : c \in Calls} |-> noPending]
    /\ fed = [c \in Calls |-> unfed] /\ shown = [c \in Calls |-> noCall]

MNext ==
    \/ \E part \in {"start", "delta"} : ExtractUsage(part)
    \/ \E thought \in BOOLEAN : Generate(thought)
    \/ \E c \in Calls, named \in BOOLEAN, n \in 0..1 : \E given \in {stream.calls[c].id, <<>>} : ToolDelta(c, given, named, n)

MSpec == MInit /\ [][MNext]_mvars

-----------------------------------------------------------------------------
(* usage_normalize.go: in every shape each token is counted once.  The     *)
(* deltas of a stream add up to its totals at the last report, the total   *)
(* to input and output, the cache counters to the input once one of them   *)
(* is there (the invariant at :23-24), and the thoughts are part of the    *)
(* output.                                                                 *)
CountedOnce ==
    /\ reported.total = reported.prompt + reported.completion
    /\ reported.prompt \in {0, truth.input} /\ reported.completion <= truth.output
    /\ reported.hit + reported.creation > 0 => reported.hit + reported.miss + reported.creation = reported.prompt
    /\ reported.reasoning <= reported.completion

(* Fragments buffered for a call take each other's place (:797-801): of    *)
(* several that come before the name the last one survives.                *)
overwritten(c) == IF fed[c].early > 1 THEN fed[c].early - 1 ELSE 0

(* processToolCallDelta: two calls that open their indices get one id,     *)
(* however ids repeat or are missing, only where the upstream itself gave  *)
(* one the id made here for the other.  Every call that was named is       *)
(* shown, those that share an index too, and the arguments shown are the   *)
(* ones sent, but for those overwritten while the call had no name.        *)
CallsWhole ==
    /\ \A c, d \in Calls :
         /\ c # d /\ opens(c) /\ opens(d) /\ {index(c), index(d)} \subseteq seenIndices
         /\ shown[c].id = shown[d].id
         => stream.calls[c].id = SyntheticToolCallID(index(d)) \/ stream.calls[d].id = SyntheticToolCallID(index(c))
    /\ \A c \in Calls :
         /\ fed[c].named => shown[c].name
         /\ index(c) \in seenIndices => shown[c].args = fed[c].args - overwritten(c)

(* What the reader reads out of a stream is what the upstream sent.        *)
MeterSound == CountedOnce /\ CallsWhole
=============================================================================
