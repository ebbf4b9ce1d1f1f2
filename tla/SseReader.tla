------------------------------ MODULE SseReader ------------------------------
(***************************************************************************)
(* The stream between upstream and client: the reader that transforms and  *)
(* filters every line and classifies the ending (internal/stream/reader.go,*)
(* reader_pipeline.go, reader_terminal.go), the egress guard that          *)
(* withholds text which may grow into a URL (exfil.go), the block filters  *)
(* (filter.go, CanaryWatcher) and the two wire converters                  *)
(* (anthropic_transformer.go, openai_to_anthropic_transformer.go).         *)
(*                                                                         *)
(* Text is a sequence of tokens: "w" a word, "_" whitespace, "h" the start *)
(* of a URL, "t" the part of a URL the policy rejects, "[" and ")" the     *)
(* ends of a markdown link, "k" what a block pattern matches, "c" the      *)
(* canary, "P" the placeholder.  A frame is one data line; a blank line    *)
(* ends an event.                                                          *)
(* Secret and entropy redaction rewrite letters and are left out.          *)
(***************************************************************************)
EXTENDS Integers, Sequences, FiniteSets, SequencesExt, FiniteSetsExt

CONSTANTS
    Modes,       \* wire pairs: "openai", "anthropic", "toOpenAI", "toAnthropic"
    Texts,       \* what the model writes
    Actions,     \* the guard's actions, "strip" and "block"
    MaxChunk,    \* bound: tokens in one delta
    WindowSize   \* exfilWindowRunes

VARIABLES
    mode, text, action,  \* fixed for the stream
    up,          \* the upstream: stage, tokens sent, blank line owed
    guard,       \* ExfilGuard: pending, window, blocked
    filter,      \* which of StreamFilter and CanaryWatcher blocked
    conv,        \* the transformer: started, open, finish, done
    saw,         \* what trackStreamProgress noted
    wire,        \* the frames the client was sent
    line,        \* framing: the reader's lastLineBlank, the client's open event
    end          \* r.err, injectedError, observer notified, proxy concluded

tvars == <<mode, text, action, up, guard, filter, conv, saw, wire, line, end>>

Converted == mode \in {"toOpenAI", "toAnthropic"}
AnthropicUpstream == mode \in {"anthropic", "toOpenAI"}

Frame(k) == [k |-> k, t |-> <<>>]
TextFrame(t) == [k |-> "text", t |-> t]

(* forEachFilterableTextPart: the model text of a chunk, whatever its      *)
(* surface (OpenAI, Anthropic, Gemini).                                    *)
filterableText(f) == f.t
Blank == Frame("blank")

-----------------------------------------------------------------------------
(* The guard (exfil.go).  extractTargets: complete markdown links, and     *)
(* bare URLs with a terminator after them.                                 *)
inUrl(s, a, b) == \A i \in a..b : s[i] \in {"t", "w"}

linkSpans(s) ==
    {sp \in (DOMAIN s) \X (DOMAIN s) :
        /\ sp[1] < sp[2] /\ s[sp[1]] = "[" /\ s[sp[2]] = ")"
        /\ \E u \in sp[1] + 1 .. sp[2] - 1 :
             /\ s[u] = "h" /\ inUrl(s, u + 1, sp[2] - 1)
             /\ \A i \in sp[1] + 1 .. u - 1 : s[i] \in {"w", "_"}}

bareSpans(s) ==
    {sp \in (DOMAIN s) \X (DOMAIN s) :
        /\ sp[1] <= sp[2] /\ s[sp[1]] = "h" /\ inUrl(s, sp[1] + 1, sp[2])
        /\ sp[2] < Len(s) /\ s[sp[2] + 1] \in {"_", ")"}
        /\ ~\E l \in linkSpans(s) : l[1] <= sp[1] /\ sp[2] <= l[2]}

(* evaluate: the URL policy.                                               *)
violates(s, sp) == \E i \in sp[1]..sp[2] : s[i] = "t"

(* scanWindow: the violating spans, in the coordinates of the fresh text.  *)
scanWindow(win, n) ==
    LET off == Len(win) - n IN
    {<<Max({1, sp[1] - off}), Min({n, sp[2] - off})>> :
        sp \in {x \in linkSpans(win) \cup bareSpans(win) : violates(win, x) /\ x[2] > off}}

(* extendCompletedSpans: a span that starts at the cut is complete.        *)
extendCompletedSpans(n, spans, cut) ==
    LET reach[c \in 0..n] == IF \E sp \in spans : sp[1] = c + 1
                             THEN reach[Max({sp[2] : sp \in {x \in spans : x[1] = c + 1}})] ELSE c
    IN  reach[cut]

(* holdCut: how much of the fresh text goes out now.                       *)
holdCut(fresh, spans) ==
    LET spaces == {i \in DOMAIN fresh : fresh[i] = "_"}
        base == IF spaces = {} THEN 0 ELSE Max(spaces)
        crossing == {sp \in spans : sp[1] <= base /\ sp[2] > base}
        whole == IF crossing = {} THEN base ELSE Min({sp[1] : sp \in crossing}) - 1
    IN  Max({extendCompletedSpans(Len(fresh), spans, whole), Len(fresh) - WindowSize})

(* spliceSpans over clipSpansWithin: each span becomes one placeholder.    *)
spliceSpans(s, spans) ==
    FlattenSeq([i \in DOMAIN s |->
        IF \E sp \in spans : sp[1] = i THEN <<"P">>
        ELSE IF \E sp \in spans : sp[1] < i /\ i <= sp[2] THEN <<>> ELSE <<s[i]>>])

windowed(win) == SubSeq(win, Max({1, Len(win) - WindowSize + 1}), Len(win))

NewGuard == [pending |-> <<>>, window |-> <<>>, blocked |-> FALSE]

(* Mutant: only the last delta is looked at, nothing is held.              *)
filterContentUnheld(g, content) ==
    LET spans == scanWindow(content, Len(content)) IN
    [emit |-> spliceSpans(content, spans), guard |-> [g EXCEPT !.blocked = action = "block" /\ spans # {}]]

(* FilterContent.                                                          *)
cutAt(fresh, win, spans, cut) ==
    [emit |-> spliceSpans(SubSeq(fresh, 1, cut), spans),
     guard |-> [pending |-> SubSeq(fresh, cut + 1, Len(fresh)), window |-> win, blocked |-> FALSE]]

applied(fresh, win, spans) ==
    IF action = "block" /\ spans # {}
    THEN [emit |-> <<>>, guard |-> [pending |-> <<>>, window |-> win, blocked |-> TRUE]]
    ELSE cutAt(fresh, win, spans, holdCut(fresh, spans))

scanned(fresh, win) == applied(fresh, win, scanWindow(win, Len(fresh)))

filterContent(g, content) ==
    IF content = <<>> THEN [emit |-> content, guard |-> g]
    ELSE scanned(g.pending \o content, windowed(g.window \o content))

(* InspectFull and Flush: the end of the text terminates a bare URL.       *)
inspectFull(s) == scanWindow(s \o <<"_">>, Len(s) + 1)

(* Flush, then Rearm: the guard is empty, or blocked by what it held.      *)
flush(g) ==
    LET out == g.pending
        stops == action = "block" /\ out # <<>> /\ inspectFull(out) # {}
    IN  [out |-> IF stops THEN <<>> ELSE spliceSpans(out, inspectFull(out)),
         guard |-> [g EXCEPT !.pending = <<>>, !.blocked = stops]]

-----------------------------------------------------------------------------
(* The block filters: a pattern in a delta or the window behind it, and    *)
(* the canary; both block for good.                                        *)
filterBlocks(t) == \E i \in DOMAIN t : t[i] = "k"
canaryTrips(t) == \E i \in DOMAIN t : t[i] = "c"

-----------------------------------------------------------------------------
(* The converters.  OpenAIToAnthropicTransformer: message_start, the text  *)
(* block, its stop at the finish, and a tail held back until the next      *)
(* chunk, [DONE] or FinishTail.                                            *)
NewConv == [started |-> FALSE, open |-> FALSE, finish |-> FALSE, done |-> FALSE]

StreamTail == <<Frame("mdelta"), Frame("mstop")>>
messageStart(c) == IF c.started THEN <<>> ELSE <<Frame("mstart")>>
streamStops(c, f) == IF f.k = "finish" /\ c.open THEN <<Frame("bstop")>> ELSE <<>>
blockDelta(c, f) == IF f.k # "text" \/ f.t = <<>> THEN <<>> ELSE (IF c.open THEN <<>> ELSE <<Frame("bstart")>>) \o <<f>>

toAnthropic(c, f) ==
    IF c.done THEN [out |-> IF c.finish THEN StreamTail ELSE <<>>, consumed |-> ~c.finish, conv |-> [c EXCEPT !.finish = FALSE]]
    ELSE [out |-> messageStart(c) \o blockDelta(c, f) \o streamStops(c, f), consumed |-> FALSE,
          conv |-> [started |-> TRUE, open |-> c.open \/ blockDelta(c, f) # <<>>, finish |-> f.k = "finish", done |-> f.k = "finish"]]

(* AnthropicTransformer: text of a known block, a finish for the           *)
(* message_delta, [DONE] for the message_stop, everything else consumed.   *)
Consumed(c) == [out |-> <<>>, consumed |-> TRUE, conv |-> c]
handleContentBlockStart(c) == Consumed([c EXCEPT !.open = TRUE])
handleContentBlockDelta(c, f) == IF c.open /\ f.t # <<>> THEN [out |-> <<f>>, consumed |-> FALSE, conv |-> c] ELSE Consumed(c)
handleMessageDelta(c) == [out |-> <<Frame("finish")>>, consumed |-> FALSE, conv |-> c]
handleMessageStop(c) == [out |-> <<Frame("done")>>, consumed |-> FALSE, conv |-> [c EXCEPT !.done = TRUE, !.open = FALSE]]

toOpenAI(c, f) ==
    IF c.done THEN Consumed(c)
    ELSE CASE f.k = "bstart" -> handleContentBlockStart(c)
           [] f.k = "text" -> handleContentBlockDelta(c, f)
           [] f.k = "mdelta" -> handleMessageDelta(c)
           [] f.k = "mstop" -> handleMessageStop(c)

convert(c, f) == IF mode = "toAnthropic" THEN toAnthropic(c, f) ELSE toOpenAI(c, f)

(* frameTransformedEvents: typed events end with a blank line, but for the *)
(* last of several; OpenAI chunks have no type.                            *)
framed(fs) ==
    IF mode = "toOpenAI" THEN fs
    ELSE IF Len(fs) = 1 THEN <<fs[1], Blank>>
    ELSE FlattenSeq([i \in DOMAIN fs |-> IF i = Len(fs) THEN <<fs[i]>> ELSE <<fs[i], Blank>>])

-----------------------------------------------------------------------------
(* The reader's pipeline, on a state r that joins the variables.           *)
Reader == [guard |-> guard, filter |-> filter, conv |-> conv, saw |-> saw, line |-> line]

blocked(r) == r.filter # {} \/ r.guard.blocked

(* blockedStreamError.                                                     *)
blockedStreamError(r) ==
    IF "canary" \in r.filter THEN "canary" ELSE IF r.guard.blocked THEN "exfil" ELSE "filter"

(* Mutant: injected frames do not start an event of their own.             *)
eventSeparatorNever(r) == <<>>

(* eventSeparator and appendSSEEvent.                                      *)
eventSeparator(r) == IF r.saw.any /\ ~r.line.lastBlank THEN <<Blank>> ELSE <<>>
event(r, fs) == IF fs = <<>> THEN <<>> ELSE eventSeparator(r) \o fs \o <<Blank>>

(* handleNoTransformer and handleWithTransformer, on the filtered frame f  *)
(* of the upstream's line raw: with no event out, the line itself goes on. *)
converted(r, v, raw) ==
    [r |-> [r EXCEPT !.conv = v.conv],
     out |-> IF v.consumed THEN <<>>
             ELSE IF v.out = <<>> THEN <<[raw EXCEPT !.k = IF @ = "finish" THEN "rawFinish" ELSE "raw"]>>
             ELSE framed(v.out)]

handled(r, f, raw) ==
    IF Converted THEN converted(r, convert(r.conv, f), raw) ELSE [r |-> r, out |-> <<f>>]

(* buildExfilFlushChunk: the held text in the shape of the last chunk.     *)
heldChunk(t) == TextFrame(t)

(* synthesizeHeldFlush: the held tail re-enters as a chunk of its own.     *)
reenters(r, t) ==
    IF t = <<>> THEN [r |-> r, out |-> <<>>]
    ELSE IF canaryTrips(t) THEN [r |-> [r EXCEPT !.filter = {"canary"}], out |-> <<>>]
    ELSE handled(r, heldChunk(t), heldChunk(t))

flushed(r, fl) == reenters([r EXCEPT !.guard = fl.guard], fl.out)

heldFlush(r, discarding) ==
    IF discarding \/ r.guard.blocked THEN [r |-> r, out |-> <<>>] ELSE flushed(r, flush(r.guard))

(* synthesizeTerminalFinish: [DONE] without a finish reason.               *)
synthesizes(r) == ~Converted /\ r.saw.content /\ ~r.saw.finish /\ ~r.saw.anthContent

(* transformerTailFrame: FinishTail.                                       *)
tailFrame(r) == IF mode = "toAnthropic" /\ r.conv.finish THEN framed(StreamTail) ELSE <<>>
tailTaken(r) == [r EXCEPT !.conv.finish = IF mode = "toAnthropic" THEN FALSE ELSE @]

(* finishStreamFrames: held text, synthetic finish, tail, [DONE].          *)
terminalFrames(r, h, synth, tail) ==
    [r |-> [tailTaken(h.r) EXCEPT !.saw.finish = @ \/ synth # <<>>, !.saw.done = TRUE],
     out |-> IF h.out \o synth \o tail = <<>> THEN <<Frame("done")>>
             ELSE event(r, h.out) \o event(r, synth) \o event(r, tail) \o event(r, <<Frame("done")>>)]

finishing(r, h) ==
    terminalFrames(r, h, IF synthesizes(h.r) THEN <<Frame("finish")>> ELSE <<>>, tailFrame(h.r))

finishStreamFrames(r) == finishing(r, heldFlush(r, FALSE))

(* drainHeldAtRawTerminal: message_stop after a message_delta.             *)
preTerminal(r, f) ==
    IF f.k = "mstop" /\ r.saw.rawDelta /\ ~r.guard.blocked THEN heldFlush(r, FALSE) ELSE [r |-> r, out |-> <<>>]

(* transformSSEData for a chunk: filters, held tail, conversion.           *)
screened(r, t, fc) ==
    IF filterBlocks(t) THEN [r EXCEPT !.filter = {"filter"}]
    ELSE IF fc.guard.blocked THEN [r EXCEPT !.guard = fc.guard]
    ELSE [r EXCEPT !.guard = fc.guard, !.filter = IF canaryTrips(fc.emit) THEN {"canary"} ELSE {}]

(* A [DONE] the converter made takes the path of the upstream's own.       *)
closing(v) == IF v.out = <<Frame("done")>> THEN finishStreamFrames(v.r) ELSE v

after(r, pre, v) == [r |-> v.r, out |-> event(r, pre.out) \o v.out]

emitted(r, pre, f, raw) == after(r, pre, closing(handled(pre.r, f, raw)))

passed(r, r1, f, raw) ==
    IF blocked(r1) THEN [r |-> r1, out |-> <<>>] ELSE emitted(r, preTerminal(r1, raw), f, raw)

filtered(r, f, fc) ==
    passed(r, screened([r EXCEPT !.saw.rawDelta = @ \/ f.k = "mdelta"], filterableText(f), fc), [f EXCEPT !.t = fc.emit], f)

transformSSEData(r, f) == filtered(r, f, filterContent(r.guard, filterableText(f)))

-----------------------------------------------------------------------------
(* trackStreamProgress, for one frame: sealed once content and finish are  *)
(* both seen; the Anthropic flags say which surface completed.             *)
progress(w, f) ==
    LET content == f.k \in {"text", "raw"} /\ f.t # <<>>
        finish == f.k \in {"finish", "rawFinish", "mdelta", "mstop"}
        anthropic == f.k \in {"mdelta", "mstop"}
    IN  IF w.content /\ w.finish THEN w
        ELSE [w EXCEPT !.content = @ \/ content, !.finish = @ \/ finish,
                       !.anthContent = @ \/ (content /\ mode = "anthropic"),
                       !.anthFinish = @ \/ (anthropic /\ ~Converted),
                       !.convFinish = @ \/ (anthropic /\ Converted)]

(* What the client makes of the lines: a frame that follows one of an      *)
(* unfinished event is glued to it.                                        *)
framing(l, out) ==
    FoldLeft(LAMBDA a, f : IF f = Blank THEN [a EXCEPT !.open = FALSE]
                           ELSE [a EXCEPT !.open = TRUE, !.glued = a.glued \/ a.open], l, out)

Send(out) == wire' = wire \o SelectSeq(out, LAMBDA f : f # Blank)

(* Read, for an emission: noteEmittedLine, trackStreamProgress.            *)
Emit(r, out) ==
    /\ Send(out)
    /\ saw' = [FoldLeft(progress, r.saw, out) EXCEPT !.any = TRUE]
    /\ line' = [framing(r.line, out) EXCEPT !.lastBlank = Last(out) = Blank]
    /\ UNCHANGED end

(* The end of the stream: out is injected, and closePendingEvent ends an   *)
(* event the last line left open.  drainAfterScanDone notifies the         *)
(* observer only when nothing was left to deliver.                         *)
Ending(r, out, e) ==
    LET close == IF out = <<>> THEN eventSeparator(r) ELSE <<>> IN
    /\ Send(out)
    /\ saw' = r.saw
    /\ line' = [framing(r.line, out \o close) EXCEPT !.lastBlank = @ \/ out \o close # <<>>]
    /\ end' = [e EXCEPT !.closed = e.closed /\ out \o close = <<>>]

Keep(r) == guard' = r.guard /\ filter' = r.filter /\ conv' = r.conv

Ended(err, injected) == [err |-> err, injected |-> injected, closed |-> TRUE, empty |-> FALSE, over |-> FALSE]

(* Read, after transformLine: a blocked filter ends the stream, whatever   *)
(* the line became; a consumed line shows nothing.                         *)
Step(v) ==
    /\ Keep(v.r)
    /\ IF blocked(v.r) THEN Ending(v.r, <<>>, [Ended(blockedStreamError(v.r), FALSE) EXCEPT !.closed = FALSE])
       ELSE IF v.out = <<>> THEN saw' = v.r.saw /\ UNCHANGED <<wire, line, end>>
       ELSE Emit(v.r, v.out)

Open == end.err = "none"
Fixed == UNCHANGED <<mode, text, action>>
Advance(stage, n) == up' = [stage |-> stage, sent |-> up.sent + n, owed |-> TRUE]

Delta(n) ==
    /\ Open /\ ~up.owed /\ up.stage = "body" /\ up.sent + n <= Len(text)
    /\ Advance("body", n)
    /\ Step(transformSSEData(Reader, TextFrame(SubSeq(text, up.sent + 1, up.sent + n)))) /\ Fixed

(* Frames of the protocol: block start, message_delta, message_stop of an  *)
(* Anthropic upstream; finish and usage chunks of an OpenAI one.           *)
Stages ==
    IF AnthropicUpstream
    THEN {<<"bstart", "start", "body">>, <<"mdelta", "body", "finished">>, <<"mstop", "finished", "ended">>}
    ELSE {<<"finish", "body", "finished">>, <<"usage", "finished", "used">>}

Protocol(k, from, to) ==
    /\ Open /\ ~up.owed /\ up.stage = from
    /\ Advance(to, 0)
    /\ Step(transformSSEData(Reader, Frame(k))) /\ Fixed

DoneLine ==
    /\ Open /\ ~up.owed /\ ~AnthropicUpstream /\ up.stage \in {"body", "finished", "used"}
    /\ Advance("ended", 0)
    /\ Step(finishStreamFrames(Reader)) /\ Fixed

BlankLine ==
    /\ Open /\ up.owed /\ up' = [up EXCEPT !.owed = FALSE]
    /\ Step([r |-> Reader, out |-> <<Blank>>]) /\ Fixed

(* injectDoneOnly and injectErrorBuffer.                                   *)
doneAfter(r, h) ==
    [r |-> tailTaken(h.r), out |-> event(r, h.out) \o event(r, tailFrame(h.r)) \o event(r, <<Frame("done")>>)]

errorAfter(r, h) ==
    [r |-> h.r, out |-> event(r, h.out) \o event(r, <<Frame("error")>>) \o <<Frame("done"), Blank>>]

injectDoneOnly(r) == doneAfter(r, heldFlush(r, FALSE))

injectErrorBuffer(r, discarding) == errorAfter(r, heldFlush(r, discarding))

(* handleScannerDone on a clean end of input.                              *)
Injected(v, error) == [r |-> v.r, out |-> v.out, injected |-> error]

heldOnly(r, h) == [r |-> h.r, out |-> event(r, h.out)]

ending(r, suppress) ==
    CASE r.saw.done -> Injected([r |-> r, out |-> <<>>], FALSE)
      [] ~r.saw.done /\ r.saw.finish /\ (r.saw.anthFinish \/ r.saw.convFinish) ->
           Injected(heldOnly(r, heldFlush(r, FALSE)), FALSE)
      [] ~r.saw.done /\ r.saw.finish /\ ~(r.saw.anthFinish \/ r.saw.convFinish) -> Injected(injectDoneOnly(r), FALSE)
      [] ~r.saw.done /\ ~r.saw.finish /\ r.saw.content /\ suppress -> Injected([r |-> r, out |-> <<>>], FALSE)
      [] OTHER -> Injected(injectErrorBuffer(r, FALSE), TRUE)

Finish(v, e) == Keep(v.r) /\ Ending(v.r, v.out, e)

EofWith(v) == Finish(v, [Ended("EOF", v.injected) EXCEPT !.empty = ~saw.done /\ ~saw.finish /\ ~saw.content])

Eof(suppress) ==
    /\ Open /\ UNCHANGED up /\ Fixed
    /\ EofWith(ending(Reader, suppress))

(* A line beyond the scanner's buffer, output beyond maxTransformedBytes   *)
(* (held text is dropped), any other read error.                           *)
TooLong ==
    /\ Open /\ up.stage # "ended" /\ UNCHANGED up /\ Fixed
    /\ Finish(injectErrorBuffer(Reader, FALSE), Ended("toolong", TRUE))

Discard ==
    /\ Open /\ saw.any /\ UNCHANGED up /\ Fixed
    /\ Finish(injectErrorBuffer(Reader, TRUE), [Ended("size", TRUE) EXCEPT !.closed = FALSE])

ReadError ==
    /\ Open /\ UNCHANGED up /\ Fixed /\ Keep(Reader) /\ Ending(Reader, <<>>, Ended("read", FALSE))

(* finishOnContextDone: the separator first, then the notification.        *)
Cancel ==
    /\ Open /\ UNCHANGED up /\ Fixed /\ Keep(Reader)
    /\ Ending(Reader, <<>>, Ended("ctx", FALSE))

(* handleStreamDone: what the proxy writes after the reader's last byte.   *)
(* A block gets its policy frame and [DONE], a stall or a deadline an      *)
(* error and [DONE], any other read error an error; an injected error and  *)
(* a client's cancel get nothing more.                                     *)
Conclude(late) ==
    LET out == CASE end.err \in {"canary", "exfil", "filter"} -> <<Frame("policy"), Blank, Frame("done"), Blank>>
                 [] end.err = "read" /\ late -> <<Frame("error"), Blank, Frame("done"), Blank>>
                 [] end.err = "ctx" /\ late -> <<Frame("error"), Blank, Frame("done"), Blank>>
                 [] end.err \in {"toolong", "size"} \/ (end.err = "read" /\ ~late) -> <<Frame("error"), Blank>>
                 [] OTHER -> <<>>
    IN  /\ ~Open /\ ~end.over /\ end' = [end EXCEPT !.over = TRUE]
        /\ Send(out) /\ line' = framing(line, out)
        /\ UNCHANGED <<up, saw>> /\ Keep(Reader) /\ Fixed

TInit ==
    /\ mode \in Modes /\ text \in Texts /\ action \in Actions
    /\ up = [stage |-> IF AnthropicUpstream THEN "start" ELSE "body", sent |-> 0, owed |-> FALSE]
    /\ guard = NewGuard /\ filter = {}
    /\ conv = NewConv
    /\ saw = [any |-> FALSE, content |-> FALSE, finish |-> FALSE, anthContent |-> FALSE, anthFinish |-> FALSE,
              convFinish |-> FALSE, rawDelta |-> FALSE, done |-> FALSE]
    /\ wire = <<>> /\ line = [lastBlank |-> FALSE, open |-> FALSE, glued |-> FALSE]
    /\ end = [err |-> "none", injected |-> FALSE, closed |-> FALSE, empty |-> FALSE, over |-> FALSE]

TNext ==
    \/ \E n \in 1..MaxChunk : Delta(n)
    \/ \E s \in Stages : Protocol(s[1], s[2], s[3])
    \/ DoneLine \/ BlankLine
    \/ \E suppress \in BOOLEAN : Eof(suppress)
    \/ TooLong \/ Discard \/ ReadError \/ Cancel
    \/ \E late \in BOOLEAN : Conclude(late)

TSpec == TInit /\ [][TNext]_tvars

-----------------------------------------------------------------------------
Sent == SubSeq(text, 1, up.sent)
Rejected == {"t", "k", "c"}
textOf(kinds) == FlattenSeq([i \in DOMAIN wire |-> IF wire[i].k \in kinds THEN wire[i].t ELSE <<>>])

(* The model text the client was sent, in whatever shape: the lines that   *)
(* were forwarded as they came included.                                   *)
Delivered == textOf({"text", "raw", "rawFinish"})
FirstOf(kinds) == {i \in DOMAIN wire : wire[i].k \in kinds /\ \A j \in 1 .. i - 1 : wire[j].k \notin kinds}

(* reader_pipeline.go:131: what the guard withholds or strips, and what    *)
(* the filters block, is never streamed as it came.                        *)
NothingRejected == \A i \in DOMAIN Delivered : Delivered[i] \notin Rejected

(* exfil.go FilterContent, holdCut, Flush: however the upstream cuts its   *)
(* text into chunks, no part of a URL the policy rejects is in a chunk the *)
(* reader wrote itself; and on every wire pair but OpenAI to Anthropic,    *)
(* where lines are forwarded as they came, nothing rejected is delivered   *)
(* at all, and a stream the reader ends itself has delivered every other   *)
(* word exactly once, as if the guard had seen the text whole              *)
(* (InspectFull).  Links with spaces in their label may lose their label   *)
(* early.                                                                  *)
GuardedText ==
    /\ \A i \in DOMAIN textOf({"text"}) : textOf({"text"})[i] \notin Rejected
    /\ mode # "toAnthropic" =>
        /\ NothingRejected
        /\ (/\ end.err \in {"EOF", "toolong"} /\ (saw.finish \/ saw.done \/ end.injected)
            /\ ~blocked(Reader) /\ ~\E i, j \in DOMAIN Sent : i < j /\ Sent[i] = "[" /\ Sent[j] = "_")
           => Delivered = spliceSpans(Sent, inspectFull(Sent))

(* handleScannerDone, finishStreamFrames, drainHeldAtRawTerminal: one      *)
(* [DONE] at most and last when the reader ended the stream or a filter    *)
(* blocked it, no text after message_stop or [DONE], an injected error     *)
(* only where no completion was seen, and frames never glued: what the     *)
(* proxy writes after the reader starts an event of its own.               *)
OneTerminal ==
    /\ ~line.glued
    /\ end.err \in {"none", "EOF", "canary", "exfil", "filter"} => \A i \in FirstOf({"done"}) : i = Len(wire)
    /\ \A i \in FirstOf({"mstop", "done"}) : \A j \in i + 1 .. Len(wire) : wire[j].k \notin {"text", "raw"}
    /\ end.err = "EOF" /\ end.injected => ~saw.finish /\ ~saw.done
=============================================================================
