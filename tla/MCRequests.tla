----------------------------- MODULE MCRequests -----------------------------
(***************************************************************************)
(* The stateful parts a request meets, for TLC: admission, sessions,       *)
(* accounts, rate limits, caches, the stream reader, billing,              *)
(* the conversation and the configuration.  They meet only through calls   *)
(* that return values, so Init chooses the one that runs in a behaviour    *)
(* (part); those that are instances use the same slots x1..x11.            *)
(***************************************************************************)
EXTENDS ConfigLife, Admission, Billing, Sessions, Affinity, Accounts, ResponseCache, StreamMeter

VARIABLES part, x1, x2, x3, x4, x5, x6, x7, x8, x9, x10, x11

CONSTANTS r1, r2, s1, s2, s3

(* Requests (and credentials) are interchangeable, and so are sessions:    *)
(* all three, but permuting two of them is the faster check.               *)
Symmetry == Permutations({r1, r2}) \cup Permutations({s1, s2})

-----------------------------------------------------------------------------
(* Configuration.  Every object's settings, two cross-object pairs.        *)
of(objects) == {s \in Settings : Schema[s].object \in objects}
Credentials == {"provider.api_key", "provider.auth_style", "provider.allowed_models", "provider.token_budget_daily"}
MCTopics == {of({o}) : o \in DOMAIN Config \ {"governance", "provider", "api_key"}}
     \cup {{"governance." \o f : f \in DOMAIN GovernanceLimits}, {"governance." \o f : f \in DOMAIN GovernanceStreams},
           {"provider." \o f : f \in DOMAIN ProviderTransport}, Credentials,
           {"provider." \o f : f \in DOMAIN ProviderLimits} \ Credentials}
     \cup {{"exfil_guard.enabled", "agent_exfil.action"}, {"agent_mcp.servers", "mcp_server.url"}}

MCGiven(t) ==
    CASE t = of({"mcp_server"}) -> "mcp_server.url" :> "ok"
      [] t = of({"escalation"}) -> "escalation.enabled" :> "on" @@ "escalation.engine" :> "inline"
      [] t = of({"billing"}) -> "billing.model" :> "mixed"
      [] t = of({"agent_mcp"}) -> "agent_mcp.tool_search" :> "ok"
      [] t = of({"prefix_cache"}) -> "prefix_cache.enabled" :> "on"
      [] OTHER -> <<>>

Doc(t, k, a) == [state |-> "ok", token |-> t, key |-> k, api |-> a]
Vault(cr, d, r, e) == [cred |-> cr, dir |-> d, root |-> r, envDir |-> e]
NoDocs == <<absent, absent, absent>>
PlainVault == Vault(absent, NoDocs, Doc("ok", "old", <<>>), FALSE)
AllVaults == {
    PlainVault,
    Vault(absent, <<unreadable, absent, absent>>, Doc("ok", "old", <<>>), TRUE),
    Vault(absent, NoDocs, Doc("ok", "unset", <<>>), FALSE),
    Vault(absent, <<absent, Doc("ok", "ref", <<>>), absent>>, absent, TRUE),
    Vault(absent, <<Doc("ok", "old", <<>>), absent, Doc("unset", "old", <<>>)>>, absent, TRUE),
    Vault(Doc("ok","old", <<>>), NoDocs, absent, FALSE),
    Vault(unreadable, NoDocs, Doc("ok", "old", <<>>), FALSE),
    Vault(absent, NoDocs, Doc("weak", "unset", ("api_key.enabled" :> "on")), TRUE),
    Vault(absent, <<absent, Doc("ok", "old", ("api_key.enabled" :> "on" @@ "api_key.allowed_agents" :> "bad")),
                    Doc("unset", "unset", ("api_key.allowed_tools" :> "ok"))>>, absent, TRUE)}

(* Only the provider's credentials meet the secrets.                       *)
MCVaults(t) == IF t = Credentials THEN AllVaults ELSE {PlainVault}

-----------------------------------------------------------------------------
Rate == INSTANCE RateLimiter WITH
    Hosts <- {"g", "h"}, Limits <- {0, 2}, Sizes <- {1, 3}, TicksPerMinute <- 2, StaleThreshold <- 2, MaxHosts <- 1,
    MaxTime <- 4, MaxAdmitted <- 3,
    now <- x1, limits <- x2, effective <- x3, since <- x4, admitted <- x5

MCBalances == {-1, 0, 2}
MCQuotaSource == [k \in {"a", "b"} |-> IF k = "a" THEN "simple_json" ELSE "headers"]

MCWeight == <<1, 2, 1>>

(* Conversations with one opener: two of one caller, one of another's, two *)
(* with a system message before it, one with another system message; and   *)
(* one whose first user message is empty.                                  *)
U(t) == [role |-> "user", text |-> t]
A(t) == [role |-> "assistant", text |-> t]
S(t) == [role |-> "system", text |-> t]
In(scope, messages) == [scope |-> scope, messages |-> messages]
MCConversations ==
    {In("a", <<U("o"), A("x"), U("p")>>), In("a", <<U("o"), A("y")>>), In("b", <<U("o"), A("y")>>),
     In("a", <<S("s"), U("o"), A("x")>>), In("a", <<S("s"), U("o"), A("y")>>), In("a", <<S("t"), U("o")>>),
     In("a", <<U(""), A("x"), U("o")>>)}

(* Two payloads near each other.                                           *)
MCPayloads == [p \in {"p", "q"} |-> [model |-> "m", vec |-> IF p = "p" THEN 1 ELSE 2, stream |-> TRUE]]

(* w word, _ space, h and t the head and tail of a rejected URL, [ ) a     *)
(* link, k and c what the filter and the canary block.                     *)
MCTexts == {<<"w", "w", "w", "w", "h", "t">>, <<"w", "_", "h", "t">>, <<"h", "t", "_", "w">>, <<"[", "_", "h", "t", ")">>,
            <<"w", "h", "w", "_", "w">>, <<"[", "h", "t", ")", "w">>, <<"w", "_", "k", "w">>, <<"c", "_", "w">>}
Sse == INSTANCE SseReader WITH
    Modes <- {"openai", "anthropic", "toOpenAI", "toAnthropic"}, Texts <- MCTexts, Actions <- {"strip", "block"},
    MaxChunk <- 3, WindowSize <- 5,
    mode <- x1, text <- x2, action <- x3, up <- x4, guard <- x5, filter <- x6, conv <- x7, saw <- x8, wire <- x9, line <- x10,
    end <- x11

(* Every shape of the usage; ids that repeat, that are missing, and that   *)
(* look like the gateway's own; calls that share an index.                 *)
Call(id, position) == [id |-> id, index |-> position]
MCStreams ==
    {[shape |-> s, calls |-> <<>>] : s \in Shapes}
    \cup {[shape |-> "openai", calls |-> <<Call(<<"id", 1>>, 0), Call(<<"id", 1>>, 1)>>],
          [shape |-> "openai", calls |-> <<Call(<<"call", 1>>, 0), Call(<<"call", 9>>, 1)>>],
          [shape |-> "openai", calls |-> <<Call(<<"id", 1>>, 0), Call(<<"id", 2>>, 0)>>]}
MCPrompts == {[input |-> 3, cached |-> c, created |-> c] : c \in {0, 1}}

(* A key with a rate, and a scoped one of the fill tier that expires and   *)
(* that the reload removes; a provider with a budget that takes            *)
(* idempotency keys, one that takes callers' credentials.                  *)
Entry(name, agents, rpm, budget, tier) ==
    [name |-> name, roles |-> {"user"}, enabled |-> TRUE, expires |-> 1, agents |-> agents, endpoints |-> {},
     byok |-> name = "k", rpm |-> rpm, budget |-> budget, tier |-> tier]
MCApiKeys ==
    [g \in 1..2 |-> [k \in (IF g = 1 THEN {"k", "f"} ELSE {"k"}) |->
        IF k = "k" THEN Entry("k", {}, 1, 3, "")
        ELSE [Entry("f", {"a"}, 0, 4, "fill") EXCEPT !.expires = 0, !.endpoints = {"chat"}]]]
MCProviders ==
    [p \in {"p", "q"} |-> [budget |-> IF p = "p" THEN 3 ELSE 0, allowBYOK |-> p = "q", idempotencyHeader |-> p = "p"]]
Input(apiKey, route, byok, idem, chain, loop) ==
    [key |-> apiKey, route |-> route, agent |-> "a", tokens |-> 2, byok |-> byok, idem |-> idem, chain |-> chain, loop |-> loop]
MCInputs ==
    {Input("k", "chat", "none", <<"client", "i">>, <<"p", "p">>, FALSE),
     Input("f", "messages", "none", <<"none">>, <<"p">>, TRUE),
     Input("k", "chat", "valid", <<"unsafe">>, <<"p", "q">>, FALSE),
     Input("primary", "models", "none", <<"none">>, <<"p">>, FALSE)}

(* A conversation with a long, a single and a parallel exchange, a branch  *)
(* of it after an edit, one of another lineage; one stage at a time.       *)
Turn(role, text, calls, id) ==
    [role |-> role, text |-> text, parts |-> text = <<"u">>, calls |-> calls, of |-> id, head |-> [covers |-> <<>>, engine |-> FALSE, enveloped |-> FALSE]]
Says(role, text) == Turn(role, text, <<>>, "")
Opening == <<Says("system", <<"s">>), Says("user", <<"u">>), Turn("assistant", <<>>, <<"c">>, ""), Turn("tool", <<"r", "o", "o", "r">>, <<>>, "c")>>
Trunk == Opening \o <<Says("assistant", <<"think", "a">>), Says("user", <<"v", "v">>), Turn("assistant", <<"b">>, <<"d", "e">>, ""),
                      Turn("tool", <<"p">>, <<>>, "d"), Turn("tool", <<"q">>, <<>>, "e"), Says("assistant", <<"f">>), Says("user", <<"w">>)>>
Branch == Opening \o <<Turn("assistant", <<>>, <<"g">>, ""), Turn("tool", <<"h">>, <<>>, "g"), Says("assistant", <<"x">>), Says("user", <<"y">>)>>
Elsewhere == <<Says("user", <<"z">>), Says("system", <<"s">>), Says("assistant", <<"a">>), Says("user", <<"w">>)>>
From(messages, ide, aware) == [messages |-> messages, ide |-> ide, aware |-> aware]
MCHistories ==
    {From(SubSeq(Trunk, 1, n), FALSE, FALSE) : n \in {4, 6, 9}}
    \cup {From(Branch, FALSE, FALSE), From(Elsewhere, FALSE, FALSE), From(Trunk, TRUE, FALSE), From(SubSeq(Trunk, 1, 6), FALSE, TRUE)}
Stages(prune, mode, prompt) ==
    [pin |-> mode = "tfidf", prune |-> prune, thoughts |-> mode # "summarize", mode |-> mode, gate |-> "strict", prompt |-> prompt]
MCStages ==
    {Stages(TRUE, "off", "default"), Stages(FALSE, "summarize", "none"), Stages(FALSE, "tfidf", "forced"), Stages(FALSE, "truncate", "none")}
Past == INSTANCE History WITH
    Requests <- {r1, r2}, Inputs <- MCHistories, Settings <- MCStages, CacheCap <- 1, ActiveMessages <- 2, TriggerTokens <- 2,
    HardLimit <- 10, Regen <- <<1, 1>>, ToolProtectionWindow <- 2, MutationWindow <- 6, ToolOutputClamp <- 3, KeepPct <- <<15, 25>>,
    Targets <- {[budget |-> 0, arrays |-> TRUE], [budget |-> 5, arrays |-> FALSE]},
    settings <- x1, cache <- x2, req <- x3

ASSUME Rate!RateAssumption /\ AccountsAssumption /\ SessionAssumption /\ AffinityAssumption /\ MeterAssumption

-----------------------------------------------------------------------------
from10 == <<x10, x11>>
from7 == <<x7, x8, x9, from10>>
from6 == <<x6, from7>>
from4 == <<x4, x5, from6>>
from3 == <<x3, from4>>
from1 == <<x1, x2, from3>>
own == <<cvars, dvars, bvars, svars, fvars, avars, rvars, mvars>>
all == <<part, own, from1>>

Off10 == x10 = "off" /\ x11 = "off"
Off7 == x7 = "off" /\ x8 = "off" /\ x9 = "off" /\ Off10
Off6 == x6 = "off" /\ Off7
Off4 == x4 = "off" /\ x5 = "off" /\ Off6
Off3 == x3 = "off" /\ Off4
Off1 == x1 = "off" /\ x2 = "off" /\ Off3

(* The components of EXTENDS stand still at a fixed state where they do not *)
(* run.                                                                    *)
NoConfig == topic = {} /\ files = "off" /\ vault = "off" /\ reference = "off" /\ gateway = down /\ edits = 0
NoAdmission == DInit
NoBilling ==
    /\ accounts = "off" /\ status = "off" /\ lock = "off" /\ fetcher = "off" /\ poll = "off" /\ backoff = 0 /\ marks = 0
    /\ total = [requests |-> 0] /\ dispatch = [p \in Dispatches |-> [seen |-> FALSE]]
NoSession == store = <<>> /\ state = "off" /\ health = "off" /\ request = "off" /\ faults = 0
NoAffinity == FInit
NoPool ==
    /\ clock = "off" /\ lastPicked = 0 /\ failed = {} /\ cooling = {} /\ level = "off" /\ modelLock = "off" /\ modelLevel = "off"
    /\ spent = {} /\ selection = "off" /\ passed = [a \in Ids |-> 0] /\ benches = 0
NoCache == RInit
NoMeter ==
    /\ stream = [calls |-> <<>>] /\ truth = [input |-> 0, output |-> 0] /\ mark = "off" /\ reported = NoTotals
    /\ seenIndices = {} /\ seenIDs = {} /\ pending = "off" /\ fed = <<>> /\ shown = "off"
Extended == {"config", "billing", "admission", "sessions", "affinity", "accounts", "cache", "meter"}
Parts == Extended \cup {"rate", "stream", "history"}
Off(parts) ==
    /\ "config" \in parts => NoConfig
    /\ "billing" \in parts => NoBilling
    /\ "admission" \in parts => NoAdmission
    /\ "sessions" \in parts => NoSession
    /\ "affinity" \in parts => NoAffinity
    /\ "accounts" \in parts => NoPool
    /\ "cache" \in parts => NoCache
    /\ "meter" \in parts => NoMeter

RequestsInit ==
    /\ part \in Parts
    /\ part \in Extended => Off(Extended \ {part}) /\ Off1
    /\ part \notin Extended => Off(Extended)
    /\ \/ part = "config" /\ CInit
       \/ part = "billing" /\ BInit
       \/ part = "admission" /\ DInit
       \/ part = "sessions" /\ SInit
       \/ part = "affinity" /\ FInit
       \/ part = "cache" /\ RInit
       \/ part = "meter" /\ MInit
       \/ part = "rate" /\ Rate!Init /\ Off6
       \/ part = "accounts" /\ AInit
       \/ part = "stream" /\ Sse!TInit
       \/ part = "history" /\ Past!HInit /\ Off4

RequestsNext ==
    \/ part = "config" /\ CNext /\ UNCHANGED <<part, bvars, dvars, svars, fvars, avars, rvars, mvars, from1>>
    \/ part = "billing" /\ BNext /\ UNCHANGED <<part, cvars, dvars, svars, fvars, avars, rvars, mvars, from1>>
    \/ part = "admission" /\ DNext /\ UNCHANGED <<part, cvars, bvars, svars, fvars, avars, rvars, mvars, from1>>
    \/ part = "sessions" /\ SNext /\ UNCHANGED <<part, cvars, bvars, dvars, fvars, avars, rvars, mvars, from1>>
    \/ part = "affinity" /\ FNext /\ UNCHANGED <<part, cvars, bvars, dvars, svars, avars, rvars, mvars, from1>>
    \/ part = "accounts" /\ ANext /\ UNCHANGED <<part, cvars, bvars, dvars, svars, fvars, rvars, mvars, from1>>
    \/ part = "cache" /\ RNext /\ UNCHANGED <<part, cvars, bvars, dvars, svars, fvars, avars, mvars, from1>>
    \/ part = "meter" /\ MNext /\ UNCHANGED <<part, cvars, bvars, dvars, svars, fvars, avars, rvars, from1>>
    \/ part = "rate" /\ Rate!Next /\ UNCHANGED <<part, own, from6>>
    \/ part = "stream" /\ Sse!TNext /\ UNCHANGED <<part, own>>
    \/ part = "history" /\ Past!HNext /\ UNCHANGED <<part, own, from4>>

RequestsSpec == RequestsInit /\ [][RequestsNext]_all

-----------------------------------------------------------------------------
(* RateLimiter: a bucket that waited a minute admits any request.          *)
NeverStarved == part = "rate" => Rate!NeverStarved

(* The texts a request passes on.  SseReader: nothing rejected gets out    *)
(* but in a line forwarded as it came, nothing else is lost (but on the    *)
(* pair that forwards such lines), and a stream has one end.  History: every turn is *)
(* told once, exchanges stay whole, the newest turns are kept, and a head  *)
(* is labelled by who made it.                                             *)
TextSound ==
    /\ part = "stream" => Sse!GuardedText /\ Sse!OneTerminal
    /\ part = "history" => Past!ToldOnce /\ Past!ExchangesWhole /\ Past!RecentKept /\ Past!EnvelopedAsMade
=============================================================================
