---------------------------- MODULE ConfigModel ----------------------------
(***************************************************************************)
(* Loading a configuration (config/loading.go, defaults.go,                *)
(* engine_resolve.go): decoding, drop-in merge, defaults, engine           *)
(* references, and the Effective... accessors of types.go.                 *)
(*                                                                         *)
(* A configuration is a partial function from settings to classes of       *)
(* values; a name outside its domain is a field the Go struct holds at its *)
(* zero value (nil pointer, nil slice, zero scalar).  An object that       *)
(* exists is in the domain under its own name.  "default" is what          *)
(* ApplyDefaults put there.                                                *)
(***************************************************************************)
EXTENDS ConfigTypes

at(c, s) == IF s \in DOMAIN c THEN c[s] ELSE "unset"

on(c, s) == at(c, s) = "on"

Engines == {s \in Settings : kind(s) = "engine"}

(* What json.Unmarshal leaves of one file: an explicit zero of a plain     *)
(* type is the zero value, an explicit empty redact_patterns is dropped by *)
(* BouncerConfig.UnmarshalJSON, which also switches the bouncer on in a    *)
(* document that lists patterns and does not mention enabled.              *)
lost(s, v) == \/ <<kind(s), v>> \in {<<"bool", "off">>, <<"int", "zero">>}
              \/ s = "bouncer.redact_patterns" /\ v = "empty"

bouncerSwitch(c) ==
    IF at(c, "bouncer.redact_patterns") # "unset" /\ at(c, "bouncer.enabled") = "unset"
    THEN c @@ ("bouncer.enabled" :> "on") ELSE c

decode(file) ==
    LET kept == {s \in DOMAIN file : ~lost(s, file[s])}
        objects == UNION {parents(s) : s \in DOMAIN file}
    IN  bouncerSwitch([s \in kept |-> file[s]] @@ [o \in objects |-> "ok"])

(* Every rule of mergeValue applies what the overlay's decoding left set   *)
(* and keeps the base elsewhere, field by field.                           *)
mergeConfig(base, overlay) == overlay @@ base

(* LoadFromDir: the base file, then the drop-ins in file-name order.       *)
loadFiles(files) ==
    LET merged[n \in 0..Len(files)] ==
            IF n = 0 THEN <<>> ELSE mergeConfig(merged[n - 1], decode(files[n]))
    IN  merged[Len(files)]

(***************************************************************************)
(* ApplyDefaults, section by section, in its order.                        *)
(***************************************************************************)
fill(c, S) == c @@ [s \in S |-> "default"]

fillOn(c, S) == c @@ [s \in S |-> "on"]

(* "<= 0 is replaced": negative numbers count as unset.                    *)
fillPositive(c, S) == [s \in S |-> IF at(c, s) \in {"unset", "neg"} THEN "default" ELSE c[s]] @@ c

within(c, object, filled) == IF object \in DOMAIN c THEN filled ELSE c

applyServerDefaults(c) == fillOn(fill(c, {"server.listen_addr", "server.stream_stall_timeout_seconds"}), {"server.secure_memory_required"})

applyContextDefaults(c) ==
    IF at(c, "context.hard_limit_tokens") = "neg" THEN ("context.hard_limit_tokens" :> "zero") @@ c ELSE c

applyGovernanceDefaults(c) ==
    LET stated == fillOn(fill(c, {"governance.ratelimit_max_tpm", "governance.ratelimit_max_rpm", "governance.cost_mode", "governance.billing_economy_scale", "stream_continuation"}),
                         {"governance.empty_stream_as_error", "governance.early_stream_error_failover", "stream_continuation.enabled",
                          "stream_continuation.same_model_only", "governance.retry_opaque_4xx"})
        patterns == IF at(c, "governance.blocked_execution_patterns") \in {"unset", "empty"}
                    THEN ("governance.blocked_execution_patterns" :> "default") @@ stated ELSE stated
    IN  fillPositive(patterns, {"stream_continuation.max_attempts"})

expandRedactPreset(c) ==
    IF at(c, "bouncer.redact_preset") = "ok" THEN c @@ ("bouncer.redact_patterns" :> "preset") ELSE c

applyBouncerDefaults(c) ==
    fillOn(fill(expandRedactPreset(c),
                {"bouncer.redact_patterns", "bouncer.entropy_threshold", "bouncer.entropy_min_token"}),
           {"bouncer.enabled", "bouncer.fail_open"})

applyInjectionDefaults(c) ==
    LET stated == within(c, "injection", c @@ ("injection.enabled" :> "off"))
    IN  within(stated, "escalation",
            fill(stated @@ ("escalation.enabled" :> "off"),
                 {"escalation.min_score", "escalation.max_score", "escalation.max_bytes", "escalation.per_request_limit"}))

applySpotlightDefaults(c) ==
    LET stated == fill(c @@ ("spotlight.enabled" :> "off"), {"spotlight.mode", "spotlight.max_tool_result_bytes"})
    IN  within(c, "spotlight", stated @@ ("spotlight.history_enabled" :> stated["spotlight.enabled"]))

applyExfilGuardDefaults(c) ==
    within(c, "exfil_guard", fill(c @@ ("exfil_guard.enabled" :> "off"), {"exfil_guard.action", "exfil_guard.max_query_chars"}))

(* The MCP guard exists as soon as one MCP server is configured.           *)
applyMCPGuardDefaults(c) ==
    IF {"mcp_guard", "mcp_server"} \cap DOMAIN c = {} THEN c
    ELSE fill(fillOn(c, {"mcp_guard.enabled"}), {"mcp_guard", "mcp_guard.max_arg_bytes", "mcp_guard.url_policy"})

applyEngineRefDefaults(c) ==
    [s \in {"bouncer.engine", "window.engine"} |->
        IF at(c, s) \in {"unset", "empty"} THEN "default" ELSE c[s]] @@ c

(* Prefix cache: any feature switches it on; "automatic" mode drops the    *)
(* block markers, an unknown mode or TTL order is an error.                *)
anyCacheFeatureSet(c) ==
    \E s \in {"prefix_cache.pin_system_first", "prefix_cache.stable_tools", "prefix_cache.skip_redaction_on_system", "prefix_cache.cache_system",
              "prefix_cache.cache_tools", "prefix_cache.cache_messages"} : on(c, s)

applyPrefixCacheDefaults(c) ==
    LET switched == IF anyCacheFeatureSet(c) THEN ("prefix_cache.enabled" :> "on") @@ c ELSE c
        pinned == fillOn(switched, {"prefix_cache.pin_system_first", "prefix_cache.stable_tools"}) @@ ("prefix_cache.skip_redaction_on_system" :> "off")
    IN  IF on(pinned, "prefix_cache.enabled")
        THEN fillOn(fill(pinned, {"prefix_cache.cache_mode", "prefix_cache.openai_mode", "prefix_cache.cache_control_ttl", "prefix_cache.cache_system_ttl",
                                  "prefix_cache.cache_tools_ttl"}),
                    {"prefix_cache.cache_system", "prefix_cache.cache_tools", "prefix_cache.cache_messages"})
        ELSE pinned

prefixCacheValid(c) ==
    on(c, "prefix_cache.enabled") =>
        \A s \in {"prefix_cache.cache_mode", "prefix_cache.openai_mode", "prefix_cache.cache_control_ttl", "prefix_cache.cache_system_ttl", "prefix_cache.cache_tools_ttl"} : at(c, s) # "bad"

(* A preset decides what the file left open; without one the byte-stable   *)
(* features are on and pruning is off; any feature switches compaction on  *)
(* unless the file mentions enabled.                                       *)
applyCompactionDefaults(c) ==
    LET preset == IF at(c, "compaction.compaction_preset") = "ok"
                  THEN c @@ [s \in {"compaction.json_minify", "compaction.collapse_blank_lines", "compaction.prune_stale_tools"} |-> "off"]
                  ELSE c
        stated == fillOn(preset, {"compaction.json_minify", "compaction.collapse_blank_lines"}) @@ ("compaction.prune_stale_tools" :> "off")
    IN  IF on(stated, "compaction.json_minify") \/ on(stated, "compaction.collapse_blank_lines")
        THEN fillOn(stated, {"compaction.enabled"}) ELSE stated

applyResponseCacheDefaults(c) ==
    LET switched == IF at(c, "response_cache.max_entries") \in {"tiny", "ok", "over"}
                    THEN fillOn(c, {"response_cache.enabled"}) ELSE c
    IN  IF on(switched, "response_cache.enabled")
        THEN fillPositive(switched, {"response_cache.max_entries", "response_cache.ttl_seconds"}) ELSE switched

applyLocalEngineDefaults(c) == within(c, "local_engine", fill(c, {"local_engine.timeout_seconds"}))

applyAgentDefaults(c) == within(c, "agent_mcp", fillPositive(c, {"agent_mcp.max_iterations"}))

(* mergeProviderConfig and ApplyNonChatDefaults: what the entry leaves open*)
(* comes from the built-in entry, an explicit empty list stays.            *)
applyBuiltInProviders(c) == within(c, "provider", c @@ ("provider.non_chat_models" :> "default"))

applyWindowDefaults(c) ==
    LET switched == IF \E s \in {"window.mode", "window.active_messages", "window.max_context"} : at(c, s) # "unset"
                    THEN ("window.enabled" :> "on") @@ c ELSE c
    IN  fill(IF at(c, "window.max_context") = "neg"
             THEN ("window.max_context" :> "default") @@ switched ELSE switched,
             {"window.mode", "window.active_messages", "window.max_context"})

(* GetEscalation: an escalation that is not switched on does not exist.    *)
escalating(c) == on(c, "escalation.enabled")

judgmentEngineFallback(c) ==
    IF escalating(c) /\ "escalation.engine" \in DOMAIN c THEN c["escalation.engine"] ELSE c["bouncer.engine"]

applyJudgmentDefaults(c) ==
    LET inherited == judgmentEngineFallback(c)
        judged == within(c, "judgment", c @@ ("judgment.engine" :> inherited))
        ranked == within(judged, "tfidf_rerank", judged @@ ("tfidf_rerank.engine" :> inherited))
    IN  within(ranked, "risk_tiers", ranked @@ ("risk_tiers.engine" :> inherited))

ApplyDefaults(c) ==
    LET sections == applyMCPGuardDefaults(applyExfilGuardDefaults(applySpotlightDefaults(
                        applyInjectionDefaults(applyBouncerDefaults(applyGovernanceDefaults(
                            applyContextDefaults(applyServerDefaults(c))))))))
        caches == applyResponseCacheDefaults(applyCompactionDefaults(
                        applyPrefixCacheDefaults(applyEngineRefDefaults(sections))))
        entries == applyBuiltInProviders(applyAgentDefaults(applyLocalEngineDefaults(caches)))
    IN  applyJudgmentDefaults(applyWindowDefaults(entries))

(* resolveEngineRefs: the surfaces an engine is resolved for.              *)
engineSurfaces(c) ==
    {s \in Engines \cap DOMAIN c : s = "escalation.engine" => escalating(c)}

resolveEngineRefs(c) == \A s \in engineSurfaces(c) : c[s] # "unknown"

(* ApplyDefaults fails on a pattern that does not compile, a prefix cache  *)
(* setting outside its enum, or an engine reference that resolves to no    *)
(* target.                                                                 *)
defaultsSucceed(c) ==
    /\ prefixCacheValid(c)
    /\ at(c, "agent_model.model_rgx") # "bad"
    /\ at(c, "provider.allowed_models") # "bad" /\ at(c, "provider.non_chat_models") # "bad"
    /\ resolveEngineRefs(c)

(***************************************************************************)
(* The Effective... accessors: what the running gateway uses.              *)
(***************************************************************************)
clampedNoCap(v) == IF v \in {"neg", "zero"} THEN "off" ELSE v

(* Unset takes the built-in value, zero and below disable, above the cap   *)
(* is the cap.                                                             *)
clamped(v) == CASE v \in {"neg", "zero"} -> "off"
                [] v = "over" -> "cap"
                [] OTHER -> v

EffectiveUpstreamTimeout(c) == clamped(at(c, "governance.upstream_timeout_seconds"))

EffectiveStreamIdleTimeout(c) == clamped(at(c, "governance.stream_idle_timeout_seconds"))

EffectiveThinkingStreamIdleTimeout(c) == clamped(at(c, "governance.thinking_stream_idle_timeout_seconds"))

EffectiveMinQuotaCooldown(c) == clamped(at(c, "governance.min_quota_cooldown_seconds"))

EffectiveSlowCallThreshold(c) ==
    IF at(c, "agent.slow_call_threshold_seconds") # "unset" THEN clamped(at(c, "agent.slow_call_threshold_seconds"))
    ELSE IF at(c, "governance.slow_call_threshold_seconds") = "unset" THEN "off" ELSE clamped(at(c, "governance.slow_call_threshold_seconds"))

(* Durations where zero and below fall back to the built-in value.         *)
positiveOr(v) == CASE v \in {"unset", "neg", "zero"} -> "default"
                   [] v = "over" -> "cap"
                   [] OTHER -> v

EffectiveSecretResolutionTimeout(c) == positiveOr(at(c, "governance.secret_resolution_timeout_seconds"))

EffectiveReloadDrainTimeout(c) == positiveOr(at(c, "governance.reload_drain_timeout_seconds"))

EffectiveMaxTransformedSSEBytes(c) == positiveOr(at(c, "governance.max_transformed_sse_bytes"))

EffectiveStreamContinuationMaxAttempts(c) == positiveOr(at(c, "stream_continuation.max_attempts"))

(* The provider's own stream idle timeout replaces the global one when it  *)
(* is positive.                                                            *)
resolveStreamIdleTimeout(c) ==
    IF at(c, "provider.stream_idle_timeout_seconds") \in {"tiny", "ok", "over"} THEN clamped(c["provider.stream_idle_timeout_seconds"])
    ELSE EffectiveStreamIdleTimeout(c)

(* Every limit the gateway runs with.                                      *)
effectiveLimits(c) ==
    {EffectiveUpstreamTimeout(c), EffectiveStreamIdleTimeout(c), EffectiveThinkingStreamIdleTimeout(c),
     EffectiveMinQuotaCooldown(c), EffectiveSlowCallThreshold(c), EffectiveSecretResolutionTimeout(c),
     EffectiveReloadDrainTimeout(c), EffectiveMaxTransformedSSEBytes(c),
     EffectiveStreamContinuationMaxAttempts(c), resolveStreamIdleTimeout(c)}
============================================================================
