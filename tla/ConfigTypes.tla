---------------------------- MODULE ConfigTypes ----------------------------
(***************************************************************************)
(* The configuration document's schema (config/types.go): one record per   *)
(* Go struct, from the JSON names of the fields that a default, a check or *)
(* an accessor looks at to the kind of the field's Go type:                *)
(*   "ptrbool", "ptrint"  pointers, so an explicit false or 0 is visible;  *)
(*   "bool", "int"        plain values, whose zero means "not written";    *)
(*   "enum"               a string, number or map with a legal range;      *)
(*   "list"               a slice; "engine" an EngineRef.                  *)
(* A setting is named <object>.<field>.                                    *)
(***************************************************************************)
EXTENDS Naturals, FiniteSets, Sequences, TLC

ServerConfig == [listen_addr |-> "enum", secure_memory_required |-> "ptrbool",
    telemetry_unauthenticated |-> "bool", stream_stall_timeout_seconds |-> "ptrint"]

ContextConfig == [tfidf_query_source |-> "enum", hard_limit_tokens |-> "int"]

BYOKConfig == [enabled |-> "bool", header |-> "enum"]

(* GovernanceConfig: the limits of dispatch and reload ...                 *)
GovernanceLimits == [blocked_execution_patterns |-> "list",
    secret_resolution_timeout_seconds |-> "ptrint", reload_drain_timeout_seconds |-> "ptrint",
    ratelimit_max_rpm |-> "ptrint", ratelimit_max_tpm |-> "ptrint",
    max_concurrent_requests |-> "int", retry_opaque_4xx |-> "ptrbool",
    empty_stream_as_error |-> "ptrbool", early_stream_error_failover |-> "ptrbool",
    auto_reorder_warm_cache_band_pct |-> "ptrint", auto_reorder_warm_cache_min_tokens |-> "ptrint",
    min_quota_cooldown_seconds |-> "int"]

(* ... and those of costs and streams.                                     *)
GovernanceStreams == [cost_mode |-> "enum", billing_economy_scale |-> "int",
    max_transformed_sse_bytes |-> "int", upstream_timeout_seconds |-> "ptrint",
    stream_idle_timeout_seconds |-> "ptrint", stream_bootstrap_max_hold_seconds |-> "int",
    stream_bootstrap_buffer_bytes |-> "int", thinking_stream_idle_timeout_seconds |-> "ptrint",
    slow_call_threshold_seconds |-> "ptrint"]

InjectionConfig == [enabled |-> "ptrbool", extra_patterns |-> "list", ignore_patterns |-> "list"]

InjectionEscalationConfig == [enabled |-> "ptrbool", engine |-> "engine", min_score |-> "int",
    max_score |-> "int", max_bytes |-> "int", per_request_limit |-> "int"]

SpotlightConfig == [enabled |-> "ptrbool", mode |-> "enum", history_enabled |-> "ptrbool",
    max_tool_result_bytes |-> "int"]

SpotlightRiskTiersConfig == [enabled |-> "ptrbool", max_bytes |-> "int", timeout_seconds |-> "int",
    engine |-> "engine", escalate_below_confidence |-> "enum"]

ExfilGuardConfig == [enabled |-> "ptrbool", action |-> "enum", allowed_hosts |-> "enum",
    max_query_chars |-> "int"]

ExfilGuardOverrideConfig == [action |-> "enum"]

CanaryConfig == [action |-> "enum"]

JudgmentConfig == [engine |-> "engine", max_bytes |-> "int", timeout_seconds |-> "int",
    escalate_below_confidence |-> "enum", enabled |-> "ptrbool", action |-> "enum", name |-> "enum"]

TfidfRerankConfig == [enabled |-> "ptrbool", max_bytes |-> "int", timeout_seconds |-> "int",
    engine |-> "engine"]

MCPGuardConfig == [enabled |-> "ptrbool", max_arg_bytes |-> "int", url_policy |-> "enum"]

TokenCalibrationConfig == [min_observations |-> "int", decay |-> "enum", ratio_clamp |-> "enum"]

ParamCompatRule == [model_prefix |-> "enum", token_field |-> "enum", int_typed_params |-> "enum"]

StreamContinuationConfig == [enabled |-> "ptrbool", max_attempts |-> "int",
    same_model_only |-> "ptrbool"]

BouncerConfig == [enabled |-> "ptrbool", redact_preset |-> "enum", redact_patterns |-> "list",
    fail_open |-> "ptrbool", engine |-> "engine", entropy_enabled |-> "bool",
    entropy_threshold |-> "enum", entropy_min_token |-> "int"]

PrefixCacheConfig == [enabled |-> "bool", cache_mode |-> "enum", pin_system_first |-> "ptrbool",
    stable_tools |-> "ptrbool", skip_redaction_on_system |-> "ptrbool", cache_system |-> "ptrbool",
    cache_tools |-> "ptrbool", cache_messages |-> "ptrbool", cache_control_ttl |-> "enum",
    cache_system_ttl |-> "enum", cache_tools_ttl |-> "enum", openai_mode |-> "enum"]

CompactionConfig == [compaction_preset |-> "enum", enabled |-> "ptrbool", json_minify |-> "ptrbool",
    collapse_blank_lines |-> "ptrbool", prune_stale_tools |-> "ptrbool"]

WindowConfig == [enabled |-> "bool", mode |-> "enum", active_messages |-> "int",
    max_context |-> "int", engine |-> "engine"]

ResponseCacheConfig == [enabled |-> "ptrbool", max_entries |-> "int", ttl_seconds |-> "int"]

DiscoveryConfig == [enabled |-> "ptrbool", auto_agents |-> "ptrbool"]

NetworkConfig == [ca_bundle |-> "enum", proxy_url |-> "enum"]

LocalEngineConfig == [timeout_seconds |-> "int"]

(* ProviderConfig: how the provider is reached ...                         *)
ProviderTransport == [peak_windows |-> "enum", response_header_timeout_seconds |-> "int",
    stream_idle_timeout_seconds |-> "int", ca_bundle |-> "enum", proxy_url |-> "enum",
    idempotency_header |-> "enum", allow_byok |-> "ptrbool", cache_affinity |-> "enum",
    models_hidden |-> "list", header_filters |-> "enum"]

(* ... and what it is allowed.                                             *)
ProviderLimits == [api_key |-> "enum", auth_style |-> "enum", ratelimit_max_rpm |-> "ptrint",
    ratelimit_max_tpm |-> "ptrint", max_concurrent_requests |-> "int", model_concurrency |-> "int",
    model_aliases |-> "enum", token_budget_daily |-> "int",
    stream_bootstrap_buffer_bytes |-> "ptrint", thought_signature_policy |-> "enum",
    allowed_models |-> "list", non_chat_models |-> "list"]

BillingConfig == [model |-> "enum", free_only |-> "bool", quota_source |-> "enum",
    quota_url |-> "enum", quota_extraction |-> "enum", quota_timeout_seconds |-> "int",
    quota_backoff_max_seconds |-> "int"]

AgentConfig == [name |-> "enum", strategy |-> "enum", failure_threshold |-> "int",
    success_threshold |-> "int", sticky_session_ttl_seconds |-> "int",
    slow_call_threshold_seconds |-> "ptrint", sticky_provider |-> "enum", cache_aware |-> "enum",
    auto_cache_breakpoints |-> "ptrbool"]

AgentModel == [model_rgx |-> "enum"]

AgentMCPConfig == [servers |-> "enum", max_iterations |-> "int", tool_search |-> "int",
    tool_search_floor |-> "enum"]

MCPServerConfig == [url |-> "enum", timeout |-> "int", keep_alive_interval |-> "int",
    allowed_hosts |-> "enum", required_headers |-> "enum", tool_include |-> "enum"]

(* A key of the secrets document; enabled, admin and chat-capable or not.  *)
ApiKey == [enabled |-> "bool", admin |-> "bool", allowed_agents |-> "enum", allowed_tools |-> "enum",
    ratelimit_max_rpm |-> "int", token_budget_daily |-> "int", budget_tier |-> "enum"]

(* Config and its nested structs, by the name of the object.               *)
Config == [server |-> ServerConfig, context |-> ContextConfig,
    governance |-> GovernanceLimits @@ GovernanceStreams, byok |-> BYOKConfig,
    injection |-> InjectionConfig, escalation |-> InjectionEscalationConfig,
    spotlight |-> SpotlightConfig, risk_tiers |-> SpotlightRiskTiersConfig,
    exfil_guard |-> ExfilGuardConfig, canary |-> CanaryConfig, judgment |-> JudgmentConfig,
    tfidf_rerank |-> TfidfRerankConfig, mcp_guard |-> MCPGuardConfig,
    token_calibration |-> TokenCalibrationConfig, param_compat |-> ParamCompatRule,
    stream_continuation |-> StreamContinuationConfig, bouncer |-> BouncerConfig,
    prefix_cache |-> PrefixCacheConfig, compaction |-> CompactionConfig, window |-> WindowConfig,
    response_cache |-> ResponseCacheConfig, discovery |-> DiscoveryConfig, network |-> NetworkConfig,
    local_engine |-> LocalEngineConfig, provider |-> ProviderTransport @@ ProviderLimits,
    billing |-> BillingConfig, agent |-> AgentConfig, agent_model |-> AgentModel,
    agent_mcp |-> AgentMCPConfig, agent_spotlight |-> SpotlightConfig,
    agent_exfil |-> ExfilGuardOverrideConfig, agent_injection |-> InjectionConfig,
    mcp_server |-> MCPServerConfig, api_key |-> ApiKey]

(* The object a nested object lives in.                                    *)
Within == [escalation |-> "injection", risk_tiers |-> "spotlight", billing |-> "provider",
           agent_mcp |-> "agent", agent_model |-> "agent", agent_spotlight |-> "agent",
           agent_exfil |-> "agent", agent_injection |-> "agent"]

fields(structs) ==
    UNION {{[name |-> o \o "." \o f, object |-> o, kind |-> structs[o][f]] : f \in DOMAIN structs[o]} :
              o \in DOMAIN structs}

byName(F) == [s \in {f.name : f \in F} |-> CHOOSE f \in F : f.name = s]

Schema == byName(fields(Config))

Settings == DOMAIN Schema

kind(s) == Schema[s].kind

(* The objects that exist once a setting is written.                       *)
enclosing(o) == {o} \cup {Within[p] : p \in {o} \cap DOMAIN Within}

parents(s) == enclosing(Schema[s].object)

(* What a file can say: "neg" is below zero, "zero" an explicit 0, "tiny"  *)
(* below a documented floor, "over" above a documented cap, "bad" outside  *)
(* its enum, malformed, or naming something that does not exist.           *)
valuesOf(s, k) ==
    CASE k \in {"ptrbool", "bool"} -> {"on", "off"}
      [] k = "ptrint" -> {"neg", "zero", "ok", "over"}
      [] k = "int" -> {"neg", "zero", "tiny", "ok", "over"}
      [] k = "list" -> {"empty", "ok", "bad"}
      [] k = "engine" -> {"agent", "inline", "empty", "unknown", "self"}
      [] s = "billing.model" -> {"credit", "mixed", "bad"}
      [] s = "billing.quota_source" -> {"api", "headers", "bad"}
      [] s = "provider.auth_style" -> {"bearer", "none"}
      [] OTHER -> {"ok", "bad"}

Written(s) == valuesOf(s, kind(s))
============================================================================
