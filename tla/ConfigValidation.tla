-------------------------- MODULE ConfigValidation --------------------------
(***************************************************************************)
(* The checks of config/validate.go over a loaded configuration: one       *)
(* predicate per validator, true when it reports no error.  Which of them  *)
(* run depends on the caller: -validate runs all of them with pings, a     *)
(* SIGHUP reload runs them without pings, and a start runs three.          *)
(***************************************************************************)
EXTENDS ConfigModel

(* The setting is not negative / not above its cap / legal.                *)
NonNegative(c, S) == \A s \in S : at(c, s) # "neg"

Capped(c, S) == NonNegative(c, S) /\ \A s \in S : at(c, s) # "over"

Legal(c, S) == \A s \in S : at(c, s) # "bad"

(* validatePatternsToList: every pattern compiles.                         *)
Compiles(c, s) == at(c, s) # "bad"

(* A byte budget below the judgment framing's size cannot be used.         *)
judgmentBudget(c, s) == at(c, s) \notin {"neg", "tiny"}

(* An explicit empty engine reference skips inheritance; an unresolved one *)
(* fails ApplyDefaults.                                                    *)
engineNamed(c, s) == at(c, s) # "empty"

validateSpotlightRiskTiersConfig(c) ==
    "risk_tiers" \in DOMAIN c =>
        /\ judgmentBudget(c, "risk_tiers.max_bytes")
        /\ NonNegative(c, {"risk_tiers.timeout_seconds"})
        /\ Legal(c, {"risk_tiers.escalate_below_confidence"})
        /\ engineNamed(c, "risk_tiers.engine")

validateTfidfRerankConfig(c) ==
    "tfidf_rerank" \in DOMAIN c =>
        /\ judgmentBudget(c, "tfidf_rerank.max_bytes")
        /\ NonNegative(c, {"tfidf_rerank.timeout_seconds"})
        /\ engineNamed(c, "tfidf_rerank.engine")

(* Every resolved engine, with the listen address it is compared to: an    *)
(* engine that points back at the gateway would proxy to itself.           *)
selfLoopSurfaces(c) == engineSurfaces(c)

validateSelfLoopGuard(c) == \A s \in selfLoopSurfaces(c) : c[s] # "self"

(* Readable CA bundles and supported proxy schemes, fleet and provider.    *)
validateNetworkPolicy(c) ==
    Legal(c, {"network.ca_bundle", "network.proxy_url", "provider.ca_bundle", "provider.proxy_url"})

(* A warning, never an error.                                              *)
validateTelemetryExposure(c) == TRUE

validateJudgmentEngineRef(c) == engineNamed(c, "judgment.engine")

validateJudgmentEntry(c) ==
    "judgment" \in DOMAIN c =>
        /\ Legal(c, {"judgment.name", "judgment.escalate_below_confidence", "judgment.action"})
        /\ judgmentBudget(c, "judgment.max_bytes")
        /\ NonNegative(c, {"judgment.timeout_seconds"})
        /\ validateJudgmentEngineRef(c)

(* Per agent only the two switches: mode and bytes are global, and a       *)
(* disabled surface cannot have its history enabled.                       *)
validateSpotlightConfig(c) ==
    /\ "spotlight" \in DOMAIN c =>
        Legal(c, {"spotlight.mode"}) /\ NonNegative(c, {"spotlight.max_tool_result_bytes"})
    /\ \A s \in {"agent_spotlight.mode", "agent_spotlight.max_tool_result_bytes"} : at(c, s) = "unset"
    /\ ~(at(c, "agent_spotlight.enabled") = "off" /\ on(c, "agent_spotlight.history_enabled"))

validateInjectionEscalation(c) ==
    escalating(c) =>
        /\ at(c, "escalation.engine") \notin {"unset", "empty"}
        /\ at(c, "escalation.min_score") \notin {"neg", "zero"}
        /\ at(c, "escalation.max_score") \notin {"neg", "tiny"}
        /\ NonNegative(c, {"escalation.per_request_limit", "escalation.max_bytes"})

validateInjectionConfig(c) ==
    /\ Compiles(c, "injection.extra_patterns") /\ Compiles(c, "injection.ignore_patterns")
    /\ \A s \in {"agent_injection.extra_patterns", "agent_injection.ignore_patterns"} :
            at(c, s) \in {"unset", "empty"}
    /\ validateInjectionEscalation(c)

(* A floor without tool search, or a floor entry no tool can have.         *)
validateMCPToolSurfaces(c) ==
    /\ NonNegative(c, {"agent_mcp.tool_search"})
    /\ at(c, "agent_mcp.tool_search") = "unset" => at(c, "agent_mcp.tool_search_floor") = "unset"
    /\ Legal(c, {"agent_mcp.tool_search_floor", "mcp_server.tool_include"})

(* The credential header: a valid, canonical name the gateway neither sets *)
(* nor forwards.                                                           *)
validateBYOKConfig(c) == Legal(c, {"byok.header"})

validateAutoCacheBreakpointsConfig(c) == TRUE

(* The target axis needs a model prefix; the token field is one of two.    *)
validateParamCompatConfig(c) ==
    /\ Legal(c, {"param_compat.token_field", "param_compat.int_typed_params"})
    /\ at(c, "param_compat.model_prefix") = "unset" =>
         \A s \in {"param_compat.token_field", "param_compat.int_typed_params"} : at(c, s) = "unset"

validateTFIDFQuerySource(c) == Legal(c, {"context.tfidf_query_source"})

validateAgentStrategies(c) ==
    Legal(c, {"agent.strategy", "agent.sticky_provider", "agent.cache_aware"})

validateTokenCalibration(c) ==
    /\ NonNegative(c, {"token_calibration.min_observations"})
    /\ Legal(c, {"token_calibration.decay", "token_calibration.ratio_clamp"})

validateStickySessionTTL(c) == Capped(c, {"agent.sticky_session_ttl_seconds"})

(* Every server an agent names is configured.                              *)
validateAgentMCPReferences(c) ==
    at(c, "agent_mcp.servers") # "unset" =>
        at(c, "agent_mcp.servers") = "ok" /\ "mcp_server" \in DOMAIN c

(* Agents an enabled non-admin key names must exist, unless discovery will *)
(* create agents later.                                                    *)
validateSecretAgentScopes(c) ==
    (/\ on(c, "api_key.enabled") /\ ~on(c, "api_key.admin")
     /\ ~(on(c, "discovery.enabled") /\ on(c, "discovery.auto_agents"))
     /\ at(c, "api_key.allowed_agents") # "unset")
    => at(c, "api_key.allowed_agents") = "ok" /\ "agent" \in DOMAIN c

(* http(s), a host, no credentials, plaintext only to local hosts.         *)
validateMCPServerURL(c) == at(c, "mcp_server.url") = "ok"

validateMCPServerConfigs(c) ==
    "mcp_server" \in DOMAIN c =>
        /\ validateMCPServerURL(c)
        /\ NonNegative(c, {"mcp_server.timeout", "mcp_server.keep_alive_interval"})
        /\ Legal(c, {"mcp_server.required_headers"})

validateAPIKeyToolGrants(c) ==
    on(c, "api_key.enabled") /\ at(c, "api_key.allowed_tools") # "unset" =>
        at(c, "api_key.allowed_tools") = "ok" /\ "mcp_server" \in DOMAIN c

(* A colon or an empty name does not survive the circuit key.              *)
validateAgentNames(c) == Legal(c, {"agent.name"})

validateAgentBreakerThresholds(c) == Capped(c, {"agent.failure_threshold", "agent.success_threshold"})

validateAgentSlowCallThresholds(c) == Capped(c, {"agent.slow_call_threshold_seconds"})

ValidateConfigReferences(c) ==
    /\ validateStickySessionTTL(c)
    /\ validateAgentNames(c)
    /\ validateAgentBreakerThresholds(c)
    /\ validateAgentSlowCallThresholds(c)
    /\ validateAgentMCPReferences(c)
    /\ validateSecretAgentScopes(c)
    /\ validateMCPServerConfigs(c)
    /\ validateAPIKeyToolGrants(c)

(* The model registry is compiled in and its entries are valid.            *)
validateModelRegistryErrors(c) == TRUE

validateEntropyConfig(c) ==
    on(c, "bouncer.entropy_enabled") =>
        Legal(c, {"bouncer.entropy_threshold"}) /\ at(c, "bouncer.entropy_min_token") \notin {"neg", "tiny"}

validateModelsHiddenConfig(c) == Compiles(c, "provider.models_hidden")

validateHeaderFilters(c) == Legal(c, {"provider.header_filters"})

validateProviderOptionFields(c) ==
    Legal(c, {"provider.cache_affinity", "provider.idempotency_header",
              "provider.thought_signature_policy"})

(* Only under -validate: the provider answers a minimal request, reached   *)
(* with up to three attempts.                                              *)
validateWithMinimalRequest(answers) == \E n \in 1..3 : answers[n] \in {"ok", "bad request"} /\
                                           \A m \in 1..(n - 1) : answers[m] = "failed"

validateProviders(c, answers) ==
    "provider" \in DOMAIN c =>
        /\ Capped(c, {"provider.response_header_timeout_seconds", "provider.stream_idle_timeout_seconds",
                      "provider.stream_bootstrap_buffer_bytes"})
        /\ Compiles(c, "provider.non_chat_models")
        /\ validateHeaderFilters(c)
        /\ at(c, "provider.api_key") = "unset" \/ validateWithMinimalRequest(answers)

validateProviderModelAliases(c) == Legal(c, {"provider.model_aliases"})

validateProviderRateLimits(c) ==
    /\ NonNegative(c, {"provider.ratelimit_max_rpm", "provider.ratelimit_max_tpm",
                       "provider.max_concurrent_requests", "provider.model_concurrency",
                       "governance.max_concurrent_requests"})
    /\ validateProviderModelAliases(c)

validateKeyLimits(c) ==
    /\ NonNegative(c, {"api_key.ratelimit_max_rpm", "api_key.token_budget_daily",
                       "provider.token_budget_daily"})
    /\ Legal(c, {"api_key.budget_tier", "provider.peak_windows"})

validateQuotaSource(c) ==
    /\ at(c, "billing.quota_source") # "bad"
    /\ at(c, "billing.quota_source") \in {"api", "headers"} => at(c, "billing.quota_extraction") # "unset"
    /\ at(c, "billing.quota_source") = "api" => at(c, "billing.quota_url") # "unset"

validateProviderBillingConfig(c) ==
    /\ at(c, "billing.model") \in {"credit", "mixed"}
    /\ on(c, "billing.free_only") => c["billing.model"] = "mixed"
    /\ validateQuotaSource(c)
    /\ Legal(c, {"billing.quota_extraction"})
    /\ NonNegative(c, {"billing.quota_timeout_seconds", "billing.quota_backoff_max_seconds"})

validateBillingConfig(c) ==
    /\ Legal(c, {"governance.cost_mode"}) /\ NonNegative(c, {"governance.billing_economy_scale"})
    /\ "billing" \in DOMAIN c => validateProviderBillingConfig(c)

(* An upstream timeout above the cap is accepted: the accessor caps it.    *)
validateUpstreamTimeoutSeconds(c) == NonNegative(c, {"governance.upstream_timeout_seconds"})

validateWarmCacheKnobs(c) ==
    /\ Capped(c, {"governance.auto_reorder_warm_cache_band_pct"})
    /\ NonNegative(c, {"governance.auto_reorder_warm_cache_min_tokens"})

validateSlowCallThresholdSeconds(c) == Capped(c, {"governance.slow_call_threshold_seconds"})

(* The stream timeouts and the bootstrap buffer: zero disables.            *)
validateStreamTimeouts(c) ==
    Capped(c, {"server.stream_stall_timeout_seconds", "governance.stream_idle_timeout_seconds",
               "governance.thinking_stream_idle_timeout_seconds",
               "governance.stream_bootstrap_buffer_bytes"})

(* A per-agent override needs the surface it overrides.                    *)
validateExfilGuardConfig(c) ==
    /\ Legal(c, {"exfil_guard.action", "exfil_guard.allowed_hosts", "agent_exfil.action"})
    /\ NonNegative(c, {"exfil_guard.max_query_chars"})
    /\ "agent_exfil" \in DOMAIN c => "exfil_guard" \in DOMAIN c

validateMCPGuardConfig(c) ==
    /\ Legal(c, {"mcp_guard.url_policy", "mcp_server.allowed_hosts"})
    /\ NonNegative(c, {"mcp_guard.max_arg_bytes"})

validateCanaryConfig(c) == Legal(c, {"canary.action"})

(* A placeholder credential in the document.                               *)
ValidateConfigCredentialsStrength(c) == Legal(c, {"provider.api_key"})

collectValidationErrors(c) ==
    /\ ValidateConfigCredentialsStrength(c)
    /\ validateTFIDFQuerySource(c)
    /\ Compiles(c, "bouncer.redact_patterns") /\ Compiles(c, "governance.blocked_execution_patterns")
    /\ validateInjectionConfig(c)
    /\ validateSpotlightConfig(c) /\ validateJudgmentEntry(c)
    /\ validateTfidfRerankConfig(c) /\ validateSpotlightRiskTiersConfig(c)
    /\ validateParamCompatConfig(c)
    /\ validateAutoCacheBreakpointsConfig(c)
    /\ validateBYOKConfig(c)
    /\ validateMCPToolSurfaces(c)
    /\ Capped(c, {"governance.secret_resolution_timeout_seconds",
                  "governance.reload_drain_timeout_seconds",
                  "governance.stream_bootstrap_max_hold_seconds"})
    /\ validateSelfLoopGuard(c)
    /\ validateTelemetryExposure(c)
    /\ validateNetworkPolicy(c)
    /\ validateExfilGuardConfig(c) /\ validateCanaryConfig(c) /\ validateMCPGuardConfig(c)
    /\ validateModelRegistryErrors(c)
    /\ validateEntropyConfig(c)
    /\ validateModelsHiddenConfig(c)
    /\ validateProviderRateLimits(c) /\ validateProviderOptionFields(c)
    /\ validateBillingConfig(c)
    /\ validateUpstreamTimeoutSeconds(c)
    /\ validateStreamTimeouts(c)
    /\ validateSlowCallThresholdSeconds(c)
    /\ validateWarmCacheKnobs(c)
    /\ validateAgentStrategies(c)
    /\ validateTokenCalibration(c)

(* What a reload runs.                                                     *)
ValidateConfigurationNoPing(c) ==
    collectValidationErrors(c) /\ validateKeyLimits(c) /\ ValidateConfigReferences(c)

(* What -validate runs on top: the bouncer's ollama engine and the local   *)
(* engine must be up, and every provider with a key is asked.              *)
ValidateConfiguration(c, engineUp, localUp, answers) ==
    /\ on(c, "bouncer.enabled") /\ at(c, "bouncer.engine") = "default" => engineUp
    /\ "local_engine" \in DOMAIN c => localUp
    /\ ValidateConfigurationNoPing(c)
    /\ validateProviders(c, answers)
============================================================================
