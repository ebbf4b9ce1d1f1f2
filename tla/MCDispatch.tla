----------------------------- MODULE MCDispatch -----------------------------
(* Instances of Dispatch for TLC.                                          *)
EXTENDS Dispatch

CONSTANTS k1, k2, r1, r2

Agent(byok, sticky, retries) == [byok |-> byok, sticky |-> sticky, maxRetries |-> retries]

(* Profiles: everyone on the shared account with an agent's defaults ...   *)
Shared == [r \in Requests |-> {Agent(FALSE, "off", 0)}]

(* ... or any agent of the configuration and either credential (circuits   *)
(* are per agent: only for a single request).                              *)
EveryAgent ==
    [r \in Requests |-> {Agent(byok, "off", 0) : byok \in BOOLEAN}
                          \cup {Agent(FALSE, "lenient", 2), Agent(FALSE, "strict", 0),
                                Agent(TRUE, "lenient", 1)}]

NoOverrides == [k \in Keys |-> [failure |-> 0, success |-> 0]]

Reply(status, marks) == [status |-> status, marks |-> marks]

Model(k, p) == [key |-> k, model |-> k, pair |-> p]

(* Chains: one model; two providers; two models of one account, with a     *)
(* second account of the first model between them.                         *)
OneModel == <<Model(k1, "a")>>
TwoModels == <<Model(k1, "a"), Model(k2, "b")>>
SharedAccount == <<Model(k1, "a"), Model(k1, "b"), Model(k2, "a")>>

(* One reply per branch of handleActionError and handleUpstreamError.      *)
EveryReply ==
    {Reply(429, {"quota"}), Reply(429, {"concurrency"}), Reply(500, {}),
     Reply(413, {"context"}), Reply(400, {"param"}), Reply(400, {"scoped"}),
     Reply(400, {"phrase"}), Reply(403, {"opaque"}), Reply(404, {}),
     Reply(403, {"adapter", "adapter_quota"}), Reply(422, {})}

ServerError == {Reply(500, {})}
=============================================================================
