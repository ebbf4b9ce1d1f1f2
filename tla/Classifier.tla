----------------------------- MODULE Classifier -----------------------------
(***************************************************************************)
(* classifyHTTPError (internal/resilience/classifier.go) with the backoff  *)
(* arithmetic of backoff.go: the class of a failed upstream reply, whether *)
(* it locks the key, for how long, and whether it advances the backoff.    *)
(* A reply is a status and the set of wordings its body contains; the      *)
(* phrase lists themselves are abstracted to five marks.             *)
(***************************************************************************)
EXTENDS Integers

CONSTANTS
    AuthCooldown, ServerCooldown, UnknownCooldown, OpaqueCooldown,
    ModelNotFoundCooldown,
    RateLimitBase, QuotaBase, CapacityBase,   \* level-0 exponential cooldowns
    LevelCap                                  \* maxBackoffLevel

(* Wordings: missing model, quota or insufficient credit, context length,  *)
(* rate limit, overload.                                                   *)
Marks == {"no_model", "quota", "context", "rate", "overload"}

ASSUME BaseAssumption ==
    {AuthCooldown, ServerCooldown, UnknownCooldown, OpaqueCooldown,
     ModelNotFoundCooldown, RateLimitBase, QuotaBase, CapacityBase, LevelCap} \subseteq Nat

computeExponentialBackoff(level, base) ==
    base * 2^(IF level > LevelCap THEN LevelCap ELSE level)

(* The cooldowns +/-5% jitter can produce, at tick resolution.             *)
withJitter(d) == (d - d \div 20) .. (d + d \div 20)

IsModelNotFoundStatus(reply) ==
    \/ reply.status = 404
    \/ /\ reply.status \in {400, 422}
       /\ "no_model" \in reply.marks
       /\ "quota" \notin reply.marks
       /\ "context" \in reply.marks => "rate" \in reply.marks

IsContextLengthError(reply) ==
    /\ reply.status \in {400, 413, 422}
    /\ "context" \in reply.marks /\ "rate" \notin reply.marks

decide(class, lock, cooldowns, increment) ==
    {[class |-> class, lock |-> lock, cooldown |-> cd, increment |-> increment]
        : cd \in cooldowns}

backingOff(class, base, level) ==
    decide(class, TRUE, withJitter(computeExponentialBackoff(level, base)), TRUE)

(* The decisions possible for a reply; the cases are tried in order.       *)
classifyHTTPError(reply, level) ==
    IF IsModelNotFoundStatus(reply) THEN
        decide("model_not_found", TRUE, {ModelNotFoundCooldown}, FALSE)
    ELSE IF reply.status \in {401, 403} THEN decide("auth", TRUE, {AuthCooldown}, FALSE)
    ELSE IF reply.status = 429 THEN backingOff("rate_limit", RateLimitBase, level)
    ELSE IF reply.status \in {400, 402} /\ "quota" \in reply.marks THEN
        backingOff("quota", QuotaBase, level)
    ELSE IF IsContextLengthError(reply) THEN decide("context_limit", FALSE, {0}, FALSE)
    ELSE IF reply.status \in {400, 402, 413, 422} THEN
        decide("unknown", FALSE, {OpaqueCooldown}, FALSE)
    ELSE IF reply.status >= 500 /\ "overload" \in reply.marks THEN
        backingOff("capacity", CapacityBase, level)
    ELSE IF reply.status >= 500 THEN decide("server", TRUE, {ServerCooldown}, FALSE)
    ELSE decide("unknown", TRUE, {UnknownCooldown}, FALSE)
=============================================================================
