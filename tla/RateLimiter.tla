---------------------------- MODULE RateLimiter ----------------------------
(***************************************************************************)
(* internal/infra/ratelimit.go: one token bucket per provider for requests *)
(* and one for tokens, in a registry of bounded size.  A bucket's float64  *)
(* level is kept in units of 1/TicksPerMinute, so that a tick refills      *)
(* exactly max units and all arithmetic is integral.                       *)
(*                                                                         *)
(* CheckDetailed is one action.  The code takes two locks in turn, the     *)
(* registry's and the bucket's; in between another check can only update   *)
(* the same bucket first, which is the order of two actions here, or evict *)
(* the bucket, and then the check spends from a bucket no map holds any    *)
(* more, which is again this action followed by the evicting one.          *)
(***************************************************************************)
EXTENDS Integers, FiniteSets

CONSTANTS
    Hosts,             \* bucket keys
    Limits,            \* possible limits of a dimension; 0 disables it
    Sizes,             \* token estimates of requests
    TicksPerMinute,
    StaleThreshold,    \* staleHostThreshold, in ticks
    MaxHosts,          \* maxRateLimitHosts
    MaxTime,           \* bound: the last tick of the explored clock
    MaxAdmitted        \* bound: requests admitted per bucket

VARIABLES
    now,
    limits,            \* rl.limits: a function whose domain is the map's
    effective,         \* rl.effectiveLimits: [rpm, tpm] per host
    since,             \* history: when the host's bucket was created
    admitted           \* history: requests its bucket has admitted since

vars == <<now, limits, effective, since, admitted>>

RateAssumption ==
    /\ Limits \subseteq Nat
    /\ Sizes \subseteq Nat
    /\ TicksPerMinute \in Nat \ {0}
    /\ StaleThreshold \in Nat /\ StaleThreshold >= TicksPerMinute
    /\ MaxHosts \in Nat \ {0}
    /\ {MaxTime, MaxAdmitted} \subseteq Nat
    /\ IsFiniteSet(Hosts)

Bucket == [rpm : Nat, tpm : Nat, maxRPM : Nat, maxTPM : Nat, lastRefill : Nat]

-----------------------------------------------------------------------------

Least(a, b) == IF a < b THEN a ELSE b

newBucket(h) ==
    [rpm |-> effective[h].rpm * TicksPerMinute, tpm |-> effective[h].tpm * TicksPerMinute,
     maxRPM |-> effective[h].rpm, maxTPM |-> effective[h].tpm, lastRefill |-> now]

(* evictLocked runs when a new host finds the registry full.               *)
stale == {h \in DOMAIN limits : now - limits[h].lastRefill > StaleThreshold}

evicted(h) ==
    IF h \notin DOMAIN limits /\ Cardinality(DOMAIN limits) >= MaxHosts THEN stale ELSE {}

(* The second look at the size: without room the request is rejected.      *)
room(h) ==
    h \in DOMAIN limits \/ Cardinality(DOMAIN limits \ evicted(h)) < MaxHosts

(* The refilled level of one dimension; a disabled one is left alone.      *)
refill(level, max, elapsed) ==
    IF max > 0 THEN Least(max * TicksPerMinute, level + elapsed * max) ELSE level

refilled(b) == [b EXCEPT !.rpm = refill(@, b.maxRPM, now - b.lastRefill),
                         !.tpm = refill(@, b.maxTPM, now - b.lastRefill)]

(* Mutant: an oversized request waits for more than the bucket can hold.   *)
passesStrictly(b, tokens) ==
    /\ b.maxRPM > 0 => b.rpm >= TicksPerMinute
    /\ b.maxTPM > 0 => b.tpm >= tokens * TicksPerMinute

(* A request as large as the whole token limit is let through.             *)
passes(b, tokens) ==
    /\ b.maxRPM > 0 => b.rpm >= TicksPerMinute
    /\ b.maxTPM > 0 => b.tpm >= tokens * TicksPerMinute \/ tokens >= b.maxTPM

consume(b, tokens) ==
    [b EXCEPT !.rpm = IF b.maxRPM > 0 THEN @ - TicksPerMinute ELSE @,
              !.tpm = IF b.maxTPM = 0 THEN @
                      ELSE IF @ > tokens * TicksPerMinute
                           THEN @ - tokens * TicksPerMinute ELSE 0,
              !.lastRefill = now]

(* checkDetailed: the refill is stored in any case, lastRefill moves only  *)
(* when the request is admitted.                                           *)
checked(b, tokens) ==
    IF passes(refilled(b), tokens) THEN consume(refilled(b), tokens) ELSE refilled(b)

bucketOf(h) == IF h \in DOMAIN limits THEN limits[h] ELSE newBucket(h)

CheckDetailed(h, tokens) ==
    LET kept == DOMAIN limits \ evicted(h)
        ok == room(h) /\ passes(refilled(bucketOf(h)), tokens)
        start == IF h \in DOMAIN limits THEN admitted[h] ELSE 0
    IN  /\ admitted[h] < MaxAdmitted
        /\ limits' = [k \in kept \cup (IF room(h) THEN {h} ELSE {}) |->
                        IF k = h THEN checked(bucketOf(h), tokens) ELSE limits[k]]
        /\ admitted' = [admitted EXCEPT ![h] = IF ok THEN start + 1 ELSE start]
        /\ since' = IF h \in DOMAIN limits THEN since ELSE [since EXCEPT ![h] = now]
        /\ UNCHANGED <<now, effective>>

(* SetProviderLimits rewrites the limits of a live bucket, not its levels. *)
SetProviderLimits(h, rpm, tpm) ==
    /\ effective' = [effective EXCEPT ![h] = [rpm |-> rpm, tpm |-> tpm]]
    /\ limits' = IF h \in DOMAIN limits
                 THEN [limits EXCEPT ![h].maxRPM = rpm, ![h].maxTPM = tpm] ELSE limits
    /\ UNCHANGED <<now, since, admitted>>

Tick ==
    /\ now < MaxTime /\ now' = now + 1
    /\ UNCHANGED <<limits, effective, since, admitted>>

Init ==
    /\ now = 0
    /\ limits = [h \in {} |-> newBucket(h)]
    /\ effective \in [Hosts -> [rpm : Limits, tpm : Limits]]
    /\ since = [h \in Hosts |-> 0]
    /\ admitted = [h \in Hosts |-> 0]

Check == \E h \in Hosts, tokens \in Sizes : CheckDetailed(h, tokens)

Next ==
    \/ Tick \/ Check
    \/ \E h \in Hosts, rpm, tpm \in Limits : SetProviderLimits(h, rpm, tpm)

Spec == Init /\ [][Next]_vars

(* The limits of the process as configured, no reload.                     *)
FixedSpec == Init /\ [][Tick \/ Check]_vars

-----------------------------------------------------------------------------
(* Properties.                                                             *)

(* Types; in particular no bucket level is ever negative, and the registry *)
(* never outgrows its cap, whatever hosts are asked for.                   *)
TypeOK ==
    /\ now \in Nat
    /\ DOMAIN limits \subseteq Hosts /\ Cardinality(DOMAIN limits) <= MaxHosts
    /\ limits \in [DOMAIN limits -> Bucket]
    /\ effective \in [Hosts -> [rpm : Limits, tpm : Limits]]

(* One minute after the last admission a bucket admits a request of any    *)
(* size, whatever was rejected meanwhile and however its limits changed:   *)
(* nobody is starved for good (NENYA-70).                                  *)
NeverStarved ==
    \A h \in DOMAIN limits : now - limits[h].lastRefill >= TicksPerMinute =>
        \A tokens \in Sizes : passes(refilled(limits[h]), tokens)

(* ProviderRateLimits: maxRPM is the maximum of requests per minute, so a  *)
(* bucket admits at most one full burst plus what the clock refilled.      *)
RateHonoured ==
    \A h \in DOMAIN limits : limits[h].maxRPM > 0 =>
        admitted[h] * TicksPerMinute
            <= limits[h].maxRPM * (TicksPerMinute + now - since[h])
=============================================================================
