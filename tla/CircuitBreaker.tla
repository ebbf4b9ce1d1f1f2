--------------------------- MODULE CircuitBreaker ---------------------------
(***************************************************************************)
(* The per-key circuit-breaker registry of internal/resilience             *)
(* (circuitbreaker.go, backoff.go).  Every exported method runs under one  *)
(* mutex, so each is one action.  A key names an agent:provider:model      *)
(* triple.  Callers are unconstrained here: any goroutine may report any   *)
(* outcome at any time, in particular late, after the circuit has moved    *)
(* on.  Module Dispatch constrains them to what the proxy really does.     *)
(*                                                                         *)
(* Not represented: the statistics Requests, TotalSuccesses, TotalFailures *)
(* and lastChange, the last-error texts, and `generation', which the code  *)
(* increments and never reads.  ConsecutiveSuccesses is kept only where it *)
(* is read (HalfOpen); setState zeroes it on every transition.             *)
(***************************************************************************)
EXTENDS Integers, FiniteSets

CONSTANTS
    Keys,                 \* circuit keys
    FailureThreshold,     \* global failureThreshold
    SuccessThreshold,     \* global successThreshold
    ThresholdLookup,      \* [Keys -> [failure, success]], 0 = inherit the global
    HalfOpenMaxRequests,  \* concurrent probes of a HalfOpen circuit
    Cooldown,             \* default cooldown, in ticks
    CooldownOverrides,    \* durations callers pass; 0 = no override
    MinQuotaCooldown,     \* floor of quota-class cooldowns, 0 = none
    MaxBackoffLevel,      \* 15 in the code
    Replies,              \* (status, body) pairs an upstream can answer
    Classifier(_, _),     \* reply, backoff level -> possible CooldownDecisions
    MaxCircuits,          \* registry cap
    IdleTTL,              \* idle time that makes a Closed circuit sheddable
    MaxTime               \* bound: the last tick of the explored clock

VARIABLES
    now,          \* time.Now(), in ticks; 0 is the zero time.Time
    circuits,     \* map[string]*circuit: a function whose domain is the map's
    modelLocks,   \* lock deadline per key, 0 = no entry
    levels        \* BackoffTracker.levels, 0 = no entry

vars == <<now, circuits, modelLocks, levels>>

States == {"Closed", "Open", "HalfOpen"}

Circuit == [state : States, expiry : Nat, fails : Nat, succs : Nat,
            inflight : Nat, lastUsed : Nat]

Decision == [class : STRING, lock : BOOLEAN, cooldown : Nat, increment : BOOLEAN]

ASSUME ThresholdAssumption ==
    /\ FailureThreshold \in Nat \ {0}
    /\ SuccessThreshold \in Nat \ {0}
    /\ ThresholdLookup \in [Keys -> [failure : Nat, success : Nat]]

ASSUME LimitAssumption ==
    /\ HalfOpenMaxRequests \in Nat \ {0}
    /\ MaxCircuits \in Nat \ {0}
    /\ MaxBackoffLevel \in Nat
    /\ IsFiniteSet(Keys)

ASSUME DurationAssumption ==
    /\ Cooldown \in Nat \ {0}
    /\ CooldownOverrides \subseteq Nat
    /\ MinQuotaCooldown \in Nat
    /\ IdleTTL \in Nat
    /\ MaxTime \in Nat

ASSUME ClassifierAssumption ==
    \A reply \in Replies, level \in 0..MaxBackoffLevel :
        Classifier(reply, level) \subseteq Decision

-----------------------------------------------------------------------------
(* Thresholds: a zero field of the per-agent lookup inherits the global.   *)

failureThresholdFor(key) ==
    IF ThresholdLookup[key].failure > 0 THEN ThresholdLookup[key].failure
                                        ELSE FailureThreshold

successThresholdFor(key) ==
    IF ThresholdLookup[key].success > 0 THEN ThresholdLookup[key].success
                                        ELSE SuccessThreshold

-----------------------------------------------------------------------------
(* The bounded registry: getOrCreate first runs evictForCapacity.          *)

Later(a, b) == IF a > b THEN a ELSE b

newCircuit == [state |-> "Closed", expiry |-> 0, fails |-> 0, succs |-> 0,
               inflight |-> 0, lastUsed |-> now]

atCapacity == Cardinality(DOMAIN circuits) >= MaxCircuits

(* Mutant: the sweep forgets the state test.                               *)
sheddableAny == {k \in DOMAIN circuits : circuits[k].inflight = 0}

sheddable == {k \in DOMAIN circuits : /\ circuits[k].state = "Closed"
                                      /\ circuits[k].inflight = 0}

idle == {k \in sheddable : now - circuits[k].lastUsed > IdleTTL}

leastRecentlyUsed(S) ==
    {k \in S : \A j \in S : circuits[k].lastUsed <= circuits[j].lastUsed}

(* The sets of circuits one sweep may delete; map order breaks LRU ties.   *)
evictForCapacity ==
    IF ~atCapacity THEN {{}}
    ELSE IF \/ Cardinality(DOMAIN circuits \ idle) < MaxCircuits
            \/ sheddable \ idle = {}
         THEN {idle}
         ELSE {idle \cup {k} : k \in leastRecentlyUsed(sheddable \ idle)}

(* Pass 1 drops the locks of idle circuits, pass 2 keeps its victim's.     *)
pruneExpiredLocks ==
    [k \in Keys |-> IF atCapacity /\ (k \in idle \/ now > modelLocks[k])
                    THEN 0 ELSE modelLocks[k]]

(* Mutant: eviction leaves the backoff level behind.                       *)
keepLevels(shed) == levels

resetLevels(shed) == [k \in Keys |-> IF k \in shed THEN 0 ELSE levels[k]]

getOrCreate(key, shed) ==
    IF key \in DOMAIN circuits \ shed
    THEN [circuits[key] EXCEPT !.lastUsed = now]
    ELSE newCircuit

(* The map after the sweep and the caller's update c of key's circuit.     *)
store(key, shed, c) ==
    [k \in (DOMAIN circuits \ shed) \cup {key} |-> IF k = key THEN c ELSE circuits[k]]

-----------------------------------------------------------------------------
(* What each method does to the circuit getOrCreate returned.              *)

setState(c, s) ==
    IF c.state = s THEN c
    ELSE [c EXCEPT !.state = s, !.fails = 0, !.succs = 0, !.inflight = 0,
                   !.expiry = IF s = "Open" THEN now + Cooldown ELSE 0]

(* Mutant: the probe budget is not consulted.                              *)
permitsAnyProbe(c) == c.state # "Open" \/ now > c.expiry

(* Peek's answer, which is also whether Allow admits.                      *)
permits(c) ==
    \/ c.state = "Closed"
    \/ c.state = "Open" /\ now > c.expiry
    \/ c.state = "HalfOpen" /\ c.inflight < HalfOpenMaxRequests

admit(c) ==
    IF c.state = "Closed" \/ ~permits(c) THEN c
    ELSE [setState(c, "HalfOpen") EXCEPT !.inflight = @ + 1]

releaseSlot(c) ==
    IF c.state = "HalfOpen" /\ c.inflight > 0
    THEN [c EXCEPT !.inflight = @ - 1] ELSE c

openUntil(c, deadline) == [setState(c, "Open") EXCEPT !.expiry = deadline]

(* Mutant: the threshold is compared with > instead of >=.                 *)
failOffByOne(key, c, cd) ==
    CASE c.state = "Closed" ->
            IF c.fails + 1 > failureThresholdFor(key)
            THEN openUntil(c, now + cd) ELSE [c EXCEPT !.fails = @ + 1]
      [] c.state = "HalfOpen" -> openUntil(c, now + cd)
      [] OTHER -> [c EXCEPT !.expiry = Later(@, now + cd)]

(* RecordFailure: an override replaces the default cooldown on a trip.     *)
fail(key, c, cd) ==
    CASE c.state = "Closed" ->
            IF c.fails + 1 >= failureThresholdFor(key)
            THEN openUntil(c, now + cd) ELSE [c EXCEPT !.fails = @ + 1]
      [] c.state = "HalfOpen" -> openUntil(c, now + cd)
      [] OTHER -> [c EXCEPT !.expiry = Later(@, now + cd)]

(* RecordFailureWithStatus: a trip uses the default cooldown, only an      *)
(* already Open circuit takes the decision's.                              *)
failWithStatus(key, c, cd) ==
    CASE c.state = "Closed" ->
            IF c.fails + 1 >= failureThresholdFor(key)
            THEN setState(c, "Open") ELSE [c EXCEPT !.fails = @ + 1]
      [] c.state = "HalfOpen" -> setState(c, "Open")
      [] OTHER -> [c EXCEPT !.expiry = Later(@, now + cd)]

recovers(key, c) ==
    c.state = "HalfOpen" /\ c.succs + 1 >= successThresholdFor(key)

succeed(key, c) ==
    CASE c.state = "Closed" -> [c EXCEPT !.fails = 0]
      [] c.state = "HalfOpen" -> IF recovers(key, c) THEN setState(c, "Closed")
                                 ELSE [releaseSlot(c) EXCEPT !.succs = @ + 1]
      [] OTHER -> c

(* Mutant: the new deadline always replaces the old one.                   *)
forceOverwrites(c, cd) == openUntil(c, now + cd)

(* ForceOpen: only a deadline active before setState can outlast the call. *)
force(c, cd) ==
    IF now < c.expiry /\ c.expiry > now + cd
    THEN setState(c, "Open") ELSE openUntil(c, now + cd)

applyQuotaFloor(d) ==
    IF d.class = "quota" THEN Later(d.cooldown, MinQuotaCooldown) ELSE d.cooldown

-----------------------------------------------------------------------------
(* The methods.                                                            *)

Swept(shed) == /\ modelLocks' = pruneExpiredLocks
               /\ levels' = resetLevels(shed)
               /\ now' = now

Allow(key) == \E shed \in evictForCapacity :
    /\ circuits' = store(key, shed, admit(getOrCreate(key, shed)))
    /\ Swept(shed)

RecordFailure(key, override) == \E shed \in evictForCapacity :
    /\ circuits' = store(key, shed,
                         fail(key, getOrCreate(key, shed),
                              IF override > 0 THEN override ELSE Cooldown))
    /\ Swept(shed)

RecordOpaqueFailure(key) == \E shed \in evictForCapacity :
    /\ circuits' = store(key, shed, releaseSlot(getOrCreate(key, shed)))
    /\ Swept(shed)

applyModelLock(key, d, shed) ==
    /\ modelLocks' = IF d.lock
                     THEN [pruneExpiredLocks EXCEPT
                             ![key] = Later(@, now + applyQuotaFloor(d))]
                     ELSE pruneExpiredLocks
    /\ levels' = IF d.lock /\ d.increment /\ resetLevels(shed)[key] < MaxBackoffLevel
                 THEN [resetLevels(shed) EXCEPT ![key] = @ + 1]
                 ELSE resetLevels(shed)

RecordFailureWithStatus(key, reply) == \E shed \in evictForCapacity :
    \E d \in Classifier(reply, resetLevels(shed)[key]) :
        /\ circuits' = store(key, shed,
                             failWithStatus(key, getOrCreate(key, shed), applyQuotaFloor(d)))
        /\ applyModelLock(key, d, shed)
        /\ now' = now

(* A recovery clears the backoff and the lock of `model'; RecordSuccess    *)
(* passes the key itself.                                                  *)
RecordSuccessWithModel(key, model) == \E shed \in evictForCapacity :
    LET c == getOrCreate(key, shed)
        cleared(f) == IF recovers(key, c) THEN [f EXCEPT ![model] = 0] ELSE f
    IN  /\ circuits' = store(key, shed, succeed(key, c))
        /\ modelLocks' = cleared(pruneExpiredLocks)
        /\ levels' = cleared(resetLevels(shed))
        /\ now' = now

RecordSuccess(key) == RecordSuccessWithModel(key, key)

(* The one writer that does not go through getOrCreate.                    *)
ReleaseHalfOpen(key) ==
    /\ circuits' = IF key \in DOMAIN circuits
                   THEN [circuits EXCEPT ![key] = releaseSlot(@)] ELSE circuits
    /\ UNCHANGED <<now, modelLocks, levels>>

ForceOpen(key, cooldown) ==
    /\ cooldown > 0
    /\ \E shed \in evictForCapacity :
        /\ circuits' = store(key, shed, force(getOrCreate(key, shed), cooldown))
        /\ Swept(shed)

(* Peek promises no side effect on the circuit, but it does touch the LRU  *)
(* stamp and can trigger a sweep.                                          *)
Peek(key) == \E shed \in evictForCapacity :
    /\ circuits' = store(key, shed, getOrCreate(key, shed))
    /\ Swept(shed)

UnlockModel(model) ==
    /\ modelLocks' = [modelLocks EXCEPT ![model] = 0]
    /\ levels' = [levels EXCEPT ![model] = 0]
    /\ UNCHANGED <<now, circuits>>

Tick ==
    /\ now < MaxTime
    /\ now' = now + 1
    /\ UNCHANGED <<circuits, modelLocks, levels>>

-----------------------------------------------------------------------------
(* Read-only queries other modules use.                                    *)

IsModelLocked(model) == modelLocks[model] # 0 /\ now < modelLocks[model]

Permitted(key) == key \in DOMAIN circuits => permits(circuits[key])

-----------------------------------------------------------------------------

Init ==
    /\ now = 1
    /\ circuits = [k \in {} |-> newCircuit]
    /\ modelLocks = [k \in Keys |-> 0]
    /\ levels = [k \in Keys |-> 0]

Call(key) ==
    \/ Allow(key)
    \/ \E cd \in CooldownOverrides : RecordFailure(key, cd)
    \/ RecordOpaqueFailure(key)
    \/ \E reply \in Replies : RecordFailureWithStatus(key, reply)
    \/ RecordSuccess(key)
    \/ \E model \in Keys : RecordSuccessWithModel(key, model)
    \/ ReleaseHalfOpen(key)
    \/ \E cd \in CooldownOverrides : ForceOpen(key, cd)
    \/ Peek(key)
    \/ UnlockModel(key)

Next == Tick \/ \E key \in Keys : Call(key)

Spec == Init /\ [][Next]_vars

-----------------------------------------------------------------------------
(* Properties.                                                             *)

(* Every variable keeps the shape the Go types give it; the registry holds *)
(* only known keys.                                                        *)
TypeOK ==
    /\ now \in Nat \ {0}
    /\ DOMAIN circuits \subseteq Keys
    /\ circuits \in [DOMAIN circuits -> Circuit]
    /\ modelLocks \in [Keys -> Nat]
    /\ levels \in [Keys -> 0..MaxBackoffLevel]

(* A Closed circuit sits strictly below its failure threshold and holds no *)
(* probe slot: whatever mix of RecordFailure, RecordFailureWithStatus and  *)
(* late results arrives, the failure that reaches the threshold trips it.  *)
ClosedBelowThreshold ==
    \A k \in DOMAIN circuits : circuits[k].state = "Closed" =>
        /\ circuits[k].fails < failureThresholdFor(k)
        /\ circuits[k].inflight = 0

(* A HalfOpen circuit never counts more probes than HalfOpenMaxRequests    *)
(* and is still short of its success threshold; an Open circuit counts     *)
(* none, so every recovery starts with the full probe budget.              *)
ProbeBudget ==
    \A k \in DOMAIN circuits :
        /\ circuits[k].inflight <= HalfOpenMaxRequests
        /\ circuits[k].inflight > 0 => circuits[k].state = "HalfOpen"
        /\ circuits[k].state = "HalfOpen" => circuits[k].succs < successThresholdFor(k)

(* An expiry is set exactly while a circuit is Open: no transition leaves  *)
(* a stale deadline behind for ForceOpen's comparison to pick up.          *)
DeadlineOnlyWhenOpen ==
    \A k \in DOMAIN circuits : (circuits[k].expiry # 0) <=> (circuits[k].state = "Open")

(* Shedding a circuit also forgets its backoff level, so a level is only   *)
(* ever held for a registered key and the tracker cannot outgrow the       *)
(* registry.                                                               *)
BackoffOnlyRegistered ==
    \A k \in Keys : levels[k] > 0 => k \in DOMAIN circuits

(* Counters, probe budget and levels agree with the circuits they belong   *)
(* to, over trips, recoveries and sweeps in any order.                     *)
CircuitCoherent == ClosedBelowThreshold /\ ProbeBudget /\ BackoffOnlyRegistered

(* "Deadlines only extend" (ForceOpen, applyModelLock): while an Open      *)
(* circuit's cooldown runs no call of any kind closes, probes, sheds or    *)
(* shortens it, and a model lock is never replaced by an earlier one,      *)
(* unless a sweep of a full registry finds its circuit idle.               *)
DeadlinesOnlyExtend ==
    [][/\ \A k \in DOMAIN circuits :
            circuits[k].state = "Open" /\ now < circuits[k].expiry =>
                /\ k \in DOMAIN circuits'
                /\ circuits'[k].state = "Open"
                /\ circuits'[k].expiry >= circuits[k].expiry
       /\ \A k \in Keys : modelLocks'[k] # 0 =>
            modelLocks'[k] >= modelLocks[k] \/ (atCapacity /\ k \in idle)]_vars

(* evictForCapacity never sheds a circuit that is Open or HalfOpen.        *)
TrippedNeverShed ==
    [][\A k \in DOMAIN circuits :
          circuits[k].state # "Closed" => k \in DOMAIN circuits']_vars

(* The registry grows past its cap only in the case the code calls         *)
(* pathological: every circuit it holds is Open or HalfOpen.               *)
GrowthIsSelfLimiting ==
    [][ Cardinality(DOMAIN circuits') > Cardinality(DOMAIN circuits) =>
          \/ Cardinality(DOMAIN circuits) < MaxCircuits
          \/ \A k \in DOMAIN circuits : circuits[k].state # "Closed"]_vars
=============================================================================
