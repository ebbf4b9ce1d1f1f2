------------------------------ MODULE Accounts ------------------------------
(***************************************************************************)
(* The account pool of one provider (internal/auth/pool.go, manager.go,    *)
(* errors.go) and the selection above it (internal/gateway/gateway.go):    *)
(* weighted rotation by virtual clocks, health gates, sticky selection,    *)
(* and the retry around accounts whose billing is exhausted.               *)
(*                                                                         *)
(* A clock is relative to the wall clock, in units of weightTick / Unit.   *)
(* A clock below the recency floor is kept at the floor: it is clamped     *)
(* there before it is ever compared.  A cooldown or a model lock is live   *)
(* until it runs out, whatever its length.                                 *)
(***************************************************************************)
EXTENDS Integers, FiniteSets

CONSTANTS
    N,               \* accounts 1..N, in configured order
    Weight,          \* account -> configured weight
    Unit,            \* units of a clock per weightTick
    Models,
    Disabled,        \* accounts whose status is disabled
    MaxBackoffLevel, \* maxBackoffLevel
    Sessions,        \* requests that select an account
    MaxBenches       \* bound: errors, locks and exhaustion marks

(* Weights are configured integers; a clock has a unit.                    *)
AccountsAssumption == N \in Nat /\ Unit \in Nat \ {0} /\ Weight \in [1..N -> Int]

VARIABLES
    clock,           \* account -> LastUsed, relative to now
    lastPicked,      \* account picked last, 0 before the first pick
    failed,          \* accounts whose status is error
    cooling,         \* accounts whose RateLimitedUntil is ahead
    level,           \* account -> BackoffLevel
    modelLock,       \* account and model -> "none", "live" or "expired"
    modelLevel,      \* account and model -> ModelBackoffLevels
    spent,           \* accounts the billing tracker holds exhausted
    selection,       \* per request: label, model, exclude set, pick
    passed,          \* account -> picks in a row it was available for and lost
    benches          \* errors, locks and exhaustion marks so far

avars == <<clock, lastPicked, failed, cooling, level, modelLock, modelLevel, spent, selection, passed, benches>>
gates == <<failed, cooling, level, modelLock, modelLevel>>

Bench == benches < MaxBenches /\ benches' = benches + 1

Ids == 1..N
Floor == 0 - Unit

effectiveWeight(a) == IF Weight[a] < 1 THEN 1 ELSE Weight[a]

(* The tick is floored at one unit (1ns).                                  *)
tick(a) == IF Unit \div effectiveWeight(a) = 0 THEN 1 ELSE Unit \div effectiveWeight(a)

clampVirtualClock(c) == IF c < Floor THEN Floor ELSE c

healthy(a, m) ==
    /\ a \notin Disabled /\ a \notin failed
    /\ a \notin cooling
    /\ modelLock[a][m] # "live"

(* availabilityMask *)
available(m, exclude) == {a \in Ids \ exclude : healthy(a, m)}

(* Position of an account in the scan that starts after the last pick.     *)
rotated(a) == IF lastPicked = 0 THEN a ELSE (a - lastPicked - 1 + N) % N

(* Mutant: the clocks are compared the wrong way round.                    *)
mostRecentlyUsed(S, a) == \A b \in S : clock[a] > clock[b] \/ (clock[a] = clock[b] /\ rotated(a) <= rotated(b))

(* The least recently used account of a set, the first one in the scan.    *)
leastRecentlyUsed(S, a) == \A b \in S : clock[a] < clock[b] \/ (clock[a] = clock[b] /\ rotated(a) <= rotated(b))

(* All clocks move back by what the least one of the available accounts is *)
(* ahead of the floor.                                                     *)
renormalizeVirtualClocks(c, minClock) ==
    LET shift == minClock - Floor
    IN  [a \in Ids |-> clampVirtualClock(c[a] - (IF shift > 0 THEN shift ELSE 0))]

(* SelectAccountExcluding, on a non-empty set of available accounts.       *)
Pick(S, a) ==
    LET advanced == [clock EXCEPT ![a] = @ + tick(a)] IN
    /\ leastRecentlyUsed(S, a)
    /\ lastPicked' = a
    /\ \E low \in S : /\ \A b \in S : advanced[low] <= advanced[b]
                      /\ clock' = renormalizeVirtualClocks(advanced, advanced[low])
    /\ passed' = [b \in Ids |-> IF b \in S \ {a} THEN passed[b] + 1 ELSE 0]

Select(r, v) == selection' = [selection EXCEPT ![r] = v]

(* selectAccountKey: the plain pick.  Without one the request falls back   *)
(* to the provider's single key.                                           *)
SelectAccount(r) ==
    /\ selection[r].at = "idle"
    /\ \E m \in Models :
       LET S == available(m, {}) IN
       IF S = {} THEN UNCHANGED <<selection, clock, lastPicked, passed>>
       ELSE \E a \in S : Pick(S, a) /\ Select(r, [at |-> "check", model |-> m, exclude |-> {}, pick |-> a])
    /\ UNCHANGED <<gates, spent, benches>>

(* skipExhaustedPick: the tracker is asked without the pool's lock, and    *)
(* the pick repeated with one more account excluded.                       *)
CheckPick(r) ==
    /\ selection[r].at = "check"
    /\ selection' = [selection EXCEPT ![r].at = IF selection[r].pick \in spent THEN "again" ELSE "idle"]
    /\ UNCHANGED <<gates, clock, lastPicked, passed, spent, benches>>

PickAgain(r) ==
    /\ selection[r].at = "again"
    /\ LET exclude == selection[r].exclude \cup {selection[r].pick}
           S == available(selection[r].model, exclude)
       IN  IF S = {} THEN /\ selection' = [selection EXCEPT ![r].at = "idle"]
                          /\ UNCHANGED <<clock, lastPicked, passed>>
           ELSE \E a \in S : /\ Pick(S, a)
                             /\ Select(r, [selection[r] EXCEPT !.at = "check", !.exclude = exclude, !.pick = a])
    /\ UNCHANGED <<gates, spent, benches>>

(* selectPreferredAccountKey and SelectAccountByID: a sticky session's     *)
(* account, its clock moved up to now.                                     *)
SelectPreferred(a) ==
    /\ a \notin spent
    /\ \E m \in Models : healthy(a, m)
    /\ clock' = [clock EXCEPT ![a] = IF @ < 0 THEN 0 ELSE @]
    /\ passed' = [passed EXCEPT ![a] = 0]
    /\ UNCHANGED <<gates, lastPicked, spent, selection, benches>>

(* ClassifyError: the error classes that bench.                            *)
Classes == {"rate_limit", "quota", "server", "auth"}

newLevel(class, n) ==
    IF class \notin {"rate_limit", "quota"} THEN n
    ELSE IF n + 1 > MaxBackoffLevel THEN MaxBackoffLevel ELSE n + 1

(* ApplyErrorForModel with an account-scoped signal.                       *)
ApplyError(a, class) ==
    /\ Bench
    /\ failed' = failed \cup {a}
    /\ cooling' = cooling \cup {a}
    /\ level' = [level EXCEPT ![a] = newLevel(class, @)]
    /\ UNCHANGED <<modelLock, modelLevel, clock, lastPicked, spent, selection, passed>>

(* applyModelScope: a 429 that names the model benches only the model.     *)
ApplyModelError(a, m) ==
    /\ Bench
    /\ modelLock' = [modelLock EXCEPT ![a][m] = "live"]
    /\ modelLevel' = [modelLevel EXCEPT ![a][m] = newLevel("rate_limit", @)]
    /\ UNCHANGED <<failed, cooling, level, clock, lastPicked, spent, selection, passed>>

ReportSuccess(a) ==
    /\ failed' = failed \ {a} /\ cooling' = cooling \ {a}
    /\ level' = [level EXCEPT ![a] = 0]
    /\ UNCHANGED <<modelLock, modelLevel, clock, lastPicked, spent, selection, passed, benches>>

(* LockModel *)
LockModel(a, m) ==
    /\ Bench
    /\ modelLock' = [modelLock EXCEPT ![a][m] = "live"]
    /\ UNCHANGED <<failed, cooling, level, modelLevel, clock, lastPicked, spent, selection, passed>>

(* The sweeper removes expired locks, with their backoff levels.           *)
CleanupExpiredLocks ==
    /\ modelLock' = [a \in Ids |-> [m \in Models |-> IF modelLock[a][m] = "expired" THEN "none" ELSE modelLock[a][m]]]
    /\ modelLevel' = [a \in Ids |-> [m \in Models |-> IF modelLock[a][m] = "expired" THEN 0 ELSE modelLevel[a][m]]]
    /\ UNCHANGED <<failed, cooling, level, clock, lastPicked, spent, selection, passed, benches>>

(* Time: the wall clock gains on every account's clock; a cooldown or a    *)
(* lock runs out.                                                          *)
ClockRuns ==
    /\ clock' = [a \in Ids |-> clampVirtualClock(clock[a] - 1)]
    /\ UNCHANGED <<gates, lastPicked, spent, selection, passed, benches>>

CooldownOver(a) ==
    /\ a \in cooling /\ cooling' = cooling \ {a}
    /\ UNCHANGED <<failed, level, modelLock, modelLevel, clock, lastPicked, spent, selection, passed, benches>>

LockOver(a, m) ==
    /\ modelLock[a][m] = "live" /\ modelLock' = [modelLock EXCEPT ![a][m] = "expired"]
    /\ UNCHANGED <<failed, cooling, level, modelLevel, clock, lastPicked, spent, selection, passed, benches>>

(* The billing tracker marks an account, or an operator resets it.         *)
Exhaust(a) == Bench /\ spent' = spent \cup {a} /\ UNCHANGED <<gates, clock, lastPicked, selection, passed>>
Reset(a) == spent' = spent \ {a} /\ UNCHANGED <<gates, clock, lastPicked, selection, passed, benches>>

AInit ==
    /\ clock = [a \in Ids |-> Floor] /\ lastPicked = 0
    /\ failed = {} /\ cooling = {} /\ level = [a \in Ids |-> 0]
    /\ modelLock = [a \in Ids |-> [m \in Models |-> "none"]]
    /\ modelLevel = [a \in Ids |-> [m \in Models |-> 0]]
    /\ spent = {}
    /\ selection = [r \in Sessions |-> [at |-> "idle", model |-> CHOOSE m \in Models : TRUE, exclude |-> {}, pick |-> 1]]
    /\ passed = [a \in Ids |-> 0]
    /\ benches = 0

ANext ==
    \/ \E r \in Sessions : SelectAccount(r) \/ CheckPick(r) \/ PickAgain(r)
    \/ \E a \in Ids :
         \/ SelectPreferred(a) \/ ReportSuccess(a) \/ CooldownOver(a) \/ Exhaust(a) \/ Reset(a)
         \/ \E class \in Classes : ApplyError(a, class)
         \/ \E m \in Models : ApplyModelError(a, m) \/ LockModel(a, m) \/ LockOver(a, m)
    \/ CleanupExpiredLocks \/ ClockRuns

ASpec == AInit /\ [][ANext]_avars

-----------------------------------------------------------------------------
(* The picks b may take while a waits: one at every clock from the floor   *)
(* up to now (numbered from 1), and one in a tie (0).                      *)
Turns(a) == {t \in (Ids \ {a}) \X (0..Unit) : t[2] = 0 \/ (t[2] - 1) * tick(t[1]) < Unit}

(* Rotation cannot be re-seated: whatever benches, exclusions, sticky      *)
(* picks and pauses happen, an account loses no more than a round of picks *)
(* it was available for before it is served, as many of each other account *)
(* as its weight and one (advanceVirtualClock, clampVirtualClock,          *)
(* renormalizeVirtualClocks and the rotated scan).                         *)
FairRotation == \A a \in Ids : passed[a] <= Cardinality(Turns(a))
=============================================================================
