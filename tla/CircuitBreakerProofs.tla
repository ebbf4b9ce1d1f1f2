------------------------ MODULE CircuitBreakerProofs ------------------------
(***************************************************************************)
(* Proofs about CircuitBreaker for every set of keys, every threshold,     *)
(* cap, cooldown and classifier.  The inductive invariant speaks about one *)
(* circuit at a time: each pure operator preserves WellFormed (lemmas      *)
(* Admit .. Force), getOrCreate produces it, and store spreads it over the *)
(* map.                                                                    *)
(***************************************************************************)
EXTENDS CircuitBreaker, FiniteSetTheorems, TLAPS

(* The per-circuit strengthening: the three circuit invariants of module   *)
(* CircuitBreaker for a single circuit c of key k, with its type.          *)
WellFormed(k, c) ==
    /\ c \in Circuit
    /\ c.state = "Closed" => c.fails < failureThresholdFor(k)
    /\ c.inflight <= HalfOpenMaxRequests
    /\ c.inflight > 0 => c.state = "HalfOpen"
    /\ c.state = "HalfOpen" => c.succs < successThresholdFor(k)
    /\ (c.expiry # 0) <=> (c.state = "Open")

IInv ==
    /\ TypeOK
    /\ \A k \in DOMAIN circuits : WellFormed(k, circuits[k])
    /\ BackoffOnlyRegistered

-----------------------------------------------------------------------------
(* Facts about the operators.                                              *)

(* The thresholds in force for a key are positive naturals.                *)
LEMMA ThresholdsPositive ==
    ASSUME NEW k \in Keys
    PROVE  /\ failureThresholdFor(k) \in Nat \ {0}
           /\ successThresholdFor(k) \in Nat \ {0}
BY ThresholdAssumption DEF failureThresholdFor, successThresholdFor

(* A transition resets everything but the LRU stamp.                       *)
LEMMA SetStateRecord ==
    ASSUME TypeOK, NEW c \in Circuit, NEW s \in States, c.state # s
    PROVE  setState(c, s) = [state |-> s,
                             expiry |-> IF s = "Open" THEN now + Cooldown ELSE 0,
                             fails |-> 0, succs |-> 0, inflight |-> 0,
                             lastUsed |-> c.lastUsed]
BY DEF setState, Circuit

(* setState yields a well-formed circuit in the state asked for.           *)
LEMMA SetStateWellFormed ==
    ASSUME TypeOK, NEW k \in Keys, NEW c, WellFormed(k, c), NEW s \in States
    PROVE  /\ WellFormed(k, setState(c, s))
           /\ setState(c, s).state = s
<1>1. CASE c.state = s
  BY <1>1 DEF setState
<1>2. CASE c.state # s /\ s = "Open"
  <2>1. setState(c, s) = [state |-> "Open", expiry |-> now + Cooldown, fails |-> 0,
                          succs |-> 0, inflight |-> 0, lastUsed |-> c.lastUsed]
    BY <1>2, SetStateRecord DEF WellFormed
  <2>2. now + Cooldown \in Nat \ {0}
    BY DurationAssumption DEF TypeOK
  <2>3. QED
    BY <1>2, <2>1, <2>2, LimitAssumption DEF WellFormed, Circuit, States
<1>3. CASE c.state # s /\ s # "Open"
  BY <1>3, SetStateRecord, ThresholdsPositive, LimitAssumption
     DEF WellFormed, Circuit, States
<1>4. QED
  BY <1>1, <1>2, <1>3

(* Opening a circuit until a positive deadline keeps it well formed.       *)
LEMMA OpenUntilWellFormed ==
    ASSUME TypeOK, NEW k \in Keys, NEW c, WellFormed(k, c), NEW t \in Nat \ {0}
    PROVE  WellFormed(k, openUntil(c, t))
BY SetStateWellFormed, ThresholdsPositive DEF WellFormed, openUntil, Circuit, States

(* Admitting a request never takes a probe slot beyond the budget.         *)
LEMMA AdmitWellFormed ==
    ASSUME TypeOK, NEW k \in Keys, NEW c, WellFormed(k, c)
    PROVE  WellFormed(k, admit(c))
<1>1. CASE c.state = "Closed" \/ ~permits(c)
  BY <1>1 DEF admit
<1>2. CASE c.state = "Open" /\ permits(c)
  <2> DEFINE h == setState(c, "HalfOpen")
  <2>1. h = [state |-> "HalfOpen", expiry |-> 0, fails |-> 0, succs |-> 0,
             inflight |-> 0, lastUsed |-> c.lastUsed]
    BY <1>2, SetStateRecord DEF WellFormed, States
  <2>2. admit(c) = [h EXCEPT !.inflight = @ + 1]
    BY <1>2 DEF admit
  <2>3. QED
    BY <2>1, <2>2, ThresholdsPositive, LimitAssumption DEF WellFormed, Circuit, States
<1>3. CASE c.state = "HalfOpen" /\ permits(c)
  BY <1>3, ThresholdsPositive, LimitAssumption
     DEF admit, permits, setState, WellFormed, Circuit, States
<1>4. QED
  BY <1>1, <1>2, <1>3 DEF WellFormed, Circuit, States

(* Giving a slot back leaves a well-formed circuit.                        *)
LEMMA ReleaseWellFormed ==
    ASSUME NEW k \in Keys, NEW c, WellFormed(k, c)
    PROVE  WellFormed(k, releaseSlot(c))
BY ThresholdsPositive, LimitAssumption DEF releaseSlot, WellFormed, Circuit, States

(* The failure that reaches the threshold opens the circuit.               *)
LEMMA FailWellFormed ==
    ASSUME TypeOK, NEW k \in Keys, NEW c, WellFormed(k, c), NEW cd \in Nat
    PROVE  /\ WellFormed(k, fail(k, c, cd))
           /\ WellFormed(k, failWithStatus(k, c, cd))
<1>0. now + cd \in Nat \ {0}
  BY DEF TypeOK
<1>1. /\ WellFormed(k, openUntil(c, now + cd))
      /\ WellFormed(k, setState(c, "Open"))
  BY <1>0, OpenUntilWellFormed, SetStateWellFormed DEF States
<1>2. CASE c.state = "Closed"
  BY <1>1, <1>2, ThresholdsPositive DEF fail, failWithStatus, WellFormed, Circuit, States
<1>3. CASE c.state = "HalfOpen"
  BY <1>1, <1>3 DEF fail, failWithStatus
<1>4. CASE c.state = "Open"
  BY <1>0, <1>4, ThresholdsPositive
     DEF fail, failWithStatus, WellFormed, Circuit, States, Later
<1>5. QED
  BY <1>2, <1>3, <1>4 DEF WellFormed, Circuit, States

(* A success closes the circuit exactly when it reaches the threshold.     *)
LEMMA SucceedWellFormed ==
    ASSUME TypeOK, NEW k \in Keys, NEW c, WellFormed(k, c)
    PROVE  WellFormed(k, succeed(k, c))
<1>1. CASE c.state = "Closed"
  BY <1>1, ThresholdsPositive DEF succeed, recovers, WellFormed, Circuit, States
<1>2. CASE recovers(k, c)
  BY <1>2, SetStateWellFormed DEF succeed, recovers, States
<1>3. CASE c.state = "HalfOpen" /\ ~recovers(k, c)
  <2> DEFINE r == releaseSlot(c)
  <2>1. WellFormed(k, r) /\ r.state = "HalfOpen" /\ r.succs = c.succs
    BY <1>3, ReleaseWellFormed DEF releaseSlot, WellFormed, Circuit
  <2>2. succeed(k, c) = [r EXCEPT !.succs = @ + 1]
    BY <1>3 DEF succeed
  <2>3. c.succs + 1 < successThresholdFor(k)
    BY <1>3, ThresholdsPositive DEF recovers, WellFormed, Circuit
  <2> HIDE DEF r
  <2>4. QED
    BY <2>1, <2>2, <2>3, ThresholdsPositive DEF WellFormed, Circuit, States
<1>4. CASE c.state = "Open"
  BY <1>4 DEF succeed, recovers
<1>5. QED
  BY <1>1, <1>2, <1>3, <1>4 DEF WellFormed, Circuit, States

(* ForceOpen leaves an Open circuit with a deadline in the future.         *)
LEMMA ForceWellFormed ==
    ASSUME TypeOK, NEW k \in Keys, NEW c, WellFormed(k, c), NEW cd \in Nat
    PROVE  WellFormed(k, force(c, cd))
BY OpenUntilWellFormed, SetStateWellFormed DEF force, TypeOK, States

-----------------------------------------------------------------------------
(* While c's cooldown runs, its replacement d stays Open at least as long. *)
KeepsDeadline(c, d) ==
    c.state = "Open" /\ now < c.expiry => d.state = "Open" /\ d.expiry >= c.expiry

(* No method shortens a running cooldown, probes or closes before its end. *)
LEMMA OperatorsKeepDeadline ==
    ASSUME TypeOK, NEW k \in Keys, NEW c, WellFormed(k, c), NEW cd \in Nat
    PROVE  /\ KeepsDeadline(c, c)
           /\ KeepsDeadline(c, admit(c))
           /\ KeepsDeadline(c, releaseSlot(c))
           /\ KeepsDeadline(c, succeed(k, c))
           /\ KeepsDeadline(c, fail(k, c, cd))
           /\ KeepsDeadline(c, failWithStatus(k, c, cd))
           /\ KeepsDeadline(c, force(c, cd))
<1> SUFFICES ASSUME c.state = "Open", now < c.expiry
             PROVE  \A d \in {c, admit(c), releaseSlot(c), succeed(k, c), fail(k, c, cd),
                               failWithStatus(k, c, cd), force(c, cd)} :
                        d.state = "Open" /\ d.expiry >= c.expiry
  BY DEF KeepsDeadline
<1>0. c \in Circuit /\ now \in Nat
  BY DEF TypeOK, WellFormed
<1>1. admit(c) = c /\ releaseSlot(c) = c /\ succeed(k, c) = c
  BY <1>0 DEF admit, permits, releaseSlot, succeed, Circuit
<1>2. /\ fail(k, c, cd) = [c EXCEPT !.expiry = Later(@, now + cd)]
      /\ failWithStatus(k, c, cd) = [c EXCEPT !.expiry = Later(@, now + cd)]
  BY DEF fail, failWithStatus
<1>3. /\ setState(c, "Open") = c
      /\ force(c, cd) = IF c.expiry > now + cd THEN c ELSE [c EXCEPT !.expiry = now + cd]
  BY <1>0 DEF force, openUntil, setState
<1>4. QED
  BY <1>0, <1>1, <1>2, <1>3 DEF Later, Circuit

(* A sweep only ever sheds registered Closed circuits.                     *)
LEMMA ShedIsClosed ==
    ASSUME NEW shed \in evictForCapacity
    PROVE  shed \subseteq DOMAIN circuits /\ \A k \in shed : circuits[k].state = "Closed"
BY DEF evictForCapacity, idle, sheddable, leastRecentlyUsed

(* What getOrCreate returns is well formed and as Open as what was stored. *)
LEMMA GetOrCreateWellFormed ==
    ASSUME IInv, NEW key \in Keys, NEW shed \in evictForCapacity
    PROVE  /\ WellFormed(key, getOrCreate(key, shed))
           /\ key \in DOMAIN circuits =>
                 KeepsDeadline(circuits[key], getOrCreate(key, shed))
<1>1. CASE key \in DOMAIN circuits \ shed
  <2>1. WellFormed(key, circuits[key]) /\ now \in Nat
    BY <1>1 DEF IInv, TypeOK
  <2>2. getOrCreate(key, shed) = [circuits[key] EXCEPT !.lastUsed = now]
    BY <1>1 DEF getOrCreate
  <2>3. QED
    BY <2>1, <2>2 DEF WellFormed, Circuit, States, KeepsDeadline
<1>2. CASE key \notin DOMAIN circuits \ shed
  <2>1. getOrCreate(key, shed) = newCircuit
    BY <1>2 DEF getOrCreate
  <2>2. WellFormed(key, newCircuit)
    BY ThresholdsPositive, LimitAssumption
       DEF IInv, TypeOK, newCircuit, WellFormed, Circuit, States
  <2>3. key \in DOMAIN circuits => circuits[key].state = "Closed"
    BY <1>2, ShedIsClosed
  <2>4. QED
    BY <2>1, <2>2, <2>3 DEF KeepsDeadline
<1>3. QED
  BY <1>1, <1>2

-----------------------------------------------------------------------------
(* The parts of the action properties that concern the circuit map.        *)

CircuitDeadlines ==
    \A k \in DOMAIN circuits :
        circuits[k].state = "Open" /\ now < circuits[k].expiry =>
            /\ k \in DOMAIN circuits'
            /\ circuits'[k].state = "Open"
            /\ circuits'[k].expiry >= circuits[k].expiry

Kept == \A k \in DOMAIN circuits :
            circuits[k].state # "Closed" => k \in DOMAIN circuits'

Growth == Cardinality(DOMAIN circuits') > Cardinality(DOMAIN circuits) =>
              \/ Cardinality(DOMAIN circuits) < MaxCircuits
              \/ \A k \in DOMAIN circuits : circuits[k].state # "Closed"

(* What a method that goes through getOrCreate does to the map, given that *)
(* its circuit operator is well behaved.                                   *)
LEMMA StoreStep ==
    ASSUME IInv, NEW key \in Keys, NEW shed \in evictForCapacity,
           NEW c, WellFormed(key, c),
           KeepsDeadline(getOrCreate(key, shed), c),
           circuits' = store(key, shed, c)
    PROVE  /\ DOMAIN circuits' = (DOMAIN circuits \ shed) \cup {key}
           /\ DOMAIN circuits' \subseteq Keys
           /\ circuits' \in [DOMAIN circuits' -> Circuit]
           /\ \A k \in DOMAIN circuits' : WellFormed(k, circuits'[k])
           /\ CircuitDeadlines /\ Kept /\ Growth
<1>1. DOMAIN circuits' = (DOMAIN circuits \ shed) \cup {key}
  BY DEF store
<1>2. /\ circuits'[key] = c
      /\ \A k \in (DOMAIN circuits \ shed) \ {key} : circuits'[k] = circuits[k]
  BY DEF store
<1>3. DOMAIN circuits' \subseteq Keys
  BY <1>1 DEF IInv, TypeOK
<1>4. \A k \in DOMAIN circuits' : WellFormed(k, circuits'[k])
  BY <1>1, <1>2 DEF IInv
<1>5. circuits' \in [DOMAIN circuits' -> Circuit]
  <2>1. \A k \in DOMAIN circuits' : circuits'[k] \in Circuit
    BY <1>4 DEF WellFormed
  <2>2. circuits' = [k \in DOMAIN circuits' |-> circuits'[k]]
    BY <1>1, <1>2 DEF store
  <2>3. QED
    BY <2>1, <2>2
<1>6. CircuitDeadlines
  <2> SUFFICES ASSUME NEW k \in DOMAIN circuits, circuits[k].state = "Open",
                      now < circuits[k].expiry
               PROVE  /\ k \in DOMAIN circuits'
                      /\ circuits'[k].state = "Open"
                      /\ circuits'[k].expiry >= circuits[k].expiry
    BY DEF CircuitDeadlines
  <2>1. k \in DOMAIN circuits \ shed /\ k \in DOMAIN circuits'
    BY <1>1, ShedIsClosed
  <2>2. WellFormed(k, circuits[k]) /\ now \in Nat
    BY DEF IInv, TypeOK
  <2>3. CASE k # key
    BY <1>2, <2>1, <2>2, <2>3 DEF WellFormed, Circuit
  <2>4. CASE k = key
    <3>1. getOrCreate(key, shed) = [circuits[key] EXCEPT !.lastUsed = now]
      BY <2>1, <2>4 DEF getOrCreate
    <3>2. /\ getOrCreate(key, shed).state = "Open"
          /\ getOrCreate(key, shed).expiry = circuits[key].expiry
      BY <2>2, <2>4, <3>1 DEF WellFormed, Circuit
    <3>3. QED
      BY <1>2, <2>1, <2>4, <3>2 DEF KeepsDeadline
  <2>5. QED
    BY <2>3, <2>4
<1>7. Kept
  BY <1>1, ShedIsClosed DEF Kept
<1>8. Growth
  <2> SUFFICES ASSUME Cardinality(DOMAIN circuits') > Cardinality(DOMAIN circuits),
                      Cardinality(DOMAIN circuits) >= MaxCircuits
               PROVE  \A k \in DOMAIN circuits : circuits[k].state # "Closed"
    <3>1. Cardinality(DOMAIN circuits) \in Nat
      BY FS_Subset, FS_CardinalityType, LimitAssumption DEF IInv, TypeOK
    <3>2. QED
      BY <3>1, LimitAssumption DEF Growth
  <2>1. IsFiniteSet(DOMAIN circuits) /\ shed \subseteq DOMAIN circuits
    BY FS_Subset, LimitAssumption, ShedIsClosed DEF IInv, TypeOK
  <2>2. shed = {}
    <3> SUFFICES ASSUME shed # {}
                 PROVE  Cardinality(DOMAIN circuits') <= Cardinality(DOMAIN circuits)
      <4>1. /\ IsFiniteSet(DOMAIN circuits')
            /\ Cardinality(DOMAIN circuits') \in Nat
            /\ Cardinality(DOMAIN circuits) \in Nat
        BY <1>3, <2>1, FS_Subset, FS_CardinalityType, LimitAssumption
      <4>2. QED
        BY <4>1
    <3>1. PICK x \in shed : TRUE
      OBVIOUS
    <3>2. /\ IsFiniteSet(DOMAIN circuits \ {x})
          /\ Cardinality(DOMAIN circuits \ {x}) = Cardinality(DOMAIN circuits) - 1
      BY <2>1, <3>1, FS_RemoveElement
    <3>3. /\ IsFiniteSet((DOMAIN circuits \ {x}) \cup {key})
          /\ Cardinality((DOMAIN circuits \ {x}) \cup {key})
                <= Cardinality(DOMAIN circuits \ {x}) + 1
      <4> DEFINE S == DOMAIN circuits \ {x}
      <4>1. IsFiniteSet(S) /\ Cardinality(S) \in Nat
        BY <3>2, FS_CardinalityType
      <4> HIDE DEF S
      <4>2. IsFiniteSet(S \cup {key}) /\ Cardinality(S \cup {key}) <= Cardinality(S) + 1
        <5>1. /\ IsFiniteSet(S \cup {key})
              /\ Cardinality(S \cup {key}) = IF key \in S THEN Cardinality(S)
                                             ELSE Cardinality(S) + 1
          BY <4>1, FS_AddElement, Zenon
        <5>2. QED
          BY <4>1, <5>1
      <4>3. QED
        BY <4>2 DEF S
    <3>4. DOMAIN circuits' \subseteq (DOMAIN circuits \ {x}) \cup {key}
      BY <1>1, <3>1
    <3>5. /\ Cardinality(DOMAIN circuits') <= Cardinality((DOMAIN circuits \ {x}) \cup {key})
          /\ Cardinality(DOMAIN circuits') \in Nat
      BY <3>3, <3>4, FS_Subset, FS_CardinalityType
    <3>6. /\ Cardinality(DOMAIN circuits) \in Nat
          /\ Cardinality((DOMAIN circuits \ {x}) \cup {key}) \in Nat
      BY <2>1, <3>3, FS_CardinalityType
    <3>7. QED
      BY <3>2, <3>3, <3>5, <3>6
  <2>3. idle = {} /\ sheddable \ idle = {}
    <3>1. atCapacity
      BY DEF atCapacity
    <3>2. CASE sheddable \ idle = {}
      BY <2>2, <3>1, <3>2 DEF evictForCapacity
    <3>3. CASE sheddable \ idle # {}
      <4>1. Cardinality(DOMAIN circuits \ idle) < MaxCircuits => shed = idle
        BY <3>1 DEF evictForCapacity
      <4>2. ~ (Cardinality(DOMAIN circuits \ idle) < MaxCircuits)
              => shed # {}
        BY <3>1, <3>3 DEF evictForCapacity
      <4>3. DOMAIN circuits \ {} = DOMAIN circuits
        OBVIOUS
      <4>4. Cardinality(DOMAIN circuits) \in Nat
        BY <2>1, FS_CardinalityType
      <4>5. QED
        BY <2>2, <4>1, <4>2, <4>3, <4>4, LimitAssumption
    <3>4. QED
      BY <3>2, <3>3
  <2>4. \A k \in DOMAIN circuits : circuits[k].state = "Closed" => k \in sheddable
    <3> SUFFICES ASSUME NEW k \in DOMAIN circuits, circuits[k].state = "Closed"
                 PROVE  circuits[k].inflight = 0
      BY DEF sheddable
    <3>1. WellFormed(k, circuits[k])
      BY DEF IInv
    <3>2. QED
      BY <3>1 DEF WellFormed, Circuit
  <2>5. QED
    BY <2>3, <2>4
<1>9. QED
  BY <1>1, <1>3, <1>4, <1>5, <1>6, <1>7, <1>8

-----------------------------------------------------------------------------
(* Locks and backoff levels.                                               *)

LockDeadlines == \A k \in Keys : modelLocks'[k] # 0 =>
                    modelLocks'[k] >= modelLocks[k] \/ (atCapacity /\ k \in idle)

(* A sweep deletes lock and backoff entries and changes no other.          *)
LEMMA SweepShrinks ==
    ASSUME IInv, NEW shed \in evictForCapacity
    PROVE  /\ pruneExpiredLocks \in [Keys -> Nat]
           /\ \A k \in Keys : pruneExpiredLocks[k] # 0 => pruneExpiredLocks[k] = modelLocks[k]
           /\ resetLevels(shed) \in [Keys -> 0..MaxBackoffLevel]
           /\ \A k \in Keys : resetLevels(shed)[k] > 0 => k \in DOMAIN circuits \ shed
<1>1. /\ modelLocks \in [Keys -> Nat]
      /\ levels \in [Keys -> 0..MaxBackoffLevel]
      /\ MaxBackoffLevel \in Nat
  BY LimitAssumption DEF IInv, TypeOK
<1>2. /\ pruneExpiredLocks \in [Keys -> Nat]
      /\ \A k \in Keys : pruneExpiredLocks[k] # 0 => pruneExpiredLocks[k] = modelLocks[k]
  BY <1>1 DEF pruneExpiredLocks
<1>3. /\ resetLevels(shed) \in [Keys -> 0..MaxBackoffLevel]
      /\ \A k \in Keys : resetLevels(shed)[k] > 0 => k \in DOMAIN circuits \ shed
  BY <1>1 DEF resetLevels, IInv, BackoffOnlyRegistered
<1>4. QED
  BY <1>2, <1>3

(* Everything a step must respect.                                         *)
SafeStep == IInv' /\ CircuitDeadlines /\ Kept /\ Growth /\ LockDeadlines

(* A method is safe when its circuit operator is, its lock entries only    *)
(* move later and its backoff entries belong to registered keys.           *)
LEMMA TouchSafe ==
    ASSUME IInv, NEW key \in Keys, NEW shed \in evictForCapacity,
           NEW c, WellFormed(key, c),
           KeepsDeadline(getOrCreate(key, shed), c),
           circuits' = store(key, shed, c),
           now' = now,
           modelLocks' \in [Keys -> Nat], LockDeadlines,
           levels' \in [Keys -> 0..MaxBackoffLevel],
           \A k \in Keys : levels'[k] > 0 => k \in (DOMAIN circuits \ shed) \cup {key}
    PROVE  SafeStep
<1>1. /\ DOMAIN circuits' = (DOMAIN circuits \ shed) \cup {key}
      /\ DOMAIN circuits' \subseteq Keys
      /\ circuits' \in [DOMAIN circuits' -> Circuit]
      /\ \A k \in DOMAIN circuits' : WellFormed(k, circuits'[k])
      /\ CircuitDeadlines /\ Kept /\ Growth
  BY StoreStep
<1>2. TypeOK'
  BY <1>1 DEF IInv, TypeOK
<1>3. BackoffOnlyRegistered'
  BY <1>1 DEF BackoffOnlyRegistered
<1>4. IInv'
  BY <1>1, <1>2, <1>3 DEF IInv
<1>5. QED
  BY <1>1, <1>4 DEF SafeStep

(* The same for the methods that leave locks and levels to the sweep.      *)
LEMMA SweptSafe ==
    ASSUME IInv, NEW key \in Keys, NEW shed \in evictForCapacity,
           NEW c, WellFormed(key, c),
           KeepsDeadline(getOrCreate(key, shed), c),
           circuits' = store(key, shed, c),
           Swept(shed)
    PROVE  SafeStep
<1>1. /\ modelLocks' \in [Keys -> Nat]
      /\ \A k \in Keys : modelLocks'[k] # 0 => modelLocks'[k] = modelLocks[k]
      /\ levels' \in [Keys -> 0..MaxBackoffLevel]
      /\ \A k \in Keys : levels'[k] > 0 => k \in DOMAIN circuits \ shed
      /\ now' = now
  BY SweepShrinks DEF Swept
<1>2. LockDeadlines
  <2>1. modelLocks \in [Keys -> Nat]
    BY DEF IInv, TypeOK
  <2>2. QED
    BY <1>1, <2>1 DEF LockDeadlines
<1>3. QED
  BY <1>1, <1>2, TouchSafe

(* UnlockModel, the clock and stuttering leave the circuit map alone.      *)
LEMMA SameMapSafe ==
    ASSUME IInv, circuits' = circuits, now' \in Nat \ {0},
           modelLocks' \in [Keys -> Nat], LockDeadlines,
           levels' \in [Keys -> 0..MaxBackoffLevel],
           \A k \in Keys : levels'[k] > 0 => levels[k] > 0
    PROVE  SafeStep
<1>1. IInv'
  BY DEF IInv, TypeOK, BackoffOnlyRegistered
<1>2. \A k \in DOMAIN circuits : circuits[k].expiry \in Nat
  BY DEF IInv, WellFormed, Circuit
<1>3. Cardinality(DOMAIN circuits) \in Nat
  BY FS_CardinalityType, FS_Subset, LimitAssumption DEF IInv, TypeOK
<1>4. QED
  BY <1>1, <1>2, <1>3 DEF SafeStep, CircuitDeadlines, Kept, Growth

(* ReleaseHalfOpen changes no circuit's state or deadline.                 *)
LEMMA ReleaseSafe ==
    ASSUME IInv, NEW key \in Keys, ReleaseHalfOpen(key)
    PROVE  SafeStep
<1>0. now \in Nat /\ modelLocks \in [Keys -> Nat]
  BY DEF IInv, TypeOK
<1>1. CASE key \notin DOMAIN circuits
  <2>1. UNCHANGED vars
    BY <1>1 DEF ReleaseHalfOpen, vars
  <2>2. LockDeadlines
    BY <1>0, <2>1 DEF LockDeadlines, vars
  <2>3. QED
    BY <2>1, <2>2, SameMapSafe DEF IInv, TypeOK, vars
<1>2. CASE key \in DOMAIN circuits
  <2>1. /\ DOMAIN circuits' = DOMAIN circuits
        /\ circuits'[key] = releaseSlot(circuits[key])
        /\ \A k \in DOMAIN circuits \ {key} : circuits'[k] = circuits[k]
        /\ circuits' = [k \in DOMAIN circuits |-> circuits'[k]]
        /\ UNCHANGED <<now, modelLocks, levels>>
    BY <1>2 DEF ReleaseHalfOpen
  <2>2. \A k \in DOMAIN circuits : WellFormed(k, circuits'[k])
    BY <1>2, <2>1, ReleaseWellFormed DEF IInv
  <2>3. IInv'
    <3>1. \A k \in DOMAIN circuits : circuits'[k] \in Circuit
      BY <2>2 DEF WellFormed
    <3>2. circuits' \in [DOMAIN circuits' -> Circuit]
      BY <2>1, <3>1
    <3>3. QED
      BY <2>1, <2>2, <3>2 DEF IInv, TypeOK, BackoffOnlyRegistered
  <2>4. CircuitDeadlines
    <3>1. \A k \in DOMAIN circuits : circuits[k].expiry \in Nat
      BY DEF IInv, WellFormed, Circuit
    <3>2. KeepsDeadline(circuits[key], circuits'[key])
      BY <1>2, <2>1, OperatorsKeepDeadline DEF IInv
    <3>3. QED
      BY <1>0, <2>1, <3>1, <3>2 DEF CircuitDeadlines, KeepsDeadline
  <2>5. Kept /\ LockDeadlines
    BY <1>0, <2>1 DEF Kept, LockDeadlines
  <2>6. Growth
    <3>1. Cardinality(DOMAIN circuits) \in Nat
      BY FS_CardinalityType, FS_Subset, LimitAssumption DEF IInv, TypeOK
    <3>2. QED
      BY <2>1, <3>1 DEF Growth
  <2>7. QED
    BY <2>3, <2>4, <2>5, <2>6 DEF SafeStep
<1>3. QED
  BY <1>1, <1>2

-----------------------------------------------------------------------------
(* A failure is a safe step, whatever the caller's cooldown ...            *)
LEMMA RecordFailureSafe ==
    ASSUME IInv, NEW key \in Keys, NEW o \in Nat, RecordFailure(key, o)
    PROVE  SafeStep
<1> DEFINE c(shed) == getOrCreate(key, shed)
<1>z. TypeOK /\ modelLocks \in [Keys -> Nat] /\ now \in Nat /\ Cooldown \in Nat
  BY DurationAssumption DEF IInv, TypeOK
<1>w. ASSUME NEW shed \in evictForCapacity, NEW cd \in Nat
      PROVE  WellFormed(key, fail(key, c(shed), cd))
  BY <1>z, GetOrCreateWellFormed, FailWellFormed
<1>d. ASSUME NEW shed \in evictForCapacity, NEW cd \in Nat
      PROVE  KeepsDeadline(c(shed), fail(key, c(shed), cd))
  BY <1>z, GetOrCreateWellFormed, OperatorsKeepDeadline
<1> DEFINE cd == IF o > 0 THEN o ELSE Cooldown
<1>1. cd \in Nat
  BY <1>z
<1>2. PICK shed \in evictForCapacity :
          /\ circuits' = store(key, shed, fail(key, c(shed), cd))
          /\ Swept(shed)
  BY DEF RecordFailure
<1> HIDE DEF cd
<1>3. QED
  BY <1>1, <1>2, <1>w, <1>d, SweptSafe

(* ... and whatever decision the classifier draws from the reply.          *)
LEMMA RecordFailureWithStatusSafe ==
    ASSUME IInv, NEW key \in Keys, NEW reply, RecordFailureWithStatus(key, reply),
           \A level \in 0..MaxBackoffLevel : Classifier(reply, level) \subseteq Decision
    PROVE  SafeStep
<1> DEFINE c(shed) == getOrCreate(key, shed)
<1>z. TypeOK /\ modelLocks \in [Keys -> Nat] /\ now \in Nat /\ Cooldown \in Nat
  BY DurationAssumption DEF IInv, TypeOK
<1>w. ASSUME NEW shed \in evictForCapacity, NEW cd \in Nat
      PROVE  WellFormed(key, failWithStatus(key, c(shed), cd))
  BY <1>z, GetOrCreateWellFormed, FailWellFormed
<1>d. ASSUME NEW shed \in evictForCapacity, NEW cd \in Nat
      PROVE  KeepsDeadline(c(shed), failWithStatus(key, c(shed), cd))
  BY <1>z, GetOrCreateWellFormed, OperatorsKeepDeadline
<1>0. PICK shed \in evictForCapacity :
          \E d \in Classifier(reply, resetLevels(shed)[key]) :
              /\ circuits' = store(key, shed,
                                   failWithStatus(key, c(shed), applyQuotaFloor(d)))
              /\ applyModelLock(key, d, shed)
              /\ now' = now
  BY DEF RecordFailureWithStatus
<1>1. PICK d \in Classifier(reply, resetLevels(shed)[key]) :
          /\ circuits' = store(key, shed,
                               failWithStatus(key, c(shed), applyQuotaFloor(d)))
          /\ applyModelLock(key, d, shed)
          /\ now' = now
  BY <1>0
<1>2. /\ pruneExpiredLocks \in [Keys -> Nat]
      /\ \A k \in Keys : pruneExpiredLocks[k] # 0 => pruneExpiredLocks[k] = modelLocks[k]
      /\ resetLevels(shed) \in [Keys -> 0..MaxBackoffLevel]
      /\ \A k \in Keys : resetLevels(shed)[k] > 0 => k \in DOMAIN circuits \ shed
  BY SweepShrinks
<1>3. applyQuotaFloor(d) \in Nat
  <2>1. resetLevels(shed)[key] \in 0..MaxBackoffLevel
    BY <1>2
  <2>2. d \in Decision
    BY <2>1
  <2>3. QED
    BY <2>2, DurationAssumption DEF applyQuotaFloor, Later, Decision
<1>4. modelLocks' \in [Keys -> Nat] /\ LockDeadlines
  <2>1. \A k \in Keys : pruneExpiredLocks[k] \in Nat /\ modelLocks[k] \in Nat
    BY <1>z, <1>2
  <2>2. CASE d.lock
    <3> DEFINE until == Later(pruneExpiredLocks[key], now + applyQuotaFloor(d))
    <3>1. /\ until \in Nat
          /\ until >= pruneExpiredLocks[key]
          /\ until >= now + applyQuotaFloor(d)
      BY <1>z, <1>3, <2>1 DEF Later
    <3>2. modelLocks' = [pruneExpiredLocks EXCEPT ![key] = until]
      BY <1>1, <2>2 DEF applyModelLock
    <3>3. until >= modelLocks[key] \/ (atCapacity /\ key \in idle)
      <4>1. CASE pruneExpiredLocks[key] # 0
        BY <1>2, <2>1, <3>1, <4>1
      <4>2. CASE pruneExpiredLocks[key] = 0
        <5>1. \/ modelLocks[key] = 0
              \/ atCapacity /\ key \in idle
              \/ now > modelLocks[key]
          BY <4>2 DEF pruneExpiredLocks
        <5>2. QED
          BY <1>z, <1>3, <2>1, <3>1, <5>1
      <4>3. QED
        BY <4>1, <4>2
    <3>4. QED
      BY <1>2, <2>1, <3>1, <3>2, <3>3 DEF LockDeadlines
  <2>3. CASE ~d.lock
    BY <1>1, <1>2, <2>1, <2>3 DEF applyModelLock, LockDeadlines
  <2>4. QED
    BY <2>2, <2>3
<1>5. /\ levels' \in [Keys -> 0..MaxBackoffLevel]
      /\ \A k \in Keys : levels'[k] > 0 => k \in (DOMAIN circuits \ shed) \cup {key}
  <2>1. \/ levels' = resetLevels(shed)
        \/ /\ resetLevels(shed)[key] < MaxBackoffLevel
           /\ levels' = [resetLevels(shed) EXCEPT ![key] = @ + 1]
    BY <1>1 DEF applyModelLock
  <2>2. QED
    BY <1>2, <2>1, LimitAssumption
<1>6. QED
  BY <1>1, <1>3, <1>4, <1>5, <1>w, <1>d, TouchSafe

(* Every call is a safe step.                                              *)
LEMMA CallSafe ==
    ASSUME IInv, NEW key \in Keys, Call(key)
    PROVE  SafeStep
<1>0. /\ TypeOK /\ modelLocks \in [Keys -> Nat] /\ now \in Nat
      /\ Cooldown \in Nat /\ CooldownOverrides \subseteq Nat
  BY DurationAssumption DEF IInv, TypeOK
<1> DEFINE c(shed) == getOrCreate(key, shed)
<1>W. ASSUME NEW shed \in evictForCapacity, NEW cd \in Nat
      PROVE  /\ WellFormed(key, c(shed))
             /\ WellFormed(key, admit(c(shed)))
             /\ WellFormed(key, releaseSlot(c(shed)))
             /\ WellFormed(key, succeed(key, c(shed)))
             /\ WellFormed(key, force(c(shed), cd))
  BY <1>0, GetOrCreateWellFormed, AdmitWellFormed, ReleaseWellFormed,
     SucceedWellFormed, ForceWellFormed
<1>D. ASSUME NEW shed \in evictForCapacity, NEW cd \in Nat
      PROVE  /\ KeepsDeadline(c(shed), c(shed))
             /\ KeepsDeadline(c(shed), admit(c(shed)))
             /\ KeepsDeadline(c(shed), releaseSlot(c(shed)))
             /\ KeepsDeadline(c(shed), succeed(key, c(shed)))
             /\ KeepsDeadline(c(shed), force(c(shed), cd))
  BY <1>0, <1>W, OperatorsKeepDeadline
<1>1. CASE Allow(key)
  BY <1>0, <1>1, <1>W, <1>D, SweptSafe DEF Allow
<1>2. ASSUME NEW o \in CooldownOverrides, RecordFailure(key, o)
      PROVE  SafeStep
  BY <1>0, <1>2, RecordFailureSafe
<1>3. CASE RecordOpaqueFailure(key)
  BY <1>0, <1>3, <1>W, <1>D, SweptSafe DEF RecordOpaqueFailure
<1>4. ASSUME NEW reply \in Replies, RecordFailureWithStatus(key, reply)
      PROVE  SafeStep
  BY <1>4, ClassifierAssumption, RecordFailureWithStatusSafe
<1>5. ASSUME NEW model \in Keys, RecordSuccessWithModel(key, model)
      PROVE  SafeStep
  <2>1. PICK shed \in evictForCapacity :
            /\ circuits' = store(key, shed, succeed(key, c(shed)))
            /\ now' = now
            /\ \/ modelLocks' = pruneExpiredLocks
               \/ modelLocks' = [pruneExpiredLocks EXCEPT ![model] = 0]
            /\ \/ levels' = resetLevels(shed)
               \/ levels' = [resetLevels(shed) EXCEPT ![model] = 0]
    BY <1>5 DEF RecordSuccessWithModel
  <2>2. modelLocks' \in [Keys -> Nat] /\ LockDeadlines
    BY <1>0, <2>1, SweepShrinks DEF LockDeadlines
  <2>3. /\ levels' \in [Keys -> 0..MaxBackoffLevel]
        /\ \A k \in Keys : levels'[k] > 0 => k \in (DOMAIN circuits \ shed) \cup {key}
    BY <2>1, SweepShrinks, LimitAssumption
  <2>4. QED
    BY <1>0, <2>1, <2>2, <2>3, <1>W, <1>D, TouchSafe
<1>6. CASE RecordSuccess(key)
  BY <1>5, <1>6 DEF RecordSuccess
<1>7. CASE ReleaseHalfOpen(key)
  BY <1>7, ReleaseSafe
<1>8. ASSUME NEW cd \in CooldownOverrides, ForceOpen(key, cd)
      PROVE  SafeStep
  BY <1>0, <1>8, <1>W, <1>D, SweptSafe DEF ForceOpen
<1>9. CASE Peek(key)
  BY <1>0, <1>9, <1>W, <1>D, SweptSafe DEF Peek
<1>10. CASE UnlockModel(key)
  <2>1. LockDeadlines /\ modelLocks' \in [Keys -> Nat]
    BY <1>0, <1>10 DEF UnlockModel, LockDeadlines
  <2>2. /\ levels' \in [Keys -> 0..MaxBackoffLevel]
        /\ \A k \in Keys : levels'[k] > 0 => levels[k] > 0
    BY <1>0, <1>10, LimitAssumption DEF UnlockModel, TypeOK
  <2>3. QED
    BY <1>10, <2>1, <2>2, SameMapSafe DEF UnlockModel, IInv, TypeOK
<1>11. QED
  BY <1>1, <1>2, <1>3, <1>4, <1>5, <1>6, <1>7, <1>8, <1>9, <1>10 DEF Call

(* The clock, every call and stuttering are safe steps.                    *)
LEMMA NextSafe ==
    ASSUME IInv, [Next]_vars
    PROVE  SafeStep
<1>0. /\ now \in Nat \ {0}
      /\ modelLocks \in [Keys -> Nat]
      /\ levels \in [Keys -> 0..MaxBackoffLevel]
  BY DEF IInv, TypeOK
<1>1. CASE Tick \/ UNCHANGED vars
  <2>1. now' \in Nat \ {0} /\ UNCHANGED <<circuits, modelLocks, levels>>
    BY <1>0, <1>1 DEF Tick, vars
  <2>2. LockDeadlines
    BY <1>0, <2>1 DEF LockDeadlines
  <2>3. QED
    BY <1>0, <2>1, <2>2, SameMapSafe
<1>2. CASE \E key \in Keys : Call(key)
  BY <1>2, CallSafe
<1>3. QED
  BY <1>1, <1>2 DEF Next

(* The initial, empty registry satisfies the inductive invariant.          *)
LEMMA InitIInv == Init => IInv
BY LimitAssumption DEF Init, IInv, TypeOK, BackoffOnlyRegistered

(* The inductive invariant holds in every reachable state.                 *)
THEOREM Invariance == Spec => []IInv
<1>1. IInv /\ [Next]_vars => IInv'
  BY NextSafe DEF SafeStep
<1>2. QED
  BY InitIInv, <1>1, PTL DEF Spec

(* The registry is always well typed: known keys, natural counters and     *)
(* deadlines, backoff levels within the cap.                               *)
THEOREM TypeCorrect == Spec => []TypeOK
<1>1. IInv => TypeOK
  BY DEF IInv
<1>2. QED
  BY Invariance, <1>1, PTL

(* Every circuit trips at its threshold, counts at most                    *)
(* HalfOpenMaxRequests probes, and carries a deadline exactly while Open,  *)
(* whatever the callers report and in whatever order.                      *)
THEOREM CircuitSafety ==
    Spec => [](ClosedBelowThreshold /\ ProbeBudget /\ DeadlineOnlyWhenOpen)
<1>1. IInv => ClosedBelowThreshold /\ ProbeBudget /\ DeadlineOnlyWhenOpen
  <2> SUFFICES ASSUME IInv, NEW k \in DOMAIN circuits
               PROVE  /\ circuits[k].state = "Closed" =>
                            /\ circuits[k].fails < failureThresholdFor(k)
                            /\ circuits[k].inflight = 0
                      /\ circuits[k].inflight <= HalfOpenMaxRequests
                      /\ circuits[k].inflight > 0 => circuits[k].state = "HalfOpen"
                      /\ circuits[k].state = "HalfOpen" =>
                            circuits[k].succs < successThresholdFor(k)
                      /\ (circuits[k].expiry # 0) <=> (circuits[k].state = "Open")
    BY DEF ClosedBelowThreshold, ProbeBudget, DeadlineOnlyWhenOpen
  <2>1. WellFormed(k, circuits[k])
    BY DEF IInv
  <2>2. QED
    BY <2>1 DEF WellFormed, Circuit
<1>2. QED
  BY Invariance, <1>1, PTL

(* Backoff levels are held for registered keys only.                       *)
THEOREM BackoffBounded == Spec => []BackoffOnlyRegistered
<1>1. IInv => BackoffOnlyRegistered
  BY DEF IInv
<1>2. QED
  BY Invariance, <1>1, PTL

(* Whatever trips, recovers or is swept, a Closed circuit is below its     *)
(* threshold, a HalfOpen one within its probe budget, and no backoff level *)
(* outlives its circuit.                                                   *)
THEOREM Coherence == Spec => []CircuitCoherent
<1>1. ClosedBelowThreshold /\ ProbeBudget /\ DeadlineOnlyWhenOpen /\ BackoffOnlyRegistered
        => CircuitCoherent
  BY DEF CircuitCoherent
<1>2. QED
  BY CircuitSafety, BackoffBounded, <1>1, PTL

(* No call, in any order, shortens or cuts a running cooldown.             *)
THEOREM DeadlineSafety == Spec => DeadlinesOnlyExtend
<1>1. IInv /\ [Next]_vars => CircuitDeadlines /\ LockDeadlines
  BY NextSafe DEF SafeStep
<1>2. QED
  BY Invariance, <1>1, PTL DEF Spec, DeadlinesOnlyExtend, CircuitDeadlines, LockDeadlines

(* A circuit under investigation survives every sweep.                     *)
THEOREM NoTrippedEviction == Spec => TrippedNeverShed
<1>1. IInv /\ [Next]_vars => Kept
  BY NextSafe DEF SafeStep
<1>2. QED
  BY Invariance, <1>1, PTL DEF Spec, TrippedNeverShed, Kept

(* Past its cap the registry grows only while nothing in it is Closed.     *)
THEOREM RegistryGrowth == Spec => GrowthIsSelfLimiting
<1>1. IInv /\ [Next]_vars => Growth
  BY NextSafe DEF SafeStep
<1>2. QED
  BY Invariance, <1>1, PTL DEF Spec, GrowthIsSelfLimiting, Growth
=============================================================================
