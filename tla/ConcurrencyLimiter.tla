------------------------- MODULE ConcurrencyLimiter -------------------------
(***************************************************************************)
(* internal/infra/concurrency.go: a registry of per-key semaphores whose   *)
(* entries are created lazily and evicted when the registry is full.  The  *)
(* mutex guards the registry only: tokens move through the semaphores      *)
(* without it, so every race between a grant and an eviction is here.      *)
(* Each caller is one goroutine that acquires, works and releases again    *)
(* and again.  A semaphore is an object: a goroutine may still wait on one *)
(* that is no longer registered.                                           *)
(***************************************************************************)
EXTENDS Integers, FiniteSets

CONSTANTS
    Callers,          \* goroutines
    Keys,             \* provider/model
    Slots,            \* semaphore objects: the bound on live ones
    None,             \* no semaphore, no caller
    Limits,           \* limits the configuration may resolve to
    MaxKeys,          \* maxConcurrencyKeys
    IdleThreshold,    \* concurrencyIdleThreshold, in ticks
    MaxTime           \* bound: the last tick of the explored clock

VARIABLES
    now,              \* time.Now()
    slots,            \* c.slots: [Keys -> Slots or None]
    cap,              \* capacity of each semaphore's channel
    tokens,           \* len(sem)
    lastUsed,         \* lastUsed of each semaphore
    mu,               \* holder of c.mu for writing, or None
    pc, key, ask,     \* per caller: label, key and limit it asked for
    slot,             \* per caller: semaphore in hand
    victims           \* per caller: keys its eviction is about to delete

limiterVars == <<now, slots, cap, tokens, lastUsed, mu, pc, key, ask, slot, victims>>

ASSUME LimiterAssumption ==
    /\ IsFiniteSet(Callers)
    /\ None \notin Slots \cup Callers
    /\ Limits \subseteq Nat \ {0} /\ Limits # {}
    /\ MaxKeys \in Nat \ {0}
    /\ IdleThreshold \in Nat
    /\ MaxTime \in Nat

Labels == {"idle", "lookup", "create", "evict", "wait", "granted", "held"}

(* Callers whose token is in semaphore s.                                  *)
Holders(s) == {p \in Callers : pc[p] \in {"granted", "held"} /\ slot[p] = s}

(* Requests in flight for key k.                                           *)
InFlight(k) == {p \in Callers : pc[p] = "held" /\ key[p] = k}

Registered == {k \in Keys : slots[k] # None}

(* A semaphore nobody can reach: garbage, reused for the next allocation.  *)
Free == {s \in Slots : /\ \A k \in Keys : slots[k] # s
                       /\ \A p \in Callers : slot[p] # s}

-----------------------------------------------------------------------------

(* A caller resolves its limit anew: a reload may have changed it.         *)
Acquire(p, k, l) ==
    /\ pc[p] = "idle"
    /\ pc' = [pc EXCEPT ![p] = "lookup"]
    /\ key' = [key EXCEPT ![p] = k]
    /\ ask' = [ask EXCEPT ![p] = l]
    /\ UNCHANGED <<now, slots, cap, tokens, lastUsed, mu, slot, victims>>

(* getOrCreateSlot: a read-locked look, ...                                *)
Lookup(p) ==
    /\ pc[p] = "lookup" /\ mu = None
    /\ IF slots[key[p]] # None
       THEN /\ pc' = [pc EXCEPT ![p] = "wait"]
            /\ slot' = [slot EXCEPT ![p] = slots[key[p]]]
       ELSE pc' = [pc EXCEPT ![p] = "create"] /\ UNCHANGED slot
    /\ UNCHANGED <<now, slots, cap, tokens, lastUsed, mu, key, ask, victims>>

idleEmpty == {k \in Registered : /\ tokens[slots[k]] = 0
                                 /\ now - lastUsed[slots[k]] > IdleThreshold}

leastRecentlyUsed(S) ==
    {k \in S : \A j \in S : lastUsed[slots[k]] <= lastUsed[slots[j]]}

(* The keys evictConcurrencySlotsLocked may pick; it finds them empty now  *)
(* and deletes them later, in Create.                                      *)
evictConcurrencySlotsLocked ==
    LET kept == Registered \ idleEmpty
        empty == {k \in kept : tokens[slots[k]] = 0}
    IN  IF Cardinality(kept) < MaxKeys \/ empty = {}
        THEN {idleEmpty}
        ELSE {idleEmpty \cup {k} : k \in leastRecentlyUsed(empty)}

(* ... then the write lock and a second look; a full registry is swept.    *)
LockAndScan(p) ==
    /\ pc[p] = "create" /\ mu = None
    /\ IF slots[key[p]] # None
       THEN /\ pc' = [pc EXCEPT ![p] = "wait"]
            /\ slot' = [slot EXCEPT ![p] = slots[key[p]]]
            /\ UNCHANGED <<mu, victims>>
       ELSE /\ pc' = [pc EXCEPT ![p] = "evict"]
            /\ mu' = p
            /\ \E v \in IF Cardinality(Registered) >= MaxKeys
                        THEN evictConcurrencySlotsLocked ELSE {{}} :
                   victims' = [victims EXCEPT ![p] = v]
            /\ UNCHANGED slot
    /\ UNCHANGED <<now, slots, cap, tokens, lastUsed, key, ask>>

(* Delete the victims and register a new semaphore, still locked.          *)
Create(p) ==
    /\ pc[p] = "evict" /\ Free # {}
    /\ LET s == CHOOSE s \in Free : TRUE IN
        /\ slots' = [k \in Keys |-> IF k = key[p] THEN s
                                    ELSE IF k \in victims[p] THEN None ELSE slots[k]]
        /\ cap' = [cap EXCEPT ![s] = ask[p]]
        /\ tokens' = [tokens EXCEPT ![s] = 0]
        /\ lastUsed' = [lastUsed EXCEPT ![s] = now]
        /\ slot' = [slot EXCEPT ![p] = s]
    /\ pc' = [pc EXCEPT ![p] = "wait"]
    /\ victims' = [victims EXCEPT ![p] = {}]
    /\ mu' = None
    /\ UNCHANGED <<now, key, ask>>

(* The select: a free place in the channel, or the client's disconnect.    *)
Grant(p) ==
    /\ pc[p] = "wait" /\ tokens[slot[p]] < cap[slot[p]]
    /\ tokens' = [tokens EXCEPT ![slot[p]] = @ + 1]
    /\ pc' = [pc EXCEPT ![p] = "granted"]
    /\ UNCHANGED <<now, slots, cap, lastUsed, mu, key, ask, slot, victims>>

(* The call of Acquire, or the work under its token, is over.              *)
Depart(p) ==
    /\ pc' = [pc EXCEPT ![p] = "idle"]
    /\ key' = [key EXCEPT ![p] = None] /\ ask' = [ask EXCEPT ![p] = 0]
    /\ slot' = [slot EXCEPT ![p] = None]

CtxDone(p) ==
    /\ pc[p] = "wait" /\ Depart(p)
    /\ UNCHANGED <<now, slots, cap, tokens, lastUsed, mu, victims>>

(* Mutant: a token is good in whatever semaphore it was put.               *)
registeredAnywhere(p) == slot[p] # None

(* The token counts only in the registered semaphore; an orphan is drained *)
(* and the caller starts over.                                             *)
registered(p) == slots[key[p]] = slot[p]

(* Mutant: the orphan keeps the token.                                     *)
undrained(p) == tokens

drained(p) == [tokens EXCEPT ![slot[p]] = @ - 1]

Verify(p) ==
    /\ pc[p] = "granted" /\ mu = None
    /\ IF registered(p)
       THEN /\ pc' = [pc EXCEPT ![p] = "held"]
            /\ lastUsed' = [lastUsed EXCEPT ![slot[p]] = now]
            /\ UNCHANGED <<tokens, slot>>
       ELSE /\ pc' = [pc EXCEPT ![p] = "lookup"]
            /\ tokens' = drained(p)
            /\ slot' = [slot EXCEPT ![p] = None]
            /\ UNCHANGED lastUsed
    /\ UNCHANGED <<now, slots, cap, mu, key, ask, victims>>

Release(p) ==
    /\ pc[p] = "held" /\ Depart(p)
    /\ tokens' = drained(p)
    /\ lastUsed' = [lastUsed EXCEPT ![slot[p]] = now]
    /\ UNCHANGED <<now, slots, cap, mu, victims>>

Tick ==
    /\ now < MaxTime /\ now' = now + 1
    /\ UNCHANGED <<slots, cap, tokens, lastUsed, mu, pc, key, ask, slot, victims>>

LimiterInit ==
    /\ now = 0
    /\ slots = [k \in Keys |-> None]
    /\ cap = [s \in Slots |-> 0]
    /\ tokens = [s \in Slots |-> 0]
    /\ lastUsed = [s \in Slots |-> 0]
    /\ mu = None
    /\ pc = [p \in Callers |-> "idle"]
    /\ key = [p \in Callers |-> None]
    /\ ask = [p \in Callers |-> 0]
    /\ slot = [p \in Callers |-> None]
    /\ victims = [p \in Callers |-> {}]

Step(p) ==
    \/ \E k \in Keys, l \in Limits : Acquire(p, k, l)
    \/ Lookup(p) \/ LockAndScan(p) \/ Create(p)
    \/ Grant(p) \/ CtxDone(p) \/ Verify(p) \/ Release(p)

LimiterNext == Tick \/ \E p \in Callers : Step(p)

LimiterSpec == LimiterInit /\ [][LimiterNext]_limiterVars

-----------------------------------------------------------------------------
(* Properties.                                                             *)

(* Every variable keeps its type.                                          *)
LimiterTypeOK ==
    /\ now \in Nat
    /\ slots \in [Keys -> Slots \cup {None}]
    /\ cap \in [Slots -> Nat] /\ tokens \in [Slots -> Nat]
    /\ lastUsed \in [Slots -> Nat]
    /\ mu \in Callers \cup {None}
    /\ pc \in [Callers -> Labels] /\ key \in [Callers -> Keys \cup {None}]
    /\ ask \in [Callers -> Limits \cup {0}]
    /\ slot \in [Callers -> Slots \cup {None}]
    /\ victims \in [Callers -> SUBSET Keys]

(* The channel of a semaphore holds exactly the tokens of the callers that *)
(* took one from it: none is lost or returned twice through eviction,      *)
(* drain and retry.                                                        *)
CapacityReturns ==
    \A s \in Slots : tokens[s] = Cardinality(Holders(s))

(* No interleaving of eviction and grant bypasses a limit: the registry of *)
(* semaphores behaves as one semaphore per key.  The bound of a key is the *)
(* capacity of its registered semaphore; a key without one has any bound.  *)
Abstract == INSTANCE Semaphores WITH
    held <- [k \in Keys |-> InFlight(k)],
    bound <- [k \in Keys |-> IF slots[k] = None THEN CHOOSE l \in Limits : TRUE ELSE cap[slots[k]]]

BoundedInFlight == Abstract!SemSpec
=============================================================================
