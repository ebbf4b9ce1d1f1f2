----------------------------- MODULE Semaphores -----------------------------
(***************************************************************************)
(* What the concurrency limiter promises (internal/infra/concurrency.go,   *)
(* Acquire): a counting semaphore per key.  A goroutine gets a place only  *)
(* while fewer than the key's bound hold one, keeps it until it gives it   *)
(* back, and a bound changes only while nobody holds a place under it.     *)
(***************************************************************************)
EXTENDS Integers, FiniteSets

CONSTANTS Callers, Keys, Limits

VARIABLES held,    \* key -> goroutines that hold a place
          bound    \* key -> places

semvars == <<held, bound>>

Take(p, k) ==
    /\ \A j \in Keys : p \notin held[j]
    /\ Cardinality(held[k]) < bound[k]
    /\ held' = [held EXCEPT ![k] = @ \cup {p}] /\ UNCHANGED bound

Give(p, k) ==
    /\ p \in held[k]
    /\ held' = [held EXCEPT ![k] = @ \ {p}] /\ UNCHANGED bound

(* One reorganisation of the registry may touch several keys.              *)
Resize ==
    /\ bound' \in [Keys -> Limits]
    /\ \A k \in Keys : held[k] # {} => bound'[k] = bound[k]
    /\ UNCHANGED held

SemInit == held = [k \in Keys |-> {}] /\ bound \in [Keys -> Limits]

SemNext == Resize \/ \E p \in Callers, k \in Keys : Take(p, k) \/ Give(p, k)

SemSpec == SemInit /\ [][SemNext]_semvars
=============================================================================
