------------------------------ MODULE Sessions ------------------------------
(***************************************************************************)
(* Session pins (internal/routing/session.go) and what a request does with *)
(* them between resolving its session and dispatching (proxy/chat.go):     *)
(* peek, target list, exhaustion filter, lookup, and pinning or promotion, *)
(* each a lock section of its own.                                         *)
(*                                                                         *)
(* Accounts are numbers, 0 the empty account.  A pin's idle is the time    *)
(* since LastSeen in ticks, capped past the ttl, and routed the time since *)
(* a request of the session was last routed.  Pins seen within one tick    *)
(* count as equally old, and an eviction may take any of the oldest.       *)
(***************************************************************************)
EXTENDS Integers, Sequences, FiniteSets

CONSTANTS
    SessionKeys,            \* session identities
    Targets,         \* 1..n: provider and model pairs in the agent's order
    Pool,            \* accounts of a target
    OptedOut,        \* targets with session_sticky_keys off
    SessionCap,      \* cap of the store
    SessionTtl,      \* sticky_session_ttl_seconds
    Reorder,         \* the strategy is sticky
    CacheAware,      \* the agent holds pins through a bench
    Chats,
    MaxFaults        \* bound: benches, locks, exhaustions and removals

VARIABLES
    store,           \* sessions: key -> pin: target, account, idle, routed
    state,           \* target -> "active", "cooling", "locked" or "removed"
    health,          \* target, account -> "usable", "benched" or "exhausted"
    request,         \* per request: label, key, BYOK, peeked pin, list, lookup
    faults

svars == <<store, state, health, request, faults>>

(* NewSessionRouter replaces a cap or a ttl that is not positive.          *)
SessionAssumption ==
    /\ SessionCap \in Nat \ {0} /\ SessionTtl \in Nat
    /\ IsFiniteSet(SessionKeys)

NoPin == [target |-> 0, account |-> 0, idle |-> 0, routed |-> 0]
NoList == <<>>

Unrouted == [at |-> "idle", key |-> "", byok |-> FALSE, list |-> NoList, found |-> NoPin, peeked |-> NoPin]

ChatAt(r, label) == request[r].at = label
ChatTo(r, f) == request' = [request EXCEPT ![r] = f]
Done(r) == ChatTo(r, Unrouted)

(* Mutant: the ttl counts from the pin's creation or last promotion.       *)
seenNever(p) == p

(* Lookup touches LastSeen.                                                *)
seen(p) == [p EXCEPT !.idle = 0]

entryExpired(p) == p.idle > SessionTtl

(* A pin that Lookup and Peek report.                                      *)
live(k) == k \in DOMAIN store /\ ~entryExpired(store[k])

(* The copy a request keeps; its dates are not read.                       *)
copied(p) == [p EXCEPT !.idle = 0, !.routed = 0]

Without(gone) == [k \in DOMAIN store \ gone |-> store[k]]

(* evictLRU, for a key that is new: what may go.                           *)
leastRecent == {k \in DOMAIN store : \A j \in DOMAIN store : store[j].idle <= store[k].idle}
evictLRU(k) ==
    IF k \notin DOMAIN store /\ Cardinality(DOMAIN store) >= SessionCap THEN {{v} : v \in leastRecent} ELSE {{}}

(* The write of Pin and PromoteIfChanged.                                  *)
Write(k, t, a) ==
    \E gone \in evictLRU(k) :
        store' = [j \in (DOMAIN store \ gone) \cup {k} |->
                    IF j = k THEN [target |-> t, account |-> a, idle |-> 0, routed |-> 0] ELSE store[j]]

(* A request of the session was routed.                                    *)
marked(p) == [p EXCEPT !.routed = 0]

-----------------------------------------------------------------------------
(* chatSessionIdentity and resolveStickyPin: Peek changes nothing and      *)
(* reports an expired pin as absent.                                       *)
Peek(r, k, byok) ==
    /\ ChatAt(r, "idle")
    /\ ChatTo(r, [at |-> "build", key |-> k, byok |-> byok, list |-> NoList, found |-> NoPin,
                peeked |-> IF live(k) THEN copied(store[k]) ELSE NoPin])
    /\ UNCHANGED <<store, state, health, faults>>

(* preference, selectPreferredAccountKey and selectAccountKey: the pinned  *)
(* account when it is usable, else a usable one, else an exhausted one,    *)
(* else the provider's own key.                                            *)
accountsFor(t, peeked) ==
    LET with(h) == {a \in Pool : health[t][a] = h} IN
    CASE peeked.target = t /\ peeked.account \in with("usable") -> {peeked.account}
      [] ~(peeked.target = t /\ peeked.account \in with("usable")) /\ with("usable") # {} -> with("usable")
      [] with("usable") = {} /\ with("exhausted") # {} -> with("exhausted")
      [] OTHER -> {0}

(* BuildTargetList and filterExhaustedTargets: active targets in order,    *)
(* cooling ones behind them; locked and removed ones and those whose       *)
(* account is exhausted absent.                                            *)
built(pick) ==
    LET order == [t \in Targets |-> [target |-> t, account |-> pick[t], active |-> state[t] = "active"]]
        funded(e) == e.account = 0 \/ health[e.target][e.account] # "exhausted"
    IN  SelectSeq(order, LAMBDA e : funded(e) /\ state[e.target] = "active")
        \o SelectSeq(order, LAMBDA e : funded(e) /\ state[e.target] = "cooling")

(* Nothing to dispatch to: 503, 413 or 422, and the pin keeps its age.     *)
BuildTargets(r) ==
    /\ ChatAt(r, "build")
    /\ \E pick \in [Targets -> Pool \cup {0}] :
         /\ \A t \in Targets : pick[t] \in accountsFor(t, request[r].peeked)
         /\ IF built(pick) = NoList THEN Done(r)
            ELSE ChatTo(r, [request[r] EXCEPT !.at = "lookup", !.list = built(pick), !.peeked = NoPin])
    /\ UNCHANGED <<store, state, health, faults>>

indexOfActiveTarget(list, t) ==
    IF \E i \in DOMAIN list : list[i].target = t /\ list[i].active
    THEN CHOOSE i \in DOMAIN list : list[i].target = t /\ list[i].active ELSE 0

moveToFront(list, i) == <<list[i]>> \o SubSeq(list, 1, i - 1) \o SubSeq(list, i + 1, Len(list))

(* applyStickyRouting: Lookup touches the pin or drops it.  A request paid *)
(* by its caller neither reads nor writes it.                              *)
LookupPin(r) ==
    /\ ChatAt(r, "lookup")
    /\ LET q == request[r]
           p == store[q.key]
           i == indexOfActiveTarget(q.list, p.target)
           list == IF Reorder /\ i > 1 THEN moveToFront(q.list, i) ELSE q.list
           front == (i = 1) \/ (Reorder /\ i > 0)
       IN  IF q.byok THEN Done(r) /\ UNCHANGED store
           ELSE IF ~live(q.key)
           THEN /\ store' = Without({q.key})
                /\ ChatTo(r, [q EXCEPT !.at = "pin"])
           ELSE /\ store' = [store EXCEPT ![q.key] = marked(seen(@))]
                /\ ChatTo(r, [q EXCEPT !.at = IF front THEN "drift" ELSE "lost", !.list = list, !.found = copied(p)])
    /\ UNCHANGED <<state, health, faults>>

firstActiveTarget(list) == SelectSeq(list, LAMBDA e : e.active)

(* pinSessionTarget *)
PinNew(r) ==
    /\ ChatAt(r, "pin")
    /\ LET first == firstActiveTarget(request[r].list) IN
       IF first = <<>> \/ first[1].target \in OptedOut THEN UNCHANGED store
       ELSE Write(request[r].key, first[1].target, first[1].account)
    /\ Done(r)
    /\ UNCHANGED <<state, health, faults>>

(* PromoteIfChanged: the same target and account only refresh the ttl.     *)
PromoteIfChanged(k, t, a) ==
    IF k \in DOMAIN store /\ store[k].target = t /\ store[k].account = a THEN UNCHANGED store ELSE Write(k, t, a)

(* promoteOnFrontDrift: the pin follows a sibling account; an empty        *)
(* account never replaces it.                                              *)
PromoteDrift(r) ==
    /\ ChatAt(r, "drift")
    /\ LET front == request[r].list[1] IN
       IF front.account \in {0, request[r].found.account} \/ front.target \in OptedOut THEN UNCHANGED store
       ELSE PromoteIfChanged(request[r].key, front.target, front.account)
    /\ Done(r)
    /\ UNCHANGED <<state, health, faults>>

(* pinHoldThroughBench: listed as cooling, or locked when asked now.       *)
held(r) ==
    /\ CacheAware
    /\ \/ \E i \in DOMAIN request[r].list : request[r].list[i].target = request[r].found.target
       \/ state[request[r].found.target] = "locked"

(* promoteToFirstActive, unless the pin is held.                           *)
PromoteLost(r) ==
    /\ ChatAt(r, "lost")
    /\ LET first == firstActiveTarget(request[r].list) IN
       IF held(r) \/ first = <<>> \/ first[1].target \in OptedOut THEN UNCHANGED store
       ELSE PromoteIfChanged(request[r].key, first[1].target, first[1].account)
    /\ Done(r)
    /\ UNCHANGED <<state, health, faults>>

-----------------------------------------------------------------------------
(* Benches, locks and exhaustion come and go.                              *)
Environment ==
    /\ faults < MaxFaults /\ faults' = faults + 1
    /\ \/ \E t \in Targets, s \in {"active", "cooling", "locked", "removed"} :
            /\ state[t] # s /\ state' = [state EXCEPT ![t] = s] /\ UNCHANGED health
       \/ \E t \in Targets, a \in Pool :
            /\ UNCHANGED state
            /\ \E h \in {"usable", "benched", "exhausted"} \ {health[t][a]} : health' = [health EXCEPT ![t][a] = h]
    /\ UNCHANGED <<store, request>>

(* Active: the statistics sweep drops expired pins.                        *)
Active ==
    /\ \E k \in DOMAIN store : entryExpired(store[k])
    /\ store' = Without({k \in DOMAIN store : entryExpired(store[k])})
    /\ UNCHANGED <<state, health, request, faults>>

older(n) == IF n > SessionTtl THEN n ELSE n + 1

Age ==
    /\ \E k \in DOMAIN store : ~entryExpired(store[k])
    /\ store' = [k \in DOMAIN store |-> [store[k] EXCEPT !.idle = older(@), !.routed = older(@)]]
    /\ UNCHANGED <<state, health, request, faults>>

SInit ==
    /\ store = [k \in {} |-> NoPin] /\ faults = 0
    /\ health = [t \in Targets |-> [a \in Pool |-> "usable"]]
    /\ state = [t \in Targets |-> "active"]
    /\ request = [r \in Chats |-> Unrouted]

SNext ==
    \/ \E r \in Chats :
         \/ \E k \in SessionKeys, byok \in BOOLEAN : Peek(r, k, byok)
         \/ BuildTargets(r) \/ LookupPin(r) \/ PinNew(r) \/ PromoteDrift(r) \/ PromoteLost(r)
    \/ Environment \/ Active \/ Age

SSpec == SInit /\ [][SNext]_svars

-----------------------------------------------------------------------------
(* Lookup, Pin, PromoteIfChanged, evictLRU: a session that had a request   *)
(* routed within its ttl loses its pin only to the cap, and then no        *)
(* session idle for longer keeps one.  The store never outgrows the cap.   *)
DropsColdest ==
    /\ Cardinality(DOMAIN store') <= SessionCap
    /\ \A k \in DOMAIN store \ DOMAIN store' : store[k].routed <= SessionTtl =>
         /\ Cardinality(DOMAIN store) = SessionCap
         /\ \A j \in DOMAIN store : store[j].routed > store[k].routed => j \notin DOMAIN store'

WarmKept == [][DropsColdest]_svars
=============================================================================
