---------------------------- MODULE RoutingProofs ----------------------------
(***************************************************************************)
(* Proofs about what a request meets on its way to a target: the session   *)
(* pins, the conversation identities, the rate limits and the rotation of  *)
(* provider accounts, for any number of sessions, conversations,           *)
(* providers, accounts and requests, any caps and any weights.             *)
(***************************************************************************)
EXTENDS Sessions, Affinity, RateLimiter, Accounts, FiniteSetTheorems, WellFoundedInduction, TLAPS

-----------------------------------------------------------------------------
(* Session pins.                                                           *)

(* A pin is as old as its session's last routed request: Lookup touches    *)
(* LastSeen of every request that is routed, and a new pin is new.         *)
PinsAged ==
    \A k \in DOMAIN store :
        /\ {"idle", "routed"} \subseteq DOMAIN store[k]
        /\ store[k].idle \in Nat /\ store[k].routed = store[k].idle
PinsFit == IsFiniteSet(DOMAIN store) /\ Cardinality(DOMAIN store) <= SessionCap
PinInv == PinsAged /\ PinsFit

(* What a step does to the store: nothing, one write, the removal of       *)
(* expired pins, the touch of a live one, or time passes.                  *)
Removal(gone) == store' = Without(gone) /\ \A k \in gone \cap DOMAIN store : entryExpired(store[k])
Touch(k) == k \in DOMAIN store /\ store' = [store EXCEPT ![k] = marked(seen(@))]
Aging == store' = [k \in DOMAIN store |-> [store[k] EXCEPT !.idle = older(@), !.routed = older(@)]]
StoreStep ==
    \/ UNCHANGED store
    \/ \E k, t, a : Write(k, t, a)
    \/ \E gone : Removal(gone)
    \/ \E k : Touch(k)
    \/ Aging

(* Every step of a request, of the sweep and of time is one of these.      *)
LEMMA StoreSteps == SNext => StoreStep
  <1> SUFFICES ASSUME SNext PROVE StoreStep
    OBVIOUS
  <1> USE DEF StoreStep
  <1>1. ASSUME NEW r \in Chats, NEW k \in SessionKeys, NEW byok \in BOOLEAN, Peek(r, k, byok) PROVE StoreStep
    BY <1>1 DEF Peek
  <1>2. ASSUME NEW r \in Chats, BuildTargets(r) PROVE StoreStep
    BY <1>2 DEF BuildTargets
  <1>3. ASSUME NEW r \in Chats, LookupPin(r) PROVE StoreStep
    <2>1. CASE request[r].byok
      BY <1>3, <2>1 DEF LookupPin
    <2>2. CASE ~request[r].byok /\ live(request[r].key)
      <3>1. Touch(request[r].key)
        BY <1>3, <2>2 DEF LookupPin, Touch, live
      <3> QED
        BY <3>1
    <2>3. CASE ~request[r].byok /\ ~live(request[r].key)
      <3>1. Removal({request[r].key})
        BY <1>3, <2>3 DEF LookupPin, Removal, live
      <3> QED
        BY <3>1
    <2> QED
      BY <2>1, <2>2, <2>3
  <1>4. ASSUME NEW r \in Chats, PinNew(r) PROVE StoreStep
    BY <1>4 DEF PinNew
  <1>5. ASSUME NEW r \in Chats, PromoteDrift(r) PROVE StoreStep
    BY <1>5 DEF PromoteDrift, PromoteIfChanged
  <1>6. ASSUME NEW r \in Chats, PromoteLost(r) PROVE StoreStep
    BY <1>6 DEF PromoteLost, PromoteIfChanged
  <1>7. CASE Environment
    BY <1>7 DEF Environment
  <1>8. CASE Active
    <2>1. Removal({k \in DOMAIN store : entryExpired(store[k])})
      BY <1>8 DEF Active, Removal
    <2> QED
      BY <2>1
  <1>9. CASE Age
    BY <1>9 DEF Age, Aging
  <1> QED
    BY <1>1, <1>2, <1>3, <1>4, <1>5, <1>6, <1>7, <1>8, <1>9 DEF SNext

(* A write pushes out at most one pin, the oldest, and only at the cap.    *)
LEMMA WriteFits ==
    ASSUME SessionAssumption, PinInv, NEW k, NEW t, NEW a, Write(k, t, a)
    PROVE  PinInv' /\ DropsColdest
  <1> DEFINE new == [target |-> t, account |-> a, idle |-> 0, routed |-> 0]
  <1>1. PICK gone \in evictLRU(k) : store' = [j \in (DOMAIN store \ gone) \cup {k} |-> IF j = k THEN new ELSE store[j]]
    BY DEF Write
  <1>2. DOMAIN store' = (DOMAIN store \ gone) \cup {k}
    BY <1>1
  <1>3. \A j \in DOMAIN store' : store'[j] = IF j = k THEN new ELSE store[j]
    BY <1>1, <1>2
  <1>4. new.idle = 0 /\ new.routed = 0 /\ {"idle", "routed"} \subseteq DOMAIN new
    OBVIOUS
  <1> HIDE DEF new
  <1>5. PinsAged'
    BY <1>2, <1>3, <1>4 DEF PinsAged, PinInv
  <1>6. CASE k \notin DOMAIN store /\ Cardinality(DOMAIN store) >= SessionCap
    <2>1. PICK v \in leastRecent : gone = {v}
      BY <1>1, <1>6 DEF evictLRU
    <2>2. v \in DOMAIN store /\ \A j \in DOMAIN store : store[j].idle <= store[v].idle
      BY <2>1 DEF leastRecent
    <2>3. IsFiniteSet(DOMAIN store) /\ Cardinality(DOMAIN store) \in Nat /\ Cardinality(DOMAIN store) = SessionCap
      BY <1>6, FS_CardinalityType DEF PinInv, PinsFit, SessionAssumption
    <2>4. IsFiniteSet(DOMAIN store \ {v}) /\ Cardinality(DOMAIN store \ {v}) = Cardinality(DOMAIN store) - 1
      BY <2>2, <2>3, FS_RemoveElement
    <2>5. DOMAIN store' = (DOMAIN store \ {v}) \cup {k}
      BY <1>2, <2>1
    <2>6. k \notin DOMAIN store \ {v}
      BY <1>6
    <2>7. IsFiniteSet(DOMAIN store') /\ Cardinality(DOMAIN store') = Cardinality(DOMAIN store \ {v}) + 1
      BY <2>4, <2>5, <2>6, FS_AddElement
    <2>8. IsFiniteSet(DOMAIN store') /\ Cardinality(DOMAIN store') <= SessionCap
      BY <2>3, <2>4, <2>7 DEF SessionAssumption
    <2>9. ASSUME NEW d \in DOMAIN store \ DOMAIN store', NEW j \in DOMAIN store, store[j].routed > store[d].routed
          PROVE  FALSE
      <3>1. d = v
        BY <2>5, <2>9
      <3>2. store[j].idle <= store[d].idle
        BY <2>2, <3>1, <2>9
      <3>3. store[j].routed = store[j].idle /\ store[d].routed = store[d].idle /\ store[j].idle \in Nat /\ store[d].idle \in Nat
        BY <2>9 DEF PinInv, PinsAged
      <3> QED
        BY <2>9, <3>2, <3>3
    <2> QED
      BY <1>5, <2>3, <2>8, <2>9 DEF PinInv, PinsFit, DropsColdest
  <1>7. CASE ~(k \notin DOMAIN store /\ Cardinality(DOMAIN store) >= SessionCap)
    <2>1. gone = {}
      BY <1>1, <1>7 DEF evictLRU
    <2>2. DOMAIN store' = DOMAIN store \cup {k}
      BY <1>2, <2>1
    <2>3. IsFiniteSet(DOMAIN store) /\ Cardinality(DOMAIN store) \in Nat /\ Cardinality(DOMAIN store) <= SessionCap
      BY FS_CardinalityType DEF PinInv, PinsFit
    <2>4. IsFiniteSet(DOMAIN store') /\ Cardinality(DOMAIN store') <= SessionCap
      <3>1. CASE k \in DOMAIN store
        <4>1. DOMAIN store' = DOMAIN store
          BY <2>2, <3>1
        <4> QED
          BY <4>1, <2>3
      <3>2. CASE k \notin DOMAIN store
        <4>1. IsFiniteSet(DOMAIN store') /\ Cardinality(DOMAIN store') = Cardinality(DOMAIN store) + 1
          BY <2>2, <2>3, <3>2, FS_AddElement
        <4> QED
          BY <4>1, <2>3, <3>2, <1>7 DEF SessionAssumption
      <3> QED
        BY <3>1, <3>2
    <2> QED
      BY <1>5, <2>2, <2>4 DEF PinInv, PinsFit, DropsColdest
  <1> QED
    BY <1>6, <1>7

(* Every other step keeps all pins that have not expired.                  *)
LEMMA StoreKept ==
    ASSUME SessionAssumption, PinInv, StoreStep
    PROVE  PinInv' /\ DropsColdest
  <1>0. IsFiniteSet(DOMAIN store) /\ Cardinality(DOMAIN store) \in Nat /\ Cardinality(DOMAIN store) <= SessionCap
    BY FS_CardinalityType DEF PinInv, PinsFit
  <1>1. CASE UNCHANGED store
    BY <1>0, <1>1 DEF PinInv, PinsAged, PinsFit, DropsColdest
  <1>2. ASSUME NEW k, NEW t, NEW a, Write(k, t, a) PROVE PinInv' /\ DropsColdest
    BY <1>2, WriteFits
  <1>3. ASSUME NEW gone, Removal(gone) PROVE PinInv' /\ DropsColdest
    <2>1. DOMAIN store' = DOMAIN store \ gone /\ \A k \in DOMAIN store' : store'[k] = store[k]
      BY <1>3 DEF Removal, Without
    <2>2. DOMAIN store' \subseteq DOMAIN store
      BY <2>1
    <2>3. IsFiniteSet(DOMAIN store') /\ Cardinality(DOMAIN store') <= Cardinality(DOMAIN store)
      BY <2>2, <1>0, FS_Subset
    <2>4. Cardinality(DOMAIN store') \in Nat
      BY <2>3, FS_CardinalityType
    <2>5. \A k \in DOMAIN store \ DOMAIN store' : store[k].routed > SessionTtl
      BY <1>3, <2>1 DEF Removal, entryExpired, PinInv, PinsAged
    <2>6. Cardinality(DOMAIN store') <= SessionCap
      BY <1>0, <2>3, <2>4 DEF SessionAssumption
    <2>7. \A k \in DOMAIN store : store[k].routed \in Nat
      BY DEF PinInv, PinsAged
    <2>8. DropsColdest
      BY <2>5, <2>6, <2>7 DEF DropsColdest, SessionAssumption
    <2>9. PinsAged'
      BY <2>1, <2>2 DEF PinInv, PinsAged
    <2> QED
      BY <2>3, <2>6, <2>8, <2>9 DEF PinInv, PinsFit
  <1>4. ASSUME NEW k, Touch(k) PROVE PinInv' /\ DropsColdest
    <2>1. DOMAIN store' = DOMAIN store
      BY <1>4 DEF Touch
    <2>2. \A j \in DOMAIN store : j # k => store'[j] = store[j]
      BY <1>4 DEF Touch
    <2>3. store'[k] = marked(seen(store[k]))
      BY <1>4 DEF Touch
    <2>4. {"idle", "routed"} \subseteq DOMAIN store'[k] /\ store'[k].idle = 0 /\ store'[k].routed = 0
      BY <1>4, <2>3 DEF marked, seen, PinInv, PinsAged, Touch
    <2>5. PinsAged'
      BY <2>1, <2>2, <2>4 DEF PinInv, PinsAged
    <2> QED
      BY <1>0, <2>1, <2>5 DEF PinInv, PinsFit, DropsColdest
  <1>5. CASE Aging
    <2>1. DOMAIN store' = DOMAIN store
      BY <1>5 DEF Aging
    <2>2. ASSUME NEW k \in DOMAIN store
          PROVE  /\ {"idle", "routed"} \subseteq DOMAIN store'[k]
                 /\ store'[k].idle = older(store[k].idle) /\ store'[k].routed = older(store[k].routed)
      <3>1. store'[k] = [store[k] EXCEPT !.idle = older(store[k].idle), !.routed = older(store[k].routed)]
        BY <1>5 DEF Aging
      <3> QED
        BY <3>1 DEF PinInv, PinsAged
    <2>3. \A k \in DOMAIN store : older(store[k].idle) \in Nat /\ store[k].routed = store[k].idle
      BY DEF older, PinInv, PinsAged, SessionAssumption
    <2>4. PinsAged'
      BY <2>1, <2>2, <2>3 DEF PinsAged
    <2> QED
      BY <1>0, <2>1, <2>4 DEF PinInv, PinsFit, DropsColdest
  <1> QED
    BY <1>1, <1>2, <1>3, <1>4, <1>5 DEF StoreStep

(* Lookup, Pin, PromoteIfChanged, evictLRU, Active: for any sessions, cap, *)
(* ttl, targets and interleaving of requests, a session routed within its  *)
(* ttl loses its pin only at the cap, and only if none is colder.          *)
THEOREM WarmSessions ==
    ASSUME SessionAssumption
    PROVE  SSpec => WarmKept
  <1>1. SInit => PinInv
    <2>1. IsFiniteSet({}) /\ Cardinality({}) = 0
      BY FS_EmptySet
    <2> SUFFICES ASSUME SInit PROVE PinInv
      OBVIOUS
    <2>2. DOMAIN store = {}
      BY DEF SInit
    <2> QED
      BY <2>1, <2>2 DEF PinInv, PinsFit, PinsAged, SessionAssumption
  <1>2. PinInv /\ [SNext]_svars => PinInv' /\ (svars' # svars => DropsColdest)
    <2>1. CASE SNext
      BY <2>1, StoreSteps, StoreKept
    <2>2. CASE UNCHANGED svars
      BY <2>2 DEF svars, PinInv, PinsFit, PinsAged
    <2> QED
      BY <2>1, <2>2
  <1>3. PinInv /\ [SNext]_svars => [DropsColdest]_svars
    BY <1>2
  <1> QED
    BY <1>1, <1>2, <1>3, PTL DEF SSpec, WarmKept

-----------------------------------------------------------------------------
(* Conversation identities.                                                *)

IsChain(s) == s \in Seq(Range(s))

(* A non-empty set of natural numbers has a least element.                 *)
LEMMA LeastNat ==
    ASSUME NEW T, T \subseteq Nat, T # {}
    PROVE  Min(T) \in T /\ \A y \in T : Min(T) <= y
  <1>1. \E x \in T : \A y \in T : ~(<<y, x>> \in OpToRel(<, Nat))
    BY NatLessThanWellFounded, WFMin
  <1>2. PICK x \in T : \A y \in T : ~(<<y, x>> \in OpToRel(<, Nat))
    BY <1>1
  <1>3. ASSUME NEW y \in T PROVE x <= y
    <2>1. x \in Nat /\ y \in Nat
      OBVIOUS
    <2>2. ~(<<y, x>> \in OpToRel(<, Nat))
      BY <1>2
    <2>3. ~(y < x)
      BY <2>1, <2>2 DEF OpToRel
    <2> QED
      BY <2>1, <2>3
  <1> QED
    BY <1>3 DEF Min

(* lcpTurns of two chains: whether they share the first message, and the   *)
(* first two.                                                              *)
LEMMA LcpTurns ==
    ASSUME NEW a, NEW b, IsChain(a), IsChain(b), Len(a) >= 1, Len(b) >= 1
    PROVE  /\ lcpTurns(a, b) \in Nat
           /\ lcpTurns(a, b) >= 1 <=> a[1] = b[1]
           /\ lcpTurns(a, b) >= 2 <=> Len(a) >= 2 /\ Len(b) >= 2 /\ a[1] = b[1] /\ a[2] = b[2]
  <1> DEFINE n == IF Len(b) < Len(a) THEN Len(b) ELSE Len(a)
             differ == {i \in 1..n : a[i] # b[i]}
  <1>1. Len(a) \in Nat /\ Len(b) \in Nat
    BY DEF IsChain
  <1>2. n \in Nat /\ n >= 1 /\ (n >= 2 <=> Len(a) >= 2 /\ Len(b) >= 2)
    BY <1>1
  <1>3. lcpTurns(a, b) = IF differ = {} THEN n ELSE Min(differ) - 1
    BY DEF lcpTurns
  <1>4. \A i \in 1..n : i \in differ <=> a[i] # b[i]
    OBVIOUS
  <1>5. differ \subseteq 1..n
    OBVIOUS
  <1> HIDE DEF n, differ
  <1>6. CASE differ = {}
    <2>1. lcpTurns(a, b) = n
      BY <1>3, <1>6
    <2>2. \A i \in 1..n : a[i] = b[i]
      BY <1>4, <1>6
    <2> QED
      BY <1>2, <2>1, <2>2
  <1>7. CASE differ # {}
    <2> DEFINE m == Min(differ)
    <2>1. differ \subseteq Nat
      BY <1>2, <1>5
    <2>2. m \in differ /\ \A y \in differ : m <= y
      BY <1>7, <2>1, LeastNat
    <2>3. lcpTurns(a, b) = m - 1
      BY <1>3, <1>7
    <2> HIDE DEF m
    <2>4. m \in 1..n /\ a[m] # b[m] /\ \A i \in 1..n : i < m => a[i] = b[i]
      BY <1>2, <1>4, <1>5, <2>2
    <2> QED
      BY <1>2, <2>3, <2>4
  <1> QED
    BY <1>6, <1>7

(* BuildAffinityChain takes a chain from a conversation.                   *)
LEMMA ChainBuilt ==
    ASSUME AffinityAssumption, NEW c \in Conversations, NEW n \in 1..Len(c.messages)
    PROVE  IsChain(BuildAffinityChain(c, n)) /\ Len(BuildAffinityChain(c, n)) >= 1
  <1> DEFINE s == c.messages
             m == IF n > Depth THEN Depth ELSE n
  <1>1. s \in Seq(Range(s)) /\ Len(s) \in Nat
    BY DEF AffinityAssumption
  <1>2. m \in Nat /\ m >= 1 /\ m <= Len(s)
    BY <1>1 DEF AffinityAssumption
  <1>3. BuildAffinityChain(c, n) = SubSeq(s, 1, m)
    BY DEF BuildAffinityChain
  <1> HIDE DEF m, s
  <1>4. /\ Len(SubSeq(s, 1, m)) = m
        /\ SubSeq(s, 1, m) = [i \in 1..m |-> s[i]]
    BY <1>1, <1>2
  <1>5. [i \in 1..m |-> s[i]] \in Seq(Range([i \in 1..m |-> s[i]]))
    BY <1>2 DEF Range
  <1> QED
    BY <1>2, <1>3, <1>4, <1>5 DEF IsChain

(* The prefix a fork folds, and the two messages of an opening.            *)
LEMMA ShortPrefix ==
    ASSUME NEW a, IsChain(a), Len(a) >= 1
    PROVE  /\ SubSeq(a, 1, 0) = <<>> /\ SubSeq(a, 1, 1) = <<a[1]>>
           /\ Len(a) >= 2 => SubSeq(a, 1, 2) = <<a[1], a[2]>>
  <1>1. a \in Seq(Range(a)) /\ Len(a) \in Nat
    BY DEF IsChain
  <1>2. SubSeq(a, 1, 0) = <<>>
    BY <1>1
  <1>3. SubSeq(a, 1, 1) = [i \in 1..1 |-> a[i]]
    BY <1>1
  <1>4. Len(a) >= 2 => SubSeq(a, 1, 2) = [i \in 1..2 |-> a[i]]
    BY <1>1
  <1>5. [i \in 1..1 |-> a[i]] = <<a[1]>> /\ [i \in 1..2 |-> a[i]] = <<a[1], a[2]>>
    OBVIOUS
  <1> QED
    BY <1>2, <1>3, <1>4, <1>5

(* What an opening o is told while the chain e is remembered at its root:  *)
(* the key if e begins like it, else a fork that folds what they share.    *)
(* The root never remembers less than two messages of an opening that      *)
(* begins like it.                                                         *)
Fork(r, prefix) == [root |-> r, fork |-> TRUE, prefix |-> prefix]
Told(o, e, id) ==
    IF e[1] # o.turns[1] THEN id = Fork(o.root, <<>>)
    ELSE Len(e) >= 2 /\ id = IF e[2] = o.turns[2] THEN rootKey(o.root) ELSE Fork(o.root, <<e[1]>>)

EntriesTyped ==
    \A k \in DOMAIN entries :
        {"chain", "age"} \subseteq DOMAIN entries[k] /\ IsChain(entries[k].chain) /\ Len(entries[k].chain) >= 1
GivenTold ==
    \A o \in DOMAIN given :
        /\ o = [root |-> o.root, turns |-> <<o.turns[1], o.turns[2]>>]
        /\ rootKey(o.root) \in DOMAIN entries
        /\ Told(o, entries[rootKey(o.root)].chain, given[o])
GivenInv == EntriesTyped /\ GivenTold

(* Two openings that hold one root begin like its entry, both of them.     *)
LEMMA HoldersAlike == GivenTold => RootUnshared
  <1> SUFFICES ASSUME GivenTold, NEW o \in DOMAIN given, NEW p \in DOMAIN given, o.root = p.root,
                      given[o] = rootKey(o.root), given[p] = rootKey(p.root)
               PROVE  o = p
    BY DEF RootUnshared
  <1> DEFINE e == entries[rootKey(o.root)].chain
  <1>1. ASSUME NEW q \in {o, p}
        PROVE  q = [root |-> o.root, turns |-> <<e[1], e[2]>>]
    <2>1. q = [root |-> q.root, turns |-> <<q.turns[1], q.turns[2]>>] /\ Told(q, e, rootKey(q.root)) /\ q.root = o.root
      BY DEF GivenTold
    <2>2. \A x : Fork(q.root, x) # rootKey(q.root)
      BY DEF Fork, rootKey
    <2>3. e[1] = q.turns[1] /\ e[2] = q.turns[2]
      BY <2>1, <2>2 DEF Told
    <2> QED
      BY <2>1, <2>3
  <1> QED
    BY <1>1

(* identity: a request that shows an opening is told what the remembered   *)
(* chain says of it, or takes over a root that knew no second message.     *)
LEMMA IdentityTold ==
    ASSUME NEW r, NEW chain, IsChain(chain), Len(chain) >= 2, EntriesTyped, rootKey(r) \in unexpired,
           NEW o, o = [root |-> r, turns |-> <<chain[1], chain[2]>>]
    PROVE  LET e == entries[rootKey(r)].chain IN
           \/ Told(o, e, identity(r, chain))
           \/ e[1] = chain[1] /\ ~(Len(e) >= 2) /\ identity(r, chain) = rootKey(r)
  <1> DEFINE e == entries[rootKey(r)].chain
             s == lcpTurns(e, chain)
  <1>1. rootKey(r) \in DOMAIN entries
    BY DEF unexpired
  <1>2. IsChain(e) /\ Len(e) >= 1 /\ Len(e) \in Nat /\ Len(chain) \in Nat
    BY <1>1 DEF EntriesTyped, IsChain
  <1>3. /\ s \in Nat
        /\ s >= 1 <=> e[1] = chain[1]
        /\ s >= 2 <=> Len(e) >= 2 /\ Len(chain) >= 2 /\ e[1] = chain[1] /\ e[2] = chain[2]
    BY <1>2, LcpTurns
  <1>4. o.root = r /\ o.turns[1] = chain[1] /\ o.turns[2] = chain[2]
    OBVIOUS
  <1>5. continues(entries[rootKey(r)], chain) <=> s >= (IF Len(e) < 2 THEN Len(e) ELSE 2)
    BY DEF continues
  <1>6. identity(r, chain) = IF continues(entries[rootKey(r)], chain) THEN rootKey(r) ELSE Fork(r, SubSeq(chain, 1, s))
    BY DEF identity, forkKey, Fork
  <1>7. SubSeq(chain, 1, 0) = <<>> /\ SubSeq(chain, 1, 1) = <<chain[1]>>
    BY <1>2, ShortPrefix
  <1> HIDE DEF e, s
  <1>8. CASE e[1] # chain[1]
    <2>1. s = 0 /\ ~continues(entries[rootKey(r)], chain)
      BY <1>2, <1>3, <1>5, <1>8
    <2> QED
      BY <1>4, <1>6, <1>7, <1>8, <2>1 DEF Told, e
  <1>9. CASE e[1] = chain[1] /\ ~(Len(e) >= 2)
    <2>1. continues(entries[rootKey(r)], chain)
      BY <1>2, <1>3, <1>5, <1>9
    <2> QED
      BY <1>6, <1>9, <2>1 DEF e
  <1>10. CASE e[1] = chain[1] /\ Len(e) >= 2 /\ e[2] = chain[2]
    <2>1. continues(entries[rootKey(r)], chain)
      BY <1>2, <1>3, <1>5, <1>10
    <2> QED
      BY <1>4, <1>6, <1>10, <2>1 DEF Told, e
  <1>11. CASE e[1] = chain[1] /\ Len(e) >= 2 /\ e[2] # chain[2]
    <2>1. s = 1 /\ ~continues(entries[rootKey(r)], chain)
      BY <1>2, <1>3, <1>5, <1>11
    <2>2. identity(r, chain) = Fork(r, <<e[1]>>)
      BY <1>6, <1>7, <1>11, <2>1
    <2> QED
      BY <1>4, <1>11, <2>2 DEF Told, e
  <1> QED
    BY <1>8, <1>9, <1>10, <1>11

(* A chain that continues the remembered one changes nothing an opening    *)
(* was told.                                                               *)
LEMMA ContinuesTold ==
    ASSUME NEW entry, NEW chain, IsChain(entry.chain), Len(entry.chain) >= 1, IsChain(chain), Len(chain) >= 1,
           continues(entry, chain), NEW o, NEW id, Told(o, entry.chain, id)
    PROVE  Told(o, chain, id)
  <1> DEFINE e == entry.chain
             s == lcpTurns(e, chain)
  <1>1. Len(e) \in Nat /\ Len(chain) \in Nat
    BY DEF IsChain
  <1>2. /\ s \in Nat
        /\ s >= 1 <=> e[1] = chain[1]
        /\ s >= 2 <=> Len(e) >= 2 /\ Len(chain) >= 2 /\ e[1] = chain[1] /\ e[2] = chain[2]
    BY LcpTurns
  <1>3. s >= (IF Len(e) < 2 THEN Len(e) ELSE 2)
    BY DEF continues
  <1> HIDE DEF e, s
  <1>4. e[1] = chain[1] /\ (Len(e) >= 2 => Len(chain) >= 2 /\ e[2] = chain[2])
    BY <1>1, <1>2, <1>3 DEF e
  <1> QED
    BY <1>4 DEF Told, e

(* One request: identities stay, and are what the entries say.             *)
LEMMA IdentityKept ==
    ASSUME AffinityAssumption, GivenInv, NEW c \in Conversations, NEW n \in 1..Len(c.messages), ResolveIdentity(c, n)
    PROVE  GivenInv' /\ IdentitiesStay
  <1> DEFINE r == SessionKeyForSubject(c, n)
             chain == BuildAffinityChain(c, n)
             key == identity(r, chain)
             new == [chain |-> chain, age |-> 0]
             kept == {o \in DOMAIN given : rootKey(o.root) \in DOMAIN entries' /\ rootKey(o.root) \in unexpired}
             shown == {o \in openings(r, chain) : rootKey(o.root) \in DOMAIN entries'}
  <1>1. PICK gone \in pushedOut(key) :
            entries' = [k \in (unexpired \ gone) \cup {key} |-> IF k = key THEN new ELSE entries[k]]
    BY DEF ResolveIdentity
  <1>2. given' = [o \in kept \cup shown |-> IF o \in shown THEN key ELSE given[o]]
    BY DEF ResolveIdentity
  <1>3. IsChain(chain) /\ Len(chain) >= 1 /\ Len(chain) \in Nat
    BY ChainBuilt DEF IsChain
  <1>4. key = IF rootKey(r) \notin unexpired \/ continues(entries[rootKey(r)], chain) THEN rootKey(r)
              ELSE forkKey(r, chain, lcpTurns(entries[rootKey(r)].chain, chain))
    BY DEF identity
  <1>5. new.chain = chain /\ {"chain", "age"} \subseteq DOMAIN new
    OBVIOUS
  <1>6. \A q, p : rootKey(q) = rootKey(p) => q = p
    BY DEF rootKey
  <1>7. \A q, p, x, y : rootKey(q) # forkKey(p, x, y)
    BY DEF rootKey, forkKey
  <1>8. DOMAIN entries' = (unexpired \ gone) \cup {key} /\ \A k \in DOMAIN entries' : entries'[k] = IF k = key THEN new ELSE entries[k]
    BY <1>1
  <1>9. unexpired \subseteq DOMAIN entries
    BY DEF unexpired
  <1>10. ASSUME NEW o \in shown
         PROVE  /\ Len(chain) >= 2 /\ o = [root |-> r, turns |-> <<chain[1], chain[2]>>]
                /\ rootKey(r) \in DOMAIN entries'
    <2>1. Len(chain) >= 2 /\ o = [root |-> r, turns |-> SubSeq(chain, 1, 2)] /\ rootKey(o.root) \in DOMAIN entries'
      BY <1>3 DEF openings
    <2> QED
      BY <1>3, <2>1, ShortPrefix
  <1>11. ASSUME NEW o \in shown, rootKey(r) \in unexpired
         PROVE  \/ Told(o, entries[rootKey(r)].chain, key)
                \/ /\ entries[rootKey(r)].chain[1] = chain[1] /\ ~(Len(entries[rootKey(r)].chain) >= 2)
                   /\ key = rootKey(r)
    BY <1>3, <1>10, <1>11, IdentityTold DEF GivenInv
  <1>12. DOMAIN given' = kept \cup shown /\ \A o \in kept \cup shown : given'[o] = IF o \in shown THEN key ELSE given[o]
    BY <1>2
  <1>13. \A o \in kept : o \in DOMAIN given /\ rootKey(o.root) \in DOMAIN entries' /\ rootKey(o.root) \in unexpired
    OBVIOUS
  <1> HIDE DEF r, chain, key, new, kept, shown
  <1>14. ASSUME NEW k \in DOMAIN entries'
         PROVE  {"chain", "age"} \subseteq DOMAIN entries'[k] /\ IsChain(entries'[k].chain) /\ Len(entries'[k].chain) >= 1
    <2>1. CASE k = key
      BY <1>3, <1>5, <1>8, <2>1
    <2>2. CASE k # key
      BY <1>8, <1>9, <2>2 DEF GivenInv, EntriesTyped
    <2> QED
      BY <2>1, <2>2
  <1>15. ASSUME NEW o \in DOMAIN given'
         PROVE  /\ o = [root |-> o.root, turns |-> <<o.turns[1], o.turns[2]>>]
                /\ rootKey(o.root) \in DOMAIN entries'
                /\ Told(o, entries'[rootKey(o.root)].chain, given'[o])
    <2>1. CASE o \in shown /\ key = rootKey(r)
      <3>1. o.root = r /\ o.turns[1] = chain[1] /\ o.turns[2] = chain[2] /\ given'[o] = rootKey(o.root)
        BY <1>10, <1>12, <2>1
      <3>2. entries'[rootKey(r)].chain = chain
        BY <1>5, <1>8, <2>1
      <3> QED
        BY <1>10, <2>1, <3>1, <3>2 DEF Told
    <2>2. CASE o \in shown /\ key # rootKey(r)
      <3>1. rootKey(r) \in unexpired
        BY <1>4, <2>2
      <3>2. entries'[rootKey(r)] = entries[rootKey(r)]
        BY <1>8, <1>10, <2>2
      <3>3. Told(o, entries[rootKey(r)].chain, key)
        BY <1>11, <2>2, <3>1
      <3> QED
        BY <1>10, <1>12, <2>2, <3>2, <3>3
    <2>3. CASE o \notin shown
      <3>1. o \in DOMAIN given /\ rootKey(o.root) \in DOMAIN entries' /\ rootKey(o.root) \in unexpired /\ given'[o] = given[o]
        BY <1>12, <1>13, <2>3
      <3>2. /\ o = [root |-> o.root, turns |-> <<o.turns[1], o.turns[2]>>]
            /\ Told(o, entries[rootKey(o.root)].chain, given[o])
        BY <3>1 DEF GivenInv, GivenTold
      <3>3. CASE rootKey(o.root) # key
        BY <1>8, <3>1, <3>2, <3>3
      <3>4. CASE rootKey(o.root) = key
        <4>1. o.root = r /\ key = rootKey(r)
          BY <1>4, <1>6, <1>7, <3>4
        <4>2. continues(entries[rootKey(r)], chain)
          BY <1>4, <1>7, <3>1, <4>1
        <4>3. IsChain(entries[rootKey(r)].chain) /\ Len(entries[rootKey(r)].chain) >= 1
          BY <1>9, <3>1, <4>1 DEF GivenInv, EntriesTyped
        <4>4. Told(o, chain, given[o])
          BY <1>3, <3>2, <4>1, <4>2, <4>3, ContinuesTold
        <4>5. entries'[rootKey(o.root)].chain = chain
          BY <1>5, <1>8, <3>4
        <4> QED
          BY <3>1, <3>2, <4>4, <4>5
      <3> QED
        BY <3>3, <3>4
    <2> QED
      BY <2>1, <2>2, <2>3
  <1>16. ASSUME NEW o \in DOMAIN given, o \in DOMAIN given', rootKey(o.root) \in unexpired
         PROVE  given'[o] = given[o]
    <2>1. CASE o \notin shown
      BY <1>12, <1>16, <2>1
    <2>2. CASE o \in shown
      <3> DEFINE e == entries[rootKey(r)].chain
      <3>1. o.root = r /\ o.turns[1] = chain[1] /\ o.turns[2] = chain[2]
        BY <1>10, <2>2
      <3>2. Told(o, e, given[o])
        BY <3>1 DEF GivenInv, GivenTold
      <3>3. Told(o, e, key) \/ (e[1] = chain[1] /\ ~(Len(e) >= 2))
        BY <1>11, <1>16, <2>2, <3>1
      <3> HIDE DEF e
      <3>4. given[o] = key
        BY <3>1, <3>2, <3>3 DEF Told
      <3> QED
        BY <1>12, <2>2, <3>4
    <2> QED
      BY <2>1, <2>2
  <1> QED
    BY <1>14, <1>15, <1>16 DEF GivenInv, EntriesTyped, GivenTold, IdentitiesStay

(* ResolveIdentity: for any conversations, cap and ttl, while a session    *)
(* key is remembered two conversations that do not begin with the same two *)
(* messages never share it, and each keeps the identity it was given.      *)
THEOREM NoTakeover ==
    ASSUME AffinityAssumption
    PROVE  FSpec => OpenerOwned
  <1>1. FInit => GivenInv
    BY DEF FInit, GivenInv, EntriesTyped, GivenTold
  <1>2. GivenInv /\ [FNext]_fvars => GivenInv' /\ [IdentitiesStay]_fvars
    <2> SUFFICES ASSUME GivenInv, [FNext]_fvars PROVE GivenInv' /\ [IdentitiesStay]_fvars
      OBVIOUS
    <2>1. ASSUME NEW c \in Conversations, NEW n \in 1..Len(c.messages), ResolveIdentity(c, n) PROVE GivenInv' /\ IdentitiesStay
      BY <2>1, IdentityKept
    <2>2. CASE Idle
      <3>1. DOMAIN entries' = DOMAIN entries /\ given' = given
        BY <2>2 DEF Idle
      <3>2. ASSUME NEW k \in DOMAIN entries
            PROVE  {"chain", "age"} \subseteq DOMAIN entries'[k] /\ entries'[k].chain = entries[k].chain
        <4>1. PICK v : entries'[k] = [entries[k] EXCEPT !.age = v]
          BY <2>2 DEF Idle
        <4> QED
          BY <4>1 DEF GivenInv, EntriesTyped
      <3> QED
        BY <3>1, <3>2 DEF GivenInv, EntriesTyped, GivenTold, IdentitiesStay
    <2>3. CASE UNCHANGED fvars
      BY <2>3 DEF fvars, GivenInv, EntriesTyped, GivenTold
    <2> QED
      BY <2>1, <2>2, <2>3 DEF FNext
  <1>3. GivenInv => RootUnshared
    BY HoldersAlike DEF GivenInv
  <1> QED
    BY <1>1, <1>2, <1>3, PTL DEF FSpec, OpenerOwned

-----------------------------------------------------------------------------
(* Rate limits.  Levels are products of a limit and the ticks of a minute, *)
(* which the provers meet only through the next two lemmas.                *)

(* A product of naturals is one, and grows with its first factor.          *)
LEMMA Products ==
    ASSUME NEW a \in Nat, NEW b \in Nat, NEW c \in Nat, a <= b
    PROVE  a * c \in Nat /\ b * c \in Nat /\ a * c <= b * c
  <1>1. PICK d \in Nat : b = a + d
    <2>1. b - a \in Nat /\ b = a + (b - a)
      OBVIOUS
    <2> QED
      BY <2>1
  <1>2. a * c \in Nat /\ d * c \in Nat
    OBVIOUS
  <1>3. (a + d) * c = a * c + d * c
    OBVIOUS
  <1> QED
    BY <1>1, <1>2, <1>3

(* refill: a level stays natural, and a minute after the last admission it *)
(* is worth whatever a request within the limit asks for.                  *)
LEMMA Refill ==
    ASSUME RateAssumption, NEW have \in Nat, NEW max \in Nat, NEW elapsed \in Nat
    PROVE  /\ refill(have, max, elapsed) \in Nat
           /\ elapsed >= TicksPerMinute /\ max > 0 =>
                  \A n \in Nat : n <= max => refill(have, max, elapsed) >= n * TicksPerMinute
  <1>1. TicksPerMinute \in Nat
    BY DEF RateAssumption
  <1>2. max * TicksPerMinute \in Nat /\ elapsed * max \in Nat
    BY <1>1
  <1> DEFINE full == max * TicksPerMinute
             gain == elapsed * max
  <1>3. refill(have, max, elapsed) = IF max > 0 THEN IF full < have + gain THEN full ELSE have + gain ELSE have
    BY DEF refill, Least
  <1>4. ASSUME elapsed >= TicksPerMinute, max > 0, NEW n \in Nat, n <= max
        PROVE  full >= n * TicksPerMinute /\ gain >= full /\ n * TicksPerMinute \in Nat
    <2>1. n * TicksPerMinute <= max * TicksPerMinute /\ n * TicksPerMinute \in Nat
      BY <1>1, <1>4, Products
    <2>2. TicksPerMinute * max <= elapsed * max
      BY <1>1, <1>4, Products
    <2>3. TicksPerMinute * max = max * TicksPerMinute
      BY <1>1
    <2> QED
      BY <1>2, <2>1, <2>2, <2>3
  <1>5. full \in Nat /\ gain \in Nat
    BY <1>2
  <1> HIDE DEF full, gain
  <1>6. refill(have, max, elapsed) \in Nat
    BY <1>3, <1>5
  <1>7. ASSUME elapsed >= TicksPerMinute, max > 0, NEW n \in Nat, n <= max
        PROVE  refill(have, max, elapsed) >= n * TicksPerMinute
    <2>1. full >= n * TicksPerMinute /\ gain >= full /\ n * TicksPerMinute \in Nat
      BY <1>4, <1>7
    <2> QED
      BY <1>3, <1>5, <1>7, <2>1
  <1> QED
    BY <1>6, <1>7

(* A bucket is never dated in the future, so nothing is refilled twice.    *)
Dated(b) == b \in Bucket /\ b.lastRefill <= now
RateInv == TypeOK /\ now \in Nat /\ \A h \in DOMAIN limits : Dated(limits[h])

(* refilled, field by field.                                               *)
LEMMA Refilled ==
    ASSUME RateAssumption, now \in Nat, NEW b, Dated(b)
    PROVE  /\ Dated(refilled(b))
           /\ refilled(b).maxRPM = b.maxRPM /\ refilled(b).maxTPM = b.maxTPM
           /\ refilled(b).rpm = refill(b.rpm, b.maxRPM, now - b.lastRefill)
           /\ refilled(b).tpm = refill(b.tpm, b.maxTPM, now - b.lastRefill)
  <1>1. b.rpm \in Nat /\ b.tpm \in Nat /\ b.maxRPM \in Nat /\ b.maxTPM \in Nat /\ b.lastRefill \in Nat
    BY DEF Dated, Bucket
  <1>2. now - b.lastRefill \in Nat
    BY <1>1 DEF Dated
  <1> DEFINE r == refill(b.rpm, b.maxRPM, now - b.lastRefill)
             t == refill(b.tpm, b.maxTPM, now - b.lastRefill)
  <1>3. r \in Nat /\ t \in Nat
    BY <1>1, <1>2, Refill
  <1>4. refilled(b) = [[b EXCEPT !.rpm = r] EXCEPT !.tpm = t]
    BY DEF refilled
  <1> HIDE DEF r, t
  <1>5. refilled(b) \in Bucket /\ refilled(b).lastRefill = b.lastRefill
        /\ refilled(b).maxRPM = b.maxRPM /\ refilled(b).maxTPM = b.maxTPM
        /\ refilled(b).rpm = r /\ refilled(b).tpm = t
    BY <1>3, <1>4 DEF Dated, Bucket
  <1> QED
    BY <1>5 DEF Dated, r, t

(* checkDetailed leaves a bucket without a negative level.                 *)
LEMMA Checked ==
    ASSUME RateAssumption, now \in Nat, NEW b, Dated(b), NEW tokens \in Sizes
    PROVE  Dated(checked(b, tokens))
  <1> DEFINE f == refilled(b)
  <1>1. Dated(f)
    BY Refilled
  <1>2. TicksPerMinute \in Nat /\ tokens \in Nat /\ tokens * TicksPerMinute \in Nat
    BY DEF RateAssumption
  <1>3. CASE ~passes(f, tokens)
    BY <1>1, <1>3 DEF checked
  <1>4. CASE passes(f, tokens)
    <2> DEFINE cost == tokens * TicksPerMinute
               r == IF f.maxRPM > 0 THEN f.rpm - TicksPerMinute ELSE f.rpm
               t == IF f.maxTPM = 0 THEN f.tpm ELSE IF f.tpm > cost THEN f.tpm - cost ELSE 0
    <2>1. checked(b, tokens) = [[[f EXCEPT !.rpm = r] EXCEPT !.tpm = t] EXCEPT !.lastRefill = now]
      BY <1>4 DEF checked, consume
    <2>2. f \in Bucket /\ (f.maxRPM > 0 => f.rpm >= TicksPerMinute)
      BY <1>1, <1>4 DEF passes, Dated
    <2>3. cost \in Nat
      BY <1>2
    <2> HIDE DEF f, cost
    <2>4. r \in Nat /\ t \in Nat
      BY <1>2, <2>2, <2>3 DEF Bucket
    <2> HIDE DEF r, t
    <2>5. [[[f EXCEPT !.rpm = r] EXCEPT !.tpm = t] EXCEPT !.lastRefill = now] \in Bucket
      BY <2>2, <2>4 DEF Bucket
    <2>6. [[[f EXCEPT !.rpm = r] EXCEPT !.tpm = t] EXCEPT !.lastRefill = now].lastRefill = now
      BY <2>2 DEF Bucket
    <2> QED
      BY <2>1, <2>5, <2>6 DEF Dated
  <1> QED
    BY <1>3, <1>4

(* CheckDetailed: eviction before insertion keeps the registry to its cap, *)
(* whichever of the two looks at its size decides.                         *)
LEMMA CheckKept ==
    ASSUME RateAssumption, RateInv, NEW h \in Hosts, NEW tokens \in Sizes, CheckDetailed(h, tokens)
    PROVE  RateInv'
  <1> DEFINE kept == DOMAIN limits \ evicted(h)
             D == kept \cup (IF room(h) THEN {h} ELSE {})
             b == bucketOf(h)
  <1>1. now' = now /\ effective' = effective
        /\ limits' = [k \in D |-> IF k = h THEN checked(b, tokens) ELSE limits[k]]
    BY DEF CheckDetailed
  <1>2. IsFiniteSet(DOMAIN limits) /\ DOMAIN limits \subseteq Hosts /\ Cardinality(DOMAIN limits) <= MaxHosts
    <2>1. IsFiniteSet(DOMAIN limits)
      BY FS_Subset DEF RateAssumption, RateInv, TypeOK
    <2> QED
      BY <2>1 DEF RateInv, TypeOK
  <1>3. IsFiniteSet(kept) /\ Cardinality(kept) <= Cardinality(DOMAIN limits)
    BY <1>2, FS_Subset
  <1>4. Cardinality(kept) \in Nat /\ Cardinality(DOMAIN limits) \in Nat /\ MaxHosts \in Nat
    BY <1>2, <1>3, FS_CardinalityType DEF RateAssumption
  <1>5. Cardinality(D) <= MaxHosts
    <2>1. CASE h \in DOMAIN limits
      <3>1. kept = DOMAIN limits
        BY <2>1 DEF evicted
      <3>2. D = DOMAIN limits
        BY <2>1, <3>1
      <3> QED
        BY <1>2, <3>2
    <2>2. CASE h \notin DOMAIN limits /\ room(h)
      <3>1. Cardinality(kept) < MaxHosts /\ D = kept \cup {h} /\ h \notin kept
        BY <2>2 DEF room
      <3>2. Cardinality(kept \cup {h}) = Cardinality(kept) + 1
        BY <1>3, <3>1, FS_AddElement
      <3>3. Cardinality(kept) + 1 <= MaxHosts
        BY <1>4, <3>1
      <3>4. Cardinality(D) = Cardinality(kept \cup {h})
        BY ONLY <3>1, Zenon
      <3> QED
        BY ONLY <3>2, <3>3, <3>4, Zenon
    <2>3. CASE ~room(h)
      <3>1. D = kept
        BY <2>3
      <3> QED
        BY <1>2, <1>3, <1>4, <3>1
    <2> QED
      BY <2>1, <2>2, <2>3
  <1>6. Dated(b)
    <2>1. CASE h \in DOMAIN limits
      BY <2>1 DEF bucketOf, RateInv
    <2>2. CASE h \notin DOMAIN limits
      <3>1. effective[h].rpm \in Nat /\ effective[h].tpm \in Nat /\ TicksPerMinute \in Nat /\ now \in Nat
        BY DEF RateInv, TypeOK, RateAssumption
      <3>2. effective[h].rpm * TicksPerMinute \in Nat /\ effective[h].tpm * TicksPerMinute \in Nat
        BY <3>1
      <3>3. b = newBucket(h)
        BY <2>2 DEF bucketOf
      <3> QED
        BY <3>1, <3>2, <3>3 DEF newBucket, Dated, Bucket
    <2> QED
      BY <2>1, <2>2
  <1>7. Dated(checked(b, tokens))
    BY <1>6, Checked DEF RateInv
  <1>8. D \subseteq Hosts /\ \A k \in D : k # h => k \in DOMAIN limits
    BY <1>2
  <1> HIDE DEF D, b
  <1>9. DOMAIN limits' = D
    BY <1>1
  <1>10. ASSUME NEW k \in D PROVE Dated(limits'[k])
    BY <1>1, <1>7, <1>8 DEF RateInv
  <1>11. \A k \in D : limits'[k] \in Bucket /\ limits'[k].lastRefill <= now'
    BY <1>1, <1>10 DEF Dated
  <1>12. limits' \in [DOMAIN limits' -> Bucket]
    <2>1. limits' = [k \in D |-> limits'[k]]
      BY <1>1
    <2> QED
      BY <1>9, <1>10, <2>1 DEF Dated
  <1> QED
    BY <1>1, <1>5, <1>8, <1>9, <1>11, <1>12 DEF RateInv, TypeOK, Dated

(* SetProviderLimits changes what a live bucket may hold, not its level.   *)
LEMMA LimitsKept ==
    ASSUME RateAssumption, RateInv, NEW h \in Hosts, NEW rpm \in Limits, NEW tpm \in Limits, SetProviderLimits(h, rpm, tpm)
    PROVE  RateInv'
  <1>1. now' = now /\ rpm \in Nat /\ tpm \in Nat
    BY DEF SetProviderLimits, RateAssumption
  <1>2. effective' \in [Hosts -> [rpm : Limits, tpm : Limits]]
    BY DEF SetProviderLimits, RateInv, TypeOK
  <1>3. CASE h \notin DOMAIN limits
    <2>1. limits' = limits
      BY <1>3 DEF SetProviderLimits
    <2> QED
      BY <1>1, <1>2, <2>1 DEF RateInv, TypeOK, Dated
  <1>4. CASE h \in DOMAIN limits
    <2> DEFINE new == [[limits[h] EXCEPT !.maxRPM = rpm] EXCEPT !.maxTPM = tpm]
    <2>1. limits' = [limits EXCEPT ![h] = new]
      BY <1>4 DEF SetProviderLimits, RateInv, TypeOK
    <2>2. new \in Bucket /\ new.lastRefill = limits[h].lastRefill
      BY <1>1, <1>4 DEF RateInv, Dated, Bucket
    <2> HIDE DEF new
    <2>3. DOMAIN limits' = DOMAIN limits /\ \A k \in DOMAIN limits : limits'[k] = IF k = h THEN new ELSE limits[k]
      BY <2>1
    <2>4. \A k \in DOMAIN limits' : limits'[k] \in Bucket /\ limits'[k].lastRefill <= now'
      BY <1>1, <2>2, <2>3 DEF RateInv, Dated
    <2>5. limits' \in [DOMAIN limits' -> Bucket]
      BY <2>1, <2>2 DEF RateInv, TypeOK
    <2> QED
      BY <1>1, <1>2, <2>3, <2>4, <2>5 DEF RateInv, TypeOK, Dated
  <1> QED
    BY <1>3, <1>4

(* What a minute earns pays for a request of any size.                     *)
LEMMA MinuteServes ==
    ASSUME RateAssumption, RateInv
    PROVE  NeverStarved
  <1> SUFFICES ASSUME NEW h \in DOMAIN limits, now - limits[h].lastRefill >= TicksPerMinute, NEW tokens \in Sizes
               PROVE  passes(refilled(limits[h]), tokens)
    BY DEF NeverStarved
  <1> DEFINE b == limits[h]
             e == now - b.lastRefill
             f == refilled(b)
  <1>1. Dated(b) /\ now \in Nat
    BY DEF RateInv
  <1>2. b.rpm \in Nat /\ b.tpm \in Nat /\ b.maxRPM \in Nat /\ b.maxTPM \in Nat /\ e \in Nat
    BY <1>1 DEF Dated, Bucket
  <1>3. /\ f.maxRPM = b.maxRPM /\ f.maxTPM = b.maxTPM
        /\ f.rpm = refill(b.rpm, b.maxRPM, e) /\ f.tpm = refill(b.tpm, b.maxTPM, e)
    BY <1>1, Refilled
  <1>4. tokens \in Nat /\ TicksPerMinute \in Nat
    BY DEF RateAssumption
  <1>5. e >= TicksPerMinute
    OBVIOUS
  <1> HIDE DEF b, e, f
  <1>6. ASSUME b.maxRPM > 0 PROVE f.rpm >= TicksPerMinute
    <2>1. 1 \in Nat /\ 1 <= b.maxRPM
      BY <1>2, <1>6
    <2>2. \A n \in Nat : n <= b.maxRPM => refill(b.rpm, b.maxRPM, e) >= n * TicksPerMinute
      BY <1>2, <1>5, <1>6, Refill
    <2>3. refill(b.rpm, b.maxRPM, e) >= 1 * TicksPerMinute
      BY ONLY <2>1, <2>2, Zenon
    <2> QED
      BY <1>3, <1>4, <2>3
  <1>7. ASSUME b.maxTPM > 0, ~(tokens >= b.maxTPM) PROVE f.tpm >= tokens * TicksPerMinute
    <2>1. tokens <= b.maxTPM
      BY <1>2, <1>4, <1>7
    <2>2. refill(b.tpm, b.maxTPM, e) >= tokens * TicksPerMinute
      BY <1>2, <1>4, <1>5, <1>7, <2>1, Refill
    <2> QED
      BY <1>3, <2>2
  <1> QED
    BY <1>3, <1>6, <1>7 DEF passes, b, f

(* CheckDetailed and SetProviderLimits: for any hosts, limits, sizes and   *)
(* registry cap, no level is ever negative, the registry keeps to its cap, *)
(* and one minute after its last admission a bucket admits a request of    *)
(* any size, whatever was rejected meanwhile and however limits changed.   *)
THEOREM NobodyStarved ==
    ASSUME RateAssumption
    PROVE  Spec => [](TypeOK /\ NeverStarved)
  <1>1. Init => RateInv
    <2> SUFFICES ASSUME Init PROVE RateInv
      OBVIOUS
    <2>1. DOMAIN limits = {} /\ limits \in [DOMAIN limits -> Bucket]
      BY DEF Init
    <2>2. Cardinality(DOMAIN limits) = 0
      BY <2>1, FS_EmptySet
    <2> QED
      BY <2>1, <2>2 DEF Init, RateInv, TypeOK, RateAssumption
  <1>2. RateInv /\ [Next]_vars => RateInv'
    <2> SUFFICES ASSUME RateInv, [Next]_vars PROVE RateInv'
      OBVIOUS
    <2>1. CASE Tick
      BY <2>1 DEF Tick, RateInv, TypeOK, Dated, Bucket
    <2>2. ASSUME NEW h \in Hosts, NEW tokens \in Sizes, CheckDetailed(h, tokens) PROVE RateInv'
      BY <2>2, CheckKept
    <2>3. ASSUME NEW h \in Hosts, NEW rpm \in Limits, NEW tpm \in Limits, SetProviderLimits(h, rpm, tpm) PROVE RateInv'
      BY <2>3, LimitsKept
    <2>4. CASE UNCHANGED vars
      BY <2>4 DEF vars, RateInv, TypeOK, Dated
    <2> QED
      BY <2>1, <2>2, <2>3, <2>4 DEF Next, Check
  <1>3. RateInv => TypeOK /\ NeverStarved
    BY MinuteServes DEF RateInv
  <1> QED
    BY <1>1, <1>2, <1>3, PTL DEF Spec

-----------------------------------------------------------------------------
(* Provider accounts.                                                      *)

(* The turns of the others that are left while a waits: the picks that     *)
(* find b strictly behind a, and ties, which the scan gives to those       *)
(* before a once a is at the floor.  A pick that passes a over uses up one *)
(* of them and no step gives one back, so with what has already passed     *)
(* they never exceed a round.                                              *)
Turn(a, b, i) ==
    IF i = 0 THEN clock[a] > Floor \/ rotated(b) < rotated(a)
    ELSE clock[b] + (i - 1) * tick(b) < clock[a]
TurnsLeft(a) == {t \in Turns(a) : Turn(a, t[1], t[2])}

ClocksTyped ==
    /\ lastPicked \in 0..N
    /\ clock \in [Ids -> Floor..0]
    /\ passed \in [Ids -> Nat]
RotationInv ==
    /\ ClocksTyped
    /\ \A a \in Ids : passed[a] + Cardinality(TurnsLeft(a)) <= Cardinality(Turns(a))

(* An advance is at least a unit, and at most a whole tick.                *)
LEMMA Ticks ==
    ASSUME AccountsAssumption, NEW a \in Ids
    PROVE  tick(a) \in Nat /\ tick(a) >= 1 /\ tick(a) <= Unit
  <1> DEFINE w == effectiveWeight(a)
             q == Unit \div w
  <1>1. w \in Nat /\ w >= 1 /\ Unit \in Nat /\ Unit >= 1
    BY DEF AccountsAssumption, effectiveWeight, Ids
  <1> HIDE DEF w
  <1>2. q \in Int /\ w * q <= Unit /\ Unit < w * q + w
    BY <1>1
  <1> HIDE DEF q
  <1>3. q >= 0
    <2> SUFFICES ASSUME q <= -1 PROVE FALSE
      BY <1>2
    <2>1. w * (q + 1) <= 0
      BY <1>1, <1>2
    <2>2. w * (q + 1) = w * q + w /\ w * q \in Int
      BY <1>1, <1>2
    <2> QED
      BY <1>1, <1>2, <2>1, <2>2
  <1>4. q <= w * q /\ w * q \in Int
    BY <1>1, <1>2, <1>3
  <1>5. q <= Unit
    BY <1>1, <1>2, <1>4
  <1>6. tick(a) = IF q = 0 THEN 1 ELSE q
    BY DEF tick, q, w
  <1> QED
    BY <1>1, <1>2, <1>3, <1>5, <1>6

(* A round has finitely many turns.                                        *)
LEMMA RoundFinite ==
    ASSUME AccountsAssumption, NEW a
    PROVE  IsFiniteSet(Turns(a)) /\ Cardinality(Turns(a)) \in Nat
  <1>1. IsFiniteSet(1..N) /\ IsFiniteSet(0..Unit)
    BY FS_Interval DEF AccountsAssumption
  <1>2. IsFiniteSet(Ids \ {a})
    BY <1>1, FS_Subset DEF Ids
  <1>3. IsFiniteSet((Ids \ {a}) \X (0..Unit))
    BY <1>1, <1>2, FS_Product
  <1>4. Turns(a) \subseteq (Ids \ {a}) \X (0..Unit)
    BY DEF Turns
  <1> QED
    BY <1>3, <1>4, FS_Subset, FS_CardinalityType

(* Counting: who is passed over uses up a turn, who is served has a whole  *)
(* round before it.                                                        *)
LEMMA TurnUsed ==
    ASSUME AccountsAssumption, NEW a, NEW L, NEW M, L \subseteq Turns(a), M \subseteq Turns(a), NEW n \in Nat, NEW m \in Nat,
           n + Cardinality(L) <= Cardinality(Turns(a)),
           \/ m = 0
           \/ m = n /\ M \subseteq L
           \/ m = n + 1 /\ M \subseteq L /\ \E t \in L : t \notin M
    PROVE  m + Cardinality(M) <= Cardinality(Turns(a))
  <1>1. IsFiniteSet(Turns(a)) /\ Cardinality(Turns(a)) \in Nat
    BY RoundFinite
  <1>2. /\ IsFiniteSet(L) /\ IsFiniteSet(M) /\ Cardinality(L) \in Nat /\ Cardinality(M) \in Nat
        /\ Cardinality(M) <= Cardinality(Turns(a))
    BY <1>1, FS_Subset, FS_CardinalityType
  <1>3. CASE m = 0
    BY <1>2, <1>3
  <1>4. CASE m = n /\ M \subseteq L
    <2>1. Cardinality(M) <= Cardinality(L)
      BY <1>2, <1>4, FS_Subset
    <2> QED
      BY <1>1, <1>2, <1>4, <2>1
  <1>5. CASE m = n + 1 /\ M \subseteq L /\ \E t \in L : t \notin M
    <2>1. PICK t \in L : t \notin M
      BY <1>5
    <2>2. IsFiniteSet(L \ {t}) /\ Cardinality(L \ {t}) = Cardinality(L) - 1
      BY <1>2, FS_RemoveElement
    <2>3. M \subseteq L \ {t}
      BY <1>5, <2>1
    <2>4. Cardinality(M) <= Cardinality(L) - 1
      BY <2>2, <2>3, FS_Subset
    <2> QED
      BY <1>1, <1>2, <1>5, <2>4
  <1> QED
    BY <1>3, <1>4, <1>5

(* The scan after the last pick, without the division.                     *)
LEMMA Scan ==
    ASSUME AccountsAssumption, NEW last \in 1..N, NEW a \in Ids
    PROVE  (a - last - 1 + N) % N = IF a > last THEN a - last - 1 ELSE a - last - 1 + N
  <1> DEFINE v == a - last - 1 + N
             q == v \div N
             m == v % N
  <1>1. /\ N \in Nat /\ N >= 1 /\ v \in Nat /\ v <= 2 * N - 2 /\ (a > last <=> v >= N)
        /\ v = a - last - 1 + N /\ a \in Int /\ last \in Int
    BY DEF AccountsAssumption, Ids
  <1> HIDE DEF v
  <1>2. q \in Int /\ m \in Nat
    BY <1>1, SMT
  <1>3. m < N
    BY <1>1, SMT
  <1>4. v = N * q + m
    BY <1>1, SMT
  <1> HIDE DEF q
  <1>5. N * q <= v /\ v < N * q + N
    <2> HIDE DEF m
    <2> QED
      BY <1>1, <1>2, <1>3, <1>4
  <1>6. q <= 1
    <2> SUFFICES ASSUME q >= 2 PROVE FALSE
      BY <1>2
    <2>1. N * q >= 2 * N
      BY <1>1, <1>2
    <2> QED
      BY <1>1, <1>2, <1>5, <2>1
  <1>7. q >= 0
    <2> SUFFICES ASSUME q <= -1 PROVE FALSE
      BY <1>2
    <2>1. N * q <= -N
      BY <1>1, <1>2
    <2> QED
      BY <1>1, <1>2, <1>5, <2>1
  <1>8. m = IF v >= N THEN v - N ELSE v
    <2> HIDE DEF m
    <2> QED
      BY <1>1, <1>2, <1>3, <1>4, <1>6, <1>7
  <1> QED
    BY <1>1, <1>8 DEF v, m

(* What a pick does to the clocks: l is the least of the available ones    *)
(* after the advance.                                                      *)
LEMMA PickClocks ==
    ASSUME AccountsAssumption, ClocksTyped, NEW S, S \subseteq Ids, NEW p \in S, Pick(S, p)
    PROVE  /\ ClocksTyped'
           /\ lastPicked' = p
           /\ \A b \in Ids : passed'[b] = IF b \in S \ {p} THEN passed[b] + 1 ELSE 0
           /\ \E l \in Int :
                /\ clock[p] <= l /\ \A b \in S \ {p} : l <= clock[b]
                /\ clock'[p] = clock[p] + tick(p) - (l - Floor)
                /\ \A b \in Ids \ {p} : clock'[b] = clampVirtualClock(clock[b] - (l - Floor))
  <1> DEFINE advanced == [clock EXCEPT ![p] = @ + tick(p)]
  <1>1. PICK low \in S : /\ \A b \in S : advanced[low] <= advanced[b]
                         /\ clock' = renormalizeVirtualClocks(advanced, advanced[low])
    BY DEF Pick
  <1>2. tick(p) \in Nat /\ tick(p) >= 1 /\ tick(p) <= Unit
    BY Ticks
  <1>3. /\ Unit \in Nat /\ Unit >= 1 /\ Floor = 0 - Unit /\ p \in Ids /\ low \in Ids
        /\ \A b \in Ids : clock[b] \in Int /\ clock[b] >= Floor /\ clock[b] <= 0
    BY DEF AccountsAssumption, ClocksTyped, Floor
  <1>4. /\ advanced[p] = clock[p] + tick(p)
        /\ \A b \in Ids \ {p} : advanced[b] = clock[b]
    BY DEF ClocksTyped
  <1>5. \A b \in S : clock[p] <= clock[b]
    BY <1>3 DEF Pick, leastRecentlyUsed
  <1> DEFINE l == advanced[low]
  <1>6. /\ l \in Int /\ clock[p] <= l /\ l <= clock[p] + tick(p)
        /\ \A b \in S \ {p} : l <= clock[b]
    BY <1>1, <1>2, <1>3, <1>4, <1>5
  <1>7. l - Floor \in Int /\ l - Floor >= 0
    BY <1>3, <1>6
  <1>8. clock' = [b \in Ids |-> clampVirtualClock(advanced[b] - (l - Floor))]
    BY <1>1, <1>3, <1>7 DEF renormalizeVirtualClocks
  <1> HIDE DEF advanced, l
  <1>9. clock'[p] = clock[p] + tick(p) - (l - Floor)
    <2>1. clock'[p] = clampVirtualClock(advanced[p] - (l - Floor))
      BY <1>3, <1>8
    <2> QED
      BY <2>1, <1>2, <1>3, <1>4, <1>6 DEF clampVirtualClock
  <1>10. \A b \in Ids \ {p} : clock'[b] = clampVirtualClock(clock[b] - (l - Floor))
    BY <1>4, <1>8
  <1>11. clock'[p] \in Floor..0
    BY <1>2, <1>3, <1>6, <1>9
  <1>12. \A b \in Ids \ {p} : clock'[b] \in Floor..0
    BY <1>3, <1>6, <1>7, <1>10 DEF clampVirtualClock
  <1>13. clock' \in [Ids -> Floor..0]
    BY <1>8, <1>11, <1>12
  <1>14. passed' \in [Ids -> Nat] /\ \A b \in Ids : passed'[b] = IF b \in S \ {p} THEN passed[b] + 1 ELSE 0
    BY DEF Pick, ClocksTyped
  <1>15. lastPicked' = p /\ lastPicked' \in 0..N
    BY <1>3 DEF Pick, Ids
  <1>16. ClocksTyped'
    BY <1>13, <1>14, <1>15 DEF ClocksTyped, Floor, Ids
  <1> QED
    BY <1>6, <1>9, <1>10, <1>14, <1>15, <1>16

(* A pick that finds p strictly behind a uses up the last of p's turns     *)
(* below a's clock.                                                        *)
LEMMA PickBehind ==
    ASSUME AccountsAssumption, ClocksTyped, NEW S, S \subseteq Ids, NEW p \in S, Pick(S, p),
           NEW a \in S \ {p}, clock[p] < clock[a]
    PROVE  TurnsLeft(a)' \subseteq TurnsLeft(a) /\ \E t \in TurnsLeft(a) : t \notin TurnsLeft(a)'
  <1>1. PICK l \in Int : /\ clock[p] <= l /\ \A b \in S \ {p} : l <= clock[b]
                         /\ clock'[p] = clock[p] + tick(p) - (l - Floor)
                         /\ \A b \in Ids \ {p} : clock'[b] = clampVirtualClock(clock[b] - (l - Floor))
    BY PickClocks
  <1>2. /\ Unit \in Nat /\ Unit >= 1 /\ Floor = 0 - Unit /\ p \in Ids /\ a \in Ids /\ a # p
        /\ \A b \in Ids : clock[b] \in Int /\ clock[b] >= Floor /\ clock[b] <= 0
    BY DEF AccountsAssumption, ClocksTyped, Floor
  <1>3. clock'[a] = clock[a] - (l - Floor)
    BY <1>1, <1>2 DEF clampVirtualClock
  <1>4. \A b \in Ids \ {p} : clock'[b] \in Int /\ clock'[b] >= clock[b] - (l - Floor)
    BY <1>1, <1>2 DEF clampVirtualClock
  <1>5. tick(p) \in Nat /\ tick(p) >= 1 /\ tick(p) <= Unit
    BY Ticks
  <1>6. ASSUME NEW t \in Turns(a), Turn(a, t[1], t[2])'
        PROVE  Turn(a, t[1], t[2])
    <2>1. /\ t[1] \in Ids /\ t[2] \in Nat /\ tick(t[1]) \in Nat
      BY Ticks DEF Turns
    <2>2. CASE t[2] = 0
      BY <1>2, <2>2 DEF Turn
    <2>3. CASE t[2] # 0
      <3> DEFINE x == (t[2] - 1) * tick(t[1])
      <3>1. x \in Int
        BY <2>1
      <3>2. Turn(a, t[1], t[2])' <=> clock'[t[1]] + x < clock'[a]
        BY <2>3 DEF Turn
      <3>3. Turn(a, t[1], t[2]) <=> clock[t[1]] + x < clock[a]
        BY <2>3 DEF Turn
      <3> HIDE DEF x
      <3>4. CASE t[1] = p
        BY <1>1, <1>2, <1>3, <1>5, <1>6, <3>1, <3>2, <3>3, <3>4
      <3>5. CASE t[1] # p
        BY <1>1, <1>2, <1>3, <1>4, <1>6, <2>1, <3>1, <3>2, <3>3, <3>5
      <3> QED
        BY <3>4, <3>5
    <2> QED
      BY <2>2, <2>3
  <1> DEFINE d == clock[a] - clock[p] - 1
             q == d \div tick(p)
  <1>7. d \in Nat /\ d < Unit
    BY <1>2
  <1>8. q \in Int /\ tick(p) * q <= d /\ d < tick(p) * q + tick(p)
    <2> HIDE DEF d
    <2> QED
      BY <1>5, <1>7, SMT
  <1> HIDE DEF q
  <1>9. q >= 0
    <2> SUFFICES ASSUME q <= -1 PROVE FALSE
      BY <1>8
    <2> HIDE DEF d
    <2>1. tick(p) * (q + 1) <= 0
      BY <1>5, <1>8
    <2>2. tick(p) * (q + 1) = tick(p) * q + tick(p) /\ tick(p) * q \in Int
      BY <1>5, <1>8
    <2> QED
      BY <1>5, <1>7, <1>8, <2>1, <2>2
  <1>10. q <= tick(p) * q /\ tick(p) * q \in Int /\ q * tick(p) = tick(p) * q
    BY <1>5, <1>8, <1>9
  <1>11. q + 1 \in 0..Unit /\ q + 1 # 0 /\ (q + 1) - 1 = q
    <2> HIDE DEF d
    <2> QED
      BY <1>2, <1>5, <1>7, <1>8, <1>9, <1>10
  <1>12. PICK k \in Nat : k = q + 1
    BY <1>8, <1>9
  <1> DEFINE x == (k - 1) * tick(p)
  <1>13. /\ k \in 0..Unit /\ k # 0 /\ x \in Int
         /\ x < Unit /\ clock[p] + x < clock[a] /\ clock[a] <= clock[p] + x + tick(p)
    <2>1. k - 1 = q /\ x = tick(p) * q
      BY <1>8, <1>10, <1>12
    <2>2. /\ k \in 0..Unit /\ k # 0
      BY <1>11, <1>12
    <2> HIDE DEF x
    <2> QED
      BY <1>2, <1>5, <1>7, <1>8, <1>10, <2>1, <2>2
  <1>14. Turn(a, p, k)
    BY <1>13 DEF Turn
  <1>15. ~ (Turn(a, p, k)')
    <2>1. Turn(a, p, k)' <=> clock'[p] + x < clock'[a]
      BY <1>13 DEF Turn
    <2> HIDE DEF x
    <2> QED
      BY <1>1, <1>2, <1>3, <1>5, <1>13, <2>1
  <1> DEFINE u == <<p, k>>
  <1>16. u \in Turns(a) /\ u[1] = p /\ u[2] = k
    BY <1>2, <1>13 DEF Turns
  <1> HIDE DEF u
  <1>17. u \in TurnsLeft(a) /\ u \notin TurnsLeft(a)'
    BY <1>14, <1>15, <1>16 DEF TurnsLeft
  <1>18. TurnsLeft(a)' \subseteq TurnsLeft(a)
    BY <1>6 DEF TurnsLeft, Turns
  <1> QED
    BY <1>17, <1>18

(* In a tie the scan starts after p, so p is behind a and nobody else gets *)
(* before it.                                                              *)
LEMMA ScanMovesOn ==
    ASSUME AccountsAssumption, lastPicked \in 0..N, NEW p \in Ids, NEW a \in Ids \ {p}, lastPicked' = p,
           rotated(p) <= rotated(a)
    PROVE  /\ rotated(p) < rotated(a) /\ ~ (rotated(p)' < rotated(a)')
           /\ \A b \in Ids : rotated(b)' < rotated(a)' => rotated(b) < rotated(a)
  <1>1. \A b \in Ids : rotated(b)' = IF b > p THEN b - p - 1 ELSE b - p - 1 + N
    BY Scan DEF rotated, Ids
  <1>2. CASE lastPicked = 0
    <2>1. \A b \in Ids : rotated(b) = b
      BY <1>2 DEF rotated
    <2> QED
      BY <1>1, <2>1 DEF Ids, AccountsAssumption
  <1>3. CASE lastPicked # 0
    <2>1. \A b \in Ids : rotated(b) = IF b > lastPicked THEN b - lastPicked - 1 ELSE b - lastPicked - 1 + N
      BY <1>3, Scan DEF rotated, Ids
    <2>2. N \in Nat /\ lastPicked \in 1..N /\ p \in 1..N /\ a \in 1..N /\ a # p
      BY <1>3 DEF Ids, AccountsAssumption
    <2>3. (a > p /\ (a <= lastPicked \/ p > lastPicked)) \/ (a < p /\ p > lastPicked /\ a <= lastPicked)
      BY <2>1, <2>2 DEF Ids
    <2>4. rotated(p) < rotated(a) /\ ~ (rotated(p)' < rotated(a)')
      BY <1>1, <2>1, <2>2, <2>3 DEF Ids
    <2>5. ASSUME NEW b \in Ids, rotated(b)' < rotated(a)' PROVE rotated(b) < rotated(a)
      <3>1. (b > p /\ (a > b \/ a < p)) \/ (b < a /\ a < p)
        BY <1>1, <2>2, <2>5 DEF Ids
      <3> QED
        BY <2>1, <2>2, <2>3, <3>1 DEF Ids
    <2> QED
      BY <2>4, <2>5
  <1> QED
    BY <1>2, <1>3

(* A pick that finds p level with a uses up p's turn in the tie.           *)
LEMMA PickTied ==
    ASSUME AccountsAssumption, ClocksTyped, NEW S, S \subseteq Ids, NEW p \in S, Pick(S, p),
           NEW a \in S \ {p}, ~ (clock[p] < clock[a])
    PROVE  TurnsLeft(a)' \subseteq TurnsLeft(a) /\ \E t \in TurnsLeft(a) : t \notin TurnsLeft(a)'
  <1>1. PICK l \in Int : /\ clock[p] <= l /\ \A b \in S \ {p} : l <= clock[b]
                         /\ clock'[p] = clock[p] + tick(p) - (l - Floor)
                         /\ \A b \in Ids \ {p} : clock'[b] = clampVirtualClock(clock[b] - (l - Floor))
    BY PickClocks
  <1>2. /\ Unit \in Nat /\ Unit >= 1 /\ Floor = 0 - Unit /\ p \in Ids /\ a \in Ids /\ a # p
        /\ \A b \in Ids : clock[b] \in Int /\ clock[b] >= Floor /\ clock[b] <= 0
        /\ lastPicked \in 0..N
    BY DEF AccountsAssumption, ClocksTyped, Floor
  <1>3. ClocksTyped' /\ lastPicked' = p
    BY PickClocks
  <1>4. clock[p] = clock[a] /\ rotated(p) <= rotated(a)
    BY <1>2 DEF Pick, leastRecentlyUsed
  <1>5. clock'[a] = Floor
    BY <1>1, <1>2, <1>4 DEF clampVirtualClock
  <1>6. \A b \in Ids : clock'[b] \in Int /\ clock'[b] >= Floor
    BY <1>3 DEF ClocksTyped, Floor, Ids, AccountsAssumption
  <1>7. /\ rotated(p) < rotated(a) /\ ~ (rotated(p)' < rotated(a)')
        /\ \A b \in Ids : rotated(b)' < rotated(a)' => rotated(b) < rotated(a)
    BY <1>2, <1>3, <1>4, ScanMovesOn
  <1>8. \A b : Turn(a, b, 0)' <=> (rotated(b)' < rotated(a)')
    BY <1>2, <1>5 DEF Turn, Floor
  <1>9. ASSUME NEW t \in Turns(a), Turn(a, t[1], t[2])'
        PROVE  Turn(a, t[1], t[2])
    <2>1. t[1] \in Ids /\ t[2] \in Nat /\ tick(t[1]) \in Nat
      BY Ticks DEF Turns
    <2>2. CASE t[2] = 0
      BY <1>7, <1>8, <1>9, <2>1, <2>2 DEF Turn
    <2>3. CASE t[2] # 0
      <3>1. (t[2] - 1) * tick(t[1]) \in Nat
        BY <2>1, <2>3
      <3>2. Turn(a, t[1], t[2])' <=> clock'[t[1]] + (t[2] - 1) * tick(t[1]) < clock'[a]
        BY <2>3 DEF Turn
      <3> QED
        BY <1>2, <1>5, <1>6, <1>9, <2>1, <3>1, <3>2
    <2> QED
      BY <2>2, <2>3
  <1> DEFINE u == <<p, 0>>
  <1>10. u \in Turns(a) /\ u[1] = p /\ u[2] = 0
    BY <1>2 DEF Turns
  <1>11. Turn(a, p, 0) /\ ~ (Turn(a, p, 0)')
    BY <1>7, <1>8 DEF Turn
  <1> HIDE DEF u
  <1>12. u \in TurnsLeft(a) /\ u \notin TurnsLeft(a)'
    BY <1>10, <1>11 DEF TurnsLeft
  <1>13. TurnsLeft(a)' \subseteq TurnsLeft(a)
    BY <1>9 DEF TurnsLeft, Turns
  <1> QED
    BY <1>12, <1>13

(* A pick keeps the count of every account.                                *)
LEMMA PickFair ==
    ASSUME AccountsAssumption, RotationInv, NEW S, S \subseteq Ids, NEW p \in S, Pick(S, p)
    PROVE  RotationInv'
  <1>1. /\ ClocksTyped /\ ClocksTyped'
        /\ \A b \in Ids : passed'[b] = IF b \in S \ {p} THEN passed[b] + 1 ELSE 0
    BY PickClocks DEF RotationInv
  <1>2. ASSUME NEW a \in Ids
        PROVE  (passed[a] + Cardinality(TurnsLeft(a)) <= Cardinality(Turns(a)))'
    <2>1. /\ TurnsLeft(a) \subseteq Turns(a) /\ TurnsLeft(a)' \subseteq Turns(a)
          /\ passed[a] \in Nat /\ passed'[a] \in Nat
          /\ passed[a] + Cardinality(TurnsLeft(a)) <= Cardinality(Turns(a))
      BY <1>1 DEF TurnsLeft, Turns, ClocksTyped, RotationInv
    <2>2. \/ passed'[a] = 0
          \/ /\ passed'[a] = passed[a] + 1
             /\ TurnsLeft(a)' \subseteq TurnsLeft(a) /\ \E t \in TurnsLeft(a) : t \notin TurnsLeft(a)'
      <3>1. CASE a \notin S \ {p}
        BY <1>1, <3>1
      <3>2. CASE a \in S \ {p}
        <4>1. passed'[a] = passed[a] + 1
          BY <1>1, <3>2
        <4>2. TurnsLeft(a)' \subseteq TurnsLeft(a) /\ \E t \in TurnsLeft(a) : t \notin TurnsLeft(a)'
          BY <1>1, <3>2, PickBehind, PickTied
        <4> QED
          BY <4>1, <4>2
      <3> QED
        BY <3>1, <3>2
    <2>3. passed'[a] + Cardinality(TurnsLeft(a)') <= Cardinality(Turns(a))
      BY <2>1, <2>2, TurnUsed
    <2> QED
      BY <2>3 DEF Turns
  <1> QED
    BY <1>1, <1>2 DEF RotationInv

(* A step that picks nobody keeps the count when it leaves every account   *)
(* either served or with no more turns before it.                          *)
LEMMA NoPickFair ==
    ASSUME AccountsAssumption, RotationInv, ClocksTyped',
           \A a \in Ids : \/ passed'[a] = 0
                          \/ passed'[a] = passed[a] /\ \A t \in Turns(a) : Turn(a, t[1], t[2])' => Turn(a, t[1], t[2])
    PROVE  RotationInv'
  <1>1. ASSUME NEW a \in Ids
        PROVE  (passed[a] + Cardinality(TurnsLeft(a)) <= Cardinality(Turns(a)))'
    <2>1. /\ TurnsLeft(a) \subseteq Turns(a) /\ TurnsLeft(a)' \subseteq Turns(a)
          /\ passed[a] + Cardinality(TurnsLeft(a)) <= Cardinality(Turns(a))
      BY DEF TurnsLeft, Turns, RotationInv
    <2>2. passed[a] \in Nat /\ passed'[a] \in Nat
      BY DEF ClocksTyped, RotationInv
    <2>3. passed'[a] = 0 \/ (passed'[a] = passed[a] /\ TurnsLeft(a)' \subseteq TurnsLeft(a))
      BY DEF TurnsLeft, Turns
    <2>4. passed'[a] + Cardinality(TurnsLeft(a)') <= Cardinality(Turns(a))
      BY <2>1, <2>2, <2>3, TurnUsed
    <2> QED
      BY <2>4 DEF Turns
  <1> QED
    BY <1>1 DEF RotationInv

(* A sticky pick serves its account and only takes turns from the others.  *)
LEMMA StickyFair ==
    ASSUME AccountsAssumption, RotationInv, NEW c \in Ids, SelectPreferred(c)
    PROVE  RotationInv'
  <1>1. /\ Unit \in Nat /\ Unit >= 1 /\ Floor = 0 - Unit
        /\ clock \in [Ids -> Floor..0] /\ passed \in [Ids -> Nat] /\ lastPicked \in 0..N
    BY DEF AccountsAssumption, RotationInv, ClocksTyped, Floor
  <1>2. /\ clock' = [clock EXCEPT ![c] = IF @ < 0 THEN 0 ELSE @]
        /\ passed' = [passed EXCEPT ![c] = 0] /\ lastPicked' = lastPicked
    BY DEF SelectPreferred
  <1>3. ClocksTyped'
    <2>1. clock' \in [Ids -> Floor..0] /\ passed' \in [Ids -> Nat] /\ lastPicked' \in 0..N
      BY <1>1, <1>2
    <2> QED
      BY <2>1 DEF ClocksTyped, Floor, Ids
  <1>4. \A b \in Ids : /\ clock[b] \in Int /\ clock'[b] \in Int /\ clock[b] <= clock'[b]
                       /\ (b # c => clock'[b] = clock[b] /\ passed'[b] = passed[b])
    BY <1>1, <1>2
  <1>5. ASSUME NEW a \in Ids \ {c}, NEW t \in Turns(a), Turn(a, t[1], t[2])'
        PROVE  Turn(a, t[1], t[2])
    <2>1. t[1] \in Ids /\ t[2] \in Nat /\ tick(t[1]) \in Nat
      BY Ticks DEF Turns
    <2>2. CASE t[2] = 0
      BY <1>2, <1>4, <1>5, <2>2 DEF Turn, rotated, Floor
    <2>3. CASE t[2] # 0
      <3> DEFINE x == (t[2] - 1) * tick(t[1])
      <3>1. x \in Int
        BY <2>1
      <3>2. Turn(a, t[1], t[2])' <=> clock'[t[1]] + x < clock'[a]
        BY <2>3 DEF Turn
      <3>3. Turn(a, t[1], t[2]) <=> clock[t[1]] + x < clock[a]
        BY <2>3 DEF Turn
      <3> HIDE DEF x
      <3> QED
        BY <1>4, <1>5, <2>1, <3>1, <3>2, <3>3
    <2> QED
      BY <2>2, <2>3
  <1>6. passed'[c] = 0
    BY <1>1, <1>2
  <1>7. \A a \in Ids : \/ passed'[a] = 0
                       \/ passed'[a] = passed[a] /\ \A t \in Turns(a) : Turn(a, t[1], t[2])' => Turn(a, t[1], t[2])
    BY <1>4, <1>5, <1>6
  <1> QED
    BY <1>3, <1>7, NoPickFair

(* The wall clock brings the clocks to the floor, never past each other.   *)
LEMMA PauseFair ==
    ASSUME AccountsAssumption, RotationInv, ClockRuns
    PROVE  RotationInv'
  <1>1. /\ Unit \in Nat /\ Unit >= 1 /\ Floor = 0 - Unit
        /\ clock \in [Ids -> Floor..0] /\ passed \in [Ids -> Nat] /\ lastPicked \in 0..N
    BY DEF AccountsAssumption, RotationInv, ClocksTyped, Floor
  <1>2. /\ clock' = [a \in Ids |-> clampVirtualClock(clock[a] - 1)]
        /\ passed' = passed /\ lastPicked' = lastPicked
    BY DEF ClockRuns
  <1>3. \A b \in Ids : /\ clock[b] \in Int /\ clock[b] >= Floor /\ clock'[b] \in Floor..0
                       /\ clock'[b] = IF clock[b] - 1 < Floor THEN Floor ELSE clock[b] - 1
    BY <1>1, <1>2 DEF clampVirtualClock
  <1>4. ClocksTyped'
    <2>1. clock' \in [Ids -> Floor..0] /\ passed' \in [Ids -> Nat] /\ lastPicked' \in 0..N
      BY <1>1, <1>2, <1>3
    <2> QED
      BY <2>1 DEF ClocksTyped, Floor, Ids
  <1>5. ASSUME NEW a \in Ids, NEW t \in Turns(a), Turn(a, t[1], t[2])'
        PROVE  Turn(a, t[1], t[2])
    <2>1. t[1] \in Ids /\ t[2] \in Nat /\ tick(t[1]) \in Nat
      BY Ticks DEF Turns
    <2>2. CASE t[2] = 0
      <3>1. clock'[a] > Floor => clock[a] > Floor
        BY <1>1, <1>3
      <3>2. rotated(t[1])' = rotated(t[1]) /\ rotated(a)' = rotated(a)
        BY <1>2 DEF rotated
      <3> QED
        BY <1>5, <2>2, <3>1, <3>2 DEF Turn, Floor
    <2>3. CASE t[2] # 0
      <3> DEFINE x == (t[2] - 1) * tick(t[1])
      <3>1. x \in Nat
        BY <2>1, <2>3
      <3>2. Turn(a, t[1], t[2])' <=> clock'[t[1]] + x < clock'[a]
        BY <2>3 DEF Turn
      <3>3. Turn(a, t[1], t[2]) <=> clock[t[1]] + x < clock[a]
        BY <2>3 DEF Turn
      <3> HIDE DEF x
      <3> QED
        BY <1>1, <1>3, <1>5, <2>1, <3>1, <3>2, <3>3
    <2> QED
      BY <2>2, <2>3
  <1> QED
    BY <1>2, <1>4, <1>5, NoPickFair

(* Every other step leaves the rotation alone.                             *)
LEMMA RotationUnmoved ==
    ASSUME AccountsAssumption, RotationInv, UNCHANGED <<clock, lastPicked, passed>>
    PROVE  RotationInv'
  <1>1. ClocksTyped'
    BY DEF RotationInv, ClocksTyped, Ids, Floor
  <1>2. \A a \in Ids : passed'[a] = passed[a] /\ \A t \in Turns(a) : Turn(a, t[1], t[2])' => Turn(a, t[1], t[2])
    BY DEF Turn, rotated, Floor
  <1> QED
    BY <1>1, <1>2, NoPickFair

(* Nobody has been passed over, and there is a whole round ahead.          *)
LEMMA RotationInit ==
    ASSUME AccountsAssumption, AInit
    PROVE  RotationInv
  <1>1. ClocksTyped
    BY DEF AInit, ClocksTyped, AccountsAssumption, Floor
  <1>2. ASSUME NEW a \in Ids
        PROVE  passed[a] + Cardinality(TurnsLeft(a)) <= Cardinality(Turns(a))
    <2>1. TurnsLeft(a) \subseteq Turns(a) /\ passed[a] = 0
      BY DEF TurnsLeft, AInit
    <2>2. /\ Cardinality(TurnsLeft(a)) <= Cardinality(Turns(a))
          /\ Cardinality(TurnsLeft(a)) \in Nat
      BY <2>1, RoundFinite, FS_Subset, FS_CardinalityType
    <2> QED
      BY <2>1, <2>2, RoundFinite
  <1> QED
    BY <1>1, <1>2 DEF RotationInv

(* One step per action; only the picks, the sticky pick and the wall clock *)
(* move the rotation.                                                      *)
LEMMA RotationStep ==
    ASSUME AccountsAssumption, RotationInv, [ANext]_avars
    PROVE  RotationInv'
  <1>1. ASSUME NEW r \in Sessions, SelectAccount(r) PROVE RotationInv'
    <2>1. PICK m \in Models : LET S == available(m, {}) IN
             \/ UNCHANGED <<clock, lastPicked, passed>>
             \/ \E a \in S : Pick(S, a)
      BY <1>1 DEF SelectAccount
    <2>2. available(m, {}) \subseteq Ids
      BY DEF available
    <2> QED
      BY <2>1, <2>2, PickFair, RotationUnmoved
  <1>2. ASSUME NEW r \in Sessions, PickAgain(r) PROVE RotationInv'
    <2> DEFINE S == available(selection[r].model, selection[r].exclude \cup {selection[r].pick})
    <2>1. UNCHANGED <<clock, lastPicked, passed>> \/ \E a \in S : Pick(S, a)
      BY <1>2 DEF PickAgain
    <2>2. S \subseteq Ids
      BY DEF available
    <2> QED
      BY <2>1, <2>2, PickFair, RotationUnmoved
  <1>3. ASSUME NEW c \in Ids, SelectPreferred(c) PROVE RotationInv'
    BY <1>3, StickyFair
  <1>4. CASE ClockRuns
    BY <1>4, PauseFair
  <1>5. CASE UNCHANGED <<clock, lastPicked, passed>>
    BY <1>5, RotationUnmoved
  <1>6. ASSUME NEW r \in Sessions, CheckPick(r) PROVE UNCHANGED <<clock, lastPicked, passed>>
    BY <1>6 DEF CheckPick
  <1>7. ASSUME NEW a \in Ids, ReportSuccess(a) \/ CooldownOver(a) \/ Exhaust(a) \/ Reset(a)
        PROVE  UNCHANGED <<clock, lastPicked, passed>>
    BY <1>7 DEF ReportSuccess, CooldownOver, Exhaust, Reset
  <1>8. ASSUME NEW a \in Ids, NEW class \in Classes, ApplyError(a, class) PROVE UNCHANGED <<clock, lastPicked, passed>>
    BY <1>8 DEF ApplyError
  <1>9. ASSUME NEW a \in Ids, NEW m \in Models, ApplyModelError(a, m) \/ LockModel(a, m) \/ LockOver(a, m)
        PROVE  UNCHANGED <<clock, lastPicked, passed>>
    BY <1>9 DEF ApplyModelError, LockModel, LockOver
  <1>10. CleanupExpiredLocks => UNCHANGED <<clock, lastPicked, passed>>
    BY DEF CleanupExpiredLocks
  <1>11. UNCHANGED avars => UNCHANGED <<clock, lastPicked, passed>>
    BY DEF avars
  <1> QED
    BY <1>1, <1>2, <1>3, <1>4, <1>5, <1>6, <1>7, <1>8, <1>9, <1>10, <1>11 DEF ANext

(* Rotation cannot be re-seated: with any number of accounts of any        *)
(* weights, and whatever benches, exclusions, sticky picks and pauses      *)
(* happen, SelectAccountExcluding passes an available account over no more *)
(* often than the round of the others' turns.                              *)
THEOREM RotationFair ==
    ASSUME AccountsAssumption
    PROVE  ASpec => []FairRotation
  <1>1. AInit => RotationInv
    BY RotationInit
  <1>2. RotationInv /\ [ANext]_avars => RotationInv'
    BY RotationStep
  <1>3. RotationInv => FairRotation
    <2> SUFFICES ASSUME RotationInv, NEW a \in Ids PROVE passed[a] <= Cardinality(Turns(a))
      BY DEF FairRotation
    <2>1. TurnsLeft(a) \subseteq Turns(a) /\ passed[a] \in Nat /\ passed[a] + Cardinality(TurnsLeft(a)) <= Cardinality(Turns(a))
      BY DEF TurnsLeft, RotationInv, ClocksTyped
    <2>2. Cardinality(TurnsLeft(a)) \in Nat /\ Cardinality(Turns(a)) \in Nat
      BY <2>1, RoundFinite, FS_Subset, FS_CardinalityType
    <2> QED
      BY <2>1, <2>2
  <1> QED
    BY <1>1, <1>2, <1>3, PTL DEF ASpec
=============================================================================
