--------------------------- MODULE ResponseProofs ---------------------------
(***************************************************************************)
(* Proofs about the answers: what the response cache serves belongs to the *)
(* caller and the settings that ask, and what the stream reader reads out  *)
(* of the chunks of an answer is counted once, with tool calls that stay   *)
(* whole and distinct.                                                     *)
(***************************************************************************)
EXTENDS ResponseCache, StreamMeter, FiniteSetTheorems, TLAPS

-----------------------------------------------------------------------------
(* The response cache.                                                     *)

(* An entry holds a complete answer of the caller its key names, under the *)
(* settings its key names, for the model of its payload.                   *)
EntryFields == {"data", "fresh", "vec", "model", "stream", "at"}
Keyed(k, e) ==
    /\ DOMAIN e = EntryFields
    /\ e.data.token = k.token /\ e.data.terminal = "stop"
    /\ e.data.settings \in ContentSettings /\ k.scope = resolveCachePolicyScope(e.data.settings)
    /\ e.model = Payloads[k.payload].model
EntriesKeyed(its) == \A k \in DOMAIN its : Keyed(k, its[k])

(* An index holds vectors of stored entries, one per key, in its namespace.*)
Backed(its, e) ==
    e.key \in DOMAIN its /\ its[e.key].vec = e.vec /\ e.vec # NoVec /\ e.ns = semanticNamespace(e.key, its[e.key].model)
IndexSound(its, idx, n) ==
    /\ IsFiniteSet(idx) /\ n = Cardinality(idx)
    /\ \A e \in idx : Backed(its, e)
    /\ \A e, f \in idx : e.key = f.key => e = f

(* Insertions are numbered.                                                *)
Numbered(idx, n) ==
    /\ \A e \in idx : e.at \in 0..(n - 1)
    /\ \A e, f \in idx : e.at = f.at => e = f

(* A request keeps its own scope; what a search finds has the same one.    *)
ReaderFields == {"at", "key", "settings", "found", "answer"}
ReaderSound(r) ==
    /\ DOMAIN reader[r] = ReaderFields
    /\ reader[r].at # "idle" => /\ reader[r].settings \in ContentSettings
                                /\ reader[r].key.scope = resolveCachePolicyScope(reader[r].settings)
    /\ reader[r].at = "found" => /\ reader[r].found[1].token = reader[r].key.token
                                 /\ reader[r].found[1].scope = reader[r].key.scope
    /\ reader[r].at = "served" => /\ reader[r].answer.token = reader[r].key.token
                                  /\ reader[r].answer.settings = reader[r].settings
                                  /\ reader[r].answer.terminal = "stop"
ReadersSound == DOMAIN reader = Readers /\ \A r \in Readers : ReaderSound(r)

CacheInv ==
    /\ EntriesKeyed(items) /\ IndexSound(items, semIdx, semanticEntries)
    /\ stores \in Nat /\ Numbered(semIdx, stores)
    /\ ReadersSound

(* The invariant says what the property asks.                              *)
LEMMA CacheInvSound == CacheInv => CacheSound
  BY DEF CacheInv, CacheSound, IndexSound, Backed, IndexBacked, ReadersSound, ReaderSound, OwnCompleteAnswer

(* The scope tells settings apart.                                         *)
LEMMA ScopeInjective ==
    ASSUME NEW s \in ContentSettings, NEW t \in ContentSettings, resolveCachePolicyScope(s) = resolveCachePolicyScope(t)
    PROVE  s = t
  BY DEF ContentSettings, resolveCachePolicyScope, globalEngineIdentity

(* One counter per dropped key is one per dropped vector.                  *)
LEMMA DroppedCounted ==
    ASSUME NEW its, NEW idx, NEW n, IndexSound(its, idx, n), NEW keys,
           its = items
    PROVE  n - uncounted(idx, keys) = Cardinality(dropped(idx, keys)) /\ IsFiniteSet(dropped(idx, keys))
  <1> DEFINE E == {e \in idx : e.key \in keys}
             K == {k \in keys : items[k].vec # NoVec /\ InIndex(idx, k, semanticNamespace(k, items[k].model))}
             f == [e \in E |-> e.key]
  <1>1. \A e \in idx : Backed(items, e)
    BY DEF IndexSound
  <1>2. dropped(idx, keys) = idx \ E
    BY <1>1 DEF dropped, Backed
  <1>3. \A e \in E : e.key \in K
    BY <1>1 DEF Backed, InIndex
  <1>4. \A k \in K : \E e \in E : e.key = k
    BY DEF InIndex
  <1>5. f \in Bijection(E, K)
    <2>1. f \in [E -> K]
      BY <1>3
    <2>2. \A a, b \in E : f[a] = f[b] => a = b
      BY DEF IndexSound
    <2>3. \A k \in K : \E e \in E : f[e] = k
      BY <1>4
    <2> QED
      BY <2>1, <2>2, <2>3 DEF Bijection, Injection, Surjection, IsInjective
  <1>6. IsFiniteSet(idx) /\ E \subseteq idx /\ n = Cardinality(idx)
    BY DEF IndexSound
  <1>7. IsFiniteSet(E)
    BY <1>6, FS_Subset
  <1>8. Cardinality(K) = Cardinality(E)
    <2>1. ExistsBijection(E, K)
      BY <1>5 DEF ExistsBijection
    <2> QED
      BY <2>1, <1>7, FS_Bijection
  <1>9. IsFiniteSet(idx \ E) /\ Cardinality(idx \ E) = Cardinality(idx) - Cardinality(idx \cap E)
    BY <1>6, FS_Difference
  <1>10. idx \cap E = E
    OBVIOUS
  <1>11. uncounted(idx, keys) = Cardinality(E)
    BY <1>8 DEF uncounted
  <1> QED
    BY <1>2, <1>6, <1>9, <1>10, <1>11

(* Eviction takes entries and vectors together.                            *)
LEMMA EvictSound ==
    ASSUME CacheInv
    PROVE  /\ EntriesKeyed(evictLocked.items) /\ IndexSound(evictLocked.items, evictLocked.idx, evictLocked.n)
           /\ Numbered(evictLocked.idx, stores) /\ DOMAIN evictLocked.items \subseteq DOMAIN items
  <1> DEFINE gone == DOMAIN items \ survivors
  <1>1. /\ evictLocked.items = [k \in survivors |-> items[k]] /\ evictLocked.idx = dropped(semIdx, gone)
        /\ evictLocked.n = semanticEntries - uncounted(semIdx, gone)
    BY DEF evictLocked
  <1>2. survivors \subseteq DOMAIN items
    BY DEF survivors
  <1>3. IndexSound(items, semIdx, semanticEntries)
    BY DEF CacheInv
  <1>4. \A e \in dropped(semIdx, gone) : e \in semIdx /\ e.key \in survivors
    BY <1>3 DEF dropped, IndexSound, Backed
  <1>5. \A e \in dropped(semIdx, gone) : Backed(evictLocked.items, e)
    BY <1>1, <1>3, <1>4 DEF IndexSound, Backed
  <1>6. evictLocked.n = Cardinality(dropped(semIdx, gone)) /\ IsFiniteSet(dropped(semIdx, gone))
    BY <1>1, <1>3, DroppedCounted
  <1>7. IndexSound(evictLocked.items, evictLocked.idx, evictLocked.n)
    BY <1>1, <1>3, <1>4, <1>5, <1>6 DEF IndexSound
  <1>8. Numbered(evictLocked.idx, stores)
    BY <1>1, <1>4 DEF CacheInv, Numbered
  <1>9. EntriesKeyed(evictLocked.items)
    BY <1>1, <1>2 DEF CacheInv, EntriesKeyed
  <1> QED
    BY <1>1, <1>2, <1>7, <1>8, <1>9

(* A set with one key taken out.                                           *)
LEMMA RemoveCounted ==
    ASSUME NEW its, NEW idx, NEW n, IndexSound(its, idx, n), NEW key, NEW ns
    PROVE  LET rest == RemoveKey(idx, key, ns) IN
           /\ IsFiniteSet(rest)
           /\ Cardinality(rest) = n - (IF InIndex(idx, key, ns) THEN 1 ELSE 0)
  <1> DEFINE rest == RemoveKey(idx, key, ns)
  <1>1. IsFiniteSet(idx) /\ n = Cardinality(idx) /\ n \in Nat
    BY FS_CardinalityType DEF IndexSound
  <1>2. CASE ~InIndex(idx, key, ns)
    <2>1. rest = idx
      BY <1>2 DEF RemoveKey, InIndex
    <2> QED
      BY <1>1, <1>2, <2>1
  <1>3. CASE InIndex(idx, key, ns)
    <2>1. PICK e \in idx : e.ns = ns /\ e.key = key
      BY <1>3 DEF InIndex
    <2>2. rest = idx \ {e}
      BY <2>1 DEF RemoveKey, IndexSound
    <2>3. IsFiniteSet(idx \ {e}) /\ Cardinality(idx \ {e}) = Cardinality(idx) - 1
      BY <1>1, <2>1, FS_RemoveElement
    <2> QED
      BY <1>1, <1>3, <2>2, <2>3
  <1> QED
    BY <1>2, <1>3

(* What a full index loses is one vector.                                  *)
LEMMA OneDisplaced ==
    ASSUME NEW idx, NEW n \in Nat, Numbered(idx, n), NEW ns
    PROVE  displaced(idx, ns) \subseteq idx /\ \A e, f \in displaced(idx, ns) : e = f
  <1>1. displaced(idx, ns) \subseteq idx
    BY DEF displaced, IndexOf
  <1>2. ASSUME NEW e \in displaced(idx, ns), NEW f \in displaced(idx, ns) PROVE e = f
    <2>1. e \in idx /\ f \in idx /\ e.at <= f.at /\ f.at <= e.at
      BY DEF displaced, IndexOf
    <2>2. e.at \in Int /\ f.at \in Int
      BY <2>1 DEF Numbered
    <2>3. e.at = f.at
      BY <2>1, <2>2
    <2> QED
      BY <2>1, <2>3 DEF Numbered
  <1> QED
    BY <1>1, <1>2

(* A store puts the entry and its vector in place together, and counts.    *)
LEMMA SyncSound ==
    ASSUME NEW its, NEW idx, NEW n, EntriesKeyed(its), IndexSound(its, idx, n), stores \in Nat, Numbered(idx, stores),
           NEW key, NEW entry, Keyed(key, entry)
    PROVE  LET after == syncSemanticIndexLocked(idx, n, key, entry.model, entry.vec, stores)
               added == [k \in DOMAIN its \cup {key} |-> IF k = key THEN entry ELSE its[k]]
           IN  EntriesKeyed(added) /\ IndexSound(added, after.idx, after.n) /\ Numbered(after.idx, stores + 1)
  <1> DEFINE added == [k \in DOMAIN its \cup {key} |-> IF k = key THEN entry ELSE its[k]]
             ns == semanticNamespace(key, entry.model)
             rest == RemoveKey(idx, key, ns)
             left == n - (IF InIndex(idx, key, ns) THEN 1 ELSE 0)
             out == displaced(rest, ns)
             new == [ns |-> ns, key |-> key, vec |-> entry.vec, at |-> stores]
             after == syncSemanticIndexLocked(idx, n, key, entry.model, entry.vec, stores)
  <1>1. EntriesKeyed(added)
    BY DEF EntriesKeyed
  <1>2. IsFiniteSet(rest) /\ Cardinality(rest) = left
    BY RemoveCounted
  <1>3. \A e \in rest : e \in idx /\ e.key # key
    <2> SUFFICES ASSUME NEW e \in rest, e.key = key PROVE FALSE
      BY DEF RemoveKey
    <2>1. e \in idx /\ e.ns # ns
      BY DEF RemoveKey
    <2>2. key \in DOMAIN its /\ e.ns = semanticNamespace(key, its[key].model)
      BY <2>1 DEF IndexSound, Backed
    <2>3. its[key].model = entry.model
      BY <2>2 DEF EntriesKeyed, Keyed
    <2> QED
      BY <2>1, <2>2, <2>3
  <1>4. \A e \in rest : Backed(added, e)
    <2> TAKE e \in rest
    <2>1. Backed(its, e) /\ e.key # key
      BY <1>3 DEF IndexSound
    <2>2. e.key \in DOMAIN added /\ added[e.key] = its[e.key]
      BY <2>1 DEF Backed
    <2> HIDE DEF added
    <2> QED
      BY <2>1, <2>2 DEF Backed
  <1>5. Numbered(rest, stores)
    BY <1>3 DEF Numbered
  <1>6. \A e, f \in rest : e.key = f.key => e = f
    BY <1>3 DEF IndexSound
  <1>7. ASSUME entry.vec = NoVec
        PROVE  IndexSound(added, after.idx, after.n) /\ Numbered(after.idx, stores + 1)
    <2>1. after.idx = rest /\ after.n = left
      BY <1>7 DEF syncSemanticIndexLocked
    <2>2. Numbered(rest, stores + 1)
      BY <1>5 DEF Numbered
    <2> HIDE DEF added, rest, left, after
    <2> QED
      BY <1>2, <1>4, <1>6, <2>1, <2>2 DEF IndexSound
  <1>8. ASSUME entry.vec # NoVec
        PROVE  IndexSound(added, after.idx, after.n) /\ Numbered(after.idx, stores + 1)
    <2>1. after.idx = (rest \ out) \cup {new} /\ after.n = IF out = {} THEN left + 1 ELSE left
      BY <1>8 DEF syncSemanticIndexLocked
    <2>2. out \subseteq rest /\ \A e, f \in out : e = f
      BY <1>5, OneDisplaced
    <2>3. new.key = key /\ new.at = stores /\ new.vec = entry.vec /\ new.ns = ns
      OBVIOUS
    <2>4. new \notin rest
      BY <1>3, <2>3
    <2>5. Backed(added, new)
      <3>1. key \in DOMAIN added /\ added[key] = entry
        OBVIOUS
      <3> HIDE DEF added, new
      <3> QED
        BY <1>8, <2>3, <3>1 DEF Backed
    <2>6. left \in Nat
      BY <1>2, FS_CardinalityType
    <2> HIDE DEF added, rest, left, after, out, new
    <2>7. IsFiniteSet(rest \ out) /\ Cardinality(rest \ out) = IF out = {} THEN left ELSE left - 1
      <3>1. CASE out = {}
        <4>1. rest \ out = rest
          BY <3>1
        <4> QED
          BY <1>2, <3>1, <4>1
      <3>2. CASE out # {}
        <4>1. PICK e \in out : TRUE
          BY <3>2
        <4>2. rest \ out = rest \ {e} /\ e \in rest
          BY <2>2
        <4>3. IsFiniteSet(rest \ {e}) /\ Cardinality(rest \ {e}) = Cardinality(rest) - 1
          BY <1>2, <4>2, FS_RemoveElement
        <4> QED
          BY <1>2, <3>2, <4>2, <4>3
      <3> QED
        BY <3>1, <3>2
    <2>8. IsFiniteSet(after.idx) /\ after.n = Cardinality(after.idx)
      <3>1. new \notin rest \ out
        BY <2>4
      <3>2. IsFiniteSet((rest \ out) \cup {new}) /\ Cardinality((rest \ out) \cup {new}) = Cardinality(rest \ out) + 1
        BY <2>7, <3>1, FS_AddElement
      <3> QED
        BY <2>1, <2>6, <2>7, <3>2
    <2>9. \A e \in after.idx : Backed(added, e)
      BY <1>4, <2>1, <2>5
    <2>10. \A e, f \in after.idx : e.key = f.key => e = f
      BY <1>3, <1>6, <2>1, <2>3
    <2>11. Numbered(after.idx, stores + 1)
      <3>1. \A e \in rest : e.at \in 0..(stores - 1)
        BY <1>5 DEF Numbered
      <3>2. \A e \in rest : e.at \in 0..(stores + 1 - 1) /\ e.at # stores
        BY <3>1
      <3>3. stores \in 0..(stores + 1 - 1)
        OBVIOUS
      <3> QED
        BY <1>5, <2>1, <2>3, <3>2, <3>3 DEF Numbered
    <2> QED
      BY <2>8, <2>9, <2>10, <2>11 DEF IndexSound
  <1> QED
    BY <1>1, <1>7, <1>8

(* Requests do not change where only entries do.                           *)
LEMMA ReadersFrame == ASSUME ReadersSound, UNCHANGED reader PROVE ReadersSound'
  BY DEF ReadersSound, ReaderSound

(* Store.                                                                  *)
LEMMA StoreKeeps ==
    ASSUME CacheInv, NEW token \in Tokens, NEW s \in ContentSettings, NEW p \in DOMAIN Payloads, NEW terminal, NEW embedded,
           StoreAnswer(token, s, p, terminal, embedded)
    PROVE  CacheInv'
  <1> DEFINE key == fingerprint(token, resolveCachePolicyScope(s), p)
             model == Payloads[p].model
             vec == IF embedded THEN Payloads[p].vec ELSE NoVec
             entry == [data |-> [token |-> token, settings |-> s, terminal |-> terminal],
                       fresh |-> TRUE, vec |-> vec, model |-> model, stream |-> TRUE, at |-> stores]
             before == IF key \notin DOMAIN items /\ Cardinality(DOMAIN items) >= MaxSize THEN evictLocked
                       ELSE [items |-> items, idx |-> semIdx, n |-> semanticEntries]
             after == syncSemanticIndexLocked(before.idx, before.n, key, entry.model, entry.vec, stores)
  <1>1. /\ items' = [k \in DOMAIN before.items \cup {key} |-> IF k = key THEN entry ELSE before.items[k]]
        /\ semIdx' = after.idx /\ semanticEntries' = after.n
        /\ stores' = stores + 1 /\ UNCHANGED reader
        /\ terminal = "stop"
    BY DEF StoreAnswer, cacheable
  <1>2. Keyed(key, entry)
    <2>1. key.token = token /\ key.scope = resolveCachePolicyScope(s) /\ key.payload = p
      BY DEF fingerprint
    <2>2. entry.data.token = token /\ entry.data.terminal = terminal /\ entry.data.settings = s /\ entry.model = model
         /\ DOMAIN entry = EntryFields
      BY DEF EntryFields
    <2> HIDE DEF entry, key
    <2> QED
      BY <1>1, <2>1, <2>2 DEF Keyed
  <1>3. EntriesKeyed(before.items) /\ IndexSound(before.items, before.idx, before.n) /\ Numbered(before.idx, stores)
    <2>1. CASE before = evictLocked
      BY <2>1, EvictSound
    <2>2. CASE before = [items |-> items, idx |-> semIdx, n |-> semanticEntries]
      <3>1. before.items = items /\ before.idx = semIdx /\ before.n = semanticEntries
        BY <2>2
      <3> QED
        BY <3>1 DEF CacheInv
    <2> QED
      BY <2>1, <2>2
  <1>4. stores \in Nat
    BY DEF CacheInv
  <1> HIDE DEF before, entry, key
  <1>5. EntriesKeyed(items') /\ IndexSound(items', semIdx', semanticEntries') /\ Numbered(semIdx', stores + 1)
    BY <1>1, <1>2, <1>3, <1>4, SyncSound
  <1>6. ReadersSound'
    BY <1>1, ReadersFrame DEF CacheInv
  <1>7. EntriesKeyed(items)'
    BY <1>5 DEF EntriesKeyed, Keyed
  <1>8. IndexSound(items, semIdx, semanticEntries)'
    BY <1>5 DEF IndexSound, Backed
  <1>9. Numbered(semIdx, stores)'
    BY <1>1, <1>5 DEF Numbered
  <1> QED
    BY <1>1, <1>4, <1>6, <1>7, <1>8, <1>9 DEF CacheInv

(* The background evicter.                                                 *)
LEMMA EvictKeeps == ASSUME CacheInv, Evict PROVE CacheInv'
  <1>1. EntriesKeyed(items') /\ IndexSound(items', semIdx', semanticEntries') /\ Numbered(semIdx', stores) /\ stores' = stores
    BY EvictSound DEF Evict
  <1>2. ReadersSound'
    BY ReadersFrame DEF CacheInv, Evict
  <1> QED
    BY <1>1, <1>2 DEF CacheInv, EntriesKeyed, IndexSound, Numbered, Keyed, Backed

(* An entry that expires keeps its key, vector and model.                  *)
LEMMA ExpireKeeps == ASSUME CacheInv, NEW k \in DOMAIN items, Expire(k) PROVE CacheInv'
  <1>1. items' = [items EXCEPT ![k].fresh = FALSE] /\ UNCHANGED <<semIdx, semanticEntries, reader, stores>>
    BY DEF Expire
  <1>2. DOMAIN items' = DOMAIN items
    BY <1>1
  <1>3. \A j \in DOMAIN items : /\ items'[j].data = items[j].data /\ items'[j].vec = items[j].vec
                                /\ items'[j].model = items[j].model
    <2> TAKE j \in DOMAIN items
    <2>1. DOMAIN items[j] = EntryFields
      BY DEF CacheInv, EntriesKeyed, Keyed
    <2>2. items'[j] = IF j = k THEN [items[j] EXCEPT !.fresh = FALSE] ELSE items[j]
      BY <1>1
    <2>3. "data" \in EntryFields /\ "vec" \in EntryFields /\ "model" \in EntryFields
      BY DEF EntryFields
    <2> QED
      BY <2>1, <2>2, <2>3
  <1>4. EntriesKeyed(items)'
    <2>1. \A j \in DOMAIN items : Keyed(j, items[j]) /\ DOMAIN items'[j] = DOMAIN items[j]
      BY <1>1 DEF CacheInv, EntriesKeyed
    <2>2. \A j \in DOMAIN items : Keyed(j, items'[j])
      BY <1>3, <2>1 DEF Keyed
    <2> QED
      BY <1>2, <2>2 DEF EntriesKeyed, Keyed
  <1>5. IndexSound(items, semIdx, semanticEntries)'
    BY <1>1, <1>2, <1>3 DEF CacheInv, IndexSound, Backed
  <1>6. ReadersSound'
    BY <1>1, ReadersFrame DEF CacheInv
  <1> QED
    BY <1>1, <1>4, <1>5, <1>6 DEF CacheInv, Numbered

(* A step that only moves one request keeps the rest.                      *)
LEMMA OneReader ==
    ASSUME CacheInv, NEW r \in Readers, NEW v, reader' = [reader EXCEPT ![r] = v],
           UNCHANGED <<items, semIdx, semanticEntries, stores>>, ReaderSound(r)'
    PROVE  CacheInv'
  <1>1. DOMAIN reader = Readers /\ \A q \in Readers : ReaderSound(q)
    BY DEF CacheInv, ReadersSound
  <1>2. DOMAIN reader' = Readers /\ \A q \in Readers \ {r} : reader'[q] = reader[q]
    BY <1>1
  <1>3. \A q \in Readers \ {r} : ReaderSound(q)'
    BY <1>1, <1>2 DEF ReaderSound
  <1>4. ReadersSound'
    BY <1>2, <1>3 DEF ReadersSound
  <1>5. EntriesKeyed(items)' /\ Numbered(semIdx, stores)'
    BY DEF CacheInv, EntriesKeyed, Keyed, Numbered
  <1>6. IndexSound(items, semIdx, semanticEntries)'
    BY DEF CacheInv, IndexSound, Backed
  <1> QED
    BY <1>4, <1>5, <1>6 DEF CacheInv

(* Lookup, the exact hit: the entry under the request's own key.           *)
LEMMA LookupKeeps ==
    ASSUME CacheInv, NEW r \in Readers, NEW token \in Tokens, NEW s \in ContentSettings, NEW p, LookupExact(r, token, s, p)
    PROVE  CacheInv'
  <1> DEFINE key == fingerprint(token, resolveCachePolicyScope(s), p)
             hit == key \in DOMAIN items /\ items[key].fresh
             next == [at |-> IF hit THEN "served" ELSE "embed", key |-> key, settings |-> s, found |-> NotFound,
                      answer |-> IF hit THEN items[key].data ELSE NoAnswer]
  <1>1. reader' = [reader EXCEPT ![r] = next] /\ UNCHANGED <<items, semIdx, semanticEntries, stores>>
    BY DEF LookupExact, To
  <1>2. key.token = token /\ key.scope = resolveCachePolicyScope(s)
    BY DEF fingerprint
  <1>3. ASSUME hit
        PROVE  items[key].data.token = token /\ items[key].data.terminal = "stop" /\ items[key].data.settings = s
    <2>1. Keyed(key, items[key])
      BY <1>3 DEF CacheInv, EntriesKeyed
    <2> HIDE DEF key
    <2> QED
      BY <1>2, <2>1, ScopeInjective DEF Keyed
  <1>4. /\ next.key = key /\ next.settings = s /\ next.at \in {"served", "embed"} /\ (next.at = "served" => hit)
        /\ hit => next.answer = items[key].data
        /\ DOMAIN next = ReaderFields
    BY DEF ReaderFields
  <1> HIDE DEF next, hit, key
  <1>5. reader'[r] = next
    BY <1>1 DEF CacheInv, ReadersSound
  <1>6. ReaderSound(r)'
    BY <1>2, <1>3, <1>4, <1>5 DEF ReaderSound
  <1> QED
    BY <1>1, <1>6, OneReader

(* Search: what it finds is in the namespace of the request.               *)
LEMMA SearchKeeps ==
    ASSUME CacheInv, NEW r \in Readers, NEW embedded, Search(r, embedded)
    PROVE  CacheInv'
  <1> DEFINE key == reader[r].key
             p == Payloads[key.payload]
             best == nearest(IndexOf(semIdx, semanticNamespace(key, p.model)), p.vec)
  <1>1. reader[r].at = "embed" /\ UNCHANGED <<items, semIdx, semanticEntries, stores>>
    BY DEF Search
  <1>2. ReaderSound(r) /\ DOMAIN reader = Readers
    BY DEF CacheInv, ReadersSound
  <1>3. CASE Miss(r)
    <2> DEFINE next == [reader[r] EXCEPT !.at = "missed", !.found = NotFound]
    <2>1. reader' = [reader EXCEPT ![r] = next]
      BY <1>3 DEF Miss, To
    <2>2. next.at = "missed" /\ next.key = reader[r].key /\ next.settings = reader[r].settings /\ DOMAIN next = ReaderFields
      BY <1>2 DEF ReaderSound, ReaderFields
    <2> HIDE DEF next
    <2>3. reader'[r] = next
      BY <1>2, <2>1
    <2>4. ReaderSound(r)'
      BY <1>1, <1>2, <2>2, <2>3 DEF ReaderSound
    <2> QED
      BY <1>1, <2>1, <2>4, OneReader
  <1>4. ASSUME NEW e \in best, reader' = [reader EXCEPT ![r] = [reader[r] EXCEPT !.at = "found", !.found = <<e.key>>]]
        PROVE  CacheInv'
    <2> DEFINE next == [reader[r] EXCEPT !.at = "found", !.found = <<e.key>>]
    <2>1. e \in semIdx /\ e.ns = semanticNamespace(key, p.model)
      BY DEF nearest, IndexOf
    <2>2. e.ns = semanticNamespace(e.key, items[e.key].model)
      BY <2>1 DEF CacheInv, IndexSound, Backed
    <2>3. e.key.token = key.token /\ e.key.scope = key.scope
      BY <2>1, <2>2 DEF semanticNamespace
    <2>4. next.at = "found" /\ next.key = key /\ next.settings = reader[r].settings /\ next.found[1] = e.key /\ DOMAIN next = ReaderFields
      BY <1>2 DEF ReaderSound, ReaderFields
    <2> HIDE DEF next
    <2>5. reader'[r] = next
      BY <1>2, <1>4 DEF next
    <2>6. ReaderSound(r)'
      BY <1>1, <1>2, <2>3, <2>4, <2>5 DEF ReaderSound
    <2> QED
      BY <1>1, <1>4, <2>6, OneReader
  <1> QED
    BY <1>3, <1>4 DEF Search, To

(* The read of what was found: the entry is the one the key names.         *)
LEMMA ReadKeeps ==
    ASSUME CacheInv, NEW r \in Readers, ReadFound(r)
    PROVE  CacheInv'
  <1> DEFINE key == reader[r].found[1]
             served == [reader[r] EXCEPT !.at = "served", !.found = NotFound, !.answer = items[key].data]
             missed == [reader[r] EXCEPT !.at = "missed", !.found = NotFound]
  <1>1. reader[r].at = "found" /\ UNCHANGED <<items, semIdx, semanticEntries, stores>>
    BY DEF ReadFound
  <1>2. ReaderSound(r) /\ DOMAIN reader = Readers
    BY DEF CacheInv, ReadersSound
  <1>3. \/ key \in DOMAIN items /\ reader' = [reader EXCEPT ![r] = served]
        \/ reader' = [reader EXCEPT ![r] = missed]
    BY DEF ReadFound, Miss, To
  <1>4. ASSUME key \in DOMAIN items, reader' = [reader EXCEPT ![r] = served]
        PROVE  CacheInv'
    <2>1. Keyed(key, items[key])
      BY <1>4 DEF CacheInv, EntriesKeyed
    <2>2. key.token = reader[r].key.token /\ key.scope = reader[r].key.scope
      BY <1>1, <1>2 DEF ReaderSound
    <2>3. reader[r].settings \in ContentSettings /\ reader[r].key.scope = resolveCachePolicyScope(reader[r].settings)
      BY <1>1, <1>2 DEF ReaderSound
    <2>4. /\ items[key].data.token = reader[r].key.token /\ items[key].data.terminal = "stop"
          /\ items[key].data.settings = reader[r].settings
      BY <2>1, <2>2, <2>3, ScopeInjective DEF Keyed
    <2>5. served.at = "served" /\ served.key = reader[r].key /\ served.settings = reader[r].settings /\ served.answer = items[key].data
         /\ DOMAIN served = ReaderFields
      BY <1>2 DEF ReaderSound, ReaderFields
    <2> HIDE DEF served
    <2>6. reader'[r] = served
      BY <1>2, <1>4
    <2>7. ReaderSound(r)'
      BY <2>3, <2>4, <2>5, <2>6 DEF ReaderSound
    <2> QED
      BY <1>1, <1>4, <2>7, OneReader
  <1>5. ASSUME reader' = [reader EXCEPT ![r] = missed]
        PROVE  CacheInv'
    <2>1. missed.at = "missed" /\ missed.key = reader[r].key /\ missed.settings = reader[r].settings /\ DOMAIN missed = ReaderFields
      BY <1>2 DEF ReaderSound, ReaderFields
    <2> HIDE DEF missed
    <2>2. reader'[r] = missed
      BY <1>2, <1>5
    <2>3. ReaderSound(r)'
      BY <1>1, <1>2, <2>1, <2>2 DEF ReaderSound
    <2> QED
      BY <1>1, <1>5, <2>3, OneReader
  <1> QED
    BY <1>3, <1>4, <1>5

(* The request is over.                                                    *)
LEMMA FinishKeeps ==
    ASSUME CacheInv, NEW r \in Readers, Finish(r)
    PROVE  CacheInv'
  <1>1. reader' = [reader EXCEPT ![r] = NoReader] /\ UNCHANGED <<items, semIdx, semanticEntries, stores>>
    BY DEF Finish, To
  <1>2. reader'[r] = NoReader
    BY <1>1 DEF CacheInv, ReadersSound
  <1>3. ReaderSound(r)'
    BY <1>2 DEF ReaderSound, NoReader, ReaderFields
  <1> QED
    BY <1>1, <1>3, OneReader

(* ResponseCache: whatever is stored, refreshed, expired or evicted between *)
(* the steps of a lookup, every vector of the semantic index belongs to a  *)
(* stored entry and is counted once, and a request is served only complete *)
(* answers of its own token under its own settings (CacheSound).           *)
THEOREM CacheKeepsApart == RSpec => []CacheSound
  <1>1. RInit => CacheInv
    <2> SUFFICES ASSUME RInit PROVE CacheInv
      OBVIOUS
    <2>1. items = [k \in {} |-> 0] /\ semIdx = {} /\ semanticEntries = 0 /\ stores = 0 /\ reader = [r \in Readers |-> NoReader]
      BY DEF RInit
    <2>2. EntriesKeyed(items) /\ Numbered(semIdx, stores)
      BY <2>1 DEF EntriesKeyed, Numbered
    <2>3. IndexSound(items, semIdx, semanticEntries)
      BY <2>1, FS_EmptySet DEF IndexSound
    <2>4. ReadersSound
      BY <2>1 DEF ReadersSound, ReaderSound, NoReader, ReaderFields
    <2> QED
      BY <2>1, <2>2, <2>3, <2>4 DEF CacheInv
  <1>2. CacheInv /\ [RNext]_rvars => CacheInv'
    <2> SUFFICES ASSUME CacheInv, [RNext]_rvars PROVE CacheInv'
      OBVIOUS
    <2>1. CASE UNCHANGED rvars
      <3>1. EntriesKeyed(items)' /\ Numbered(semIdx, stores)'
        BY <2>1 DEF CacheInv, EntriesKeyed, Keyed, Numbered, rvars
      <3>2. IndexSound(items, semIdx, semanticEntries)'
        BY <2>1 DEF CacheInv, IndexSound, Backed, rvars
      <3>3. ReadersSound'
        BY <2>1, ReadersFrame DEF CacheInv, rvars
      <3> QED
        BY <2>1, <3>1, <3>2, <3>3 DEF CacheInv, rvars
    <2>2. ASSUME NEW t \in Tokens, NEW s \in ContentSettings, NEW p \in DOMAIN Payloads,
                 \/ \E r \in Readers : LookupExact(r, t, s, p)
                 \/ \E terminal \in Terminals, embedded \in BOOLEAN : StoreAnswer(t, s, p, terminal, embedded)
          PROVE  CacheInv'
      BY <2>2, LookupKeeps, StoreKeeps
    <2>3. ASSUME NEW r \in Readers, ReadFound(r) \/ Finish(r) \/ \E embedded \in BOOLEAN : Search(r, embedded)
          PROVE  CacheInv'
      BY <2>3, ReadKeeps, FinishKeeps, SearchKeeps
    <2>4. ASSUME NEW k \in DOMAIN items, Expire(k)
          PROVE  CacheInv'
      BY <2>4, ExpireKeeps
    <2>5. CASE Evict
      BY <2>5, EvictKeeps
    <2> QED
      BY <2>1, <2>2, <2>3, <2>4, <2>5 DEF RNext
  <1> QED
    BY <1>1, <1>2, CacheInvSound, PTL DEF RSpec

-----------------------------------------------------------------------------
(* Usage.  What normalisation makes of a usage object, in numbers: i, h, c *)
(* the input and what of it was read from and written to a cache, o and r  *)
(* the output and what of it are thoughts.                                 *)

InputIs(t, i, h, c) == t.prompt = i /\ t.hit = h /\ t.creation = c /\ (h + c > 0 => t.miss = i - h - c)
InputSilent(t) == t.prompt = 0 /\ t.hit = 0 /\ t.creation = 0 /\ t.miss = 0
OutputIs(t, o, r) == t.completion = o /\ t.reasoning \in {0, r}
OutputSilent(t) == t.completion = 0 /\ t.reasoning = 0

Kinds == {"prompt", "completion", "total", "hit", "miss", "creation", "reasoning"}
Totals(t) ==
    /\ DOMAIN t = Kinds /\ \A k \in Kinds : t[k] \in Nat
    /\ t.total = t.prompt + t.completion

(* The counters start at zero.                                             *)
LEMMA NoTotalsZero == DOMAIN NoTotals = Kinds /\ \A k \in Kinds : NoTotals[k] = 0
  BY DEF NoTotals, Kinds

(* A record of counters with only zeros is NoTotals.                       *)
LEMMA ZeroTotals ==
    ASSUME NEW t, Totals(t), t = [k \in Kinds |-> t[k]], t.prompt = 0, t.completion = 0, t.hit = 0, t.miss = 0, t.creation = 0, t.reasoning = 0
    PROVE  t = NoTotals
  <1>1. t.total = 0
    BY DEF Totals
  <1>2. \A k \in Kinds : t[k] = 0
    BY <1>1 DEF Kinds
  <1>3. NoTotals = [k \in Kinds |-> 0]
    BY DEF NoTotals, Kinds
  <1> QED
    BY <1>2, <1>3

(* openAITotals: input and output in full.                                 *)
OpenAIFields(f, i, h, c, o, r) ==
    /\ f.openAIInput = i /\ f.openAIOutput = o /\ f.cacheHit = h /\ f.cacheCreation = c /\ f.reasoning \in {0, r}
    /\ f.geminiThoughts = 0 /\ f.geminiPrompt = 0 /\ f.geminiCandidates = 0 /\ f.geminiTotal = 0 /\ f.geminiCached = 0
    /\ f.nativeInput = 0 /\ f.nativeOutput = 0 /\ f.nativeCacheRead \in {0, h} /\ f.nativeCacheCreation \in {0, c}
    /\ f.openAITotal \in {0, i + o} /\ f.cacheMiss \in {0, i - h - c}

(* What they come to.                                                      *)
LEMMA OpenAI ==
    ASSUME NEW f, NEW i \in Nat, NEW h \in Nat, NEW c \in Nat, NEW o \in Nat, NEW r \in Nat, h + c <= i, r <= o,
           OpenAIFields(f, i, h, c, o, r)
    PROVE  LET n == NormalizeUsageTotals(f) IN
           /\ Totals(n) /\ InputIs(n, i, h, c) /\ OutputIs(n, o, r)
           /\ TotalReported(f) <=> f.openAITotal # 0
           /\ i + o = 0 => n = NoTotals
  <1> DEFINE t == openAITotals(f)
             n == NormalizeUsageTotals(f)
  <1> USE DEF OpenAIFields
  <1>1. ~geminiOnly(f) /\ ~anthropicInputSemantics(f)
    <2>1. ~geminiOnly(f)
      BY DEF geminiOnly, hasGemini
    <2>2. f.cacheHit > 0 \/ f.cacheCreation > 0 \/ (f.nativeCacheRead = 0 /\ f.nativeCacheCreation = 0)
      OBVIOUS
    <2> QED
      BY <2>1, <2>2 DEF anthropicInputSemantics, openAICacheDecomposition
  <1>2. n = [t EXCEPT !.total = IF @ = 0 THEN t.prompt + t.completion ELSE @]
    BY <1>1 DEF NormalizeUsageTotals
  <1>3. /\ t = [prompt |-> i, completion |-> o, total |-> f.openAITotal, hit |-> h, miss |-> t.miss, creation |-> c, reasoning |-> t.reasoning]
        /\ t.miss = IF f.cacheMiss = 0 /\ (h > 0 \/ c > 0) THEN max(0, i - h - c) ELSE f.cacheMiss
        /\ t.reasoning = IF f.reasoning > 0 THEN f.reasoning ELSE 0
    BY DEF openAITotals, ExtractReasoningTokens
  <1>4. i - h - c \in Nat
    OBVIOUS
  <1>5. t.miss \in Nat /\ (h + c > 0 => t.miss = i - h - c) /\ t.reasoning \in {0, r}
    BY <1>3, <1>4 DEF max
  <1> HIDE DEF t, n
  <1>6. n = [prompt |-> i, completion |-> o, total |-> i + o, hit |-> h, miss |-> t.miss, creation |-> c, reasoning |-> t.reasoning]
    BY <1>2, <1>3
  <1>7. /\ DOMAIN n = Kinds /\ n.prompt = i /\ n.completion = o /\ n.total = i + o /\ n.hit = h /\ n.creation = c
        /\ n.miss = t.miss /\ n.reasoning = t.reasoning /\ n = [k \in Kinds |-> n[k]]
    BY <1>6 DEF Kinds
  <1>8. t.reasoning \in Nat
    BY <1>5
  <1>9. Totals(n)
    BY <1>5, <1>7, <1>8 DEF Totals, Kinds
  <1>10. InputIs(n, i, h, c) /\ OutputIs(n, o, r)
    BY <1>5, <1>7 DEF InputIs, OutputIs
  <1>11. TotalReported(f) <=> f.openAITotal # 0
    BY <1>1 DEF TotalReported
  <1>12. ASSUME i + o = 0 PROVE n = NoTotals
    <2>1. i = 0 /\ o = 0 /\ h = 0 /\ c = 0 /\ r = 0
      BY <1>12
    <2>2. t.miss = 0 /\ t.reasoning = 0
      BY <1>3, <1>5, <2>1
    <2> QED
      BY <1>7, <1>9, <2>1, <2>2, ZeroTotals
  <1> QED
    BY <1>9, <1>10, <1>11, <1>12 DEF n

(* anthropicTotals: the cache counters are added to the input.             *)
AnthropicFields(f, x, h, c, y, r) ==
    /\ (f.nativeInput = x /\ f.openAIInput = 0) \/ (f.nativeInput = 0 /\ f.openAIInput = x)
    /\ (f.nativeOutput = y /\ f.openAIOutput = 0) \/ (f.nativeOutput = 0 /\ f.openAIOutput = y)
    /\ f.nativeCacheRead = h /\ f.nativeCacheCreation = c /\ f.cacheHit = 0 /\ f.cacheCreation = 0
    /\ f.reasoning = r /\ f.geminiThoughts = 0

(* What they come to.                                                      *)
LEMMA Anthropic ==
    ASSUME NEW f, NEW x \in Nat, NEW h \in Nat, NEW c \in Nat, NEW y \in Nat, NEW r \in Nat,
           AnthropicFields(f, x, h, c, y, r), ~geminiOnly(f), anthropicInputSemantics(f)
    PROVE  LET n == NormalizeUsageTotals(f) IN
           /\ Totals(n) /\ ~TotalReported(f)
           /\ n.prompt = x + h + c /\ n.hit = h /\ n.creation = c /\ n.miss = x /\ n.completion = y /\ n.reasoning = r
  <1> DEFINE t == anthropicTotals(f)
             n == NormalizeUsageTotals(f)
             p == x + h + c
  <1> USE DEF AnthropicFields
  <1>1. n = [t EXCEPT !.total = IF @ = 0 THEN t.prompt + t.completion ELSE @] /\ ~TotalReported(f)
    BY DEF NormalizeUsageTotals, TotalReported
  <1>2. (IF f.nativeInput = 0 THEN f.openAIInput ELSE f.nativeInput) = x
    OBVIOUS
  <1>3. (IF f.nativeOutput = 0 THEN f.openAIOutput ELSE f.nativeOutput) = y
    OBVIOUS
  <1>4. max(h, 0) = h /\ max(c, 0) = c /\ p \in Nat /\ max(0, p - h - c) = x /\ p + y \in Nat
    BY DEF max
  <1>5. (IF r > 0 THEN r ELSE 0) = r
    OBVIOUS
  <1>6. t = [prompt |-> p, completion |-> y, total |-> p + y, hit |-> h, miss |-> x, creation |-> c, reasoning |-> r]
    BY <1>2, <1>3, <1>4, <1>5 DEF anthropicTotals, ExtractReasoningTokens
  <1> HIDE DEF t, n, p
  <1>7. n = [prompt |-> p, completion |-> y, total |-> p + y, hit |-> h, miss |-> x, creation |-> c, reasoning |-> r]
    BY <1>1, <1>4, <1>6
  <1>8. /\ DOMAIN n = Kinds /\ n.prompt = p /\ n.completion = y /\ n.total = p + y /\ n.hit = h /\ n.creation = c
        /\ n.miss = x /\ n.reasoning = r
    BY <1>7 DEF Kinds
  <1>9. Totals(n)
    BY <1>4, <1>8 DEF Totals, Kinds
  <1> QED
    BY <1>1, <1>8, <1>9 DEF n, p

(* geminiTotals: thoughts are counted beside the candidates.               *)
GeminiFields(f, i, h, o, r) ==
    /\ f.geminiPrompt = i /\ f.geminiCached = h /\ f.geminiThoughts = r /\ f.geminiCandidates = o - r /\ f.geminiTotal = i + o
    /\ f.reasoning = 0 /\ f.cacheCreation = 0

(* What they come to.                                                      *)
LEMMA Gemini ==
    ASSUME NEW f, NEW i \in Nat, NEW h \in Nat, NEW o \in Nat, NEW r \in Nat, h <= i, r <= o,
           GeminiFields(f, i, h, o, r), i + o # 0
    PROVE  LET n == NormalizeUsageTotals(f) IN
           Totals(n) /\ TotalReported(f) /\ InputIs(n, i, h, 0) /\ OutputIs(n, o, r)
  <1> DEFINE t == geminiTotals(f)
             n == NormalizeUsageTotals(f)
  <1> USE DEF GeminiFields
  <1>1. geminiOnly(f)
    BY DEF geminiOnly
  <1>2. n = [t EXCEPT !.total = IF @ = 0 THEN t.prompt + t.completion ELSE @] /\ TotalReported(f)
    BY <1>1 DEF NormalizeUsageTotals, TotalReported
  <1>3. (o - r) + r = o /\ max(0, i - h) = i - h /\ i - h \in Nat /\ i + o \in Nat
    BY DEF max
  <1>4. t = [prompt |-> i, completion |-> o, total |-> i + o, hit |-> h, miss |-> i - h, creation |-> 0, reasoning |-> r]
    BY <1>3 DEF geminiTotals, ExtractReasoningTokens
  <1> HIDE DEF t, n
  <1>5. n = [prompt |-> i, completion |-> o, total |-> i + o, hit |-> h, miss |-> i - h, creation |-> 0, reasoning |-> r]
    BY <1>2, <1>3, <1>4
  <1>6. /\ DOMAIN n = Kinds /\ n.prompt = i /\ n.completion = o /\ n.total = i + o /\ n.hit = h /\ n.creation = 0
        /\ n.miss = i - h /\ n.reasoning = r
    BY <1>5 DEF Kinds
  <1>7. Totals(n)
    BY <1>3, <1>6 DEF Totals, Kinds
  <1> QED
    BY <1>2, <1>6, <1>7 DEF InputIs, OutputIs, n

-----------------------------------------------------------------------------
(* What the upstream has used.                                             *)
Truth == [input : Nat, cached : Nat, created : Nat, output : Nat, thoughts : Nat]
TruthTyped ==
    /\ truth \in Truth /\ truth.cached + truth.created <= truth.input /\ truth.thoughts <= truth.output
    /\ stream.shape \in Shapes /\ (stream.shape = "gemini" => truth.created = 0)

Reports == stream.shape \in {"openai", "both", "gemini"}

InputTold(n) == InputIs(n, truth.input, truth.cached, truth.created)
OutputTold(n) == OutputIs(n, truth.output, truth.thoughts)
Fair(f) ==
    LET n == NormalizeUsageTotals(f) IN
    /\ Totals(n)
    /\ InputTold(n) \/ InputSilent(n)
    /\ OutputTold(n) \/ OutputSilent(n)
    /\ n # NoTotals => (TotalReported(f) <=> Reports)
    /\ Reports => InputTold(n) /\ OutputTold(n)

(* A usage object starts with every field at zero.                         *)
Names == {"openAIInput", "openAIOutput", "openAITotal", "cacheHit", "cacheMiss", "cacheCreation",
          "nativeInput", "nativeOutput", "nativeCacheRead", "nativeCacheCreation",
          "geminiPrompt", "geminiCandidates", "geminiThoughts", "geminiTotal", "geminiCached", "reasoning"}
LEMMA Blank == DOMAIN NoFields = Names /\ \A k \in Names : NoFields[k] = 0
  BY DEF NoFields, Names

(* The numbers of a stream.                                                *)
LEMMA TruthNumbers ==
    ASSUME TruthTyped
    PROVE  /\ truth.input \in Nat /\ truth.cached \in Nat /\ truth.created \in Nat /\ truth.output \in Nat /\ truth.thoughts \in Nat
           /\ truth.cached + truth.created <= truth.input /\ truth.thoughts <= truth.output
           /\ truth.input - truth.cached - truth.created \in Nat
           /\ (truth.input - truth.cached - truth.created) + truth.cached + truth.created = truth.input
  <1> DEFINE i == truth.input
             h == truth.cached
             c == truth.created
  <1>1. /\ i \in Nat /\ h \in Nat /\ c \in Nat /\ truth.output \in Nat /\ truth.thoughts \in Nat
        /\ h + c <= i /\ truth.thoughts <= truth.output
    BY DEF TruthTyped, Truth
  <1> HIDE DEF i, h, c
  <1>2. i - h - c \in Nat /\ (i - h - c) + h + c = i
    BY <1>1
  <1> QED
    BY <1>1, <1>2 DEF i, h, c

(* OpenAI's four variants.                                                 *)
OpenAIShapes == {"openai", "no total", "with miss", "both"}

(* Input and output are told in full in each of them.                      *)
LEMMA OpenAIFair ==
    ASSUME TruthTyped, NEW part, stream.shape \in OpenAIShapes
    PROVE  Fair(usageObject(stream.shape, part))
  <1> DEFINE f == usageObject(stream.shape, part)
             i == truth.input
             h == truth.cached
             c == truth.created
             o == truth.output
             r == truth.thoughts
             base == [[[[[NoFields EXCEPT !.openAIInput = i] EXCEPT !.openAIOutput = o] EXCEPT !.cacheHit = h]
                        EXCEPT !.cacheCreation = c] EXCEPT !.reasoning = r]
             Fields ==
                 /\ f.openAIInput = i /\ f.openAIOutput = o /\ f.cacheHit = h /\ f.cacheCreation = c /\ f.reasoning = r
                 /\ f.geminiThoughts = 0 /\ f.geminiPrompt = 0 /\ f.geminiCandidates = 0 /\ f.geminiTotal = 0 /\ f.geminiCached = 0
                 /\ f.nativeInput = 0 /\ f.nativeOutput = 0 /\ f.nativeCacheRead \in {0, h} /\ f.nativeCacheCreation \in {0, c}
                 /\ f.openAITotal = (IF Reports THEN i + o ELSE 0) /\ f.cacheMiss \in {0, i - h - c}
  <1>1. i \in Nat /\ h \in Nat /\ c \in Nat /\ o \in Nat /\ r \in Nat /\ h + c <= i /\ r <= o
    BY TruthNumbers
  <1>2. /\ stream.shape = "openai" => f = [base EXCEPT !.openAITotal = i + o]
        /\ stream.shape = "no total" => f = base
        /\ stream.shape = "with miss" => f = [base EXCEPT !.cacheMiss = i - h - c]
        /\ stream.shape = "both" => f = [[[base EXCEPT !.nativeCacheRead = h] EXCEPT !.nativeCacheCreation = c] EXCEPT !.openAITotal = i + o]
    <2>1. ASSUME stream.shape = "openai" PROVE f = [base EXCEPT !.openAITotal = i + o]
      BY <2>1 DEF usageObject
    <2>2. ASSUME stream.shape = "no total" PROVE f = base
      BY <2>2 DEF usageObject
    <2>3. ASSUME stream.shape = "with miss" PROVE f = [base EXCEPT !.cacheMiss = i - h - c]
      BY <2>3 DEF usageObject
    <2>4. ASSUME stream.shape = "both"
          PROVE  f = [[[base EXCEPT !.nativeCacheRead = h] EXCEPT !.nativeCacheCreation = c] EXCEPT !.openAITotal = i + o]
      BY <2>4 DEF usageObject
    <2> QED
      BY <2>1, <2>2, <2>3, <2>4
  <1> HIDE DEF f, i, h, c, o, r
  <1>3. /\ DOMAIN base = Names
        /\ base.openAIInput = i /\ base.openAIOutput = o /\ base.cacheHit = h /\ base.cacheCreation = c /\ base.reasoning = r
        /\ \A k \in Names \ {"openAIInput", "openAIOutput", "cacheHit", "cacheCreation", "reasoning"} : base[k] = 0
    BY Blank DEF Names
  <1> HIDE DEF base
  <1>4. ASSUME stream.shape = "openai" PROVE Fields
    BY <1>2, <1>3, <1>4 DEF Names, Reports
  <1>5. ASSUME stream.shape = "no total" PROVE Fields
    <2>1. f = base
      BY <1>2, <1>5
    <2>2. ~Reports
      BY <1>5 DEF Reports
    <2>3. /\ f.openAIInput = i /\ f.openAIOutput = o /\ f.cacheHit = h /\ f.cacheCreation = c /\ f.reasoning = r
          /\ f.geminiThoughts = 0 /\ f.geminiPrompt = 0 /\ f.geminiCandidates = 0 /\ f.geminiTotal = 0 /\ f.geminiCached = 0
          /\ f.nativeInput = 0 /\ f.nativeOutput = 0
      BY <1>3, <2>1 DEF Names
    <2>4. /\ f.nativeCacheRead = 0 /\ f.nativeCacheCreation = 0
          /\ f.openAITotal = 0 /\ f.cacheMiss = 0
      BY <1>3, <2>1 DEF Names
    <2> QED
      BY <2>2, <2>3, <2>4
  <1>6. ASSUME stream.shape = "with miss" PROVE Fields
    <2>1. f = [base EXCEPT !.cacheMiss = i - h - c]
      BY <1>2, <1>6
    <2>2. ~Reports
      BY <1>6 DEF Reports
    <2>3. /\ f.openAIInput = i /\ f.openAIOutput = o /\ f.cacheHit = h /\ f.cacheCreation = c /\ f.reasoning = r
          /\ f.geminiThoughts = 0 /\ f.geminiPrompt = 0 /\ f.geminiCandidates = 0 /\ f.geminiTotal = 0 /\ f.geminiCached = 0
          /\ f.nativeInput = 0 /\ f.nativeOutput = 0
      BY <1>3, <2>1 DEF Names
    <2>4. /\ f.nativeCacheRead = 0 /\ f.nativeCacheCreation = 0
          /\ f.openAITotal = 0 /\ f.cacheMiss = i - h - c
      BY <1>3, <2>1 DEF Names
    <2> QED
      BY <2>2, <2>3, <2>4
  <1>7. ASSUME stream.shape = "both" PROVE Fields
    <2>1. f = [[[base EXCEPT !.nativeCacheRead = h] EXCEPT !.nativeCacheCreation = c] EXCEPT !.openAITotal = i + o]
      BY <1>2, <1>7
    <2>2. Reports
      BY <1>7 DEF Reports
    <2>3. /\ f.openAIInput = i /\ f.openAIOutput = o /\ f.cacheHit = h /\ f.cacheCreation = c /\ f.reasoning = r
          /\ f.geminiThoughts = 0 /\ f.geminiPrompt = 0 /\ f.geminiCandidates = 0 /\ f.geminiTotal = 0 /\ f.geminiCached = 0
          /\ f.nativeInput = 0 /\ f.nativeOutput = 0
      BY <1>3, <2>1 DEF Names
    <2>4. /\ f.nativeCacheRead = h /\ f.nativeCacheCreation = c
          /\ f.openAITotal = i + o /\ f.cacheMiss = 0
      BY <1>3, <2>1 DEF Names
    <2> QED
      BY <2>2, <2>3, <2>4
  <1>8. Fields
    BY <1>4, <1>5, <1>6, <1>7 DEF OpenAIShapes
  <1>9. OpenAIFields(f, i, h, c, o, r)
    BY <1>8 DEF OpenAIFields
  <1> DEFINE n == NormalizeUsageTotals(f)
  <1>10. /\ Totals(n) /\ InputIs(n, i, h, c) /\ OutputIs(n, o, r)
         /\ TotalReported(f) <=> f.openAITotal # 0
         /\ i + o = 0 => n = NoTotals
    BY <1>1, <1>9, OpenAI
  <1>11. n # NoTotals => (TotalReported(f) <=> Reports)
    <2>1. n # NoTotals => i + o # 0
      BY <1>10
    <2>2. f.openAITotal = IF Reports THEN i + o ELSE 0
      BY <1>8
    <2> HIDE DEF n
    <2> QED
      BY <1>10, <2>1, <2>2
  <1>12. InputTold(n) /\ OutputTold(n)
    BY <1>10 DEF InputTold, OutputTold, i, h, c, o, r
  <1> QED
    BY <1>10, <1>11, <1>12 DEF Fair, f

(* An object of zeros comes to nothing.                                    *)
LEMMA Nothing ==
    ASSUME NEW f, OpenAIFields(f, 0, 0, 0, 0, 0)
    PROVE  LET n == NormalizeUsageTotals(f) IN n = NoTotals /\ Totals(n) /\ InputSilent(n) /\ OutputSilent(n)
  <1> DEFINE n == NormalizeUsageTotals(f)
  <1>1. Totals(n) /\ n = NoTotals
    BY OpenAI
  <1> HIDE DEF n
  <1>2. InputSilent(n) /\ OutputSilent(n)
    BY <1>1, NoTotalsZero DEF InputSilent, OutputSilent, Kinds
  <1> QED
    BY <1>1, <1>2 DEF n

(* A relay of Anthropic's numbers under OpenAI's names.                    *)
LEMMA RelayFair ==
    ASSUME TruthTyped, NEW part, stream.shape = "relay"
    PROVE  Fair(usageObject(stream.shape, part))
  <1> DEFINE f == usageObject(stream.shape, part)
             i == truth.input
             h == truth.cached
             c == truth.created
             x == truth.input - truth.cached - truth.created
             o == truth.output
             r == truth.thoughts
             n == NormalizeUsageTotals(f)
  <1>1. i \in Nat /\ h \in Nat /\ c \in Nat /\ x \in Nat /\ o \in Nat /\ r \in Nat /\ x + h + c = i /\ x = i - h - c
    BY TruthNumbers
  <1>2. f = [[[[NoFields EXCEPT !.openAIInput = x] EXCEPT !.openAIOutput = o] EXCEPT !.nativeCacheRead = h] EXCEPT !.nativeCacheCreation = c]
    BY DEF usageObject
  <1>3. InputTold(n) <=> InputIs(n, i, h, c)
    BY DEF InputTold
  <1>4. OutputTold(n) <=> OutputIs(n, o, r)
    BY DEF OutputTold
  <1>5. ~Reports
    BY DEF Reports
  <1>6. Fair(f) <=> /\ Totals(n) /\ (InputTold(n) \/ InputSilent(n)) /\ (OutputTold(n) \/ OutputSilent(n))
                    /\ n # NoTotals => ~TotalReported(f)
    BY <1>5 DEF Fair
  <1> HIDE DEF f, i, h, c, x, o, r
  <1>7. /\ f.openAIInput = x /\ f.openAIOutput = o /\ f.nativeCacheRead = h /\ f.nativeCacheCreation = c
        /\ f.geminiThoughts = 0 /\ f.geminiPrompt = 0 /\ f.geminiCandidates = 0 /\ f.geminiTotal = 0 /\ f.geminiCached = 0
        /\ f.nativeInput = 0 /\ f.nativeOutput = 0 /\ f.cacheHit = 0 /\ f.cacheCreation = 0 /\ f.cacheMiss = 0
        /\ f.openAITotal = 0 /\ f.reasoning = 0
    BY <1>2, Blank DEF Names
  <1>8. CASE h + c = 0
    <2>1. h = 0 /\ c = 0 /\ x = i
      BY <1>1, <1>8
    <2>2. OpenAIFields(f, i, 0, 0, o, 0)
      BY <1>7, <2>1 DEF OpenAIFields
    <2>3. Totals(n) /\ InputIs(n, i, 0, 0) /\ OutputIs(n, o, 0) /\ ~TotalReported(f)
      BY <1>1, <1>7, <2>2, OpenAI
    <2> HIDE DEF n
    <2>4. OutputIs(n, o, r)
      BY <2>3 DEF OutputIs
    <2> QED
      BY <1>3, <1>4, <1>6, <2>1, <2>3, <2>4 DEF f
  <1>9. CASE h + c # 0
    <2>1. AnthropicFields(f, x, h, c, o, 0)
      BY <1>7 DEF AnthropicFields
    <2>2. ~geminiOnly(f)
      BY <1>7 DEF geminiOnly, hasGemini
    <2>3. anthropicInputSemantics(f)
      BY <1>1, <1>7, <1>9 DEF anthropicInputSemantics, openAICacheDecomposition
    <2>4. /\ Totals(n) /\ ~TotalReported(f)
          /\ n.prompt = x + h + c /\ n.hit = h /\ n.creation = c /\ n.miss = x /\ n.completion = o /\ n.reasoning = 0
      BY <1>1, <2>1, <2>2, <2>3, Anthropic
    <2> HIDE DEF n
    <2>5. InputIs(n, i, h, c) /\ OutputIs(n, o, r)
      BY <1>1, <2>4 DEF InputIs, OutputIs
    <2> QED
      BY <1>3, <1>4, <1>6, <2>4, <2>5 DEF f
  <1> QED
    BY <1>1, <1>8, <1>9

(* Anthropic: the input in one chunk, the output in another.               *)
LEMMA AnthropicFair ==
    ASSUME TruthTyped, NEW part \in {"start", "delta"}, stream.shape = "anthropic"
    PROVE  Fair(usageObject(stream.shape, part))
  <1> DEFINE f == usageObject(stream.shape, part)
             i == truth.input
             h == truth.cached
             c == truth.created
             x == truth.input - truth.cached - truth.created
             o == truth.output
             r == truth.thoughts
             n == NormalizeUsageTotals(f)
  <1>1. i \in Nat /\ h \in Nat /\ c \in Nat /\ x \in Nat /\ o \in Nat /\ r \in Nat /\ x + h + c = i /\ x = i - h - c /\ r <= o
    BY TruthNumbers
  <1>2. part = "start" => f = [[[NoFields EXCEPT !.nativeInput = x] EXCEPT !.nativeCacheRead = h] EXCEPT !.nativeCacheCreation = c]
    BY DEF usageObject
  <1>3. part = "delta" => f = [[NoFields EXCEPT !.nativeOutput = o] EXCEPT !.reasoning = r]
    BY DEF usageObject
  <1>4. InputTold(n) <=> InputIs(n, i, h, c)
    BY DEF InputTold
  <1>5. OutputTold(n) <=> OutputIs(n, o, r)
    BY DEF OutputTold
  <1>6. ~Reports
    BY DEF Reports
  <1>7. Fair(f) <=> /\ Totals(n) /\ (InputTold(n) \/ InputSilent(n)) /\ (OutputTold(n) \/ OutputSilent(n))
                    /\ n # NoTotals => ~TotalReported(f)
    BY <1>6 DEF Fair
  <1> HIDE DEF f, i, h, c, x, o, r
  <1>8. ASSUME OpenAIFields(f, 0, 0, 0, 0, 0) PROVE Fair(f)
    BY <1>7, <1>8, Nothing
  <1>9. CASE part = "start"
    <2>1. /\ f.nativeInput = x /\ f.nativeCacheRead = h /\ f.nativeCacheCreation = c
          /\ f.geminiThoughts = 0 /\ f.geminiPrompt = 0 /\ f.geminiCandidates = 0 /\ f.geminiTotal = 0 /\ f.geminiCached = 0
          /\ f.openAIInput = 0 /\ f.openAIOutput = 0 /\ f.nativeOutput = 0 /\ f.cacheHit = 0 /\ f.cacheCreation = 0
          /\ f.cacheMiss = 0 /\ f.openAITotal = 0 /\ f.reasoning = 0
      BY <1>2, <1>9, Blank DEF Names
    <2>2. CASE i = 0
      <3>1. x = 0 /\ h = 0 /\ c = 0
        BY <1>1, <2>2
      <3>2. OpenAIFields(f, 0, 0, 0, 0, 0)
        BY <2>1, <3>1 DEF OpenAIFields
      <3> QED
        BY <1>8, <3>2 DEF f
    <2>3. CASE i # 0
      <3>1. AnthropicFields(f, x, h, c, 0, 0)
        BY <2>1 DEF AnthropicFields
      <3>2. ~geminiOnly(f)
        BY <2>1 DEF geminiOnly, hasGemini
      <3>3. x # 0 \/ h # 0 \/ c # 0
        BY <1>1, <2>3
      <3>4. anthropicInputSemantics(f)
        BY <1>1, <2>1, <3>3 DEF anthropicInputSemantics, openAICacheDecomposition
      <3>5. /\ Totals(n) /\ ~TotalReported(f)
            /\ n.prompt = x + h + c /\ n.hit = h /\ n.creation = c /\ n.miss = x /\ n.completion = 0 /\ n.reasoning = 0
        BY <1>1, <3>1, <3>2, <3>4, Anthropic
      <3> HIDE DEF n
      <3>6. InputIs(n, i, h, c) /\ OutputSilent(n)
        BY <1>1, <3>5 DEF InputIs, OutputSilent
      <3> QED
        BY <1>4, <1>5, <1>7, <3>5, <3>6 DEF f
    <2> QED
      BY <2>2, <2>3
  <1>10. CASE part = "delta"
    <2>1. /\ f.nativeOutput = o /\ f.reasoning = r
          /\ f.geminiThoughts = 0 /\ f.geminiPrompt = 0 /\ f.geminiCandidates = 0 /\ f.geminiTotal = 0 /\ f.geminiCached = 0
          /\ f.openAIInput = 0 /\ f.openAIOutput = 0 /\ f.nativeInput = 0 /\ f.nativeCacheRead = 0 /\ f.nativeCacheCreation = 0
          /\ f.cacheHit = 0 /\ f.cacheCreation = 0 /\ f.cacheMiss = 0 /\ f.openAITotal = 0
      BY <1>3, <1>10, Blank DEF Names
    <2>2. CASE o = 0
      <3>1. r = 0
        BY <1>1, <2>2
      <3>2. OpenAIFields(f, 0, 0, 0, 0, 0)
        BY <2>1, <2>2, <3>1 DEF OpenAIFields
      <3> QED
        BY <1>8, <3>2 DEF f
    <2>3. CASE o # 0
      <3>1. AnthropicFields(f, 0, 0, 0, o, r)
        BY <2>1 DEF AnthropicFields
      <3>2. ~geminiOnly(f)
        BY <2>1 DEF geminiOnly, hasGemini
      <3>3. anthropicInputSemantics(f)
        BY <1>1, <2>1, <2>3 DEF anthropicInputSemantics, openAICacheDecomposition
      <3>4. /\ Totals(n) /\ ~TotalReported(f)
            /\ n.prompt = 0 + 0 + 0 /\ n.hit = 0 /\ n.creation = 0 /\ n.miss = 0 /\ n.completion = o /\ n.reasoning = r
        BY <1>1, <3>1, <3>2, <3>3, Anthropic
      <3> HIDE DEF n
      <3>5. InputSilent(n) /\ OutputIs(n, o, r)
        BY <1>1, <3>4 DEF InputSilent, OutputIs
      <3> QED
        BY <1>4, <1>5, <1>7, <3>4, <3>5 DEF f
    <2> QED
      BY <2>2, <2>3
  <1> QED
    BY <1>9, <1>10

(* Gemini.                                                                 *)
LEMMA GeminiFair ==
    ASSUME TruthTyped, NEW part, stream.shape = "gemini"
    PROVE  Fair(usageObject(stream.shape, part))
  <1> DEFINE f == usageObject(stream.shape, part)
             i == truth.input
             h == truth.cached
             c == truth.created
             o == truth.output
             r == truth.thoughts
             n == NormalizeUsageTotals(f)
  <1>1. i \in Nat /\ h \in Nat /\ o \in Nat /\ r \in Nat /\ h + c <= i /\ r <= o /\ c = 0
    BY TruthNumbers DEF TruthTyped
  <1>2. f = [[[[[NoFields EXCEPT !.geminiPrompt = i] EXCEPT !.geminiCached = h] EXCEPT !.geminiThoughts = r]
               EXCEPT !.geminiCandidates = o - r] EXCEPT !.geminiTotal = i + o]
    BY DEF usageObject
  <1>3. InputTold(n) <=> InputIs(n, i, h, c)
    BY DEF InputTold
  <1>4. OutputTold(n) <=> OutputIs(n, o, r)
    BY DEF OutputTold
  <1>5. Reports
    BY DEF Reports
  <1>6. Fair(f) <=> Totals(n) /\ InputTold(n) /\ OutputTold(n) /\ (n # NoTotals => TotalReported(f))
    BY <1>5 DEF Fair
  <1> HIDE DEF f, i, h, c, o, r
  <1>7. /\ f.geminiPrompt = i /\ f.geminiCached = h /\ f.geminiThoughts = r /\ f.geminiCandidates = o - r /\ f.geminiTotal = i + o
        /\ f.openAIInput = 0 /\ f.openAIOutput = 0 /\ f.nativeInput = 0 /\ f.nativeOutput = 0
        /\ f.nativeCacheRead = 0 /\ f.nativeCacheCreation = 0
        /\ f.cacheHit = 0 /\ f.cacheCreation = 0 /\ f.cacheMiss = 0 /\ f.openAITotal = 0 /\ f.reasoning = 0
    BY <1>2, Blank DEF Names
  <1>8. CASE i + o = 0
    <2>1. i = 0 /\ h = 0 /\ o = 0 /\ r = 0
      BY <1>1, <1>8
    <2>2. OpenAIFields(f, 0, 0, 0, 0, 0)
      BY <1>7, <2>1 DEF OpenAIFields
    <2>3. n = NoTotals /\ Totals(n) /\ InputSilent(n) /\ OutputSilent(n)
      BY <2>2, Nothing
    <2> HIDE DEF n
    <2>4. InputIs(n, i, h, c) /\ OutputIs(n, o, r)
      BY <1>1, <2>1, <2>3 DEF InputIs, OutputIs, InputSilent, OutputSilent
    <2> QED
      BY <1>3, <1>4, <1>6, <2>3, <2>4 DEF f
  <1>9. CASE i + o # 0
    <2>1. GeminiFields(f, i, h, o, r)
      BY <1>7 DEF GeminiFields
    <2>2. h <= i
      BY <1>1
    <2>3. Totals(n) /\ TotalReported(f) /\ InputIs(n, i, h, 0) /\ OutputIs(n, o, r)
      BY <1>1, <1>9, <2>1, <2>2, Gemini
    <2> HIDE DEF n
    <2> QED
      BY <1>1, <1>3, <1>4, <1>6, <2>3 DEF f
  <1> QED
    BY <1>8, <1>9

(* NormalizeUsageTotals is right in every shape.                           *)
LEMMA NormalizeFair ==
    ASSUME TruthTyped, NEW part \in {"start", "delta"}
    PROVE  Fair(usageObject(stream.shape, part))
  <1>1. stream.shape \in Shapes
    BY DEF TruthTyped
  <1> QED
    <2>1. CASE stream.shape \in OpenAIShapes
      BY <2>1, OpenAIFair
    <2>2. CASE stream.shape = "relay"
      BY <2>2, RelayFair
    <2>3. CASE stream.shape = "anthropic"
      BY <2>3, AnthropicFair
    <2>4. CASE stream.shape = "gemini"
      BY <2>4, GeminiFair
    <2> QED
      BY <1>1, <2>1, <2>2, <2>3, <2>4 DEF Shapes, OpenAIShapes

-----------------------------------------------------------------------------
(* The running totals.  The marks are what has been reported, except that  *)
(* the mark of the total stays behind where the provider sends none; they  *)
(* know all of the input or nothing of it, and no more than the output.    *)
Counters(t) == DOMAIN t = Kinds /\ \A k \in Kinds : t[k] \in Nat
InputKnown == InputIs(mark, truth.input, truth.cached, truth.created) \/ InputSilent(mark)
OutputKnown == mark.completion <= truth.output /\ mark.reasoning <= mark.completion
UsageInv ==
    /\ TruthTyped
    /\ Counters(mark) /\ Counters(reported) /\ (\A k \in Kinds \ {"total"} : reported[k] = mark[k])
    /\ reported.total = reported.prompt + reported.completion
    /\ Reports => mark.total = mark.prompt + mark.completion
    /\ InputKnown /\ OutputKnown

(* advanceHighWater: the delta is what the mark advances by.               *)
LEMMA HighWater ==
    ASSUME NEW a \in Nat, NEW m \in Nat
    PROVE  LET v == advanceHighWater(a, m) IN
           /\ v.mark = (IF a <= m THEN m ELSE a) /\ v.delta = (IF a <= m THEN 0 ELSE a - m)
           /\ v.mark \in Nat /\ v.delta \in Nat /\ m + v.delta = v.mark
  BY DEF advanceHighWater

(* The invariant gives the property.                                       *)
LEMMA UsageCounted == UsageInv => CountedOnce
  <1> SUFFICES ASSUME UsageInv PROVE CountedOnce
    OBVIOUS
  <1> DEFINE i == truth.input
             h == truth.cached
             c == truth.created
             o == truth.output
  <1>1. i \in Nat /\ h \in Nat /\ c \in Nat /\ o \in Nat
    BY TruthNumbers DEF UsageInv
  <1>2. /\ reported.prompt = mark.prompt /\ reported.completion = mark.completion /\ reported.hit = mark.hit
        /\ reported.miss = mark.miss /\ reported.creation = mark.creation /\ reported.reasoning = mark.reasoning
    BY DEF UsageInv, Kinds
  <1>3. InputIs(mark, i, h, c) \/ InputSilent(mark)
    BY DEF UsageInv, InputKnown
  <1>4. mark.completion <= o /\ mark.reasoning <= mark.completion
    BY DEF UsageInv, OutputKnown
  <1>5. reported.total = reported.prompt + reported.completion
    BY DEF UsageInv
  <1>6. CountedOnce <=>
          /\ reported.total = reported.prompt + reported.completion
          /\ reported.prompt \in {0, i} /\ reported.completion <= o
          /\ reported.hit + reported.creation > 0 => reported.hit + reported.miss + reported.creation = reported.prompt
          /\ reported.reasoning <= reported.completion
    BY DEF CountedOnce
  <1> HIDE DEF i, h, c, o
  <1>7. CASE InputIs(mark, i, h, c)
    <2>1. reported.hit + reported.creation > 0 => reported.hit + reported.miss + reported.creation = reported.prompt
      BY <1>1, <1>2, <1>7 DEF InputIs
    <2> QED
      BY <1>2, <1>4, <1>5, <1>6, <1>7, <2>1 DEF InputIs
  <1>8. CASE InputSilent(mark)
    BY <1>2, <1>4, <1>5, <1>6, <1>8 DEF InputSilent
  <1> QED
    BY <1>3, <1>7, <1>8

(* A stream starts with nothing reported.                                  *)
LEMMA UsageInit == MeterAssumption /\ MInit => UsageInv
  <1> SUFFICES ASSUME MeterAssumption, MInit PROVE UsageInv
    OBVIOUS
  <1>1. PICK p \in Prompts :
          /\ stream.shape = "gemini" => p.created = 0
          /\ truth = [input |-> p.input, cached |-> p.cached, created |-> p.created, output |-> 0, thoughts |-> 0]
    BY DEF MInit
  <1>2. p.input \in Nat /\ p.cached \in Nat /\ p.created \in Nat /\ p.cached + p.created <= p.input
    BY DEF MeterAssumption
  <1>3. stream.shape \in Shapes
    BY DEF MeterAssumption, MInit
  <1>4. TruthTyped
    <2>1. truth \in Truth
      BY <1>1, <1>2 DEF Truth
    <2> QED
      BY <1>1, <1>2, <1>3, <2>1 DEF TruthTyped
  <1>5. mark = NoTotals /\ reported = NoTotals
    BY DEF MInit
  <1>6. Counters(mark) /\ Counters(reported) /\ \A k \in Kinds : mark[k] = 0 /\ reported[k] = 0
    BY <1>5, NoTotalsZero DEF Counters
  <1>7. /\ mark.prompt = 0 /\ mark.completion = 0 /\ mark.hit = 0 /\ mark.miss = 0 /\ mark.creation = 0 /\ mark.reasoning = 0
        /\ mark.total = 0 /\ reported.total = 0 /\ reported.prompt = 0 /\ reported.completion = 0
    BY <1>6 DEF Kinds
  <1>8. truth.output = 0
    BY <1>1
  <1>9. InputKnown /\ OutputKnown
    BY <1>7, <1>8 DEF InputKnown, InputSilent, OutputKnown
  <1> QED
    BY <1>4, <1>6, <1>7, <1>9 DEF UsageInv

(* The model writes on.                                                    *)
LEMMA UsageGenerate == ASSUME UsageInv, NEW thought \in BOOLEAN, Generate(thought) PROVE UsageInv'
  <1> DEFINE d == IF thought THEN 1 ELSE 0
  <1>1. /\ truth' = [[truth EXCEPT !.output = @ + 1] EXCEPT !.thoughts = @ + d]
        /\ stream' = stream /\ mark' = mark /\ reported' = reported
    BY DEF Generate
  <1>2. d \in {0, 1}
    OBVIOUS
  <1> HIDE DEF d
  <1>3. truth \in Truth /\ truth.thoughts <= truth.output /\ truth.cached + truth.created <= truth.input
    BY DEF UsageInv, TruthTyped
  <1>4. /\ truth' \in Truth /\ truth'.input = truth.input /\ truth'.cached = truth.cached /\ truth'.created = truth.created
        /\ truth'.output = truth.output + 1 /\ truth'.thoughts = truth.thoughts + d
    <2> DEFINE one == truth.output + 1
               more == truth.thoughts + d
    <2>1. truth' = [[truth EXCEPT !.output = one] EXCEPT !.thoughts = more]
      BY <1>1, <1>3 DEF Truth
    <2>2. one \in Nat /\ more \in Nat
      BY <1>2, <1>3 DEF Truth
    <2> HIDE DEF one, more
    <2>3. /\ truth' \in Truth /\ truth'.input = truth.input /\ truth'.cached = truth.cached /\ truth'.created = truth.created
          /\ truth'.output = one /\ truth'.thoughts = more
      BY <1>3, <2>1, <2>2 DEF Truth
    <2> QED
      BY <2>3 DEF one, more
  <1>5. truth.output \in Nat /\ truth.thoughts \in Nat
    BY <1>3 DEF Truth
  <1>6. truth'.thoughts <= truth'.output
    BY <1>2, <1>3, <1>4, <1>5
  <1>7. TruthTyped'
    BY <1>1, <1>3, <1>4, <1>6 DEF UsageInv, TruthTyped
  <1>8. InputKnown'
    BY <1>1, <1>4 DEF UsageInv, InputKnown, InputIs, InputSilent
  <1>9. OutputKnown'
    <2>1. mark.completion \in Nat /\ mark.completion <= truth.output /\ mark.reasoning <= mark.completion
      BY DEF UsageInv, OutputKnown, Counters, Kinds
    <2>2. mark.completion <= truth.output + 1
      BY <1>5, <2>1
    <2> QED
      BY <1>1, <1>4, <2>1, <2>2 DEF OutputKnown
  <1> QED
    BY <1>1, <1>7, <1>8, <1>9 DEF UsageInv, Counters, Reports

(* extractUsageFromMap.                                                    *)
LEMMA UsageExtract == ASSUME UsageInv, NEW part \in {"start", "delta"}, ExtractUsage(part) PROVE UsageInv'
  <1> DEFINE f == usageObject(stream.shape, part)
             n == NormalizeUsageTotals(f)
             told == TotalReported(f)
             A(k) == advanceHighWater(n[k], mark[k])
             adv == [k \in DOMAIN NoTotals |-> A(k)]
             D(k) == IF k = "total" /\ ~told THEN A("prompt").delta + A("completion").delta ELSE A(k).delta
  <1>1. Fair(f)
    BY NormalizeFair DEF UsageInv
  <1>2. DOMAIN NoTotals = Kinds
    BY NoTotalsZero
  <1>3. /\ n # NoTotals
        /\ mark' = [k \in Kinds |-> IF k = "total" /\ ~told THEN mark[k] ELSE A(k).mark]
        /\ reported' = [k \in Kinds |-> reported[k] + D(k)]
        /\ stream' = stream /\ truth' = truth
    <2>1. {"prompt", "completion"} \subseteq Kinds
      BY DEF Kinds
    <2> QED
      BY <1>2, <2>1 DEF ExtractUsage
  <1> HIDE DEF f
  <1>4. /\ Totals(n) /\ (InputTold(n) \/ InputSilent(n)) /\ (OutputTold(n) \/ OutputSilent(n))
        /\ told <=> Reports
        /\ Reports => InputTold(n) /\ OutputTold(n)
    BY <1>1, <1>3 DEF Fair
  <1> HIDE DEF n, told
  <1>5. \A k \in Kinds : n[k] \in Nat /\ mark[k] \in Nat /\ reported[k] \in Nat
    BY <1>4 DEF Totals, UsageInv, Counters
  <1>6. \A k \in Kinds : /\ A(k).mark = (IF n[k] <= mark[k] THEN mark[k] ELSE n[k])
                          /\ A(k).delta = (IF n[k] <= mark[k] THEN 0 ELSE n[k] - mark[k])
                          /\ A(k).mark \in Nat /\ A(k).delta \in Nat /\ mark[k] + A(k).delta = A(k).mark
    BY <1>5, HighWater
  <1> HIDE DEF A
  <1>7. \A k \in Kinds \ {"total"} : /\ mark'[k] = A(k).mark /\ reported'[k] = reported[k] + A(k).delta
    BY <1>3
  <1>8. \A k \in Kinds \ {"total"} : reported'[k] = mark'[k]
    BY <1>5, <1>6, <1>7 DEF UsageInv
  <1>9. "total" \in Kinds /\ "prompt" \in Kinds \ {"total"} /\ "completion" \in Kinds \ {"total"}
    BY DEF Kinds
  <1>10. D("total") \in Nat /\ \A k \in Kinds : D(k) \in Nat
    <2>1. A("prompt").delta + A("completion").delta \in Nat
      BY <1>6, <1>9
    <2> QED
      BY <1>6, <1>9, <2>1
  <1>11. Counters(mark)' /\ Counters(reported)'
    <2>1. DOMAIN mark' = Kinds /\ DOMAIN reported' = Kinds
      BY <1>3
    <2>2. \A k \in Kinds : mark'[k] \in Nat
      BY <1>3, <1>5, <1>6
    <2>3. \A k \in Kinds : reported'[k] = reported[k] + D(k)
      BY <1>3
    <2> HIDE DEF D
    <2>4. \A k \in Kinds : reported'[k] \in Nat
      BY <1>5, <1>10, <2>3
    <2> QED
      BY <2>1, <2>2, <2>4 DEF Counters
  <1> DEFINE i == truth.input
             h == truth.cached
             c == truth.created
             o == truth.output
             r == truth.thoughts
  <1>12. i \in Nat /\ h \in Nat /\ c \in Nat /\ o \in Nat /\ r \in Nat /\ r <= o
    BY TruthNumbers DEF UsageInv
  <1>13. /\ InputIs(n, i, h, c) \/ InputSilent(n)
         /\ OutputIs(n, o, r) \/ OutputSilent(n)
         /\ Reports => InputIs(n, i, h, c) /\ OutputIs(n, o, r)
         /\ InputIs(mark, i, h, c) \/ InputSilent(mark)
         /\ mark.completion <= o /\ mark.reasoning <= mark.completion
    BY <1>4 DEF InputTold, OutputTold, UsageInv, InputKnown, OutputKnown
  <1>14. (InputIs(mark, i, h, c) \/ InputSilent(mark))' <=> InputKnown'
    BY <1>3 DEF InputKnown
  <1>15. OutputKnown' <=> mark'.completion <= o /\ mark'.reasoning <= mark'.completion
    BY <1>3 DEF OutputKnown
  <1>16. /\ i' = i /\ h' = h /\ c' = c /\ TruthTyped' /\ (Reports' <=> Reports)
    BY <1>3 DEF UsageInv, TruthTyped, Reports
  <1> HIDE DEF i, h, c, o, r
  <1>17. InputKnown'
    <2>1. /\ mark'.prompt = (IF n.prompt <= mark.prompt THEN mark.prompt ELSE n.prompt)
          /\ mark'.hit = (IF n.hit <= mark.hit THEN mark.hit ELSE n.hit)
          /\ mark'.creation = (IF n.creation <= mark.creation THEN mark.creation ELSE n.creation)
          /\ mark'.miss = (IF n.miss <= mark.miss THEN mark.miss ELSE n.miss)
          /\ n.prompt \in Nat /\ n.hit \in Nat /\ n.creation \in Nat /\ n.miss \in Nat
          /\ mark.prompt \in Nat /\ mark.hit \in Nat /\ mark.creation \in Nat /\ mark.miss \in Nat
      BY <1>5, <1>6, <1>7 DEF Kinds
    <2>2. CASE InputIs(n, i, h, c) /\ InputIs(mark, i, h, c)
      <3>1. mark'.prompt = i /\ mark'.hit = h /\ mark'.creation = c /\ (h + c > 0 => mark'.miss = i - h - c)
        BY <1>12, <2>1, <2>2 DEF InputIs
      <3> QED
        BY <1>14, <1>16, <3>1 DEF InputIs
    <2>3. CASE InputIs(n, i, h, c) /\ InputSilent(mark)
      <3>1. mark'.prompt = i /\ mark'.hit = h /\ mark'.creation = c /\ (h + c > 0 => mark'.miss = i - h - c)
        BY <1>12, <2>1, <2>3 DEF InputIs, InputSilent
      <3> QED
        BY <1>14, <1>16, <3>1 DEF InputIs
    <2>4. CASE InputSilent(n) /\ InputIs(mark, i, h, c)
      <3>1. mark'.prompt = i /\ mark'.hit = h /\ mark'.creation = c /\ (h + c > 0 => mark'.miss = i - h - c)
        BY <1>12, <2>1, <2>4 DEF InputIs, InputSilent
      <3> QED
        BY <1>14, <1>16, <3>1 DEF InputIs
    <2>5. CASE InputSilent(n) /\ InputSilent(mark)
      <3>1. mark'.prompt = 0 /\ mark'.hit = 0 /\ mark'.creation = 0 /\ mark'.miss = 0
        BY <2>1, <2>5 DEF InputSilent
      <3> QED
        BY <1>14, <3>1 DEF InputSilent
    <2> QED
      BY <1>13, <2>2, <2>3, <2>4, <2>5
  <1>18. OutputKnown'
    <2>1. /\ mark'.completion = (IF n.completion <= mark.completion THEN mark.completion ELSE n.completion)
          /\ mark'.reasoning = (IF n.reasoning <= mark.reasoning THEN mark.reasoning ELSE n.reasoning)
          /\ n.completion \in Nat /\ n.reasoning \in Nat /\ mark.completion \in Nat /\ mark.reasoning \in Nat
      BY <1>5, <1>6, <1>7 DEF Kinds
    <2>2. mark'.completion <= o /\ mark'.reasoning <= mark'.completion
      BY <1>12, <1>13, <2>1 DEF OutputIs, OutputSilent
    <2> QED
      BY <1>15, <2>2
  <1>19. (Reports => mark.total = mark.prompt + mark.completion)' /\ (reported.total = reported.prompt + reported.completion)'
    <2> DEFINE dp == A("prompt").delta
               dc == A("completion").delta
    <2>1. /\ reported'.prompt = reported.prompt + dp /\ reported'.completion = reported.completion + dc
          /\ mark'.prompt = mark.prompt + dp /\ mark'.completion = mark.completion + dc
          /\ reported.prompt \in Nat /\ reported.completion \in Nat /\ reported.total \in Nat
          /\ mark.prompt \in Nat /\ mark.completion \in Nat /\ dp \in Nat /\ dc \in Nat
      BY <1>5, <1>6, <1>7, <1>9
    <2>2. reported.total = reported.prompt + reported.completion
      BY DEF UsageInv
    <2>3. CASE ~Reports
      <3>1. reported'.total = reported.total + (dp + dc)
        BY <1>3, <1>4, <1>9, <2>3
      <3> HIDE DEF dp, dc
      <3>2. reported'.total = reported'.prompt + reported'.completion
        BY <2>1, <2>2, <3>1
      <3> QED
        BY <1>16, <2>3, <3>2
    <2>4. CASE Reports
      <3>1. /\ reported'.total = reported.total + A("total").delta
            /\ mark'.total = mark.total + A("total").delta
        BY <1>3, <1>4, <1>6, <1>9, <2>4
      <3>2. n.total = n.prompt + n.completion /\ mark.total = mark.prompt + mark.completion
        BY <1>4, <2>4 DEF Totals, UsageInv
      <3>3. /\ A("total").delta = (IF n.total <= mark.total THEN 0 ELSE n.total - mark.total)
            /\ dp = (IF n.prompt <= mark.prompt THEN 0 ELSE n.prompt - mark.prompt)
            /\ dc = (IF n.completion <= mark.completion THEN 0 ELSE n.completion - mark.completion)
            /\ n.prompt \in Nat /\ n.completion \in Nat
        BY <1>5, <1>6, <1>9
      <3>4. mark.prompt <= n.prompt /\ mark.completion <= n.completion
        BY <1>12, <1>13, <2>4 DEF InputIs, InputSilent, OutputIs
      <3> HIDE DEF dp, dc
      <3>5. dp = n.prompt - mark.prompt /\ dc = n.completion - mark.completion
        BY <2>1, <3>3, <3>4
      <3>6. A("total").delta = dp + dc
        BY <2>1, <3>2, <3>3, <3>4, <3>5
      <3>7. reported'.total = reported'.prompt + reported'.completion /\ mark'.total = mark'.prompt + mark'.completion
        BY <2>1, <2>2, <3>1, <3>2, <3>6
      <3> QED
        BY <3>7
    <2> QED
      BY <2>3, <2>4
  <1> QED
    BY <1>8, <1>11, <1>16, <1>17, <1>18, <1>19 DEF UsageInv

(* Nothing else touches the usage.                                         *)
LEMMA UsageFrame == ASSUME UsageInv, UNCHANGED <<stream, usageVars>> PROVE UsageInv'
  BY DEF UsageInv, TruthTyped, Counters, Reports, InputKnown, OutputKnown, InputIs, InputSilent, usageVars

-----------------------------------------------------------------------------
(* Tool calls.  Until it is shown a call holds the id it is buffered with, *)
(* then the id it is shown with.  Only the call that opens an index is     *)
(* held back and has its id looked at.                                     *)
Indices == {index(c) : c \in Calls}
Openers == {c \in Calls : opens(c)}
ToolIds == {stream.calls[c].id : c \in Calls} \cup {SyntheticToolCallID(i) : i \in Indices} \cup {<<>>}
CallsTyped ==
    /\ Calls \subseteq Nat /\ seenIndices \subseteq Indices /\ <<>> \notin seenIDs
    /\ fed \in [Calls -> [args : Nat, named : BOOLEAN, early : Nat]]
    /\ pending \in [Indices -> [id : ToolIds, args : Nat]]
    /\ shown \in [Calls -> [id : ToolIds, name : BOOLEAN, args : Nat]]

Holds(c) == index(c) \in seenIndices \/ pending[index(c)] # noPending
Held(c) == IF index(c) \in seenIndices THEN shown[c].id ELSE pending[index(c)].id

(* An id that was not made here is the upstream's and has been seen; two   *)
(* openers hold one id only where it is made here for one of them.         *)
Owned == \A c \in Openers : Holds(c) => \/ Held(c) = SyntheticToolCallID(index(c))
                                        \/ Held(c) = stream.calls[c].id /\ Held(c) \in seenIDs
Apart == \A c, d \in Openers : c # d /\ Holds(c) /\ Holds(d) /\ Held(c) = Held(d) =>
                                Held(c) = SyntheticToolCallID(index(c)) \/ Held(c) = SyntheticToolCallID(index(d))

(* The last of the fragments that came before the name is buffered.        *)
Waiting(c) == fed[c].args = fed[c].early /\ pending[index(c)].args = fed[c].early - overwritten(c)
Whole(c) == (fed[c].named => shown[c].name) /\ shown[c].args = fed[c].args - overwritten(c)
Gathered == \A c \in Calls :
    /\ fed[c].named => index(c) \in seenIndices
    /\ opens(c) /\ index(c) \in seenIndices => fed[c].named
    /\ IF index(c) \in seenIndices THEN Whole(c)
       ELSE IF opens(c) THEN Waiting(c) ELSE fed[c] = unfed /\ shown[c] = noCall

CallsInv == CallsTyped /\ Owned /\ Apart /\ Gathered

(* Ids made here differ from call to call and are known as such.           *)
LEMMA Synthetic ==
    ASSUME NEW i, NEW j
    PROVE  /\ SyntheticToolCallID(i) = SyntheticToolCallID(j) => i = j
           /\ SyntheticToolCallID(i) # <<>>
  BY DEF SyntheticToolCallID

(* Calls that open an index open different ones.                           *)
LEMMA OpenersApart ==
    ASSUME CallsTyped, NEW c \in Openers, NEW d \in Openers, c # d
    PROVE  index(c) # index(d)
  <1>1. c \in Calls /\ d \in Calls /\ c \in Nat /\ d \in Nat
    BY DEF CallsTyped, Openers
  <1>2. c < d \/ d < c
    BY <1>1
  <1> QED
    BY <1>1, <1>2 DEF Openers, opens

(* The invariant gives the property.                                       *)
LEMMA CallsKept == CallsInv => CallsWhole
  <1> SUFFICES ASSUME CallsInv PROVE CallsWhole
    OBVIOUS
  <1>1. ASSUME NEW c \in Calls, NEW d \in Calls, c # d, opens(c), opens(d),
               index(c) \in seenIndices, index(d) \in seenIndices, shown[c].id = shown[d].id
        PROVE  stream.calls[c].id = SyntheticToolCallID(index(d)) \/ stream.calls[d].id = SyntheticToolCallID(index(c))
    <2>1. c \in Openers /\ d \in Openers
      BY <1>1 DEF Openers
    <2>2. Holds(c) /\ Holds(d) /\ Held(c) = shown[c].id /\ Held(d) = shown[c].id
      BY <1>1 DEF Holds, Held
    <2>3. Held(c) = SyntheticToolCallID(index(c)) \/ Held(c) = SyntheticToolCallID(index(d))
      BY <1>1, <2>1, <2>2 DEF CallsInv, Apart
    <2>4. Held(c) = SyntheticToolCallID(index(c)) \/ Held(c) = stream.calls[c].id
      BY <2>1, <2>2 DEF CallsInv, Owned
    <2>5. Held(d) = SyntheticToolCallID(index(d)) \/ Held(d) = stream.calls[d].id
      BY <2>1, <2>2 DEF CallsInv, Owned
    <2>6. index(c) # index(d)
      BY <1>1, <2>1, OpenersApart DEF CallsInv
    <2>7. SyntheticToolCallID(index(c)) # SyntheticToolCallID(index(d))
      BY <2>6, Synthetic
    <2> QED
      BY <2>2, <2>3, <2>4, <2>5, <2>7
  <1>2. ASSUME NEW c \in Calls
        PROVE  /\ fed[c].named => shown[c].name
               /\ index(c) \in seenIndices => shown[c].args = fed[c].args - overwritten(c)
    BY DEF CallsInv, Gathered, Whole
  <1> QED
    BY <1>1, <1>2 DEF CallsWhole

(* A stream starts without calls.                                          *)
LEMMA CallsInit == ASSUME MeterAssumption PROVE MInit => CallsInv
  <1> SUFFICES ASSUME MInit PROVE CallsInv
    OBVIOUS
  <1>1. /\ seenIndices = {} /\ seenIDs = {} /\ pending = [i \in Indices |-> noPending]
        /\ fed = [c \in Calls |-> unfed] /\ shown = [c \in Calls |-> noCall]
    BY DEF MInit, Indices
  <1>2. Calls \subseteq Nat
    BY DEF MInit, MeterAssumption, Calls
  <1>3. <<>> \in ToolIds
    BY DEF ToolIds
  <1>4. /\ noPending \in [id : ToolIds, args : Nat] /\ noCall \in [id : ToolIds, name : BOOLEAN, args : Nat]
        /\ unfed \in [args : Nat, named : BOOLEAN, early : Nat]
        /\ noPending.args = 0 /\ unfed.args = 0 /\ unfed.early = 0 /\ ~unfed.named
    BY <1>3 DEF noPending, noCall, unfed
  <1>5. CallsTyped
    BY <1>1, <1>2, <1>4 DEF CallsTyped
  <1>6. \A c \in Calls : index(c) \in Indices
    BY DEF Indices
  <1>7. \A c \in Openers : ~Holds(c)
    BY <1>1, <1>6 DEF Holds, Openers
  <1>8. ASSUME NEW c \in Calls PROVE Waiting(c)
    <2>1. fed[c] = unfed /\ pending[index(c)] = noPending
      BY <1>1, <1>6
    <2>2. overwritten(c) = 0
      BY <1>4, <2>1 DEF overwritten
    <2> QED
      BY <1>4, <2>1, <2>2 DEF Waiting
  <1>9. Gathered
    BY <1>1, <1>4, <1>8 DEF Gathered
  <1> QED
    BY <1>5, <1>7, <1>9 DEF CallsInv, Owned, Apart

(* Nothing else touches the calls.                                         *)
LEMMA CallsFrame == ASSUME CallsInv, UNCHANGED <<stream, callVars>> PROVE CallsInv'
  <1>1. /\ stream' = stream /\ seenIndices' = seenIndices /\ seenIDs' = seenIDs
        /\ pending' = pending /\ fed' = fed /\ shown' = shown
    BY DEF callVars
  <1>2. Calls' = Calls /\ Indices' = Indices /\ ToolIds' = ToolIds
    BY <1>1 DEF Calls, Indices, ToolIds, index
  <1>3. Openers' = Openers
    BY <1>1, <1>2 DEF Openers, opens, index
  <1>4. CallsTyped'
    BY <1>1, <1>2 DEF CallsInv, CallsTyped
  <1>5. Owned'
    BY <1>1, <1>3 DEF CallsInv, Owned, Holds, Held, index
  <1>6. Apart'
    BY <1>1, <1>3 DEF CallsInv, Apart, Holds, Held, index
  <1>7. Gathered'
    BY <1>1, <1>2 DEF CallsInv, Gathered, Waiting, Whole, overwritten, index, opens
  <1> QED
    BY <1>4, <1>5, <1>6, <1>7 DEF CallsInv

(* A delta for an index that is not known is of the call that opens it.    *)
LEMMA DeltaOpens ==
    ASSUME CallsInv, NEW c \in Calls, inTurn(c), index(c) \notin seenIndices
    PROVE  opens(c)
  <1>1. ASSUME NEW d \in Calls, d < c, index(d) = index(c) PROVE FALSE
    <2>1. fed[d].named
      BY <1>1 DEF inTurn
    <2>2. index(d) \in seenIndices
      BY <2>1 DEF CallsInv, Gathered
    <2> QED
      BY <1>1, <2>2
  <1> QED
    BY <1>1 DEF opens

(* What a delta changes.                                                   *)
LEMMA DeltaSteps ==
    ASSUME CallsInv, NEW c \in Calls, NEW named \in BOOLEAN, NEW n \in 0..1, NEW given \in {stream.calls[c].id, <<>>},
           ToolDelta(c, given, named, n)
    PROVE  LET i == index(c)
               id == normalizeToolCallID(i, given)
               known == i \in seenIndices
               s == fed[c]
               e == s.early + (IF named \/ known THEN 0 ELSE n)
           IN  /\ named => ~s.named
               /\ stream' = stream /\ Calls' = Calls /\ Indices' = Indices /\ ToolIds' = ToolIds /\ Openers' = Openers
               /\ \A d \in Calls : index(d)' = index(d) /\ opens(d)' = opens(d)
               /\ fed' = [fed EXCEPT ![c] = [args |-> s.args + n, named |-> s.named \/ named, early |-> e]]
               /\ shown' = IF known THEN [shown EXCEPT ![c] = forwarded(shown[c], given, named, n)]
                           ELSE IF named THEN [shown EXCEPT ![c] = mergePending(i, id, n)] ELSE shown
               /\ seenIndices' = IF named THEN seenIndices \cup {i} ELSE seenIndices
               /\ seenIDs' = IF known \/ ~ValidToolCallID(given) THEN seenIDs ELSE seenIDs \cup {given}
               /\ pending' = IF known THEN pending
                             ELSE IF named THEN [pending EXCEPT ![i] = noPending]
                             ELSE IF n > 0 THEN [pending EXCEPT ![i] = [id |-> id, args |-> n]] ELSE pending
               /\ ~known => opens(c)
  <1>1. stream' = stream
    BY DEF ToolDelta
  <1>2. Calls' = Calls
    BY <1>1 DEF Calls
  <1>3. \A d \in Calls : index(d)' = index(d)
    BY <1>1 DEF index
  <1>4. Indices' = Indices
    BY <1>2, <1>3 DEF Indices
  <1>5. ToolIds' = ToolIds
    BY <1>1, <1>2, <1>4 DEF ToolIds, SyntheticToolCallID
  <1>6. \A d \in Calls : opens(d)' = opens(d)
    BY <1>2, <1>3 DEF opens
  <1>7. Openers' = Openers
    BY <1>2, <1>6 DEF Openers
  <1>8. index(c) \notin seenIndices => opens(c)
    BY DeltaOpens DEF ToolDelta
  <1>9. c \in DOMAIN fed /\ c \in DOMAIN shown
    BY DEF CallsInv, CallsTyped
  <1> QED
    BY <1>1, <1>2, <1>3, <1>4, <1>5, <1>6, <1>7, <1>8, <1>9 DEF ToolDelta

(* What a delta does to the id its call holds, and to those of the others. *)
LEMMA DeltaIds ==
    ASSUME CallsInv, NEW c \in Calls, NEW named \in BOOLEAN, NEW n \in 0..1, NEW given \in {stream.calls[c].id, <<>>},
           ToolDelta(c, given, named, n)
    PROVE  LET i == index(c)
               id == normalizeToolCallID(i, given)
           IN  /\ \A d \in Openers \ {c} : Holds(d)' = Holds(d) /\ Held(d)' = Held(d)
               /\ c \in Openers /\ Holds(c)' => (Holds(c) /\ Held(c)' = Held(c)) \/ (i \notin seenIndices /\ Held(c)' = id)
               /\ seenIDs \subseteq seenIDs' /\ <<>> \notin seenIDs'
               /\ i \notin seenIndices /\ id # SyntheticToolCallID(i) => id = stream.calls[c].id /\ id \notin seenIDs /\ id \in seenIDs'
  <1> DEFINE i == index(c)
             id == normalizeToolCallID(i, given)
             known == i \in seenIndices
  <1>1. /\ \A d \in Calls : index(d)' = index(d)
        /\ shown' = IF known THEN [shown EXCEPT ![c] = forwarded(shown[c], given, named, n)]
                    ELSE IF named THEN [shown EXCEPT ![c] = mergePending(i, id, n)] ELSE shown
        /\ seenIndices' = IF named THEN seenIndices \cup {i} ELSE seenIndices
        /\ seenIDs' = IF known \/ ~ValidToolCallID(given) THEN seenIDs ELSE seenIDs \cup {given}
        /\ pending' = IF known THEN pending
                      ELSE IF named THEN [pending EXCEPT ![i] = noPending]
                      ELSE IF n > 0 THEN [pending EXCEPT ![i] = [id |-> id, args |-> n]] ELSE pending
        /\ ~known => opens(c)
    BY DeltaSteps
  <1>2. /\ DOMAIN shown = Calls /\ DOMAIN pending = Indices /\ <<>> \notin seenIDs /\ CallsTyped
        /\ \A d \in Calls : index(d) \in Indices
    BY DEF CallsInv, CallsTyped, Indices
  <1>3. seenIDs \subseteq seenIDs' /\ <<>> \notin seenIDs'
    BY <1>1, <1>2 DEF ValidToolCallID
  <1>4. ASSUME ~known, id # SyntheticToolCallID(i)
        PROVE  id = stream.calls[c].id /\ id \notin seenIDs /\ id \in seenIDs'
    <2>1. ValidToolCallID(given) /\ given \notin seenIDs /\ id = given
      BY <1>4 DEF normalizeToolCallID
    <2>2. given = stream.calls[c].id
      BY <2>1 DEF ValidToolCallID
    <2> QED
      BY <1>1, <1>4, <2>1, <2>2
  <1> HIDE DEF id
  <1>5. ASSUME NEW d \in Openers \ {c} PROVE Holds(d)' = Holds(d) /\ Held(d)' = Held(d)
    <2>1. d \in Calls /\ d # c /\ index(d)' = index(d)
      BY <1>1 DEF Openers
    <2>2. ~known => index(d) # i
      BY <1>1, <1>2, <2>1, OpenersApart DEF Openers
    <2>3. index(d) \in seenIndices' <=> index(d) \in seenIndices
      BY <1>1, <2>2
    <2>4. shown'[d] = shown[d]
      BY <1>1, <1>2, <2>1
    <2>5. pending'[index(d)] = pending[index(d)]
      BY <1>1, <1>2, <2>1, <2>2
    <2> QED
      BY <2>1, <2>3, <2>4, <2>5 DEF Holds, Held
  <1>6. ASSUME c \in Openers, Holds(c)'
        PROVE  (Holds(c) /\ Held(c)' = Held(c)) \/ (~known /\ Held(c)' = id)
    <2>1. CASE known
      <3>1. i \in seenIndices' /\ shown'[c] = forwarded(shown[c], given, named, n)
        BY <1>1, <1>2, <2>1
      <3>2. Holds(c) /\ Held(c) = shown[c].id
        BY <2>1 DEF Holds, Held
      <3>3. shown[c].id # <<>>
        BY <1>2, <1>6, <3>2, Synthetic DEF CallsInv, Owned
      <3>4. shown'[c].id = shown[c].id
        BY <3>1, <3>3 DEF forwarded
      <3> QED
        BY <1>1, <3>1, <3>2, <3>4 DEF Held
    <2>2. CASE ~known /\ named
      <3>1. i \in seenIndices' /\ shown'[c] = mergePending(i, id, n)
        BY <1>1, <1>2, <2>2
      <3>2. shown'[c].id = IF IsSyntheticToolCallID(id) /\ pending[i] # noPending THEN pending[i].id ELSE id
        BY <3>1 DEF mergePending
      <3>3. Held(c)' = shown'[c].id
        BY <1>1, <3>1 DEF Held
      <3> QED
        BY <2>2, <3>2, <3>3 DEF Holds, Held
    <2>3. CASE ~known /\ ~named /\ n > 0
      <3>1. i \notin seenIndices' /\ pending'[i] = [id |-> id, args |-> n]
        BY <1>1, <1>2, <2>3
      <3> QED
        BY <1>1, <2>3, <3>1 DEF Held
    <2>4. CASE ~known /\ ~named /\ ~(n > 0)
      <3>1. i \notin seenIndices' /\ pending' = pending
        BY <1>1, <2>4
      <3> QED
        BY <1>1, <1>6, <2>4, <3>1 DEF Holds, Held
    <2> QED
      BY <2>1, <2>2, <2>3, <2>4
  <1> QED
    BY <1>3, <1>4, <1>5, <1>6 DEF id

(* What it does to the fragments.                                          *)
LEMMA DeltaParts ==
    ASSUME CallsInv, NEW c \in Calls, NEW named \in BOOLEAN, NEW n \in 0..1, NEW given \in {stream.calls[c].id, <<>>},
           ToolDelta(c, given, named, n), <<>> \notin seenIDs'
    PROVE  CallsTyped' /\ Gathered'
  <1> DEFINE i == index(c)
             id == normalizeToolCallID(i, given)
             known == i \in seenIndices
             s == fed[c]
             w == pending[i]
             v == shown[c]
             e == s.early + (IF named \/ known THEN 0 ELSE n)
             f == forwarded(v, given, named, n)
             m == mergePending(i, id, n)
  <1>1. /\ named => ~s.named
        /\ Calls' = Calls /\ Indices' = Indices /\ ToolIds' = ToolIds
        /\ \A d \in Calls : index(d)' = index(d) /\ opens(d)' = opens(d)
        /\ fed' = [fed EXCEPT ![c] = [args |-> s.args + n, named |-> s.named \/ named, early |-> e]]
        /\ shown' = IF known THEN [shown EXCEPT ![c] = f] ELSE IF named THEN [shown EXCEPT ![c] = m] ELSE shown
        /\ seenIndices' = IF named THEN seenIndices \cup {i} ELSE seenIndices
        /\ pending' = IF known THEN pending
                      ELSE IF named THEN [pending EXCEPT ![i] = noPending]
                      ELSE IF n > 0 THEN [pending EXCEPT ![i] = [id |-> id, args |-> n]] ELSE pending
        /\ ~known => opens(c)
    BY DeltaSteps
  <1>2. /\ fed \in [Calls -> [args : Nat, named : BOOLEAN, early : Nat]]
        /\ pending \in [Indices -> [id : ToolIds, args : Nat]]
        /\ shown \in [Calls -> [id : ToolIds, name : BOOLEAN, args : Nat]]
        /\ seenIndices \subseteq Indices /\ Calls \subseteq Nat
        /\ \A d \in Calls : index(d) \in Indices
    BY DEF CallsInv, CallsTyped, Indices
  <1>3. /\ s.args \in Nat /\ s.named \in BOOLEAN /\ s.early \in Nat /\ w.id \in ToolIds /\ w.args \in Nat
        /\ v.id \in ToolIds /\ v.name \in BOOLEAN /\ v.args \in Nat
    BY <1>2
  <1>4. n \in Nat /\ (n = 0 \/ n = 1)
    OBVIOUS
  <1>5. id \in ToolIds /\ given \in ToolIds
    BY <1>2 DEF normalizeToolCallID, ToolIds
  <1>6. e \in Nat /\ s.args + n \in Nat
    BY <1>3, <1>4
  <1>7. /\ f \in [id : ToolIds, name : BOOLEAN, args : Nat]
        /\ f.name = (v.name \/ named) /\ f.args = v.args + n
    <2>1. v.args + n \in Nat
      BY <1>3, <1>4
    <2> QED
      BY <1>3, <1>5, <2>1 DEF forwarded
  <1>8. m \in [id : ToolIds, name : BOOLEAN, args : Nat] /\ m.name /\ m.args = w.args + n
    <2>1. w.args + n \in Nat
      BY <1>3, <1>4
    <2> QED
      BY <1>3, <1>5, <2>1 DEF mergePending
  <1>9. noPending \in [id : ToolIds, args : Nat]
    BY DEF noPending, ToolIds
  <1> HIDE DEF id, e, f, m
  <1>10. CallsTyped'
    <2>1. fed' \in [Calls -> [args : Nat, named : BOOLEAN, early : Nat]]
      BY <1>1, <1>2, <1>3, <1>6
    <2>2. pending' \in [Indices -> [id : ToolIds, args : Nat]]
      BY <1>1, <1>2, <1>4, <1>5, <1>9
    <2>3. shown' \in [Calls -> [id : ToolIds, name : BOOLEAN, args : Nat]]
      BY <1>1, <1>2, <1>7, <1>8
    <2>4. seenIndices' \subseteq Indices
      BY <1>1, <1>2
    <2> QED
      BY <1>1, <1>2, <2>1, <2>2, <2>3, <2>4 DEF CallsTyped
  <1>11. ASSUME NEW d \in Calls, d # c, index(d) \in seenIndices' <=> index(d) \in seenIndices,
                pending'[index(d)] = pending[index(d)] \/ ~opens(d)
         PROVE  /\ fed'[d].named => index(d) \in seenIndices'
                /\ opens(d) /\ index(d) \in seenIndices' => fed'[d].named
                /\ IF index(d) \in seenIndices' THEN Whole(d)'
                   ELSE IF opens(d) THEN Waiting(d)' ELSE fed'[d] = unfed /\ shown'[d] = noCall
    <2>1. fed'[d] = fed[d] /\ shown'[d] = shown[d] /\ index(d)' = index(d)
      BY <1>1, <1>2, <1>11
    <2>2. overwritten(d)' = overwritten(d)
      BY <2>1 DEF overwritten
    <2>3. /\ fed[d].named => index(d) \in seenIndices
          /\ opens(d) /\ index(d) \in seenIndices => fed[d].named
          /\ IF index(d) \in seenIndices THEN Whole(d)
             ELSE IF opens(d) THEN Waiting(d) ELSE fed[d] = unfed /\ shown[d] = noCall
      BY DEF CallsInv, Gathered
    <2>4. Whole(d)' <=> Whole(d)
      BY <2>1, <2>2 DEF Whole
    <2>5. opens(d) => (Waiting(d)' <=> Waiting(d))
      BY <1>11, <2>1, <2>2 DEF Waiting
    <2> QED
      BY <1>11, <2>1, <2>3, <2>4, <2>5
  <1>12. /\ fed'[c].args = s.args + n /\ fed'[c].named = (s.named \/ named) /\ fed'[c].early = e /\ index(c)' = i
         /\ overwritten(c)' = IF e > 1 THEN e - 1 ELSE 0
         /\ overwritten(c) = IF s.early > 1 THEN s.early - 1 ELSE 0
    BY <1>1, <1>2, <1>3 DEF overwritten
  <1>13. /\ Whole(c)' <=> (fed'[c].named => shown'[c].name) /\ shown'[c].args = fed'[c].args - overwritten(c)'
         /\ Waiting(c)' <=> fed'[c].args = fed'[c].early /\ pending'[index(c)'].args = fed'[c].early - overwritten(c)'
    BY DEF Whole, Waiting
  <1>14. /\ s.named => known
         /\ opens(c) /\ known => s.named
         /\ known => (s.named => v.name) /\ v.args = s.args - overwritten(c)
         /\ ~known => s.args = s.early /\ w.args = s.early - overwritten(c)
    BY <1>1 DEF CallsInv, Gathered, Whole, Waiting
  <1>15. /\ fed'[c].named => i \in seenIndices'
         /\ opens(c) /\ i \in seenIndices' => fed'[c].named
         /\ IF i \in seenIndices' THEN Whole(c)'
            ELSE IF opens(c) THEN Waiting(c)' ELSE fed'[c] = unfed /\ shown'[c] = noCall
    <2>1. CASE known
      <3>1. e = s.early /\ i \in seenIndices'
        BY <1>1, <1>3, <2>1 DEF e
      <3>2. shown'[c].name = (v.name \/ named) /\ shown'[c].args = v.args + n
        BY <1>1, <1>2, <1>7, <2>1
      <3>3. overwritten(c)' = overwritten(c) /\ overwritten(c) \in Int
        BY <1>3, <1>12, <3>1
      <3>4. shown'[c].args = fed'[c].args - overwritten(c)'
        BY <1>3, <1>4, <1>12, <1>14, <2>1, <3>2, <3>3
      <3>5. Whole(c)'
        <4>1. fed'[c].named => shown'[c].name
          BY <1>3, <1>12, <1>14, <2>1, <3>2
        <4> QED
          BY <1>13, <3>4, <4>1
      <3> QED
        BY <1>12, <1>14, <2>1, <3>1, <3>5
    <2>2. CASE ~known /\ named
      <3>1. e = s.early /\ i \in seenIndices'
        BY <1>1, <1>3, <2>2 DEF e
      <3>2. shown'[c].name /\ shown'[c].args = w.args + n
        BY <1>1, <1>2, <1>8, <2>2
      <3>3. overwritten(c)' = overwritten(c) /\ overwritten(c) \in Int
        BY <1>3, <1>12, <3>1
      <3>4. shown'[c].args = fed'[c].args - overwritten(c)'
        BY <1>3, <1>4, <1>12, <1>14, <2>2, <3>2, <3>3
      <3> QED
        BY <1>12, <1>13, <2>2, <3>1, <3>2, <3>4
    <2>3. CASE ~known /\ ~named
      <3>1. e = s.early + n /\ i \notin seenIndices' /\ ~s.named
        BY <1>1, <1>14, <2>3 DEF e
      <3>2. n > 0 => pending'[i].args = n
        BY <1>1, <1>2, <2>3
      <3>3. ~(n > 0) => pending'[i].args = w.args
        BY <1>1, <1>2, <2>3
      <3>4. fed'[c].args = fed'[c].early
        BY <1>12, <1>14, <2>3, <3>1
      <3>5. pending'[index(c)'].args = fed'[c].early - overwritten(c)'
        <4>1. CASE n = 0
          BY <1>3, <1>12, <1>14, <2>3, <3>1, <3>3, <4>1
        <4>2. CASE n = 1
          BY <1>3, <1>12, <3>1, <3>2, <4>2
        <4> QED
          BY <1>4, <4>1, <4>2
      <3> QED
        BY <1>1, <1>12, <1>13, <2>3, <3>1, <3>4, <3>5
    <2> QED
      BY <2>1, <2>2, <2>3
  <1>16. Gathered'
    <2> SUFFICES ASSUME NEW d \in Calls
                 PROVE  /\ fed'[d].named => index(d) \in seenIndices'
                        /\ opens(d) /\ index(d) \in seenIndices' => fed'[d].named
                        /\ IF index(d) \in seenIndices' THEN Whole(d)'
                           ELSE IF opens(d) THEN Waiting(d)' ELSE fed'[d] = unfed /\ shown'[d] = noCall
      BY <1>1 DEF Gathered, unfed, noCall
    <2>1. CASE d = c
      BY <1>15, <2>1
    <2>2. CASE d # c /\ known
      BY <1>1, <1>11, <2>2
    <2>3. CASE d # c /\ ~known /\ index(d) # i
      <3>1. pending'[index(d)] = pending[index(d)] /\ (index(d) \in seenIndices' <=> index(d) \in seenIndices)
        BY <1>1, <1>2, <2>3
      <3> QED
        BY <1>11, <2>3, <3>1
    <2>4. CASE d # c /\ ~known /\ index(d) = i
      <3>1. ~opens(d)
        BY <1>1, <2>4, OpenersApart DEF Openers, CallsInv
      <3>2. fed'[d] = unfed /\ shown'[d] = noCall /\ ~unfed.named /\ unfed.args = 0 /\ unfed.early = 0 /\ noCall.args = 0
        BY <1>1, <1>2, <2>4, <3>1 DEF CallsInv, Gathered, unfed, noCall
      <3>3. overwritten(d)' = 0
        BY <3>2 DEF overwritten
      <3>4. Whole(d)'
        BY <3>2, <3>3 DEF Whole
      <3> QED
        BY <3>1, <3>2, <3>4
    <2> QED
      BY <2>1, <2>2, <2>3, <2>4
  <1> QED
    BY <1>10, <1>16

(* processToolCallDelta.                                                   *)
LEMMA CallsDelta ==
    ASSUME CallsInv, NEW c \in Calls, NEW named \in BOOLEAN, NEW n \in 0..1, NEW given \in {stream.calls[c].id, <<>>},
           ToolDelta(c, given, named, n)
    PROVE  CallsInv'
  <1> DEFINE i == index(c)
             id == normalizeToolCallID(i, given)
  <1>1. /\ \A d \in Openers \ {c} : Holds(d)' = Holds(d) /\ Held(d)' = Held(d)
        /\ c \in Openers /\ Holds(c)' => (Holds(c) /\ Held(c)' = Held(c)) \/ (i \notin seenIndices /\ Held(c)' = id)
        /\ seenIDs \subseteq seenIDs' /\ <<>> \notin seenIDs'
        /\ i \notin seenIndices /\ id # SyntheticToolCallID(i) => id = stream.calls[c].id /\ id \notin seenIDs /\ id \in seenIDs'
    BY DeltaIds
  <1> HIDE DEF id
  <1>2. stream' = stream /\ Openers' = Openers /\ \A d \in Calls : index(d)' = index(d)
    BY DeltaSteps
  <1>3. CallsTyped' /\ Gathered'
    BY <1>1, DeltaParts
  <1>4. \A d \in Openers : d \in Calls /\ (Holds(d) => Held(d) = SyntheticToolCallID(index(d)) \/ (Held(d) = stream.calls[d].id /\ Held(d) \in seenIDs))
    BY DEF CallsInv, Owned, Openers
  <1>5. Owned'
    <2> SUFFICES ASSUME NEW d \in Openers, Holds(d)'
                 PROVE  Held(d)' = SyntheticToolCallID(index(d)) \/ (Held(d)' = stream.calls[d].id /\ Held(d)' \in seenIDs')
      BY <1>2, <1>4 DEF Owned, SyntheticToolCallID
    <2> QED
      BY <1>1, <1>4
  <1>6. Apart'
    <2> SUFFICES ASSUME NEW d \in Openers, NEW k \in Openers, d # k, Holds(d)', Holds(k)', Held(d)' = Held(k)'
                 PROVE  Held(d)' = SyntheticToolCallID(index(d)) \/ Held(d)' = SyntheticToolCallID(index(k))
      BY <1>2, <1>4 DEF Apart, SyntheticToolCallID
    <2>1. ASSUME NEW x \in Openers, NEW y \in Openers, x # y, Holds(x), Holds(y), Held(x) = Held(y)
          PROVE  Held(x) = SyntheticToolCallID(index(x)) \/ Held(x) = SyntheticToolCallID(index(y))
      BY <2>1 DEF CallsInv, Apart
    <2>2. ASSUME NEW x \in Openers \ {c}, Holds(x), i \notin seenIndices, Held(x) = id
          PROVE  id = SyntheticToolCallID(i) \/ id = SyntheticToolCallID(index(x))
      BY <1>1, <1>4, <2>2
    <2>3. CASE d # c /\ k # c
      BY <1>1, <2>1, <2>3
    <2>4. CASE d = c
      BY <1>1, <2>1, <2>2, <2>4
    <2>5. CASE k = c
      BY <1>1, <2>1, <2>2, <2>5
    <2> QED
      BY <2>3, <2>4, <2>5
  <1> QED
    BY <1>3, <1>5, <1>6 DEF CallsInv

-----------------------------------------------------------------------------
(* StreamReader: whatever the provider's way of counting and however its   *)
(* chunks split usage and calls, the deltas handed to metrics and billing  *)
(* add up to the tokens used, each counted once; every named call is shown *)
(* with the arguments sent but those overwritten before its name came,     *)
(* under an id that collides only where the upstream made it collide with  *)
(* an id made here.                                                        *)
THEOREM MeterExact == ASSUME MeterAssumption PROVE MSpec => []MeterSound
  <1>1. MInit => UsageInv /\ CallsInv
    BY UsageInit, CallsInit
  <1>2. UsageInv /\ CallsInv /\ [MNext]_mvars => UsageInv' /\ CallsInv'
    <2> SUFFICES ASSUME UsageInv, CallsInv, [MNext]_mvars PROVE UsageInv' /\ CallsInv'
      OBVIOUS
    <2>1. ASSUME NEW part \in {"start", "delta"}, ExtractUsage(part) PROVE UsageInv' /\ CallsInv'
      <3>1. UNCHANGED <<stream, callVars>>
        BY <2>1 DEF ExtractUsage
      <3> QED
        BY <2>1, <3>1, UsageExtract, CallsFrame
    <2>2. ASSUME NEW thought \in BOOLEAN, Generate(thought) PROVE UsageInv' /\ CallsInv'
      <3>1. UNCHANGED <<stream, callVars>>
        BY <2>2 DEF Generate
      <3> QED
        BY <2>2, <3>1, UsageGenerate, CallsFrame
    <2>3. ASSUME NEW c \in Calls, NEW named \in BOOLEAN, NEW n \in 0..1, NEW given \in {stream.calls[c].id, <<>>},
                 ToolDelta(c, given, named, n)
          PROVE  UsageInv' /\ CallsInv'
      <3>1. UNCHANGED <<stream, usageVars>>
        BY <2>3 DEF ToolDelta
      <3>2. UsageInv'
        BY <3>1, UsageFrame
      <3> QED
        BY <2>3, <3>2, CallsDelta
    <2>4. ASSUME UNCHANGED mvars PROVE UsageInv' /\ CallsInv'
      <3>1. UNCHANGED <<stream, usageVars>> /\ UNCHANGED <<stream, callVars>>
        BY <2>4 DEF mvars
      <3> QED
        BY <3>1, UsageFrame, CallsFrame
    <2> QED
      BY <2>1, <2>2, <2>3, <2>4 DEF MNext
  <1>3. UsageInv /\ CallsInv => MeterSound
    BY UsageCounted, CallsKept DEF MeterSound
  <1> QED
    BY <1>1, <1>2, <1>3, PTL DEF MSpec
=============================================================================
