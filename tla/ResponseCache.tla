---------------------------- MODULE ResponseCache ----------------------------
(***************************************************************************)
(* The exact and semantic response cache (internal/infra/response_cache.go *)
(* and embed_index.go), the key a request gets (proxy/cache_scope.go,      *)
(* chat.go resolveCache) and the capture of a finished stream (stream.go   *)
(* storeStreamCache).                                                      *)
(*                                                                         *)
(* A fingerprint is collision free: a key is the caller's token, the       *)
(* policy scope and the payload, and the namespace of the semantic index   *)
(* its first two with the model.  Settings are the content policy (agent,  *)
(* format, redaction, guards, prompt) and the engines that apply to a      *)
(* request; its scope identifies both.  Embeddings are points on a line.   *)
(***************************************************************************)
EXTENDS Integers, Sequences, FiniteSets

CONSTANTS
    Tokens,          \* bearer credentials
    Policies,        \* content policies
    PipelineEngines,         \* engines the pipeline may call
    Payloads,        \* payload -> its model, its embedding and stream flag
    MaxSize,         \* maxSize
    IndexMax,        \* semanticIndexMaxEntries
    Threshold,       \* similarityThreshold
    Readers,         \* requests in flight
    MaxStores        \* bound: captures stored

(* Sizes are positive, and an embedding is never the empty vector.         *)
NoVec == 0
CacheAssumption ==
    /\ MaxSize \in Nat \ {0} /\ IndexMax \in Nat \ {0}
    /\ Threshold \in 1..10 /\ MaxStores \in Nat
    /\ \A p \in DOMAIN Payloads : Payloads[p].vec \in Int \ {NoVec}
ASSUME CacheAssumption

VARIABLES
    items,           \* key -> entry: data, fresh, vec, model, stream, at
    semIdx,          \* indexed vectors: namespace, key, vec, at
    semanticEntries, \* the counter
    reader,          \* per request: label, key, the key found by the search
    stores           \* captures stored; at is its value at the store

rvars == <<items, semIdx, semanticEntries, reader, stores>>

ContentSettings == [policy : Policies, engine : PipelineEngines]
NotFound == <<>>
NoSettings == [policy |-> "", engine |-> ""]
NoAnswer == [token |-> "", settings |-> NoSettings, terminal |-> "none"]

(* The references of the engines whose answer can change a guardrail's     *)
(* verdict or what it lets through: the bouncer's, the escalator's, the    *)
(* risk tiers', the rerank's and the judgments'.  The engine that          *)
(* summarises the window is none of them: like all of window.*, it is left *)
(* out of the scope.                                                       *)
globalEngineIdentity(s) == s.engine

(* cachePolicyScope: every setting that shapes what is sent or returned.   *)
resolveCachePolicyScope(s) == <<s.policy, globalEngineIdentity(s)>>

(* FingerprintPayloadScoped; the payload fixes model and stream flag.      *)
fingerprint(token, scope, p) == [token |-> token, scope |-> scope, payload |-> p]

(* Mutant: the index is shared by all callers.                             *)
namespaceOfModel(key, model) == [token |-> "", scope |-> key.scope, model |-> model]

semanticNamespace(key, model) == [token |-> key.token, scope |-> key.scope, model |-> model]

(* CosineSimilarity, in tenths: only points one apart are near.            *)
CosineSimilarity(a, b) == IF a = b THEN 10 ELSE IF a - b \in {-1, 1} THEN 9 ELSE 0

IndexOf(idx, ns) == {e \in idx : e.ns = ns}

(* EmbedIndex.Has and Remove.                                              *)
InIndex(idx, key, ns) == \E e \in idx : e.ns = ns /\ e.key = key
RemoveKey(idx, key, ns) == {e \in idx : ~(e.ns = ns /\ e.key = key)}

(* Mutant: evicted entries stay in the semantic index.                     *)
droppedNever(idx, keys) == idx

(* dropSemanticKeyLocked for all the keys of a set with a vector.          *)
dropped(idx, keys) ==
    {e \in idx : ~(e.key \in keys /\ items[e.key].vec # NoVec /\ e.ns = semanticNamespace(e.key, items[e.key].model))}

(* ... and what the counter gives up: one for each that has an index entry. *)
uncounted(idx, keys) ==
    Cardinality({k \in keys : items[k].vec # NoVec /\ InIndex(idx, k, semanticNamespace(k, items[k].model))})

(* Insert: a full index loses its oldest entry.                            *)
displaced(idx, ns) ==
    LET full == IndexOf(idx, ns) IN
    IF Cardinality(full) < IndexMax THEN {} ELSE {e \in full : \A f \in full : e.at <= f.at}

(* syncSemanticIndexLocked, with the counter.                              *)
syncSemanticIndexLocked(idx, n, key, model, vec, at) ==
    LET ns == semanticNamespace(key, model)
        rest == RemoveKey(idx, key, ns)
        left == n - (IF InIndex(idx, key, ns) THEN 1 ELSE 0)
        out == displaced(rest, ns)
    IN  IF vec = NoVec THEN [idx |-> rest, n |-> left]
        ELSE [idx |-> (rest \ out) \cup {[ns |-> ns, key |-> key, vec |-> vec, at |-> at]},
              n |-> IF out = {} THEN left + 1 ELSE left]

(* evictExpiredLocked and evictOverflowLocked: expired entries go, then    *)
(* the oldest until there is room for one.                                 *)
survivors ==
    LET fresh == {k \in DOMAIN items : items[k].fresh} IN
    {k \in fresh : Cardinality({j \in fresh : items[j].at > items[k].at}) < MaxSize - 1}

evictLocked ==
    LET gone == DOMAIN items \ survivors
    IN  [items |-> [k \in survivors |-> items[k]], idx |-> dropped(semIdx, gone), n |-> semanticEntries - uncounted(semIdx, gone)]

-----------------------------------------------------------------------------
(* storeStreamCache: refusals, network failures, error objects, resumable  *)
(* turns and truncated captures are not stored.                            *)
cacheable(terminal) == terminal = "stop"

(* Store, for the answer of a stream that ended with this terminal; the    *)
(* embedding may have failed.  A key fixes its model, so an overwrite      *)
(* never moves between namespaces.                                         *)
StoreAnswer(token, s, p, terminal, embedded) ==
    LET key == fingerprint(token, resolveCachePolicyScope(s), p)
        model == Payloads[p].model
        vec == IF embedded THEN Payloads[p].vec ELSE NoVec
        entry == [data |-> [token |-> token, settings |-> s, terminal |-> terminal],
                  fresh |-> TRUE, vec |-> vec, model |-> model, stream |-> TRUE, at |-> stores]
        before == IF key \notin DOMAIN items /\ Cardinality(DOMAIN items) >= MaxSize THEN evictLocked
                  ELSE [items |-> items, idx |-> semIdx, n |-> semanticEntries]
        after == syncSemanticIndexLocked(before.idx, before.n, key, model, vec, stores)
    IN  /\ stores < MaxStores /\ cacheable(terminal)
        /\ items' = [k \in DOMAIN before.items \cup {key} |-> IF k = key THEN entry ELSE before.items[k]]
        /\ semIdx' = after.idx /\ semanticEntries' = after.n
        /\ stores' = stores + 1
        /\ UNCHANGED reader

(* The background evicter.                                                 *)
Evict ==
    /\ items' = evictLocked.items /\ semIdx' = evictLocked.idx /\ semanticEntries' = evictLocked.n
    /\ UNCHANGED <<reader, stores>>

Expire(k) ==
    /\ items[k].fresh /\ items' = [items EXCEPT ![k].fresh = FALSE]
    /\ UNCHANGED <<semIdx, semanticEntries, reader, stores>>

-----------------------------------------------------------------------------
To(r, v) == reader' = [reader EXCEPT ![r] = v]

(* resolveCache: a caller-funded request has no key, a forced refresh no   *)
(* lookup; both are requests that never come here.                         *)
LookupExact(r, token, s, p) ==
    /\ reader[r].at = "idle"
    /\ LET key == fingerprint(token, resolveCachePolicyScope(s), p)
           hit == key \in DOMAIN items /\ items[key].fresh
       IN  To(r, [at |-> IF hit THEN "served" ELSE "embed", key |-> key, settings |-> s, found |-> NotFound,
                  answer |-> IF hit THEN items[key].data ELSE NoAnswer])
    /\ UNCHANGED <<items, semIdx, semanticEntries, stores>>

Miss(r) == To(r, [reader[r] EXCEPT !.at = "missed", !.found = NotFound])

(* Search: the nearest keys of the namespace, the oldest of equals.        *)
nearest(idx, vec) ==
    LET score(e) == CosineSimilarity(vec, e.vec)
        near == {e \in idx : score(e) >= Threshold}
    IN  {e \in near : \A f \in near : score(e) > score(f) \/ (score(e) = score(f) /\ e.at <= f.at)}

(* The embedding call takes its time, or fails; then the search, under the *)
(* index's own lock.                                                       *)
Search(r, embedded) ==
    /\ reader[r].at = "embed"
    /\ LET key == reader[r].key
           p == Payloads[key.payload]
           best == nearest(IndexOf(semIdx, semanticNamespace(key, p.model)), p.vec)
       IN  IF ~embedded \/ best = {} THEN Miss(r)
           ELSE \E e \in best : To(r, [reader[r] EXCEPT !.at = "found", !.found = <<e.key>>])
    /\ UNCHANGED <<items, semIdx, semanticEntries, stores>>

(* lookupSemantic, the read of the entry: it may have gone since.          *)
ReadFound(r) ==
    /\ reader[r].at = "found"
    /\ LET key == reader[r].found[1]
           p == Payloads[reader[r].key.payload]
       IN  IF /\ key \in DOMAIN items /\ items[key].fresh
              /\ items[key].model = p.model /\ items[key].stream = p.stream
           THEN To(r, [reader[r] EXCEPT !.at = "served", !.found = NotFound, !.answer = items[key].data])
           ELSE Miss(r)
    /\ UNCHANGED <<items, semIdx, semanticEntries, stores>>

NoReader == [at |-> "idle", key |-> NotFound, settings |-> NoSettings, found |-> NotFound, answer |-> NoAnswer]

Finish(r) ==
    /\ reader[r].at \in {"served", "missed"} /\ To(r, NoReader)
    /\ UNCHANGED <<items, semIdx, semanticEntries, stores>>

Terminals == {"stop", "refusal", "network", "error", "resumable"}

RInit ==
    /\ items = [k \in {} |-> 0] /\ semIdx = {} /\ semanticEntries = 0
    /\ reader = [r \in Readers |-> NoReader] /\ stores = 0

RNext ==
    \/ \E t \in Tokens, s \in ContentSettings, p \in DOMAIN Payloads :
         \/ \E r \in Readers : LookupExact(r, t, s, p)
         \/ \E terminal \in Terminals, embedded \in BOOLEAN : StoreAnswer(t, s, p, terminal, embedded)
    \/ \E r \in Readers : ReadFound(r) \/ Finish(r) \/ \E embedded \in BOOLEAN : Search(r, embedded)
    \/ \E k \in DOMAIN items : Expire(k)
    \/ Evict

RSpec == RInit /\ [][RNext]_rvars

-----------------------------------------------------------------------------
(* docs/CACHING.md: an entry and its place in the semantic index go        *)
(* together.  Every indexed key is stored with the embedding the index     *)
(* holds, in the namespace of its model, and the counter is the number of  *)
(* indexed keys (Store, syncSemanticIndexLocked, evictLocked).             *)
IndexBacked ==
    /\ semanticEntries = Cardinality(semIdx)
    /\ \A e \in semIdx :
         e.key \in DOMAIN items /\ items[e.key].vec = e.vec /\ semanticNamespace(e.key, items[e.key].model) = e.ns

(* lookupSemantic, storeStreamCache: what a request is served, exactly or  *)
(* by similarity, is a complete answer stored for its own token under its  *)
(* own policy and engines, whatever was evicted or overwritten between     *)
(* search and read.                                                        *)
OwnCompleteAnswer ==
    \A r \in Readers : reader[r].at = "served" =>
        /\ reader[r].answer.token = reader[r].key.token /\ reader[r].answer.settings = reader[r].settings
        /\ reader[r].answer.terminal = "stop"

(* ResponseCache: index and entries agree, and what is served is a         *)
(* complete answer of the same token and settings.                         *)
CacheSound == IndexBacked /\ OwnCompleteAnswer
=============================================================================
