------------------------------ MODULE Affinity ------------------------------
(***************************************************************************)
(* Conversation identity (internal/routing/affinity.go): a request whose   *)
(* session key is known either continues the conversation remembered for   *)
(* it or forks an identity of its own.                                     *)
(*                                                                         *)
(* The key is made from the first user message (proxy/chat.go), the chain  *)
(* of fingerprints from all leading messages, a system message included.   *)
(* A prefix hash is collision free, so a chain is the sequence of the      *)
(* messages itself.  An entry's age is the time since it was accessed, in  *)
(* ticks; of entries accessed within one tick any may be the back of the   *)
(* LRU list.                                                               *)
(***************************************************************************)
EXTENDS Integers, Sequences, FiniteSets, FiniteSetsExt

CONSTANTS
    Conversations,   \* scope (caller, agent, agent prompt) and messages (role, text)
    Depth,           \* affinityChainDepth
    AffinityCap,     \* cap of the store
    AffinityTtl      \* ttl of an entry

VARIABLES
    entries,         \* key -> chain, age
    given            \* history: the identity last given to an opening, while
                     \* its session key is remembered

fvars == <<entries, given>>

(* A request has a message; NewAffinityStore replaces a cap that is not    *)
(* positive.                                                               *)
AffinityAssumption ==
    /\ \A c \in Conversations : c.messages \in Seq(Range(c.messages)) /\ Len(c.messages) > 0
    /\ Depth \in Nat /\ Depth > 1 /\ AffinityTtl \in Nat /\ AffinityCap \in Nat \ {0}

(* The text of the first user message that has one, else of the first      *)
(* message; it may be empty.                                               *)
firstUserMessage(messages) ==
    LET users == {i \in DOMAIN messages : messages[i].role = "user" /\ messages[i].text # ""}
    IN  messages[IF users = {} THEN 1 ELSE Min(users)].text

(* The stable session key of a conversation's first n messages.            *)
SessionKeyForSubject(c, n) == <<c.scope, firstUserMessage(SubSeq(c.messages, 1, n))>>

BuildAffinityChain(c, n) == SubSeq(c.messages, 1, IF n > Depth THEN Depth ELSE n)

(* The index of the first difference, or the shorter length.               *)
lcpTurns(a, b) ==
    LET n == IF Len(b) < Len(a) THEN Len(b) ELSE Len(a)
        differ == {i \in 1..n : a[i] # b[i]}
    IN  IF differ = {} THEN n ELSE Min(differ) - 1

rootKey(r) == [root |-> r, fork |-> FALSE, prefix |-> <<>>]
forkKey(r, chain, shared) == [root |-> r, fork |-> TRUE, prefix |-> SubSeq(chain, 1, shared)]

(* evictExpiredLocked *)
unexpired == {k \in DOMAIN entries : entries[k].age <= AffinityTtl}

(* insertLocked: what a new key pushes out, the back of the list.          *)
oldest == {k \in unexpired : \A j \in unexpired : entries[j].age <= entries[k].age}
pushedOut(key) == IF key \notin unexpired /\ Cardinality(unexpired) >= AffinityCap THEN {{k} : k \in oldest} ELSE {{}}

(* Mutant: one shared turn is always enough.                               *)
continuesOnOne(entry, chain) == lcpTurns(entry.chain, chain) >= 1

(* At least two shared turns, or one when only one is remembered.          *)
continues(entry, chain) ==
    lcpTurns(entry.chain, chain) >= (IF Len(entry.chain) < 2 THEN Len(entry.chain) ELSE 2)

identity(r, chain) ==
    IF rootKey(r) \notin unexpired \/ continues(entries[rootKey(r)], chain) THEN rootKey(r)
    ELSE forkKey(r, chain, lcpTurns(entries[rootKey(r)].chain, chain))

(* The leading two messages of a chain that has them: what the store can   *)
(* tell conversations of one session key apart by.                         *)
openings(r, chain) == IF Len(chain) < 2 THEN {} ELSE {[root |-> r, turns |-> SubSeq(chain, 1, 2)]}

(* ResolveIdentity, under the store's lock: the entry is inserted or       *)
(* refreshed.  A request without a session key has no identity.            *)
ResolveIdentity(c, n) ==
    LET r == SessionKeyForSubject(c, n)
        chain == BuildAffinityChain(c, n)
        key == identity(r, chain)
        lives(o) == rootKey(o.root) \in DOMAIN entries'
        kept == {o \in DOMAIN given : lives(o) /\ rootKey(o.root) \in unexpired}
        shown == {o \in openings(r, chain) : lives(o)}
    IN  /\ r[2] # ""
        /\ \E gone \in pushedOut(key) :
             entries' = [k \in (unexpired \ gone) \cup {key} |->
                           IF k = key THEN [chain |-> chain, age |-> 0] ELSE entries[k]]
        /\ given' = [o \in kept \cup shown |-> IF o \in shown THEN key ELSE given[o]]

(* Time passes; nothing is dropped before the next request.                *)
Idle ==
    /\ unexpired # {}
    /\ entries' = [k \in DOMAIN entries |-> [entries[k] EXCEPT !.age = IF @ > AffinityTtl THEN @ ELSE @ + 1]]
    /\ UNCHANGED given

FInit == entries = [k \in {} |-> 0] /\ given = [o \in {} |-> 0]
FNext == Idle \/ \E c \in Conversations : \E n \in 1..Len(c.messages) : ResolveIdentity(c, n)
FSpec == FInit /\ [][FNext]_fvars

-----------------------------------------------------------------------------
(* ResolveIdentity: while a session key is remembered, conversations that  *)
(* begin with the same two messages keep the identity they were given, the *)
(* key itself or a fork, and those that begin with two others never share  *)
(* the key, however requests that show one message, forks, evictions and   *)
(* pauses interleave.                                                      *)
IdentitiesStay ==
    \A o \in DOMAIN given \cap DOMAIN given' : rootKey(o.root) \in unexpired => given'[o] = given[o]

RootUnshared ==
    \A o, p \in DOMAIN given :
        o.root = p.root /\ given[o] = rootKey(o.root) /\ given[p] = rootKey(p.root) => o = p

OpenerOwned == [][IdentitiesStay /\ RootUnshared']_fvars

(* affinity.go:203: "a different conversation with the same opener forks   *)
(* instead": the answer to the opener that is remembered for a session key *)
(* does not change while the key is.                                       *)
answered(chain) == {i \in DOMAIN chain : i > 1 /\ chain[i - 1].role = "user" /\ \A j \in 1 .. i - 2 : chain[j].role # "user"}

AnswerKept ==
    [][\A k \in unexpired \cap DOMAIN entries' : ~k.fork =>
          \A i \in answered(entries[k].chain), j \in answered(entries'[k].chain) :
              entries'[k].chain[j] = entries[k].chain[i]]_fvars
=============================================================================
