---------------------------- MODULE RequestProofs ----------------------------
(***************************************************************************)
(* Theorems about three parts a request meets: the idempotency keys and    *)
(* the budgets of Admission, the request count of Billing and the          *)
(* configuration that ConfigLife serves.                                   *)
(***************************************************************************)
EXTENDS Admission, Billing, ConfigLife, FiniteSetTheorems, TLAPS

-----------------------------------------------------------------------------
(* Billing.  A dispatch has one claim under way at most, and only from the *)
(* chunk that first reports usage until it is counted.                     *)
Fields == {"at", "key", "costs", "seen", "claimed", "entry", "object", "claims", "added"}
ClaimUnderWay(d) ==
    /\ DOMAIN d = Fields
    /\ d.claims \in {0, 1} /\ d.seen \in BOOLEAN /\ d.claimed = d.seen
    /\ d.claims = 1 => d.seen /\ d.at # "idle"

Ledger ==
    /\ DOMAIN dispatch = Dispatches
    /\ \A p \in Dispatches : ClaimUnderWay(dispatch[p])
    /\ DOMAIN total = {"spend", "requests", "exhausted"}
    /\ ClaimedOnce

Settled(ds) == {p \in Dispatches : ds[p].seen /\ ds[p].claims = 0}

(* Initially nothing is claimed and nothing counted.                       *)
LEMMA LedgerInit == BInit => Ledger
<1> SUFFICES ASSUME BInit PROVE Ledger
    OBVIOUS
<1>1. /\ DOMAIN dispatch = Dispatches
      /\ \A p \in Dispatches : ClaimUnderWay(dispatch[p]) /\ ~dispatch[p].seen
  <2>1. dispatch \in [Dispatches -> [at : {"idle"}, key : Keys, costs : {<<>>}, seen : {FALSE}, claimed : {FALSE},
                                     entry : {0}, object : {0}, claims : {0}, added : {0}]]
    BY DEF BInit
  <2>2. ASSUME NEW p \in Dispatches PROVE ClaimUnderWay(dispatch[p]) /\ ~dispatch[p].seen
    <3>1. dispatch[p] \in [at : {"idle"}, key : Keys, costs : {<<>>}, seen : {FALSE}, claimed : {FALSE},
                           entry : {0}, object : {0}, claims : {0}, added : {0}]
        BY <2>1
    <3>2. DOMAIN dispatch[p] = Fields
        BY <3>1 DEF Fields
    <3>3. dispatch[p].seen = FALSE /\ dispatch[p].claimed = FALSE /\ dispatch[p].claims = 0
        BY <3>1
    <3>4. dispatch[p].claims \in {0, 1} /\ dispatch[p].claims # 1
        BY <3>3
    <3> QED
        BY <3>2, <3>3, <3>4, Zenon DEF ClaimUnderWay
  <2> QED
    BY <2>1, <2>2
<1>2. {p \in Dispatches : dispatch[p].seen /\ dispatch[p].claims = 0} = {}
    BY <1>1
<1>3. ClaimedOnce
    BY <1>2, FS_EmptySet DEF ClaimedOnce, BInit
<1> QED
    BY <1>1, <1>3 DEF Ledger, BInit

(* A step that neither claims nor counts: the fields of every dispatch     *)
(* that matter stay.                                                       *)
LEMMA NothingClaimed ==
    ASSUME Ledger, DOMAIN dispatch' = Dispatches, DOMAIN total' = DOMAIN total, total'.requests = total.requests,
           \A p \in Dispatches : ClaimUnderWay(dispatch'[p]), Settled(dispatch') = Settled(dispatch)
    PROVE  Ledger'
<1>1. ClaimedOnce'
    BY DEF Ledger, ClaimedOnce, Settled
<1> QED
    BY <1>1 DEF Ledger

(* Marks, resets and the pollers leave the dispatches and the count alone. *)
LEMMA MarksClaimNothing ==
    ASSUME Ledger, dispatch' = dispatch, DOMAIN total' = DOMAIN total, total'.requests = total.requests
    PROVE  Ledger'
<1>1. \A p \in Dispatches : ClaimUnderWay(dispatch'[p])
    BY DEF Ledger
<1> QED
    BY <1>1, NothingClaimed DEF Ledger

(* What Apply does to the totals.                                          *)
LEMMA ApplyKeepsRequests ==
    ASSUME Ledger, NEW k \in Keys, NEW b, Apply(k, b)
    PROVE  DOMAIN total' = DOMAIN total /\ total'.requests = total.requests
<1>1. total' = total \/ total' = [total EXCEPT !.exhausted = @ + 1]
    BY DEF Apply, MarkExhausted
<1> QED
    BY <1>1 DEF Ledger

(* recordStreamSpend: the chunk that first reports usage puts its dispatch *)
(* between claim and count, any other leaves it where it was.              *)
LEMMA UsageChunkClaims ==
    ASSUME Ledger, NEW p \in Dispatches, NEW usage \in BOOLEAN, NEW cost, UsageChunk(p, usage, cost)
    PROVE  Ledger'
<1> DEFINE d == [dispatch[p] EXCEPT !.costs = Append(@, cost), !.seen = @ \/ usage]
<1> DEFINE e == IF cost > 0 THEN SafeUSDCents(cost) ELSE 0
<1> DEFINE n == IF claims(p)
                THEN IF usage THEN [d EXCEPT !.at = "lookup", !.claimed = TRUE, !.entry = e, !.claims = @ + 1] ELSE d
                ELSE IF cost > 0 THEN [d EXCEPT !.at = "lookup", !.entry = e] ELSE d
<1>1. ClaimUnderWay(dispatch[p]) /\ dispatch[p].claims = 0
    BY DEF Ledger, ClaimUnderWay, UsageChunk, At
<1>2. dispatch' = [dispatch EXCEPT ![p] = n] /\ total' = total
    BY DEF UsageChunk
<1>3. /\ DOMAIN d = Fields /\ d.claims = 0 /\ d.at = dispatch[p].at /\ d.claimed = dispatch[p].claimed
      /\ d.seen = (dispatch[p].seen \/ usage)
    BY <1>1, Zenon DEF ClaimUnderWay, Fields
<1>4. ClaimUnderWay(n) /\ ((n.seen /\ n.claims = 0) <=> (dispatch[p].seen /\ dispatch[p].claims = 0))
  <2> HIDE DEF d, e
  <2>1. CASE claims(p) /\ usage
    <3>1. n = [d EXCEPT !.at = "lookup", !.claimed = TRUE, !.entry = e, !.claims = @ + 1]
        BY <2>1
    <3>2. DOMAIN n = Fields /\ n.seen = d.seen /\ n.claimed = TRUE /\ n.at = "lookup" /\ n.claims = d.claims + 1
        BY <3>1, <1>3 DEF Fields
    <3>3. n.claims \in {0, 1} /\ n.claims # 0
        BY <3>2, <1>3
    <3>4. n.seen = TRUE /\ dispatch[p].seen = FALSE
        BY <3>2, <1>3, <1>1, <2>1, Zenon DEF ClaimUnderWay, claims
    <3> QED
        BY <3>2, <3>3, <3>4, Zenon DEF ClaimUnderWay
  <2>2. CASE claims(p) /\ ~usage
    BY <2>2, <1>3, <1>1 DEF ClaimUnderWay
  <2>3. CASE ~claims(p)
    <3>1. n = d \/ n = [d EXCEPT !.at = "lookup", !.entry = e]
        BY <2>3
    <3>2. DOMAIN n = Fields /\ n.seen = d.seen /\ n.claimed = d.claimed /\ n.claims = d.claims
        BY <3>1, <1>3 DEF Fields
    <3>3. n.claims \in {0, 1} /\ n.claims = 0 /\ n.claims # 1
        BY <3>2, <1>3
    <3>4. n.seen = TRUE /\ n.claimed = TRUE /\ dispatch[p].seen = TRUE
        BY <3>2, <1>3, <1>1, <2>3, Zenon DEF ClaimUnderWay, claims
    <3> QED
        BY <3>2, <3>3, <3>4, <1>1, Zenon DEF ClaimUnderWay
  <2> QED
    BY <2>1, <2>2, <2>3
<1> HIDE DEF n
<1>5. DOMAIN dispatch' = Dispatches /\ \A q \in Dispatches : dispatch'[q] = IF q = p THEN n ELSE dispatch[q]
    BY <1>2 DEF Ledger
<1>6. \A q \in Dispatches : ClaimUnderWay(dispatch'[q])
    BY <1>5, <1>4 DEF Ledger
<1>7. Settled(dispatch') = Settled(dispatch)
    BY <1>5, <1>4 DEF Settled
<1> QED
    BY <1>2, <1>5, <1>6, <1>7, NothingClaimed

(* addSpend up to the account's counter: a dispatch's place moves, its     *)
(* claim does not.                                                         *)
LEMMA AddSpendMoves ==
    ASSUME Ledger, NEW p \in Dispatches, Lookup(p) \/ Create(p) \/ AddAccount(p)
    PROVE  Ledger'
<1>1. /\ DOMAIN dispatch' = Dispatches /\ total' = total
      /\ \A q \in Dispatches \ {p} : dispatch'[q] = dispatch[q]
      /\ DOMAIN dispatch'[p] = DOMAIN dispatch[p]
      /\ dispatch'[p].claims = dispatch[p].claims /\ dispatch'[p].seen = dispatch[p].seen
      /\ dispatch'[p].claimed = dispatch[p].claimed /\ dispatch'[p].at # "idle"
    BY DEF Ledger, ClaimUnderWay, Fields, Lookup, Create, AddAccount
<1>2. \A q \in Dispatches : ClaimUnderWay(dispatch'[q])
    BY <1>1 DEF Ledger, ClaimUnderWay
<1>3. Settled(dispatch') = Settled(dispatch)
    BY <1>1 DEF Settled
<1> QED
    BY <1>1, <1>2, <1>3, NothingClaimed

(* The count rises by the claim it settles.                                *)
LEMMA AddTotalSettles ==
    ASSUME Ledger, NEW p \in Dispatches, AddTotal(p)
    PROVE  Ledger'
<1>1. /\ DOMAIN dispatch' = Dispatches
      /\ \A q \in Dispatches \ {p} : dispatch'[q] = dispatch[q]
      /\ DOMAIN dispatch'[p] = DOMAIN dispatch[p]
      /\ dispatch'[p].claims = 0 /\ dispatch'[p].seen = dispatch[p].seen
      /\ dispatch'[p].claimed = dispatch[p].claimed
    BY DEF Ledger, ClaimUnderWay, Fields, AddTotal
<1>2. DOMAIN total' = DOMAIN total /\ total'.requests = total.requests + dispatch[p].claims
    BY DEF Ledger, AddTotal
<1>3. \A q \in Dispatches : ClaimUnderWay(dispatch'[q])
    BY <1>1 DEF Ledger, ClaimUnderWay
<1>4. ClaimUnderWay(dispatch[p])
    BY DEF Ledger
<1>5. CASE dispatch[p].claims = 0
  <2>1. Settled(dispatch') = Settled(dispatch)
    BY <1>1, <1>5 DEF Settled
  <2>2. total.requests \in Nat
    <3>1. IsFiniteSet(Settled(dispatch))
        BY BillingAssumption, FS_Subset DEF Settled
    <3> QED
        BY <3>1, FS_CardinalityType DEF Ledger, ClaimedOnce, Settled
  <2> QED
    BY <2>1, <2>2, <1>1, <1>2, <1>3, <1>5, NothingClaimed
<1>6. CASE dispatch[p].claims = 1
  <2>1. Settled(dispatch') = Settled(dispatch) \cup {p} /\ p \notin Settled(dispatch)
    BY <1>1, <1>4, <1>6 DEF Settled, ClaimUnderWay
  <2>2. IsFiniteSet(Settled(dispatch))
    BY BillingAssumption, FS_Subset DEF Settled
  <2>3. Cardinality(Settled(dispatch')) = Cardinality(Settled(dispatch)) + 1
    BY <2>1, <2>2, FS_AddElement
  <2>4. ClaimedOnce'
    BY <2>3, <1>2, <1>6 DEF Ledger, ClaimedOnce, Settled
  <2> QED
    BY <2>4, <1>1, <1>2, <1>3 DEF Ledger
<1> QED
    BY <1>4, <1>5, <1>6 DEF ClaimUnderWay

(* Every step of the tracker keeps the ledger.                             *)
LEMMA LedgerKept == Ledger /\ [BNext]_bvars => Ledger'
<1> SUFFICES ASSUME Ledger, [BNext]_bvars PROVE Ledger'
    OBVIOUS
<1>1. ASSUME NEW p \in Dispatches, AddSpend(p) PROVE Ledger'
    BY <1>1, AddSpendMoves, AddTotalSettles DEF AddSpend
<1>2. ASSUME NEW p \in Dispatches, NEW usage \in BOOLEAN, NEW c \in Costs, UsageChunk(p, usage, c) PROVE Ledger'
    BY <1>2, UsageChunkClaims
<1>3. ASSUME NEW k \in Keys, ResetSpend(k) \/ PollTimer(k) \/ PollEnd(k) PROVE Ledger'
    BY <1>3, MarksClaimNothing DEF ResetSpend, PollTimer, PollEnd
<1>4. ASSUME NEW k \in Keys, NEW answer, NEW named, fetchAndUpdate(k, answer, named) PROVE Ledger'
    BY <1>4, MarksClaimNothing, ApplyKeepsRequests DEF fetchAndUpdate
<1>5. ASSUME NEW k \in Keys, NEW answer, ReadQuotaHeaders(k, answer) PROVE Ledger'
    BY <1>5, MarksClaimNothing, ApplyKeepsRequests DEF ReadQuotaHeaders, quota
<1>6. ASSUME ResetTotal PROVE Ledger'
  <2>1. dispatch' = dispatch /\ DOMAIN total' = DOMAIN total /\ total'.requests = total.requests
    <3> DEFINE n == FoldLeft(LAMBDA m, o : m + status[o].spend, 0, SetToSeq({accounts[k] : k \in Keys} \ {0}))
    <3>1. total' = [total EXCEPT !.spend = n] /\ dispatch' = dispatch
        BY <1>6 DEF ResetTotal
    <3> HIDE DEF n
    <3> QED
        BY <3>1 DEF Ledger
  <2> QED
    BY <2>1, MarksClaimNothing
<1>7. CASE StartFetcher \/ StopFetcher
    BY <1>7, MarksClaimNothing DEF StartFetcher, StopFetcher
<1>8. CASE UNCHANGED bvars
    BY <1>8, MarksClaimNothing DEF bvars
<1> QED
    BY <1>1, <1>2, <1>3, <1>4, <1>5, <1>6, <1>7, <1>8 DEF BNext

(* recordStreamSpend, addSpend: for any dispatches, accounts and costs, and *)
(* however usage chunks, additions, quota marks and resets interleave, a   *)
(* dispatch is counted as one request.                                     *)
THEOREM OneClaim == BSpec => []ClaimedOnce
<1>1. BSpec => []Ledger
    BY LedgerInit, LedgerKept, PTL DEF BSpec
<1>2. Ledger => ClaimedOnce
    BY DEF Ledger
<1> QED
    BY <1>1, <1>2, PTL

-----------------------------------------------------------------------------
(* ConfigLife.  A gateway is a record, and one that runs on what is on     *)
(* disk was let in by checks a start makes too.                            *)
Served ==
    /\ DOMAIN gateway = {"up", "cfg", "providers", "key", "fresh"}
    /\ RestartSafe

(* The accessors clamp any value, written or not, legal or not.            *)
LEMMA Clamped ==
    ASSUME NEW v
    PROVE  clamped(v) \notin {"neg", "over"} /\ positiveOr(v) \notin {"neg", "over"}
BY DEF clamped, positiveOr

(* Whatever configuration is served, its limits are in range.              *)
LEMMA LimitsInRange ==
    ASSUME NEW c
    PROVE  effectiveLimits(c) \cap {"neg", "over"} = {}
<1>1. /\ EffectiveUpstreamTimeout(c) \notin {"neg", "over"}
      /\ EffectiveStreamIdleTimeout(c) \notin {"neg", "over"}
      /\ EffectiveThinkingStreamIdleTimeout(c) \notin {"neg", "over"}
      /\ EffectiveMinQuotaCooldown(c) \notin {"neg", "over"}
    BY Clamped DEF EffectiveUpstreamTimeout, EffectiveStreamIdleTimeout, EffectiveThinkingStreamIdleTimeout,
                   EffectiveMinQuotaCooldown
<1>2. EffectiveSlowCallThreshold(c) \notin {"neg", "over"}
    BY Clamped DEF EffectiveSlowCallThreshold
<1>3. /\ EffectiveSecretResolutionTimeout(c) \notin {"neg", "over"}
      /\ EffectiveReloadDrainTimeout(c) \notin {"neg", "over"}
      /\ EffectiveMaxTransformedSSEBytes(c) \notin {"neg", "over"}
      /\ EffectiveStreamContinuationMaxAttempts(c) \notin {"neg", "over"}
    BY Clamped DEF EffectiveSecretResolutionTimeout, EffectiveReloadDrainTimeout, EffectiveMaxTransformedSSEBytes,
                   EffectiveStreamContinuationMaxAttempts
<1>4. resolveStreamIdleTimeout(c) \notin {"neg", "over"}
    BY Clamped, <1>1 DEF resolveStreamIdleTimeout
<1> QED
    BY <1>1, <1>2, <1>3, <1>4, Zenon DEF effectiveLimits

(* The checks of a reload include those of a start.                        *)
LEMMA ReloadImpliesStart ==
    ASSUME NEW f, NEW v, NEW ref, NEW serving, reloadAccepts(f, v, ref, serving)
    PROVE  startAccepts(f, v, ref)
<1> DEFINE c == loadConfig(f)
<1> DEFINE doc == LoadSecretsBounded(v, ref)
<1>1. doc # absent /\ defaultsSucceed(c) /\ reloadChecks(withKeys(c, doc))
    BY DEF reloadAccepts, reloads
<1> HIDE DEF c, doc
<1>2. startChecks(withKeys(c, doc))
    BY <1>1 DEF reloadChecks, startChecks, ValidateConfigurationNoPing, collectValidationErrors
<1>3. starts(c, doc)
    BY <1>1, <1>2 DEF starts
<1> QED
    BY <1>3 DEF startAccepts, c, doc

(* What serve puts into the gateway.                                       *)
LEMMA SwapIn ==
    ASSUME NEW f, NEW v, NEW ref
    PROVE  LET g == swapIn(f, v, ref) IN
           /\ DOMAIN g = {"up", "cfg", "providers", "key", "fresh"} /\ g.up
           /\ g.cfg = loadConfig(f) /\ g.providers = ResolveProviders(loadConfig(f), LoadSecretsBounded(v, ref))
BY DEF swapIn, serve

(* Every edit of the disk leaves a gateway that serves something else.     *)
LEMMA EditsUnfresh ==
    ASSUME Served, EditBase \/ ConfigSet \/ SecretSet \/ Rotate
    PROVE  DOMAIN gateway' = DOMAIN gateway /\ ~gateway'.fresh
           /\ gateway'.providers = gateway.providers
<1>1. gateway' = [gateway EXCEPT !.fresh = FALSE]
    BY DEF EditBase, ConfigSet, SecretSet, Rotate
<1> QED
    BY <1>1, Zenon DEF Served

(* Initially nothing is served.                                            *)
LEMMA ServedInit == CInit => Served
BY DEF CInit, Served, RestartSafe, down

(* A gateway is let in by the checks of a start, and an edit ends what     *)
(* they vouch for.                                                         *)
LEMMA ServedKept == Served /\ [CNext]_cvars => Served'
<1> SUFFICES ASSUME Served, [CNext]_cvars PROVE Served'
    OBVIOUS
<1>1. CASE EditBase \/ ConfigSet \/ SecretSet \/ Rotate
    BY <1>1, EditsUnfresh DEF Served, RestartSafe
<1>2. CASE Start
    BY <1>2, SwapIn DEF Start, Served, RestartSafe
<1>3. CASE Stop
    BY <1>3 DEF Stop, down, Served, RestartSafe
<1>4. CASE ReloadConfig
  <2>1. CASE reloadAccepts(files, vault, reference, gateway.providers)
    BY <1>4, <2>1, SwapIn, ReloadImpliesStart DEF ReloadConfig, Served, RestartSafe
  <2>2. CASE ~reloadAccepts(files, vault, reference, gateway.providers)
    BY <1>4, <2>2 DEF ReloadConfig, Served, RestartSafe
  <2> QED
    BY <2>1, <2>2
<1>5. CASE UNCHANGED cvars
    BY <1>5 DEF cvars, Served, RestartSafe
<1> QED
    BY <1>1, <1>2, <1>3, <1>4, <1>5 DEF CNext

(* ApplyDefaults, the Effective accessors and the two sets of checks: for  *)
(* any documents, secrets and edits, a gateway runs with limits in range,  *)
(* and what a reload let in a restart lets in.                             *)
THEOREM AlwaysServable == ConfigSpec => []ServedSound
<1>1. ConfigSpec => []Served
    BY ServedInit, ServedKept, PTL DEF ConfigSpec
<1>2. Served => ServedSound
    BY LimitsInRange DEF Served, ServedSound, EffectiveInRange
<1> QED
    BY <1>1, <1>2, PTL

(* ServeContinuityIssues: a step that keeps a gateway serving keeps the    *)
(* credential of a provider that still needs one.                          *)
LEMMA StepKeepsCapacity ==
    ASSUME Served, [CNext]_cvars, gateway.up, gateway'.up, gateway.providers = "keyed",
           "provider" \in DOMAIN gateway'.cfg, at(gateway'.cfg, "provider.auth_style") # "none"
    PROVE  gateway'.providers = "keyed"
<1>1. CASE EditBase \/ ConfigSet \/ SecretSet \/ Rotate
    BY <1>1, EditsUnfresh
<1>2. CASE Start
    BY <1>2 DEF Start
<1>3. CASE Stop
    BY <1>3 DEF Stop, down
<1>4. CASE ReloadConfig
  <2>1. CASE reloadAccepts(files, vault, reference, gateway.providers)
    <3> DEFINE c == loadConfig(files)
    <3> DEFINE doc == LoadSecretsBounded(vault, reference)
    <3>1. gateway' = swapIn(files, vault, reference)
        BY <1>4, <2>1 DEF ReloadConfig
    <3>2. gateway'.cfg = c /\ gateway'.providers = ResolveProviders(c, doc)
        BY <3>1, SwapIn
    <3>3. ~ServeContinuityIssues("keyed", c, doc)
        BY <2>1 DEF reloadAccepts, reloads
    <3> HIDE DEF c, doc
    <3>4. ResolveProviders(c, doc) \in {"none", "keyless", "keyed"}
        BY DEF ResolveProviders
    <3> QED
        BY <3>2, <3>3, <3>4 DEF ServeContinuityIssues
  <2>2. CASE ~reloadAccepts(files, vault, reference, gateway.providers)
    BY <1>4, <2>2 DEF ReloadConfig
  <2> QED
    BY <2>1, <2>2
<1>5. CASE UNCHANGED cvars
    BY <1>5 DEF cvars
<1> QED
    BY <1>1, <1>2, <1>3, <1>4, <1>5 DEF CNext

(* continuity.go: no sequence of edits, rotations and reloads takes the    *)
(* credential of a configured provider from a serving gateway.             *)
THEOREM CredentialsKept == ConfigSpec => CapacityKept
<1> DEFINE A == gateway.up /\ gateway'.up /\ gateway.providers = "keyed" /\ "provider" \in DOMAIN gateway'.cfg
                  /\ at(gateway'.cfg, "provider.auth_style") # "none" => gateway'.providers = "keyed"
<1>1. Served /\ [CNext]_cvars => A
    BY StepKeepsCapacity
<1>2. ConfigSpec => [][A]_cvars
    BY <1>1, ServedInit, ServedKept, PTL DEF ConfigSpec
<1> QED
    BY <1>2 DEF CapacityKept

-----------------------------------------------------------------------------
(* The secrets on disk are documents, whatever is written or rotated.      *)
Stored == topic \in Topics /\ IsVault(vault)

(* setSecretValue leaves a readable document with the new key.             *)
LEMMA DocumentWritten ==
    ASSUME NEW d, IsDocument(d), d # unreadable
    PROVE  LET w == setSecretValue(d, "new") IN IsDocument(w) /\ w.state = "ok" /\ w.key = "new"
<1>1. CASE d = absent
    BY <1>1, Zenon DEF setSecretValue, IsDocument
<1>2. CASE d # absent
  <2>1. DOMAIN d = {"state", "token", "key", "api"} /\ d.state = "ok"
    BY <1>2 DEF IsDocument
  <2> DEFINE t == IF d.token = "unset" THEN "ok" ELSE d.token
  <2>2. setSecretValue(d, "new") = [[d EXCEPT !.key = "new"] EXCEPT !.token = t]
    BY <1>2, <2>1 DEF setSecretValue
  <2> HIDE DEF t
  <2> QED
    BY <2>1, <2>2 DEF IsDocument
<1> QED
    BY <1>1, <1>2

(* The two places "secret set" writes to: the document of the merge        *)
(* directory when nothing later or earlier in the search hides it, the     *)
(* root's when there is no directory.                                      *)
LEMMA SecretWritten ==
    ASSUME Stored, SecretSet
    PROVE  /\ vault.cred.state # "ok" /\ topic' = topic
           /\ \/ /\ vault.dir[2] # unreadable /\ vault.dir[3] = absent
                 /\ vault' = [vault EXCEPT !.dir = [vault.dir EXCEPT ![2] = setSecretValue(vault.dir[2], "new")]]
              \/ /\ vault.root # unreadable /\ \A i \in 1..3 : vault.dir[i] = absent
                 /\ vault' = [vault EXCEPT !.root = setSecretValue(vault.root, "new")]
<1>1. \/ /\ secretTarget(vault) = "dir" /\ vault.dir[2] # unreadable
         /\ vault' = [vault EXCEPT !.dir = [vault.dir EXCEPT ![2] = setSecretValue(vault.dir[2], "new")]]
      \/ /\ secretTarget(vault) = "root" /\ vault.root # unreadable
         /\ vault' = [vault EXCEPT !.root = setSecretValue(vault.root, "new")]
    BY Zenon DEF SecretSet
<1>2. topic' = topic
    BY DEF SecretSet
<1> QED
    BY <1>1, <1>2 DEF secretTarget, activeCredentialSource, laterSiblingShadows, absent

(* Both leave a vault.                                                     *)
LEMMA WriteKeepsVault ==
    ASSUME Stored, SecretSet
    PROVE  /\ IsVault(vault') /\ vault'.cred = vault.cred /\ vault.cred.state # "ok"
           /\ \/ /\ vault'.dir[1] = vault.dir[1] /\ vault'.dir[3] = absent
                 /\ vault'.dir[2] = setSecretValue(vault.dir[2], "new") /\ vault.dir[2] # unreadable
              \/ /\ \A i \in 1..3 : vault'.dir[i] = absent
                 /\ vault'.root = setSecretValue(vault.root, "new") /\ vault.root # unreadable
<1>1. IsVault(vault)
    BY DEF Stored
<1>2. CASE /\ vault.dir[2] # unreadable /\ vault.dir[3] = absent
           /\ vault' = [vault EXCEPT !.dir = [vault.dir EXCEPT ![2] = setSecretValue(vault.dir[2], "new")]]
  <2> DEFINE w == setSecretValue(vault.dir[2], "new")
  <2> DEFINE dir == [vault.dir EXCEPT ![2] = w]
  <2>1. IsDocument(w)
    BY <1>1, <1>2, DocumentWritten DEF IsVault
  <2>2. DOMAIN dir = 1..3 /\ dir[1] = vault.dir[1] /\ dir[2] = w /\ dir[3] = vault.dir[3]
    <3> HIDE DEF w
    <3> QED
        BY <1>1 DEF IsVault
  <2>3. vault' = [vault EXCEPT !.dir = dir]
    BY <1>2
  <2> HIDE DEF w, dir
  <2>4. DOMAIN vault' = DOMAIN vault /\ vault'.dir = dir /\ vault'.cred = vault.cred /\ vault'.root = vault.root
    BY <2>3, <1>1, Zenon DEF IsVault
  <2>5. \A i \in 1..3 : IsDocument(dir[i])
    BY <2>1, <2>2, <1>1 DEF IsVault
  <2>6. IsVault(vault')
    BY <2>2, <2>4, <2>5, <1>1 DEF IsVault
  <2> QED
    BY <2>2, <2>4, <2>6, <1>2, SecretWritten DEF w
<1>3. CASE /\ vault.root # unreadable /\ \A i \in 1..3 : vault.dir[i] = absent
           /\ vault' = [vault EXCEPT !.root = setSecretValue(vault.root, "new")]
  <2> DEFINE w == setSecretValue(vault.root, "new")
  <2>1. IsDocument(w)
    BY <1>1, <1>3, DocumentWritten DEF IsVault
  <2>2. vault' = [vault EXCEPT !.root = w]
    BY <1>3
  <2> HIDE DEF w
  <2>3. DOMAIN vault' = DOMAIN vault /\ vault'.root = w /\ vault'.cred = vault.cred /\ vault'.dir = vault.dir
    BY <2>2, <1>1, Zenon DEF IsVault
  <2>4. IsVault(vault')
    BY <2>1, <2>3, <1>1 DEF IsVault
  <2> QED
    BY <2>3, <2>4, <1>3, SecretWritten DEF w
<1> QED
    BY <1>2, <1>3, SecretWritten

(* Initially the vault is one of Vaults.                                   *)
LEMMA StoredInit == CInit => Stored
BY VaultsAssumption DEF CInit, Stored

(* What is on disk stays documents.                                        *)
LEMMA StoredKept == Stored /\ [CNext]_cvars => Stored'
<1> SUFFICES ASSUME Stored, [CNext]_cvars PROVE Stored'
    OBVIOUS
<1>1. CASE SecretSet
    BY <1>1, SecretWritten, WriteKeepsVault DEF Stored
<1>2. CASE Rotate
    BY <1>2, VaultsAssumption DEF Rotate, Stored
<1>3. CASE EditBase \/ ConfigSet \/ Start \/ Stop \/ ReloadConfig \/ UNCHANGED cvars
    BY <1>3 DEF EditBase, ConfigSet, Start, Stop, ReloadConfig, cvars, Stored
<1> QED
    BY <1>1, <1>2, <1>3 DEF CNext

(* A source found after a write is the written document, or unreadable.    *)
LEMMA FoundAfterWrite ==
    ASSUME Stored, SecretSet
    PROVE  LET raw == ResolveSecrets(vault') IN raw.state = "ok" => raw.key = "new"
<1> DEFINE v == vault'
<1> DEFINE raw == ResolveSecrets(v)
<1> DEFINE merge == loadSecretsFromDir(v.dir)
<1>1. IsVault(v) /\ v.cred \in {absent, unreadable}
    BY WriteKeepsVault DEF IsVault, IsDocument
<1>2. sources(v)[1] = v.cred /\ sources(v)[2] = merge /\ sources(v)[3] = v.root
    BY DEF sources
<1>3. unreadable # absent /\ unreadable.state # "ok" /\ absent.state # "ok"
    BY DEF unreadable, absent
<1>4. CASE /\ v.dir[1] = vault.dir[1] /\ v.dir[3] = absent
           /\ v.dir[2] = setSecretValue(vault.dir[2], "new") /\ vault.dir[2] # unreadable
  <2>1. IsDocument(v.dir[2]) /\ v.dir[2].state = "ok" /\ v.dir[2].key = "new"
    BY <1>4, DocumentWritten DEF Stored, IsVault
  <2>2. merge = unreadable \/ (merge # absent /\ merge.key = "new")
    <3>1. v.dir[2] # absent /\ v.dir[2] # unreadable
        BY <2>1, <1>3
    <3>2. merge = mergeSecrets(v.dir[1], v.dir[2]) \/ (merge = absent /\ mergeSecrets(v.dir[1], v.dir[2]) = absent)
        BY <1>4 DEF loadSecretsFromDir, mergeSecrets
    <3>3. CASE v.dir[1] = absent
        BY <3>1, <3>2, <3>3, <2>1 DEF mergeSecrets
    <3>4. CASE v.dir[1] = unreadable
        BY <3>1, <3>2, <3>4, <1>3 DEF mergeSecrets
    <3>5. CASE v.dir[1] \notin {absent, unreadable}
      <4>1. mergeSecrets(v.dir[1], v.dir[2]).key = "new" /\ mergeSecrets(v.dir[1], v.dir[2]).state = "ok"
        BY <3>1, <3>5, <2>1 DEF mergeSecrets
      <4> QED
        BY <4>1, <3>2, <1>3
    <3> QED
        BY <3>3, <3>4, <3>5
  <2>3. raw \in {v.cred, merge}
    BY <2>2, <1>2, <1>3 DEF ResolveSecrets
  <2> QED
    BY <2>2, <2>3, <1>1, <1>3
<1>5. CASE /\ \A i \in 1..3 : v.dir[i] = absent
           /\ v.root = setSecretValue(vault.root, "new") /\ vault.root # unreadable
  <2>1. v.root.state = "ok" /\ v.root.key = "new"
    BY <1>5, DocumentWritten DEF Stored, IsVault
  <2>2. merge = absent
    BY <1>5 DEF loadSecretsFromDir, mergeSecrets
  <2>3. raw \in {v.cred, v.root}
    BY <2>1, <2>2, <1>2, <1>3 DEF ResolveSecrets
  <2> QED
    BY <2>1, <2>3, <1>1, <1>3
<1> QED
    BY <1>4, <1>5, WriteKeepsVault

(* setSecretValue, secretTarget, ResolveSecrets: for any secrets on disk,  *)
(* what "secret set" wrote is what the next load serves, or the load fails.*)
THEOREM WritesServe == ConfigSpec => WrittenSecretServes
<1> DEFINE A == edits' # edits /\ SecretSet =>
                  LET doc == LoadSecretsBounded(vault', reference) IN doc = absent \/ doc.key = "new"
<1>1. Stored => A
  <2> SUFFICES ASSUME Stored, SecretSet
               PROVE  LET doc == LoadSecretsBounded(vault', reference) IN doc = absent \/ doc.key = "new"
    OBVIOUS
  <2> DEFINE raw == ResolveSecrets(vault')
  <2>1. raw.state = "ok" => raw.key = "new"
    BY FoundAfterWrite
  <2> HIDE DEF raw
  <2>2. LoadSecretsBounded(vault', reference) \in {absent, ResolveProviderKeyReferences(raw, reference)}
    BY DEF LoadSecretsBounded, raw
  <2>3. LoadSecretsBounded(vault', reference) # absent => raw.state = "ok"
    BY DEF LoadSecretsBounded, raw
  <2>4. raw.key = "new" => ResolveProviderKeyReferences(raw, reference) = raw
    BY DEF ResolveProviderKeyReferences
  <2> QED
    BY <2>1, <2>2, <2>3, <2>4
<1>2. ConfigSpec => [][A]_cvars
    BY <1>1, StoredInit, StoredKept, PTL DEF ConfigSpec
<1> QED
    BY <1>2 DEF WrittenSecretServes

-----------------------------------------------------------------------------
(* Admission.  What a request q that sent the dispatches d as r carries.   *)
InSweep == {"sweep", "guards", "waiting"}
RequestFields == {"pc", "gen", "in", "key", "targets", "byok", "idx", "turn", "variant", "resumed", "latched",
                  "reserved", "header"}
IsSeq(s) == \E S : s \in Seq(S)
KeyedIn(d) == {i \in DOMAIN d : d[i].key # NoKey}
LastKeyed(i, d) == i \in KeyedIn(d) /\ (i + 1 .. Len(d)) \cap KeyedIn(d) = {}

Shaped(q, d) == DOMAIN q = RequestFields /\ DOMAIN q.header = {"key", "bound"} /\ IsSeq(d)

(* Nothing goes out before the sweep, nor after a refusal: once something  *)
(* did, the reservation that could refuse the request is behind it.        *)
Silent(q, d) ==
    /\ q.pc \in {"idle", "entered", "known", "refused"} => d = <<>>
    /\ q.pc \in {"guards", "waiting"} \/ (q.pc = "sweep" /\ d # <<>>) => ~reserves(q)

Known(q, d) == q.pc \in {"entered", "known"} \cup InSweep \/ d # <<>> => q.in \in Inputs

(* The header is the client's key, or the last key sent with its body.     *)
Carried(q, d) ==
    /\ q.pc \in {"entered", "known"} => q.header.key = q.in.idem
    /\ q.pc \in InSweep =>
         \/ KeyedIn(d) = {} /\ q.header.key = q.in.idem /\ q.header.bound = NoBody
         \/ \E i \in DOMAIN d : LastKeyed(i, d) /\ q.header.key = d[i].key /\ q.header.bound = d[i].body

(* A key sent is the client's, or was made here for an earlier dispatch of *)
(* the request or for this one.                                            *)
Made(r, i, key) == \E n \in 0 .. i - 1 : key = <<"nenya", r, n>>
Own(r, q, d) ==
    \A i \in KeyedIn(d) :
        d[i].body # NoBody /\ ((usable(q.in.idem) /\ d[i].key = q.in.idem) \/ Made(r, i, d[i].key))

OneBody(d) == \A i, j \in KeyedIn(d) : d[i].key = d[j].key => d[i].body = d[j].body
SameKey(d) ==
    \A i, j \in KeyedIn(d) : i < j /\ (i + 1 .. j - 1) \cap KeyedIn(d) = {} /\ d[i].body = d[j].body => d[i].key = d[j].key
FirstKey(q, d) ==
    \A i \in KeyedIn(d) : usable(q.in.idem) /\ (1 .. i - 1) \cap KeyedIn(d) = {} => d[i].key = q.in.idem

Sent(r, q, d) == Own(r, q, d) /\ OneBody(d) /\ SameKey(d) /\ FirstKey(q, d)
Bound(r, q, d) == Shaped(q, d) /\ Silent(q, d) /\ Known(q, d) /\ Carried(q, d) /\ Sent(r, q, d)

KeysBound ==
    /\ DOMAIN req = Requests /\ DOMAIN sent = Requests
    /\ \A r \in Requests : Bound(r, req[r], sent[r])

(* Append, of whatever the sequence holds.                                 *)
LEMMA Appended ==
    ASSUME NEW d, IsSeq(d), NEW e
    PROVE  LET a == Append(d, e) IN
           /\ Len(d) \in Nat /\ DOMAIN d = 1 .. Len(d)
           /\ IsSeq(a) /\ Len(a) = Len(d) + 1 /\ DOMAIN a = 1 .. Len(d) + 1
           /\ \A i \in 1 .. Len(d) : a[i] = d[i]
           /\ a[Len(d) + 1] = e
<1>1. PICK S : d \in Seq(S)
    BY DEF IsSeq
<1> DEFINE T == S \cup {e}
<1>2. d \in Seq(T) /\ e \in T
    BY <1>1
<1> HIDE DEF T
<1>3. Append(d, e) \in Seq(T)
    BY <1>2
<1>4. IsSeq(Append(d, e))
    BY <1>3 DEF IsSeq
<1> QED
    BY <1>2, <1>3, <1>4

(* A dispatch without a key leaves the keyed ones as they are.             *)
LEMMA UnkeyedSent ==
    ASSUME NEW r, NEW q, NEW d, IsSeq(d), NEW e, e.key = NoKey
    PROVE  LET a == Append(d, e) IN
           /\ KeyedIn(a) = KeyedIn(d)
           /\ Sent(r, q, d) => Sent(r, q, a)
           /\ \A i \in DOMAIN d : LastKeyed(i, d) => i \in DOMAIN a /\ a[i] = d[i] /\ LastKeyed(i, a)
<1> DEFINE a == Append(d, e)
<1>1. /\ Len(d) \in Nat /\ DOMAIN d = 1 .. Len(d) /\ Len(a) = Len(d) + 1 /\ DOMAIN a = 1 .. Len(d) + 1
      /\ \A i \in 1 .. Len(d) : a[i] = d[i]
      /\ a[Len(d) + 1] = e
    BY Appended
<1> HIDE DEF a
<1>2. KeyedIn(a) = KeyedIn(d)
    BY <1>1 DEF KeyedIn
<1>3. \A i \in KeyedIn(d) : a[i] = d[i] /\ i \in 1 .. Len(d)
    BY <1>1 DEF KeyedIn
<1>4. ASSUME Sent(r, q, d) PROVE Sent(r, q, a)
  <2>1. Own(r, q, a)
    BY <1>2, <1>3, <1>4 DEF Sent, Own
  <2>2. OneBody(a)
    BY <1>2, <1>3, <1>4 DEF Sent, OneBody
  <2>3. SameKey(a)
    BY <1>2, <1>3, <1>4 DEF Sent, SameKey
  <2>4. FirstKey(q, a)
    BY <1>2, <1>3, <1>4 DEF Sent, FirstKey
  <2> QED
    BY <2>1, <2>2, <2>3, <2>4 DEF Sent
<1>5. ASSUME NEW i \in DOMAIN d, LastKeyed(i, d) PROVE i \in DOMAIN a /\ a[i] = d[i] /\ LastKeyed(i, a)
    BY <1>1, <1>2, <1>5 DEF LastKeyed, KeyedIn
<1> QED
    BY <1>2, <1>4, <1>5 DEF a

(* idempotencyKeyForBody either goes on with the header's key, for the     *)
(* same body or for the first, or makes one.                               *)
LEMMA KeyForBody ==
    ASSUME NEW r, NEW h, NEW body
    PROVE  LET n == idempotencyKeyForBody(r, h, body) IN
           /\ DOMAIN n = {"key", "bound"} /\ n.bound = body
           /\ \/ usable(h.key) /\ h.bound \in {body, NoBody} /\ n.key = h.key
              \/ ~(usable(h.key) /\ h.bound \in {body, NoBody}) /\ n.key = <<"nenya", r, Len(sent[r])>>
BY DEF idempotencyKeyForBody, synthesizeIdempotencyKey

(* A key made here is no absent, no unusable and no client's key, and is   *)
(* another for every request and dispatch.                                 *)
LEMMA MadeHere ==
    ASSUME NEW r, NEW n
    PROVE  /\ usable(<<"nenya", r, n>>) /\ <<"nenya", r, n>> # NoKey
           /\ \A in \in Inputs : in.idem # <<"nenya", r, n>>
           /\ \A s, m : <<"nenya", r, n>> = <<"nenya", s, m>> => r = s /\ n = m
<1> DEFINE k == <<"nenya", r, n>>
<1>1. k[1] = "nenya" /\ k[2] = r /\ k[3] = n
    OBVIOUS
<1>2. k # NoKey /\ k # <<"unsafe">>
  <2>1. NoKey[1] = "none" /\ <<"unsafe">>[1] = "unsafe"
    BY DEF NoKey
  <2> HIDE DEF k
  <2> QED
    BY <1>1, <2>1
<1>3. \A in \in Inputs : in.idem # k
  <2> HIDE DEF k
  <2> QED
    BY <1>1, AdmissionAssumption
<1> QED
    BY <1>1, <1>2, <1>3 DEF usable

(* A key that was sent is usable.                                          *)
LEMMA SentUsable ==
    ASSUME NEW r, NEW q, NEW d, Own(r, q, d), NEW i \in KeyedIn(d)
    PROVE  usable(d[i].key)
<1>1. CASE usable(q.in.idem) /\ d[i].key = q.in.idem
    BY <1>1
<1>2. CASE Made(r, i, d[i].key)
    BY <1>2, MadeHere DEF Made
<1> QED
    BY <1>1, <1>2 DEF Own

(* A dispatch with a key: the header's key goes with the body it was bound *)
(* to, and any other body gets a key nothing was sent with.                *)
LEMMA KeyedSent ==
    ASSUME NEW r, NEW q, NEW d, d = sent[r], IsSeq(d), q.in \in Inputs, q.pc \in InSweep, Carried(q, d), Sent(r, q, d),
           NEW body, body # NoBody, NEW e, e.body = body,
           e.key = idempotencyKeyForBody(r, q.header, body).key
    PROVE  LET a == Append(d, e) IN
           Sent(r, q, a) /\ Len(d) + 1 \in DOMAIN a /\ a[Len(d) + 1] = e /\ LastKeyed(Len(d) + 1, a)
<1> DEFINE a == Append(d, e)
<1> DEFINE L == Len(d) + 1
<1> DEFINE h == q.header
<1> DEFINE reuse == usable(h.key) /\ h.bound \in {body, NoBody}
<1>1. /\ Len(d) \in Nat /\ DOMAIN d = 1 .. Len(d) /\ Len(a) = L /\ DOMAIN a = 1 .. L
      /\ \A i \in 1 .. Len(d) : a[i] = d[i]
      /\ a[L] = e
    BY Appended
<1>2. \/ reuse /\ e.key = h.key
      \/ ~reuse /\ e.key = <<"nenya", r, Len(d)>>
    BY KeyForBody
<1>3. e.key # NoKey
  <2>1. <<"nenya", r, Len(d)>> # NoKey
    BY MadeHere
  <2>2. usable(h.key) => h.key # NoKey
    BY Zenon DEF usable
  <2> QED
    BY <1>2, <2>1, <2>2, Zenon
<1> HIDE DEF a, reuse
<1>4. KeyedIn(a) = KeyedIn(d) \cup {L} /\ \A i \in KeyedIn(d) : i \in 1 .. Len(d) /\ a[i] = d[i]
    BY <1>1, <1>3 DEF KeyedIn
<1>5. LastKeyed(L, a)
    BY <1>1, <1>4 DEF LastKeyed
<1>6. /\ Own(r, q, d) /\ OneBody(d) /\ SameKey(d) /\ FirstKey(q, d)
    BY DEF Sent
<1>7. ASSUME Made(r, L, e.key) \/ (usable(q.in.idem) /\ e.key = q.in.idem) PROVE Own(r, q, a)
    BY <1>7, <1>4, <1>6, <1>1 DEF Own
<1>8. ASSUME \A i \in KeyedIn(d) : d[i].key = e.key => d[i].body = body PROVE OneBody(a)
    BY <1>8, <1>4, <1>6, <1>1 DEF OneBody
<1>9. ASSUME \A i \in KeyedIn(d) : LastKeyed(i, d) /\ d[i].body = body => d[i].key = e.key PROVE SameKey(a)
  <2> SUFFICES ASSUME NEW i \in KeyedIn(a), NEW j \in KeyedIn(a),
                      i < j, (i + 1 .. j - 1) \cap KeyedIn(a) = {}, a[i].body = a[j].body
               PROVE  a[i].key = a[j].key
    BY DEF SameKey
  <2>1. i \in KeyedIn(d)
    BY <1>1, <1>4
  <2>2. CASE j = L
    <3>1. LastKeyed(i, d)
        BY <2>1, <2>2, <1>1, <1>4 DEF LastKeyed
    <3> QED
        BY <3>1, <1>9, <2>1, <2>2, <1>1, <1>4
  <2>3. CASE j \in KeyedIn(d)
    <3>1. (i + 1 .. j - 1) \cap KeyedIn(d) = {}
        BY <1>4
    <3> QED
        BY <3>1, <2>1, <2>3, <1>4, <1>6 DEF SameKey
  <2> QED
    BY <2>2, <2>3, <1>4
<1>10. ASSUME usable(q.in.idem) /\ KeyedIn(d) = {} => e.key = q.in.idem PROVE FirstKey(q, a)
  <2> SUFFICES ASSUME NEW i \in KeyedIn(a), usable(q.in.idem), (1 .. i - 1) \cap KeyedIn(a) = {}
               PROVE  a[i].key = q.in.idem
    BY DEF FirstKey
  <2>1. CASE i = L
    <3>1. ASSUME NEW x \in KeyedIn(d) PROVE FALSE
      <4>1. x \in 1 .. i - 1
        BY <2>1, <1>1, <1>4
      <4> QED
        BY <4>1, <1>4
    <3> QED
        BY <3>1, <2>1, <1>1, <1>10
  <2>2. CASE i \in KeyedIn(d)
    <3>1. (1 .. i - 1) \cap KeyedIn(d) = {}
        BY <1>4
    <3> QED
        BY <3>1, <2>2, <1>4, <1>6 DEF FirstKey
  <2> QED
    BY <2>1, <2>2, <1>4
<1>11. \/ KeyedIn(d) = {} /\ h.key = q.in.idem /\ h.bound = NoBody
       \/ \E i \in DOMAIN d : LastKeyed(i, d) /\ h.key = d[i].key /\ h.bound = d[i].body
    BY DEF Carried
<1>12. ASSUME NEW i \in DOMAIN d, NEW j \in DOMAIN d, LastKeyed(i, d), LastKeyed(j, d) PROVE i = j
    BY <1>12, <1>1 DEF LastKeyed
<1>13. CASE KeyedIn(d) = {} /\ h.key = q.in.idem /\ h.bound = NoBody
  <2>1. usable(q.in.idem) => e.key = q.in.idem
    BY <1>2, <1>13 DEF reuse
  <2>2. ~usable(q.in.idem) => Made(r, L, e.key)
    BY <1>1, <1>2, <1>13 DEF reuse, Made
  <2> QED
    BY <2>1, <2>2, <1>13, <1>7, <1>8, <1>9, <1>10, <1>1, <1>5 DEF Sent, a
<1>14. CASE \E i \in DOMAIN d : LastKeyed(i, d) /\ h.key = d[i].key /\ h.bound = d[i].body
  <2>1. PICK i \in DOMAIN d : LastKeyed(i, d) /\ h.key = d[i].key /\ h.bound = d[i].body
    BY <1>14
  <2>2. i \in KeyedIn(d) /\ usable(h.key) /\ h.bound # NoBody
    BY <2>1, <1>6, SentUsable DEF LastKeyed, Own
  <2>3. CASE reuse
    <3>1. e.key = d[i].key /\ d[i].body = body
        BY <2>1, <2>2, <2>3, <1>2 DEF reuse
    <3>2. Made(r, L, e.key) \/ (usable(q.in.idem) /\ e.key = q.in.idem)
        BY <3>1, <2>2, <1>1, <1>6 DEF Own, Made
    <3>3. \A j \in KeyedIn(d) : d[j].key = e.key => d[j].body = body
        BY <3>1, <2>2, <1>6 DEF OneBody
    <3>4. \A j \in KeyedIn(d) : LastKeyed(j, d) /\ d[j].body = body => d[j].key = e.key
        BY <3>1, <2>1, <1>12 DEF KeyedIn
    <3> QED
        BY <3>2, <3>3, <3>4, <2>2, <1>7, <1>8, <1>9, <1>10, <1>1, <1>5 DEF Sent, a
  <2>4. CASE ~reuse
    <3>1. e.key = <<"nenya", r, Len(d)>> /\ d[i].body # body
        BY <2>1, <2>2, <2>4, <1>2 DEF reuse
    <3>2. Made(r, L, e.key)
        BY <3>1, <1>1 DEF Made
    <3>3. ASSUME NEW j \in KeyedIn(d) PROVE d[j].key # e.key
      <4>1. CASE d[j].key = q.in.idem
        <5>1. q.in.idem # <<"nenya", r, Len(d)>>
            BY MadeHere
        <5> QED
            BY <5>1, <4>1, <3>1, Zenon
      <4>2. CASE Made(r, j, d[j].key)
        BY <4>2, <3>1, <1>1, <1>4, MadeHere DEF Made
      <4> QED
        BY <4>1, <4>2, <1>6 DEF Own
    <3>4. \A j \in KeyedIn(d) : LastKeyed(j, d) => d[j].body # body
        BY <3>1, <2>1, <1>12 DEF KeyedIn
    <3> QED
        BY <3>2, <3>3, <3>4, <2>2, <1>7, <1>8, <1>9, <1>10, <1>1, <1>5 DEF Sent, a
  <2> QED
    BY <2>3, <2>4
<1> QED
    BY <1>11, <1>13, <1>14

(* The records the handlers build.                                         *)
LEMMA NoRequestFields ==
    /\ DOMAIN NoRequest = RequestFields /\ DOMAIN NoRequest.header = {"key", "bound"} /\ NoRequest.pc = "idle"
    /\ LET n == [NoRequest EXCEPT !.pc = "refused"]
       IN  DOMAIN n = RequestFields /\ DOMAIN n.header = {"key", "bound"} /\ n.pc = "refused"
BY DEF NoRequest, RequestFields

(* What is left of a request that is over.                                *)
LEMMA OverFields ==
    ASSUME NEW q
    PROVE  /\ DOMAIN Over(q) = RequestFields /\ DOMAIN Over(q).header = {"key", "bound"}
           /\ Over(q).pc = "done" /\ Over(q).in = q.in
BY DEF Over, NoRequest, RequestFields

(* Before anything is sent, the client's key is all there is to carry.     *)
LEMMA NothingSent ==
    ASSUME NEW r, NEW n, DOMAIN n = RequestFields, DOMAIN n.header = {"key", "bound"},
           \/ n.pc \in {"idle", "refused", "done"}
           \/ n.pc \in {"entered", "known"} /\ n.in \in Inputs /\ n.header.key = n.in.idem
           \/ n.pc = "sweep" /\ n.in \in Inputs /\ n.header.key = n.in.idem /\ n.header.bound = NoBody
    PROVE  Bound(r, n, <<>>)
<1>1. KeyedIn(<<>>) = {}
    BY DEF KeyedIn
<1>2. IsSeq(<<>>)
  <2>1. <<>> \in Seq({})
    OBVIOUS
  <2> QED
    BY <2>1 DEF IsSeq
<1>3. Sent(r, n, <<>>)
    BY <1>1 DEF Sent, Own, OneBody, SameKey, FirstKey
<1>4. Silent(n, <<>>) /\ Known(n, <<>>) /\ Carried(n, <<>>)
    BY <1>1 DEF Silent, Known, Carried, InSweep
<1> QED
    BY <1>2, <1>3, <1>4 DEF Bound, Shaped

(* A step of the sweep that sends nothing keeps input and header.          *)
LEMMA Moved ==
    ASSUME NEW r, NEW q, NEW d, Bound(r, q, d), NEW n, DOMAIN n = RequestFields, DOMAIN n.header = {"key", "bound"},
           n.in = q.in,
           n.pc = "done" \/ (q.pc \in InSweep /\ n.pc \in InSweep /\ n.header = q.header /\ ~reserves(n))
    PROVE  Bound(r, n, d)
<1>1. Sent(r, n, d)
    BY DEF Bound, Sent, Own, FirstKey
<1>2. Shaped(n, d) /\ Silent(n, d)
    BY DEF Bound, Shaped, Silent, InSweep
<1>3. Known(n, d)
    BY DEF Bound, Known, InSweep
<1>4. Carried(n, d)
    BY DEF Bound, Carried, InSweep
<1> QED
    BY <1>1, <1>2, <1>3, <1>4 DEF Bound

(* Only a request before its first dispatch can still reserve.             *)
LEMMA Latched ==
    ASSUME NEW r, NEW q, NEW d, Bound(r, q, d), q.pc \in {"guards", "waiting"}
    PROVE  ~reserves(q)
BY DEF Bound, Silent

(* What Onward keeps of a request.                                        *)
LEMMA OnwardFields ==
    ASSUME NEW q, DOMAIN q = RequestFields, DOMAIN q.header = {"key", "bound"}
    PROVE  /\ DOMAIN Onward(q) = RequestFields /\ DOMAIN Onward(q).header = {"key", "bound"} /\ Onward(q).in = q.in
           /\ \/ Onward(q).pc = "done"
              \/ Onward(q).pc = "sweep" /\ Onward(q).header = q.header /\ Onward(q).latched = q.latched
<1>1. CASE q.resumed \/ q.idx = Len(q.targets)
    BY <1>1, OverFields DEF Onward
<1>2. CASE ~(q.resumed \/ q.idx = Len(q.targets))
  <2>1. Onward(q) = [q EXCEPT !.idx = @ + 1, !.pc = "sweep"]
    BY <1>2 DEF Onward
  <2> QED
    BY <2>1, Zenon DEF RequestFields
<1> QED
    BY <1>1, <1>2

(* Past a target: Onward is such a step.                                   *)
LEMMA OnwardBound ==
    ASSUME NEW r, NEW q, NEW d, Bound(r, q, d), q.pc \in {"guards", "waiting"}
    PROVE  Bound(r, Onward(q), d)
<1>1. DOMAIN q = RequestFields /\ DOMAIN q.header = {"key", "bound"}
    BY DEF Bound, Shaped
<1>2. Onward(q).pc = "sweep" => ~reserves(Onward(q))
    BY <1>1, OnwardFields, Latched DEF reserves
<1> QED
    BY <1>1, <1>2, OnwardFields, Moved DEF InSweep

(* A request may end wherever it is.                                       *)
LEMMA OverBound ==
    ASSUME NEW r, NEW q, NEW d, Bound(r, q, d)
    PROVE  Bound(r, Over(q), d)
BY OverFields, Moved

(* A step that changes one request and sends nothing.                      *)
LEMMA OneRequest ==
    ASSUME KeysBound, NEW r \in Requests, NEW n, Set(r, n), sent' = sent, Bound(r, n, sent[r])
    PROVE  KeysBound'
BY DEF KeysBound, Set

(* A request that has sent nothing may be refused.                         *)
LEMMA RefusedBound ==
    ASSUME KeysBound, NEW r \in Requests, Refuse(r), sent' = sent, sent[r] = <<>>
    PROVE  KeysBound'
<1> DEFINE n == [NoRequest EXCEPT !.pc = "refused"]
<1>1. Bound(r, n, <<>>)
    BY NoRequestFields, NothingSent
<1>2. Set(r, n)
    BY DEF Refuse
<1> HIDE DEF n
<1> QED
    BY <1>1, <1>2, OneRequest

-----------------------------------------------------------------------------
(* ServeHTTP.                                                              *)
LEMMA EnterBound ==
    ASSUME KeysBound, NEW r \in Requests, NEW in \in Inputs, NEW m, Enter(r, in, m)
    PROVE  KeysBound'
<1>1. sent[r] = <<>> /\ sent' = sent
    BY DEF Enter, KeysBound, Bound, Silent
<1> DEFINE n == [NoRequest EXCEPT !.gen = current, !.in = in, !.header.key = in.idem, !.pc = "entered"]
<1>2. CASE Set(r, n)
  <2>1. /\ DOMAIN n = RequestFields /\ DOMAIN n.header = {"key", "bound"}
        /\ n.pc = "entered" /\ n.in = in /\ n.header.key = in.idem
    BY DEF NoRequest, RequestFields
  <2> HIDE DEF n
  <2>2. Bound(r, n, <<>>)
    BY <2>1, NothingSent
  <2> QED
    BY <2>2, <1>1, <1>2, OneRequest
<1>3. CASE Refuse(r)
    BY <1>1, <1>3, RefusedBound
<1> QED
    BY <1>2, <1>3 DEF Enter

(* authenticateAndAuthorize.                                               *)
LEMMA AuthenticateBound ==
    ASSUME KeysBound, NEW r \in Requests, NEW readable, Authenticate(r, readable)
    PROVE  KeysBound'
<1>1. Bound(r, req[r], sent[r]) /\ req[r].pc = "entered"
    BY DEF Authenticate, KeysBound
<1>2. sent[r] = <<>> /\ sent' = sent /\ req[r].in \in Inputs /\ req[r].header.key = req[r].in.idem
    BY <1>1 DEF Authenticate, Bound, Silent, Known, Carried
<1>3. \/ Refuse(r)
      \/ \E k : \/ Set(r, Over([req[r] EXCEPT !.key = k]))
                \/ Set(r, [req[r] EXCEPT !.key = k, !.pc = "known"])
    BY DEF Authenticate
<1>4. CASE Refuse(r)
    BY <1>2, <1>4, RefusedBound
<1>5. ASSUME NEW k, Set(r, Over([req[r] EXCEPT !.key = k])) PROVE KeysBound'
    BY <1>2, <1>5, OverFields, NothingSent, OneRequest
<1>6. ASSUME NEW k, Set(r, [req[r] EXCEPT !.key = k, !.pc = "known"]) PROVE KeysBound'
  <2> DEFINE n == [req[r] EXCEPT !.key = k, !.pc = "known"]
  <2>1. DOMAIN n = RequestFields /\ n.header = req[r].header /\ n.pc = "known" /\ n.in = req[r].in
    BY <1>1, Zenon DEF Bound, Shaped, RequestFields
  <2> HIDE DEF n
  <2>2. Bound(r, n, <<>>)
    BY <2>1, <1>1, <1>2, NothingSent DEF Bound, Shaped
  <2> QED
    BY <2>2, <1>2, <1>6, OneRequest DEF n
<1> QED
    BY <1>3, <1>4, <1>5, <1>6

(* validateChatRequest: the sweep starts with the client's key unbound.    *)
LEMMA ValidateBound ==
    ASSUME KeysBound, NEW r \in Requests, NEW cached, NEW refused, Validate(r, cached, refused)
    PROVE  KeysBound'
<1>1. Bound(r, req[r], sent[r]) /\ req[r].pc = "known"
    BY DEF Validate, KeysBound
<1>2. sent[r] = <<>> /\ sent' = sent /\ req[r].in \in Inputs /\ req[r].header.key = req[r].in.idem
    BY <1>1 DEF Validate, Bound, Silent, Known, Carried
<1>3. \/ Refuse(r) \/ Set(r, Over(req[r]))
      \/ \E t, b : Set(r, [req[r] EXCEPT !.targets = t, !.byok = b, !.header.bound = NoBody, !.pc = "sweep"])
    BY DEF Validate
<1>4. CASE Refuse(r)
    BY <1>2, <1>4, RefusedBound
<1>5. CASE Set(r, Over(req[r]))
    BY <1>1, <1>2, <1>5, OverBound, OneRequest
<1>6. ASSUME NEW t, NEW b, Set(r, [req[r] EXCEPT !.targets = t, !.byok = b, !.header.bound = NoBody, !.pc = "sweep"])
      PROVE  KeysBound'
  <2> DEFINE h == [req[r].header EXCEPT !.bound = NoBody]
  <2> DEFINE n == [req[r] EXCEPT !.targets = t, !.byok = b, !.header.bound = NoBody, !.pc = "sweep"]
  <2>1. DOMAIN h = {"key", "bound"} /\ h.key = req[r].header.key /\ h.bound = NoBody
    BY <1>1 DEF Bound, Shaped
  <2>2. n = [req[r] EXCEPT !.targets = t, !.byok = b, !.header = h, !.pc = "sweep"]
    BY <1>1, Zenon DEF Bound, Shaped, RequestFields
  <2> HIDE DEF h, n
  <2>3. DOMAIN n = RequestFields /\ n.header = h /\ n.pc = "sweep" /\ n.in = req[r].in
    BY <2>2, <1>1 DEF Bound, Shaped, RequestFields
  <2>4. Bound(r, n, <<>>)
    BY <2>1, <2>3, <1>2, NothingSent
  <2> QED
    BY <2>4, <1>2, <1>6, OneRequest DEF n
<1> QED
    BY <1>3, <1>4, <1>5, <1>6

(* enforceBudgets refuses only what has sent nothing, and latches.         *)
LEMMA ReserveBound ==
    ASSUME KeysBound, NEW r \in Requests, Reserve(r)
    PROVE  KeysBound'
<1> DEFINE q == req[r]
<1> DEFINE l == q.latched \/ reserves(q)
<1>1. Bound(r, q, sent[r]) /\ q.pc = "sweep" /\ sent' = sent /\ DOMAIN q = RequestFields
    BY DEF Reserve, KeysBound, Bound, Shaped
<1>2. \/ Refuse(r) /\ reserves(q)
      \/ Set(r, [q EXCEPT !.latched = l, !.pc = "guards"])
      \/ \E day : Set(r, [[q EXCEPT !.latched = l, !.pc = "guards"] EXCEPT !.reserved = day])
    BY DEF Reserve
<1>3. CASE Refuse(r) /\ reserves(q)
  <2>1. sent[r] = <<>>
    BY <1>1, <1>3 DEF Bound, Silent
  <2> QED
    BY <2>1, <1>1, <1>3, RefusedBound
<1>4. ASSUME NEW n, DOMAIN n = RequestFields, n.header = q.header, n.in = q.in, n.pc = "guards", n.latched = l, Set(r, n)
      PROVE  KeysBound'
  <2>1. ~reserves(n)
    BY <1>4 DEF reserves
  <2> QED
    BY <2>1, <1>1, <1>4, Moved, OneRequest DEF InSweep, Bound, Shaped
<1> DEFINE p == [q EXCEPT !.latched = l, !.pc = "guards"]
<1>5. DOMAIN p = RequestFields /\ p.header = q.header /\ p.in = q.in /\ p.pc = "guards" /\ p.latched = l
    BY <1>1, Zenon DEF RequestFields
<1>6. ASSUME NEW day, Set(r, [p EXCEPT !.reserved = day]) PROVE KeysBound'
  <2> HIDE DEF p
  <2> DEFINE n == [p EXCEPT !.reserved = day]
  <2>1. DOMAIN n = RequestFields /\ n.header = q.header /\ n.in = q.in /\ n.pc = "guards" /\ n.latched = l
    BY <1>5, Zenon DEF RequestFields
  <2> QED
    BY <2>1, <1>4, <1>6
<1> QED
    BY <1>2, <1>3, <1>4, <1>5, <1>6

(* What follows a dispatch that was sent, or was not.                      *)
LEMMA AfterwardsBound ==
    ASSUME KeysBound, NEW r \in Requests,
           \/ Skipped(r) \/ Stopped(r) \/ Answered(r) \/ Failover(r)
    PROVE  KeysBound'
<1>1. Bound(r, req[r], sent[r]) /\ sent' = sent
    BY DEF KeysBound, Skipped, Stopped, Answered, Failover
<1>2. \/ Set(r, Over(req[r]))
      \/ req[r].pc \in {"guards", "waiting"} /\ Set(r, Onward(req[r]))
    BY DEF Skipped, Stopped, Answered, Failover
<1>3. CASE Set(r, Over(req[r]))
    BY <1>1, <1>3, OverBound, OneRequest
<1>4. CASE req[r].pc \in {"guards", "waiting"} /\ Set(r, Onward(req[r]))
    BY <1>1, <1>4, OnwardBound, OneRequest
<1> QED
    BY <1>2, <1>3, <1>4

(* Another attempt with the same, a corrected, a continued or a longer     *)
(* body: the header goes with it.                                          *)
LEMMA AgainBound ==
    ASSUME KeysBound, NEW r \in Requests, SameTarget(r) \/ Corrected(r) \/ Continued(r) \/ NextTurn(r)
    PROVE  KeysBound'
<1> DEFINE q == req[r]
<1>1. Bound(r, q, sent[r]) /\ sent' = sent /\ q.pc = "waiting" /\ DOMAIN q = RequestFields
    BY DEF KeysBound, SameTarget, Corrected, Continued, NextTurn, Bound, Shaped
<1>2. ASSUME NEW n, Set(r, n), DOMAIN n = RequestFields, n.header = q.header, n.in = q.in, n.latched = q.latched,
             n.pc \in InSweep
      PROVE  KeysBound'
  <2>1. ~reserves(n)
    BY <1>1, <1>2, Latched DEF reserves
  <2> QED
    BY <2>1, <1>1, <1>2, Moved, OneRequest DEF InSweep, Bound, Shaped
<1>3. CASE SameTarget(r)
  <2> DEFINE n == [q EXCEPT !.pc = "sweep"]
  <2>1. DOMAIN n = RequestFields /\ n.header = q.header /\ n.in = q.in /\ n.latched = q.latched /\ n.pc \in InSweep
    BY <1>1, Zenon DEF RequestFields, InSweep
  <2>2. Set(r, n)
    BY <1>3 DEF SameTarget, Goto
  <2> HIDE DEF n
  <2> QED
    BY <2>1, <2>2, <1>2
<1>4. CASE Corrected(r)
  <2> DEFINE x == IF q.idx = Len(q.targets) THEN q.idx ELSE q.idx + 1
  <2> DEFINE n == [q EXCEPT !.variant = @ + 1, !.idx = x, !.pc = "sweep"]
  <2>1. Set(r, n)
    BY <1>4, Zenon DEF Corrected
  <2>2. DOMAIN n = RequestFields /\ n.header = q.header /\ n.in = q.in /\ n.latched = q.latched /\ n.pc \in InSweep
    BY <1>1, Zenon DEF RequestFields, InSweep
  <2> HIDE DEF n
  <2> QED
    BY <2>1, <2>2, <1>2
<1>5. CASE Continued(r)
  <2> DEFINE n == [q EXCEPT !.variant = @ + 1, !.resumed = TRUE, !.pc = "guards"]
  <2>1. Set(r, n)
    BY <1>5 DEF Continued
  <2>2. DOMAIN n = RequestFields /\ n.header = q.header /\ n.in = q.in /\ n.latched = q.latched /\ n.pc \in InSweep
    BY <1>1, Zenon DEF RequestFields, InSweep
  <2> HIDE DEF n
  <2> QED
    BY <2>1, <2>2, <1>2
<1>6. CASE NextTurn(r)
  <2> DEFINE n == [q EXCEPT !.turn = @ + 1, !.idx = 1, !.pc = "sweep"]
  <2>1. Set(r, n)
    BY <1>6 DEF NextTurn
  <2>2. DOMAIN n = RequestFields /\ n.header = q.header /\ n.in = q.in /\ n.latched = q.latched /\ n.pc \in InSweep
    BY <1>1, Zenon DEF RequestFields, InSweep
  <2> HIDE DEF n
  <2> QED
    BY <2>1, <2>2, <1>2
<1> QED
    BY <1>3, <1>4, <1>5, <1>6

(* A step that changes one request and what it has sent.                   *)
LEMMA OneDispatch ==
    ASSUME KeysBound, NEW r \in Requests, NEW n, NEW d, Set(r, n), sent' = [sent EXCEPT ![r] = d], Bound(r, n, d)
    PROVE  KeysBound'
BY DEF KeysBound, Set

(* A dispatch that goes out without a key, or does not go out: the header  *)
(* stays for the next one.                                                 *)
LEMMA UnkeyedDispatch ==
    ASSUME NEW r, NEW q, NEW d, Bound(r, q, d), q.pc = "guards", NEW e, e.key = NoKey, NEW n,
           n = Over(q) \/ n = Onward(q) \/ (DOMAIN n = RequestFields /\ n.pc = "waiting" /\ n.header = q.header
                                            /\ n.in = q.in /\ n.latched = q.latched)
    PROVE  Bound(r, n, Append(d, e))
<1> DEFINE a == Append(d, e)
<1>1. Shaped(q, d) /\ IsSeq(a) /\ Len(a) = Len(d) + 1 /\ Len(d) \in Nat
    BY Appended DEF Bound, Shaped
<1>2. KeyedIn(a) = KeyedIn(d) /\ Sent(r, q, a)
    BY UnkeyedSent DEF Bound, Shaped
<1>3. \A i \in DOMAIN d : LastKeyed(i, d) => i \in DOMAIN a /\ a[i] = d[i] /\ LastKeyed(i, a)
    BY UnkeyedSent DEF Bound, Shaped
<1> HIDE DEF a
<1>4. ~reserves(q) /\ q.in \in Inputs
    BY Latched DEF Bound, Known, InSweep
<1>5. Carried(q, a)
    BY <1>2, <1>3 DEF Bound, Carried, InSweep
<1>6. Bound(r, q, a)
    BY <1>1, <1>2, <1>4, <1>5 DEF Bound, Shaped, Silent, Known
<1>7. CASE n = Over(q)
    BY <1>6, <1>7, OverBound DEF a
<1>8. CASE n = Onward(q)
    BY <1>6, <1>8, OnwardBound DEF a
<1>9. CASE DOMAIN n = RequestFields /\ n.pc = "waiting" /\ n.header = q.header /\ n.in = q.in /\ n.latched = q.latched
  <2>1. ~reserves(n)
    BY <1>4, <1>9 DEF reserves
  <2> QED
    BY <2>1, <1>1, <1>6, <1>9, Moved DEF InSweep, Shaped, a
<1> QED
    BY <1>7, <1>8, <1>9

(* A dispatch that goes out with a key binds it to its body.               *)
LEMMA KeyedDispatch ==
    ASSUME NEW r, NEW q, NEW d, d = sent[r], Bound(r, q, d), q.pc = "guards",
           NEW body, body # NoBody, NEW e, e.body = body, NEW n,
           e.key = idempotencyKeyForBody(r, q.header, body).key,
           DOMAIN n = RequestFields, n.pc = "waiting", n.header = idempotencyKeyForBody(r, q.header, body),
           n.in = q.in, n.latched = q.latched
    PROVE  Bound(r, n, Append(d, e))
<1> DEFINE a == Append(d, e)
<1> DEFINE L == Len(d) + 1
<1>1. IsSeq(a) /\ Len(d) \in Nat
    BY Appended DEF Bound, Shaped
<1>2. ~reserves(q) /\ q.in \in Inputs
    BY Latched DEF Bound, Known, InSweep
<1>3. Sent(r, q, a) /\ L \in DOMAIN a /\ a[L] = e /\ LastKeyed(L, a)
    BY <1>2, KeyedSent DEF Bound, Shaped, InSweep
<1>4. DOMAIN n.header = {"key", "bound"} /\ n.header.bound = body /\ n.header.key = e.key
    BY KeyForBody
<1> HIDE DEF a, L
<1>5. Carried(n, a)
    BY <1>3, <1>4 DEF Carried, InSweep
<1>6. Sent(r, n, a)
    BY <1>3 DEF Sent, Own, FirstKey
<1>7. Shaped(n, a) /\ Silent(n, a) /\ Known(n, a)
  <2>1. ~reserves(n)
    BY <1>2 DEF reserves
  <2> QED
    BY <2>1, <1>1, <1>2, <1>4 DEF Shaped, Silent, Known
<1> QED
    BY <1>5, <1>6, <1>7 DEF Bound, a

(* prepareAndSend.                                                         *)
LEMMA DispatchBound ==
    ASSUME KeysBound, NEW r \in Requests, NEW outcome \in {"sent", "unbuilt", "gone"}, Dispatch(r, outcome)
    PROVE  KeysBound'
<1> DEFINE q == req[r]
<1> DEFINE p == q.targets[q.idx]
<1> DEFINE gate == providerBudgetGate(q)
<1> DEFINE body == <<p, q.turn, q.variant>>
<1> DEFINE keyed == injectIdempotencyKey(r, p, q.header, body)
<1> DEFINE built == outcome = "sent"
<1> DEFINE e == [provider |-> p, body |-> IF built THEN body ELSE NoBody, day |-> Day(now), charged |-> gate.charged,
                 key |-> IF built /\ Providers[p].idempotencyHeader THEN keyed.key ELSE NoKey]
<1> DEFINE n == [q EXCEPT !.header = keyed, !.pc = "waiting"]
<1>1. Bound(r, q, sent[r]) /\ q.pc = "guards" /\ DOMAIN q = RequestFields
    BY DEF Dispatch, KeysBound, Bound, Shaped
<1>2. \/ Set(r, Onward(q)) /\ sent' = sent
      \/ /\ sent' = [sent EXCEPT ![r] = Append(sent[r], e)]
         /\ Set(r, CASE outcome = "sent" -> n [] outcome = "unbuilt" -> Onward(q) [] outcome = "gone" -> Over(q))
    BY DEF Dispatch
<1>3. CASE Set(r, Onward(q)) /\ sent' = sent
    BY <1>1, <1>3, OnwardBound, OneRequest
<1>4. CASE /\ sent' = [sent EXCEPT ![r] = Append(sent[r], e)]
           /\ Set(r, CASE outcome = "sent" -> n [] outcome = "unbuilt" -> Onward(q) [] outcome = "gone" -> Over(q))
  <2>1. e.body = (IF built THEN body ELSE NoBody)
        /\ e.key = (IF built /\ Providers[p].idempotencyHeader THEN keyed.key ELSE NoKey)
    OBVIOUS
  <2>2. DOMAIN n = RequestFields /\ n.pc = "waiting" /\ n.header = keyed /\ n.in = q.in /\ n.latched = q.latched
    BY <1>1, Zenon DEF RequestFields
  <2>3. body # NoBody
    <3>1. Len(body) = 3 /\ Len(NoBody) = 1
        BY DEF NoBody
    <3> QED
        BY <3>1
  <2>4. keyed = IF Providers[p].idempotencyHeader THEN idempotencyKeyForBody(r, q.header, body) ELSE q.header
    BY DEF injectIdempotencyKey
  <2> HIDE DEF e, n, keyed, body, p, gate
  <2>5. ASSUME NEW m, Set(r, m), Bound(r, m, Append(sent[r], e)) PROVE KeysBound'
    BY <2>5, <1>4, OneDispatch
  <2>6. CASE outcome = "sent" /\ Providers[p].idempotencyHeader
    <3>1. Set(r, n)
        BY <1>4, <2>6
    <3>2. Bound(r, n, Append(sent[r], e))
        BY <1>1, <2>1, <2>2, <2>3, <2>4, <2>6, KeyedDispatch
    <3> QED
        BY <3>1, <3>2, <2>5
  <2>7. CASE outcome = "sent" /\ ~Providers[p].idempotencyHeader
    <3>1. Set(r, n)
        BY <1>4, <2>7
    <3>2. e.key = NoKey /\ n.header = q.header
        BY <2>1, <2>2, <2>4, <2>7
    <3>3. Bound(r, n, Append(sent[r], e))
        BY <1>1, <2>2, <3>2, UnkeyedDispatch
    <3> QED
        BY <3>1, <3>3, <2>5
  <2>8. CASE outcome = "unbuilt"
    <3>1. Set(r, Onward(q)) /\ e.key = NoKey
        BY <1>4, <2>1, <2>8
    <3> QED
        BY <3>1, <1>1, <2>5, UnkeyedDispatch
  <2>9. CASE outcome = "gone"
    <3>1. Set(r, Over(q)) /\ e.key = NoKey
        BY <1>4, <2>1, <2>9
    <3> QED
        BY <3>1, <1>1, <2>5, UnkeyedDispatch
  <2> QED
    BY <2>6, <2>7, <2>8, <2>9
<1> QED
    BY <1>2, <1>3, <1>4

(* Initially nothing is sent.                                              *)
LEMMA KeysInit == DInit => KeysBound
<1> SUFFICES ASSUME DInit PROVE KeysBound
    OBVIOUS
<1>1. DOMAIN req = Requests /\ DOMAIN sent = Requests /\ \A r \in Requests : req[r] = NoRequest /\ sent[r] = <<>>
    BY DEF DInit
<1>2. \A r \in Requests : Bound(r, NoRequest, <<>>)
    BY NoRequestFields, NothingSent
<1> QED
    BY <1>1, <1>2 DEF KeysBound

(* Every step of the admission keeps keys and bodies together.             *)
LEMMA KeysKept == KeysBound /\ [DNext]_dvars => KeysBound'
<1> SUFFICES ASSUME KeysBound, [DNext]_dvars PROVE KeysBound'
    OBVIOUS
<1>1. ASSUME NEW r \in Requests, NEW in \in Inputs, NEW m, Enter(r, in, m) PROVE KeysBound'
    BY <1>1, EnterBound
<1>2. ASSUME NEW r \in Requests, NEW readable \in BOOLEAN, Authenticate(r, readable) PROVE KeysBound'
    BY <1>2, AuthenticateBound
<1>3. ASSUME NEW r \in Requests, Reserve(r) \/ Skipped(r) \/ Stopped(r) PROVE KeysBound'
    BY <1>3, ReserveBound, AfterwardsBound
<1>4. ASSUME NEW r \in Requests, NEW c \in BOOLEAN, NEW f \in BOOLEAN, Validate(r, c, f) PROVE KeysBound'
    BY <1>4, ValidateBound
<1>5. ASSUME NEW r \in Requests, NEW o \in {"sent", "unbuilt", "gone"}, Dispatch(r, o) PROVE KeysBound'
    BY <1>5, DispatchBound
<1>6. ASSUME NEW r \in Requests,
             Answered(r) \/ Failover(r) \/ SameTarget(r) \/ Corrected(r) \/ Continued(r) \/ NextTurn(r)
      PROVE  KeysBound'
    BY <1>6, AfterwardsBound, AgainBound
<1>7. CASE Tick \/ Reload \/ UNCHANGED dvars
    BY <1>7 DEF Tick, Reload, dvars, KeysBound
<1> QED
    BY <1>1, <1>2, <1>3, <1>4, <1>5, <1>6, <1>7 DEF DNext

(* idempotency.go: for any requests, chains, keys and providers, whatever  *)
(* sweeps, corrections, continuations, tool turns and reloads do: an       *)
(* idempotency key goes with one body, a body repeated at once with its    *)
(* key, the client's key with the first body, and a key made here with one *)
(* request.                                                                *)
THEOREM KeysFollowBodies == DSpec => []OneKeyOneBody
<1>1. DSpec => []KeysBound
    BY KeysInit, KeysKept, PTL DEF DSpec
<1>2. ASSUME KeysBound PROVE OneKeyOneBody
  <2>1. \A r \in Requests : Keyed(r) = KeyedIn(sent[r])
    BY DEF Keyed, KeyedIn
  <2>2. ASSUME NEW r \in Requests PROVE OneBody(sent[r]) /\ SameKey(sent[r]) /\ FirstKey(req[r], sent[r])
    BY <1>2 DEF KeysBound, Bound, Sent
  <2>3. ASSUME NEW r \in Requests, NEW s \in Requests \ {r}, NEW i \in KeyedIn(sent[r]), NEW j \in DOMAIN sent[s],
               sent[r][i].key = sent[s][j].key
        PROVE  sent[r][i].key = req[r].in.idem
    <3>1. Own(r, req[r], sent[r]) /\ Own(s, req[s], sent[s]) /\ Known(req[s], sent[s])
        BY <1>2 DEF KeysBound, Bound, Sent
    <3>2. j \in KeyedIn(sent[s]) /\ sent[s] # <<>>
        BY <2>3 DEF KeyedIn
    <3>3. CASE Made(r, i, sent[r][i].key)
      <4>1. PICK n : sent[r][i].key = <<"nenya", r, n>>
        BY <3>3 DEF Made
      <4>2. sent[s][j].key # req[s].in.idem
        <5>1. req[s].in \in Inputs
            BY <3>1, <3>2 DEF Known
        <5>2. req[s].in.idem # <<"nenya", r, n>>
            BY <5>1, MadeHere
        <5> QED
            BY <5>2, <4>1, <2>3, Zenon
      <4>3. Made(s, j, sent[s][j].key)
        BY <4>2, <3>1, <3>2 DEF Own
      <4>4. PICK m : sent[s][j].key = <<"nenya", s, m>>
        BY <4>3 DEF Made
      <4>5. <<"nenya", r, n>> = <<"nenya", s, m>>
        BY <4>1, <4>4, <2>3, Zenon
      <4>6. r = s
        BY <4>5, MadeHere
      <4> QED
        BY <4>6
    <3> QED
        BY <3>1, <3>3 DEF Own
  <2> QED
    BY <2>1, <2>2, <2>3 DEF OneKeyOneBody, OneBody, SameKey, FirstKey
<1> QED
    BY <1>1, <1>2, PTL

-----------------------------------------------------------------------------
(* Admission's budgets.  The inductive invariant keeps the books: the      *)
(* bookings of a use's day, counted in units of a token each, add up to    *)
(* its total, none is of a later day, and the newest one fitted.  That the *)
(* reservation is latched before anything is sent (Silent) is what makes   *)
(* it one per request.                                                     *)

(* Bookings and a day total: the bookings of the day add up to it, and     *)
(* none is of a later day.                                                 *)
DayLedger(B, u, today) ==
    /\ u.day \in Int /\ u.day <= today /\ u.tokens \in Nat
    /\ \A b \in B : b.tokens \in Nat /\ b.day \in Int /\ b.day <= u.day
    /\ IsFiniteSet(Units(OfDay(B, u.day))) /\ u.tokens = Cardinality(Units(OfDay(B, u.day)))

(* What rollDay makes of a total.                                          *)
Carry(u, today) == IF u.day = today THEN u.tokens ELSE 0

(* An interval of token units has as many elements as tokens.              *)
LEMMA OneBooking ==
    ASSUME NEW b, NEW n \in Nat
    PROVE  IsFiniteSet({b} \X (1..n)) /\ Cardinality({b} \X (1..n)) = n
  <1> DEFINE f == [i \in 1..n |-> <<b, i>>]
  <1>1. IsFiniteSet(1..n) /\ Cardinality(1..n) = n
    BY FS_Interval
  <1>2. f \in [1..n -> {b} \X (1..n)]
    OBVIOUS
  <1>3. \A i, j \in 1..n : f[i] = f[j] => i = j
    OBVIOUS
  <1>4. \A x \in {b} \X (1..n) : \E i \in 1..n : f[i] = x
    OBVIOUS
  <1>5. f \in Bijection(1..n, {b} \X (1..n))
    BY <1>2, <1>3, <1>4 DEF Bijection, Injection, Surjection, IsInjective
  <1>6. ExistsBijection(1..n, {b} \X (1..n))
    BY <1>5 DEF ExistsBijection
  <1> QED
    BY <1>1, <1>6, FS_Bijection

(* No bookings, no units.                                                  *)
LEMMA NoUnits == Units({}) = {} /\ IsFiniteSet(Units({})) /\ Cardinality(Units({})) = 0
  <1>1. Units({}) = {}
    BY DEF Units
  <1> QED
    BY <1>1, FS_EmptySet

(* A new day starts at nothing: nothing is booked on it yet.               *)
LEMMA LedgerRolled ==
    ASSUME NEW B, NEW u, NEW today \in Int, DayLedger(B, u, today), NEW v, v.day = today, v.tokens = Carry(u, today)
    PROVE  DayLedger(B, v, today) /\ (u.day # today => OfDay(B, today) = {})
  <1>1. CASE u.day = today
    BY <1>1 DEF DayLedger, Carry
  <1>2. CASE u.day # today
    <2>1. OfDay(B, today) = {}
      BY <1>2 DEF DayLedger, OfDay
    <2>2. v.tokens = 0
      BY <1>2 DEF Carry
    <2>3. \A b \in B : b.tokens \in Nat /\ b.day \in Int /\ b.day <= v.day
      BY DEF DayLedger
    <2> QED
      BY <1>2, <2>1, <2>2, <2>3, NoUnits DEF DayLedger
  <1> QED
    BY <1>1, <1>2

(* A booking of today adds its tokens.                                     *)
LEMMA LedgerBooked ==
    ASSUME NEW B, NEW u, NEW today \in Int, DayLedger(B, u, today), NEW b, b \notin B, b.day = today, b.tokens \in Nat,
           NEW v, v.day = today, v.tokens = Carry(u, today) + b.tokens
    PROVE  DayLedger(B \cup {b}, v, today)
  <1> DEFINE w == [day |-> today, tokens |-> Carry(u, today)]
             old == Units(OfDay(B, today))
             new == {b} \X (1..b.tokens)
  <1>1. w.day = today /\ w.tokens = Carry(u, today)
    OBVIOUS
  <1>2. DayLedger(B, w, today)
    BY <1>1, LedgerRolled
  <1>3. IsFiniteSet(old) /\ Carry(u, today) = Cardinality(old) /\ Carry(u, today) \in Nat
    BY <1>1, <1>2 DEF DayLedger
  <1>4. \A c \in B : c.tokens \in Nat /\ c.day \in Int /\ c.day <= today
    BY <1>1, <1>2 DEF DayLedger
  <1>5. OfDay(B \cup {b}, today) = OfDay(B, today) \cup {b}
    BY DEF OfDay
  <1>6. Units(OfDay(B \cup {b}, today)) = old \cup new
    BY <1>5 DEF Units
  <1>7. old \cap new = {}
    <2> SUFFICES ASSUME NEW x \in old, x \in new PROVE FALSE
      OBVIOUS
    <2>1. PICK c \in OfDay(B, today) : x \in {c} \X (1..c.tokens)
      BY DEF Units
    <2>2. x[1] = c /\ x[1] = b
      BY <2>1
    <2> QED
      BY <2>1, <2>2 DEF OfDay
  <1>8. IsFiniteSet(new) /\ Cardinality(new) = b.tokens
    BY OneBooking
  <1> HIDE DEF old, new, w
  <1>9. IsFiniteSet(old \cup new) /\ Cardinality(old \cup new) = Cardinality(old) + Cardinality(new) - Cardinality(old \cap new)
    BY <1>3, <1>8, FS_Union
  <1>10. Cardinality(old \cap new) = 0
    BY <1>7, FS_EmptySet
  <1>11. Cardinality(old \cup new) = Carry(u, today) + b.tokens
    BY <1>3, <1>8, <1>9, <1>10
  <1> HIDE DEF Carry
  <1>12. \A c \in B \cup {b} : c.tokens \in Nat /\ c.day \in Int /\ c.day <= today
    BY <1>4
  <1>13. Units(OfDay(B \cup {b}, v.day)) = old \cup new
    BY <1>6
  <1>14. IsFiniteSet(Units(OfDay(B \cup {b}, v.day))) /\ v.tokens = Cardinality(Units(OfDay(B \cup {b}, v.day)))
    BY <1>9, <1>11, <1>13
  <1>15. v.day \in Int /\ v.day <= today /\ v.tokens \in Nat
    BY <1>3
  <1>16. \A c \in B \cup {b} : c.tokens \in Nat /\ c.day \in Int /\ c.day <= v.day
    BY <1>12
  <1> QED
    BY <1>14, <1>15, <1>16 DEF DayLedger

(* Midnight only makes today later.                                        *)
LEMMA LedgerLater ==
    ASSUME NEW B, NEW u, NEW today \in Int, NEW later \in Int, today <= later, DayLedger(B, u, today)
    PROVE  DayLedger(B, u, later)
  BY DEF DayLedger

(* Days follow minutes.                                                    *)
LEMMA DaysPass ==
    ASSUME NEW t \in Nat
    PROVE  Day(t) \in Int /\ Day(t + 1) \in Int /\ Day(t) <= Day(t + 1)
  <1> DEFINE d == DayLength
             a == t \div d
             b == (t + 1) \div d
  <1>1. d \in Nat /\ d > 0
    BY AdmissionAssumption
  <1>2. a \in Int /\ b \in Int
    BY <1>1
  <1>3. d * a <= t
    BY <1>1
  <1>4. t + 1 < d * b + d
    BY <1>1
  <1> HIDE DEF a, b, d
  <1>5. a <= b
    <2> SUFFICES ASSUME b < a PROVE FALSE
      BY <1>2
    <2>1. b + 1 <= a
      BY <1>2
    <2>2. d * (b + 1) <= d * a
      BY <1>1, <1>2, <2>1
    <2>3. d * (b + 1) = d * b + d
      BY <1>1, <1>2
    <2>4. d * b \in Int /\ d * a \in Int
      BY <1>1, <1>2
    <2> QED
      BY <1>1, <1>3, <1>4, <2>2, <2>3, <2>4
  <1> QED
    BY <1>2, <1>5 DEF Day, a, b, d
-----------------------------------------------------------------------------
(* The shape of the trackers.                                              *)
KeyNames == UNION {DOMAIN ApiKeys[g] : g \in Gens}
UseFields == {"start", "count", "day", "tokens"}
TrackerShaped ==
    /\ DOMAIN tracker = Gens
    /\ \A g \in Gens :
         /\ DOMAIN tracker[g] = {"keys", "prov"} /\ DOMAIN tracker[g].keys = KeyNames
         /\ DOMAIN tracker[g].prov = DOMAIN Providers
         /\ \A k \in KeyNames : DOMAIN tracker[g].keys[k] = UseFields
         /\ \A p \in DOMAIN Providers : DOMAIN tracker[g].prov[p] = {"day", "tokens"}

(* Nothing is reserved for a request that may still reserve or be refused. *)
Accounted(q) ==
    /\ q.pc \in {"idle", "entered", "known", "refused"} \/ (q.pc = "sweep" /\ reserves(q)) => q.reserved = <<>>
    /\ q.gen \in Nat /\ q.gen <= current

(* Each use of a key, and of a provider, against its bookings.             *)
KeyWithin(B, u) == OfDay(B, u.day) # {} => \E b \in OfDay(B, u.day) : u.tokens <= b.budget
KeyLedger(g, k) ==
    LET u == tracker[g].keys[k] IN DayLedger(Reservations(g, k), u, Day(now)) /\ KeyWithin(Reservations(g, k), u)
KeyLedgers == \A g \in Gens, k \in KeyNames : KeyLedger(g, k)

ProvWithin(B, u, p) ==
    OfDay(B, u.day) # {} /\ (\A b \in OfDay(B, u.day) : b.tier = "fill") => u.tokens <= Providers[p].budget
ProvLedger(g, p) ==
    LET u == tracker[g].prov[p] IN DayLedger(Charges(g, p), u, Day(now)) /\ ProvWithin(Charges(g, p), u, p)
ProvLedgers == \A g \in Gens, p \in DOMAIN Providers : ProvLedger(g, p)

AllAccounted == \A r \in Requests : Accounted(req[r])
BudgetInv ==
    /\ KeysBound /\ AllAccounted /\ now \in Nat /\ current \in Nat
    /\ TrackerShaped /\ KeyLedgers /\ ProvLedgers

(* What the operations make of a use of today.                             *)
LEMMA RollDay ==
    ASSUME NEW u, NEW F, DOMAIN u = F, "day" \in F, "tokens" \in F
    PROVE  /\ DOMAIN rollDay(u) = F /\ rollDay(u).day = Day(now) /\ rollDay(u).tokens = Carry(u, Day(now))
  <1>1. CASE u.day = Day(now)
    BY <1>1 DEF rollDay, Carry
  <1>2. CASE u.day # Day(now)
    <2>1. rollDay(u) = [u EXCEPT !.day = Day(now), !.tokens = 0]
      BY <1>2 DEF rollDay
    <2>2. Carry(u, Day(now)) = 0
      BY <1>2 DEF Carry
    <2> QED
      BY <2>1, <2>2
  <1> QED
    BY <1>1, <1>2

(* AllowRequest counts requests, not tokens.                               *)
LEMMA Allowed ==
    ASSUME NEW u, DOMAIN u = UseFields, NEW rpm
    PROVE  LET v == AllowRequest(u, rpm).use
           IN  DOMAIN v = UseFields /\ v.day = Day(now) /\ v.tokens = Carry(u, Day(now))
  <1> DEFINE w == rollDay(u)
             x == IF w.start = -1 \/ now - w.start >= 1 THEN [w EXCEPT !.start = now, !.count = 0] ELSE w
             v == IF x.count < rpm THEN [x EXCEPT !.count = @ + 1] ELSE x
  <1>1. DOMAIN w = UseFields /\ w.day = Day(now) /\ w.tokens = Carry(u, Day(now))
    BY RollDay DEF UseFields
  <1> HIDE DEF w
  <1>2. DOMAIN x = UseFields /\ x.day = w.day /\ x.tokens = w.tokens
    BY <1>1 DEF UseFields
  <1> HIDE DEF x
  <1>3. DOMAIN v = UseFields /\ v.day = x.day /\ v.tokens = x.tokens
    BY <1>1, <1>2 DEF UseFields
  <1>4. AllowRequest(u, rpm).use = v
    BY DEF AllowRequest, v, x, w
  <1> HIDE DEF v
  <1> QED
    BY <1>1, <1>2, <1>3, <1>4

(* ChargeKeyTokens and AllowProviderTokens charge what fits, or only roll. *)
LEMMA KeyCharged ==
    ASSUME NEW u, DOMAIN u = UseFields, NEW budget, NEW n
    PROVE  LET c == ChargeKeyTokens(u, budget, n)
           IN  /\ DOMAIN c.use = UseFields /\ c.use.day = Day(now)
               /\ c.use.tokens = IF c.ok THEN Carry(u, Day(now)) + n ELSE Carry(u, Day(now))
               /\ c.ok => c.use.tokens <= budget
  <1> DEFINE w == rollDay(u)
             ok == w.tokens + n <= budget
             v == IF ok THEN [w EXCEPT !.tokens = @ + n] ELSE w
  <1>1. DOMAIN w = UseFields /\ w.day = Day(now) /\ w.tokens = Carry(u, Day(now))
    BY RollDay DEF UseFields
  <1>2. ChargeKeyTokens(u, budget, n).ok = ok /\ ChargeKeyTokens(u, budget, n).use = v
    BY DEF ChargeKeyTokens
  <1> HIDE DEF w
  <1>3. DOMAIN v = UseFields /\ v.day = w.day /\ v.tokens = IF ok THEN w.tokens + n ELSE w.tokens
    BY <1>1 DEF UseFields
  <1> HIDE DEF v
  <1> QED
    BY <1>1, <1>2, <1>3

(* The same of a provider's use: the always tier is charged past a budget. *)
LEMMA ProvCharged ==
    ASSUME NEW u, DOMAIN u = {"day", "tokens"}, NEW tier, NEW budget, NEW n
    PROVE  LET c == AllowProviderTokens(u, tier, budget, n)
           IN  /\ DOMAIN c.use = {"day", "tokens"} /\ c.use.day = Day(now)
               /\ c.use.tokens = IF c.ok THEN Carry(u, Day(now)) + n ELSE Carry(u, Day(now))
               /\ c.ok => c.use.tokens <= budget \/ tier = "always"
  <1> DEFINE w == rollDay(u)
             ok == w.tokens + n <= budget \/ tier = "always"
             v == IF ok THEN [w EXCEPT !.tokens = @ + n] ELSE w
  <1>1. DOMAIN w = {"day", "tokens"} /\ w.day = Day(now) /\ w.tokens = Carry(u, Day(now))
    BY RollDay
  <1>2. AllowProviderTokens(u, tier, budget, n).ok = ok /\ AllowProviderTokens(u, tier, budget, n).use = v
    BY DEF AllowProviderTokens
  <1> HIDE DEF w
  <1>3. DOMAIN v = {"day", "tokens"} /\ v.day = w.day /\ v.tokens = IF ok THEN w.tokens + n ELSE w.tokens
    BY <1>1
  <1> HIDE DEF v
  <1> QED
    BY <1>1, <1>2, <1>3

(* One use of one tracker is replaced.                                     *)
LEMMA KeyUseSet ==
    ASSUME TrackerShaped, NEW g, NEW k, NEW v, g \in Gens /\ k \in KeyNames => DOMAIN v = UseFields,
           tracker' = [tracker EXCEPT ![g].keys[k] = v]
    PROVE  /\ TrackerShaped'
           /\ \A h \in Gens, j \in KeyNames :
                tracker'[h].keys[j] = IF h = g /\ j = k THEN v ELSE tracker[h].keys[j]
           /\ \A h \in Gens : tracker'[h].prov = tracker[h].prov
  <1>1. DOMAIN tracker' = Gens
    BY DEF TrackerShaped
  <1>2. ASSUME NEW h \in Gens
        PROVE  /\ tracker'[h].prov = tracker[h].prov /\ DOMAIN tracker'[h] = {"keys", "prov"}
               /\ DOMAIN tracker'[h].keys = KeyNames
               /\ \A j \in KeyNames : tracker'[h].keys[j] = IF h = g /\ j = k THEN v ELSE tracker[h].keys[j]
    <2>1. DOMAIN tracker[h] = {"keys", "prov"} /\ DOMAIN tracker[h].keys = KeyNames /\ h \in DOMAIN tracker
      BY DEF TrackerShaped
    <2>2. CASE h # g
      <3>1. tracker'[h] = tracker[h]
        BY <2>1, <2>2
      <3> QED
        BY <2>1, <2>2, <3>1
    <2>3. CASE h = g
      <3>1. tracker'[h] = [tracker[h] EXCEPT !.keys = [tracker[h].keys EXCEPT ![k] = v]]
        BY <2>1, <2>3
      <3> DEFINE f == [tracker[h].keys EXCEPT ![k] = v]
      <3>2. DOMAIN f = KeyNames /\ \A j \in KeyNames : f[j] = IF j = k THEN v ELSE tracker[h].keys[j]
        BY <2>1
      <3> HIDE DEF f
      <3>3. tracker'[h].prov = tracker[h].prov /\ DOMAIN tracker'[h] = {"keys", "prov"} /\ tracker'[h].keys = f
        BY <2>1, <3>1 DEF f
      <3> QED
        BY <2>3, <3>2, <3>3
    <2> QED
      BY <2>2, <2>3
  <1>3. TrackerShaped'
    BY <1>1, <1>2 DEF TrackerShaped
  <1> QED
    BY <1>2, <1>3

(* The same for the use of a provider.                                     *)
LEMMA ProvUseSet ==
    ASSUME TrackerShaped, NEW g, NEW p, NEW v, g \in Gens /\ p \in DOMAIN Providers => DOMAIN v = {"day", "tokens"},
           tracker' = [tracker EXCEPT ![g].prov[p] = v]
    PROVE  /\ TrackerShaped'
           /\ \A h \in Gens, j \in DOMAIN Providers :
                tracker'[h].prov[j] = IF h = g /\ j = p THEN v ELSE tracker[h].prov[j]
           /\ \A h \in Gens : tracker'[h].keys = tracker[h].keys
  <1>1. DOMAIN tracker' = Gens
    BY DEF TrackerShaped
  <1>2. ASSUME NEW h \in Gens
        PROVE  /\ tracker'[h].keys = tracker[h].keys /\ DOMAIN tracker'[h] = {"keys", "prov"}
               /\ DOMAIN tracker'[h].prov = DOMAIN Providers
               /\ \A j \in DOMAIN Providers : tracker'[h].prov[j] = IF h = g /\ j = p THEN v ELSE tracker[h].prov[j]
    <2>1. DOMAIN tracker[h] = {"keys", "prov"} /\ DOMAIN tracker[h].prov = DOMAIN Providers /\ h \in DOMAIN tracker
      BY DEF TrackerShaped
    <2>2. CASE h # g
      <3>1. tracker'[h] = tracker[h]
        BY <2>1, <2>2
      <3> QED
        BY <2>1, <2>2, <3>1
    <2>3. CASE h = g
      <3>1. tracker'[h] = [tracker[h] EXCEPT !.prov = [tracker[h].prov EXCEPT ![p] = v]]
        BY <2>1, <2>3
      <3> DEFINE f == [tracker[h].prov EXCEPT ![p] = v]
      <3>2. DOMAIN f = DOMAIN Providers /\ \A j \in DOMAIN Providers : f[j] = IF j = p THEN v ELSE tracker[h].prov[j]
        BY <2>1
      <3> HIDE DEF f
      <3>3. tracker'[h].keys = tracker[h].keys /\ DOMAIN tracker'[h] = {"keys", "prov"} /\ tracker'[h].prov = f
        BY <2>1, <3>1 DEF f
      <3> QED
        BY <2>3, <3>2, <3>3
    <2> QED
      BY <2>2, <2>3
  <1>3. TrackerShaped'
    BY <1>1, <1>2 DEF TrackerShaped
  <1> QED
    BY <1>2, <1>3
-----------------------------------------------------------------------------
(* What a booking is read from.                                            *)
SameOwner(q, n) == n.gen = q.gen /\ n.key = q.key /\ n.in = q.in /\ n.reserved = q.reserved

(* Who has booked keeps its key, its size and its tracker; who has not     *)
(* books nothing by moving.                                                *)
LEMMA BookingsStay ==
    ASSUME KeysBound, NEW r \in Requests, NEW n, Set(r, n), sent' = sent,
           SameOwner(req[r], n) \/ (sent[r] = <<>> /\ req[r].reserved = <<>> /\ n.reserved = <<>>)
    PROVE  /\ \A g, k : Reservations(g, k)' = Reservations(g, k)
           /\ \A g, p : Charges(g, p)' = Charges(g, p)
  <1>1. req'[r] = n /\ \A x \in Requests \ {r} : req'[x] = req[x]
    BY DEF KeysBound, Set
  <1>2. ASSUME NEW x \in Requests
        PROVE  SameOwner(req[x], req'[x]) \/ (sent[x] = <<>> /\ req[x].reserved = <<>> /\ req'[x].reserved = <<>>)
    BY <1>1 DEF SameOwner
  <1>3. ASSUME NEW g, NEW k PROVE Reservations(g, k)' = Reservations(g, k)
    <2>1. ASSUME NEW x \in Requests
          PROVE  /\ (req'[x].reserved # <<>> /\ req'[x].gen = g /\ req'[x].key.name = k)
                    <=> (req[x].reserved # <<>> /\ req[x].gen = g /\ req[x].key.name = k)
                 /\ req[x].reserved # <<>> => Reservation(x)' = Reservation(x)
      BY <1>2 DEF SameOwner, Reservation
    <2> HIDE DEF Reservation
    <2> QED
      BY <2>1 DEF Reservations
  <1>4. ASSUME NEW g, NEW p PROVE Charges(g, p)' = Charges(g, p)
    <2> DEFINE C(x) == {Charge(x, i) : i \in {j \in DOMAIN sent[x] : sent[x][j].charged /\ sent[x][j].provider = p}}
               Y == {x \in Requests : req[x].gen = g}
    <2>1. ASSUME NEW x \in Requests, SameOwner(req[x], req'[x]) PROVE C(x)' = C(x) /\ (x \in Y' <=> x \in Y)
      <3>1. \A i : Charge(x, i)' = Charge(x, i)
        BY <2>1 DEF SameOwner, Charge
      <3> QED
        BY <2>1, <3>1 DEF SameOwner
    <2>2. ASSUME NEW x \in Requests, sent[x] = <<>> PROVE C(x)' = {} /\ C(x) = {}
      BY <2>2
    <2>3. Charges(g, p) = UNION {C(x) : x \in Y}
      BY DEF Charges
    <2>4. Charges(g, p)' = UNION {C(x)' : x \in Y'}
      BY DEF Charges
    <2>5. \A b : b \in Charges(g, p) <=> \E x \in Requests : x \in Y /\ b \in C(x)
      BY <2>3
    <2>6. \A b : b \in Charges(g, p)' <=> \E x \in Requests : x \in Y' /\ b \in C(x)'
      BY <2>4
    <2> HIDE DEF C, Y
    <2>7. ASSUME NEW x \in Requests, NEW b PROVE (x \in Y' /\ b \in C(x)') <=> (x \in Y /\ b \in C(x))
      BY <1>2, <2>1, <2>2
    <2> QED
      BY <2>5, <2>6, <2>7
  <1> QED
    BY <1>3, <1>4

(* A use that only rolls keeps its ledger.                                 *)
LEMMA KeyRolled ==
    ASSUME NEW B, NEW u, NEW today \in Int, DayLedger(B, u, today), KeyWithin(B, u), NEW v, v.day = today, v.tokens = Carry(u, today)
    PROVE  DayLedger(B, v, today) /\ KeyWithin(B, v)
  <1>1. DayLedger(B, v, today) /\ (u.day # today => OfDay(B, today) = {})
    BY LedgerRolled
  <1> QED
    BY <1>1 DEF KeyWithin, Carry

(* So does a provider's.                                                   *)
LEMMA ProvRolled ==
    ASSUME NEW B, NEW u, NEW p, NEW today \in Int, DayLedger(B, u, today), ProvWithin(B, u, p), NEW v, v.day = today,
           v.tokens = Carry(u, today)
    PROVE  DayLedger(B, v, today) /\ ProvWithin(B, v, p)
  <1>1. DayLedger(B, v, today) /\ (u.day # today => OfDay(B, today) = {})
    BY LedgerRolled
  <1> QED
    BY <1>1 DEF ProvWithin, Carry

(* Steps that leave the clock, the bookings and the uses of providers.     *)
LEMMA ProvidersStay ==
    ASSUME ProvLedgers, now' = now, \A h \in Gens : tracker'[h].prov = tracker[h].prov,
           \A g, p : Charges(g, p)' = Charges(g, p)
    PROVE  ProvLedgers'
  <1>1. Day(now)' = Day(now)
    BY DEF Day
  <1> SUFFICES ASSUME NEW g \in Gens', NEW p \in DOMAIN Providers PROVE ProvLedger(g, p)'
    BY DEF ProvLedgers
  <1>2. g \in Gens
    BY DEF Gens
  <1>3. Charges(g, p)' = Charges(g, p) /\ tracker'[g].prov[p] = tracker[g].prov[p] /\ ProvLedger(g, p)
    BY <1>2 DEF ProvLedgers
  <1> QED
    BY <1>1, <1>3 DEF ProvLedger, DayLedger, ProvWithin, OfDay, Units

(* And those that leave the uses of keys.                                  *)
LEMMA KeysStay ==
    ASSUME KeyLedgers, now' = now, \A h \in Gens : tracker'[h].keys = tracker[h].keys,
           \A g, k : Reservations(g, k)' = Reservations(g, k)
    PROVE  KeyLedgers'
  <1>1. Day(now)' = Day(now)
    BY DEF Day
  <1> SUFFICES ASSUME NEW g \in Gens', NEW k \in KeyNames' PROVE KeyLedger(g, k)'
    BY DEF KeyLedgers
  <1>2. g \in Gens /\ k \in KeyNames
    BY DEF Gens, KeyNames
  <1>3. Reservations(g, k)' = Reservations(g, k) /\ tracker'[g].keys[k] = tracker[g].keys[k] /\ KeyLedger(g, k)
    BY <1>2 DEF KeyLedgers
  <1> QED
    BY <1>1, <1>3 DEF KeyLedger, DayLedger, KeyWithin, OfDay, Units

(* What a step that leaves the clock makes of the accounts, from the uses  *)
(* and the bookings it leaves.                                             *)
LEMMA Balanced ==
    ASSUME now' = now,
           \A g \in Gens, k \in KeyNames : /\ DayLedger(Reservations(g, k)', tracker'[g].keys[k], Day(now))
                                           /\ KeyWithin(Reservations(g, k)', tracker'[g].keys[k]),
           \A g \in Gens, p \in DOMAIN Providers : /\ DayLedger(Charges(g, p)', tracker'[g].prov[p], Day(now))
                                                   /\ ProvWithin(Charges(g, p)', tracker'[g].prov[p], p)
    PROVE  KeyLedgers' /\ ProvLedgers'
  <1>1. Day(now)' = Day(now)
    BY DEF Day
  <1>2. KeyLedgers'
    <2> SUFFICES ASSUME NEW g \in Gens', NEW k \in KeyNames' PROVE KeyLedger(g, k)'
      BY DEF KeyLedgers
    <2>1. g \in Gens /\ k \in KeyNames
      BY DEF Gens, KeyNames
    <2>2. /\ DayLedger(Reservations(g, k)', tracker'[g].keys[k], Day(now))
          /\ KeyWithin(Reservations(g, k)', tracker'[g].keys[k])
      BY <2>1
    <2> QED
      BY <1>1, <2>2 DEF KeyLedger, DayLedger, KeyWithin, OfDay, Units
  <1>3. ProvLedgers'
    <2> SUFFICES ASSUME NEW g \in Gens', NEW p \in DOMAIN Providers PROVE ProvLedger(g, p)'
      BY DEF ProvLedgers
    <2>1. g \in Gens
      BY DEF Gens
    <2>2. /\ DayLedger(Charges(g, p)', tracker'[g].prov[p], Day(now))
          /\ ProvWithin(Charges(g, p)', tracker'[g].prov[p], p)
      BY <2>1
    <2> QED
      BY <1>1, <2>2 DEF ProvLedger, DayLedger, ProvWithin, OfDay, Units
  <1> QED
    BY <1>2, <1>3

(* Today is a day.                                                         *)
LEMMA Today == BudgetInv => Day(now) \in Int
  BY DaysPass DEF BudgetInv

(* The accounts after a step of one request.                               *)
LEMMA AccountsKept ==
    ASSUME AllAccounted, KeysBound, NEW r \in Requests, NEW n, Set(r, n), current' = current, Accounted(n)
    PROVE  AllAccounted'
  <1>1. req'[r] = n /\ \A x \in Requests \ {r} : req'[x] = req[x]
    BY DEF KeysBound, Set
  <1>2. ASSUME NEW x \in Requests PROVE Accounted(req'[x])
    BY <1>1 DEF AllAccounted
  <1>3. \A x \in Requests : Accounted(req[x])'
    BY <1>2 DEF Accounted, reserves
  <1> QED
    BY <1>3 DEF AllAccounted

(* A step of one request that books nothing and charges nothing.           *)
LEMMA Unbooked ==
    ASSUME BudgetInv, KeysBound', NEW r \in Requests, NEW n, Set(r, n), UNCHANGED <<now, current, tracker, sent>>, Accounted(n),
           SameOwner(req[r], n) \/ (sent[r] = <<>> /\ req[r].reserved = <<>> /\ n.reserved = <<>>)
    PROVE  BudgetInv'
  <1>1. /\ \A g, k : Reservations(g, k)' = Reservations(g, k)
        /\ \A g, p : Charges(g, p)' = Charges(g, p)
    BY BookingsStay DEF BudgetInv
  <1>2. KeyLedgers' /\ ProvLedgers'
    BY <1>1, KeysStay, ProvidersStay DEF BudgetInv
  <1>3. AllAccounted'
    BY AccountsKept DEF BudgetInv
  <1>4. TrackerShaped'
    BY DEF BudgetInv, TrackerShaped, Gens, KeyNames
  <1> QED
    BY <1>2, <1>3, <1>4 DEF BudgetInv

(* A step of one request that rolls the use of a key over midnight.        *)
LEMMA KeyOnlyRolls ==
    ASSUME BudgetInv, KeysBound', NEW r \in Requests, NEW n, Set(r, n), UNCHANGED <<now, current, sent>>, Accounted(n),
           SameOwner(req[r], n) \/ (sent[r] = <<>> /\ req[r].reserved = <<>> /\ n.reserved = <<>>),
           NEW g, NEW k, NEW v, tracker' = [tracker EXCEPT ![g].keys[k] = v],
           g \in Gens /\ k \in KeyNames
             => DOMAIN v = UseFields /\ v.day = Day(now) /\ v.tokens = Carry(tracker[g].keys[k], Day(now))
    PROVE  BudgetInv'
  <1>1. /\ \A h, j : Reservations(h, j)' = Reservations(h, j)
        /\ \A h, j : Charges(h, j)' = Charges(h, j)
    BY BookingsStay DEF BudgetInv
  <1>2. /\ TrackerShaped'
        /\ \A h \in Gens, j \in KeyNames : tracker'[h].keys[j] = IF h = g /\ j = k THEN v ELSE tracker[h].keys[j]
        /\ \A h \in Gens : tracker'[h].prov = tracker[h].prov
    BY KeyUseSet DEF BudgetInv
  <1>3. ASSUME NEW h \in Gens, NEW j \in KeyNames
        PROVE  /\ DayLedger(Reservations(h, j)', tracker'[h].keys[j], Day(now))
               /\ KeyWithin(Reservations(h, j)', tracker'[h].keys[j])
    <2>1. DayLedger(Reservations(h, j), tracker[h].keys[j], Day(now)) /\ KeyWithin(Reservations(h, j), tracker[h].keys[j])
      BY DEF BudgetInv, KeyLedgers, KeyLedger
    <2>2. Reservations(h, j)' = Reservations(h, j)
      BY <1>1
    <2>3. CASE h = g /\ j = k
      <3>1. tracker'[h].keys[j] = v /\ v.day = Day(now) /\ v.tokens = Carry(tracker[h].keys[j], Day(now))
        BY <1>2, <2>3
      <3>2. DayLedger(Reservations(h, j), v, Day(now)) /\ KeyWithin(Reservations(h, j), v)
        BY <2>1, <3>1, Today, KeyRolled
      <3> QED
        BY <2>2, <3>1, <3>2
    <2>4. CASE ~(h = g /\ j = k)
      <3>1. tracker'[h].keys[j] = tracker[h].keys[j]
        BY <1>2, <2>4
      <3> QED
        BY <2>1, <2>2, <3>1
    <2> QED
      BY <2>3, <2>4
  <1>4. ASSUME NEW h \in Gens, NEW p \in DOMAIN Providers
        PROVE  /\ DayLedger(Charges(h, p)', tracker'[h].prov[p], Day(now))
               /\ ProvWithin(Charges(h, p)', tracker'[h].prov[p], p)
    <2>1. DayLedger(Charges(h, p), tracker[h].prov[p], Day(now)) /\ ProvWithin(Charges(h, p), tracker[h].prov[p], p)
      BY DEF BudgetInv, ProvLedgers, ProvLedger
    <2>2. Charges(h, p)' = Charges(h, p) /\ tracker'[h].prov[p] = tracker[h].prov[p]
      BY <1>1, <1>2
    <2> QED
      BY <2>1, <2>2
  <1>5. KeyLedgers' /\ ProvLedgers'
    BY <1>3, <1>4, Balanced
  <1>6. AllAccounted'
    BY AccountsKept DEF BudgetInv
  <1> QED
    BY <1>2, <1>5, <1>6 DEF BudgetInv

(* A request books on its key: one reservation more, and nothing charged.  *)
LEMMA ReservationMade ==
    ASSUME KeysBound, NEW r \in Requests, NEW n, Set(r, n), sent' = sent, req[r].reserved = <<>>,
           n.gen = req[r].gen, n.key = req[r].key, n.in = req[r].in, NEW day, n.reserved = <<day>>
    PROVE  LET b == [who |-> r, day |-> day, tokens |-> req[r].in.tokens, budget |-> req[r].key.budget] IN
           /\ \A g, k : b \notin Reservations(g, k)
           /\ \A g, k : Reservations(g, k)' = IF g = req[r].gen /\ k = req[r].key.name
                                              THEN Reservations(g, k) \cup {b} ELSE Reservations(g, k)
           /\ \A g, p : Charges(g, p)' = Charges(g, p)
  <1> DEFINE b == [who |-> r, day |-> day, tokens |-> req[r].in.tokens, budget |-> req[r].key.budget]
  <1>1. req'[r] = n /\ \A x \in Requests \ {r} : req'[x] = req[x]
    BY DEF KeysBound, Set
  <1>2. ASSUME NEW g, NEW k PROVE b \notin Reservations(g, k)
    <2> SUFFICES ASSUME NEW x \in Requests, req[x].reserved # <<>>, b = Reservation(x) PROVE FALSE
      BY DEF Reservations
    <2>1. b.who = r /\ Reservation(x).who = x
      BY DEF Reservation
    <2> QED
      BY <2>1
  <1>3. Reservation(r)' = b
    <2>1. req'[r].reserved[1] = day
      BY <1>1
    <2> QED
      BY <1>1, <2>1 DEF Reservation
  <1>4. \A x \in Requests \ {r} : Reservation(x)' = Reservation(x)
    BY <1>1 DEF Reservation
  <1>5. req'[r].reserved # <<>>
    BY <1>1
  <1>6. ASSUME NEW g, NEW k
        PROVE  Reservations(g, k)' = IF g = req[r].gen /\ k = req[r].key.name
                                     THEN Reservations(g, k) \cup {b} ELSE Reservations(g, k)
    <2> HIDE DEF Reservation, b
    <2>1. \A c : c \in Reservations(g, k)
                 <=> \E x \in Requests : req[x].reserved # <<>> /\ req[x].gen = g /\ req[x].key.name = k /\ c = Reservation(x)
      BY DEF Reservations
    <2>2. \A c : c \in Reservations(g, k)'
                 <=> \E x \in Requests : req'[x].reserved # <<>> /\ req'[x].gen = g /\ req'[x].key.name = k /\ c = Reservation(x)'
      BY DEF Reservations
    <2>3. \A c : c \in Reservations(g, k)'
                 <=> c \in Reservations(g, k) \/ (g = req[r].gen /\ k = req[r].key.name /\ c = b)
      BY <1>1, <1>3, <1>4, <1>5, <2>1, <2>2
    <2> QED
      BY <2>3
  <1>7. ASSUME NEW g, NEW p PROVE Charges(g, p)' = Charges(g, p)
    <2>1. \A x \in Requests : req'[x].gen = req[x].gen /\ req'[x].in = req[x].in /\ req'[x].key = req[x].key
      BY <1>1
    <2>2. \A x \in Requests : \A i : Charge(x, i)' = Charge(x, i)
      BY <2>1 DEF Charge
    <2> HIDE DEF Charge
    <2> QED
      BY <2>1, <2>2 DEF Charges
  <1> QED
    BY <1>2, <1>6, <1>7

(* The tracker and the key a request is charged on.                        *)
Charged(q, g, k) == g = q.gen /\ k = q.key.name

(* A reservation that fits is booked.                                      *)
LEMMA KeyBooks ==
    ASSUME BudgetInv, KeysBound', NEW r \in Requests, NEW n, Set(r, n), UNCHANGED <<now, current, sent>>, Accounted(n),
           req[r].reserved = <<>>, n.gen = req[r].gen, n.key = req[r].key, n.in = req[r].in, n.reserved = <<Day(now)>>,
           req[r].in.tokens \in Nat, NEW g, NEW k, Charged(req[r], g, k),
           NEW v, tracker' = [tracker EXCEPT ![g].keys[k] = v],
           g \in Gens /\ k \in KeyNames
             => /\ DOMAIN v = UseFields /\ v.day = Day(now)
                /\ v.tokens = Carry(tracker[g].keys[k], Day(now)) + req[r].in.tokens /\ v.tokens <= req[r].key.budget
    PROVE  BudgetInv'
  <1> DEFINE b == [who |-> r, day |-> Day(now), tokens |-> req[r].in.tokens, budget |-> req[r].key.budget]
  <1>1. /\ \A h, j : b \notin Reservations(h, j)
        /\ \A h, j : Reservations(h, j)' = IF h = g /\ j = k THEN Reservations(h, j) \cup {b} ELSE Reservations(h, j)
        /\ \A h, j : Charges(h, j)' = Charges(h, j)
    BY ReservationMade DEF BudgetInv, Charged
  <1>2. /\ TrackerShaped'
        /\ \A h \in Gens, j \in KeyNames : tracker'[h].keys[j] = IF h = g /\ j = k THEN v ELSE tracker[h].keys[j]
        /\ \A h \in Gens : tracker'[h].prov = tracker[h].prov
    BY KeyUseSet DEF BudgetInv
  <1>3. b.day = Day(now) /\ b.tokens = req[r].in.tokens /\ b.budget = req[r].key.budget /\ Day(now) \in Int
    BY Today
  <1> HIDE DEF b
  <1>4. ASSUME NEW h \in Gens, NEW j \in KeyNames
        PROVE  /\ DayLedger(Reservations(h, j)', tracker'[h].keys[j], Day(now))
               /\ KeyWithin(Reservations(h, j)', tracker'[h].keys[j])
    <2>1. DayLedger(Reservations(h, j), tracker[h].keys[j], Day(now)) /\ KeyWithin(Reservations(h, j), tracker[h].keys[j])
      BY DEF BudgetInv, KeyLedgers, KeyLedger
    <2>2. CASE h = g /\ j = k
      <3>1. /\ tracker'[h].keys[j] = v /\ v.day = Day(now)
            /\ v.tokens = Carry(tracker[h].keys[j], Day(now)) + b.tokens /\ v.tokens <= b.budget
        BY <1>2, <1>3, <2>2
      <3>2. Reservations(h, j)' = Reservations(h, j) \cup {b} /\ b \notin Reservations(h, j)
        BY <1>1, <2>2
      <3>3. DayLedger(Reservations(h, j) \cup {b}, v, Day(now))
        BY <1>3, <2>1, <3>1, <3>2, LedgerBooked
      <3>4. KeyWithin(Reservations(h, j) \cup {b}, v)
        <4>1. b \in OfDay(Reservations(h, j) \cup {b}, v.day)
          BY <1>3, <3>1 DEF OfDay
        <4> QED
          BY <3>1, <4>1 DEF KeyWithin
      <3> QED
        BY <3>1, <3>2, <3>3, <3>4
    <2>3. CASE ~(h = g /\ j = k)
      <3>1. tracker'[h].keys[j] = tracker[h].keys[j] /\ Reservations(h, j)' = Reservations(h, j)
        BY <1>1, <1>2, <2>3
      <3> QED
        BY <2>1, <3>1
    <2> QED
      BY <2>2, <2>3
  <1>5. ASSUME NEW h \in Gens, NEW p \in DOMAIN Providers
        PROVE  /\ DayLedger(Charges(h, p)', tracker'[h].prov[p], Day(now))
               /\ ProvWithin(Charges(h, p)', tracker'[h].prov[p], p)
    <2>1. DayLedger(Charges(h, p), tracker[h].prov[p], Day(now)) /\ ProvWithin(Charges(h, p), tracker[h].prov[p], p)
      BY DEF BudgetInv, ProvLedgers, ProvLedger
    <2>2. Charges(h, p)' = Charges(h, p) /\ tracker'[h].prov[p] = tracker[h].prov[p]
      BY <1>1, <1>2
    <2> QED
      BY <2>1, <2>2
  <1>6. KeyLedgers' /\ ProvLedgers'
    BY <1>4, <1>5, Balanced
  <1>7. AllAccounted'
    BY AccountsKept DEF BudgetInv
  <1> QED
    BY <1>2, <1>6, <1>7 DEF BudgetInv
-----------------------------------------------------------------------------
(* Whom a request that moves on or is over belongs to.                     *)
LEMMA OverOwner ==
    ASSUME NEW q
    PROVE  SameOwner(q, Over(q)) /\ Over(q).pc = "done"
  BY DEF Over, NoRequest, SameOwner

(* The same past a target.                                                 *)
LEMMA OnwardOwner ==
    ASSUME NEW q, DOMAIN q = RequestFields
    PROVE  SameOwner(q, Onward(q))
  <1>1. CASE q.resumed \/ q.idx = Len(q.targets)
    BY <1>1, OverOwner DEF Onward
  <1>2. CASE ~(q.resumed \/ q.idx = Len(q.targets))
    <2>1. Onward(q) = [q EXCEPT !.idx = @ + 1, !.pc = "sweep"]
      BY <1>2 DEF Onward
    <2> QED
      BY <2>1, Zenon DEF RequestFields, SameOwner
  <1> QED
    BY <1>1, <1>2

(* Who keeps its owner and cannot reserve any more stays accounted for.    *)
LEMMA StaysAccounted ==
    ASSUME NEW q, Accounted(q), NEW n, SameOwner(q, n),
           n.pc \in {"guards", "waiting", "done"} \/ (n.pc = "sweep" /\ ~reserves(n)) \/ q.reserved = <<>>
    PROVE  Accounted(n)
  BY DEF Accounted, SameOwner

(* So does a request past a target.                                        *)
LEMMA OnwardAccounted ==
    ASSUME NEW r, NEW q, NEW d, Bound(r, q, d), q.pc \in {"guards", "waiting"}, Accounted(q)
    PROVE  SameOwner(q, Onward(q)) /\ Accounted(Onward(q))
  <1>1. DOMAIN q = RequestFields /\ DOMAIN q.header = {"key", "bound"}
    BY DEF Bound, Shaped
  <1>2. SameOwner(q, Onward(q))
    BY <1>1, OnwardOwner
  <1>3. Onward(q).pc = "done" \/ (Onward(q).pc = "sweep" /\ ~reserves(Onward(q)))
    BY <1>1, <1>2, OnwardFields, Latched DEF reserves, SameOwner
  <1> QED
    BY <1>2, <1>3, StaysAccounted

(* A refused request holds nothing.                                        *)
LEMMA RefusedAccounted ==
    ASSUME current \in Nat
    PROVE  LET n == [NoRequest EXCEPT !.pc = "refused"] IN n.reserved = <<>> /\ Accounted(n)
  <1> DEFINE n == [NoRequest EXCEPT !.pc = "refused"]
  <1>1. n.reserved = <<>> /\ n.gen = 0 /\ n.pc = "refused"
    BY DEF NoRequest
  <1> HIDE DEF n
  <1> QED
    BY <1>1 DEF Accounted, n

(* Before the sweep nothing is sent and nothing reserved.                  *)
LEMMA Unbegun ==
    ASSUME BudgetInv, NEW r \in Requests, req[r].pc \in {"idle", "entered", "known", "refused"}
    PROVE  sent[r] = <<>> /\ req[r].reserved = <<>>
  <1>1. Bound(r, req[r], sent[r]) /\ Accounted(req[r])
    BY DEF BudgetInv, KeysBound, AllAccounted
  <1> QED
    BY <1>1 DEF Bound, Silent, Accounted

(* Steps that only refuse a request, or let it go on.                      *)
LEMMA RefuseBooks ==
    ASSUME BudgetInv, KeysBound', NEW r \in Requests, Refuse(r), UNCHANGED <<now, current, tracker, sent>>,
           sent[r] = <<>> /\ req[r].reserved = <<>>
    PROVE  BudgetInv'
  <1> DEFINE n == [NoRequest EXCEPT !.pc = "refused"]
  <1>1. n.reserved = <<>> /\ Accounted(n)
    BY RefusedAccounted DEF BudgetInv
  <1>2. Set(r, n)
    BY DEF Refuse
  <1> HIDE DEF n
  <1> QED
    BY <1>1, <1>2, Unbooked

(* ServeHTTP.                                                              *)
LEMMA EnterBooks ==
    ASSUME BudgetInv, NEW r \in Requests, NEW in \in Inputs, NEW m, Enter(r, in, m)
    PROVE  BudgetInv'
  <1>1. sent[r] = <<>> /\ req[r].reserved = <<>> /\ UNCHANGED <<now, current, tracker, sent>>
    BY Unbegun DEF Enter
  <1>2. KeysBound'
    BY EnterBound DEF BudgetInv
  <1> DEFINE n == [NoRequest EXCEPT !.gen = current, !.in = in, !.header.key = in.idem, !.pc = "entered"]
  <1>3. CASE Set(r, n)
    <2>1. n.gen = current /\ n.reserved = <<>>
      BY DEF NoRequest
    <2> HIDE DEF n
    <2>2. Accounted(n)
      BY <2>1 DEF Accounted, BudgetInv
    <2> QED
      BY <1>1, <1>2, <1>3, <2>1, <2>2, Unbooked
  <1>4. CASE Refuse(r)
    BY <1>1, <1>2, <1>4, RefuseBooks
  <1> QED
    BY <1>3, <1>4 DEF Enter

(* authenticateAndAuthorize counts the request on the current tracker.     *)
LEMMA AuthenticateBooks ==
    ASSUME BudgetInv, NEW r \in Requests, NEW readable, Authenticate(r, readable)
    PROVE  BudgetInv'
  <1>1. sent[r] = <<>> /\ req[r].reserved = <<>> /\ UNCHANGED <<now, current, sent>>
    BY Unbegun DEF Authenticate
  <1>2. KeysBound'
    BY AuthenticateBound DEF BudgetInv
  <1>3. Accounted(req[r]) /\ DOMAIN req[r] = RequestFields /\ current \in Nat
    BY DEF BudgetInv, AllAccounted, KeysBound, Bound, Shaped
  <1>4. \/ Refuse(r)
        \/ \E k : \/ Set(r, Over([req[r] EXCEPT !.key = k]))
                  \/ Set(r, [req[r] EXCEPT !.key = k, !.pc = "known"])
    BY DEF Authenticate
  <1>5. PICK n : Set(r, n) /\ n.reserved = <<>> /\ Accounted(n)
    <2>1. CASE Refuse(r)
      BY <1>3, <2>1, RefusedAccounted DEF Refuse
    <2>2. ASSUME NEW k PROVE LET n == [req[r] EXCEPT !.key = k, !.pc = "known"] IN n.reserved = <<>> /\ Accounted(n)
      <3> DEFINE n == [req[r] EXCEPT !.key = k, !.pc = "known"]
      <3>1. n.reserved = req[r].reserved /\ n.gen = req[r].gen
        BY <1>3, Zenon DEF RequestFields
      <3> HIDE DEF n
      <3>2. n.reserved = <<>> /\ Accounted(n)
        BY <1>1, <1>3, <3>1 DEF Accounted
      <3> QED
        BY <3>2 DEF n
    <2>3. ASSUME NEW k PROVE LET n == Over([req[r] EXCEPT !.key = k]) IN n.reserved = <<>> /\ Accounted(n)
      <3> DEFINE q == [req[r] EXCEPT !.key = k]
      <3>1. q.reserved = req[r].reserved /\ q.gen = req[r].gen
        BY <1>3, Zenon DEF RequestFields
      <3> HIDE DEF q
      <3>2. Over(q).reserved = <<>> /\ Over(q).gen = req[r].gen
        BY <1>1, <3>1, OverOwner DEF SameOwner
      <3>3. Accounted(Over(q))
        BY <1>3, <3>2 DEF Accounted
      <3> QED
        BY <3>2, <3>3 DEF q
    <2> QED
      BY <1>4, <2>1, <2>2, <2>3
  <1>6. \/ tracker' = tracker
        \/ \E k : tracker' = [tracker EXCEPT ![current].keys[k.name] = AllowRequest(tracker[current].keys[k.name], k.rpm).use]
    BY DEF Authenticate
  <1>7. CASE tracker' = tracker
    BY <1>1, <1>2, <1>5, <1>7, Unbooked
  <1>8. ASSUME NEW k,
               tracker' = [tracker EXCEPT ![current].keys[k.name] = AllowRequest(tracker[current].keys[k.name], k.rpm).use]
        PROVE  BudgetInv'
    <2> DEFINE j == k.name
               u == tracker[current].keys[j]
               v == AllowRequest(u, k.rpm).use
    <2>1. current \in Gens /\ j \in KeyNames => DOMAIN u = UseFields
      BY DEF BudgetInv, TrackerShaped
    <2>2. DOMAIN u = UseFields => DOMAIN v = UseFields /\ v.day = Day(now) /\ v.tokens = Carry(u, Day(now))
      BY Allowed
    <2>3. tracker' = [tracker EXCEPT ![current].keys[j] = v]
      BY <1>8
    <2> HIDE DEF v, j
    <2> QED
      BY <1>1, <1>2, <1>5, <2>1, <2>2, <2>3, KeyOnlyRolls
  <1> QED
    BY <1>6, <1>7, <1>8

(* validateChatRequest.                                                    *)
LEMMA ValidateBooks ==
    ASSUME BudgetInv, NEW r \in Requests, NEW cached, NEW refused, Validate(r, cached, refused)
    PROVE  BudgetInv'
  <1>1. sent[r] = <<>> /\ req[r].reserved = <<>> /\ UNCHANGED <<now, current, tracker, sent>>
    BY Unbegun DEF Validate
  <1>2. KeysBound'
    BY ValidateBound DEF BudgetInv
  <1>3. Accounted(req[r]) /\ DOMAIN req[r] = RequestFields
    BY DEF BudgetInv, AllAccounted, KeysBound, Bound, Shaped
  <1>4. \/ Refuse(r) \/ Set(r, Over(req[r]))
        \/ \E t, b : Set(r, [req[r] EXCEPT !.targets = t, !.byok = b, !.header.bound = NoBody, !.pc = "sweep"])
    BY DEF Validate
  <1>5. CASE Refuse(r)
    BY <1>1, <1>2, <1>5, RefuseBooks
  <1>6. CASE Set(r, Over(req[r]))
    BY <1>1, <1>2, <1>3, <1>6, OverOwner, StaysAccounted, Unbooked
  <1>7. ASSUME NEW t, NEW b, Set(r, [req[r] EXCEPT !.targets = t, !.byok = b, !.header.bound = NoBody, !.pc = "sweep"])
        PROVE  BudgetInv'
    <2> DEFINE n == [req[r] EXCEPT !.targets = t, !.byok = b, !.header.bound = NoBody, !.pc = "sweep"]
    <2>1. SameOwner(req[r], n)
      BY <1>3, Zenon DEF RequestFields, SameOwner
    <2> HIDE DEF n
    <2>2. Accounted(n)
      BY <1>1, <1>3, <2>1, StaysAccounted
    <2> QED
      BY <1>1, <1>2, <1>7, <2>1, <2>2, Unbooked DEF n
  <1> QED
    BY <1>4, <1>5, <1>6, <1>7

(* enforceBudgets: the reservation of a request is booked once, or the     *)
(* request is refused and only the day rolls.                              *)
LEMMA ReserveBooks ==
    ASSUME BudgetInv, NEW r \in Requests, Reserve(r)
    PROVE  BudgetInv'
  <1> DEFINE q == req[r]
             g == q.gen
             k == q.key.name
             u == tracker[g].keys[k]
             c == ChargeKeyTokens(u, q.key.budget, q.in.tokens)
             p == [q EXCEPT !.latched = @ \/ reserves(q), !.pc = "guards"]
  <1>1. /\ Accounted(q) /\ Bound(r, q, sent[r]) /\ DOMAIN q = RequestFields /\ q.pc = "sweep"
        /\ UNCHANGED <<now, current, sent>>
    BY DEF Reserve, BudgetInv, AllAccounted, KeysBound, Bound, Shaped
  <1>2. KeysBound'
    BY ReserveBound DEF BudgetInv
  <1>3. SameOwner(q, p) /\ p.pc = "guards" /\ DOMAIN p = RequestFields
    BY <1>1, Zenon DEF RequestFields, SameOwner
  <1>4. q.in \in Inputs /\ q.in.tokens \in Nat
    BY <1>1, AdmissionAssumption DEF Bound, Known, InSweep
  <1>5. reserves(q) => q.reserved = <<>> /\ sent[r] = <<>>
    BY <1>1 DEF Accounted, Bound, Silent
  <1>6. g \in Gens /\ k \in KeyNames => DOMAIN u = UseFields
    BY DEF BudgetInv, TrackerShaped
  <1>7. DOMAIN u = UseFields
          => /\ DOMAIN c.use = UseFields /\ c.use.day = Day(now)
             /\ c.use.tokens = IF c.ok THEN Carry(u, Day(now)) + q.in.tokens ELSE Carry(u, Day(now))
             /\ c.ok => c.use.tokens <= q.key.budget
    BY KeyCharged
  <1>8. \/ Set(r, p) /\ tracker' = tracker
        \/ /\ reserves(q) /\ tracker' = [tracker EXCEPT ![g].keys[k] = c.use]
           /\ \/ c.ok /\ Set(r, [p EXCEPT !.reserved = <<Day(now)>>])
              \/ ~c.ok /\ Refuse(r)
    BY DEF Reserve
  <1>9. Charged(q, g, k)
    BY DEF Charged
  <1> HIDE DEF p, c
  <1>10. CASE Set(r, p) /\ tracker' = tracker
    BY <1>1, <1>2, <1>3, <1>10, StaysAccounted, Unbooked
  <1>11. ASSUME reserves(q), tracker' = [tracker EXCEPT ![g].keys[k] = c.use], c.ok, Set(r, [p EXCEPT !.reserved = <<Day(now)>>])
         PROVE  BudgetInv'
    <2> DEFINE n == [p EXCEPT !.reserved = <<Day(now)>>]
    <2>1. n.gen = q.gen /\ n.key = q.key /\ n.in = q.in /\ n.reserved = <<Day(now)>> /\ n.pc = "guards"
      BY <1>3, Zenon DEF RequestFields, SameOwner
    <2> HIDE DEF n
    <2>2. Accounted(n)
      BY <1>1, <2>1 DEF Accounted
    <2>3. Set(r, n)
      BY <1>11 DEF n
    <2>4. g \in Gens /\ k \in KeyNames
            => /\ DOMAIN c.use = UseFields /\ c.use.day = Day(now)
               /\ c.use.tokens = Carry(u, Day(now)) + q.in.tokens /\ c.use.tokens <= q.key.budget
      BY <1>6, <1>7, <1>11
    <2> HIDE DEF g, k
    <2> QED
      BY <1>1, <1>2, <1>4, <1>5, <1>9, <1>11, <2>1, <2>2, <2>3, <2>4, KeyBooks
  <1>12. ASSUME reserves(q), tracker' = [tracker EXCEPT ![g].keys[k] = c.use], ~c.ok, Refuse(r)
         PROVE  BudgetInv'
    <2> DEFINE n == [NoRequest EXCEPT !.pc = "refused"]
    <2>1. n.reserved = <<>> /\ Accounted(n)
      BY RefusedAccounted DEF BudgetInv
    <2>2. Set(r, n)
      BY <1>12 DEF Refuse
    <2>3. g \in Gens /\ k \in KeyNames
            => DOMAIN c.use = UseFields /\ c.use.day = Day(now) /\ c.use.tokens = Carry(u, Day(now))
      BY <1>6, <1>7, <1>12
    <2> HIDE DEF n, g, k
    <2> QED
      BY <1>1, <1>2, <1>5, <1>12, <2>1, <2>2, <2>3, KeyOnlyRolls
  <1> QED
    BY <1>8, <1>10, <1>11, <1>12

(* What follows a dispatch books nothing.                                  *)
LEMMA AfterwardsBooks ==
    ASSUME BudgetInv, NEW r \in Requests, Skipped(r) \/ Stopped(r) \/ Answered(r) \/ Failover(r)
    PROVE  BudgetInv'
  <1>1. /\ Accounted(req[r]) /\ Bound(r, req[r], sent[r]) /\ DOMAIN req[r] = RequestFields
        /\ DOMAIN req[r].header = {"key", "bound"} /\ UNCHANGED <<now, current, tracker, sent>>
    BY DEF BudgetInv, AllAccounted, KeysBound, Bound, Shaped, Skipped, Stopped, Answered, Failover
  <1>2. KeysBound'
    BY AfterwardsBound DEF BudgetInv
  <1>3. \/ Set(r, Over(req[r]))
        \/ req[r].pc \in {"guards", "waiting"} /\ Set(r, Onward(req[r]))
    BY DEF Skipped, Stopped, Answered, Failover
  <1>4. CASE Set(r, Over(req[r]))
    BY <1>1, <1>2, <1>4, OverOwner, StaysAccounted, Unbooked
  <1>5. CASE req[r].pc \in {"guards", "waiting"} /\ Set(r, Onward(req[r]))
    <2>1. SameOwner(req[r], Onward(req[r])) /\ Accounted(Onward(req[r]))
      BY <1>1, <1>5, OnwardAccounted
    <2> QED
      BY <1>1, <1>2, <1>5, <2>1, Unbooked
  <1> QED
    BY <1>3, <1>4, <1>5

(* Nor does another attempt.                                               *)
LEMMA AgainBooks ==
    ASSUME BudgetInv, NEW r \in Requests, SameTarget(r) \/ Corrected(r) \/ Continued(r) \/ NextTurn(r)
    PROVE  BudgetInv'
  <1> DEFINE q == req[r]
  <1>1. /\ Accounted(q) /\ Bound(r, q, sent[r]) /\ DOMAIN q = RequestFields /\ q.pc = "waiting"
        /\ UNCHANGED <<now, current, tracker, sent>>
    BY DEF BudgetInv, AllAccounted, KeysBound, Bound, Shaped, SameTarget, Corrected, Continued, NextTurn
  <1>2. KeysBound'
    BY AgainBound DEF BudgetInv
  <1>3. ASSUME NEW n, Set(r, n), SameOwner(q, n), n.latched = q.latched, n.pc \in {"sweep", "guards"}
        PROVE  BudgetInv'
    <2>1. ~reserves(n)
      BY <1>1, <1>3, Latched DEF reserves, SameOwner
    <2> QED
      BY <1>1, <1>2, <1>3, <2>1, StaysAccounted, Unbooked
  <1>4. CASE SameTarget(r)
    <2> DEFINE n == [q EXCEPT !.pc = "sweep"]
    <2>1. SameOwner(q, n) /\ n.latched = q.latched /\ n.pc \in {"sweep", "guards"}
      BY <1>1, Zenon DEF RequestFields, SameOwner
    <2>2. Set(r, n)
      BY <1>4 DEF SameTarget, Goto
    <2> HIDE DEF n
    <2> QED
      BY <2>1, <2>2, <1>3
  <1>5. CASE Corrected(r)
    <2> DEFINE x == IF q.idx = Len(q.targets) THEN q.idx ELSE q.idx + 1
               n == [q EXCEPT !.variant = @ + 1, !.idx = x, !.pc = "sweep"]
    <2>1. Set(r, n)
      BY <1>5, Zenon DEF Corrected
    <2>2. SameOwner(q, n) /\ n.latched = q.latched /\ n.pc \in {"sweep", "guards"}
      BY <1>1, Zenon DEF RequestFields, SameOwner
    <2> HIDE DEF n
    <2> QED
      BY <2>1, <2>2, <1>3
  <1>6. CASE Continued(r)
    <2> DEFINE n == [q EXCEPT !.variant = @ + 1, !.resumed = TRUE, !.pc = "guards"]
    <2>1. Set(r, n)
      BY <1>6 DEF Continued
    <2>2. SameOwner(q, n) /\ n.latched = q.latched /\ n.pc \in {"sweep", "guards"}
      BY <1>1, Zenon DEF RequestFields, SameOwner
    <2> HIDE DEF n
    <2> QED
      BY <2>1, <2>2, <1>3
  <1>7. CASE NextTurn(r)
    <2> DEFINE n == [q EXCEPT !.turn = @ + 1, !.idx = 1, !.pc = "sweep"]
    <2>1. Set(r, n)
      BY <1>7 DEF NextTurn
    <2>2. SameOwner(q, n) /\ n.latched = q.latched /\ n.pc \in {"sweep", "guards"}
      BY <1>1, Zenon DEF RequestFields, SameOwner
    <2> HIDE DEF n
    <2> QED
      BY <2>1, <2>2, <1>3
  <1> QED
    BY <1>4, <1>5, <1>6, <1>7

-----------------------------------------------------------------------------
(* A step of one request that rolls the use of a provider over midnight.   *)
LEMMA ProvOnlyRolls ==
    ASSUME BudgetInv, KeysBound', NEW r \in Requests, NEW n, Set(r, n), UNCHANGED <<now, current, sent>>, Accounted(n),
           SameOwner(req[r], n),
           NEW g, NEW p, NEW v, tracker' = [tracker EXCEPT ![g].prov[p] = v],
           g \in Gens /\ p \in DOMAIN Providers
             => DOMAIN v = {"day", "tokens"} /\ v.day = Day(now) /\ v.tokens = Carry(tracker[g].prov[p], Day(now))
    PROVE  BudgetInv'
  <1>1. /\ \A h, j : Reservations(h, j)' = Reservations(h, j)
        /\ \A h, j : Charges(h, j)' = Charges(h, j)
    BY BookingsStay DEF BudgetInv
  <1>2. /\ TrackerShaped'
        /\ \A h \in Gens, j \in DOMAIN Providers :
             tracker'[h].prov[j] = IF h = g /\ j = p THEN v ELSE tracker[h].prov[j]
        /\ \A h \in Gens : tracker'[h].keys = tracker[h].keys
    BY ProvUseSet DEF BudgetInv
  <1>3. ASSUME NEW h \in Gens, NEW j \in DOMAIN Providers
        PROVE  /\ DayLedger(Charges(h, j)', tracker'[h].prov[j], Day(now))
               /\ ProvWithin(Charges(h, j)', tracker'[h].prov[j], j)
    <2>1. DayLedger(Charges(h, j), tracker[h].prov[j], Day(now)) /\ ProvWithin(Charges(h, j), tracker[h].prov[j], j)
      BY DEF BudgetInv, ProvLedgers, ProvLedger
    <2>2. Charges(h, j)' = Charges(h, j)
      BY <1>1
    <2>3. CASE h = g /\ j = p
      <3>1. tracker'[h].prov[j] = v /\ v.day = Day(now) /\ v.tokens = Carry(tracker[h].prov[j], Day(now))
        BY <1>2, <2>3
      <3>2. DayLedger(Charges(h, j), v, Day(now)) /\ ProvWithin(Charges(h, j), v, j)
        BY <2>1, <3>1, Today, ProvRolled
      <3> QED
        BY <2>2, <3>1, <3>2
    <2>4. CASE ~(h = g /\ j = p)
      <3>1. tracker'[h].prov[j] = tracker[h].prov[j]
        BY <1>2, <2>4
      <3> QED
        BY <2>1, <2>2, <3>1
    <2> QED
      BY <2>3, <2>4
  <1>4. ASSUME NEW h \in Gens, NEW j \in KeyNames
        PROVE  /\ DayLedger(Reservations(h, j)', tracker'[h].keys[j], Day(now))
               /\ KeyWithin(Reservations(h, j)', tracker'[h].keys[j])
    <2>1. DayLedger(Reservations(h, j), tracker[h].keys[j], Day(now)) /\ KeyWithin(Reservations(h, j), tracker[h].keys[j])
      BY DEF BudgetInv, KeyLedgers, KeyLedger
    <2>2. Reservations(h, j)' = Reservations(h, j) /\ tracker'[h].keys[j] = tracker[h].keys[j]
      BY <1>1, <1>2
    <2> QED
      BY <2>1, <2>2
  <1>5. KeyLedgers' /\ ProvLedgers'
    BY <1>3, <1>4, Balanced
  <1>6. AllAccounted'
    BY AccountsKept DEF BudgetInv
  <1> QED
    BY <1>2, <1>5, <1>6 DEF BudgetInv

(* A dispatch is one charge more where it is charged, and no reservation.  *)
LEMMA ChargeMade ==
    ASSUME KeysBound, NEW r \in Requests, NEW n, Set(r, n), SameOwner(req[r], n), NEW e,
           sent' = [sent EXCEPT ![r] = Append(sent[r], e)]
    PROVE  LET b == [who |-> r, nr |-> Len(sent[r]) + 1, day |-> e.day, tokens |-> req[r].in.tokens, tier |-> tierOf(req[r].key)]
           IN  /\ \A g, k : Reservations(g, k)' = Reservations(g, k)
               /\ \A g, p : b \notin Charges(g, p)
               /\ \A g, p : Charges(g, p)' = IF e.charged /\ e.provider = p /\ req[r].gen = g
                                             THEN Charges(g, p) \cup {b} ELSE Charges(g, p)
  <1>0. PICK L : L = Len(sent[r]) + 1
    OBVIOUS
  <1> DEFINE b == [who |-> r, nr |-> L, day |-> e.day, tokens |-> req[r].in.tokens, tier |-> tierOf(req[r].key)]
             a == Append(sent[r], e)
             For(x, i, p) == i \in DOMAIN sent[x] /\ sent[x][i].charged /\ sent[x][i].provider = p
  <1>1. req'[r] = n /\ \A x \in Requests \ {r} : req'[x] = req[x]
    BY DEF KeysBound, Set
  <1>2. \A x \in Requests : SameOwner(req[x], req'[x])
    BY <1>1 DEF SameOwner
  <1>3. ASSUME NEW g, NEW k PROVE Reservations(g, k)' = Reservations(g, k)
    <2>1. \A x \in Requests : Reservation(x)' = Reservation(x)
      BY <1>2 DEF SameOwner, Reservation
    <2> HIDE DEF Reservation
    <2> QED
      BY <1>2, <2>1 DEF Reservations, SameOwner
  <1>4. sent'[r] = a /\ \A x \in Requests \ {r} : sent'[x] = sent[x]
    BY DEF KeysBound
  <1>5. IsSeq(sent[r])
    BY DEF KeysBound, Bound, Shaped
  <1>6. /\ L \in Nat /\ L >= 1 /\ DOMAIN sent[r] = 1 .. L - 1 /\ DOMAIN a = 1 .. L
        /\ \A i \in 1 .. L - 1 : a[i] = sent[r][i]
        /\ a[L] = e
    BY <1>0, <1>5, Appended
  <1> HIDE DEF a
  <1>7. \A x \in Requests : \A i : Charge(x, i).who = x /\ Charge(x, i).nr = i
    BY DEF Charge
  <1>8. b.who = r /\ b.nr = L
    OBVIOUS
  <1>9. Charge(r, L)' = b
    <2>1. sent'[r][L].day = e.day
      BY <1>4, <1>6
    <2> QED
      BY <1>1, <2>1 DEF Charge, SameOwner
  <1>10. ASSUME NEW x \in Requests, NEW i \in DOMAIN sent[x] PROVE Charge(x, i)' = Charge(x, i)
    <2>1. sent'[x][i].day = sent[x][i].day
      BY <1>4, <1>6
    <2> QED
      BY <1>2, <2>1 DEF Charge, SameOwner
  <1> HIDE DEF b
  <1>11. ASSUME NEW g, NEW p
         PROVE  \A c : c \in Charges(g, p) <=> \E x \in Requests : \E i : req[x].gen = g /\ For(x, i, p) /\ c = Charge(x, i)
    BY DEF Charges
  <1>12. ASSUME NEW g, NEW p
         PROVE  \A c : c \in Charges(g, p)'
                       <=> \E x \in Requests : \E i : req'[x].gen = g /\ For(x, i, p)' /\ c = Charge(x, i)'
    BY DEF Charges
  <1>13. ASSUME NEW g, NEW p PROVE b \notin Charges(g, p)
    <2> SUFFICES ASSUME NEW x \in Requests, NEW i, For(x, i, p), b = Charge(x, i) PROVE FALSE
      BY <1>11
    <2>1. x = r /\ i = L
      BY <1>7, <1>8
    <2> QED
      BY <1>6, <2>1
  <1>14. ASSUME NEW x \in Requests, NEW i, NEW p
         PROVE  For(x, i, p)' <=> For(x, i, p) \/ (x = r /\ i = L /\ e.charged /\ e.provider = p)
    <2>1. CASE x # r
      BY <1>4, <2>1
    <2>2. CASE x = r
      <3>1. CASE i = L
        <4>1. sent'[x][i] = e /\ i \in DOMAIN sent'[x] /\ i \notin DOMAIN sent[x]
          BY <1>4, <1>6, <2>2, <3>1
        <4> QED
          BY <2>2, <3>1, <4>1
      <3>2. CASE i # L
        <4>1. i \in DOMAIN a <=> i \in DOMAIN sent[r]
          BY <1>6, <3>2
        <4>2. i \in DOMAIN sent[r] => a[i] = sent[r][i]
          BY <1>6
        <4> QED
          BY <1>4, <2>2, <3>2, <4>1, <4>2
      <3> QED
        BY <3>1, <3>2
    <2> QED
      BY <2>1, <2>2
  <1>15. \A x \in Requests : \A i, p : For(x, i, p) => Charge(x, i)' = Charge(x, i)
    BY <1>10
  <1> HIDE DEF For
  <1>16. ASSUME NEW g, NEW p
         PROVE  Charges(g, p)' = IF e.charged /\ e.provider = p /\ req[r].gen = g THEN Charges(g, p) \cup {b} ELSE Charges(g, p)
    <2>1. \A x \in Requests : req'[x].gen = req[x].gen
      BY <1>2 DEF SameOwner
    <2>2. ASSUME NEW c
          PROVE  c \in Charges(g, p)' <=> c \in Charges(g, p) \/ (e.charged /\ e.provider = p /\ req[r].gen = g /\ c = b)
      <3>1. ASSUME c \in Charges(g, p)'
            PROVE  c \in Charges(g, p) \/ (e.charged /\ e.provider = p /\ req[r].gen = g /\ c = b)
        <4>0. PICK x \in Requests : \E i : req'[x].gen = g /\ For(x, i, p)' /\ c = Charge(x, i)'
          BY <1>12, <3>1
        <4>1. PICK i : req'[x].gen = g /\ For(x, i, p)' /\ c = Charge(x, i)'
          BY <4>0
        <4>2. CASE For(x, i, p)
          BY <1>11, <1>15, <2>1, <4>1, <4>2
        <4>3. CASE x = r /\ i = L /\ e.charged /\ e.provider = p
          BY <1>9, <2>1, <4>1, <4>3
        <4> QED
          BY <1>14, <4>1, <4>2, <4>3
      <3>2. ASSUME c \in Charges(g, p) PROVE c \in Charges(g, p)'
        <4>0. PICK x \in Requests : \E i : req[x].gen = g /\ For(x, i, p) /\ c = Charge(x, i)
          BY <1>11, <3>2
        <4>1. PICK i : req[x].gen = g /\ For(x, i, p) /\ c = Charge(x, i)
          BY <4>0
        <4>2. For(x, i, p)' /\ c = Charge(x, i)' /\ req'[x].gen = g
          BY <1>14, <1>15, <2>1, <4>1
        <4> QED
          BY <1>12, <4>2
      <3>3. ASSUME e.charged, e.provider = p, req[r].gen = g, c = b PROVE c \in Charges(g, p)'
        <4>1. For(r, L, p)' /\ c = Charge(r, L)' /\ req'[r].gen = g
          BY <1>9, <1>14, <2>1, <3>3
        <4> QED
          BY <1>12, <4>1
      <3> QED
        BY <3>1, <3>2, <3>3
    <2> QED
      BY <2>2
  <1> QED
    BY <1>0, <1>3, <1>13, <1>16 DEF b

(* The tracker and the provider a dispatch is charged on.                  *)
ChargedFor(q, e, g, p) == g = q.gen /\ p = e.provider

(* A dispatch that is charged fits the provider's budget, unless its key   *)
(* is of the tier that is always served.                                   *)
LEMMA ProvBooks ==
    ASSUME BudgetInv, KeysBound', NEW r \in Requests, NEW n, Set(r, n), UNCHANGED <<now, current>>, Accounted(n),
           SameOwner(req[r], n), NEW e, sent' = [sent EXCEPT ![r] = Append(sent[r], e)], e.day = Day(now), e.charged,
           req[r].in.tokens \in Nat, NEW g, NEW p, ChargedFor(req[r], e, g, p),
           NEW v, tracker' = [tracker EXCEPT ![g].prov[p] = v],
           g \in Gens /\ p \in DOMAIN Providers
             => /\ DOMAIN v = {"day", "tokens"} /\ v.day = Day(now)
                /\ v.tokens = Carry(tracker[g].prov[p], Day(now)) + req[r].in.tokens
                /\ v.tokens <= Providers[p].budget \/ tierOf(req[r].key) = "always"
    PROVE  BudgetInv'
  <1> DEFINE b == [who |-> r, nr |-> Len(sent[r]) + 1, day |-> e.day, tokens |-> req[r].in.tokens,
                   tier |-> tierOf(req[r].key)]
  <1>1. /\ \A h, j : Reservations(h, j)' = Reservations(h, j)
        /\ \A h, j : b \notin Charges(h, j)
        /\ \A h, j : Charges(h, j)' = IF e.charged /\ e.provider = j /\ req[r].gen = h
                                      THEN Charges(h, j) \cup {b} ELSE Charges(h, j)
    BY ChargeMade DEF BudgetInv
  <1>2. /\ TrackerShaped'
        /\ \A h \in Gens, j \in DOMAIN Providers :
             tracker'[h].prov[j] = IF h = g /\ j = p THEN v ELSE tracker[h].prov[j]
        /\ \A h \in Gens : tracker'[h].keys = tracker[h].keys
    BY ProvUseSet DEF BudgetInv
  <1>3. b.day = Day(now) /\ b.tokens = req[r].in.tokens /\ b.tier = tierOf(req[r].key) /\ Day(now) \in Int
    BY Today
  <1> HIDE DEF b
  <1>4. ASSUME NEW h \in Gens, NEW j \in DOMAIN Providers
        PROVE  /\ DayLedger(Charges(h, j)', tracker'[h].prov[j], Day(now))
               /\ ProvWithin(Charges(h, j)', tracker'[h].prov[j], j)
    <2>1. DayLedger(Charges(h, j), tracker[h].prov[j], Day(now)) /\ ProvWithin(Charges(h, j), tracker[h].prov[j], j)
      BY DEF BudgetInv, ProvLedgers, ProvLedger
    <2>2. CASE h = g /\ j = p
      <3>1. /\ tracker'[h].prov[j] = v /\ v.day = Day(now)
            /\ v.tokens = Carry(tracker[h].prov[j], Day(now)) + b.tokens
            /\ v.tokens <= Providers[j].budget \/ b.tier = "always"
        BY <1>2, <1>3, <2>2
      <3>2. Charges(h, j)' = Charges(h, j) \cup {b} /\ b \notin Charges(h, j)
        BY <1>1, <2>2 DEF ChargedFor
      <3>3. DayLedger(Charges(h, j) \cup {b}, v, Day(now))
        BY <1>3, <2>1, <3>1, <3>2, LedgerBooked
      <3>4. ProvWithin(Charges(h, j) \cup {b}, v, j)
        <4>1. b \in OfDay(Charges(h, j) \cup {b}, v.day)
          BY <1>3, <3>1 DEF OfDay
        <4> QED
          BY <3>1, <4>1 DEF ProvWithin
      <3> QED
        BY <3>1, <3>2, <3>3, <3>4
    <2>3. CASE ~(h = g /\ j = p)
      <3>1. tracker'[h].prov[j] = tracker[h].prov[j] /\ Charges(h, j)' = Charges(h, j)
        BY <1>1, <1>2, <2>3 DEF ChargedFor
      <3> QED
        BY <2>1, <3>1
    <2> QED
      BY <2>2, <2>3
  <1>5. ASSUME NEW h \in Gens, NEW j \in KeyNames
        PROVE  /\ DayLedger(Reservations(h, j)', tracker'[h].keys[j], Day(now))
               /\ KeyWithin(Reservations(h, j)', tracker'[h].keys[j])
    <2>1. DayLedger(Reservations(h, j), tracker[h].keys[j], Day(now)) /\ KeyWithin(Reservations(h, j), tracker[h].keys[j])
      BY DEF BudgetInv, KeyLedgers, KeyLedger
    <2>2. Reservations(h, j)' = Reservations(h, j) /\ tracker'[h].keys[j] = tracker[h].keys[j]
      BY <1>1, <1>2
    <2> QED
      BY <2>1, <2>2
  <1>6. KeyLedgers' /\ ProvLedgers'
    BY <1>4, <1>5, Balanced
  <1>7. AllAccounted'
    BY AccountsKept DEF BudgetInv
  <1> QED
    BY <1>2, <1>6, <1>7 DEF BudgetInv

(* A dispatch that is not charged leaves the trackers as they were.        *)
LEMMA Uncharged ==
    ASSUME BudgetInv, KeysBound', NEW r \in Requests, NEW n, Set(r, n), UNCHANGED <<now, current, tracker>>, Accounted(n),
           SameOwner(req[r], n), NEW e, sent' = [sent EXCEPT ![r] = Append(sent[r], e)], ~e.charged
    PROVE  BudgetInv'
  <1>1. /\ \A g, k : Reservations(g, k)' = Reservations(g, k)
        /\ \A g, p : Charges(g, p)' = Charges(g, p)
    <2> DEFINE b == [who |-> r, nr |-> Len(sent[r]) + 1, day |-> e.day, tokens |-> req[r].in.tokens,
                     tier |-> tierOf(req[r].key)]
    <2>1. /\ \A g, k : Reservations(g, k)' = Reservations(g, k)
          /\ \A g, p : Charges(g, p)' = IF e.charged /\ e.provider = p /\ req[r].gen = g
                                        THEN Charges(g, p) \cup {b} ELSE Charges(g, p)
      BY ChargeMade DEF BudgetInv
    <2> HIDE DEF b
    <2> QED
      BY <2>1
  <1>2. KeyLedgers' /\ ProvLedgers'
    BY <1>1, KeysStay, ProvidersStay DEF BudgetInv
  <1>3. AllAccounted'
    BY AccountsKept DEF BudgetInv
  <1>4. TrackerShaped'
    BY DEF BudgetInv, TrackerShaped, Gens, KeyNames
  <1> QED
    BY <1>2, <1>3, <1>4 DEF BudgetInv

(* checkPreDispatchGuards and prepareAndSend: a dispatch that passes is    *)
(* charged once, whether or not it is sent; one that does not pass only    *)
(* rolls the day.                                                          *)
LEMMA DispatchBooks ==
    ASSUME BudgetInv, NEW r \in Requests, NEW outcome \in {"sent", "unbuilt", "gone"}, Dispatch(r, outcome)
    PROVE  BudgetInv'
  <1> DEFINE q == req[r]
             g == q.gen
             p == q.targets[q.idx]
             u == tracker[g].prov[p]
             c == AllowProviderTokens(u, tierOf(q.key), Providers[p].budget, q.in.tokens)
             gate == providerBudgetGate(q)
             body == <<p, q.turn, q.variant>>
             keyed == injectIdempotencyKey(r, p, q.header, body)
             built == outcome = "sent"
             e == [provider |-> p, body |-> IF built THEN body ELSE NoBody, day |-> Day(now), charged |-> gate.charged,
                   key |-> IF built /\ Providers[p].idempotencyHeader THEN keyed.key ELSE NoKey]
             m == [q EXCEPT !.header = keyed, !.pc = "waiting"]
  <1>1. /\ Accounted(q) /\ Bound(r, q, sent[r]) /\ DOMAIN q = RequestFields /\ q.pc = "guards"
        /\ UNCHANGED <<now, current>>
    BY DEF Dispatch, BudgetInv, AllAccounted, KeysBound, Bound, Shaped
  <1>2. KeysBound'
    BY DispatchBound DEF BudgetInv
  <1>3. q.in.tokens \in Nat
    BY <1>1, AdmissionAssumption DEF Bound, Known, InSweep
  <1>4. g \in Gens /\ p \in DOMAIN Providers => DOMAIN u = {"day", "tokens"}
    BY DEF BudgetInv, TrackerShaped
  <1>5. DOMAIN u = {"day", "tokens"}
          => /\ DOMAIN c.use = {"day", "tokens"} /\ c.use.day = Day(now)
             /\ c.use.tokens = IF c.ok THEN Carry(u, Day(now)) + q.in.tokens ELSE Carry(u, Day(now))
             /\ c.ok => c.use.tokens <= Providers[p].budget \/ tierOf(q.key) = "always"
    BY ProvCharged
  <1>6. \/ ~gate.charged /\ gate.ok /\ gate.tracker = tracker
        \/ gate.charged /\ gate.ok = c.ok /\ gate.tracker = [tracker EXCEPT ![g].prov[p] = c.use]
    BY DEF providerBudgetGate, AllowProviderTokens
  <1>7. /\ tracker' = gate.tracker
        /\ IF ~gate.ok THEN Set(r, Onward(q)) /\ sent' = sent
           ELSE /\ sent' = [sent EXCEPT ![r] = Append(sent[r], e)]
                /\ Set(r, CASE outcome = "sent" -> m [] outcome = "unbuilt" -> Onward(q) [] outcome = "gone" -> Over(q))
    BY DEF Dispatch
  <1>8. e.provider = p /\ e.day = Day(now) /\ e.charged = gate.charged
    OBVIOUS
  <1>9. SameOwner(q, Onward(q)) /\ Accounted(Onward(q))
    BY <1>1, OnwardAccounted
  <1>10. SameOwner(q, m) /\ Accounted(m) /\ SameOwner(q, Over(q)) /\ Accounted(Over(q))
    <2>1. SameOwner(q, m) /\ m.pc = "waiting"
      BY <1>1, Zenon DEF RequestFields, SameOwner
    <2> QED
      BY <1>1, <2>1, OverOwner, StaysAccounted
  <1>11. ChargedFor(q, e, g, p)
    BY DEF ChargedFor
  <1> HIDE DEF c, gate, e, m
  <1>12. CASE ~gate.ok
    <2>1. tracker' = [tracker EXCEPT ![g].prov[p] = c.use] /\ ~c.ok /\ Set(r, Onward(q)) /\ sent' = sent
      BY <1>6, <1>7, <1>12
    <2>2. g \in Gens /\ p \in DOMAIN Providers
            => DOMAIN c.use = {"day", "tokens"} /\ c.use.day = Day(now) /\ c.use.tokens = Carry(u, Day(now))
      BY <1>4, <1>5, <2>1
    <2> HIDE DEF g, p
    <2> QED
      BY <1>1, <1>2, <1>9, <2>1, <2>2, ProvOnlyRolls
  <1>13. CASE gate.ok
    <2>1. PICK n : Set(r, n) /\ SameOwner(q, n) /\ Accounted(n)
      BY <1>7, <1>9, <1>10, <1>13
    <2>2. sent' = [sent EXCEPT ![r] = Append(sent[r], e)]
      BY <1>7, <1>13
    <2>3. CASE ~gate.charged
      <3>1. tracker' = tracker /\ ~e.charged
        BY <1>6, <1>7, <1>8, <2>3
      <3> QED
        BY <1>1, <1>2, <2>1, <2>2, <3>1, Uncharged
    <2>4. CASE gate.charged
      <3>1. tracker' = [tracker EXCEPT ![g].prov[p] = c.use] /\ c.ok /\ e.charged
        BY <1>6, <1>7, <1>8, <1>13, <2>4
      <3>2. g \in Gens /\ p \in DOMAIN Providers
              => /\ DOMAIN c.use = {"day", "tokens"} /\ c.use.day = Day(now)
                 /\ c.use.tokens = Carry(u, Day(now)) + q.in.tokens
                 /\ c.use.tokens <= Providers[p].budget \/ tierOf(q.key) = "always"
        BY <1>4, <1>5, <3>1
      <3> HIDE DEF g, p
      <3> QED
        BY <1>1, <1>2, <1>3, <1>8, <1>11, <2>1, <2>2, <3>1, <3>2, ProvBooks
    <2> QED
      BY <2>3, <2>4
  <1> QED
    BY <1>12, <1>13

(* A minute passes.                                                        *)
LEMMA TickBooks ==
    ASSUME BudgetInv, Tick
    PROVE  BudgetInv'
  <1>1. now \in Nat /\ now' = now + 1 /\ UNCHANGED <<current, tracker, req, sent>>
    BY DEF Tick, BudgetInv
  <1>2. Day(now) \in Int /\ Day(now') \in Int /\ Day(now) <= Day(now')
    BY <1>1, DaysPass
  <1>3. KeysBound' /\ AllAccounted' /\ TrackerShaped'
    BY <1>1 DEF BudgetInv, KeysBound, AllAccounted, Accounted, reserves, TrackerShaped, Gens, KeyNames
  <1>4. KeyLedgers'
    <2> SUFFICES ASSUME NEW g \in Gens', NEW k \in KeyNames' PROVE KeyLedger(g, k)'
      BY DEF KeyLedgers
    <2>1. g \in Gens /\ k \in KeyNames
      BY DEF Gens, KeyNames
    <2>2. Reservations(g, k)' = Reservations(g, k)
      BY <1>1 DEF Reservations, Reservation
    <2>3. DayLedger(Reservations(g, k), tracker[g].keys[k], Day(now)) /\ KeyWithin(Reservations(g, k), tracker[g].keys[k])
      BY <2>1 DEF BudgetInv, KeyLedgers, KeyLedger
    <2>4. DayLedger(Reservations(g, k), tracker[g].keys[k], Day(now'))
      BY <1>2, <2>3, LedgerLater
    <2>5. Day(now)' = Day(now')
      BY DEF Day
    <2> QED
      BY <1>1, <2>2, <2>3, <2>4, <2>5 DEF KeyLedger, DayLedger, KeyWithin, OfDay, Units
  <1>5. ProvLedgers'
    <2> SUFFICES ASSUME NEW g \in Gens', NEW p \in DOMAIN Providers PROVE ProvLedger(g, p)'
      BY DEF ProvLedgers
    <2>1. g \in Gens
      BY DEF Gens
    <2>2. Charges(g, p)' = Charges(g, p)
      BY <1>1 DEF Charges, Charge
    <2>3. DayLedger(Charges(g, p), tracker[g].prov[p], Day(now)) /\ ProvWithin(Charges(g, p), tracker[g].prov[p], p)
      BY <2>1 DEF BudgetInv, ProvLedgers, ProvLedger
    <2>4. DayLedger(Charges(g, p), tracker[g].prov[p], Day(now'))
      BY <1>2, <2>3, LedgerLater
    <2>5. Day(now)' = Day(now')
      BY DEF Day
    <2> QED
      BY <1>1, <2>2, <2>3, <2>4, <2>5 DEF ProvLedger, DayLedger, ProvWithin, OfDay, Units
  <1> QED
    BY <1>1, <1>3, <1>4, <1>5 DEF BudgetInv

(* The first minute is of no day before the first.                         *)
LEMMA DaysCount ==
    ASSUME NEW t \in Nat
    PROVE  Day(t) \in Nat
  <1> DEFINE d == DayLength
             a == t \div d
  <1>1. d \in Nat /\ d > 0
    BY AdmissionAssumption
  <1>2. a \in Int /\ t < d * a + d
    BY <1>1
  <1> HIDE DEF a, d
  <1>3. a >= 0
    <2> SUFFICES ASSUME a <= -1 PROVE FALSE
      BY <1>2
    <2>1. d * (a + 1) <= 0
      BY <1>1, <1>2
    <2>2. d * (a + 1) = d * a + d /\ d * a \in Int
      BY <1>1, <1>2
    <2> QED
      BY <1>1, <1>2, <2>1, <2>2
  <1> QED
    BY <1>2, <1>3 DEF Day, a, d

(* A new tracker has booked nothing.                                       *)
LEMMA FreshTracker ==
    /\ DOMAIN NewTracker = {"keys", "prov"} /\ DOMAIN NewTracker.keys = KeyNames
    /\ DOMAIN NewTracker.prov = DOMAIN Providers
    /\ \A k \in KeyNames : LET u == NewTracker.keys[k] IN DOMAIN u = UseFields /\ u.day = -1 /\ u.tokens = 0
    /\ \A p \in DOMAIN Providers : LET u == NewTracker.prov[p] IN DOMAIN u = {"day", "tokens"} /\ u.day = -1 /\ u.tokens = 0
  <1> DEFINE ks == [k \in KeyNames |-> [start |-> -1, count |-> 0, day |-> -1, tokens |-> 0]]
             ps == [p \in DOMAIN Providers |-> [day |-> -1, tokens |-> 0]]
  <1>1. NewTracker = [keys |-> ks, prov |-> ps]
    BY DEF NewTracker, KeyNames
  <1>2. DOMAIN ks = KeyNames /\ \A k \in KeyNames : DOMAIN ks[k] = UseFields /\ ks[k].day = -1 /\ ks[k].tokens = 0
    BY DEF UseFields
  <1>3. /\ DOMAIN ps = DOMAIN Providers
        /\ \A p \in DOMAIN Providers : DOMAIN ps[p] = {"day", "tokens"} /\ ps[p].day = -1 /\ ps[p].tokens = 0
    OBVIOUS
  <1> HIDE DEF ks, ps
  <1> QED
    BY <1>1, <1>2, <1>3

(* Its totals are those of no bookings.                                    *)
LEMMA FreshLedger ==
    ASSUME NEW u, u.day = -1, u.tokens = 0, NEW today \in Nat
    PROVE  DayLedger({}, u, today) /\ KeyWithin({}, u) /\ \A p : ProvWithin({}, u, p)
  <1>1. OfDay({}, u.day) = {}
    BY DEF OfDay
  <1> QED
    BY <1>1, NoUnits DEF DayLedger, KeyWithin, ProvWithin

(* Gateway.Reload: nobody has booked on the tracker of a gateway to come.  *)
LEMMA ReloadBooks ==
    ASSUME BudgetInv, Reload
    PROVE  BudgetInv'
  <1> DEFINE c == current + 1
  <1>1. current \in Nat /\ current' = c /\ tracker' = [tracker EXCEPT ![c] = NewTracker] /\ UNCHANGED <<now, req, sent>>
    BY DEF Reload, BudgetInv
  <1>2. KeysBound' /\ AllAccounted'
    <2>1. KeysBound'
      BY <1>1 DEF BudgetInv, KeysBound
    <2>2. \A x \in Requests : Accounted(req[x])'
      BY <1>1 DEF BudgetInv, AllAccounted, Accounted, reserves
    <2> QED
      BY <2>1, <2>2 DEF AllAccounted
  <1>3. DOMAIN tracker' = Gens /\ \A g \in Gens : tracker'[g] = IF g = c THEN NewTracker ELSE tracker[g]
    BY <1>1 DEF BudgetInv, TrackerShaped
  <1>4. TrackerShaped'
    <2>1. ASSUME NEW g \in Gens
          PROVE  /\ DOMAIN tracker'[g] = {"keys", "prov"} /\ DOMAIN tracker'[g].keys = KeyNames
                 /\ DOMAIN tracker'[g].prov = DOMAIN Providers
                 /\ \A k \in KeyNames : DOMAIN tracker'[g].keys[k] = UseFields
                 /\ \A p \in DOMAIN Providers : DOMAIN tracker'[g].prov[p] = {"day", "tokens"}
      <3>1. CASE g = c
        <4>1. tracker'[g] = NewTracker
          BY <1>3, <3>1
        <4> QED
          BY <4>1, FreshTracker
      <3>2. CASE g # c
        <4>1. tracker'[g] = tracker[g]
          BY <1>3, <3>2
        <4> QED
          BY <4>1 DEF BudgetInv, TrackerShaped
      <3> QED
        BY <3>1, <3>2
    <2> QED
      BY <1>3, <2>1 DEF TrackerShaped, Gens, KeyNames
  <1>5. /\ \A g, k : Reservations(g, k)' = Reservations(g, k)
        /\ \A g, p : Charges(g, p)' = Charges(g, p)
    BY <1>1 DEF Reservations, Reservation, Charges, Charge
  <1>6. /\ \A k : Reservations(c, k) = {}
        /\ \A p : Charges(c, p) = {}
    <2>1. \A x \in Requests : req[x].gen # c
      BY <1>1 DEF BudgetInv, AllAccounted, Accounted
    <2> QED
      BY <2>1 DEF Reservations, Charges
  <1>7. Day(now) \in Nat
    BY DaysCount DEF BudgetInv
  <1>8. ASSUME NEW g \in Gens, NEW k \in KeyNames
        PROVE  /\ DayLedger(Reservations(g, k)', tracker'[g].keys[k], Day(now))
               /\ KeyWithin(Reservations(g, k)', tracker'[g].keys[k])
    <2>1. CASE g = c
      <3>1. tracker'[g] = NewTracker /\ Reservations(g, k)' = {}
        BY <1>3, <1>5, <1>6, <2>1
      <3>2. tracker'[g].keys[k].day = -1 /\ tracker'[g].keys[k].tokens = 0
        BY <3>1, FreshTracker
      <3>3. DayLedger({}, tracker'[g].keys[k], Day(now)) /\ KeyWithin({}, tracker'[g].keys[k])
        BY <1>7, <3>2, FreshLedger
      <3> QED
        BY <3>1, <3>3
    <2>2. CASE g # c
      <3>1. tracker'[g].keys[k] = tracker[g].keys[k] /\ Reservations(g, k)' = Reservations(g, k)
        BY <1>3, <1>5, <2>2
      <3>2. /\ DayLedger(Reservations(g, k), tracker[g].keys[k], Day(now))
            /\ KeyWithin(Reservations(g, k), tracker[g].keys[k])
        BY DEF BudgetInv, KeyLedgers, KeyLedger
      <3> QED
        BY <3>1, <3>2
    <2> QED
      BY <2>1, <2>2
  <1>9. ASSUME NEW g \in Gens, NEW p \in DOMAIN Providers
        PROVE  /\ DayLedger(Charges(g, p)', tracker'[g].prov[p], Day(now))
               /\ ProvWithin(Charges(g, p)', tracker'[g].prov[p], p)
    <2>1. CASE g = c
      <3>1. tracker'[g] = NewTracker /\ Charges(g, p)' = {}
        BY <1>3, <1>5, <1>6, <2>1
      <3>2. tracker'[g].prov[p].day = -1 /\ tracker'[g].prov[p].tokens = 0
        BY <3>1, FreshTracker
      <3>3. DayLedger({}, tracker'[g].prov[p], Day(now)) /\ ProvWithin({}, tracker'[g].prov[p], p)
        BY <1>7, <3>2, FreshLedger
      <3> QED
        BY <3>1, <3>3
    <2>2. CASE g # c
      <3>1. tracker'[g].prov[p] = tracker[g].prov[p] /\ Charges(g, p)' = Charges(g, p)
        BY <1>3, <1>5, <2>2
      <3>2. /\ DayLedger(Charges(g, p), tracker[g].prov[p], Day(now))
            /\ ProvWithin(Charges(g, p), tracker[g].prov[p], p)
        BY DEF BudgetInv, ProvLedgers, ProvLedger
      <3> QED
        BY <3>1, <3>2
    <2> QED
      BY <2>1, <2>2
  <1>10. KeyLedgers' /\ ProvLedgers'
    BY <1>1, <1>8, <1>9, Balanced
  <1> QED
    BY <1>1, <1>2, <1>4, <1>10 DEF BudgetInv

(* Initially nothing is booked.                                            *)
LEMMA BudgetInit == DInit => BudgetInv
  <1> SUFFICES ASSUME DInit PROVE BudgetInv
    OBVIOUS
  <1>1. KeysBound
    BY KeysInit
  <1>2. now \in Nat /\ current = 1 /\ DOMAIN tracker = Gens /\ \A g \in Gens : tracker[g] = NewTracker
    BY DEF DInit
  <1>3. \A r \in Requests : req[r] = NoRequest /\ sent[r] = <<>> /\ req[r].gen = 0 /\ req[r].reserved = <<>>
    BY DEF DInit, NoRequest
  <1>4. AllAccounted
    BY <1>2, <1>3 DEF AllAccounted, Accounted
  <1>5. TrackerShaped
    BY <1>2, FreshTracker DEF TrackerShaped
  <1>6. /\ \A g, k : Reservations(g, k) = {}
        /\ \A g, p : Charges(g, p) = {}
    BY <1>3 DEF Reservations, Charges
  <1>7. Day(now) \in Nat
    BY <1>2, DaysCount
  <1>8. KeyLedgers
    <2> SUFFICES ASSUME NEW g \in Gens, NEW k \in KeyNames PROVE KeyLedger(g, k)
      BY DEF KeyLedgers
    <2>1. tracker[g].keys[k].day = -1 /\ tracker[g].keys[k].tokens = 0
      BY <1>2, FreshTracker
    <2>2. DayLedger({}, tracker[g].keys[k], Day(now)) /\ KeyWithin({}, tracker[g].keys[k])
      BY <1>7, <2>1, FreshLedger
    <2> QED
      BY <1>6, <2>2 DEF KeyLedger
  <1>9. ProvLedgers
    <2> SUFFICES ASSUME NEW g \in Gens, NEW p \in DOMAIN Providers PROVE ProvLedger(g, p)
      BY DEF ProvLedgers
    <2>1. tracker[g].prov[p].day = -1 /\ tracker[g].prov[p].tokens = 0
      BY <1>2, FreshTracker
    <2>2. DayLedger({}, tracker[g].prov[p], Day(now)) /\ ProvWithin({}, tracker[g].prov[p], p)
      BY <1>7, <2>1, FreshLedger
    <2> QED
      BY <1>6, <2>2 DEF ProvLedger
  <1> QED
    BY <1>1, <1>2, <1>4, <1>5, <1>8, <1>9 DEF BudgetInv

(* Every step of the admission keeps the books.                            *)
LEMMA BudgetKept == BudgetInv /\ [DNext]_dvars => BudgetInv'
  <1> SUFFICES ASSUME BudgetInv, [DNext]_dvars PROVE BudgetInv'
    OBVIOUS
  <1>1. ASSUME NEW r \in Requests, NEW in \in Inputs, NEW m, Enter(r, in, m) PROVE BudgetInv'
    BY <1>1, EnterBooks
  <1>2. ASSUME NEW r \in Requests, NEW readable \in BOOLEAN, Authenticate(r, readable) PROVE BudgetInv'
    BY <1>2, AuthenticateBooks
  <1>3. ASSUME NEW r \in Requests, Reserve(r) \/ Skipped(r) \/ Stopped(r) PROVE BudgetInv'
    BY <1>3, ReserveBooks, AfterwardsBooks
  <1>4. ASSUME NEW r \in Requests, NEW c \in BOOLEAN, NEW f \in BOOLEAN, Validate(r, c, f) PROVE BudgetInv'
    BY <1>4, ValidateBooks
  <1>5. ASSUME NEW r \in Requests, NEW o \in {"sent", "unbuilt", "gone"}, Dispatch(r, o) PROVE BudgetInv'
    BY <1>5, DispatchBooks
  <1>6. ASSUME NEW r \in Requests,
               Answered(r) \/ Failover(r) \/ SameTarget(r) \/ Corrected(r) \/ Continued(r) \/ NextTurn(r)
        PROVE  BudgetInv'
    BY <1>6, AfterwardsBooks, AgainBooks
  <1>7. CASE Tick \/ Reload
    BY <1>7, TickBooks, ReloadBooks
  <1>8. CASE UNCHANGED dvars
    <2>1. UNCHANGED <<now, current, tracker, req, sent>>
      BY <1>8 DEF dvars
    <2>2. KeysBound' /\ AllAccounted' /\ TrackerShaped'
      BY <2>1 DEF BudgetInv, KeysBound, AllAccounted, Accounted, reserves, TrackerShaped, Gens, KeyNames
    <2>3. /\ \A g, k : Reservations(g, k)' = Reservations(g, k)
          /\ \A g, p : Charges(g, p)' = Charges(g, p)
      BY <2>1 DEF Reservations, Reservation, Charges, Charge
    <2>4. KeyLedgers' /\ ProvLedgers'
      BY <2>1, <2>3, KeysStay, ProvidersStay DEF BudgetInv
    <2> QED
      BY <2>1, <2>2, <2>4 DEF BudgetInv
  <1> QED
    BY <1>1, <1>2, <1>3, <1>4, <1>5, <1>6, <1>7, <1>8 DEF DNext

(* keylimits.go, retry.go enforceBudgets: for any keys, budgets, chains    *)
(* and length of the day, whatever sweeps, tool turns, continuations,      *)
(* midnights and reloads come between: a key's day total is the sum of one *)
(* reservation per request and within a budget of the key, and a           *)
(* provider's is the sum of the dispatches it was charged for, within its  *)
(* budget where only keys of the fill tier were charged.                   *)
THEOREM BudgetsHold == DSpec => []ReservedOnce
  <1>1. DSpec => []BudgetInv
    BY BudgetInit, BudgetKept, PTL DEF DSpec
  <1>2. ASSUME BudgetInv PROVE ReservedOnce
    <2> SUFFICES ASSUME NEW g \in Gens
                 PROVE  /\ \A k \in DOMAIN tracker[g].keys :
                             LET u == tracker[g].keys[k]
                                 booked == OfDay(Reservations(g, k), u.day)
                             IN  /\ u.tokens = Cardinality(Units(booked))
                                 /\ booked # {} => \E b \in booked : u.tokens <= b.budget
                        /\ \A p \in DOMAIN Providers :
                             LET u == tracker[g].prov[p]
                                 booked == OfDay(Charges(g, p), u.day)
                             IN  /\ u.tokens = Cardinality(Units(booked))
                                 /\ booked # {} /\ (\A b \in booked : b.tier = "fill") => u.tokens <= Providers[p].budget
      BY DEF ReservedOnce
    <2>1. ASSUME NEW k \in DOMAIN tracker[g].keys
          PROVE  DayLedger(Reservations(g, k), tracker[g].keys[k], Day(now)) /\ KeyWithin(Reservations(g, k), tracker[g].keys[k])
      BY <1>2 DEF BudgetInv, TrackerShaped, KeyLedgers, KeyLedger
    <2>2. ASSUME NEW p \in DOMAIN Providers
          PROVE  DayLedger(Charges(g, p), tracker[g].prov[p], Day(now)) /\ ProvWithin(Charges(g, p), tracker[g].prov[p], p)
      BY <1>2 DEF BudgetInv, ProvLedgers, ProvLedger
    <2> QED
      BY <2>1, <2>2 DEF DayLedger, KeyWithin, ProvWithin
  <1> QED
    BY <1>1, <1>2, PTL
=============================================================================
