----------------------------- MODULE ConfigLife -----------------------------
(***************************************************************************)
(* The life of a configuration: the documents on disk, the writers of      *)
(* "config set" and "secret set", the start of the gateway and its SIGHUP  *)
(* reload (cmd/nenya, config/loading.go, secrets_refs.go, continuity.go).  *)
(*                                                                         *)
(* files is the pair of the base file and the managed drop-in, the only    *)
(* file "config set" writes.  vault holds the secrets sources in search    *)
(* order: the credential file, the merge directory (its documents in       *)
(* file-name order) and the config root's secrets.json; reference is what  *)
(* an env: or file: provider key currently resolves to.                    *)
(***************************************************************************)
EXTENDS ConfigValidation

CONSTANTS Topics,      \* the sets of settings a behaviour may write
          Given(_),    \* settings the base file always has for a topic
          Vaults(_),   \* the secrets a behaviour on the topic may start with
          MaxEdits     \* bound on the operator's edits

VARIABLES topic, files, vault, reference, gateway, edits

cvars == <<topic, files, vault, reference, gateway, edits>>

(* A secrets document: its client token, the provider's key, its API key.  *)
absent == [state |-> "absent"]

(* At most one setting of the topic.                                       *)
OneSetting(t) == {<<>>} \cup UNION {{s :> v : v \in Written(s)} : s \in t}

(***************************************************************************)
(* Secrets.                                                                *)
(***************************************************************************)
unreadable == [state |-> "unreadable"]

IsDocument(d) ==
    d \in {absent, unreadable} \/ (DOMAIN d = {"state", "token", "key", "api"} /\ d.state = "ok")

IsVault(v) ==
    /\ DOMAIN v = {"cred", "dir", "root", "envDir"} /\ DOMAIN v.dir = 1..3
    /\ IsDocument(v.cred) /\ IsDocument(v.root) /\ \A i \in 1..3 : IsDocument(v.dir[i])

ASSUME VaultsAssumption == \A t \in Topics : \A v \in Vaults(t) : IsVault(v)

(* mergeSecrets: later documents win, a disabled API key never replaces;   *)
(* one unreadable document fails the directory.                            *)
mergeSecrets(a, b) ==
    IF a = absent THEN b ELSE IF b = absent THEN a
    ELSE IF unreadable \in {a, b} THEN unreadable
    ELSE [state |-> "ok",
          token |-> IF b.token = "unset" THEN a.token ELSE b.token,
          key   |-> IF b.key = "unset" THEN a.key ELSE b.key,
          api   |-> IF at(b.api, "api_key.enabled") = "on" THEN b.api ELSE a.api]

(* Three documents: one before the file "secret set" writes, one after it. *)
loadSecretsFromDir(dir) == mergeSecrets(mergeSecrets(dir[1], dir[2]), dir[3])

(* The first source that exists wins; one that cannot be read stops the    *)
(* search.                                                                 *)
sources(v) == <<v.cred, loadSecretsFromDir(v.dir), v.root>>

ResolveSecrets(v) ==
    LET found == {i \in 1..3 : sources(v)[i] # absent}
    IN  IF found = {} THEN absent
        ELSE sources(v)[CHOOSE i \in found : \A j \in found : i <= j]

(* A token and credentials that are neither empty nor placeholders; a      *)
(* reference is judged by what it resolves to.                             *)
validateSecretsStrength(doc) ==
    /\ doc.token # "weak"
    /\ doc.key # "weak"

(* The client token is required; enabled keys carry tokens and names of    *)
(* their own.                                                              *)
validateSecrets(doc) == doc.token # "unset"

validateSecretsResult(doc) == validateSecretsStrength(doc) /\ validateSecrets(doc)

(* env: and file: references; a read that hangs is bounded and fails.      *)
ResolveProviderKeyReferences(doc, ref) ==
    IF doc.key = "ref" THEN [doc EXCEPT !.key = ref] ELSE doc

LoadSecretsBounded(v, ref) ==
    LET raw == ResolveSecrets(v)
        resolved == ResolveProviderKeyReferences(raw, ref)
    IN  IF raw.state # "ok" \/ ~validateSecretsResult(raw) THEN absent
        ELSE IF resolved.key = "unresolved" \/ ~validateSecretsResult(resolved) THEN absent
        ELSE resolved

(***************************************************************************)
(* Loading, starting and reloading.                                        *)
(***************************************************************************)
merged(f) == loadFiles(<<f.base, f.dropin>>)

loadConfig(f) == ApplyDefaults(merged(f))

(* The configuration with the identities of the secrets document.          *)
withKeys(c, doc) == decode(doc.api) @@ c

(* A provider whose patterns do not compile is left out silently.          *)
ResolveProviders(c, doc) ==
    IF "provider" \notin DOMAIN c \/ at(c, "provider.models_hidden") = "bad" THEN "none"
    ELSE IF doc.key = "unset" THEN "keyless" ELSE "keyed"

noContinuityIssues(before, c, doc) == FALSE

(* Providers that would lose their credential although the configuration   *)
(* still lists them.                                                       *)
ServeContinuityIssues(before, c, doc) ==
    /\ before = "keyed"
    /\ "provider" \in DOMAIN c
    /\ \/ ResolveProviders(c, doc) = "none"
       \/ ResolveProviders(c, doc) = "keyless" /\ at(c, "provider.auth_style") # "none"

(* buildInterceptorChain compiles the injection patterns.                  *)
chainBuilds(c) == Compiles(c, "injection.extra_patterns") /\ Compiles(c, "injection.ignore_patterns")

(* What gates a start: the full suite runs under -validate only.           *)
startChecks(c) ==
    /\ validateNetworkPolicy(c)
    /\ ValidateConfigCredentialsStrength(c)
    /\ ValidateConfigReferences(c)
    /\ chainBuilds(c)

starts(c, doc) == doc # absent /\ defaultsSucceed(c) /\ startChecks(withKeys(c, doc))

startAccepts(f, v, ref) == starts(loadConfig(f), LoadSecretsBounded(v, ref))

reloadSkipsReferences(c) == collectValidationErrors(c) /\ chainBuilds(c)

reloadChecks(c) == ValidateConfigurationNoPing(c) /\ chainBuilds(c)

reloads(c, doc, serving) ==
    /\ doc # absent /\ defaultsSucceed(c) /\ reloadChecks(withKeys(c, doc))
    /\ ~ServeContinuityIssues(serving, c, doc)

reloadAccepts(f, v, ref, serving) == reloads(loadConfig(f), LoadSecretsBounded(v, ref), serving)

(* The gateway that runs on the documents.                                 *)
serve(c, doc) ==
    [up |-> TRUE, cfg |-> c, providers |-> ResolveProviders(c, doc), key |-> doc.key, fresh |-> TRUE]

swapIn(f, v, ref) == serve(loadConfig(f), LoadSecretsBounded(v, ref))

down == [up |-> FALSE, cfg |-> <<>>, providers |-> "none", key |-> "unset", fresh |-> FALSE]

CInit ==
    /\ topic \in Topics
    /\ files = [base |-> Given(topic), dropin |-> <<>>]
    /\ vault \in Vaults(topic)
    /\ reference = "new"
    /\ gateway = down
    /\ edits = 0

(* An operator writes the base file by hand.                               *)
EditBase ==
    /\ edits < MaxEdits
    /\ \E b \in OneSetting(topic) : files' = [files EXCEPT !.base = b @@ Given(topic)]
    /\ gateway' = [gateway EXCEPT !.fresh = FALSE]
    /\ edits' = edits + 1
    /\ UNCHANGED <<topic, vault, reference>>

(* "config set": one key into the managed drop-in, the rest preserved; a   *)
(* placeholder credential is refused.                                      *)
ConfigSet ==
    /\ edits < MaxEdits
    /\ \E s \in topic : \E v \in Written(s) :
        /\ ~(s = "provider.api_key" /\ v = "bad")
        /\ files' = [files EXCEPT !.dropin = (s :> v) @@ files.dropin]
    /\ gateway' = [gateway EXCEPT !.fresh = FALSE]
    /\ edits' = edits + 1
    /\ UNCHANGED <<topic, vault, reference>>

(* The file "secret set" would write, refused where another source or a    *)
(* later file of the merge directory would hide it.                        *)
activeCredentialSource(v) == v.cred # absent

siblingIgnored(v) == FALSE

laterSiblingShadows(v) == v.dir[3] # absent

secretTarget(v) ==
    IF activeCredentialSource(v) THEN "refused"
    ELSE IF v.envDir THEN IF laterSiblingShadows(v) THEN "refused" ELSE "dir"
    ELSE IF \E i \in 1..3 : v.dir[i] # absent THEN "refused" ELSE "root"

(* setSecretValue: the provider's key, and a token when there is none.     *)
setSecretValue(doc, key) ==
    IF doc = absent THEN [state |-> "ok", token |-> "ok", key |-> key, api |-> <<>>]
    ELSE [doc EXCEPT !.key = key, !.token = IF @ = "unset" THEN "ok" ELSE @]

SecretSet ==
    /\ edits < MaxEdits
    /\ \/ /\ secretTarget(vault) = "dir" /\ vault.dir[2] # unreadable
          /\ vault' = [vault EXCEPT !.dir[2] = setSecretValue(@, "new")]
       \/ /\ secretTarget(vault) = "root" /\ vault.root # unreadable
          /\ vault' = [vault EXCEPT !.root = setSecretValue(@, "new")]
    /\ gateway' = [gateway EXCEPT !.fresh = FALSE]
    /\ edits' = edits + 1
    /\ UNCHANGED <<topic, files, reference>>

(* A secrets document is removed or replaced by hand, or the referenced    *)
(* credential rotates or disappears.                                       *)
Rotate ==
    /\ edits < MaxEdits
    /\ \/ reference' \in {"new", "weak", "unresolved"} /\ vault' = vault
       \/ vault' \in Vaults(topic) /\ reference' = reference
    /\ gateway' = [gateway EXCEPT !.fresh = FALSE]
    /\ edits' = edits + 1
    /\ UNCHANGED <<topic, files>>

Start ==
    /\ ~gateway.up
    /\ startAccepts(files, vault, reference)
    /\ gateway' = swapIn(files, vault, reference)
    /\ UNCHANGED <<topic, files, vault, reference, edits>>

Stop ==
    /\ gateway.up
    /\ gateway' = down
    /\ UNCHANGED <<topic, files, vault, reference, edits>>

(* SIGHUP; anything refused leaves the serving gateway untouched.          *)
ReloadConfig ==
    /\ gateway.up
    /\ IF reloadAccepts(files, vault, reference, gateway.providers)
       THEN gateway' = swapIn(files, vault, reference)
       ELSE UNCHANGED gateway
    /\ UNCHANGED <<topic, files, vault, reference, edits>>

CNext == EditBase \/ ConfigSet \/ SecretSet \/ Rotate \/ Start \/ Stop \/ ReloadConfig

ConfigSpec == CInit /\ [][CNext]_cvars

-----------------------------------------------------------------------------
(* Every limit the gateway runs with is inside its documented range,       *)
(* whatever a file said and whichever of the two paths let it in: the      *)
(* accessors clamp what a start does not check.                            *)
EffectiveInRange ==
    gateway.up => effectiveLimits(gateway.cfg) \cap {"neg", "over"} = {}

(* A reload never takes the credential of a provider that is still         *)
(* configured and still needs one.                                         *)
CapacityKept ==
    [][gateway.up /\ gateway'.up /\ gateway.providers = "keyed" /\ "provider" \in DOMAIN gateway'.cfg
       /\ at(gateway'.cfg, "provider.auth_style") # "none"
            => gateway'.providers = "keyed"]_cvars

(* What a reload lets in a restart lets in: while the gateway runs on what *)
(* is on disk, stopping and starting it again succeeds.                    *)
RestartSafe == gateway.up /\ gateway.fresh => startAccepts(files, vault, reference)

(* Both, of the configuration the gateway serves.                          *)
ServedSound == EffectiveInRange /\ RestartSafe

(* "secret set" never writes a document the loader will not read: the next *)
(* load serves the written key, or fails loudly.                           *)
WrittenSecretServes ==
    [][edits' # edits /\ SecretSet =>
                    LET doc == LoadSecretsBounded(vault', reference)
                    IN  doc = absent \/ doc.key = "new"]_cvars

=============================================================================
