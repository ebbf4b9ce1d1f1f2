------------------------------ MODULE Admission ------------------------------
(***************************************************************************)
(* From the socket to the upstream request: the routes and the key check   *)
(* of internal/proxy/handler.go, the roles of internal/auth/rbac.go, the   *)
(* request limits and token budgets of internal/auth/keylimits.go, the     *)
(* caller's own credential (internal/proxy/byok.go) and the idempotency    *)
(* key of each upstream body (internal/proxy/idempotency.go).              *)
(*                                                                         *)
(* Every gateway built by a reload has a tracker of its own.  A request is *)
(* served by the gateway it entered; the key check reads the current one.  *)
(* Time is in minutes, DayLength of them a UTC day.  A body is the target's*)
(* provider, the turn of the tool loop and the corrections made to it.     *)
(* Parsing, the schema budget and a missing or overlong model only refuse  *)
(* a request before anything is charged: one refusal stands for them.      *)
(***************************************************************************)
EXTENDS Integers, Sequences, FiniteSets, SequencesExt, FiniteSetsExt

CONSTANTS
    Requests,
    Inputs,      \* requests clients send: key, route, agent, tokens, byok, idem, chain, loop
    ApiKeys,     \* generation -> key name -> entry of secrets.json
    Providers,   \* provider -> budget, allowBYOK, idempotencyHeader
    ByokOn,      \* governance.byok.enabled
    MaxTime, DayLength,   \* bounds: minutes, minutes of a day
    MaxGens, MaxTurns, MaxVariants, MaxDispatches   \* bounds

(* No client guesses a key made here, which is drawn at random; tokens are *)
(* counted, and a day has minutes.                                         *)
ASSUME AdmissionAssumption ==
    /\ \A in \in Inputs : in.idem[1] # "nenya" /\ in.tokens \in Nat
    /\ DayLength \in Nat \ {0}

VARIABLES
    now, current,   \* the clock; Proxy.gw
    tracker,        \* per generation: its KeyUsageTracker
    req,            \* per request: where it is and what it carries
    sent            \* per request: the dispatches that passed the guards

dvars == <<now, current, tracker, req, sent>>

Gens == 1..MaxGens
Day(t) == t \div DayLength

-----------------------------------------------------------------------------
(* rbac.go.                                                                *)
Primary == [name |-> "primary", roles |-> {"admin"}, enabled |-> TRUE, expires |-> MaxTime + 1, agents |-> {},
            endpoints |-> {}, byok |-> FALSE, rpm |-> 0, budget |-> 0, tier |-> ""]

rolesRecognized(k) == k.roles # {} /\ k.roles \subseteq {"admin", "user", "read-only"}
admin(k) == "admin" \in k.roles

AuthorizeAgent(k, agent) == rolesRecognized(k) /\ (admin(k) \/ k.agents = {} \/ agent \in k.agents)

(* Both chat routes are one endpoint to an entry that names the canonical. *)
matchesAllowedEndpoints(allowed, route) == route \in allowed \/ (route = "messages" /\ "chat" \in allowed)

AuthorizeEndpoint(k, route) ==
    /\ rolesRecognized(k)
    /\ \/ admin(k)
       \/ k.endpoints # {} /\ matchesAllowedEndpoints(k.endpoints, route)
       \/ k.endpoints = {} /\ ("read-only" \in k.roles => route = "models")

KeyMayBYOK(k) == admin(k) \/ k.byok

-----------------------------------------------------------------------------
(* keylimits.go: each operation on one tracker, under its lock.            *)
NewTracker == [keys |-> [k \in UNION {DOMAIN ApiKeys[g] : g \in Gens} |-> [start |-> -1, count |-> 0, day |-> -1, tokens |-> 0]],
               prov |-> [p \in DOMAIN Providers |-> [day |-> -1, tokens |-> 0]]]

rollDay(u) == IF u.day = Day(now) THEN u ELSE [u EXCEPT !.day = Day(now), !.tokens = 0]

(* AllowRequest: a fixed window of one minute that starts at its first     *)
(* request.                                                                *)
AllowRequest(u, rpm) ==
    LET rolled == rollDay(u)
        window == IF rolled.start = -1 \/ now - rolled.start >= 1 THEN [rolled EXCEPT !.start = now, !.count = 0] ELSE rolled
        ok == window.count < rpm
    IN  [ok |-> ok, use |-> IF ok THEN [window EXCEPT !.count = @ + 1] ELSE window]

ChargeKeyTokens(u, budget, n) ==
    LET rolled == rollDay(u)
        ok == rolled.tokens + n <= budget
    IN  [ok |-> ok, use |-> IF ok THEN [rolled EXCEPT !.tokens = @ + n] ELSE rolled]

AllowProviderTokens(u, tier, budget, n) ==
    LET rolled == rollDay(u)
        ok == rolled.tokens + n <= budget \/ tier = "always"
    IN  [ok |-> ok, use |-> IF ok THEN [rolled EXCEPT !.tokens = @ + n] ELSE rolled]

-----------------------------------------------------------------------------
(* idempotency.go.  A header is the key and the body it is bound to.       *)
NoKey == <<"none">>
NoBody == <<"none">>
usable(key) == key \notin {NoKey, <<"unsafe">>}    \* sanitizeIdempotencyKey

synthesizeIdempotencyKey(r) == <<"nenya", r, Len(sent[r])>>

(* Mutant: the key belongs to the request, whatever its body.              *)
keyOfRequest(r, h, body) ==
    IF usable(h.key) THEN [key |-> h.key, bound |-> body] ELSE [key |-> synthesizeIdempotencyKey(r), bound |-> body]

idempotencyKeyForBody(r, h, body) ==
    IF usable(h.key) /\ h.bound \in {body, NoBody} THEN [key |-> h.key, bound |-> body]
    ELSE [key |-> synthesizeIdempotencyKey(r), bound |-> body]

(* Only a provider that declares a header gets the key, and binds it.      *)
injectIdempotencyKey(r, p, h, body) ==
    IF Providers[p].idempotencyHeader THEN idempotencyKeyForBody(r, h, body) ELSE h

-----------------------------------------------------------------------------
NoRequest == [pc |-> "idle", gen |-> 0, in |-> CHOOSE i \in Inputs : TRUE, key |-> Primary, targets |-> <<>>, byok |-> FALSE,
              idx |-> 1, turn |-> 0, variant |-> 0, resumed |-> FALSE, latched |-> FALSE, reserved |-> <<>>,
              header |-> [key |-> NoKey, bound |-> NoBody]]

Set(r, q) == req' = [req EXCEPT ![r] = q]
Goto(r, pc) == Set(r, [req[r] EXCEPT !.pc = pc])

(* Nothing of a refused request is read again, and of a finished one what  *)
(* it was and what it reserved.                                            *)
Refuse(r) == Set(r, [NoRequest EXCEPT !.pc = "refused"])
Over(q) == [NoRequest EXCEPT !.pc = "done", !.gen = q.gen, !.in = q.in, !.key = q.key, !.reserved = q.reserved]

(* ServeHTTP, resolveRoute, chainEndpoint: a method the route does not     *)
(* take is refused.                                                        *)
Enter(r, in, method) ==
    /\ req[r].pc = "idle" /\ in \in Inputs
    /\ IF method = (IF in.route = "models" THEN "GET" ELSE "POST")
       THEN Set(r, [NoRequest EXCEPT !.gen = current, !.in = in, !.header.key = in.idem, !.pc = "entered"])
       ELSE Refuse(r)
    /\ UNCHANGED <<now, current, tracker, sent>>

(* resolveAuthenticatedKey on the gateway current now.                     *)
resolveAuthenticatedKey(name) ==
    IF name = "primary" THEN {Primary} ELSE {ApiKeys[current][k] : k \in {x \in DOMAIN ApiKeys[current] : x = name}}

(* enforceChatAgentScoping: a body that names no agent is refused before   *)
(* the key's rate is touched.                                              *)
enforceChatAgentScoping(k, in, readable) ==
    in.route \in {"chat", "messages"} => readable /\ AuthorizeAgent(k, in.agent)

(* authenticateAndAuthorize: the key, its state, its scope, its rate.  The *)
(* primary token passes as it is.  GET /v1/models is answered at once.     *)
Authenticate(r, readable) ==
    LET in == req[r].in
        found == resolveAuthenticatedKey(in.key)
        Serve(k) == IF in.route = "models" THEN Set(r, Over([req[r] EXCEPT !.key = k]))
                    ELSE Set(r, [req[r] EXCEPT !.key = k, !.pc = "known"])
    IN  /\ req[r].pc = "entered"
        /\ \/ found = {} /\ Refuse(r) /\ UNCHANGED tracker
           \/ found = {Primary} /\ Serve(Primary) /\ UNCHANGED tracker
           \/ \E k \in found \ {Primary} :
                LET use == AllowRequest(tracker[current].keys[k.name], k.rpm) IN
                IF ~(k.enabled /\ now <= k.expires /\ AuthorizeEndpoint(k, in.route) /\ enforceChatAgentScoping(k, in, readable))
                THEN Refuse(r) /\ UNCHANGED tracker
                ELSE /\ tracker' = IF k.rpm > 0 THEN [tracker EXCEPT ![current].keys[k.name] = use.use] ELSE tracker
                     /\ IF k.rpm > 0 /\ ~use.ok THEN Refuse(r) ELSE Serve(k)
        /\ UNCHANGED <<now, current, sent>>

(* byok.go: a request that brings a credential, where the operator allows  *)
(* it, goes with it to the providers that take one, or nowhere.            *)
resolveBYOKIntent(q) == ByokOn /\ q.in.byok # "none"
validBYOKCredential(q) == q.in.byok = "valid"

applyBYOKCredential(q) ==
    LET eligible == SelectSeq(q.in.chain, LAMBDA p : Providers[p].allowBYOK)
        ok == KeyMayBYOK(q.key) /\ validBYOKCredential(q) /\ eligible # <<>>
    IN  IF resolveBYOKIntent(q) THEN [ok |-> ok, targets |-> eligible, byok |-> TRUE]
        ELSE [ok |-> TRUE, targets |-> q.in.chain, byok |-> FALSE]

(* validateChatRequest; the binding a client sent is dropped               *)
(* (resetIdempotencyBinding) and nothing is cached for its own credential. *)
Validate(r, cached, refused) ==
    LET q == req[r]
        v == applyBYOKCredential(q)
    IN  /\ q.pc = "known"
        /\ IF refused \/ ~v.ok THEN Refuse(r)
           ELSE IF cached THEN ~v.byok /\ Set(r, Over(req[r]))
           ELSE Set(r, [q EXCEPT !.targets = v.targets, !.byok = v.byok, !.header.bound = NoBody, !.pc = "sweep"])
        /\ UNCHANGED <<now, current, tracker, sent>>

-----------------------------------------------------------------------------
(* Mutant: every target of the sweep reserves again.                       *)
unlatched(q) == q.in.tokens > 0

(* enforceBudgets latches the reservation; the tool loop takes it before   *)
(* its first turn.                                                         *)
reserves(q) == q.in.tokens > 0 /\ ~q.latched

Reserve(r) ==
    LET q == req[r]
        use == ChargeKeyTokens(tracker[q.gen].keys[q.key.name], q.key.budget, q.in.tokens)
        passed == [q EXCEPT !.latched = @ \/ reserves(q), !.pc = "guards"]
    IN  /\ q.pc = "sweep" /\ UNCHANGED <<now, current, sent>>
        /\ IF reserves(q) /\ q.key.budget > 0
           THEN /\ tracker' = [tracker EXCEPT ![q.gen].keys[q.key.name] = use.use]
                /\ IF use.ok THEN Set(r, [passed EXCEPT !.reserved = <<Day(now)>>]) ELSE Refuse(r)
           ELSE Set(r, passed) /\ UNCHANGED tracker

(* Past a target that did not answer: the next one of the sweep, or its    *)
(* end.  A continuation that is not dispatched ends its request.           *)
Onward(q) ==
    IF q.resumed \/ q.idx = Len(q.targets) THEN Over(q) ELSE [q EXCEPT !.idx = @ + 1, !.pc = "sweep"]

tierOf(k) == IF k.tier = "" THEN "always" ELSE k.tier

(* checkPreDispatchGuards: the rate limit, the cost ceiling, the agent's   *)
(* budget and the breaker may skip the target; then the provider's budget, *)
(* which a caller-funded dispatch does not draw on.                        *)
providerBudgetGate(q) ==
    LET p == q.targets[q.idx]
        charged == ~q.byok /\ Providers[p].budget > 0 /\ q.in.tokens > 0
        use == AllowProviderTokens(tracker[q.gen].prov[p], tierOf(q.key), Providers[p].budget, q.in.tokens)
    IN  [charged |-> charged, ok |-> ~charged \/ use.ok,
         tracker |-> IF charged THEN [tracker EXCEPT ![q.gen].prov[p] = use.use] ELSE tracker]

Skipped(r) == req[r].pc = "guards" /\ Set(r, Onward(req[r])) /\ UNCHANGED <<now, current, tracker, sent>>

(* prepareAndSend.  Past the guards the dispatch is charged, whether or    *)
(* not it is sent: the client may leave the queue of the limiter, or the   *)
(* request may not be built, before a key is bound to its body.            *)
Dispatch(r, outcome) ==
    LET q == req[r]
        p == q.targets[q.idx]
        gate == providerBudgetGate(q)
        body == <<p, q.turn, q.variant>>
        keyed == injectIdempotencyKey(r, p, q.header, body)
        built == outcome = "sent"
    IN  /\ q.pc = "guards" /\ Len(sent[r]) < MaxDispatches /\ UNCHANGED <<now, current>>
        /\ tracker' = gate.tracker
        /\ IF ~gate.ok THEN Set(r, Onward(q)) /\ UNCHANGED sent
           ELSE /\ sent' = [sent EXCEPT ![r] = Append(@, [provider |-> p, body |-> IF built THEN body ELSE NoBody, day |-> Day(now),
                                   charged |-> gate.charged,
                                   key |-> IF built /\ Providers[p].idempotencyHeader THEN keyed.key ELSE NoKey])]
                /\ Set(r, CASE outcome = "sent" -> [q EXCEPT !.header = keyed, !.pc = "waiting"]
                            [] outcome = "unbuilt" -> Onward(q)
                            [] outcome = "gone" -> Over(q))

(* What follows a dispatch: an answer; the next target; the same target    *)
(* again, where no later one can be tried.                                 *)
Answered(r) == req[r].pc = "waiting" /\ Set(r, Over(req[r])) /\ UNCHANGED <<now, current, tracker, sent>>
Failover(r) == req[r].pc = "waiting" /\ Set(r, Onward(req[r])) /\ UNCHANGED <<now, current, tracker, sent>>
SameTarget(r) ==
    LET q == req[r] IN
    /\ q.pc = "waiting" /\ ~q.resumed /\ (q.in.loop \/ q.idx = Len(q.targets))
    /\ Goto(r, "sweep") /\ UNCHANGED <<now, current, tracker, sent>>

(* A corrected body (a parameter stripped, the history summarized) takes   *)
(* the rest of the sweep; outside the tool loop only.                      *)
Corrected(r) ==
    LET q == req[r] IN
    /\ q.pc = "waiting" /\ ~q.resumed /\ ~q.in.loop /\ q.variant < MaxVariants
    /\ Set(r, [q EXCEPT !.variant = @ + 1, !.idx = IF @ = Len(q.targets) THEN @ ELSE @ + 1, !.pc = "sweep"])
    /\ UNCHANGED <<now, current, tracker, sent>>

(* tryContinueStream: what was received is appended to the body, and the   *)
(* same target is dispatched again through the guards.                     *)
Continued(r) ==
    LET q == req[r] IN
    /\ q.pc = "waiting" /\ ~q.in.loop /\ q.variant < MaxVariants
    /\ Set(r, [q EXCEPT !.variant = @ + 1, !.resumed = TRUE, !.pc = "guards"]) /\ UNCHANGED <<now, current, tracker, sent>>

(* The tool loop appends the results and sweeps the chain again.           *)
NextTurn(r) ==
    /\ req[r].pc = "waiting" /\ req[r].in.loop /\ req[r].turn < MaxTurns
    /\ Set(r, [req[r] EXCEPT !.turn = @ + 1, !.idx = 1, !.pc = "sweep"]) /\ UNCHANGED <<now, current, tracker, sent>>

(* The sweep stops: the client left, the retries are used up, the agent    *)
(* sticks to its provider.                                                 *)
Stopped(r) == req[r].pc = "sweep" /\ Set(r, Over(req[r])) /\ UNCHANGED <<now, current, tracker, sent>>

Tick == now < MaxTime /\ now' = now + 1 /\ UNCHANGED <<current, tracker, req, sent>>

(* Gateway.Reload: stats, billing and sessions are carried over, the key   *)
(* usage is not.                                                           *)
Reload ==
    /\ current < MaxGens /\ current' = current + 1
    /\ tracker' = [tracker EXCEPT ![current + 1] = NewTracker]
    /\ UNCHANGED <<now, req, sent>>

DInit ==
    /\ now = 0 /\ current = 1
    /\ tracker = [g \in Gens |-> NewTracker]
    /\ req = [r \in Requests |-> NoRequest]
    /\ sent = [r \in Requests |-> <<>>]

DNext ==
    \/ \E r \in Requests, in \in Inputs, m \in {"GET", "POST"} : Enter(r, in, m)
    \/ \E r \in Requests, readable \in BOOLEAN : Authenticate(r, readable)
    \/ \E r \in Requests : Reserve(r) \/ Skipped(r) \/ Stopped(r)
    \/ \E r \in Requests, c, f \in BOOLEAN : Validate(r, c, f)
    \/ \E r \in Requests, o \in {"sent", "unbuilt", "gone"} : Dispatch(r, o)
    \/ \E r \in Requests : Answered(r) \/ Failover(r) \/ SameTarget(r) \/ Corrected(r) \/ Continued(r) \/ NextTurn(r)
    \/ Tick \/ Reload

DSpec == DInit /\ [][DNext]_dvars

-----------------------------------------------------------------------------
(* What was booked on a tracker: on a key the reservations of requests, on *)
(* a provider the dispatches it was charged for.                           *)
Reservation(r) ==
    [who |-> r, day |-> req[r].reserved[1], tokens |-> req[r].in.tokens, budget |-> req[r].key.budget]
Reservations(g, k) ==
    {Reservation(r) : r \in {x \in Requests : req[x].reserved # <<>> /\ req[x].gen = g /\ req[x].key.name = k}}

Charge(r, i) ==
    [who |-> r, nr |-> i, day |-> sent[r][i].day, tokens |-> req[r].in.tokens, tier |-> tierOf(req[r].key)]
Charges(g, p) ==
    UNION {{Charge(r, i) : i \in {j \in DOMAIN sent[r] : sent[r][j].charged /\ sent[r][j].provider = p}} :
           r \in {x \in Requests : req[x].gen = g}}

OfDay(bookings, day) == {b \in bookings : b.day = day}
Units(bookings) == UNION {{b} \X (1..b.tokens) : b \in bookings}

(* keylimits.go, retry.go enforceBudgets: a tracker's day total is the     *)
(* sum of the reservations of that day, one per request whatever its sweep *)
(* or its tool loop does, and within the budget of the keys that made      *)
(* them; a provider's is the sum of the dispatches it was charged for, and *)
(* keys of the fill tier never take it over its budget.                    *)
ReservedOnce ==
    \A g \in Gens :
        /\ \A k \in DOMAIN tracker[g].keys :
             LET u == tracker[g].keys[k]
                 booked == OfDay(Reservations(g, k), u.day)
             IN  /\ u.tokens = Cardinality(Units(booked))
                 /\ booked # {} => \E b \in booked : u.tokens <= b.budget
        /\ \A p \in DOMAIN Providers :
             LET u == tracker[g].prov[p]
                 booked == OfDay(Charges(g, p), u.day)
             IN  /\ u.tokens = Cardinality(Units(booked))
                 /\ booked # {} /\ (\A b \in booked : b.tier = "fill") => u.tokens <= Providers[p].budget

Keyed(r) == {i \in DOMAIN sent[r] : sent[r][i].key # NoKey}

(* idempotency.go: a key never goes with two bodies of a request, a body   *)
(* sent again at once goes with its key, the client's key with the first   *)
(* body that carries one, and no key made here is used by two requests.    *)
OneKeyOneBody ==
    \A r \in Requests : LET d == sent[r] IN
        /\ \A i, j \in Keyed(r) : d[i].key = d[j].key => d[i].body = d[j].body
        /\ \A i, j \in Keyed(r) : i < j /\ (i + 1 .. j - 1) \cap Keyed(r) = {} /\ d[i].body = d[j].body => d[i].key = d[j].key
        /\ \A i \in Keyed(r) : usable(req[r].in.idem) /\ (1 .. i - 1) \cap Keyed(r) = {} => d[i].key = req[r].in.idem
        /\ \A s \in Requests \ {r} : \A i \in Keyed(r), j \in DOMAIN sent[s] :
             d[i].key = sent[s][j].key => d[i].key = req[r].in.idem
=============================================================================
