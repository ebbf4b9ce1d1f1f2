------------------------------ MODULE Billing ------------------------------
(***************************************************************************)
(* Spend accounting (internal/billing, internal/proxy/usage.go and         *)
(* stream_usage.go): dispatches report usage, as one buffered response or  *)
(* as several chunks of a stream, the quota pollers and the response       *)
(* headers mark accounts exhausted, and an operator resets them.           *)
(*                                                                         *)
(* Costs are tenths of a cent, what the tracker stores are cents.  The map *)
(* of accounts and the status objects in it are separate: a goroutine      *)
(* keeps the object it looked up, and adds to it without the lock.         *)
(***************************************************************************)
EXTENDS Integers, Sequences, FiniteSets, SequencesExt

CONSTANTS
    Dispatches,      \* upstream calls that report usage
    Keys,            \* provider:account
    Costs,           \* cost deltas of a usage chunk, in tenths of a cent
    MaxChunks,       \* bound: usage chunks of one dispatch
    QuotaSource,     \* key -> "none", "headers", "simple_json" or "max_from_array"
    Balances,        \* balances a provider reports; Bad is not a number
    MaxBackoff,      \* bound: level of the pollers' backoff
    MaxMarks         \* bound: quota readings and resets

ASSUME BillingAssumption == IsFiniteSet(Dispatches)

VARIABLES
    accounts,        \* key -> number of its status object, 0 when absent
    status,          \* the status objects ever created
    total,           \* TotalSpendCents, TotalRequests, ExhaustedCount
    lock,            \* "free", or the step ResetSpend is at
    dispatch,        \* per dispatch: label, key, chunks priced, claim, object
    fetcher,         \* the quota fetcher: "new", "started" or "stopped"
    poll,            \* key -> its poll loop: "off", "waiting" or "fetching"
    backoff,         \* level of the provider's backoff
    marks            \* quota readings and resets so far

bvars == <<accounts, status, total, lock, dispatch, fetcher, poll, backoff, marks>>
quota == <<fetcher, poll, backoff>>

(* util.SafeUSDCents: to the nearest cent, half away from zero; negative   *)
(* deltas clamp to zero in addSpend.                                       *)
SafeUSDCents(c) == IF c <= 0 THEN 0 ELSE (c + 5) \div 10

(* AccountStatus *)
newStatus == [spend |-> 0, exhausted |-> FALSE]

At(p, label) == dispatch[p].at = label

exhausted(k) == accounts[k] # 0 /\ status[accounts[k]].exhausted

BInit ==
    /\ accounts = [k \in Keys |-> 0]
    /\ status = <<>>
    /\ total = [spend |-> 0, requests |-> 0, exhausted |-> 0]
    /\ lock = "free"
    /\ dispatch \in [Dispatches -> [at : {"idle"}, key : Keys, costs : {<<>>}, seen : {FALSE},
                                    claimed : {FALSE}, entry : {0}, object : {0}, claims : {0}, added : {0}]]
    /\ fetcher = "new" /\ poll = [k \in Keys |-> "off"] /\ backoff = 0
    /\ marks = 0

(* Mutant: every chunk that reports usage claims the request.              *)
claimsEvery(p) == TRUE

(* RecordSpend for the first chunk that reports usage, AddSpend after it.  *)
claims(p) == ~dispatch[p].claimed

(* makeUsageCallback, recordStreamSpend and recordCostAndBilling: a chunk  *)
(* with usage claims the request even when it costs nothing; a later one   *)
(* adds only a positive delta.  Without usage nothing is priced.           *)
UsageChunk(p, usage, cost) ==
    /\ At(p, "idle") /\ Len(dispatch[p].costs) < MaxChunks
    /\ usage \/ cost = 0
    /\ LET d == [dispatch[p] EXCEPT !.costs = Append(@, cost), !.seen = @ \/ usage]
           entry == IF cost > 0 THEN SafeUSDCents(cost) ELSE 0
       IN  dispatch' = [dispatch EXCEPT ![p] =
               IF claims(p)
               THEN IF usage THEN [d EXCEPT !.at = "lookup", !.claimed = TRUE, !.entry = entry, !.claims = @ + 1] ELSE d
               ELSE IF cost > 0 THEN [d EXCEPT !.at = "lookup", !.entry = entry] ELSE d]
    /\ UNCHANGED <<accounts, status, total, lock, marks, quota>>

(* addSpend: the read lock, then the write lock when the account is new.   *)
Lookup(p) ==
    /\ At(p, "lookup") /\ lock = "free"
    /\ LET o == accounts[dispatch[p].key] IN
       dispatch' = [dispatch EXCEPT ![p].at = IF o = 0 THEN "create" ELSE "add", ![p].object = o]
    /\ UNCHANGED <<accounts, status, total, lock, marks, quota>>

Create(p) ==
    /\ At(p, "create") /\ lock = "free"
    /\ status' = Append(status, newStatus)
    /\ accounts' = [accounts EXCEPT ![dispatch[p].key] = Len(status')]
    /\ dispatch' = [dispatch EXCEPT ![p].at = "add", ![p].object = Len(status')]
    /\ UNCHANGED <<total, lock, marks, quota>>

(* The account's atomic, then the tracker's.                               *)
AddAccount(p) ==
    /\ At(p, "add")
    /\ status' = [status EXCEPT ![dispatch[p].object].spend = @ + dispatch[p].entry]
    /\ dispatch' = [dispatch EXCEPT ![p].at = "total", ![p].added = @ + dispatch[p].entry]
    /\ UNCHANGED <<accounts, total, lock, marks, quota>>

AddTotal(p) ==
    /\ At(p, "total")
    /\ total' = [total EXCEPT !.spend = @ + dispatch[p].entry,
                              !.requests = @ + dispatch[p].claims]
    /\ dispatch' = [dispatch EXCEPT ![p].at = "idle", ![p].object = 0, ![p].claims = 0]
    /\ UNCHANGED <<accounts, status, lock, marks, quota>>

(* MarkExhausted.  Nothing marks an account as recovered.                  *)
MarkExhausted(k) ==
    LET o == IF accounts[k] = 0 THEN Len(status) + 1 ELSE accounts[k]
        objects == IF accounts[k] = 0 THEN Append(status, newStatus) ELSE status
    IN  /\ accounts' = [accounts EXCEPT ![k] = o]
        /\ status' = [objects EXCEPT ![o].exhausted = TRUE]
        /\ total' = IF objects[o].exhausted THEN total ELSE [total EXCEPT !.exhausted = @ + 1]

-----------------------------------------------------------------------------
(* What an endpoint answers: its balances, one of them Bad when the path   *)
(* resolves to nothing or to something that is no number.                  *)
Bad == -1
Failed == -2

(* extractSimpleJSON *)
extractSimpleJSON(items) == IF items[1] = Bad THEN Failed ELSE items[1]

(* extractItemBalance: an item without a number is skipped.                *)
extractItemBalance(items) == {items[i] : i \in DOMAIN items} \ {Bad}

(* extractMaxFromArray: an array with no positive balance is an error.     *)
extractMaxFromArray(items) ==
    LET positive == {b \in extractItemBalance(items) : b > 0}
    IN  IF positive = {} THEN Failed ELSE CHOOSE m \in positive : \A b \in positive : b <= m

(* ExtractQuotaFromHeaders, parseFloatHeader: an absent or unparsable      *)
(* remaining header leaves the balance at zero.                            *)
ExtractQuotaFromHeaders(items) == IF items[1] = Bad THEN 0 ELSE items[1]

(* ExtractQuotaFromResponse and extractQuotaInfo.                          *)
extractQuotaInfo(mode, items) ==
    IF mode = "max_from_array" THEN extractMaxFromArray(items) ELSE extractSimpleJSON(items)

(* configureProvider: only a provider with a quota_url is polled.          *)
polled(k) == QuotaSource[k] \in {"simple_json", "max_from_array"}

(* Mark on a balance of zero or less, nothing on a failed reading.         *)
Apply(k, balance) ==
    IF balance # Failed /\ balance <= 0 THEN MarkExhausted(k)
    ELSE UNCHANGED <<accounts, status, total>>

(* Start: one loop per account, its first poll due at once.                *)
StartFetcher ==
    /\ fetcher = "new" /\ fetcher' = "started"
    /\ poll' = [k \in Keys |-> IF polled(k) THEN "waiting" ELSE "off"]
    /\ UNCHANGED <<accounts, status, total, lock, dispatch, backoff, marks>>

(* The loop takes its timer or, once Stop closed the channel, its end:     *)
(* with both ready, either.                                                *)
PollTimer(k) ==
    /\ poll[k] = "waiting" /\ marks < MaxMarks
    /\ poll' = [poll EXCEPT ![k] = "fetching"] /\ marks' = marks + 1
    /\ UNCHANGED <<accounts, status, total, lock, dispatch, fetcher, backoff>>

PollEnd(k) ==
    /\ poll[k] = "waiting" /\ fetcher = "stopped"
    /\ poll' = [poll EXCEPT ![k] = "off"]
    /\ UNCHANGED <<accounts, status, total, lock, dispatch, fetcher, backoff, marks>>

(* FetchQuota: the answer, or no answer within the poll's timeout.         *)
FetchQuota(k, answer) ==
    IF answer = <<>> THEN Failed ELSE extractQuotaInfo(QuotaSource[k], answer)

(* nextPollDelay: a reading resets the provider's backoff, a failure       *)
(* raises it unless the answer was a 429 that named its own delay.         *)
nextPollDelay(reading, named) ==
    IF reading # Failed THEN 0 ELSE IF named \/ backoff = MaxBackoff THEN backoff ELSE backoff + 1

(* fetchAndUpdate.  A poll that outlives Stop's bounded wait still writes. *)
fetchAndUpdate(k, answer, named) ==
    /\ poll[k] = "fetching" /\ lock = "free"
    /\ named => answer = <<>>
    /\ Apply(k, FetchQuota(k, answer))
    /\ backoff' = nextPollDelay(FetchQuota(k, answer), named)
    /\ poll' = [poll EXCEPT ![k] = "waiting"]
    /\ UNCHANGED <<lock, dispatch, fetcher, marks>>

StopFetcher ==
    /\ fetcher = "started" /\ fetcher' = "stopped"
    /\ UNCHANGED <<accounts, status, total, lock, dispatch, poll, backoff, marks>>

(* ExtractQuotaFromResponseHeaders, after a response that was not paid     *)
(* with a caller's own key.                                                *)
ReadQuotaHeaders(k, answer) ==
    /\ QuotaSource[k] = "headers" /\ lock = "free" /\ marks < MaxMarks
    /\ Apply(k, ExtractQuotaFromHeaders(answer))
    /\ marks' = marks + 1
    /\ UNCHANGED <<lock, dispatch, quota>>

-----------------------------------------------------------------------------
(* ResetSpend holds the lock, but the additions do not take it.            *)
ResetSpend(k) ==
    /\ lock = "free" /\ accounts[k] # 0 /\ marks < MaxMarks
    /\ status' = [status EXCEPT ![accounts[k]].spend = 0]
    /\ lock' = k /\ marks' = marks + 1
    /\ UNCHANGED <<accounts, total, dispatch, quota>>

ResetTotal ==
    /\ lock # "free"
    /\ LET live == {accounts[k] : k \in Keys} \ {0} IN
       total' = [total EXCEPT !.spend =
                    FoldLeft(LAMBDA n, o : n + status[o].spend, 0, SetToSeq(live))]
    /\ status' = [status EXCEPT ![accounts[lock]].exhausted = FALSE]
    /\ lock' = "free"
    /\ UNCHANGED <<accounts, dispatch, marks, quota>>

AddSpend(p) == Lookup(p) \/ Create(p) \/ AddAccount(p) \/ AddTotal(p)

(* Answers of one or two balances.                                         *)
Answers == {<<b>> : b \in Balances} \cup {<<b, c>> : b \in Balances, c \in Balances}

BNext ==
    \/ \E p \in Dispatches :
          AddSpend(p) \/ \E usage \in BOOLEAN, c \in Costs : UsageChunk(p, usage, c)
    \/ \E k \in Keys :
          \/ ResetSpend(k) \/ PollTimer(k) \/ PollEnd(k)
          \/ \E answer \in Answers : fetchAndUpdate(k, answer, FALSE) \/ ReadQuotaHeaders(k, answer)
          \/ \E named \in BOOLEAN : fetchAndUpdate(k, <<>>, named)
    \/ ResetTotal \/ StartFetcher \/ StopFetcher

BSpec == BInit /\ [][BNext]_bvars

-----------------------------------------------------------------------------
(* A dispatch is one billed request however many chunks report its usage,  *)
(* however additions, marks and resets interleave (recordStreamSpend): the *)
(* request counter is the number of dispatches whose claim went through.   *)
ClaimedOnce ==
    total.requests = Cardinality({p \in Dispatches : dispatch[p].seen /\ dispatch[p].claims = 0})

=============================================================================
