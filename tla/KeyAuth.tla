------------------------------ MODULE KeyAuth ------------------------------
(***************************************************************************)
(* Who may run inference (apps/router-server/src/llm_router/auth.py,       *)
(* authenticate): the bearer token of a request is an API key or the token *)
(* of an operator, looked up in the store and cached in the router; a key  *)
(* has a request rate and a token quota, whose usage is cached too. Keys   *)
(* and operators are changed by the backend (api/auth.py).                 *)
(*                                                                         *)
(* One token and its callers. Time is counted in ticks; a read of the      *)
(* store takes effect at one moment, and its answer arrives later.         *)
(***************************************************************************)
EXTENDS Integers, Sequences, SequencesExt

CONSTANTS
    Caller,      \* requests that may be under way at once
    CacheTTL,    \* _CACHE_TTL
    QuotaTTL,    \* _QUOTA_TTL
    Minute,      \* the window of the rate limiter
    Rpm,         \* rpm_limit of the key, 0 for none
    HasQuota,    \* the key has a token_quota
    WaitLimit,   \* the longest a caller waits for the store
    LastPeriod   \* bound: quota periods that begin

ASSUME KeyAssumption ==
    /\ CacheTTL \in Nat /\ QuotaTTL \in Nat /\ Minute \in Nat /\ Rpm \in Nat
    /\ HasQuota \in BOOLEAN /\ WaitLimit \in Nat /\ LastPeriod \in Nat \ {0}

VARIABLES
    cred,    \* what the token is, in api_keys and operators, and for how long
    usage,   \* request_logs: the periods whose quota is used up, and for how long
    period,  \* the quota period the clock is in
    cache,   \* _cache: what the token is taken for, and the time left
    qcache,  \* _quota_cache: used up or not, the period, the time left
    hits,    \* _hits: ages of the requests the limiter counts, oldest first
    call     \* the requests

keyVars == <<cred, usage, period, cache, qcache, hits, call>>

Creds == {"key", "operator", "viewer", "gone"}
Looking == {"key", "keyed", "role", "roled", "usage", "summed"}
NoAnswer == "none"

\* held: the token was good at arrival or since; late: it had been bad for
\* CacheTTL at arrival, and still is;
\* spent: the quota had been used up for QuotaTTL when it was checked.
NoCaller == [step |-> "idle", age |-> 0, got |-> NoAnswer, via |-> NoAnswer, period |-> 0,
             held |-> FALSE, late |-> FALSE, spent |-> FALSE]

KeyInit ==
    /\ \E c \in {"key", "operator"} : cred = [as |-> c, since |-> 0]
    /\ usage = [up |-> {}, since |-> 0]
    /\ period = 1
    /\ cache = [as |-> NoAnswer, left |-> 0]
    /\ qcache = [up |-> FALSE, period |-> 0, left |-> 0]
    /\ hits = <<>>
    /\ call = [c \in Caller |-> NoCaller]

\* The request goes on, or is over.
To(c, step) == [call EXCEPT ![c].step = step]
Over(c, step) == [call EXCEPT ![c].step = step, ![c].age = 0, ![c].got = NoAnswer, ![c].period = 0]

-----------------------------------------------------------------------------
\* revoke_key, revoke_operator, rotate_operator; update_operator changes a role.
Revokes ==
    /\ cred.as # "gone"
    /\ cred' = [as |-> "gone", since |-> 0]
    /\ UNCHANGED <<usage, period, cache, qcache, hits, call>>

ChangesRole ==
    /\ \/ /\ cred.as = "operator"
          /\ cred' = [as |-> "viewer", since |-> 0]
          /\ UNCHANGED call
       \/ /\ cred.as = "viewer"
          /\ cred' = [as |-> "operator", since |-> 0]
          /\ call' = [c \in Caller |-> [call[c] EXCEPT !.held = TRUE, !.late = FALSE]]
    /\ UNCHANGED <<usage, period, cache, qcache, hits>>

\* A response is logged whose tokens use up the quota.
Logged ==
    /\ HasQuota
    /\ period \notin usage.up
    /\ usage' = [up |-> 1..period, since |-> 0]
    /\ UNCHANGED <<cred, period, cache, qcache, hits, call>>

-----------------------------------------------------------------------------
\* _check_rate: the limiter counts the request, unless the window is full.
Counted(h) == SelectSeq(h, LAMBDA age : age < Minute)

Within == Rpm = 0 \/ Len(Counted(hits)) < Rpm

\* _check_quota begins in the same step: it takes the cached usage of this
\* period, or asks the store. c is the request, after what it did before.
Checked(c, done) ==
    IF ~Within
    THEN hits' = Counted(hits) /\ call' = [done EXCEPT ![c].step = "refused"]
    ELSE /\ hits' = IF Rpm = 0 THEN hits ELSE Append(Counted(hits), 0)
         /\ call' = [done EXCEPT
              ![c].step = CASE ~HasQuota -> "admitted"
                            [] HasQuota /\ qcache.left > 0 /\ qcache.period = period ->
                                 IF qcache.up THEN "refused" ELSE "admitted"
                            [] OTHER -> "usage",
              ![c].period = IF HasQuota /\ ~(qcache.left > 0 /\ qcache.period = period)
                            THEN period ELSE 0,
              ![c].spent = HasQuota /\ period \in usage.up /\ usage.since >= QuotaTTL]

\* A request arrives and reads the clock; a fresh cache entry answers at once.
Arrives(c) ==
    /\ call[c].step \in {"idle", "admitted", "refused"}
    /\ LET new == [call EXCEPT ![c] = [NoCaller EXCEPT
                     !.step = "key", !.via = IF cache.left > 0 THEN cache.as ELSE NoAnswer,
                     !.held = cred.as \in {"key", "operator"},
                     !.late = cred.as \in {"viewer", "gone"} /\ cred.since >= CacheTTL]]
       IN  CASE cache.left > 0 /\ cache.as = "key" -> Checked(c, new)
             [] cache.left > 0 /\ cache.as = "operator" ->
                  call' = [new EXCEPT ![c].step = "admitted"] /\ UNCHANGED hits
             [] OTHER -> call' = new /\ UNCHANGED hits
    /\ UNCHANGED <<cred, usage, period, cache, qcache>>

\* get_active_api_key_by_hash takes effect.
ReadsKey(c) ==
    /\ call[c].step = "key"
    /\ call' = [call EXCEPT ![c].step = "keyed",
                            ![c].got = IF cred.as = "key" THEN "key" ELSE "gone"]
    /\ UNCHANGED <<cred, usage, period, cache, qcache, hits>>

\* The time an entry has left: its expiry counts from the clock of the arrival.
Remaining(c, ttl) == IF call[c].age >= ttl THEN 0 ELSE ttl - call[c].age

\* Variation: the clock is read again when the answer is there.
Entry_Late(c, as) == [as |-> as, left |-> CacheTTL]

Entry(c, as) == [as |-> IF Remaining(c, CacheTTL) = 0 THEN NoAnswer ELSE as,
                 left |-> Remaining(c, CacheTTL)]

\* A key is cached, then its rate and its quota are checked; what is no key may
\* be the token of an operator.
AnswersKey(c) ==
    /\ call[c].step = "keyed"
    /\ IF call[c].got = "key"
       THEN /\ cache' = Entry(c, "key")
            /\ Checked(c, [call EXCEPT ![c].via = "key", ![c].age = 0, ![c].got = NoAnswer])
       ELSE /\ call' = To(c, "role")
            /\ UNCHANGED <<cache, hits>>
    /\ UNCHANGED <<cred, usage, period, qcache>>

\* get_active_operator_by_hash takes effect.
ReadsRole(c) ==
    /\ call[c].step = "role"
    /\ call' = [call EXCEPT ![c].step = "roled",
                            ![c].got = IF cred.as = "key" THEN "gone" ELSE cred.as]
    /\ UNCHANGED <<cred, usage, period, cache, qcache, hits>>

\* A viewer may not run inference; nobody else's token is known.
AnswersRole(c) ==
    /\ call[c].step = "roled"
    /\ IF call[c].got = "operator"
       THEN /\ cache' = Entry(c, "operator")
            /\ call' = [Over(c, "admitted") EXCEPT ![c].via = "operator"]
       ELSE /\ call' = Over(c, "refused")
            /\ UNCHANGED cache
    /\ UNCHANGED <<cred, usage, period, qcache, hits>>

\* tokens_used_by_key takes effect: the tokens since the period began.
ReadsUsage(c) ==
    /\ call[c].step = "usage"
    /\ call' = [call EXCEPT ![c].step = "summed",
                            ![c].got = IF call[c].period \in usage.up THEN "up" ELSE "left"]
    /\ UNCHANGED <<cred, usage, period, cache, qcache, hits>>

\* Variation: the time of the entry counts from the answer.
AnswersUsage_Late(c) ==
    /\ call[c].step = "summed"
    /\ qcache' = [up |-> call[c].got = "up", period |-> call[c].period, left |-> QuotaTTL]
    /\ call' = Over(c, IF call[c].got = "up" THEN "refused" ELSE "admitted")
    /\ UNCHANGED <<cred, usage, period, cache, hits>>

AnswersUsage(c) ==
    /\ call[c].step = "summed"
    /\ qcache' = [up |-> call[c].got = "up", period |-> call[c].period,
                  left |-> Remaining(c, QuotaTTL)]
    /\ call' = Over(c, IF call[c].got = "up" THEN "refused" ELSE "admitted")
    /\ UNCHANGED <<cred, usage, period, cache, hits>>

-----------------------------------------------------------------------------
Upto(n, cap) == IF n < cap THEN n + 1 ELSE cap
Down(n) == IF n = 0 THEN 0 ELSE n - 1

\* Time passes: entries grow old, and a day or a month may be over.
Elapses ==
    /\ \A c \in Caller : call[c].step \in Looking => call[c].age < WaitLimit
    /\ cred' = [cred EXCEPT !.since = Upto(@, CacheTTL)]
    /\ period' \in {period, Upto(period, LastPeriod)}
    /\ usage' = [usage EXCEPT !.since = IF period' \in usage.up THEN Upto(@, QuotaTTL) ELSE 0]
    /\ cache' = [as |-> IF cache.left <= 1 THEN NoAnswer ELSE cache.as, left |-> Down(cache.left)]
    /\ qcache' = [qcache EXCEPT !.left = Down(@)]
    /\ hits' = Counted([i \in 1..Len(hits) |-> hits[i] + 1])
    /\ call' = [c \in Caller |-> IF call[c].step \in Looking
                                 THEN [call[c] EXCEPT !.age = @ + 1] ELSE call[c]]

KeyNext ==
    \/ Revokes \/ ChangesRole \/ Logged \/ Elapses
    \/ \E c \in Caller : \/ Arrives(c) \/ ReadsKey(c) \/ AnswersKey(c)
                         \/ ReadsRole(c) \/ AnswersRole(c)
                         \/ ReadsUsage(c) \/ AnswersUsage(c)

KeySpec == KeyInit /\ [][KeyNext]_keyVars

-----------------------------------------------------------------------------
\* Every variable has its type.
KeyTypeOK ==
    /\ cred.as \in Creds /\ cred.since \in 0..CacheTTL
    /\ usage.up \subseteq 1..LastPeriod /\ usage.since \in 0..QuotaTTL
    /\ period \in 1..LastPeriod
    /\ cache.as \in {NoAnswer, "key", "operator"} /\ cache.left \in 0..CacheTTL
    /\ qcache.up \in BOOLEAN /\ qcache.period \in 0..LastPeriod /\ qcache.left \in 0..QuotaTTL
    /\ hits \in Seq(0..Minute)
    /\ \A c \in Caller : call[c].age \in 0..WaitLimit

Admitted(c) == call[c].step = "admitted"

\* Revocation takes effect within the time a cache entry lives (auth.py:9-10):
\* a request that arrives later is refused, however slow the store was and
\* whoever else was being looked up.
RevocationBound == \A c \in Caller : Admitted(c) => ~call[c].late

\* A used-up quota is noticed within the time a usage entry lives
\* (auth.py:27-30), across lookups in flight and the turn of a period.
QuotaBound == \A c \in Caller : Admitted(c) => ~call[c].spent

\* A change of role takes effect immediately, "incl. the router"
\* (api/auth.py:137).
RoleIsImmediate ==
    \A c \in Caller : Admitted(c) /\ call[c].via = "operator" => call[c].held
=============================================================================
