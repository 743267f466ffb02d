--------------------------- MODULE ServicesProofs ---------------------------
(***************************************************************************)
(* Safety of the services around the lifecycle of models, each for every   *)
(* value of its constants: router keys (KeyAuth), downloads (Downloads),   *)
(* alerts (Alerts), the history of the configuration (ConfigOverlay).      *)
(***************************************************************************)
EXTENDS ConfigOverlay, Alerts, KeyAuth, Downloads, TLAPS, FiniteSetTheorems, WellFoundedInduction

-----------------------------------------------------------------------------
(* Router keys. *)

Call == [step : Looking \cup {"idle", "admitted", "refused"}, age : Nat,
         got : {NoAnswer, "key", "operator", "viewer", "gone", "up", "left"},
         via : {NoAnswer, "key", "operator"}, period : Nat,
         held : BOOLEAN, late : BOOLEAN, spent : BOOLEAN]

KeyTypes ==
    /\ cred \in [as : Creds, since : Nat]
    /\ usage \in [up : SUBSET Nat, since : Nat]
    /\ period \in 1..LastPeriod
    /\ cache \in [as : {NoAnswer, "key", "operator"}, left : 0..CacheTTL]
    /\ qcache \in [up : BOOLEAN, period : Nat, left : 0..QuotaTTL]
    /\ call \in [Caller -> Call]

Bad == cred.as \in {"viewer", "gone"}

\* An entry that lets a token in lives no longer than CacheTTL after the token
\* was last good; whoever arrives when it has been bad for so long finds none.
\* The same for the usage of the present period.
EntriesAreYoung ==
    /\ Bad /\ cache.left > 0 => cred.since + cache.left <= CacheTTL
    /\ period \in usage.up /\ qcache.left > 0 /\ qcache.period = period /\ ~qcache.up
         => usage.since + qcache.left <= QuotaTTL
    /\ usage.up \subseteq 1..period
    /\ qcache.period <= period

\* An answer on its way that lets request r in was read when it was true.
AnswersAreYoung(r) ==
    /\ Bad /\ \/ r.step = "keyed" /\ r.got = "key"
              \/ r.step = "roled" /\ r.got = "operator"
         => cred.since <= r.age
    /\ period \in usage.up /\ r.step = "summed" /\ r.got # "up" /\ r.period = period
         => usage.since <= r.age

\* What is known of a request that must be refused.
IsRefused(r) ==
    /\ r.late =>
         /\ Bad
         /\ r.step \in {"key", "keyed", "role", "roled", "refused"}
         /\ r.step = "keyed" => r.got # "key"
         /\ r.step = "roled" => r.got # "operator"
    /\ r.period <= period
    /\ r.spent =>
         /\ r.step \in {"usage", "summed", "refused"}
         /\ r.step = "usage" => r.period \in usage.up
         /\ r.step = "summed" => r.got = "up"

CallsAreYoung == \A c \in Caller : AnswersAreYoung(call[c])
CallsAreRefused == \A c \in Caller : IsRefused(call[c])

KeyInv == KeyTypes /\ EntriesAreYoung /\ CallsAreYoung /\ CallsAreRefused

LEMMA KeyStart == KeyInit => KeyInv
<1>1. KeyInit => KeyTypes
  BY KeyAssumption DEF KeyInit, KeyTypes, Creds, NoCaller, Call, NoAnswer
<1>2. KeyInit => EntriesAreYoung /\ CallsAreYoung /\ CallsAreRefused
  BY DEF KeyInit, EntriesAreYoung, CallsAreYoung, AnswersAreYoung, CallsAreRefused, IsRefused, Bad, NoCaller
<1>3. QED
  BY <1>1, <1>2 DEF KeyInv

\* One request goes on; the token, its usage and the clock stay.
Goes(c, r) ==
    /\ r \in Call
    /\ call' = [call EXCEPT ![c] = r]
    /\ UNCHANGED <<cred, usage, period>>

LEMMA OneGoesOn ==
    ASSUME KeyInv, NEW c \in Caller, NEW r, Goes(c, r), AnswersAreYoung(r), IsRefused(r),
           cache' \in [as : {NoAnswer, "key", "operator"}, left : 0..CacheTTL],
           qcache' \in [up : BOOLEAN, period : Nat, left : 0..QuotaTTL],
           EntriesAreYoung'
    PROVE  KeyInv'
<1>1. KeyTypes'
  BY DEF Goes, KeyInv, KeyTypes
<1>2. \A d \in Caller : call'[d] = IF d = c THEN r ELSE call[d]
  BY DEF Goes, KeyInv, KeyTypes
<1>3. \A d \in Caller : AnswersAreYoung(call'[d]) /\ IsRefused(call'[d])
  BY <1>2 DEF KeyInv, CallsAreYoung, CallsAreRefused
<1>4. CallsAreYoung' /\ CallsAreRefused'
  BY <1>3 DEF Goes, CallsAreYoung, CallsAreRefused, AnswersAreYoung, IsRefused, Bad
<1>5. QED
  BY <1>1, <1>4 DEF KeyInv

LEMMA OneGoesOnAlone ==
    ASSUME KeyInv, NEW c \in Caller, NEW r, Goes(c, r), AnswersAreYoung(r), IsRefused(r),
           UNCHANGED <<cache, qcache>>
    PROVE  KeyInv'
<1>1. EntriesAreYoung'
  BY DEF Goes, KeyInv, EntriesAreYoung, Bad
<1>2. QED
  BY <1>1, OneGoesOn DEF KeyInv, KeyTypes

\* _check_rate and _check_quota: a request whose quota has been used up for
\* QuotaTTL finds no entry that says otherwise, and asks the store.
LEMMA CheckedCall ==
    ASSUME KeyInv, NEW c \in Caller, NEW was \in Call, ~was.spent, ~was.late, was.period <= period,
           Checked(c, [call EXCEPT ![c] = was])
    PROVE  \E r \in Call : /\ call' = [call EXCEPT ![c] = r]
                           /\ AnswersAreYoung(r) /\ IsRefused(r)
<1> USE DEF KeyInv, KeyTypes
<1>1. CASE ~Within
  <2> DEFINE r == [was EXCEPT !.step = "refused"]
  <2>1. call' = [call EXCEPT ![c] = r]
    BY <1>1 DEF Checked
  <2>2. r \in Call
    BY DEF Call
  <2>3. r.step = "refused" /\ r.late = was.late /\ r.period = was.period
    BY DEF Call
  <2>4. AnswersAreYoung(r) /\ IsRefused(r)
    BY <2>3 DEF AnswersAreYoung, IsRefused
  <2>5. QED
    BY <2>1, <2>2, <2>4
<1>2. CASE Within
  <2> DEFINE cached == qcache.left > 0 /\ qcache.period = period
             step == CASE ~HasQuota -> "admitted"
                       [] HasQuota /\ cached -> IF qcache.up THEN "refused" ELSE "admitted"
                       [] OTHER -> "usage"
             asked == IF HasQuota /\ ~cached THEN period ELSE 0
             used == HasQuota /\ period \in usage.up /\ usage.since >= QuotaTTL
             r == [was EXCEPT !.step = step, !.period = asked, !.spent = used]
  <2>1. call' = [call EXCEPT ![c] = r]
    BY <1>2 DEF Checked
  <2>2. step \in {"admitted", "refused", "usage"} /\ asked \in Nat /\ asked <= period
        /\ used \in BOOLEAN
    BY KeyAssumption
  <2>3. used => step = "refused" \/ (step = "usage" /\ asked = period /\ period \in usage.up)
    BY KeyAssumption DEF EntriesAreYoung
  <2> HIDE DEF step, asked, used
  <2>4. r \in Call
    BY <2>2 DEF Call, Looking
  <2>5. r.step = step /\ r.period = asked /\ r.spent = used /\ r.late = was.late
    BY DEF Call
  <2>6. AnswersAreYoung(r) /\ IsRefused(r)
    BY <2>2, <2>3, <2>5 DEF AnswersAreYoung, IsRefused
  <2>7. QED
    BY <2>1, <2>4, <2>6
<1>3. QED
  BY <1>1, <1>2

\* The token, or its usage, changes under the requests.
LEMMA RevokesStep == ASSUME KeyInv, Revokes PROVE KeyInv'
<1>1. cred' = [as |-> "gone", since |-> 0] /\ UNCHANGED <<usage, period, cache, qcache, hits, call>>
  BY DEF Revokes
<1>2. KeyTypes'
  BY <1>1 DEF KeyInv, KeyTypes, Creds
<1>3. EntriesAreYoung' /\ CallsAreYoung'
  BY <1>1, KeyAssumption, <1>2
     DEF KeyInv, KeyTypes, EntriesAreYoung, CallsAreYoung, AnswersAreYoung, Bad, Call
<1>4. CallsAreRefused'
  BY <1>1 DEF KeyInv, KeyTypes, CallsAreRefused, IsRefused, Bad, Call
<1>5. QED
  BY <1>2, <1>3, <1>4 DEF KeyInv

LEMMA RoleStep == ASSUME KeyInv, ChangesRole PROVE KeyInv'
<1>1. UNCHANGED <<usage, period, cache, qcache, hits>>
  BY DEF ChangesRole
<1>2. CASE cred.as = "operator" /\ cred' = [as |-> "viewer", since |-> 0] /\ UNCHANGED call
  <2>1. KeyTypes'
    BY <1>1, <1>2 DEF KeyInv, KeyTypes, Creds
  <2>2. EntriesAreYoung' /\ CallsAreYoung'
    BY <1>1, <1>2, KeyAssumption, <2>1
       DEF KeyInv, KeyTypes, EntriesAreYoung, CallsAreYoung, AnswersAreYoung, Bad, Call
  <2>3. CallsAreRefused'
    BY <1>1, <1>2 DEF KeyInv, KeyTypes, CallsAreRefused, IsRefused, Bad, Call
  <2>4. QED
    BY <2>1, <2>2, <2>3 DEF KeyInv
<1>3. CASE /\ cred' = [as |-> "operator", since |-> 0]
           /\ call' = [c \in Caller |-> [call[c] EXCEPT !.held = TRUE, !.late = FALSE]]
  <2>1. ~Bad'
    BY <1>3 DEF Bad
  <2>2. ASSUME NEW c \in Caller
        PROVE  /\ call[c] \in Call /\ call'[c] \in Call
               /\ ~call'[c].late
               /\ call'[c].step = call[c].step /\ call'[c].got = call[c].got
               /\ call'[c].period = call[c].period /\ call'[c].age = call[c].age
               /\ call'[c].spent = call[c].spent
    <3>1. call'[c] = [call[c] EXCEPT !.held = TRUE, !.late = FALSE] /\ call[c] \in Call
      BY <1>3 DEF KeyInv, KeyTypes
    <3>2. QED
      BY <3>1 DEF Call
  <2>3. KeyTypes'
    BY <1>1, <1>3, <2>2 DEF KeyInv, KeyTypes, Creds
  <2>4. EntriesAreYoung' /\ CallsAreYoung'
    BY <1>1, <2>1, <2>2 DEF KeyInv, EntriesAreYoung, CallsAreYoung, AnswersAreYoung
  <2>5. CallsAreRefused'
    BY <1>1, <2>2 DEF KeyInv, CallsAreRefused, IsRefused
  <2>6. QED
    BY <2>3, <2>4, <2>5 DEF KeyInv
<1>4. QED
  BY <1>2, <1>3 DEF ChangesRole

LEMMA LoggedStep == ASSUME KeyInv, Logged PROVE KeyInv'
<1>1. /\ usage' = [up |-> 1..period, since |-> 0] /\ period \notin usage.up
      /\ UNCHANGED <<cred, period, cache, qcache, hits, call>>
  BY DEF Logged
<1>2. KeyTypes'
  BY <1>1 DEF KeyInv, KeyTypes
<1>3. EntriesAreYoung' /\ CallsAreYoung'
  BY <1>1, KeyAssumption, <1>2
     DEF KeyInv, KeyTypes, EntriesAreYoung, CallsAreYoung, AnswersAreYoung, Bad, Call
<1>4. \A n \in usage.up : n \in usage'.up
  BY <1>1 DEF KeyInv, KeyTypes, EntriesAreYoung
<1>5. CallsAreRefused'
  BY <1>1, <1>4 DEF KeyInv, CallsAreRefused, IsRefused, Bad
<1>6. QED
  BY <1>2, <1>3, <1>5 DEF KeyInv

LEMMA ArrivesStep == ASSUME KeyInv, NEW c \in Caller, Arrives(c) PROVE KeyInv'
<1> DEFINE via == IF cache.left > 0 THEN cache.as ELSE NoAnswer
           held == cred.as \in {"key", "operator"}
           late == cred.as \in {"viewer", "gone"} /\ cred.since >= CacheTTL
           new == [NoCaller EXCEPT !.step = "key", !.via = via, !.held = held, !.late = late]
<1>1. /\ new \in Call /\ new.step = "key" /\ new.period = 0 /\ ~new.spent
      /\ new.late => Bad /\ ~(cache.left > 0)
  <2>1. via \in {NoAnswer, "key", "operator"} /\ held \in BOOLEAN /\ late \in BOOLEAN
    BY DEF KeyInv, KeyTypes
  <2>2. late => Bad /\ ~(cache.left > 0)
    BY KeyAssumption DEF KeyInv, KeyTypes, EntriesAreYoung, Bad
  <2> HIDE DEF via, held, late
  <2>3. NoCaller \in Call /\ NoCaller.period = 0 /\ ~NoCaller.spent
    BY DEF NoCaller, Call, NoAnswer
  <2>4. new \in Call /\ new.step = "key" /\ new.period = 0 /\ ~new.spent /\ new.late = late
    BY <2>1, <2>3 DEF Call, Looking
  <2>5. QED
    BY <2>2, <2>4
<1>2. UNCHANGED <<cred, usage, period, cache, qcache>>
  BY DEF Arrives
<1>3. CASE cache.left > 0 /\ cache.as = "key"
  <2>1. Checked(c, [call EXCEPT ![c] = new])
    BY <1>3 DEF Arrives
  <2>2. PICK r \in Call : /\ call' = [call EXCEPT ![c] = r]
                          /\ AnswersAreYoung(r) /\ IsRefused(r)
    <3> HIDE DEF new
    <3>1. new.period <= period /\ ~new.late
      BY <1>1, <1>3 DEF KeyInv, KeyTypes
    <3>2. QED
      BY <1>1, <2>1, <3>1, CheckedCall
  <2>3. QED
    BY <1>2, <2>2, OneGoesOnAlone DEF Goes
<1>4. CASE cache.left > 0 /\ cache.as = "operator"
  <2> DEFINE r == [new EXCEPT !.step = "admitted"]
  <2>1. call' = [call EXCEPT ![c] = r]
    BY <1>4 DEF Arrives, KeyInv, KeyTypes
  <2> HIDE DEF new
  <2>2. /\ r \in Call /\ r.step = "admitted" /\ r.period = 0 /\ ~r.spent /\ ~r.late
    BY <1>1, <1>4 DEF Call
  <2>3. AnswersAreYoung(r) /\ IsRefused(r)
    BY <2>2 DEF AnswersAreYoung, IsRefused, KeyInv, KeyTypes
  <2>4. QED
    BY <1>2, <2>1, <2>2, <2>3, OneGoesOnAlone DEF Goes
<1>5. CASE ~(cache.left > 0 /\ cache.as \in {"key", "operator"})
  <2>1. call' = [call EXCEPT ![c] = new]
    BY <1>5 DEF Arrives
  <2> HIDE DEF new
  <2>2. AnswersAreYoung(new) /\ IsRefused(new)
    BY <1>1 DEF AnswersAreYoung, IsRefused, KeyInv, KeyTypes
  <2>3. QED
    BY <1>1, <1>2, <2>1, <2>2, OneGoesOnAlone DEF Goes
<1>6. QED
  BY <1>3, <1>4, <1>5

\* The reads: what an answer says was true when it was read.
LEMMA ReadsKeyStep == ASSUME KeyInv, NEW c \in Caller, ReadsKey(c) PROVE KeyInv'
<1> DEFINE r == [call[c] EXCEPT !.step = "keyed",
                                !.got = IF cred.as = "key" THEN "key" ELSE "gone"]
<1>1. call[c] \in Call /\ call[c].step = "key" /\ IsRefused(call[c])
  BY DEF ReadsKey, KeyInv, KeyTypes, CallsAreRefused
<1>2. call' = [call EXCEPT ![c] = r] /\ UNCHANGED <<cred, usage, period, cache, qcache>>
  BY DEF ReadsKey
<1>3. /\ r \in Call /\ r.step = "keyed" /\ r.got = (IF cred.as = "key" THEN "key" ELSE "gone")
      /\ r.late = call[c].late /\ r.spent = call[c].spent /\ r.period = call[c].period
  BY <1>1 DEF Call, Looking
<1> HIDE DEF r
<1>4. AnswersAreYoung(r) /\ IsRefused(r)
  BY <1>1, <1>3 DEF AnswersAreYoung, IsRefused, Bad
<1>5. QED
  BY <1>2, <1>3, <1>4, OneGoesOnAlone DEF Goes

LEMMA ReadsRoleStep == ASSUME KeyInv, NEW c \in Caller, ReadsRole(c) PROVE KeyInv'
<1> DEFINE r == [call[c] EXCEPT !.step = "roled",
                                !.got = IF cred.as = "key" THEN "gone" ELSE cred.as]
<1>1. call[c] \in Call /\ call[c].step = "role" /\ IsRefused(call[c])
  BY DEF ReadsRole, KeyInv, KeyTypes, CallsAreRefused
<1>2. call' = [call EXCEPT ![c] = r] /\ UNCHANGED <<cred, usage, period, cache, qcache>>
  BY DEF ReadsRole
<1>3. /\ r \in Call /\ r.step = "roled" /\ r.got = (IF cred.as = "key" THEN "gone" ELSE cred.as)
      /\ r.late = call[c].late /\ r.spent = call[c].spent /\ r.period = call[c].period
  BY <1>1 DEF Call, Looking, KeyInv, KeyTypes, Creds
<1> HIDE DEF r
<1>4. AnswersAreYoung(r) /\ IsRefused(r)
  BY <1>1, <1>3 DEF AnswersAreYoung, IsRefused, Bad
<1>5. QED
  BY <1>2, <1>3, <1>4, OneGoesOnAlone DEF Goes

LEMMA ReadsUsageStep == ASSUME KeyInv, NEW c \in Caller, ReadsUsage(c) PROVE KeyInv'
<1> DEFINE r == [call[c] EXCEPT !.step = "summed",
                                !.got = IF call[c].period \in usage.up THEN "up" ELSE "left"]
<1>1. call[c] \in Call /\ call[c].step = "usage" /\ IsRefused(call[c])
  BY DEF ReadsUsage, KeyInv, KeyTypes, CallsAreRefused
<1>2. call' = [call EXCEPT ![c] = r] /\ UNCHANGED <<cred, usage, period, cache, qcache>>
  BY DEF ReadsUsage
<1>3. /\ r \in Call /\ r.step = "summed"
      /\ r.got = (IF call[c].period \in usage.up THEN "up" ELSE "left")
      /\ r.late = call[c].late /\ r.spent = call[c].spent /\ r.period = call[c].period
  BY <1>1 DEF Call, Looking
<1> HIDE DEF r
<1>4. AnswersAreYoung(r) /\ IsRefused(r)
  BY <1>1, <1>3 DEF AnswersAreYoung, IsRefused, Bad
<1>5. QED
  BY <1>2, <1>3, <1>4, OneGoesOnAlone DEF Goes

\* The answers: an entry lives no longer than what is left of its time.
LEMMA RemainingTime ==
    ASSUME KeyInv, NEW c \in Caller, NEW ttl \in Nat
    PROVE  /\ Remaining(c, ttl) \in 0..ttl
           /\ Remaining(c, ttl) > 0 => Remaining(c, ttl) + call[c].age = ttl
<1>1. call[c].age \in Nat
  BY DEF KeyInv, KeyTypes, Call
<1>2. QED
  BY <1>1 DEF Remaining

LEMMA KeyEntry ==
    ASSUME KeyInv, NEW c \in Caller, NEW as \in {"key", "operator"},
           Bad => cred.since <= call[c].age,
           cache' = Entry(c, as), UNCHANGED <<cred, usage, period, qcache>>
    PROVE  /\ cache' \in [as : {NoAnswer, "key", "operator"}, left : 0..CacheTTL]
           /\ EntriesAreYoung'
<1>1. /\ Remaining(c, CacheTTL) \in 0..CacheTTL
      /\ Remaining(c, CacheTTL) > 0 => Remaining(c, CacheTTL) + call[c].age = CacheTTL
      /\ call[c].age \in Nat /\ cred.since \in Nat
  BY RemainingTime, KeyAssumption DEF KeyInv, KeyTypes, Call
<1>2. cache' \in [as : {NoAnswer, "key", "operator"}, left : 0..CacheTTL]
      /\ cache'.left = Remaining(c, CacheTTL)
  BY <1>1 DEF Entry
<1>3. EntriesAreYoung'
  BY <1>1, <1>2, KeyAssumption DEF KeyInv, EntriesAreYoung, Bad
<1>4. QED
  BY <1>2, <1>3

LEMMA AnswersKeyStep == ASSUME KeyInv, NEW c \in Caller, AnswersKey(c) PROVE KeyInv'
<1>1. /\ call[c] \in Call /\ call[c].step = "keyed"
      /\ AnswersAreYoung(call[c]) /\ IsRefused(call[c])
      /\ UNCHANGED <<cred, usage, period, qcache>>
  BY DEF AnswersKey, KeyInv, KeyTypes, CallsAreYoung, CallsAreRefused
<1>2. CASE call[c].got = "key"
  <2> DEFINE was == [call[c] EXCEPT !.via = "key", !.age = 0, !.got = NoAnswer]
  <2>1. cache' = Entry(c, "key")
        /\ Checked(c, [call EXCEPT ![c].via = "key", ![c].age = 0, ![c].got = NoAnswer])
    BY <1>2 DEF AnswersKey
  <2>2. [call EXCEPT ![c].via = "key", ![c].age = 0, ![c].got = NoAnswer] = [call EXCEPT ![c] = was]
    BY DEF KeyInv, KeyTypes
  <2>3. was \in Call /\ was.late = call[c].late /\ was.spent = call[c].spent /\ was.period = call[c].period
    BY <1>1 DEF Call
  <2> HIDE DEF was
  <2>4. was.period <= period /\ ~was.late /\ ~was.spent
    BY <1>1, <1>2, <2>3 DEF IsRefused
  <2>5. PICK r \in Call : /\ call' = [call EXCEPT ![c] = r]
                          /\ AnswersAreYoung(r) /\ IsRefused(r)
    BY <2>1, <2>2, <2>3, <2>4, CheckedCall
  <2>6. Bad => cred.since <= call[c].age
    BY <1>1, <1>2 DEF AnswersAreYoung
  <2>7. /\ cache' \in [as : {NoAnswer, "key", "operator"}, left : 0..CacheTTL]
        /\ EntriesAreYoung'
    BY <1>1, <2>1, <2>6, KeyEntry
  <2>8. QED
    BY <1>1, <2>5, <2>7, OneGoesOn DEF Goes, KeyInv, KeyTypes
<1>3. CASE call[c].got # "key"
  <2> DEFINE r == [call[c] EXCEPT !.step = "role"]
  <2>1. call' = [call EXCEPT ![c] = r] /\ UNCHANGED <<cache, hits>>
    BY <1>3 DEF AnswersKey, To
  <2>2. /\ r \in Call /\ r.step = "role" /\ r.got = call[c].got
        /\ r.late = call[c].late /\ r.spent = call[c].spent /\ r.period = call[c].period
    BY <1>1 DEF Call, Looking
  <2> HIDE DEF r
  <2>3. AnswersAreYoung(r) /\ IsRefused(r)
    BY <1>1, <2>2 DEF AnswersAreYoung, IsRefused
  <2>4. QED
    BY <1>1, <2>1, <2>2, <2>3, OneGoesOnAlone DEF Goes
<1>4. QED
  BY <1>2, <1>3

LEMMA AnswersRoleStep == ASSUME KeyInv, NEW c \in Caller, AnswersRole(c) PROVE KeyInv'
<1>1. /\ call[c] \in Call /\ call[c].step = "roled"
      /\ AnswersAreYoung(call[c]) /\ IsRefused(call[c])
      /\ UNCHANGED <<cred, usage, period, qcache>>
  BY DEF AnswersRole, KeyInv, KeyTypes, CallsAreYoung, CallsAreRefused
<1>2. CASE call[c].got = "operator"
  <2> DEFINE r == [call[c] EXCEPT !.step = "admitted", !.age = 0, !.got = NoAnswer,
                                  !.period = 0, !.via = "operator"]
  <2>1. cache' = Entry(c, "operator") /\ call' = [Over(c, "admitted") EXCEPT ![c].via = "operator"]
    BY <1>2 DEF AnswersRole
  <2>2. call' = [call EXCEPT ![c] = r]
    BY <2>1 DEF Over, KeyInv, KeyTypes
  <2>3. /\ r \in Call /\ r.step = "admitted" /\ r.period = 0
        /\ r.late = call[c].late /\ r.spent = call[c].spent
    BY <1>1 DEF Call
  <2> HIDE DEF r
  <2>4. AnswersAreYoung(r) /\ IsRefused(r)
    BY <1>1, <1>2, <2>3 DEF AnswersAreYoung, IsRefused, KeyInv, KeyTypes
  <2>5. Bad => cred.since <= call[c].age
    BY <1>1, <1>2 DEF AnswersAreYoung
  <2>6. /\ cache' \in [as : {NoAnswer, "key", "operator"}, left : 0..CacheTTL]
        /\ EntriesAreYoung'
    BY <1>1, <2>1, <2>5, KeyEntry
  <2>7. QED
    BY <1>1, <2>2, <2>3, <2>4, <2>6, OneGoesOn DEF Goes, KeyInv, KeyTypes
<1>3. CASE call[c].got # "operator"
  <2> DEFINE r == [call[c] EXCEPT !.step = "refused", !.age = 0, !.got = NoAnswer, !.period = 0]
  <2>1. call' = Over(c, "refused") /\ UNCHANGED cache
    BY <1>3 DEF AnswersRole
  <2>2. call' = [call EXCEPT ![c] = r]
    BY <2>1 DEF Over, KeyInv, KeyTypes
  <2>3. /\ r \in Call /\ r.step = "refused" /\ r.period = 0
        /\ r.late = call[c].late /\ r.spent = call[c].spent
    BY <1>1 DEF Call
  <2> HIDE DEF r
  <2>4. AnswersAreYoung(r) /\ IsRefused(r)
    BY <1>1, <2>3 DEF AnswersAreYoung, IsRefused, KeyInv, KeyTypes
  <2>5. QED
    BY <1>1, <2>1, <2>2, <2>3, <2>4, OneGoesOnAlone DEF Goes
<1>4. QED
  BY <1>2, <1>3

LEMMA AnswersUsageStep == ASSUME KeyInv, NEW c \in Caller, AnswersUsage(c) PROVE KeyInv'
<1> DEFINE over == IF call[c].got = "up" THEN "refused" ELSE "admitted"
           r == [call[c] EXCEPT !.step = over, !.age = 0, !.got = NoAnswer, !.period = 0]
<1>1. /\ call[c] \in Call /\ call[c].step = "summed"
      /\ AnswersAreYoung(call[c]) /\ IsRefused(call[c])
      /\ UNCHANGED <<cred, usage, period, cache>>
  BY DEF AnswersUsage, KeyInv, KeyTypes, CallsAreYoung, CallsAreRefused
<1>2. call' = [call EXCEPT ![c] = r]
  BY DEF AnswersUsage, Over, KeyInv, KeyTypes
<1>3. /\ r \in Call /\ r.step = over /\ r.period = 0
      /\ r.late = call[c].late /\ r.spent = call[c].spent
  BY <1>1 DEF Call
<1> HIDE DEF r
<1>4. AnswersAreYoung(r) /\ IsRefused(r)
  BY <1>1, <1>3 DEF AnswersAreYoung, IsRefused, KeyInv, KeyTypes
<1>5. /\ Remaining(c, QuotaTTL) \in 0..QuotaTTL
      /\ Remaining(c, QuotaTTL) > 0 => Remaining(c, QuotaTTL) + call[c].age = QuotaTTL
  BY RemainingTime, KeyAssumption
<1>6. /\ qcache' \in [up : BOOLEAN, period : Nat, left : 0..QuotaTTL]
      /\ qcache'.left = Remaining(c, QuotaTTL) /\ qcache'.period = call[c].period
      /\ ~qcache'.up => call[c].got # "up"
  BY <1>1, <1>5 DEF AnswersUsage, Call
<1>7. period \in usage.up /\ qcache'.period = period /\ ~qcache'.up => usage.since <= call[c].age
  BY <1>1, <1>6 DEF AnswersAreYoung
<1>8. EntriesAreYoung'
  BY <1>1, <1>5, <1>6, <1>7, KeyAssumption
     DEF KeyInv, KeyTypes, EntriesAreYoung, Bad, IsRefused, Call
<1>9. QED
  BY <1>1, <1>2, <1>3, <1>4, <1>6, <1>8, OneGoesOn DEF Goes, KeyInv, KeyTypes

\* A tick: what an entry has left and how old an answer is change together with
\* the time since the token was good, or the quota was left.
LEMMA ElapsesStep == ASSUME KeyInv, Elapses PROVE KeyInv'
<1>1. /\ cred' = [cred EXCEPT !.since = Upto(@, CacheTTL)]
      /\ period' \in {period, Upto(period, LastPeriod)}
      /\ usage' = [usage EXCEPT !.since = IF period' \in usage.up THEN Upto(@, QuotaTTL) ELSE 0]
      /\ cache' = [as |-> IF cache.left <= 1 THEN NoAnswer ELSE cache.as, left |-> Down(cache.left)]
      /\ qcache' = [qcache EXCEPT !.left = Down(@)]
      /\ call' = [c \in Caller |-> IF call[c].step \in Looking
                                   THEN [call[c] EXCEPT !.age = @ + 1] ELSE call[c]]
  BY DEF Elapses
<1>2. /\ cred \in [as : Creds, since : Nat] /\ usage \in [up : SUBSET Nat, since : Nat]
      /\ period \in 1..LastPeriod
      /\ cache \in [as : {NoAnswer, "key", "operator"}, left : 0..CacheTTL]
      /\ qcache \in [up : BOOLEAN, period : Nat, left : 0..QuotaTTL]
      /\ CacheTTL \in Nat /\ QuotaTTL \in Nat /\ LastPeriod \in Nat
      /\ usage.up \subseteq 1..period /\ qcache.period <= period
  BY KeyAssumption DEF KeyInv, KeyTypes, EntriesAreYoung
<1>3. /\ cred' \in [as : Creds, since : Nat] /\ cred'.as = cred.as /\ cred'.since <= cred.since + 1
  BY <1>1, <1>2 DEF Upto
<1>4. period' \in 1..LastPeriod /\ period' >= period /\ (period' \in usage.up => period' = period)
  BY <1>1, <1>2 DEF Upto
<1>5. /\ usage' \in [up : SUBSET Nat, since : Nat] /\ usage'.up = usage.up
      /\ usage'.since <= usage.since + 1
  BY <1>1, <1>2 DEF Upto
<1>6. /\ cache' \in [as : {NoAnswer, "key", "operator"}, left : 0..CacheTTL]
      /\ cache'.left > 0 => cache.left > 0 /\ cache'.left = cache.left - 1
  BY <1>1, <1>2 DEF Down
<1>7. /\ qcache' \in [up : BOOLEAN, period : Nat, left : 0..QuotaTTL]
      /\ qcache'.up = qcache.up /\ qcache'.period = qcache.period
      /\ qcache'.left > 0 => qcache.left > 0 /\ qcache'.left = qcache.left - 1
  BY <1>1, <1>2 DEF Down
<1>8. ASSUME NEW c \in Caller
      PROVE  /\ call[c] \in Call /\ call'[c] \in Call
             /\ call'[c].step = call[c].step /\ call'[c].got = call[c].got
             /\ call'[c].period = call[c].period /\ call'[c].late = call[c].late
             /\ call'[c].spent = call[c].spent
             /\ call[c].step \in Looking => call'[c].age = call[c].age + 1
  <2>1. call[c] \in Call
        /\ call'[c] = IF call[c].step \in Looking THEN [call[c] EXCEPT !.age = @ + 1] ELSE call[c]
    BY <1>1 DEF KeyInv, KeyTypes
  <2>2. CASE call[c].step \in Looking
    <3>1. call'[c] = [call[c] EXCEPT !.age = call[c].age + 1]
      BY <2>1, <2>2
    <3>2. QED
      BY <2>1, <3>1 DEF Call
  <2>3. CASE call[c].step \notin Looking
    BY <2>1, <2>3
  <2>4. QED
    BY <2>2, <2>3
<1>9. call' \in [Caller -> Call]
  BY <1>1, <1>8
<1>10. KeyTypes'
  BY <1>3, <1>4, <1>5, <1>6, <1>7, <1>9 DEF KeyTypes
<1>11. EntriesAreYoung'
  <2>1. Bad' /\ cache'.left > 0 => cred'.since + cache'.left <= CacheTTL
    BY <1>2, <1>3, <1>6 DEF KeyInv, EntriesAreYoung, Bad
  <2>2. period' \in usage'.up /\ qcache'.left > 0 /\ qcache'.period = period' /\ ~qcache'.up
          => usage'.since + qcache'.left <= QuotaTTL
    BY <1>2, <1>4, <1>5, <1>7 DEF KeyInv, EntriesAreYoung
  <2>3. usage'.up \subseteq 1..period' /\ qcache'.period <= period'
    BY <1>2, <1>4, <1>5, <1>7
  <2>4. QED
    BY <2>1, <2>2, <2>3 DEF EntriesAreYoung
<1>12. ASSUME NEW c \in Caller
       PROVE  AnswersAreYoung(call[c])' /\ IsRefused(call[c])'
  <2>1. AnswersAreYoung(call[c]) /\ IsRefused(call[c])
    BY DEF KeyInv, CallsAreYoung, CallsAreRefused
  <2>2. call[c].age \in Nat /\ call[c].period \in Nat
    BY <1>8 DEF Call
  <2>3. AnswersAreYoung(call[c])'
    BY <1>2, <1>3, <1>4, <1>5, <1>8, <2>1, <2>2 DEF AnswersAreYoung, Bad, Looking
  <2>4. IsRefused(call[c])'
    BY <1>2, <1>3, <1>4, <1>5, <1>8, <2>1, <2>2 DEF IsRefused, Bad
  <2>5. QED
    BY <2>3, <2>4
<1>13. QED
  BY <1>10, <1>11, <1>12 DEF KeyInv, CallsAreYoung, CallsAreRefused

LEMMA KeyIdle == KeyInv /\ UNCHANGED keyVars => KeyInv'
BY DEF KeyInv, KeyTypes, EntriesAreYoung, CallsAreYoung, AnswersAreYoung, CallsAreRefused,
       IsRefused, Bad, keyVars

LEMMA KeyStep == KeyInv /\ [KeyNext]_keyVars => KeyInv'
BY RevokesStep, RoleStep, LoggedStep, ElapsesStep, ArrivesStep, ReadsKeyStep, AnswersKeyStep,
   ReadsRoleStep, AnswersRoleStep, ReadsUsageStep, AnswersUsageStep, KeyIdle DEF KeyNext

LEMMA KeyIsInvariant == KeySpec => []KeyInv
BY KeyStart, KeyStep, PTL DEF KeySpec

\* A revoked key, a revoked operator and one turned into a viewer are refused
\* once the token has been bad for CacheTTL, for any times to live, any delay of
\* the store and any callers (_lookup_api_key_cached, _lookup_operator_cached).
THEOREM RevocationBounded == KeySpec => []RevocationBound
<1>1. KeyInv => RevocationBound
  BY DEF KeyInv, CallsAreRefused, IsRefused, RevocationBound, Admitted
<1>2. QED
  BY <1>1, KeyIsInvariant, PTL

\* A request that arrives when the quota of the period has been used up for
\* QuotaTTL is refused, across lookups in flight and turns of the period
\* (_check_quota).
THEOREM QuotaBounded == KeySpec => []QuotaBound
<1>1. KeyInv => QuotaBound
  BY DEF KeyInv, CallsAreRefused, IsRefused, QuotaBound, Admitted
<1>2. QED
  BY <1>1, KeyIsInvariant, PTL

-----------------------------------------------------------------------------
(* Downloads. *)

JobRecord == [step : Steps \cup {"over"},
              state : {"unused", "pending", "downloading", "completed", "failed"},
              total : 0..FullSize, bytes : 0..FullSize, final : 0..FullSize,
              poll : {"off", "reading", "answered", "resting"},
              sample : 0..FullSize, cut : BOOLEAN, warming : BOOLEAN]

\* A job whose task runs is in flight, and polls only while its task is past
\* the lookup of the size.
IsOpen(job) ==
    /\ job.step \in Steps => job.state \in {"pending", "downloading"}
    /\ job.poll # "off" => job.step \in {"fetching", "measuring", "measured"}

RunnersAreOpen == \A j \in Job : IsOpen(jobs[j])

DownloadInv == DownloadTypeOK /\ OneRunner /\ RunnersAreOpen

LEMMA UnusedJob == Unused \in JobRecord /\ Unused.step = "over" /\ Unused.poll = "off"
<1>1. NewJob \in JobRecord /\ NewJob.poll = "off"
  BY DownloadAssumption DEF NewJob, JobRecord, Steps
<1>2. QED
  BY <1>1 DEF Unused, JobRecord

LEMMA DownloadStart == DownloadInit => DownloadInv
<1>1. Unused \in JobRecord
  BY UnusedJob
<1>2. Unused.step = "over" /\ Unused.poll = "off"
  BY UnusedJob
<1>3. DownloadInit => DownloadTypeOK
  BY <1>1, DownloadAssumption DEF DownloadInit, DownloadTypeOK, JobRecord
<1>4. DownloadInit => OneRunner /\ RunnersAreOpen
  BY <1>2 DEF DownloadInit, OneRunner, Runs, RunnersAreOpen, IsOpen, Steps
<1>5. QED
  BY <1>3, <1>4 DEF DownloadInv

\* A step of one job: its task goes on, or is over and no longer registered.
LEMMA OneJobGoesOn ==
    ASSUME DownloadInv, NEW j \in Job, NEW r \in JobRecord, IsOpen(r),
           r.step \in Steps => Runs(j),
           jobs' = [jobs EXCEPT ![j] = r],
           UNCHANGED <<kind, current, deletes>>,
           task' = task \/ (Runs(j) /\ r.step \notin Steps /\ task' = NoJob),
           onDisk' \in 0..FullSize
    PROVE  DownloadInv'
<1>1. \A i \in Job : jobs'[i] = IF i = j THEN r ELSE jobs[i]
  BY DEF DownloadInv, DownloadTypeOK
<1>2. DownloadTypeOK'
  BY DEF DownloadInv, DownloadTypeOK, JobRecord
<1>3. OneRunner'
  BY <1>1 DEF DownloadInv, OneRunner, Runs
<1>4. RunnersAreOpen'
  BY <1>1 DEF DownloadInv, RunnersAreOpen, IsOpen
<1>5. QED
  BY <1>2, <1>3, <1>4 DEF DownloadInv

LEMMA JobFacts ==
    ASSUME DownloadInv, NEW j \in Job
    PROVE  jobs[j] \in JobRecord /\ IsOpen(jobs[j]) /\ onDisk \in 0..FullSize
BY DEF DownloadInv, DownloadTypeOK, RunnersAreOpen, JobRecord

LEMMA StartsDownloadStep == ASSUME DownloadInv, NEW j \in Job, StartsDownload(j) PROVE DownloadInv'
<1>1. /\ ~InFlight(current) /\ current' = j /\ task' = j
      /\ jobs' = [jobs EXCEPT ![j] = NewJob] /\ UNCHANGED <<kind, onDisk, deletes>>
  BY DEF StartsDownload
<1>2. /\ NewJob \in JobRecord /\ NewJob.step = "spawned" /\ NewJob.state = "pending"
      /\ NewJob.poll = "off"
  BY DownloadAssumption DEF NewJob, JobRecord, Steps
<1>3. \A i \in Job : ~Runs(i)
  BY <1>1, DownloadAssumption DEF DownloadInv, OneRunner, RunnersAreOpen, IsOpen, Runs, InFlight
<1>4. \A i \in Job : jobs'[i] = IF i = j THEN NewJob ELSE jobs[i]
  BY <1>1 DEF DownloadInv, DownloadTypeOK
<1>5. DownloadTypeOK'
  BY <1>1, <1>2 DEF DownloadInv, DownloadTypeOK, JobRecord
<1>6. OneRunner'
  BY <1>1, <1>3, <1>4 DEF OneRunner, Runs
<1>7. RunnersAreOpen'
  BY <1>2, <1>4 DEF DownloadInv, RunnersAreOpen, IsOpen
<1>8. QED
  BY <1>5, <1>6, <1>7 DEF DownloadInv

LEMMA BeginsDownloadStep == ASSUME DownloadInv, NEW j \in Job, BeginsDownload(j) PROVE DownloadInv'
<1> DEFINE step == IF kind \in {"model", "lora"} THEN "sizing" ELSE "fetching"
           poll == IF kind \in {"model", "lora"} THEN "off" ELSE "reading"
           r == [jobs[j] EXCEPT !.state = "downloading", !.step = step, !.poll = poll]
<1>1. jobs[j] \in JobRecord /\ Runs(j)
  BY JobFacts DEF BeginsDownload, Runs, Steps
<1>2. jobs' = [jobs EXCEPT ![j] = r] /\ UNCHANGED <<kind, current, task, onDisk, deletes>>
  BY DEF BeginsDownload, DownloadInv, DownloadTypeOK
<1>3. r \in JobRecord /\ r.state = "downloading" /\ r.step = step /\ r.poll = poll
  BY <1>1 DEF JobRecord, Steps
<1>4. IsOpen(r)
  BY <1>3 DEF IsOpen
<1>5. QED
  BY <1>1, <1>2, <1>3, <1>4, JobFacts, OneJobGoesOn

LEMMA SizedStep == ASSUME DownloadInv, NEW j \in Job, Sized(j) PROVE DownloadInv'
<1>1. jobs[j] \in JobRecord /\ IsOpen(jobs[j]) /\ jobs[j].step = "sizing" /\ Runs(j)
  BY JobFacts DEF Sized, Runs, Steps
<1>2. PICK n \in 0..FullSize :
        jobs' = [jobs EXCEPT ![j].step = "fetching", ![j].total = n, ![j].poll = "reading"]
  BY DEF Sized
<1> DEFINE r == [jobs[j] EXCEPT !.step = "fetching", !.total = n, !.poll = "reading"]
<1>3. jobs' = [jobs EXCEPT ![j] = r] /\ UNCHANGED <<kind, current, task, onDisk, deletes>>
  BY <1>2 DEF Sized, DownloadInv, DownloadTypeOK
<1>4. r \in JobRecord /\ r.state = jobs[j].state /\ r.step = "fetching"
  BY <1>1 DEF JobRecord, Steps
<1>5. IsOpen(r)
  BY <1>1, <1>4 DEF IsOpen, Steps
<1>6. QED
  BY <1>1, <1>3, <1>4, <1>5, JobFacts, OneJobGoesOn

LEMMA FetchesStep == ASSUME DownloadInv, NEW j \in Job, Fetches(j) PROVE DownloadInv'
<1>1. onDisk' \in 0..FullSize /\ UNCHANGED <<kind, current, task, jobs, deletes>>
  BY DownloadAssumption DEF Fetches, DownloadInv, DownloadTypeOK
<1>2. QED
  BY <1>1 DEF DownloadInv, DownloadTypeOK, OneRunner, Runs, RunnersAreOpen, IsOpen

LEMMA FetchedStep == ASSUME DownloadInv, NEW j \in Job, Fetched(j) PROVE DownloadInv'
<1> DEFINE r == [jobs[j] EXCEPT !.step = "measuring"]
<1>1. jobs[j] \in JobRecord /\ IsOpen(jobs[j]) /\ jobs[j].step = "fetching" /\ Runs(j)
  BY JobFacts DEF Fetched, Runs, Steps
<1>2. jobs' = [jobs EXCEPT ![j] = r] /\ UNCHANGED <<kind, current, task, onDisk, deletes>>
  BY DEF Fetched, DownloadInv, DownloadTypeOK
<1>3. r \in JobRecord /\ r.state = jobs[j].state /\ r.step = "measuring"
  BY <1>1 DEF JobRecord, Steps
<1>4. IsOpen(r)
  BY <1>1, <1>3 DEF IsOpen, Steps
<1>5. QED
  BY <1>1, <1>2, <1>3, <1>4, JobFacts, OneJobGoesOn

LEMMA MeasuresStep == ASSUME DownloadInv, NEW j \in Job, Measures(j) PROVE DownloadInv'
<1> DEFINE r == [jobs[j] EXCEPT !.step = "measured", !.final = onDisk]
<1>1. jobs[j] \in JobRecord /\ IsOpen(jobs[j]) /\ jobs[j].step = "measuring" /\ Runs(j)
  BY JobFacts DEF Measures, Runs, Steps
<1>2. jobs' = [jobs EXCEPT ![j] = r] /\ UNCHANGED <<kind, current, task, onDisk, deletes>>
  BY DEF Measures, DownloadInv, DownloadTypeOK
<1>3. r \in JobRecord /\ r.state = jobs[j].state /\ r.step = "measured"
  BY <1>1, JobFacts DEF JobRecord, Steps
<1>4. IsOpen(r)
  BY <1>1, <1>3 DEF IsOpen, Steps
<1>5. QED
  BY <1>1, <1>2, <1>3, <1>4, JobFacts, OneJobGoesOn

LEMMA MaxOfTwo == ASSUME NEW a \in Int, NEW b \in Int PROVE Max({a, b}) \in {a, b}
<1>1. \E x \in {a, b} : \A y \in {a, b} : x >= y
  OBVIOUS
<1>2. QED
  BY <1>1 DEF Max

LEMMA CompletesStep == ASSUME DownloadInv, NEW j \in Job, Completes(j) PROVE DownloadInv'
<1> DEFINE job == jobs[j]
           total == IF job.total > 0 THEN Max({job.total, job.final}) ELSE 0
           done == [job EXCEPT !.state = "completed", !.bytes = job.final, !.total = total,
                               !.warming = kind = "eval"]
           r == [done EXCEPT !.step = "over", !.poll = "off", !.cut = FALSE]
<1>1. job \in JobRecord /\ job.step = "measured" /\ Runs(j)
  BY JobFacts DEF Completes, Runs, Steps
<1>2. jobs' = [jobs EXCEPT ![j] = r] /\ task' = NoJob /\ UNCHANGED <<kind, current, onDisk, deletes>>
  BY DEF Completes, Leaves
<1>3. total \in 0..FullSize
  BY <1>1, MaxOfTwo, DownloadAssumption DEF JobRecord
<1> HIDE DEF total
<1>4. done \in JobRecord
  BY <1>1, <1>3 DEF JobRecord
<1> HIDE DEF done
<1>5. r \in JobRecord /\ r.step = "over" /\ r.poll = "off"
  BY <1>4 DEF JobRecord
<1>6. IsOpen(r) /\ r.step \notin Steps
  BY <1>5 DEF IsOpen, Steps
<1>7. QED
  BY <1>1, <1>2, <1>5, <1>6, JobFacts, OneJobGoesOn

LEMMA FailsDownloadStep == ASSUME DownloadInv, NEW j \in Job, FailsDownload(j) PROVE DownloadInv'
<1> DEFINE done == [jobs[j] EXCEPT !.state = "failed"]
           r == [done EXCEPT !.step = "over", !.poll = "off", !.cut = FALSE]
<1>1. jobs[j] \in JobRecord /\ jobs[j].step = "fetching" /\ Runs(j)
  BY JobFacts DEF FailsDownload, Runs, Steps
<1>2. jobs' = [jobs EXCEPT ![j] = r] /\ task' = NoJob /\ UNCHANGED <<kind, current, onDisk, deletes>>
  BY DEF FailsDownload, Leaves
<1>3. done \in JobRecord
  BY <1>1 DEF JobRecord
<1> HIDE DEF done
<1>4. r \in JobRecord /\ r.step = "over" /\ r.poll = "off"
  BY <1>3 DEF JobRecord
<1>5. IsOpen(r) /\ r.step \notin Steps
  BY <1>4 DEF IsOpen, Steps
<1>6. QED
  BY <1>1, <1>2, <1>4, <1>5, JobFacts, OneJobGoesOn

\* The poller, and the warming of an evaluation dataset.
LEMMA PollStep ==
    ASSUME DownloadInv, NEW j \in Job, Samples(j) \/ ShowsSample(j) \/ SamplesAgain(j) \/ Warmed(j)
    PROVE  DownloadInv'
<1>1. jobs[j] \in JobRecord /\ IsOpen(jobs[j]) /\ onDisk \in 0..FullSize
  BY JobFacts
<1>2. UNCHANGED <<kind, current, task, onDisk, deletes>>
  BY DEF Samples, ShowsSample, SamplesAgain, Warmed
<1>3. \E r \in JobRecord : /\ jobs' = [jobs EXCEPT ![j] = r]
                           /\ r.step = jobs[j].step /\ r.state = jobs[j].state
                           /\ r.poll # "off" => jobs[j].poll # "off"
  <2>1. CASE Samples(j)
    <3> DEFINE r == [jobs[j] EXCEPT !.poll = "answered", !.sample = onDisk]
    <3>1. jobs' = [jobs EXCEPT ![j] = r] /\ jobs[j].poll = "reading"
      BY <2>1 DEF Samples, DownloadInv, DownloadTypeOK
    <3>2. r \in JobRecord /\ r.step = jobs[j].step /\ r.state = jobs[j].state
      BY <1>1 DEF JobRecord
    <3> HIDE DEF r
    <3>3. QED
      BY <3>1, <3>2
  <2>2. CASE ShowsSample(j)
    <3> DEFINE r == [jobs[j] EXCEPT !.poll = "resting", !.bytes = jobs[j].sample]
    <3>1. jobs' = [jobs EXCEPT ![j] = r] /\ jobs[j].poll = "answered"
      BY <2>2 DEF ShowsSample, DownloadInv, DownloadTypeOK
    <3>2. r \in JobRecord /\ r.step = jobs[j].step /\ r.state = jobs[j].state
      BY <1>1 DEF JobRecord
    <3> HIDE DEF r
    <3>3. QED
      BY <3>1, <3>2
  <2>3. CASE SamplesAgain(j)
    <3> DEFINE r == [jobs[j] EXCEPT !.poll = "reading"]
    <3>1. jobs' = [jobs EXCEPT ![j] = r] /\ jobs[j].poll = "resting"
      BY <2>3 DEF SamplesAgain, DownloadInv, DownloadTypeOK
    <3>2. r \in JobRecord /\ r.step = jobs[j].step /\ r.state = jobs[j].state
      BY <1>1 DEF JobRecord
    <3> HIDE DEF r
    <3>3. QED
      BY <3>1, <3>2
  <2>4. CASE Warmed(j)
    <3> DEFINE r == [jobs[j] EXCEPT !.warming = FALSE]
    <3>1. jobs' = [jobs EXCEPT ![j] = r]
      BY <2>4 DEF Warmed, DownloadInv, DownloadTypeOK
    <3>2. /\ r \in JobRecord /\ r.step = jobs[j].step /\ r.state = jobs[j].state
          /\ r.poll = jobs[j].poll
      BY <1>1 DEF JobRecord
    <3> HIDE DEF r
    <3>3. QED
      BY <3>1, <3>2
  <2>5. QED
    BY <2>1, <2>2, <2>3, <2>4
<1>4. QED
  BY <1>1, <1>2, <1>3, OneJobGoesOn DEF IsOpen, Runs

LEMMA DeletedStep == ASSUME DownloadInv, Deleted PROVE DownloadInv'
<1>1. /\ onDisk' = 0 /\ deletes' \in 0..MaxDeletes /\ UNCHANGED <<kind, current, task>>
      /\ jobs' = [j \in Job |-> [jobs[j] EXCEPT !.cut = jobs[j].step = "fetching" \/ @]]
  BY DownloadAssumption DEF Deleted, DownloadInv, DownloadTypeOK
<1>2. ASSUME NEW j \in Job
      PROVE  /\ jobs'[j] \in JobRecord /\ jobs'[j].step = jobs[j].step
             /\ jobs'[j].state = jobs[j].state /\ jobs'[j].poll = jobs[j].poll
  <2> DEFINE cut == jobs[j].step = "fetching" \/ jobs[j].cut
  <2>1. jobs'[j] = [jobs[j] EXCEPT !.cut = cut] /\ jobs[j] \in JobRecord
    BY <1>1, JobFacts
  <2>2. cut \in BOOLEAN
    BY <2>1
  <2> HIDE DEF cut
  <2>3. QED
    BY <2>1, <2>2 DEF JobRecord
<1>3. jobs' \in [Job -> JobRecord]
  BY <1>1, <1>2
<1>4. DownloadTypeOK'
  BY <1>1, <1>3, DownloadAssumption DEF DownloadInv, DownloadTypeOK, JobRecord
<1>5. OneRunner' /\ RunnersAreOpen'
  BY <1>1, <1>2 DEF DownloadInv, OneRunner, Runs, RunnersAreOpen, IsOpen
<1>6. QED
  BY <1>4, <1>5 DEF DownloadInv

LEMMA ForgetsJobsStep == ASSUME DownloadInv, ForgetsJobs PROVE DownloadInv'
<1>1. Unused \in JobRecord /\ Unused.step = "over" /\ Unused.poll = "off"
  BY UnusedJob
<1>2. /\ current' = NoJob /\ task' = NoJob /\ jobs' = [j \in Job |-> Unused]
      /\ UNCHANGED <<kind, onDisk, deletes>>
  BY DEF ForgetsJobs
<1>3. DownloadTypeOK'
  BY <1>1, <1>2 DEF DownloadInv, DownloadTypeOK, JobRecord
<1>4. OneRunner' /\ RunnersAreOpen'
  BY <1>1, <1>2 DEF OneRunner, Runs, RunnersAreOpen, IsOpen, Steps
<1>5. QED
  BY <1>3, <1>4 DEF DownloadInv

LEMMA DownloadIdle == DownloadInv /\ UNCHANGED downloadVars => DownloadInv'
BY DEF DownloadInv, DownloadTypeOK, OneRunner, Runs, RunnersAreOpen, IsOpen, downloadVars

LEMMA DownloadStep == DownloadInv /\ [DownloadNext]_downloadVars => DownloadInv'
BY StartsDownloadStep, BeginsDownloadStep, SizedStep, FetchesStep, FetchedStep, MeasuresStep,
   CompletesStep, FailsDownloadStep, PollStep, DeletedStep, ForgetsJobsStep, DownloadIdle
   DEF DownloadNext, DeletesModel, DeletesAdapter, DeletesDataset

LEMMA DownloadIsInvariant == DownloadSpec => []DownloadInv
BY DownloadStart, DownloadStep, PTL DEF DownloadSpec

\* Jobs keep their types: no size exceeds the one of the folder.
THEOREM DownloadTypeCorrect == DownloadSpec => []DownloadTypeOK
<1>1. DownloadInv => DownloadTypeOK
  BY DEF DownloadInv
<1>2. QED
  BY <1>1, DownloadIsInvariant, PTL

\* At most one task writes a folder, it is the registered one, and its job is
\* the one the dashboard shows, through every order of starts, failures,
\* deletions and restarts (start, and the finally clause of _run).
THEOREM OneRunnerHolds == DownloadSpec => []OneRunner
<1>1. DownloadInv => OneRunner
  BY DEF DownloadInv
<1>2. QED
  BY <1>1, DownloadIsInvariant, PTL

\* The size a job was completed with stays: no poller, and no task, is left that
\* would write it.
THEOREM SizeStays == DownloadSpec => SizeIsFinal
<1> DEFINE Kept == \A j \in Job : jobs[j].state = "completed" /\ jobs'[j].state = "completed"
                                    => jobs'[j].bytes = jobs[j].bytes
<1>1. ASSUME DownloadInv, DownloadNext PROVE Kept
  <2> SUFFICES ASSUME NEW j \in Job, jobs[j].state = "completed", jobs'[j].state = "completed"
               PROVE  jobs'[j].bytes = jobs[j].bytes
    OBVIOUS
  <2>1. jobs[j] \in JobRecord /\ jobs[j].poll = "off" /\ ~Runs(j)
    BY <1>1, JobFacts DEF IsOpen, Runs, Steps
  <2>2. jobs[j].step \notin {"spawned", "sizing", "fetching", "measuring", "measured"}
    BY <2>1 DEF Runs, Steps
  <2>4. CASE \E i \in Job : StartsDownload(i)
    BY <1>1, <2>4 DEF StartsDownload, NewJob, DownloadInv, DownloadTypeOK
  <2>5. CASE \E i \in Job : BeginsDownload(i) \/ Sized(i) \/ Fetched(i) \/ Measures(i)
    BY <1>1, <2>2, <2>5 DEF BeginsDownload, Sized, Fetched, Measures, DownloadInv, DownloadTypeOK
  <2>6. CASE \E i \in Job : Completes(i) \/ FailsDownload(i)
    BY <1>1, <2>2, <2>6 DEF Completes, FailsDownload, Leaves, DownloadInv, DownloadTypeOK
  <2>7. CASE \E i \in Job : Samples(i) \/ ShowsSample(i) \/ SamplesAgain(i)
    BY <1>1, <2>1, <2>7 DEF Samples, ShowsSample, SamplesAgain, DownloadInv, DownloadTypeOK
  <2>8. CASE \E i \in Job : Warmed(i)
    <3>1. PICK i \in Job : jobs' = [jobs EXCEPT ![i].warming = FALSE]
      BY <2>8 DEF Warmed
    <3>2. jobs'[j] = jobs[j] \/ jobs'[j] = [jobs[j] EXCEPT !.warming = FALSE]
      BY <1>1, <3>1 DEF DownloadInv, DownloadTypeOK
    <3>3. QED
      BY <2>1, <3>2 DEF JobRecord
  <2>9. CASE Deleted
    <3>1. jobs'[j] = [jobs[j] EXCEPT !.cut = jobs[j].step = "fetching" \/ @]
      BY <2>9 DEF Deleted
    <3>2. QED
      BY <2>1, <3>1 DEF JobRecord
  <2>10. CASE ForgetsJobs
    BY <2>10 DEF ForgetsJobs, Unused, NewJob
  <2>11. CASE \E i \in Job : Fetches(i)
    BY <2>11 DEF Fetches
  <2>12. QED
    BY <1>1, <2>4, <2>5, <2>6, <2>7, <2>8, <2>9, <2>10, <2>11
       DEF DownloadNext, DeletesModel, DeletesAdapter, DeletesDataset
<1>2. DownloadInv /\ [DownloadNext]_downloadVars => [Kept]_downloadVars
  BY <1>1
<1>3. QED
  BY <1>2, DownloadIsInvariant, PTL DEF DownloadSpec, SizeIsFinal

-----------------------------------------------------------------------------
(* Alerts: giving up is told. *)

\* A model that is down for good was told of, or somebody is about to tell.
WillBeTold ==
    model.life = "down" /\ GivenUp =>
        told \/ silent \/ \E a \in Emitter : emits[a] = "failed"

TellInv ==
    /\ model \in Model
    /\ emits \in [Emitter -> {"none", "failed", "ready"}]
    /\ WillBeTold

LEMMA TellStart == AlertInit => TellInv
BY AlertAssumption DEF AlertInit, TellInv, Model, Life, WillBeTold

\* What manager.start makes of the instance.
LEMMA LaunchedModel ==
    ASSUME model \in Model, NEW n \in 0..MaxRestarts
    PROVE  /\ Launched(n) \in Model /\ Launched(n).life = "starting"
           /\ Unlaunched(n) \in Model /\ ~Unlaunched(n).managed
<1>1. Launched(n) \in Model /\ Launched(n).life = "starting"
  BY DEF Launched, Model, Life
<1>2. QED
  BY <1>1 DEF Unlaunched, Model, Life

\* A step that leaves the model not given up, or that begins to tell.
LEMMA NothingToTell ==
    ASSUME TellInv, NEW a \in Emitter, NEW to \in {"none", "failed", "ready"},
           emits' = emits \/ Begins(a, to), model' \in Model,
           \/ model'.life # "down" \/ ~model'.managed \/ silent'
           \/ Begins(a, "failed")
    PROVE  TellInv'
<1>1. emits' \in [Emitter -> {"none", "failed", "ready"}]
  BY DEF TellInv, Begins
<1>2. Begins(a, "failed") => emits'[a] = "failed"
  BY DEF TellInv, Begins
<1>3. WillBeTold'
  BY <1>2 DEF WillBeTold, GivenUp
<1>4. QED
  BY <1>1, <1>3 DEF TellInv

LEMMA PassTells == ASSUME TellInv, PassFails \/ PassReadies \/ PassRestarts PROVE TellInv'
<1>1. CASE PassFails
  <2>1. model' = [model EXCEPT !.life = "down", !.armed = Armed, !.failed = TRUE]
        /\ Begins("pass", "failed")
    BY <1>1 DEF PassFails
  <2>2. Armed \in BOOLEAN
    BY DEF Armed, TellInv, Model
  <2>3. model' \in Model
    BY <2>1, <2>2 DEF TellInv, Model, Life
  <2>4. QED
    BY <2>1, <2>3, NothingToTell DEF Emitter
<1>2. CASE PassReadies
  <2>1. model' = [model EXCEPT !.life = "up", !.count = 0, !.armed = FALSE]
        /\ Begins("pass", "ready")
    BY <1>2 DEF PassReadies
  <2>2. model' \in Model /\ model'.life = "up"
    <3>1. 0 \in 0..MaxRestarts /\ model \in Model
      BY AlertAssumption DEF TellInv
    <3>2. QED
      BY <2>1, <3>1 DEF Model, Life
  <2>3. QED
    BY <2>1, <2>2, NothingToTell DEF Emitter
<1>3. CASE PassRestarts
  <2>1. CASE model.count < MaxRestarts /\ UNCHANGED emits /\ model' = Launched(model.count + 1)
    <3>1. model.count + 1 \in 0..MaxRestarts /\ model \in Model
      BY <2>1, AlertAssumption DEF TellInv, Model
    <3>2. QED
      BY <2>1, <3>1, LaunchedModel, NothingToTell DEF Emitter
  <2>2. CASE /\ model.count < MaxRestarts /\ UNCHANGED emits /\ silent' = TRUE
             /\ model' = [model EXCEPT !.armed = FALSE, !.count = @ + 1]
    <3>1. model.count + 1 \in 0..MaxRestarts /\ model \in Model
      BY <2>2, AlertAssumption DEF TellInv, Model
    <3>2. model' \in Model
      BY <2>2, <3>1 DEF Model
    <3>3. QED
      BY <2>2, <3>2, NothingToTell DEF Emitter
  <2>3. CASE /\ model.count < MaxRestarts /\ Begins("pass", "failed")
             /\ model' = Unlaunched(model.count + 1)
    <3>1. model.count + 1 \in 0..MaxRestarts /\ model \in Model
      BY <2>3, AlertAssumption DEF TellInv, Model
    <3>2. QED
      BY <2>3, <3>1, LaunchedModel, NothingToTell DEF Emitter
  <2>4. CASE UNCHANGED <<model, emits, silent>> /\ told' = told
    BY <2>4 DEF TellInv, WillBeTold, GivenUp
  <2>5. QED
    BY <1>3, <2>1, <2>2, <2>3, <2>4 DEF PassRestarts
<1>4. QED
  BY <1>1, <1>2, <1>3

LEMMA TaskTells ==
    ASSUME TellInv, TaskStarts \/ TaskStops \/ TaskSleeps \/ TaskWakes PROVE TellInv'
<1>1. CASE TaskStarts
  <2>1. 0 \in 0..MaxRestarts /\ model \in Model
    BY AlertAssumption DEF TellInv
  <2>2. \/ model' = Launched(0) /\ UNCHANGED emits
        \/ model' = Unlaunched(0) /\ Begins("task", "failed")
    BY <1>1 DEF TaskStarts
  <2>3. QED
    BY <2>1, <2>2, LaunchedModel, NothingToTell DEF Emitter
<1>2. CASE TaskStops
  <2>1. model' = [model EXCEPT !.life = "stopped", !.wanted = FALSE, !.armed = FALSE]
        /\ UNCHANGED emits
    BY <1>2 DEF TaskStops
  <2>2. model' \in Model /\ model'.life # "down"
    BY <2>1 DEF TellInv, Model, Life
  <2>3. QED
    BY <2>1, <2>2, NothingToTell DEF Emitter
<1>3. CASE TaskSleeps
  <2>1. model' = [model EXCEPT !.life = "asleep", !.wanted = FALSE] /\ UNCHANGED emits
    BY <1>3 DEF TaskSleeps
  <2>2. model' \in Model /\ model'.life # "down"
    BY <2>1 DEF TellInv, Model, Life
  <2>3. QED
    BY <2>1, <2>2, NothingToTell DEF Emitter
<1>4. CASE TaskWakes
  <2>1. model' = [model EXCEPT !.life = "up", !.wanted = TRUE] /\ Begins("task", "ready")
    BY <1>4 DEF TaskWakes
  <2>2. model' \in Model /\ model'.life # "down"
    BY <2>1 DEF TellInv, Model, Life
  <2>3. QED
    BY <2>1, <2>2, NothingToTell DEF Emitter
<1>5. QED
  BY <1>1, <1>2, <1>3, <1>4

\* A failure is classified when it is told: by then the model is given up or not.
LEMMA EmitTells == ASSUME TellInv, NEW a \in Emitter, Emit(a) PROVE TellInv'
<1> DEFINE e == Classified(emits[a])
<1>1. emits[a] # "none" /\ Begins(a, "none") /\ silent' = silent
  BY DEF Emit
<1>2. emits' \in [Emitter -> {"none", "failed", "ready"}]
      /\ \A b \in Emitter : b # a => emits'[b] = emits[b]
  BY <1>1 DEF TellInv, Begins
<1>3. /\ model' \in Model /\ model'.life = model.life /\ model'.wanted = model.wanted
      /\ model'.managed = model.managed /\ model'.count = model.count /\ model'.armed = model.armed
  <2>1. model' = model \/ model' = [model EXCEPT !.failed = FALSE]
    BY DEF Emit
  <2>2. QED
    BY <2>1 DEF TellInv, Model
<1>4. GivenUp' <=> GivenUp
  BY <1>3 DEF GivenUp
<1>5. emits[a] # "failed" => told' = told
  BY DEF Emit
<1>6. emits[a] = "failed" /\ GivenUp => told'
  <2> HAVE emits[a] = "failed" /\ GivenUp
  <2>1. e = "gave_up"
    BY DEF Classified
  <2>2. told' = (e = "gave_up" /\ ((e # "none" /\ Eligible(e) # {} /\ ~Suppressed(e))
                                     \/ Eligible(e) = {} \/ sent[e] < Quiet))
    BY DEF Emit
  <2>3. QED
    BY <2>1, <2>2 DEF Suppressed
<1>7. WillBeTold'
  BY <1>1, <1>2, <1>3, <1>4, <1>5, <1>6 DEF WillBeTold, TellInv
<1>8. QED
  BY <1>2, <1>3, <1>7 DEF TellInv

LEMMA TellIdle ==
    ASSUME TellInv, UNCHANGED <<model, emits, told, silent>> PROVE TellInv'
BY DEF TellInv, WillBeTold, GivenUp

LEMMA TellStep == ASSUME TellInv, [AlertNext]_alertVars PROVE TellInv'
<1>1. CASE PassFindsNothing \/ Ages \/ UNCHANGED alertVars
  BY <1>1, TellIdle DEF PassFindsNothing, Ages, alertVars
<1>2. CASE \E q \in Admin : Lists(q) \/ SetsSinks(q) \/ \E s \in Sink : Writes(q, s)
  BY <1>2, TellIdle DEF Lists, SetsSinks, Writes
<1>3. QED
  BY <1>1, <1>2, PassTells, TaskTells, EmitTells DEF AlertNext

\* A model that is down with its budget spent, and with nothing left to emit,
\* was announced as given up, unless its last restart was refused before it was
\* a transition; for every budget, cooldown and set of sinks (emit_transition,
\* classify_event).
THEOREM GivingUpIsTold == AlertSpec => []GaveUpTold
<1>1. TellInv => GaveUpTold
  BY DEF TellInv, WillBeTold, GaveUpTold, Abandoned
<1>2. QED
  BY <1>1, TellStart, TellStep, PTL DEF AlertSpec

-----------------------------------------------------------------------------
(* Alerts: the live sinks. *)

\* By induction on the finite sets: a finite set of sets has a smallest one.
LEMMA Minimal ==
    ASSUME NEW S, NEW T, T \subseteq SUBSET S, IsFiniteSet(S), T # {}
    PROVE  \E x \in T : \A y \in T : ~(y \subseteq x /\ y # x)
<1> DEFINE R == StrictSubsetOrdering(S)
<1>1. IsWellFoundedOn(R, SUBSET S)
  BY FS_StrictSubsetOrderingWellFounded, FS_FiniteSubsetsOfFinite
<1>2. \E x \in T : \A y \in T : ~(<<y, x>> \in R)
  <2> HIDE DEF R
  <2> QED
    BY <1>1, WFMin
<1>3. \A x, y \in SUBSET S : y \subseteq x /\ x # y => <<y, x>> \in R
  BY DEF StrictSubsetOrdering
<1>4. QED
  BY <1>2, <1>3

\* Among finitely many there is one with the greatest number: the one with the
\* fewest above it.
LEMMA Greatest ==
    ASSUME NEW S, IsFiniteSet(S), S # {}, NEW f \in [S -> Int]
    PROVE  \E x \in S : \A y \in S : f[y] <= f[x]
<1> DEFINE Above(x) == {y \in S : f[y] > f[x]}
           T == {Above(x) : x \in S}
<1>1. T \subseteq SUBSET S /\ T # {}
  <2>1. PICK e \in S : Above(e) \in T
    OBVIOUS
  <2>2. \A x \in S : Above(x) \subseteq S
    OBVIOUS
  <2> HIDE DEF Above
  <2>3. QED
    BY <2>1, <2>2
<1>2. \E A \in T : \A B \in T : ~(B \subseteq A /\ B # A)
  <2> HIDE DEF T
  <2> QED
    BY <1>1, Minimal
<1>3. PICK x \in S : \A B \in T : ~(B \subseteq Above(x) /\ B # Above(x))
  BY <1>2
<1>4. ASSUME NEW y \in S, ~(f[y] <= f[x]) PROVE FALSE
  <2>1. y \in Above(x) /\ y \notin Above(y)
    BY <1>4
  <2>2. \A z \in S : f[z] > f[y] => f[z] > f[x]
    BY <1>4
  <2>3. Above(y) \subseteq Above(x)
    BY <2>2
  <2>4. Above(y) \in T
    OBVIOUS
  <2> HIDE DEF T, Above
  <2>5. QED
    BY <1>3, <2>1, <2>3, <2>4
<1>5. QED
  BY <1>4

AdminCall == [step : {"none", "list", "set"}, sink : SUBSET Sink, list : SUBSET Sink, turn : Nat]

Waits(q) == admin[q].step = "set"

\* Answers that wait have turns of their own.
TurnsDiffer ==
    \A p, q \in Admin : Waits(p) /\ Waits(q) /\ p # q => admin[p].turn # admin[q].turn

\* The last answer that waits is the present table; when none waits, the live
\* sinks are. A request that has yet to read the table will see to it.
LastIsCurrent ==
    (\A q \in Admin : admin[q].step # "list") =>
        IF \E q \in Admin : Waits(q)
        THEN \A q \in Admin :
               Waits(q) /\ (\A p \in Admin : Waits(p) => admin[p].turn <= admin[q].turn)
                 => admin[q].list = rows
        ELSE sinks = Wired \cup rows

SinkInv ==
    /\ rows \subseteq Sink
    /\ admin \in [Admin -> AdminCall]
    /\ TurnsDiffer
    /\ LastIsCurrent

LEMMA SinkStart == AlertInit => SinkInv
BY DEF AlertInit, SinkInv, NoCall, AdminCall, TurnsDiffer, LastIsCurrent, Waits

LEMMA NextTurnIsLast ==
    ASSUME IsFiniteSet(Admin), admin \in [Admin -> AdminCall], NEW q \in Admin
    PROVE  /\ NextTurn \in Nat
           /\ \A p \in Admin : admin[p].turn < NextTurn
<1> DEFINE turn == [p \in Admin |-> admin[p].turn]
<1>1. turn \in [Admin -> Nat]
  BY DEF AdminCall
<1>2. PICK m \in Admin : \A p \in Admin : turn[p] <= turn[m]
  <2> HIDE DEF turn
  <2> QED
    BY <1>1, Greatest
<1>3. \E t \in Turns : \A u \in Turns : u <= t
  BY <1>2 DEF Turns
<1>4. PICK t \in Turns : NextTurn = 1 + t /\ \A u \in Turns : u <= t
  BY <1>3 DEF NextTurn
<1>5. \A p \in Admin : admin[p].turn \in Turns /\ admin[p].turn \in Nat
  BY DEF Turns, AdminCall
<1>6. t \in Nat
  BY <1>5 DEF Turns
<1>7. QED
  BY <1>4, <1>5, <1>6

LEMMA WritesKeepsSinks ==
    ASSUME SinkInv, NEW q \in Admin, NEW s \in Sink, Writes(q, s) PROVE SinkInv'
<1> DEFINE r == [NoCall EXCEPT !.step = "list"]
<1>1. r \in AdminCall /\ r.step = "list"
  BY DEF NoCall, AdminCall
<1>2. /\ admin' = [admin EXCEPT ![q] = r] /\ rows' \subseteq Sink
  BY DEF Writes, SinkInv
<1> HIDE DEF r
<1>3. \A p \in Admin : admin'[p] = IF p = q THEN r ELSE admin[p]
  BY <1>2 DEF SinkInv
<1>4. TurnsDiffer' /\ LastIsCurrent'
  BY <1>1, <1>3 DEF SinkInv, TurnsDiffer, LastIsCurrent, Waits
<1>5. QED
  BY <1>1, <1>2, <1>4 DEF SinkInv

LEMMA ListsKeepsSinks ==
    ASSUME SinkInv, IsFiniteSet(Admin), NEW q \in Admin, Lists(q) PROVE SinkInv'
<1> DEFINE r == [NoCall EXCEPT !.step = "set", !.list = rows, !.turn = NextTurn]
<1>1. NextTurn \in Nat /\ \A p \in Admin : admin[p].turn < NextTurn
  BY NextTurnIsLast DEF SinkInv
<1> HIDE DEF NextTurn
<1>2. r \in AdminCall /\ r.step = "set" /\ r.list = rows /\ r.turn = NextTurn
  BY <1>1 DEF NoCall, AdminCall, SinkInv
<1>3. admin' = [admin EXCEPT ![q] = r] /\ UNCHANGED <<rows, sinks>>
  BY DEF Lists
<1> HIDE DEF r
<1>4. \A p \in Admin : admin'[p] = IF p = q THEN r ELSE admin[p]
  BY <1>3 DEF SinkInv
<1>5. \A p \in Admin : admin[p].turn \in Nat
  BY DEF SinkInv, AdminCall
<1>6. TurnsDiffer'
  BY <1>1, <1>2, <1>4, <1>5 DEF SinkInv, TurnsDiffer, Waits
<1>7. LastIsCurrent'
  <2>1. Waits(q)' /\ admin'[q].turn = NextTurn /\ admin'[q].list = rows'
    BY <1>2, <1>3, <1>4 DEF Waits
  <2>2. \A p \in Admin : p # q => admin'[p].turn < NextTurn
    BY <1>1, <1>4
  <2>3. \A p \in Admin : p # q => ~(NextTurn <= admin'[p].turn)
    BY <1>1, <1>4, <1>5, <2>2
  <2>4. QED
    BY <2>1, <2>3 DEF LastIsCurrent
<1>8. QED
  BY <1>2, <1>3, <1>6, <1>7 DEF SinkInv

LEMMA SetsKeepsSinks ==
    ASSUME SinkInv, InOrder, NEW q \in Admin, SetsSinks(q) PROVE SinkInv'
<1>1. /\ Waits(q) /\ sinks' = Wired \cup admin[q].list /\ rows' = rows
      /\ \A p \in Admin : Waits(p) => admin[p].turn >= admin[q].turn
      /\ admin' = [admin EXCEPT ![q] = NoCall]
  BY DEF SetsSinks, Waits
<1>2. NoCall \in AdminCall /\ NoCall.step = "none"
  BY DEF NoCall, AdminCall
<1>3. \A p \in Admin : admin'[p] = IF p = q THEN NoCall ELSE admin[p]
  BY <1>1 DEF SinkInv
<1>4. \A p \in Admin : admin[p].turn \in Nat
  BY DEF SinkInv, AdminCall
<1>5. ~Waits(q)' /\ \A p \in Admin : p # q => (Waits(p)' <=> Waits(p))
  BY <1>2, <1>3 DEF Waits
<1>6. TurnsDiffer'
  BY <1>3, <1>5 DEF SinkInv, TurnsDiffer
<1>7. LastIsCurrent'
  <2> SUFFICES ASSUME \A p \in Admin : admin'[p].step # "list"
               PROVE  IF \E p \in Admin : Waits(p)'
                      THEN \A p \in Admin :
                             Waits(p)' /\ (\A o \in Admin : Waits(o)' => admin'[o].turn <= admin'[p].turn)
                               => admin'[p].list = rows
                      ELSE sinks' = Wired \cup rows
    BY <1>1 DEF LastIsCurrent
  <2>1. \A p \in Admin : admin[p].step # "list"
    BY <1>1, <1>3 DEF Waits
  <2>2. \A p \in Admin :
          Waits(p) /\ (\A o \in Admin : Waits(o) => admin[o].turn <= admin[p].turn)
            => admin[p].list = rows
    BY <1>1, <2>1 DEF SinkInv, LastIsCurrent
  <2>3. CASE \E p \in Admin : Waits(p)'
    <3> SUFFICES ASSUME NEW p \in Admin, Waits(p)',
                        \A o \in Admin : Waits(o)' => admin'[o].turn <= admin'[p].turn
                 PROVE  admin'[p].list = rows
      BY <2>3
    <3>1. p # q /\ Waits(p) /\ admin'[p] = admin[p]
      BY <1>3, <1>5
    <3>2. \A o \in Admin : Waits(o) => admin[o].turn <= admin[p].turn
      BY <1>1, <1>3, <1>4, <1>5, <3>1
    <3>3. QED
      BY <2>2, <3>1, <3>2
  <2>4. CASE ~\E p \in Admin : Waits(p)'
    <3>1. \A o \in Admin : Waits(o) => admin[o].turn <= admin[q].turn
      BY <1>4, <1>5, <2>4
    <3>2. QED
      BY <1>1, <2>2, <2>4, <3>1
  <2>5. QED
    BY <2>3, <2>4
<1>8. QED
  BY <1>1, <1>2, <1>6, <1>7 DEF SinkInv

LEMMA SinkIdle == ASSUME SinkInv, UNCHANGED <<rows, sinks, admin>> PROVE SinkInv'
BY DEF SinkInv, TurnsDiffer, LastIsCurrent, Waits

LEMMA SinkStep ==
    ASSUME SinkInv, IsFiniteSet(Admin), InOrder, [AlertNext]_alertVars PROVE SinkInv'
<1>1. CASE \/ PassFails \/ PassReadies \/ PassFindsNothing \/ PassRestarts
           \/ TaskStarts \/ TaskStops \/ TaskSleeps \/ TaskWakes
           \/ (\E a \in Emitter : Emit(a)) \/ Ages \/ UNCHANGED alertVars
  BY <1>1, SinkIdle
     DEF PassFails, PassReadies, PassFindsNothing, PassRestarts, TaskStarts, TaskStops,
         TaskSleeps, TaskWakes, Emit, Ages, alertVars, sinkVars
<1>2. QED
  BY <1>1, WritesKeepsSinks, ListsKeepsSinks, SetsKeepsSinks DEF AlertNext

\* With answers in the order of the statements (one connection), the live sinks
\* are those of the environment and the table whenever no admin request is under
\* way, for any finite number of requests at once (_reload_sinks).
THEOREM SinksAreCurrent ==
    ASSUME InOrder, IsFiniteSet(Admin) PROVE AlertSpec => []SinksCurrent
<1>1. SinkInv => SinksCurrent
  BY DEF SinkInv, LastIsCurrent, Waits, SinksCurrent
<1>2. SinkInv /\ [AlertNext]_alertVars => SinkInv'
  BY SinkStep
<1>3. QED
  BY <1>1, <1>2, SinkStart, PTL DEF AlertSpec

-----------------------------------------------------------------------------
(* The history of the configuration. *)

Imports == {"import", "rollback", "force"}

AnyKind == {Absent} \cup UNION {Kinds[m][q] : m \in Modes, q \in Request}

ConfRequest ==
    [stage : Stages, at : Backend \cup {Absent},
     kind : AnyKind,
     before : Overlay, next : Overlay, item : Item \cup {Absent}, busy : SUBSET Inst,
     blob : Overlay, mark : Nat, ok : BOOLEAN, back : BOOLEAN, late : BOOLEAN]

ConfTypes ==
    /\ mode \in Modes
    /\ file \in [Backend -> Overlay]
    /\ versions \in Seq(Overlay) /\ versions # <<>>
    /\ syncing \in [Backend -> Seq(Overlay)]
    /\ mode = "file" => \A b \in Backend : syncing[b] = NoRead
    /\ req \in [Request -> ConfRequest]
    /\ count \in [starts : Nat, faults : Nat]

\* How far a request is tells what it did. An import that is past its snapshot
\* has its overlay in the history, no earlier than where the history ended when
\* it saved; before that, its snapshot is what it saved.
ImportKept(r) ==
    mode = "store" /\ r.kind \in Imports /\ r.ok /\ count.faults = 0 =>
        /\ r.mark >= 1
        /\ IF r.stage \in {"saved", "recording"}
           THEN r.blob = r.next /\ r.mark <= Len(versions)
           ELSE \E i \in r.mark..Len(versions) : versions[i] = r.next

InOrderRequest(r) ==
    /\ r.stage # "idle" => r.at \in Serving
    /\ r.stage \in {"idle", "arrived", "stopping"} => ~r.ok
    /\ r.back \/ r.late => r.stage = "done"
    /\ ImportKept(r)

RequestsInOrder == \A q \in Request : InOrderRequest(req[q])

\* Why overlay o need not be in the history yet: a request that changed the file
\* is about to look at it, or about to insert it, or found what it had met, or
\* was answered with an error after it had saved it.
Covers(r, o) ==
    \/ r.stage \in {"handled", "reloading"}
    \/ r.stage = "inserting" /\ r.blob = o
    \/ r.back /\ r.before = o
    \/ r.late /\ r.next = o

FileCovered ==
    mode = "file" /\ count.faults = 0 =>
        file[Lone] \in Recorded \/ \E q \in Request : Covers(req[q], file[Lone])

ConfInv == ConfTypes /\ RequestsInOrder /\ FileCovered

LEMMA NoOverlay == Empty \in Overlay /\ NoRequest \in ConfRequest
<1>1. Empty \in Overlay
  BY DEF Empty, Overlay
<1>2. QED
  BY <1>1 DEF NoRequest, ConfRequest, Stages, AnyKind

LEMMA ConfStart == ConfInit => ConfInv
<1> SUFFICES ASSUME ConfInit PROVE ConfInv
  OBVIOUS
<1>1. /\ mode \in Modes /\ file = [b \in Backend |-> Empty] /\ versions = <<Empty>>
      /\ syncing = [b \in Backend |-> NoRead] /\ req = [q \in Request |-> NoRequest]
      /\ count = [starts |-> 0, faults |-> 0]
  BY DEF ConfInit
<1>2. /\ NoRequest.stage = "idle" /\ NoRequest.ok = FALSE /\ NoRequest.back = FALSE
      /\ NoRequest.late = FALSE
  BY DEF NoRequest
<1>3. ConfTypes
  BY <1>1, NoOverlay DEF ConfTypes, NoRead
<1>4. RequestsInOrder
  BY <1>1, <1>2 DEF RequestsInOrder, InOrderRequest, ImportKept
<1>5. Empty \in Recorded
  BY <1>1 DEF Recorded, ToSet
<1>6. FileCovered
  BY <1>1, <1>5, ConfAssumption DEF FileCovered
<1>7. QED
  BY <1>3, <1>4, <1>6 DEF ConfInv

\* The history only grows.
Grows == versions' = versions \/ \E o \in Overlay : versions' = Append(versions, o)

LEMMA HistoryGrows ==
    ASSUME versions \in Seq(Overlay), versions # <<>>, Grows
    PROVE  /\ versions' \in Seq(Overlay) /\ versions' # <<>>
           /\ Len(versions) \in Nat /\ Len(versions') \in Nat
           /\ Len(versions') >= Len(versions) /\ Len(versions) >= 1
           /\ \A i \in 1..Len(versions) : versions'[i] = versions[i]
           /\ Recorded \subseteq Recorded'
<1>1. /\ versions' \in Seq(Overlay) /\ versions' # <<>>
      /\ Len(versions) \in Nat /\ Len(versions') \in Nat
      /\ Len(versions') >= Len(versions) /\ Len(versions) >= 1
      /\ \A i \in 1..Len(versions) : versions'[i] = versions[i]
  BY DEF Grows
<1>2. Recorded \subseteq Recorded'
  BY <1>1 DEF Recorded, ToSet
<1>3. QED
  BY <1>1, <1>2

LEMMA NewestIsRecorded ==
    ASSUME versions \in Seq(Overlay), versions # <<>>
    PROVE  /\ Newest \in Overlay /\ Newest \in Recorded
           /\ Newest = versions[Len(versions)]
           /\ Recorded \subseteq Overlay
<1>1. Len(versions) \in 1..Len(versions) /\ Newest = versions[Len(versions)]
  BY DEF Newest, Last
<1>2. QED
  BY <1>1 DEF Recorded, ToSet

\* A step of request q: r is what becomes of it.
Becomes(q, r) ==
    /\ r \in ConfRequest
    /\ req' = [req EXCEPT ![q] = r]
    /\ mode' = mode /\ syncing' = syncing
    /\ file' \in [Backend -> Overlay]
    /\ Grows
    /\ count' \in [starts : Nat, faults : Nat] /\ count'.faults >= count.faults

\* The file is covered still: by this request, by the history, or as before.
StillCovered(q, r) ==
    mode = "file" /\ count'.faults = 0 =>
        \/ Covers(r, file'[Lone])
        \/ file'[Lone] \in Recorded'
        \/ file'[Lone] = file[Lone] /\ ~Covers(req[q], file[Lone])

LEMMA OthersInOrder ==
    ASSUME ConfInv, NEW p \in Request, mode' = mode, Grows,
           count' \in [starts : Nat, faults : Nat], count'.faults >= count.faults,
           req'[p] = req[p]
    PROVE  InOrderRequest(req[p])'
<1>1. req[p] \in ConfRequest /\ InOrderRequest(req[p]) /\ count.faults \in Nat
  BY DEF ConfInv, ConfTypes, RequestsInOrder
<1>2. /\ Len(versions) \in Nat /\ Len(versions') \in Nat /\ Len(versions') >= Len(versions)
      /\ \A i \in 1..Len(versions) : versions'[i] = versions[i]
  BY HistoryGrows DEF ConfInv, ConfTypes
<1>3. req[p].mark \in Nat
  BY <1>1 DEF ConfRequest
<1>4. count'.faults = 0 => count.faults = 0
  BY <1>1
<1>5. ImportKept(req[p])'
  BY <1>1, <1>2, <1>3, <1>4 DEF InOrderRequest, ImportKept
<1>6. QED
  BY <1>1, <1>5 DEF InOrderRequest, Serving

LEMMA RequestGoesOn ==
    ASSUME ConfInv, NEW q \in Request, NEW r, Becomes(q, r), InOrderRequest(r)', StillCovered(q, r)
    PROVE  ConfInv'
<1>1. \A p \in Request : req'[p] = IF p = q THEN r ELSE req[p]
  BY DEF Becomes, ConfInv, ConfTypes
<1>2. ConfTypes'
  BY HistoryGrows DEF Becomes, ConfInv, ConfTypes
<1>3. ASSUME NEW p \in Request PROVE InOrderRequest(req[p])'
  <2>1. CASE p = q
    <3>1. req'[p] = r
      BY <1>1, <2>1
    <3>2. QED
      BY <3>1 DEF InOrderRequest, ImportKept
  <2>2. CASE p # q
    <3>1. req'[p] = req[p]
      BY <1>1, <2>2
    <3>2. QED
      BY <3>1, OthersInOrder DEF Becomes
  <2>3. QED
    BY <2>1, <2>2
<1>4. FileCovered'
  <2> SUFFICES ASSUME mode' = "file", count'.faults = 0
               PROVE  file'[Lone] \in Recorded' \/ \E p \in Request : Covers(req'[p], file'[Lone])
    BY DEF FileCovered
  <2>1. mode = "file" /\ count.faults = 0
    BY DEF Becomes, ConfInv, ConfTypes
  <2>2. Recorded \subseteq Recorded'
    BY HistoryGrows DEF Becomes, ConfInv, ConfTypes
  <2>3. CASE Covers(r, file'[Lone])
    BY <1>1, <2>3
  <2>4. CASE file'[Lone] = file[Lone] /\ ~Covers(req[q], file[Lone])
    <3>1. file[Lone] \in Recorded \/ \E p \in Request : Covers(req[p], file[Lone])
      BY <2>1 DEF ConfInv, FileCovered
    <3>2. QED
      BY <1>1, <2>2, <2>4, <3>1
  <2>5. QED
    BY <2>1, <2>3, <2>4 DEF StillCovered
<1>5. QED
  BY <1>2, <1>3, <1>4 DEF ConfInv, RequestsInOrder

\* A step of a request that leaves the files and the history alone.
LEMMA OnlyRequest ==
    ASSUME ConfInv, NEW q \in Request, NEW r \in ConfRequest, req' = [req EXCEPT ![q] = r],
           UNCHANGED <<mode, file, versions, syncing, count>>, InOrderRequest(r),
           mode = "file" /\ Covers(req[q], file[Lone])
             => Covers(r, file[Lone]) \/ file[Lone] \in Recorded
    PROVE  ConfInv'
<1>1. PICK s : s = r
  OBVIOUS
<1>2. Becomes(q, s)
  BY <1>1 DEF Becomes, Grows, ConfInv, ConfTypes
<1>3. StillCovered(q, s)
  BY <1>1 DEF StillCovered, Recorded
<1>4. InOrderRequest(s)'
  BY <1>1 DEF InOrderRequest, ImportKept, Serving
<1>5. QED
  BY <1>2, <1>3, <1>4, RequestGoesOn

\* The same when the store fails: nothing is promised any more.
LEMMA FaultyRequest ==
    ASSUME ConfInv, NEW q \in Request, NEW r \in ConfRequest, req' = [req EXCEPT ![q] = r],
           UNCHANGED <<mode, file, versions, syncing>>, StoreError,
           r.at \in Serving, r.stage \in {"aligning", "done"}, r.back \/ r.late => r.stage = "done"
    PROVE  ConfInv'
<1>1. PICK s : s = r
  OBVIOUS
<1>2. count' \in [starts : Nat, faults : Nat] /\ count.faults \in Nat /\ count'.faults = count.faults + 1
  <2>1. count \in [starts : Nat, faults : Nat] /\ count' = [count EXCEPT !.faults = @ + 1]
    BY DEF StoreError, ConfInv, ConfTypes
  <2>2. QED
    BY <2>1
<1>3. Becomes(q, s)
  BY <1>1, <1>2 DEF Becomes, Grows, ConfInv, ConfTypes
<1>4. StillCovered(q, s)
  BY <1>2 DEF StillCovered
<1>5. InOrderRequest(s)'
  BY <1>1, <1>2 DEF InOrderRequest, ImportKept, Serving
<1>6. QED
  BY <1>3, <1>4, <1>5, RequestGoesOn

\* Nothing of the requests, the file of the lone backend or the history changes.
LEMMA NoRequestGoesOn ==
    ASSUME ConfInv, UNCHANGED <<mode, versions, req>>,
           file' \in [Backend -> Overlay], mode = "file" => file'[Lone] = file[Lone],
           syncing' \in [Backend -> Seq(Overlay)],
           mode = "file" => \A b \in Backend : syncing'[b] = NoRead,
           count' \in [starts : Nat, faults : Nat], count'.faults = count.faults
    PROVE  ConfInv'
<1>1. ConfTypes'
  BY DEF ConfInv, ConfTypes
<1>2. RequestsInOrder'
  BY DEF ConfInv, RequestsInOrder, InOrderRequest, ImportKept, Serving
<1>3. FileCovered'
  BY DEF ConfInv, FileCovered, Recorded
<1>4. QED
  BY <1>1, <1>2, <1>3 DEF ConfInv

LEMMA RequestFacts ==
    ASSUME ConfInv, NEW q \in Request
    PROVE  /\ req[q] \in ConfRequest /\ InOrderRequest(req[q])
           /\ req[q].stage # "idle" => Where(q) \in Serving /\ Where(q) \in Backend
           /\ mode = "file" /\ req[q].stage # "idle" => Where(q) = Lone
           /\ mode \in {"file", "store"} /\ Serving \subseteq Backend
BY ConfAssumption DEF ConfInv, ConfTypes, RequestsInOrder, InOrderRequest, Where, Serving

LEMMA ArriveStep ==
    ASSUME ConfInv, UNCHANGED mode, NEW q \in Request, NEW b \in Serving, NEW how \in Kinds[mode][q],
           Arrive(q, b, how)
    PROVE  ConfInv'
<1> DEFINE r == [NoRequest EXCEPT !.stage = "arrived", !.at = b, !.kind = how, !.before = file[b]]
<1>1. b \in Backend /\ mode \in Modes /\ file[b] \in Overlay
  BY RequestFacts DEF ConfInv, ConfTypes
<1>2. /\ r \in ConfRequest /\ r.stage = "arrived" /\ r.at = b
      /\ r.ok = NoRequest.ok /\ r.back = NoRequest.back /\ r.late = NoRequest.late
  <2>1. how \in AnyKind /\ "arrived" \in Stages
    BY <1>1 DEF Stages, AnyKind
  <2>2. QED
    BY <1>1, <2>1, NoOverlay DEF ConfRequest
<1>3. ~NoRequest.ok /\ ~NoRequest.back /\ ~NoRequest.late
  BY DEF NoRequest
<1>4. req' = [req EXCEPT ![q] = r] /\ UNCHANGED <<file, versions, syncing, count>>
  BY DEF Arrive
<1> HIDE DEF r
<1>5. InOrderRequest(r)
  BY <1>2, <1>3 DEF InOrderRequest, ImportKept
<1>6. ~Covers(req[q], file[Lone])
  BY RequestFacts DEF Arrive, Covers, InOrderRequest
<1>7. QED
  BY <1>2, <1>4, <1>5, <1>6, OnlyRequest

\* A request that is over: what it was is kept, and its overlays forgotten.
Ended(q) == [req[q] EXCEPT !.stage = "done", !.before = Empty, !.blob = Empty]

LEMMA EndedRequest ==
    ASSUME ConfInv, NEW q \in Request
    PROVE  /\ Ended(q) \in ConfRequest
           /\ Ended(q).stage = "done" /\ Ended(q).at = req[q].at /\ Ended(q).kind = req[q].kind
           /\ Ended(q).ok = req[q].ok /\ Ended(q).mark = req[q].mark
           /\ Ended(q).next = req[q].next /\ Ended(q).back = req[q].back
           /\ Ended(q).late = req[q].late
           /\ Ends(q) => req' = [req EXCEPT ![q] = Ended(q)]
<1>1. req[q] \in ConfRequest
  BY RequestFacts
<1>2. Ends(q) => req' = [req EXCEPT ![q] = Ended(q)]
  BY DEF Ends, Ended, ConfInv, ConfTypes
<1>3. QED
  <2>1. Empty \in Overlay /\ "done" \in Stages
    BY NoOverlay DEF Stages
  <2>2. QED
    BY <1>1, <1>2, <2>1 DEF Ended, ConfRequest

\* A request that has covered nothing, or whose overlay is in the history, ends.
LEMMA EndsStep ==
    ASSUME ConfInv, NEW q \in Request, Ends(q), UNCHANGED <<mode, file, versions, syncing, count>>,
           req[q].stage \notin {"idle", "saved", "recording"},
           mode = "file" /\ Covers(req[q], file[Lone]) => file[Lone] \in Recorded
    PROVE  ConfInv'
<1>1. InOrderRequest(Ended(q))
  BY EndedRequest, RequestFacts DEF InOrderRequest, ImportKept
<1>2. QED
  BY <1>1, EndedRequest, OnlyRequest

\* A request at a stage where it has a given stage next and nothing else.
LEMMA MovesStep ==
    ASSUME ConfInv, NEW q \in Request, NEW next \in Stages, Moves(q, next)
    PROVE  \E r \in ConfRequest :
             /\ req' = [req EXCEPT ![q] = r]
             /\ r.stage = next /\ r.at = req[q].at /\ r.kind = req[q].kind
             /\ r.ok = req[q].ok /\ r.mark = req[q].mark /\ r.blob = req[q].blob
             /\ r.next = req[q].next /\ r.back = req[q].back /\ r.before = req[q].before
             /\ r.late = req[q].late
<1> DEFINE r == [req[q] EXCEPT !.stage = next]
<1>1. req[q] \in ConfRequest
  BY RequestFacts
<1>2. req' = [req EXCEPT ![q] = r]
  BY DEF Moves
<1>3. /\ r \in ConfRequest /\ r.stage = next /\ r.at = req[q].at /\ r.kind = req[q].kind
      /\ r.ok = req[q].ok /\ r.mark = req[q].mark /\ r.blob = req[q].blob
      /\ r.next = req[q].next /\ r.back = req[q].back /\ r.before = req[q].before
      /\ r.late = req[q].late
  BY <1>1 DEF ConfRequest
<1> HIDE DEF r
<1>4. QED
  BY <1>2, <1>3

\* What a request changed, it is about to look at again.
LEMMA AcceptedStep ==
    ASSUME ConfInv, NEW q \in Request, req[q].stage = "arrived", req[q].kind \notin Imports,
           NEW i \in Item, NEW v \in Value \cup {Absent}, NEW next \in {"handled", "reloading"},
           NEW records, Saves(Where(q), Changed(Where(q), i, v), records),
           Accepted(q, next, Changed(Where(q), i, v), i),
           UNCHANGED <<mode, versions, syncing, count>>
    PROVE  ConfInv'
<1>1. PICK o : o = Changed(Where(q), i, v)
  OBVIOUS
<1>2. o \in Overlay
  BY <1>1, RequestFacts DEF Changed, ConfInv, ConfTypes, Overlay
<1>3. PICK r : r = [req[q] EXCEPT !.stage = next, !.next = o, !.item = i, !.ok = TRUE]
  OBVIOUS
<1>4. next \in Stages
  BY DEF Stages
<1>5. /\ r \in ConfRequest /\ r.stage = next /\ r.at = req[q].at /\ r.kind = req[q].kind
      /\ r.back = req[q].back /\ r.late = req[q].late
  BY <1>2, <1>3, <1>4, RequestFacts DEF ConfRequest
<1>6. req' = [req EXCEPT ![q] = r]
  BY <1>1, <1>3 DEF Accepted, ConfInv, ConfTypes
<1>7. file' \in [Backend -> Overlay]
  BY <1>1, <1>2 DEF Saves, ConfInv, ConfTypes
<1>8. Becomes(q, r)
  BY <1>2, <1>5, <1>6, <1>7 DEF Becomes, Grows, ConfInv, ConfTypes
<1>9. StillCovered(q, r)
  BY <1>5 DEF StillCovered, Covers
<1>10. InOrderRequest(r)'
  BY <1>5, RequestFacts DEF InOrderRequest, ImportKept, Serving
<1>11. QED
  BY <1>8, <1>9, <1>10, RequestGoesOn

\* What a request saved before it failed stays in use, and it tells.
LEMMA LateStep ==
    ASSUME ConfInv, NEW q \in Request, req[q].stage = "arrived", req[q].kind \notin Imports,
           NEW i \in Item, NEW v \in Value,
           NEW records, Saves(Where(q), Changed(Where(q), i, v), records),
           EndsLate(q, Changed(Where(q), i, v)),
           UNCHANGED <<mode, versions, syncing, count>>
    PROVE  ConfInv'
<1>1. PICK o : o = Changed(Where(q), i, v)
  OBVIOUS
<1>2. o \in Overlay
  BY <1>1, RequestFacts DEF Changed, ConfInv, ConfTypes, Overlay
<1>3. PICK r : r = [req[q] EXCEPT !.stage = "done", !.before = Empty, !.next = o, !.late = TRUE]
  OBVIOUS
<1>4. "done" \in Stages /\ Empty \in Overlay
  BY NoOverlay DEF Stages
<1>5. /\ r \in ConfRequest /\ r.stage = "done" /\ r.at = req[q].at /\ r.kind = req[q].kind
      /\ r.back = req[q].back /\ r.late /\ r.next = o
  BY <1>2, <1>3, <1>4, RequestFacts DEF ConfRequest
<1>6. req' = [req EXCEPT ![q] = r]
  BY <1>1, <1>3 DEF EndsLate, ConfInv, ConfTypes
<1>7. file' = [file EXCEPT ![Where(q)] = o] /\ file' \in [Backend -> Overlay]
  BY <1>1, <1>2 DEF Saves, ConfInv, ConfTypes
<1>8. Becomes(q, r)
  BY <1>2, <1>5, <1>6, <1>7 DEF Becomes, Grows, ConfInv, ConfTypes
<1>9. mode = "file" => file'[Lone] = o
  BY <1>7, RequestFacts DEF ConfInv, ConfTypes
<1>10. StillCovered(q, r)
  BY <1>5, <1>9 DEF StillCovered, Covers
<1>11. InOrderRequest(r)'
  BY <1>5, RequestFacts DEF InOrderRequest, ImportKept, Serving
<1>12. QED
  BY <1>8, <1>10, <1>11, RequestGoesOn

\* The two ends of create and update.
LEMMA EditsStep ==
    ASSUME ConfInv, NEW q \in Request, req[q].stage = "arrived", req[q].kind \notin Imports,
           NEW k \in Inst, NEW v \in Value, Edits(q, k, v),
           UNCHANGED <<mode, versions, syncing, count>>
    PROVE  ConfInv'
<1>1. k \in Item
  BY DEF Item
<1>2. CASE v \in Unsupported
  BY <1>1, <1>2, LateStep DEF Edits
<1>3. CASE v \notin Unsupported
  BY <1>1, <1>3, AcceptedStep DEF Edits
<1>4. QED
  BY <1>2, <1>3

LEMMA HandleStep == ASSUME ConfInv, UNCHANGED mode, NEW q \in Request, Handle(q) PROVE ConfInv'
<1>1. req[q].stage = "arrived" /\ UNCHANGED <<versions, syncing, count>>
  BY DEF Handle
<1>2. Inst \subseteq Item /\ Policy \in Item
  BY DEF Item
<1>3. CASE \E k \in Inst, v \in Value : req[q].kind = "create" /\ Create(q, k, v)
  BY <1>1, <1>2, <1>3, EditsStep DEF Create, Imports
<1>4. CASE \E k \in Inst, v \in Value : req[q].kind = "update" /\ Update(q, k, v)
  BY <1>1, <1>2, <1>4, EditsStep DEF Update, Imports
<1>5. CASE req[q].kind = "delete" /\ \E k \in Inst : RemoveModel(q, k)
  BY <1>1, <1>2, <1>5, AcceptedStep DEF RemoveModel, Imports
<1>6. CASE \E v \in Value : SetAutoscale(q, v) \/ SetFallback(q, v) \/ UpdateEmbedding(q, v)
  BY <1>1, <1>2, <1>6, AcceptedStep DEF SetAutoscale, SetFallback, UpdateEmbedding, SetPolicy, Imports
<1>7. CASE Refused(q)
  <2>1. ~Covers(req[q], file[Lone])
    BY <1>1, RequestFacts DEF Covers, InOrderRequest
  <2>2. QED
    BY <1>1, <1>7, <2>1, EndsStep DEF Refused
<1>8. QED
  BY <1>3, <1>4, <1>5, <1>6, <1>7 DEF Handle

LEMMA ImportBeginsStep ==
    ASSUME ConfInv, UNCHANGED mode, NEW q \in Request, ImportBegins(q) PROVE ConfInv'
<1>1. /\ req[q].stage = "arrived" /\ UNCHANGED <<file, versions, syncing, count>>
      /\ ~Covers(req[q], file[Lone])
  BY RequestFacts DEF ImportBegins, Covers, InOrderRequest
<1>2. CASE Ends(q)
  BY <1>1, <1>2, EndsStep
<1>3. CASE \E o \in Proposed(q) :
             req' = [req EXCEPT ![q].stage = "stopping", ![q].next = o,
                                ![q].busy = BusyKeys(Where(q), o)]
  <2>1. PICK o \in Proposed(q) :
             req' = [req EXCEPT ![q].stage = "stopping", ![q].next = o,
                                ![q].busy = BusyKeys(Where(q), o)]
    BY <1>3
  <2>2. o \in Overlay
    BY NewestIsRecorded, ConfAssumption DEF Proposed, ConfInv, ConfTypes
  <2> DEFINE busy == BusyKeys(Where(q), o)
             r == [req[q] EXCEPT !.stage = "stopping", !.next = o, !.busy = busy]
  <2>3. busy \in SUBSET Inst /\ "stopping" \in Stages
    BY DEF BusyKeys, Affected, Stages
  <2>4. req' = [req EXCEPT ![q] = r]
    BY <2>1 DEF ConfInv, ConfTypes
  <2> HIDE DEF busy
  <2>5. /\ r \in ConfRequest /\ r.stage = "stopping" /\ r.at = req[q].at /\ r.ok = req[q].ok
        /\ r.back = req[q].back /\ r.late = req[q].late
    BY <2>2, <2>3, RequestFacts DEF ConfRequest
  <2> HIDE DEF r
  <2>6. InOrderRequest(r)
    BY <1>1, <2>5, RequestFacts DEF InOrderRequest, ImportKept
  <2>7. QED
    BY <1>1, <2>4, <2>5, <2>6, OnlyRequest
<1>4. QED
  BY <1>2, <1>3 DEF ImportBegins

LEMMA ImportStopsStep ==
    ASSUME ConfInv, UNCHANGED mode, NEW q \in Request, ImportStops(q) PROVE ConfInv'
<1>1. PICK k \in req[q].busy : req' = [req EXCEPT ![q].busy = @ \ {k}]
  BY DEF ImportStops
<1> DEFINE r == [req[q] EXCEPT !.busy = req[q].busy \ {k}]
<1>2. /\ req[q].stage = "stopping" /\ UNCHANGED <<file, versions, syncing, count>>
      /\ ~Covers(req[q], file[Lone])
  BY RequestFacts DEF ImportStops, Covers, InOrderRequest
<1>3. req' = [req EXCEPT ![q] = r]
  BY <1>1 DEF ConfInv, ConfTypes
<1>4. /\ r \in ConfRequest /\ r.stage = "stopping" /\ r.at = req[q].at /\ r.ok = req[q].ok
      /\ r.back = req[q].back /\ r.late = req[q].late
  BY <1>2, RequestFacts DEF ConfRequest
<1> HIDE DEF r
<1>5. InOrderRequest(r)
  BY <1>2, <1>4, RequestFacts DEF InOrderRequest, ImportKept
<1>6. QED
  BY <1>2, <1>3, <1>4, <1>5, OnlyRequest

\* An import saves: its snapshot is its overlay, and the history ends where it
\* will look from.
LEMMA ImportSavesStep ==
    ASSUME ConfInv, UNCHANGED mode, NEW q \in Request, ImportSaves(q) PROVE ConfInv'
<1> DEFINE next == IF mode = "store" THEN "saved" ELSE "reloading"
<1>1. PICK r : r = [req[q] EXCEPT !.stage = next, !.blob = req[q].next,
                                  !.mark = Len(versions), !.ok = TRUE]
  OBVIOUS
<1>2. /\ req[q] \in ConfRequest /\ req[q].next \in Overlay
      /\ Len(versions) \in Nat /\ Len(versions) >= 1 /\ next \in Stages
  BY RequestFacts DEF ConfRequest, ConfInv, ConfTypes, Stages
<1>3. UNCHANGED <<versions, syncing, count>> /\ req[q].stage = "stopping"
  BY DEF ImportSaves
<1>4. req' = [req EXCEPT ![q] = r]
  BY <1>1 DEF ImportSaves, ConfInv, ConfTypes
<1>5. file' \in [Backend -> Overlay]
  BY <1>2 DEF ImportSaves, Saves, ConfInv, ConfTypes
<1>6. next = "saved" <=> mode # "file"
  BY RequestFacts
<1>7. next \in {"saved", "reloading"}
  OBVIOUS
<1> HIDE DEF next
<1>8. /\ r \in ConfRequest /\ r.stage = next /\ r.at = req[q].at /\ r.blob = r.next
      /\ r.mark = Len(versions) /\ r.back = req[q].back /\ r.late = req[q].late
  BY <1>1, <1>2 DEF ConfRequest
<1>9. Becomes(q, r)
  BY <1>2, <1>3, <1>4, <1>5, <1>8 DEF Becomes, Grows, ConfInv, ConfTypes
<1>10. StillCovered(q, r)
  BY <1>6, <1>7, <1>8 DEF StillCovered, Covers
<1>11. InOrderRequest(r)'
  <2>1. /\ r.at \in Serving /\ ~r.back /\ ~r.late
    BY <1>3, <1>8, RequestFacts DEF InOrderRequest, Where
  <2>2. mode = "store" => r.stage = "saved"
    BY <1>6, <1>8
  <2>3. QED
    BY <1>2, <1>3, <1>7, <1>8, <2>1, <2>2 DEF InOrderRequest, ImportKept, Serving
<1>12. QED
  BY <1>9, <1>10, <1>11, RequestGoesOn

\* The comparison with the newest version: it is the last of the history, at
\* least as late as where the history ended when the import saved.
LEMMA ImportSelectsStep ==
    ASSUME ConfInv, UNCHANGED mode, NEW q \in Request, ImportSelects(q) PROVE ConfInv'
<1> DEFINE next == IF Newest = req[q].blob THEN "aligning" ELSE "recording"
<1>1. req[q].stage = "saved" /\ UNCHANGED <<file, versions, syncing>>
  BY DEF ImportSelects
<1>2. ~Covers(req[q], file[Lone])
  BY <1>1, RequestFacts DEF Covers, InOrderRequest
<1>3. CASE Moves(q, next) /\ UNCHANGED count
  <2>1. next \in Stages
    BY DEF Stages
  <2>2. PICK r \in ConfRequest :
             /\ req' = [req EXCEPT ![q] = r]
             /\ r.stage = next /\ r.at = req[q].at /\ r.kind = req[q].kind
             /\ r.ok = req[q].ok /\ r.mark = req[q].mark /\ r.blob = req[q].blob
             /\ r.next = req[q].next /\ r.back = req[q].back /\ r.before = req[q].before
             /\ r.late = req[q].late
    BY <1>3, <2>1, MovesStep
  <2>3. /\ Newest = versions[Len(versions)] /\ Len(versions) \in Nat
        /\ r.mark \in Nat
    BY NewestIsRecorded DEF ConfInv, ConfTypes, ConfRequest
  <2>4. ImportKept(r)
    <3> SUFFICES ASSUME mode = "store", r.kind \in Imports, r.ok, count.faults = 0
                 PROVE  /\ r.mark >= 1
                        /\ IF r.stage \in {"saved", "recording"}
                           THEN r.blob = r.next /\ r.mark <= Len(versions)
                           ELSE \E i \in r.mark..Len(versions) : versions[i] = r.next
      BY DEF ImportKept
    <3>1. r.mark >= 1 /\ r.blob = r.next /\ r.mark <= Len(versions)
      BY <1>1, <2>2, RequestFacts DEF InOrderRequest, ImportKept
    <3>2. r.stage # "recording" => versions[Len(versions)] = r.next
      BY <2>2, <2>3, <3>1
    <3>3. Len(versions) \in r.mark..Len(versions)
      BY <2>3, <3>1
    <3>4. QED
      BY <2>2, <3>1, <3>2, <3>3
  <2>5. InOrderRequest(r)
    BY <1>1, <2>2, <2>4, RequestFacts DEF InOrderRequest
  <2>6. QED
    BY <1>1, <1>2, <1>3, <2>2, <2>5, OnlyRequest
<1>4. CASE StoreError /\ Moves(q, "aligning")
  <2>1. "aligning" \in Stages
    BY DEF Stages
  <2>2. PICK r \in ConfRequest :
             /\ req' = [req EXCEPT ![q] = r] /\ r.stage = "aligning" /\ r.at = req[q].at
             /\ r.back = req[q].back /\ r.late = req[q].late
    BY <1>4, <2>1, MovesStep
  <2>3. QED
    BY <1>1, <1>4, <2>2, RequestFacts, FaultyRequest DEF InOrderRequest
<1>5. QED
  BY <1>3, <1>4 DEF ImportSelects

LEMMA ImportInsertsStep ==
    ASSUME ConfInv, UNCHANGED mode, NEW q \in Request, ImportInserts(q) PROVE ConfInv'
<1>1. req[q].stage = "recording" /\ UNCHANGED <<file, syncing>> /\ Moves(q, "aligning")
  BY DEF ImportInserts
<1>2. "aligning" \in Stages
  BY DEF Stages
<1>3. PICK r \in ConfRequest :
             /\ req' = [req EXCEPT ![q] = r]
             /\ r.stage = "aligning" /\ r.at = req[q].at /\ r.kind = req[q].kind
             /\ r.ok = req[q].ok /\ r.mark = req[q].mark /\ r.blob = req[q].blob
             /\ r.next = req[q].next /\ r.back = req[q].back /\ r.before = req[q].before
             /\ r.late = req[q].late
  BY <1>1, <1>2, MovesStep
<1>4. CASE versions' = Append(versions, req[q].blob) /\ UNCHANGED count
  <2>1. /\ req[q].blob \in Overlay /\ r.mark \in Nat
        /\ Len(versions) \in Nat
    BY RequestFacts DEF ConfRequest, ConfInv, ConfTypes
  <2>2. Len(versions') = Len(versions) + 1 /\ versions'[Len(versions')] = req[q].blob
    BY <1>4, <2>1 DEF ConfInv, ConfTypes
  <2>3. Becomes(q, r)
    BY <1>1, <1>3, <1>4, <2>1 DEF Becomes, Grows, ConfInv, ConfTypes
  <2>4. ~Covers(req[q], file[Lone])
    BY <1>1, RequestFacts DEF Covers, InOrderRequest
  <2>5. StillCovered(q, r)
    BY <1>1, <2>4 DEF StillCovered
  <2>6. ImportKept(r)'
    <3> SUFFICES ASSUME mode = "store", r.kind \in Imports, r.ok, count.faults = 0
                 PROVE  r.mark >= 1 /\ \E i \in r.mark..Len(versions') : versions'[i] = r.next
      BY <1>3, <1>4 DEF ImportKept
    <3>1. r.mark >= 1 /\ r.blob = r.next /\ r.mark <= Len(versions)
      BY <1>1, <1>3, RequestFacts DEF InOrderRequest, ImportKept
    <3>2. Len(versions') \in r.mark..Len(versions')
      BY <2>1, <2>2, <3>1
    <3>3. versions'[Len(versions')] = r.next
      BY <1>3, <2>2, <3>1
    <3>4. QED
      BY <3>1, <3>2, <3>3
  <2>7. InOrderRequest(r)'
    BY <1>1, <1>3, <2>6, RequestFacts DEF InOrderRequest, Serving
  <2>8. QED
    BY <2>3, <2>5, <2>7, RequestGoesOn
<1>5. CASE StoreError /\ UNCHANGED versions
  BY <1>1, <1>3, <1>5, RequestFacts, FaultyRequest DEF InOrderRequest
<1>6. QED
  BY <1>4, <1>5 DEF ImportInserts

LEMMA ImportAlignsStep ==
    ASSUME ConfInv, UNCHANGED mode, NEW q \in Request, ImportAligns(q) PROVE ConfInv'
<1>1. /\ req[q].stage = "aligning" /\ UNCHANGED <<file, versions, syncing, count>>
      /\ Moves(q, "reloading")
  BY DEF ImportAligns
<1>2. "reloading" \in Stages
  BY DEF Stages
<1>3. PICK r \in ConfRequest :
             /\ req' = [req EXCEPT ![q] = r]
             /\ r.stage = "reloading" /\ r.at = req[q].at /\ r.kind = req[q].kind
             /\ r.ok = req[q].ok /\ r.mark = req[q].mark /\ r.blob = req[q].blob
             /\ r.next = req[q].next /\ r.back = req[q].back /\ r.before = req[q].before
             /\ r.late = req[q].late
  BY <1>1, <1>2, MovesStep
<1>4. InOrderRequest(r) /\ Covers(r, file[Lone])
  BY <1>1, <1>3, RequestFacts DEF InOrderRequest, ImportKept, Covers
<1>5. QED
  BY <1>1, <1>3, <1>4, OnlyRequest

LEMMA ReloadsRouterStep ==
    ASSUME ConfInv, UNCHANGED mode, NEW q \in Request, ReloadsRouter(q) PROVE ConfInv'
<1>1. /\ req[q].stage = "reloading" /\ UNCHANGED <<versions, syncing, count>>
      /\ Moves(q, "handled")
  BY DEF ReloadsRouter
<1>2. "handled" \in Stages
  BY DEF Stages
<1>3. PICK r \in ConfRequest :
             /\ req' = [req EXCEPT ![q] = r]
             /\ r.stage = "handled" /\ r.at = req[q].at /\ r.kind = req[q].kind
             /\ r.ok = req[q].ok /\ r.mark = req[q].mark /\ r.blob = req[q].blob
             /\ r.next = req[q].next /\ r.back = req[q].back /\ r.before = req[q].before
             /\ r.late = req[q].late
  BY <1>1, <1>2, MovesStep
<1>4. file' \in [Backend -> Overlay]
  BY NewestIsRecorded DEF ReloadsRouter, Hydrated, ConfInv, ConfTypes
<1>5. Becomes(q, r)
  BY <1>1, <1>3, <1>4 DEF Becomes, Grows, ConfInv, ConfTypes
<1>6. StillCovered(q, r)
  BY <1>3 DEF StillCovered, Covers
<1>7. InOrderRequest(r)'
  BY <1>1, <1>3, RequestFacts DEF InOrderRequest, ImportKept, Serving
<1>8. QED
  BY <1>5, <1>6, <1>7, RequestGoesOn

\* What a snapshot is taken of is in the history, or about to be inserted.
LEMMA ComparedStep ==
    ASSUME ConfInv, UNCHANGED <<mode, file, versions, syncing, count>>, NEW q \in Request,
           req[q].stage \in {"handled", "selecting"}, NEW blob \in Overlay, Compared(q, blob),
           mode = "file" /\ Covers(req[q], file[Lone]) => blob = file[Lone]
    PROVE  ConfInv'
<1>1. CASE Newest = blob
  <2>1. Newest \in Recorded
    BY NewestIsRecorded DEF ConfInv, ConfTypes
  <2>2. QED
    BY <1>1, <2>1, EndsStep DEF Compared
<1>2. CASE Newest # blob
  <2> DEFINE r == [req[q] EXCEPT !.stage = "inserting", !.blob = blob]
  <2>1. req' = [req EXCEPT ![q] = r]
    BY <1>2 DEF Compared, ConfInv, ConfTypes
  <2>2. "inserting" \in Stages
    BY DEF Stages
  <2>3. /\ r \in ConfRequest /\ r.stage = "inserting" /\ r.at = req[q].at /\ r.kind = req[q].kind
        /\ r.ok = req[q].ok /\ r.mark = req[q].mark /\ r.blob = blob
        /\ r.next = req[q].next /\ r.back = req[q].back /\ r.late = req[q].late
    BY <2>2, RequestFacts DEF ConfRequest
  <2> HIDE DEF r
  <2>4. InOrderRequest(r)
    BY <2>3, RequestFacts DEF InOrderRequest, ImportKept
  <2>5. mode = "file" /\ Covers(req[q], file[Lone]) => Covers(r, file[Lone])
    BY <2>3 DEF Covers
  <2>6. QED
    BY <2>1, <2>3, <2>4, <2>5, OnlyRequest
<1>3. QED
  BY <1>1, <1>2

LEMMA SnapshotsStep == ASSUME ConfInv, UNCHANGED mode, NEW q \in Request, Snapshots(q) PROVE ConfInv'
<1>1. /\ req[q].stage = "handled" /\ UNCHANGED <<file, versions, syncing, count>>
      /\ mode = "file" => Where(q) = Lone
      /\ file[Where(q)] \in Overlay
  BY RequestFacts DEF Snapshots, ConfInv, ConfTypes
<1>2. CASE Unchanged(q) /\ Returns(q)
  <2> DEFINE r == [req[q] EXCEPT !.stage = "done", !.back = TRUE, !.blob = Empty]
  <2>1. req' = [req EXCEPT ![q] = r]
    BY <1>2 DEF Returns, ConfInv, ConfTypes
  <2>2. "done" \in Stages /\ Empty \in Overlay
    BY NoOverlay DEF Stages
  <2>3. /\ r \in ConfRequest /\ r.stage = "done" /\ r.at = req[q].at /\ r.kind = req[q].kind
        /\ r.ok = req[q].ok /\ r.mark = req[q].mark /\ r.before = req[q].before
        /\ r.next = req[q].next /\ r.back
    BY <2>2, RequestFacts DEF ConfRequest
  <2> HIDE DEF r
  <2>4. InOrderRequest(r)
    BY <1>1, <2>3, RequestFacts DEF InOrderRequest, ImportKept
  <2>5. mode = "file" => Covers(r, file[Lone])
    BY <1>1, <1>2, <2>3 DEF Covers, Unchanged
  <2>6. QED
    BY <1>1, <2>1, <2>3, <2>4, <2>5, OnlyRequest
<1>3. CASE mode = "file" /\ Compared(q, file[Where(q)])
  BY <1>1, <1>3, ComparedStep
<1>4. CASE mode # "file" /\ req' = [req EXCEPT ![q].stage = "selecting", ![q].blob = file[Where(q)]]
  <2> DEFINE r == [req[q] EXCEPT !.stage = "selecting", !.blob = file[Where(q)]]
  <2>1. req' = [req EXCEPT ![q] = r]
    BY <1>4 DEF ConfInv, ConfTypes
  <2>2. "selecting" \in Stages
    BY DEF Stages
  <2>3. /\ r \in ConfRequest /\ r.stage = "selecting" /\ r.at = req[q].at /\ r.kind = req[q].kind
        /\ r.ok = req[q].ok /\ r.mark = req[q].mark
        /\ r.next = req[q].next /\ r.back = req[q].back /\ r.late = req[q].late
    BY <1>1, <2>2, RequestFacts DEF ConfRequest
  <2> HIDE DEF r
  <2>4. InOrderRequest(r)
    BY <1>1, <2>3, RequestFacts DEF InOrderRequest, ImportKept
  <2>5. QED
    BY <1>1, <1>4, <2>1, <2>3, <2>4, OnlyRequest
<1>5. QED
  BY <1>2, <1>3, <1>4 DEF Snapshots, Takes

\* The store fails under a request, which ends.
LEMMA EndsFaulty ==
    ASSUME ConfInv, NEW q \in Request, Ends(q), UNCHANGED <<mode, file, versions, syncing>>,
           StoreError, req[q].stage # "idle"
    PROVE  ConfInv'
BY EndedRequest, RequestFacts, FaultyRequest DEF InOrderRequest

LEMMA SelectStep == ASSUME ConfInv, UNCHANGED mode, NEW q \in Request, Select(q) PROVE ConfInv'
<1>1. /\ req[q].stage = "selecting" /\ UNCHANGED <<file, versions, syncing>>
      /\ req[q].blob \in Overlay /\ ~Covers(req[q], file[Lone])
  BY RequestFacts DEF Select, Covers, InOrderRequest, ConfRequest
<1>2. CASE Compared(q, req[q].blob) /\ UNCHANGED count
  BY <1>1, <1>2, ComparedStep
<1>3. CASE StoreError /\ Ends(q)
  BY <1>1, <1>3, EndsFaulty
<1>4. QED
  BY <1>2, <1>3 DEF Select

LEMMA InsertStep == ASSUME ConfInv, UNCHANGED mode, NEW q \in Request, Insert(q) PROVE ConfInv'
<1>1. req[q].stage = "inserting" /\ UNCHANGED <<file, syncing>> /\ Ends(q)
  BY DEF Insert
<1>2. CASE versions' = Append(versions, req[q].blob) /\ UNCHANGED count
  <2>1. PICK r : r = Ended(q)
    OBVIOUS
  <2>2. /\ r \in ConfRequest /\ r.stage = "done" /\ r.at = req[q].at /\ r.kind = req[q].kind
        /\ r.ok = req[q].ok /\ r.mark = req[q].mark /\ r.next = req[q].next
        /\ r.back = req[q].back /\ req' = [req EXCEPT ![q] = r]
    BY <1>1, <2>1, EndedRequest
  <2>3. /\ req[q].blob \in Overlay /\ r.mark \in Nat
    BY <2>2, RequestFacts DEF ConfRequest
  <2>4. Becomes(q, r)
    BY <1>1, <1>2, <2>2, <2>3 DEF Becomes, Grows, ConfInv, ConfTypes
  <2>5. req[q].blob \in Recorded'
    <3>1. versions' \in Seq(Overlay) /\ versions' # <<>> /\ Last(versions') = req[q].blob
      BY <1>2, <2>3 DEF ConfInv, ConfTypes, Last
    <3>2. Len(versions') \in DOMAIN versions' /\ versions'[Len(versions')] = req[q].blob
      BY <3>1 DEF Last
    <3>3. QED
      BY <3>2 DEF Recorded, ToSet
  <2>6. StillCovered(q, r)
    BY <1>1, <2>5, RequestFacts DEF StillCovered, Covers, InOrderRequest
  <2>7. /\ Len(versions) \in Nat /\ Len(versions') \in Nat /\ Len(versions') >= Len(versions)
        /\ \A i \in 1..Len(versions) : versions'[i] = versions[i]
    BY <2>4, HistoryGrows DEF Becomes, ConfInv, ConfTypes
  <2>8. ImportKept(r)'
    <3> SUFFICES ASSUME mode = "store", r.kind \in Imports, r.ok, count.faults = 0
                 PROVE  r.mark >= 1 /\ \E i \in r.mark..Len(versions') : versions'[i] = r.next
      BY <1>2, <2>2 DEF ImportKept
    <3>1. r.mark >= 1 /\ \E i \in r.mark..Len(versions) : versions[i] = r.next
      BY <1>1, <2>2, RequestFacts DEF InOrderRequest, ImportKept
    <3>2. QED
      BY <2>3, <2>7, <3>1
  <2>9. InOrderRequest(r)'
    BY <1>1, <2>2, <2>8, RequestFacts DEF InOrderRequest, Serving
  <2>10. QED
    BY <2>4, <2>6, <2>9, RequestGoesOn
<1>3. CASE StoreError /\ UNCHANGED versions
  BY <1>1, <1>3, EndsFaulty
<1>4. QED
  BY <1>2, <1>3 DEF Insert

LEMMA RequestInv == ASSUME ConfInv, UNCHANGED mode, NEW q \in Request, RequestStep(q) PROVE ConfInv'
BY HandleStep, ImportBeginsStep, ImportStopsStep, ImportSavesStep, ImportSelectsStep,
   ImportInsertsStep, ImportAlignsStep, ReloadsRouterStep, SnapshotsStep, SelectStep, InsertStep
   DEF RequestStep

\* The sync loop, the router reloaded by somebody else, starts and stops.
LEMMA SyncStep ==
    ASSUME ConfInv, UNCHANGED mode, NEW b \in Serving, SyncReads(b) \/ SyncApplies(b) \/ Reload(b)
    PROVE  ConfInv'
<1>1. b \in Backend /\ Newest \in Overlay /\ mode \in {"file", "store"}
  BY RequestFacts, NewestIsRecorded, ConfAssumption DEF ConfInv, ConfTypes, Serving
<1>2. CASE SyncReads(b)
  BY <1>1, <1>2, NoRequestGoesOn DEF SyncReads, ConfInv, ConfTypes
<1>3. CASE SyncApplies(b)
  <2>1. syncing[b] \in Seq(Overlay) /\ syncing[b] # <<>> /\ mode # "file"
    BY <1>1, <1>3 DEF SyncApplies, ConfInv, ConfTypes, NoRead
  <2>2. syncing[b][1] \in Overlay
    BY <2>1
  <2>3. file' \in [Backend -> Overlay] /\ syncing' \in [Backend -> Seq(Overlay)]
    <3>1. file' = [file EXCEPT ![b] = syncing[b][1]] /\ syncing' = [syncing EXCEPT ![b] = <<>>]
      BY <1>3 DEF SyncApplies, Saves, NoRead
    <3>2. <<>> \in Seq(Overlay) /\ file \in [Backend -> Overlay] /\ syncing \in [Backend -> Seq(Overlay)]
      BY DEF ConfInv, ConfTypes
    <3> HIDE DEF ConfInv
    <3>3. QED
      BY <2>2, <3>1, <3>2
  <2>4. QED
    BY <1>3, <2>1, <2>3, NoRequestGoesOn DEF SyncApplies, ConfInv, ConfTypes
<1>4. CASE Reload(b)
  BY <1>1, <1>4, NoRequestGoesOn DEF Reload, Hydrated, ConfInv, ConfTypes
<1>5. QED
  BY <1>2, <1>3, <1>4

LEMMA StartStopStep ==
    ASSUME ConfInv, UNCHANGED mode,
           (\E b \in Serving, k \in Inst : Resolves(b, k) \/ StopsOne(b, k)) \/ LaunchesOne
    PROVE  ConfInv'
<1>1. UNCHANGED <<file, versions, syncing, req>>
  BY DEF Resolves, StopsOne, LaunchesOne
<1>2. count' \in [starts : Nat, faults : Nat] /\ count'.faults = count.faults
  <2>1. count \in [starts : Nat, faults : Nat]
        /\ (count' = count \/ count' = [count EXCEPT !.starts = @ + 1])
    BY DEF Resolves, StopsOne, LaunchesOne, ConfInv, ConfTypes
  <2>2. QED
    BY <2>1
<1>3. QED
  BY <1>1, <1>2, NoRequestGoesOn DEF ConfInv, ConfTypes

LEMMA ConfStep == ASSUME ConfInv, [ConfNext]_confVars PROVE ConfInv'
<1>1. CASE UNCHANGED confVars
  BY <1>1, NoRequestGoesOn DEF confVars, ConfInv, ConfTypes
<1>2. CASE ConfNext
  BY <1>2, RequestInv, ArriveStep, SyncStep, StartStopStep DEF ConfNext
<1>3. QED
  BY <1>1, <1>2

LEMMA ConfIsInvariant == ConfSpec => []ConfInv
BY ConfStart, ConfStep, PTL DEF ConfSpec

\* While the store answers, the overlay of an import, of a rollback or of a
\* forced one is a version of the history no older than the import, whatever the
\* other backends save and sync meanwhile (import_overlay in HA mode).
THEOREM ImportsAreRecorded == ConfSpec => []ImportIsRecorded
<1>1. ConfInv => ImportIsRecorded
  BY DEF ConfInv, RequestsInOrder, InOrderRequest, ImportKept, ImportIsRecorded, Imports
<1>2. QED
  BY <1>1, ConfIsInvariant, PTL

\* With one backend and a store that answers, the overlay in use is in the
\* history when no request is under way, for any number of requests that cross,
\* unless it is what one of them had met and found again, or what one of them
\* saved before it failed (the middleware of core/config_versioning.py, and
\* create_overlay_model and update_overlay_model, which save before they raise).
THEOREM CurrentOverlayIsKept == ConfSpec => []CurrentIsKept
<1>1. ConfInv => CurrentIsKept
  BY DEF ConfInv, FileCovered, Covers, CurrentIsKept, Settled, Serving
<1>2. QED
  BY <1>1, ConfIsInvariant, PTL
=============================================================================
