------------------------- MODULE LeaderLeaseProofs -------------------------
(***************************************************************************)
(* LeaderLease implements SingletonRole, proved for any number of replicas *)
(* and faults and for every timing under which a leader renews its row in  *)
(* time (Timely).                                                          *)
(***************************************************************************)
EXTENDS LeaderLease, TLAPS

Row == [holder : Replica \cup {NoReplica}, left : Int]

\* No stage outlasts its bound.
OnTime(e) == /\ e.stage \in Busy => e.age <= RoundMax
             /\ e.stage = "waiting" => e.age <= WaitMax

\* How long the row must live on for a replica that leads: until the end of the
\* round, or of the pause and the round that follows it.
Needs(e) == IF e.stage = "waiting" THEN WaitMax - e.age + RoundMax ELSE RoundMax - e.age

\* What replica r, with elector e, knows of the row l.
Held(r, e, l) ==
    /\ e.stage = "off" => ~e.acts
    /\ e.stage \in {"acquiring", "releasing"} => e.acts
    /\ e.stage = "reading" /\ l.holder = r => l.left + e.age = TTL
    /\ e.stage = "acquiring" => l.left + e.age = TTL
    /\ e.acts => l.holder = r /\ l.left >= Needs(e)

LeaseInv ==
    /\ lease \in Row
    /\ elector \in [Replica -> Elector]
    /\ faults \in 0..MaxFaults
    /\ \A r \in Replica : OnTime(elector[r]) /\ Held(r, elector[r], lease)

-----------------------------------------------------------------------------
\* A replica moves, and the others still know what they knew.
LEMMA OneMoves ==
    ASSUME LeaseInv, NEW r \in Replica, NEW e \in Elector,
           elector' = [elector EXCEPT ![r] = e],
           lease' \in Row, faults' \in 0..MaxFaults, OnTime(e), Held(r, e, lease'),
           \A s \in Replica \ {r} : Held(s, elector[s], lease')
    PROVE  LeaseInv'
<1>1. elector' \in [Replica -> Elector]
  BY DEF LeaseInv
<1>2. ASSUME NEW s \in Replica PROVE OnTime(elector'[s]) /\ Held(s, elector'[s], lease')
  <2>1. CASE s = r
    <3>1. elector'[s] = e
      BY <2>1 DEF LeaseInv
    <3> QED
      BY <2>1, <3>1
  <2>2. CASE s # r
    <3>1. elector'[s] = elector[s]
      BY <2>2 DEF LeaseInv
    <3>2. OnTime(elector[s])
      BY DEF LeaseInv
    <3> QED
      BY <2>2, <3>1, <3>2
  <2> QED
    BY <2>1, <2>2
<1>3. (OnTime(elector[r]))' <=> OnTime(elector'[r])
  BY DEF OnTime, Busy
<1>4. \A s \in Replica : OnTime(elector[s])' /\ Held(s, elector[s], lease)'
  BY <1>2 DEF OnTime, Held, Needs, Busy
<1> QED
  BY <1>1, <1>4 DEF LeaseInv

\* A replica moves and leaves the row alone.
LEMMA OneMovesAlone ==
    ASSUME LeaseInv, NEW r \in Replica, NEW e \in Elector,
           elector' = [elector EXCEPT ![r] = e], lease' = lease,
           faults' \in 0..MaxFaults, OnTime(e), Held(r, e, lease)
    PROVE  LeaseInv'
<1>1. \A s \in Replica \ {r} : Held(s, elector[s], lease)
  BY DEF LeaseInv
<1>2. lease' \in Row
  BY DEF LeaseInv
<1> QED
  BY <1>1, <1>2, OneMoves

\* Goes, with the types it needs.
LEMMA GoesAlone ==
    ASSUME LeaseInv, NEW r \in Replica,
           NEW stage \in Busy \cup {"off", "waiting"}, NEW age \in Nat, NEW acts \in BOOLEAN,
           Goes(r, stage, age, acts), lease' = lease, faults' \in 0..MaxFaults,
           OnTime([stage |-> stage, age |-> age, acts |-> acts]),
           Held(r, [stage |-> stage, age |-> age, acts |-> acts], lease)
    PROVE  LeaseInv'
<1>1. [stage |-> stage, age |-> age, acts |-> acts] \in Elector
  BY DEF Elector
<1> QED
  BY <1>1, OneMovesAlone DEF Goes

\* What the invariant says of one replica.
LEMMA Known ==
    ASSUME LeaseInv, NEW r \in Replica
    PROVE  /\ elector[r].stage \in Busy \cup {"off", "waiting"}
           /\ elector[r].age \in Nat /\ elector[r].acts \in BOOLEAN
           /\ lease.left \in Int /\ lease.holder \in Replica \cup {NoReplica}
           /\ OnTime(elector[r]) /\ Held(r, elector[r], lease)
<1>1. elector[r] \in Elector
  BY DEF LeaseInv
<1> QED
  BY <1>1 DEF LeaseInv, Elector, Row

\* The row of a replica that leads has not expired.
LEMMA StillHeld ==
    ASSUME LeaseInv, NEW r \in Replica, elector[r].acts
    PROVE  lease.holder = r /\ lease.left >= 0
<1>1. elector[r].stage # "off"
  BY Known DEF Held
<1> QED
  BY <1>1, Known, LeaseAssumption DEF OnTime, Held, Needs, Busy

\* Only one replica leads.
LEMMA InvGivesOne == LeaseInv => OneLeader
BY StillHeld DEF OneLeader

-----------------------------------------------------------------------------
\* One step of the election at a time.
LEMMA LeaseInitInv == LeaseInit => LeaseInv
<1> SUFFICES ASSUME LeaseInit PROVE LeaseInv
  OBVIOUS
<1> QED
  BY LeaseAssumption DEF LeaseInit, LeaseInv, Row, Elector, OnTime, Held, Needs, Busy

LEMMA UpsertInv ==
    ASSUME Timely, LeaseInv, NEW r \in Replica, Upsert(r)
    PROVE  LeaseInv'
<1> DEFINE e == [stage |-> "reading", age |-> elector[r].age, acts |-> elector[r].acts]
<1>1. e \in Elector /\ elector' = [elector EXCEPT ![r] = e] /\ faults' = faults
  BY Known DEF Upsert, Goes, Elector, Busy
<1>2. elector[r].stage = "asking"
  BY DEF Upsert, At
<1>3. elector[r].age \in Nat /\ elector[r].age <= RoundMax
  BY <1>2, Known DEF OnTime, Busy
<1>4. OnTime(e)
  BY <1>3 DEF OnTime, Busy
<1>5. faults' \in 0..MaxFaults
  BY <1>1 DEF LeaseInv
<1>6. CASE Grants(r)
  <2>1. lease' = [holder |-> r, left |-> TTL - elector[r].age]
    BY <1>6 DEF Upsert
  <2>2. lease' \in Row
    BY <2>1, <1>3, LeaseAssumption DEF Row
  <2>3. Held(r, e, lease')
    BY <2>1, <1>3, LeaseAssumption DEF Held, Needs, Timely
  <2>4. ASSUME NEW s \in Replica \ {r} PROVE Held(s, elector[s], lease')
    <3>1. ~elector[s].acts
      BY <1>6, <1>3, StillHeld, LeaseAssumption, Known DEF Grants
    <3>2. lease'.holder # s
      BY <2>1
    <3> QED
      BY <3>1, <3>2, Known DEF Held
  <2> QED
    BY <1>1, <1>4, <1>5, <2>2, <2>3, <2>4, OneMoves
<1>7. CASE ~Grants(r)
  <2>1. lease' = lease
    BY <1>7 DEF Upsert
  <2>2. lease.holder # r /\ ~elector[r].acts
    BY <1>7, StillHeld DEF Grants
  <2>3. Held(r, e, lease)
    BY <2>2 DEF Held
  <2> QED
    BY <1>1, <1>4, <1>5, <2>1, <2>3, OneMovesAlone
<1> QED
  BY <1>6, <1>7

\* What the replica does with an answer leaves it knowing enough.
LEMMA DecidesInv ==
    ASSUME Timely, LeaseInv, NEW r \in Replica, At(r, {"asking", "reading"}),
           NEW got \in BOOLEAN, got => Holds(r) /\ At(r, {"reading"}),
           Decides(r, got), lease' = lease, faults' \in 0..MaxFaults
    PROVE  LeaseInv'
<1>1. elector[r].age \in Nat /\ elector[r].age <= RoundMax /\ elector[r].acts \in BOOLEAN
  BY Known DEF At, OnTime, Busy
<1>2. lease.left \in Int
  BY Known
<1>3. elector[r].acts => lease.holder = r /\ lease.left >= RoundMax - elector[r].age
  BY Known DEF Held, Needs, At
<1>4. CASE got /\ ~elector[r].acts
  <2>1. Goes(r, "acquiring", elector[r].age, TRUE)
    BY <1>4 DEF Decides
  <2>2. lease.holder = r /\ lease.left + elector[r].age = TTL
    BY <1>4, Known DEF Holds, Held, At
  <2>3. OnTime([stage |-> "acquiring", age |-> elector[r].age, acts |-> TRUE])
    BY <1>1 DEF OnTime
  <2>4. Held(r, [stage |-> "acquiring", age |-> elector[r].age, acts |-> TRUE], lease)
    BY <1>1, <1>2, <2>2, LeaseAssumption DEF Held, Needs, Timely
  <2> QED
    BY <1>1, <2>1, <2>3, <2>4, GoesAlone DEF Busy
<1>5. CASE ~got /\ elector[r].acts
  <2>1. Goes(r, "releasing", elector[r].age, TRUE)
    BY <1>5 DEF Decides
  <2> QED
    BY <1>1, <1>2, <1>3, <1>5, <2>1, GoesAlone DEF OnTime, Held, Needs, Busy
<1>6. CASE got <=> elector[r].acts
  <2>1. Goes(r, "waiting", 0, elector[r].acts)
    BY <1>6 DEF Decides
  <2>2. elector[r].acts => lease.left + elector[r].age = TTL
    BY <1>6, Known DEF Holds, Held, At
  <2>3. OnTime([stage |-> "waiting", age |-> 0, acts |-> elector[r].acts])
    BY LeaseAssumption DEF OnTime, Busy
  <2>4. Held(r, [stage |-> "waiting", age |-> 0, acts |-> elector[r].acts], lease)
    BY <1>1, <1>2, <1>3, <2>2, LeaseAssumption DEF Held, Needs, Timely
  <2> QED
    BY <1>1, <2>1, <2>3, <2>4, GoesAlone
<1> QED
  BY <1>1, <1>4, <1>5, <1>6

LEMMA StepInv ==
    ASSUME Timely, LeaseInv, NEW r \in Replica,
           Boot(r) \/ Acquired(r) \/ Released(r) \/ Heartbeat(r) \/ LoopsEnd(r) \/ Crash(r)
    PROVE  LeaseInv'
<1> DEFINE K(stage, acts) == [stage |-> stage, age |-> 0, acts |-> acts]
<1>1. /\ elector[r].age \in Nat /\ elector[r].acts \in BOOLEAN /\ lease.left \in Int
      /\ OnTime(elector[r]) /\ Held(r, elector[r], lease)
  BY Known
<1>2. lease' = lease /\ faults' \in 0..MaxFaults
  <2>1. faults \in 0..MaxFaults
    BY DEF LeaseInv
  <2>2. lease' = lease /\ (faults' = faults \/ Fault)
    BY DEF Boot, Acquired, Released, Heartbeat, LoopsEnd, Crash
  <2> QED
    BY <2>1, <2>2, LeaseAssumption DEF Fault
<1>3. CASE Boot(r)
  <2>1. OnTime(K("asking", FALSE)) /\ Held(r, K("asking", FALSE), lease)
    BY LeaseAssumption DEF OnTime, Held
  <2> QED
    BY <1>2, <1>3, <2>1, GoesAlone DEF Boot, Busy
<1>4. CASE Acquired(r)
  <2>1. elector[r].age <= RoundMax /\ lease.holder = r /\ lease.left + elector[r].age = TTL
    BY <1>1, <1>4 DEF Acquired, At, OnTime, Held, Busy
  <2>2. OnTime(K("waiting", TRUE))
    BY LeaseAssumption DEF OnTime, Busy
  <2>3. Held(r, K("waiting", TRUE), lease)
    BY <1>1, <2>1, LeaseAssumption DEF Held, Needs, Timely
  <2> QED
    BY <1>2, <1>4, <2>2, <2>3, GoesAlone DEF Acquired
<1>5. CASE Released(r)
  <2>1. OnTime(K("waiting", FALSE)) /\ Held(r, K("waiting", FALSE), lease)
    BY LeaseAssumption DEF OnTime, Held, Busy
  <2> QED
    BY <1>2, <1>5, <2>1, GoesAlone DEF Released
<1>6. CASE Heartbeat(r)
  <2>1. /\ elector[r].age <= WaitMax
        /\ elector[r].acts =>
               lease.holder = r /\ lease.left >= WaitMax - elector[r].age + RoundMax
    BY <1>1, <1>6 DEF Heartbeat, At, OnTime, Held, Needs
  <2>2. OnTime(K("asking", elector[r].acts))
    BY LeaseAssumption DEF OnTime
  <2>3. Held(r, K("asking", elector[r].acts), lease)
    BY <1>1, <2>1, LeaseAssumption DEF Held, Needs
  <2> QED
    BY <1>1, <1>2, <1>6, <2>2, <2>3, GoesAlone DEF Heartbeat, Busy
<1>7. CASE LoopsEnd(r)
  <2>1. elector[r].stage = "leaving"
    BY <1>7 DEF LoopsEnd, At
  <2>2. OnTime([stage |-> "deleting", age |-> elector[r].age, acts |-> FALSE])
    BY <1>1, <2>1 DEF OnTime, Busy
  <2>3. Held(r, [stage |-> "deleting", age |-> elector[r].age, acts |-> FALSE], lease)
    BY DEF Held
  <2> QED
    BY <1>1, <1>2, <1>7, <2>2, <2>3, GoesAlone DEF LoopsEnd, Busy
<1>8. CASE Crash(r)
  <2>1. OnTime(K("off", FALSE)) /\ Held(r, K("off", FALSE), lease)
    BY DEF OnTime, Held, Busy
  <2> QED
    BY <1>2, <1>8, <2>1, GoesAlone DEF Crash
<1> QED
  BY <1>3, <1>4, <1>5, <1>6, <1>7, <1>8

LEMMA ShutdownInv ==
    ASSUME Timely, LeaseInv, NEW r \in Replica, Shutdown(r)
    PROVE  LeaseInv'
<1> DEFINE stage == IF elector[r].acts /\ ~At(r, {"releasing"}) THEN "leaving" ELSE "deleting"
           age == IF At(r, {"waiting"}) THEN 0 ELSE elector[r].age
           e == [stage |-> stage, age |-> age, acts |-> elector[r].acts]
<1>1. /\ elector[r].age \in Nat /\ elector[r].acts \in BOOLEAN /\ lease.left \in Int
      /\ OnTime(elector[r]) /\ Held(r, elector[r], lease)
  BY Known
<1>2. lease' = lease /\ faults' \in 0..MaxFaults
  BY LeaseAssumption DEF Shutdown, Fault, LeaseInv
<1>3. age \in Nat /\ age <= RoundMax
  BY <1>1, LeaseAssumption DEF Shutdown, At, OnTime, Busy
<1>4. OnTime(e)
  BY <1>3 DEF OnTime, Busy
<1>5. elector[r].acts => lease.holder = r /\ lease.left >= RoundMax - age
  BY <1>1, LeaseAssumption DEF Shutdown, At, OnTime, Held, Needs
<1>6. Held(r, e, lease)
  BY <1>5 DEF Held, Needs
<1>7. Goes(r, stage, age, elector[r].acts)
  BY DEF Shutdown
<1>8. stage \in Busy
  BY DEF Busy
<1> HIDE DEF stage, age
<1> QED
  BY <1>1, <1>2, <1>3, <1>4, <1>6, <1>7, <1>8, GoesAlone

LEMMA DeleteInv ==
    ASSUME Timely, LeaseInv, NEW r \in Replica, Delete(r)
    PROVE  LeaseInv'
<1> DEFINE e == [stage |-> "off", age |-> 0, acts |-> FALSE]
<1>1. e \in Elector /\ OnTime(e) /\ elector' = [elector EXCEPT ![r] = e]
  BY DEF Elector, OnTime, Busy, Delete, Goes
<1>2. faults' \in 0..MaxFaults
  BY LeaseAssumption DEF Delete, Fault, LeaseInv
<1>3. CASE lease' = lease
  BY <1>1, <1>2, <1>3, OneMovesAlone DEF Held
<1>4. CASE lease.holder = r /\ lease' = [holder |-> NoReplica, left |-> 0]
  <2>1. lease' \in Row
    BY <1>4 DEF Row
  <2>2. ASSUME NEW s \in Replica \ {r} PROVE Held(s, elector[s], lease')
    <3>1. ~elector[s].acts
      BY <1>4, StillHeld
    <3>2. lease'.holder # s
      BY <1>4, LeaseAssumption
    <3> QED
      BY <3>1, <3>2, Known DEF Held
  <2>3. Held(r, e, lease')
    BY DEF Held
  <2> QED
    BY <1>1, <1>2, <2>1, <2>2, <2>3, OneMoves
<1> QED
  BY <1>3, <1>4 DEF Delete

LEMMA TickInv ==
    ASSUME Timely, LeaseInv, Tick
    PROVE  LeaseInv'
<1>1. lease' \in Row
  BY DEF Tick, LeaseInv, Row
<1>2. faults' \in 0..MaxFaults
  BY DEF Tick, LeaseInv
<1>3. ASSUME NEW r \in Replica
      PROVE  elector'[r] \in Elector /\ OnTime(elector'[r]) /\ Held(r, elector'[r], lease')
  <2>1. /\ elector[r].stage \in Busy \cup {"off", "waiting"}
        /\ elector[r].age \in Nat /\ elector[r].acts \in BOOLEAN
        /\ lease.left \in Int /\ lease.holder \in Replica \cup {NoReplica}
        /\ OnTime(elector[r]) /\ Held(r, elector[r], lease)
    BY Known
  <2>2. CASE At(r, {"off"})
    <3>1. elector'[r] = elector[r]
      BY <2>2 DEF Tick
    <3>2. elector[r] \in Elector
      BY DEF LeaseInv
    <3>3. ~elector[r].acts
      BY <2>1, <2>2 DEF At, Held
    <3>4. Held(r, elector[r], lease')
      BY <2>2, <3>3 DEF At, Held
    <3> QED
      BY <2>1, <3>1, <3>2, <3>4
  <2>3. CASE ~At(r, {"off"})
    <3>1. elector'[r] = [elector[r] EXCEPT !.age = @ + 1]
      BY <2>3 DEF Tick
    <3>2. elector[r] \in Elector
      BY DEF LeaseInv
    <3>3. /\ elector'[r].stage = elector[r].stage /\ elector'[r].acts = elector[r].acts
          /\ elector'[r].age = elector[r].age + 1 /\ elector'[r] \in Elector
      BY <2>1, <3>1, <3>2 DEF Elector
    <3>4. /\ elector[r].stage \in Busy => elector[r].age < RoundMax
          /\ elector[r].stage = "waiting" => elector[r].age < WaitMax
      BY DEF Tick, At
    <3>5. OnTime(elector'[r])
      BY <2>1, <3>3, <3>4, LeaseAssumption DEF OnTime
    <3>6. lease'.holder = lease.holder
      BY <2>1 DEF Tick, LeaseInv, Row
    <3>7. lease.holder = r /\ lease.left >= 0 => lease'.left = lease.left - 1
      <4>1. lease.holder # NoReplica /\ lease.left >= -RoundMax
            => lease' = [lease EXCEPT !.left = @ - 1]
        BY DEF Tick
      <4> QED
        BY <2>1, <4>1, LeaseAssumption DEF LeaseInv, Row
    <3>8. elector[r].stage = "reading" /\ lease.holder = r => lease.left >= 0
      BY <2>1, <3>4, LeaseAssumption DEF Held, Busy, Timely
    <3>9. elector[r].acts => lease.holder = r /\ lease.left >= 0
      BY StillHeld
    <3> QED
      BY <2>1, <2>3, <3>3, <3>5, <3>6, <3>7, <3>8, <3>9, LeaseAssumption
         DEF At, Held, Needs
  <2> QED
    BY <2>2, <2>3
<1>4. elector' \in [Replica -> Elector]
  <2>1. elector' = [r \in Replica |-> elector'[r]]
    BY DEF Tick
  <2> QED
    BY <1>3, <2>1
<1>5. \A r \in Replica : OnTime(elector[r])' /\ Held(r, elector[r], lease)'
  BY <1>3 DEF OnTime, Held, Needs, Busy
<1> QED
  BY <1>1, <1>2, <1>4, <1>5 DEF LeaseInv

\* Every step of the election preserves the invariant.
LEMMA LeaseNextInv ==
    ASSUME Timely, LeaseInv, [LeaseNext]_leaseVars
    PROVE  LeaseInv'
<1>1. ASSUME NEW r \in Replica, Answer(r) PROVE LeaseInv'
  <2>1. faults' \in 0..MaxFaults
    BY <1>1 DEF Answer, LeaseInv
  <2> QED
    BY <1>1, <2>1, DecidesInv DEF Answer, At, Holds
<1>2. ASSUME NEW r \in Replica, StoreFails(r) PROVE LeaseInv'
  <2>1. faults' \in 0..MaxFaults
    BY <1>2, LeaseAssumption DEF StoreFails, Fault, LeaseInv
  <2> QED
    BY <1>2, <2>1, DecidesInv DEF StoreFails
<1>3. CASE UNCHANGED leaseVars
  BY <1>3 DEF leaseVars, LeaseInv, OnTime, Held, Needs, Busy
<1> QED
  BY <1>1, <1>2, <1>3, UpsertInv, StepInv, ShutdownInv, DeleteInv, TickInv
     DEF LeaseNext, ElectorStep

-----------------------------------------------------------------------------
\* The set of the replicas that act, as one replica moves.
LEMMA ActorsMove ==
    ASSUME LeaseInv, NEW r \in Replica, NEW stage, NEW age, NEW acts \in BOOLEAN,
           Goes(r, stage, age, acts)
    PROVE  LET playing == {s \in Replica : elector[s].acts} IN
           playing' = IF acts THEN playing \cup {r} ELSE playing \ {r}
<1>1. ASSUME NEW s \in Replica
      PROVE  elector'[s].acts = (IF s = r THEN acts ELSE elector[s].acts)
  BY DEF Goes, LeaseInv
<1> QED
  BY <1>1

\* What the elector does with an answer takes the role, or keeps what it has.
LEMMA DecidesPlays ==
    ASSUME LeaseInv, NEW r \in Replica, At(r, {"asking", "reading"}),
           NEW got \in BOOLEAN, got => Holds(r) /\ At(r, {"reading"}), Decides(r, got)
    PROVE  Role!Take(r) \/ UNCHANGED {s \in Replica : elector[s].acts}
<1> DEFINE playing == {s \in Replica : elector[s].acts}
<1>1. elector[r].acts \in BOOLEAN
  BY Known
<1>2. CASE got /\ ~elector[r].acts
  <2>1. Goes(r, "acquiring", elector[r].age, TRUE)
    BY <1>2 DEF Decides
  <2>2. playing' = playing \cup {r}
    BY <2>1, ActorsMove
  <2>3. playing = {}
    BY <1>2, StillHeld DEF Holds
  <2> QED
    BY <2>2, <2>3 DEF Role!Take
<1>3. CASE ~got /\ elector[r].acts
  <2>1. Goes(r, "releasing", elector[r].age, TRUE)
    BY <1>3 DEF Decides
  <2>2. playing' = playing \cup {r}
    BY <2>1, ActorsMove
  <2> QED
    BY <1>3, <2>2
<1>4. CASE got <=> elector[r].acts
  <2>1. Goes(r, "waiting", 0, elector[r].acts)
    BY <1>4 DEF Decides
  <2>2. playing' = IF elector[r].acts THEN playing \cup {r} ELSE playing \ {r}
    BY <1>1, <2>1, ActorsMove
  <2> QED
    BY <2>2
<1> QED
  BY <1>1, <1>2, <1>3, <1>4

\* A replica that stops acting leaves the role.
LEMMA LeavesRole ==
    ASSUME LeaseInv, NEW r \in Replica, NEW stage, NEW age, Goes(r, stage, age, FALSE)
    PROVE  Role!Leave(r) \/ UNCHANGED {s \in Replica : elector[s].acts}
<1> DEFINE playing == {s \in Replica : elector[s].acts}
<1>1. playing' = playing \ {r}
  BY ActorsMove
<1> QED
  BY <1>1 DEF Role!Leave

\* A replica that acts as it did before leaves the role as it is.
LEMMA KeepsRole ==
    ASSUME LeaseInv, NEW r \in Replica, NEW stage, NEW age,
           Goes(r, stage, age, elector[r].acts)
    PROVE  UNCHANGED {s \in Replica : elector[s].acts}
<1> DEFINE playing == {s \in Replica : elector[s].acts}
<1>1. elector[r].acts \in BOOLEAN
  BY Known
<1>2. playing' = IF elector[r].acts THEN playing \cup {r} ELSE playing \ {r}
  BY <1>1, ActorsMove
<1> QED
  BY <1>2

\* Every step of the election is a step of the role, or leaves it as it is.
LEMMA StepPlays ==
    ASSUME LeaseInv, [LeaseNext]_leaseVars
    PROVE  [Role!RoleNext]_{r \in Replica : elector[r].acts}
<1> DEFINE playing == {s \in Replica : elector[s].acts}
<1> USE DEF Role!RoleNext
<1>1. ASSUME NEW r \in Replica, Answer(r)
      PROVE  Role!Take(r) \/ UNCHANGED playing
  BY <1>1, DecidesPlays DEF Answer, At, Holds
<1>2. ASSUME NEW r \in Replica, StoreFails(r)
      PROVE  Role!Take(r) \/ UNCHANGED playing
  BY <1>2, DecidesPlays DEF StoreFails
<1>3. ASSUME NEW r \in Replica, Released(r) \/ LoopsEnd(r) \/ Delete(r) \/ Crash(r) \/ Boot(r)
      PROVE  Role!Leave(r) \/ UNCHANGED playing
  BY <1>3, LeavesRole DEF Released, LoopsEnd, Delete, Crash, Boot
<1>4. ASSUME NEW r \in Replica, Upsert(r) \/ Heartbeat(r) \/ Shutdown(r)
      PROVE  UNCHANGED playing
  BY <1>4, KeepsRole DEF Upsert, Heartbeat, Shutdown
<1>5. ASSUME NEW r \in Replica, Acquired(r) PROVE UNCHANGED playing
  <2>1. elector[r].acts = TRUE
    BY <1>5, Known DEF Acquired, At, Held
  <2> QED
    BY <1>5, <2>1, KeepsRole DEF Acquired
<1>6. CASE Tick
  <2>1. ASSUME NEW s \in Replica PROVE elector'[s].acts = elector[s].acts
    BY <1>6, Known DEF Tick, LeaseInv, Elector
  <2> QED
    BY <2>1
<1>7. CASE UNCHANGED leaseVars
  BY <1>7 DEF leaseVars
<1> QED
  BY <1>1, <1>2, <1>3, <1>4, <1>5, <1>6, <1>7 DEF LeaseNext, ElectorStep

-----------------------------------------------------------------------------
LEMMA LeaseSpecInv == ASSUME Timely PROVE LeaseSpec => []LeaseInv
<1>1. LeaseInv /\ [LeaseNext]_leaseVars => LeaseInv'
  BY LeaseNextInv
<1> QED
  BY <1>1, LeaseInitInv, PTL DEF LeaseSpec

\* Every variable of the election has its type, and no stage outlasts its bound.
THEOREM LeaseTypeCorrect == ASSUME Timely PROVE LeaseSpec => []LeaseTypeOK
<1>1. LeaseInv => LeaseTypeOK
  BY DEF LeaseInv, LeaseTypeOK, OnTime, Row, At
<1> QED
  BY <1>1, LeaseSpecInv, PTL

\* Two replicas never play the leader at once, whatever fails, as long as a
\* leader's renewals reach the row within the TTL (leader.py, try_acquire_leader).
THEOREM OneLeaderAlways == ASSUME Timely PROVE LeaseSpec => []OneLeader
<1>1. LeaseInv => OneLeader
  BY InvGivesOne
<1> QED
  BY <1>1, LeaseSpecInv, PTL

\* The elector implements the singleton role: a replica that is told it holds
\* the lease (leader.py) finds the role vacant, and nobody takes it from a replica
\* that still runs, replays or cancels the loops.
THEOREM ElectionPlaysRole == ASSUME Timely PROVE LeaseSpec => PlaysRole
<1>1. LeaseInit => Role!Vacant
  BY DEF LeaseInit, Role!Vacant
<1>2. LeaseInv /\ [LeaseNext]_leaseVars
      => [Role!RoleNext]_{r \in Replica : elector[r].acts}
  BY StepPlays
<1> QED
  BY <1>1, <1>2, LeaseSpecInv, PTL DEF LeaseSpec, PlaysRole, Role!RoleSpec
=============================================================================
