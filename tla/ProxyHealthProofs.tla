------------------------- MODULE ProxyHealthProofs -------------------------
(***************************************************************************)
(* The safety properties of ProxyHealth, proved for every cooldown, every  *)
(* number of samples and every bound on the blackhole counter.             *)
(*                                                                         *)
(* None of the properties is inductive: what the stored counters say must  *)
(* be tied to what the proxy did.  HealthInv is that tie.                  *)
(***************************************************************************)
EXTENDS ProxyHealth, TLAPS

(* Only DEGRADED and RECOVERING carry a good count, and it never counts    *)
(* more GOODs than were just seen.                                         *)
GoodCountIsSeen ==
  /\ runtime.State \in {"HEALTHY", "DEAD"} => runtime.ConsecutiveGood = 0
  /\ runtime.State = "RECOVERING" => runtime.ConsecutiveGood = 1
  /\ runtime.ConsecutiveGood = 1 => history.goods >= 1

(* A proxy not DEAD right after a blackhole is DEGRADED with that blackhole*)
(* on its count, so that the next one kills it.                            *)
LastBlackholeIsCounted ==
  /\ history.blackholes = 2 => runtime.State = "DEAD"
  /\ history.blackholes = 1 /\ runtime.State # "DEAD"
       => runtime.State = "DEGRADED" /\ runtime.ConsecutiveBlackholes >= 1

(* DeadAge is the time since the last death, and is over once not DEAD.    *)
CooldownIsDated ==
  /\ runtime.DeadAge = history.deathAge
  /\ runtime.State # "DEAD" => runtime.DeadAge = DeadCooldown

(* Before the first death the blackhole count is at most one, and never    *)
(* more than the blackholes since the last GOOD.                           *)
FirstCountIsSeen ==
  ~history.died =>
    /\ runtime.State \in {"HEALTHY", "DEGRADED"}
    /\ runtime.State = "HEALTHY" => runtime.ConsecutiveBlackholes = 0
    /\ runtime.ConsecutiveBlackholes <= 1
    /\ runtime.ConsecutiveBlackholes <= history.sinceGood

HealthInv ==
  /\ TypeOK
  /\ GoodCountIsSeen
  /\ LastBlackholeIsCounted
  /\ CooldownIsDated
  /\ FirstCountIsSeen

----------------------------------------------------------------------------
(* Whatever a probe returned, it is put in one of the three classes.       *)
LEMMA ObservationType ==
  ASSUME NEW success \in Nat, NEW requested \in Nat,
         NEW direct \in BOOLEAN, NEW warp \in BOOLEAN
  PROVE  ObservationOf(success, requested, direct, warp) \in Observations
  BY DEF ObservationOf, Observations

(* A transition of the table keeps the runtime state within its type, for  *)
(* states whose good count is the one the table leaves there.              *)
LEMMA TransitionType ==
  ASSUME NEW r \in RuntimeStates, NEW obs \in Observations,
         r.State \in {"HEALTHY", "DEAD"} => r.ConsecutiveGood = 0
  PROVE  Transition(r, obs) \in RuntimeStates
<1> USE DeadCooldownAssumption, CountCapAssumption
    DEF RuntimeStates, States, Observations, Bump, StateData
<1>1. CASE r.State = "HEALTHY"
  BY <1>1 DEF Transition, OnHealthy
<1>2. CASE r.State = "DEGRADED"
  BY <1>2 DEF Transition, OnDegraded
<1>3. CASE r.State = "DEAD"
  BY <1>3 DEF Transition, OnDead
<1>4. CASE r.State = "RECOVERING"
  BY <1>4 DEF Transition, OnRecovering
<1>5. QED
  BY <1>1, <1>2, <1>3, <1>4

(* What a refresh step is, once its probe has been classified.             *)
LEMMA RefreshIsObservation ==
  ASSUME Refresh
  PROVE  \E obs \in Observations :
           /\ runtime' = Transition(runtime, obs)
           /\ history' = Recorded(history, obs,
                /\ Transition(runtime, obs).State = "DEAD"
                /\ runtime.State # "DEAD")
<1>1. PICK success \in 0 .. SampleCount, geoOK \in BOOLEAN, warp \in BOOLEAN :
        UpdateRuntime(success, geoOK, warp)
  BY DEF Refresh
<1> DEFINE direct == InternetReachable(success, SampleCount, geoOK)
           obs == ObservationOf(success, SampleCount, direct, warp)
<1>2. direct \in BOOLEAN
  BY DEF InternetReachable
<1>3. obs \in Observations
  BY <1>2, ObservationType, SampleCountAssumption
<1>4. QED
  BY <1>1, <1>3 DEF UpdateRuntime

(* A proxy starts HEALTHY, with nothing counted.                           *)
LEMMA InitHealth == Init => HealthInv
  BY DeadCooldownAssumption, CountCapAssumption
  DEF Init, HealthInv, TypeOK, GoodCountIsSeen, LastBlackholeIsCounted,
      CooldownIsDated, FirstCountIsSeen, NewRuntimeState, RuntimeStates,
      States, Histories, Observations

(* A refresh with any result keeps the invariant, row by row of the table. *)
LEMMA RefreshHealth ==
  ASSUME HealthInv, Refresh
  PROVE  HealthInv'
<1>1. PICK obs \in Observations :
        /\ runtime' = Transition(runtime, obs)
        /\ history' = Recorded(history, obs,
             /\ Transition(runtime, obs).State = "DEAD"
             /\ runtime.State # "DEAD")
  BY RefreshIsObservation
<1> DEFINE next == Transition(runtime, obs)
           dies == next.State = "DEAD" /\ runtime.State # "DEAD"
<1>2. runtime' \in RuntimeStates
  BY <1>1, TransitionType DEF HealthInv, TypeOK, GoodCountIsSeen
<1>3. history' \in Histories
  BY <1>1, DeadCooldownAssumption
  DEF HealthInv, TypeOK, Histories, Recorded, UpTo2, Observations
<1> USE DeadCooldownAssumption, CountCapAssumption
    DEF HealthInv, TypeOK, RuntimeStates, States, Histories, Observations,
        Bump, StateData, Recorded, UpTo2
<1>4. CASE runtime.State = "HEALTHY"
  <2>1. runtime' = OnHealthy(runtime, obs) /\ next = OnHealthy(runtime, obs)
    BY <1>1, <1>4 DEF Transition
  <2>2. GoodCountIsSeen' /\ LastBlackholeIsCounted'
    BY <1>1, <1>4, <2>1 DEF OnHealthy, GoodCountIsSeen, LastBlackholeIsCounted
  <2>3. CooldownIsDated' /\ FirstCountIsSeen'
    BY <1>1, <1>4, <2>1 DEF OnHealthy, CooldownIsDated, FirstCountIsSeen
  <2>4. QED
    BY <1>2, <1>3, <2>2, <2>3
<1>5. CASE runtime.State = "DEGRADED"
  <2>1. runtime' = OnDegraded(runtime, obs) /\ next = OnDegraded(runtime, obs)
    BY <1>1, <1>5 DEF Transition
  <2>2. GoodCountIsSeen'
    BY <1>1, <1>5, <2>1 DEF OnDegraded, GoodCountIsSeen
  <2>3. LastBlackholeIsCounted'
    BY <1>1, <1>5, <2>1 DEF OnDegraded, LastBlackholeIsCounted
  <2>4. CooldownIsDated'
    BY <1>1, <1>5, <2>1 DEF OnDegraded, CooldownIsDated
  <2>5. FirstCountIsSeen'
    <3>1. CASE next.State = "DEAD"
      <4>1. history'.died
        BY <1>1, <1>5, <3>1
      <4>2. QED
        BY <4>1 DEF FirstCountIsSeen
    <3>2. CASE next.State # "DEAD"
      <4>1. history'.died = history.died
        BY <1>1, <3>2
      <4>2. QED
        BY <1>1, <1>5, <2>1, <3>2, <4>1 DEF OnDegraded, FirstCountIsSeen
    <3>3. QED
      BY <3>1, <3>2
  <2>6. QED
    BY <1>2, <1>3, <2>2, <2>3, <2>4, <2>5
<1>6. CASE runtime.State = "DEAD"
  <2>1. runtime' = OnDead(runtime, obs) /\ next = OnDead(runtime, obs)
    BY <1>1, <1>6 DEF Transition
  <2>2. GoodCountIsSeen'
    BY <1>1, <1>6, <2>1 DEF OnDead, GoodCountIsSeen
  <2>3. LastBlackholeIsCounted'
    BY <1>1, <1>6, <2>1 DEF OnDead, LastBlackholeIsCounted
  <2>4. CooldownIsDated'
    BY <1>1, <1>6, <2>1 DEF OnDead, CooldownIsDated
  <2>5. FirstCountIsSeen'
    BY <1>1, <1>6, <2>1 DEF OnDead, FirstCountIsSeen
  <2>6. QED
    BY <1>2, <1>3, <2>2, <2>3, <2>4, <2>5
<1>7. CASE runtime.State = "RECOVERING"
  <2>1. runtime' = OnRecovering(runtime, obs)
        /\ next = OnRecovering(runtime, obs)
    BY <1>1, <1>7 DEF Transition
  <2>2. GoodCountIsSeen' /\ LastBlackholeIsCounted'
    BY <1>1, <1>7, <2>1
    DEF OnRecovering, GoodCountIsSeen, LastBlackholeIsCounted
  <2>3. CooldownIsDated' /\ FirstCountIsSeen'
    BY <1>1, <1>7, <2>1 DEF OnRecovering, CooldownIsDated, FirstCountIsSeen
  <2>4. QED
    BY <1>2, <1>3, <2>2, <2>3
<1>8. QED
  BY <1>4, <1>5, <1>6, <1>7

(* Time passing ages the date of death and nothing else.                   *)
LEMMA TickHealth ==
  ASSUME HealthInv, Tick
  PROVE  HealthInv'
<1> USE DeadCooldownAssumption
    DEF HealthInv, TypeOK, RuntimeStates, Histories, Tick, Aged
<1>1. TypeOK'
  OBVIOUS
<1>2. GoodCountIsSeen' /\ LastBlackholeIsCounted' /\ FirstCountIsSeen'
  BY DEF GoodCountIsSeen, LastBlackholeIsCounted, FirstCountIsSeen
<1>3. CooldownIsDated'
  BY DEF CooldownIsDated
<1>4. QED
  BY <1>1, <1>2, <1>3

(* HealthInv is an invariant of the specification.                         *)
THEOREM HealthInvariant == Spec => []HealthInv
<1>1. HealthInv /\ [Next]_vars => HealthInv'
  <2> SUFFICES ASSUME HealthInv, [Next]_vars PROVE HealthInv'
    OBVIOUS
  <2>1. CASE Refresh
    BY <2>1, RefreshHealth
  <2>2. CASE Tick
    BY <2>2, TickHealth
  <2>3. CASE UNCHANGED vars
    BY <2>3 DEF vars, HealthInv, TypeOK, GoodCountIsSeen,
                LastBlackholeIsCounted, CooldownIsDated, FirstCountIsSeen
  <2>4. QED
    BY <2>1, <2>2, <2>3 DEF Next
<1>2. QED
  BY <1>1, InitHealth, PTL DEF Spec

(* Every state of updateRuntime is well typed.                             *)
THEOREM HealthTypeCorrect == Spec => []TypeOK
  BY HealthInvariant, PTL DEF HealthInv

(* A proxy that carried nothing twice in a row is DEAD, so outputEntries   *)
(* does not list it, whatever its state and counters were before.          *)
THEOREM TwoBlackholesKill == Spec => []TwoBlackholesAreDead
<1>1. HealthInv => TwoBlackholesAreDead
  BY DEF HealthInv, LastBlackholeIsCounted, TwoBlackholesAreDead
<1>2. QED
  BY <1>1, HealthInvariant, PTL

(* No proxy leaves DEAD before its cooldown has passed since its last      *)
(* death, however it died.                                                 *)
THEOREM CooldownIsServed == Spec => []CooldownServed
<1>1. HealthInv => CooldownServed
  BY DEF HealthInv, CooldownIsDated, CooldownServed
<1>2. QED
  BY <1>1, HealthInvariant, PTL

(* Promotion to HEALTHY takes two GOOD observations in a row.              *)
THEOREM PromotionIsEarned == Spec => HealthyNeedsTwoGoods
<1>1. ASSUME HealthInv, [Next]_vars,
             runtime.State # "HEALTHY", runtime'.State = "HEALTHY"
      PROVE  history'.goods = 2
  <2>1. CASE Refresh
    <3>1. PICK obs \in Observations :
            /\ runtime' = Transition(runtime, obs)
            /\ history'.goods = IF obs = "GOOD" THEN UpTo2(history.goods) ELSE 0
      BY <2>1, RefreshIsObservation DEF Recorded
    <3>2. runtime.State \in {"DEGRADED", "DEAD", "RECOVERING"}
      BY <1>1 DEF HealthInv, TypeOK, RuntimeStates, States
    <3>3. obs = "GOOD" /\ runtime.ConsecutiveGood = 1
      BY <1>1, <3>1, <3>2
      DEF HealthInv, TypeOK, RuntimeStates, Transition, OnDegraded, OnDead,
          OnRecovering, StateData, Observations
    <3>4. QED
      BY <1>1, <3>1, <3>3
      DEF HealthInv, TypeOK, Histories, GoodCountIsSeen, UpTo2
  <2>2. CASE Tick
    BY <1>1, <2>2 DEF Tick, Aged, HealthInv, TypeOK, RuntimeStates
  <2>3. CASE UNCHANGED vars
    BY <1>1, <2>3 DEF vars
  <2>4. QED
    BY <1>1, <2>1, <2>2, <2>3 DEF Next
<1>2. HealthInv /\ [Next]_vars
        => [ runtime.State # "HEALTHY" /\ runtime'.State = "HEALTHY"
               => history'.goods = 2 ]_vars
  BY <1>1
<1>3. QED
  BY <1>2, HealthInvariant, PTL DEF Spec, HealthyNeedsTwoGoods

(* A proxy dies for the first time only after two blackholes without a     *)
(* GOOD in between.                                                        *)
THEOREM FirstDeathEarned == Spec => FirstDeathIsEarned
<1>1. ASSUME HealthInv, [Next]_vars,
             runtime'.State = "DEAD", ~history.died
      PROVE  history'.sinceGood = 2
  <2>1. CASE Refresh
    <3>1. PICK obs \in Observations :
            /\ runtime' = Transition(runtime, obs)
            /\ history' = Recorded(history, obs,
                 /\ Transition(runtime, obs).State = "DEAD"
                 /\ runtime.State # "DEAD")
      BY <2>1, RefreshIsObservation
    <3>2. runtime.State \in {"HEALTHY", "DEGRADED"}
      BY <1>1 DEF HealthInv, FirstCountIsSeen
    <3>3. obs = "BLACKHOLE" /\ Bump(runtime.ConsecutiveBlackholes) >= 2
      BY <1>1, <3>1, <3>2
      DEF Transition, OnHealthy, OnDegraded, StateData, Observations
    <3>4. runtime.ConsecutiveBlackholes \in Nat
          /\ runtime.ConsecutiveBlackholes <= history.sinceGood
          /\ history.sinceGood \in 0 .. 2
      BY <1>1, CountCapAssumption
      DEF HealthInv, FirstCountIsSeen, TypeOK, RuntimeStates, Histories
    <3>5. runtime.ConsecutiveBlackholes >= 1
      BY <3>3, <3>4, CountCapAssumption DEF Bump
    <3>6. history'.sinceGood = UpTo2(history.sinceGood)
      BY <3>1, <3>3 DEF Recorded
    <3>7. QED
      BY <3>4, <3>5, <3>6 DEF UpTo2
  <2>2. CASE Tick
    BY <1>1, <2>2
    DEF Tick, Aged, HealthInv, TypeOK, RuntimeStates, FirstCountIsSeen
  <2>3. CASE UNCHANGED vars
    BY <1>1, <2>3 DEF vars, HealthInv, FirstCountIsSeen
  <2>4. QED
    BY <1>1, <2>1, <2>2, <2>3 DEF Next
<1>2. HealthInv /\ [Next]_vars
        => [ runtime'.State = "DEAD" /\ ~history.died
               => history'.sinceGood = 2 ]_vars
  BY <1>1
<1>3. QED
  BY <1>2, HealthInvariant, PTL DEF Spec, FirstDeathIsEarned
=============================================================================
