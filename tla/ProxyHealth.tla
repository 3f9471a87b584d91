---------------------------- MODULE ProxyHealth ----------------------------
(***************************************************************************)
(* The quality state of one proxy over its refreshes: the part of          *)
(* updateRuntime (internal/pipeline/pipeline.go) that classifies a probe   *)
(* and applies quality.Transition.  Refreshes are serialized by refreshMu, *)
(* so each is one action; any amount of time passes between two of them.   *)
(***************************************************************************)
EXTENDS Quality

CONSTANT SampleCount    \* PROBE_SAMPLE_COUNT, samples of one health check

ASSUME SampleCountAssumption == SampleCount \in Nat \ {0}

VARIABLES
  runtime,   \* Runtime.StateData
  history    \* what the proxy did, for the properties: no step depends on it

vars == <<runtime, history>>

(* History, counts held at 2 and the age at DeadCooldown:                  *)
(*   last        the class of the last observation, GOOD before the first  *)
(*   goods       GOOD observations since the last of another class         *)
(*   blackholes  blackholes since the last observation of another class    *)
(*   sinceGood   blackholes since the last GOOD                            *)
(*   died        it has been DEAD                                          *)
(*   deathAge    time since it last became DEAD                            *)
Histories ==
  [ last : Observations, goods : 0 .. 2, blackholes : 0 .. 2,
    sinceGood : 0 .. 2, died : BOOLEAN, deathAge : 0 .. DeadCooldown ]

UpTo2(n) == IF n < 2 THEN n + 1 ELSE 2

Recorded(h, obs, dies) ==
  [ last       |-> obs,
    goods      |-> IF obs = "GOOD" THEN UpTo2(h.goods) ELSE 0,
    blackholes |-> IF obs = "BLACKHOLE" THEN UpTo2(h.blackholes) ELSE 0,
    sinceGood  |-> CASE obs = "GOOD" -> 0
                     [] obs = "BLACKHOLE" -> UpTo2(h.sinceGood)
                     [] obs = "PARTIAL" -> h.sinceGood,
    died       |-> h.died \/ dies,
    deathAge   |-> IF dies THEN 0 ELSE h.deathAge ]

Init ==
  /\ runtime = NewRuntimeState
  /\ history = [ last |-> "GOOD", goods |-> 0, blackholes |-> 0,
                 sinceGood |-> 0, died |-> FALSE, deathAge |-> DeadCooldown ]

(* One refresh observed the proxy: `success` of its samples came back, a   *)
(* geo service answered (or not) over the direct route, and the final WARP *)
(* exit was seen with a valid country (or not).                            *)
UpdateRuntime(success, geoOK, warpHealthy) ==
  LET directHealthy == InternetReachable(success, SampleCount, geoOK)
      obs == ObservationOf(success, SampleCount, directHealthy, warpHealthy)
      next == Transition(runtime, obs)
      dies == next.State = "DEAD" /\ runtime.State # "DEAD"
  IN  /\ runtime' = next
      /\ history' = Recorded(history, obs, dies)

Refresh ==
  \E success \in 0 .. SampleCount, geoOK, warpHealthy \in BOOLEAN :
    UpdateRuntime(success, geoOK, warpHealthy)

(* Time passes between two refreshes. *)
Tick ==
  /\ runtime' = Aged(runtime)
  /\ history' = [history EXCEPT !.deathAge =
                   IF @ < DeadCooldown THEN @ + 1 ELSE @]

Next == Refresh \/ Tick

Spec == Init /\ [][Next]_vars

(* main's ticker keeps refreshing and the clock keeps running. *)
FairSpec == Spec /\ WF_vars(Tick) /\ WF_vars(Refresh)

----------------------------------------------------------------------------
(* The runtime and the history stay within their types; in particular the  *)
(* good count of the stored state never reaches the 2 that promotes.       *)
TypeOK ==
  /\ runtime \in RuntimeStates
  /\ history \in Histories

(* Two blackholes in a row leave the proxy DEAD, whatever state they found *)
(* it in: updateRuntime has no path on which a proxy that carries nothing  *)
(* stays listed for a third refresh.                                       *)
TwoBlackholesAreDead ==
  history.blackholes = 2 => runtime.State = "DEAD"

(* A proxy that is not HEALTHY becomes so only on its second GOOD in a row,*)
(* through DEGRADED as through DEAD and RECOVERING.                        *)
HealthyNeedsTwoGoods ==
  [][ runtime.State # "HEALTHY" /\ runtime'.State = "HEALTHY"
        => history'.goods = 2 ]_vars

(* A proxy is out of DEAD only when the whole cooldown has passed since it *)
(* last became DEAD, on either of the rows that kill it.                   *)
CooldownServed ==
  runtime.State # "DEAD" => history.deathAge = DeadCooldown

(* The first death of a proxy is earned: at least two blackholes since its *)
(* last GOOD.                                                              *)
FirstDeathIsEarned ==
  [][ runtime'.State = "DEAD" /\ ~history.died
        => history'.sinceGood = 2 ]_vars

(* The design gives every DEGRADED proxy that grace, also one that has     *)
(* been DEAD before: "DEGRADED | BLACKHOLE twice consecutively | DEAD".    *)
DegradedDeathIsEarned ==
  [][ runtime.State = "DEGRADED" /\ runtime'.State = "DEAD"
        => history'.sinceGood = 2 ]_vars

(* A proxy that from some refresh on is always GOOD ends up HEALTHY for    *)
(* good, wherever it starts: no state and no counter traps it.             *)
PersistentGoodRecovers ==
  <>[](history.last = "GOOD") => <>[](runtime.State = "HEALTHY")
=============================================================================
