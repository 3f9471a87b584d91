------------------------------ MODULE Quality ------------------------------
(***************************************************************************)
(* The quality rules of internal/quality and of updateRuntime in           *)
(* internal/pipeline/pipeline.go: how a probe is classified, and how the   *)
(* classified observation moves a proxy through the states HEALTHY,        *)
(* DEGRADED, DEAD and RECOVERING.                                          *)
(*                                                                         *)
(* Time.  The code keeps the instant DeadAt and compares now - DeadAt with *)
(* the cooldown.  The field DeadAge is that difference, counted in units   *)
(* of which DeadCooldown make up the cooldown, and held at DeadCooldown    *)
(* once it gets there: no code tells larger differences apart.             *)
(*                                                                         *)
(* Counters.  ConsecutiveBlackholes is only ever compared with 2 and is    *)
(* not reset on the way out of DEAD, so it grows without bound in the      *)
(* code.  It is held at CountCap, which no comparison can tell.            *)
(***************************************************************************)
EXTENDS Integers

CONSTANTS
  DeadCooldown,   \* StateConfig.DeadCooldown, in units of time
  CountCap        \* bound on ConsecutiveBlackholes

ASSUME DeadCooldownAssumption == DeadCooldown \in Nat \ {0}
ASSUME CountCapAssumption == CountCap \in Nat /\ CountCap >= 2

States == {"HEALTHY", "DEGRADED", "DEAD", "RECOVERING"}
Observations == {"GOOD", "PARTIAL", "BLACKHOLE"}

RuntimeStates ==
  [ State                 : States,
    ConsecutiveBlackholes : 0 .. CountCap,
    ConsecutiveGood       : 0 .. 1,
    DeadAge               : 0 .. DeadCooldown ]

(* A runtime that does not exist yet: State HEALTHY, zero counters and the *)
(* zero time as DeadAt, which is further away than any cooldown.           *)
NewRuntimeState ==
  [ State |-> "HEALTHY", ConsecutiveBlackholes |-> 0,
    ConsecutiveGood |-> 0, DeadAge |-> DeadCooldown ]

(* The metrics of one health check: `requested` samples of which `success` *)
(* succeeded, and whether a geo service answered over the direct route.    *)
InternetReachable(success, requested, geoOK) ==
  requested > 0 /\ (geoOK \/ success > 0)

(* The class of an observation: GOOD needs four samples in five; a geo     *)
(* answer over either route makes it PARTIAL.                              *)
ObservationOf(success, requested, directHealthy, warpHealthy) ==
  IF success * 5 >= requested * 4 /\ requested > 0 THEN "GOOD"
  ELSE IF directHealthy \/ warpHealthy THEN "PARTIAL"
  ELSE "BLACKHOLE"

Bump(n) == IF n < CountCap THEN n + 1 ELSE n

StateData(state, blackholes, goods, deadAge) ==
  [ State |-> state, ConsecutiveBlackholes |-> blackholes,
    ConsecutiveGood |-> goods, DeadAge |-> deadAge ]

(* Time passes for a runtime. *)
Aged(r) ==
  [r EXCEPT !.DeadAge = IF @ < DeadCooldown THEN @ + 1 ELSE @]

(* The rows of the transition table, one operator per state the proxy is   *)
(* in.  An operator with a remark beside its name is a defective variant   *)
(* of the row that follows it, and no specification uses it.               *)

OnHealthyUncounted(r, obs) ==     \* the first blackhole is not counted
  IF obs = "GOOD" THEN StateData("HEALTHY", 0, 0, r.DeadAge)
  ELSE StateData("DEGRADED", r.ConsecutiveBlackholes, 0, r.DeadAge)

OnHealthy(r, obs) ==
  LET blackholes == r.ConsecutiveBlackholes
  IN  CASE obs = "GOOD" -> StateData("HEALTHY", 0, 0, r.DeadAge)
        [] obs = "PARTIAL" -> StateData("DEGRADED", blackholes, 0, r.DeadAge)
        [] OTHER -> StateData("DEGRADED", Bump(blackholes), 0, r.DeadAge)

OnDegradedGoodKept(r, obs) ==     \* a GOOD run is not ended by other classes
  LET blackholes == Bump(r.ConsecutiveBlackholes)
  IN  CASE obs = "GOOD" /\ r.ConsecutiveGood = 1 ->
             StateData("HEALTHY", 0, 0, r.DeadAge)
        [] obs = "GOOD" /\ r.ConsecutiveGood = 0 ->
             StateData("DEGRADED", 0, 1, r.DeadAge)
        [] obs = "PARTIAL" -> r
        [] OTHER ->
             IF blackholes >= 2
             THEN StateData("DEAD", blackholes, 0, 0)
             ELSE StateData("DEGRADED", blackholes, r.ConsecutiveGood, r.DeadAge)

OnDegradedBlackholesKept(r, obs) ==   \* a GOOD does not end a blackhole run
  LET blackholes == Bump(r.ConsecutiveBlackholes)
  IN  CASE obs = "GOOD" /\ r.ConsecutiveGood = 1 ->
             StateData("HEALTHY", r.ConsecutiveBlackholes, 0, r.DeadAge)
        [] obs = "GOOD" /\ r.ConsecutiveGood = 0 ->
             StateData("DEGRADED", r.ConsecutiveBlackholes, 1, r.DeadAge)
        [] obs = "PARTIAL" ->
             StateData("DEGRADED", r.ConsecutiveBlackholes, 0, r.DeadAge)
        [] OTHER ->
             IF blackholes >= 2
             THEN StateData("DEAD", blackholes, 0, 0)
             ELSE StateData("DEGRADED", blackholes, 0, r.DeadAge)

(* The second GOOD in a row makes it HEALTHY, and the second blackhole     *)
(* DEAD; a PARTIAL resets the good count only.                             *)
OnDegraded(r, obs) ==
  LET goods == r.ConsecutiveGood + 1
      blackholes == Bump(r.ConsecutiveBlackholes)
  IN  CASE obs = "GOOD" ->
             IF goods >= 2 THEN StateData("HEALTHY", 0, 0, r.DeadAge)
             ELSE StateData("DEGRADED", 0, goods, r.DeadAge)
        [] obs = "PARTIAL" ->
             StateData("DEGRADED", r.ConsecutiveBlackholes, 0, r.DeadAge)
        [] OTHER ->
             IF blackholes >= 2 THEN StateData("DEAD", blackholes, 0, 0)
             ELSE StateData("DEGRADED", blackholes, 0, r.DeadAge)

OnDeadRestarting(r, obs) ==   \* every probe of a DEAD proxy restarts the cooldown
  IF obs = "GOOD" /\ r.DeadAge >= DeadCooldown
  THEN StateData("RECOVERING", r.ConsecutiveBlackholes, 1, r.DeadAge)
  ELSE StateData("DEAD", r.ConsecutiveBlackholes, 0, 0)

OnDead(r, obs) ==
  LET blackholes == r.ConsecutiveBlackholes
  IN  CASE obs = "GOOD" /\ r.DeadAge >= DeadCooldown ->
             StateData("RECOVERING", blackholes, 1, r.DeadAge)
        [] obs = "GOOD" /\ r.DeadAge < DeadCooldown -> r
        [] OTHER -> StateData("DEAD", blackholes, 0, r.DeadAge)

OnRecoveringUndated(r, obs) ==   \* a relapse keeps the old DeadAt
  LET blackholes == r.ConsecutiveBlackholes
  IN  CASE obs = "GOOD" -> StateData("HEALTHY", blackholes, 0, r.DeadAge)
        [] obs = "PARTIAL" -> StateData("DEGRADED", blackholes, 0, r.DeadAge)
        [] OTHER -> StateData("DEAD", blackholes, 0, r.DeadAge)

OnRecoveringUncleared(r, obs) ==   \* HEALTHY is entered with the good count
  LET blackholes == r.ConsecutiveBlackholes
  IN  CASE obs = "GOOD" ->
             StateData("HEALTHY", blackholes, r.ConsecutiveGood + 1, r.DeadAge)
        [] obs = "PARTIAL" -> StateData("DEGRADED", blackholes, 0, r.DeadAge)
        [] OTHER -> StateData("DEAD", blackholes, 0, 0)

(* No row out of DEAD clears the blackhole count. *)
OnRecovering(r, obs) ==
  LET goods == r.ConsecutiveGood + 1
      blackholes == r.ConsecutiveBlackholes
  IN  CASE obs = "GOOD" ->
             IF goods >= 2 THEN StateData("HEALTHY", blackholes, 0, r.DeadAge)
             ELSE StateData("RECOVERING", blackholes, goods, r.DeadAge)
        [] obs = "PARTIAL" -> StateData("DEGRADED", blackholes, 0, r.DeadAge)
        [] OTHER -> StateData("DEAD", blackholes, 0, 0)

Transition(r, obs) ==
  CASE r.State = "HEALTHY"    -> OnHealthy(r, obs)
    [] r.State = "DEGRADED"   -> OnDegraded(r, obs)
    [] r.State = "DEAD"       -> OnDead(r, obs)
    [] r.State = "RECOVERING" -> OnRecovering(r, obs)
=============================================================================
