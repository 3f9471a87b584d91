---------------------------- MODULE DaemonProofs ----------------------------
(***************************************************************************)
(* The daemon uses the embedded Xray slot as XraySlot allows, so at most   *)
(* one core runs; and no job waits while it has one, nor ends with one but *)
(* by the panic of FindClients.                                            *)
(*                                                                         *)
(* The inductive invariant says, for each core, at which points of its job *)
(* it may be running (RunLabels) or being stopped (StopLabels).  Most      *)
(* steps are one of a few kinds (Step, CallStart, ReturnStart, CallStop),  *)
(* so the invariant is proved once for each kind, from what the labels of  *)
(* the step must satisfy, and the actions only have their labels checked.  *)
(***************************************************************************)
EXTENDS Daemon, TLAPS

----------------------------------------------------------------------------
(* The slot by itself: it is safe for any set of clients that call Start,  *)
(* Stop and Close in any order, at any time and as often as they like.     *)
(* The invariant ties the token, which the code passes through a channel,  *)
(* to the flags of the clients: the channel is empty exactly while one     *)
(* client has a token to give back (Owed), of which there is never a       *)
(* second one, or while a core is lost.                                    *)

(* The client has the token, or a flag that makes it give one back.        *)
Owed(c) == ownsCore[c] \/ phase[c] = "starting"

SlotInv ==
  /\ SlotTypeOK
  /\ \A c \in Clients :
       /\ instance[c] => ownsCore[c]
       /\ phase[c] = "idle" => (ownsCore[c] <=> instance[c])
       /\ phase[c] \in {"waiting", "starting"} => ~ownsCore[c]
       /\ phase[c] \in {"stopping", "restarting"} => ownsCore[c] /\ ~instance[c]
       /\ Owed(c) => ~slot /\ ~lost
  /\ \A c, d \in Clients : Owed(c) /\ Owed(d) => c = d
  /\ lost => ~slot
  /\ slot \/ lost \/ \E c \in Clients : Owed(c)

(* At the start the token is in the channel and nobody has it.             *)
LEMMA SlotInitInv == SlotInit => SlotInv
  BY DEF SlotInit, SlotInv, SlotTypeOK, Phases, Owed

(* Every call of a client keeps the invariant, one step per action.        *)
LEMMA SlotStepInv ==
  ASSUME SlotInv, [SlotNext]_slotVars
  PROVE  SlotInv'
<1> USE DEF SlotInv, SlotTypeOK, Phases, Owed
<1>1. ASSUME NEW c \in Clients, Start(c) PROVE SlotInv'
  BY <1>1 DEF Start
<1>2. ASSUME NEW c \in Clients, Acquire(c) PROVE SlotInv'
  BY <1>2 DEF Acquire
<1>3. ASSUME NEW c \in Clients, Timeout(c) PROVE SlotInv'
  BY <1>3 DEF Timeout
<1>4. ASSUME NEW c \in Clients, Started(c) PROVE SlotInv'
  BY <1>4 DEF Started
<1>5. ASSUME NEW c \in Clients, StartFailed(c) PROVE SlotInv'
  BY <1>5 DEF StartFailed
<1>6. ASSUME NEW c \in Clients, Stop(c) PROVE SlotInv'
  BY <1>6 DEF Stop
<1>7. ASSUME NEW c \in Clients, Release(c) PROVE SlotInv'
  BY <1>7 DEF Release
<1>8. ASSUME NEW c \in Clients, Forget(c) PROVE SlotInv'
  BY <1>8 DEF Forget
<1>9. CASE SlotReset
  BY <1>9 DEF SlotReset
<1>10. CASE UNCHANGED slotVars
  BY <1>10 DEF slotVars
<1>11. QED
  BY <1>1, <1>2, <1>3, <1>4, <1>5, <1>6, <1>7, <1>8, <1>9, <1>10 DEF SlotNext

(* The invariant says that no two cores run and that no release blocks.    *)
LEMMA SlotInvIsEnough == SlotInv => AtMostOneCore /\ ReleaseNeverBlocks
  BY DEF SlotInv, SlotTypeOK, Owed, AtMostOneCore, ReleaseNeverBlocks

(* SlotInv is an invariant of the slot.                                    *)
THEOREM SlotInvariant == SlotSpec => []SlotInv
<1>1. SlotInv /\ [SlotNext]_slotVars => SlotInv'
  BY SlotStepInv
<1>2. QED
  BY <1>1, SlotInitInv, PTL DEF SlotSpec

(* However the clients of the slot behave, at most one embedded core runs. *)
THEOREM SlotExcludes == SlotSpec => []AtMostOneCore
  BY SlotInvariant, SlotInvIsEnough, PTL

(* No client ever blocks on giving its token back.                         *)
THEOREM SlotNeverBlocks == SlotSpec => []ReleaseNeverBlocks
  BY SlotInvariant, SlotInvIsEnough, PTL

----------------------------------------------------------------------------
(* The daemon.                                                             *)

(* The points of its job at which a core may run ...                       *)
RunLabels(c) ==
  CASE c = "gateway"  -> {"gatewayFetch", "gatewayStop", "gatewayUnwind"}
    [] c = "prober"   -> {"probe", "publish", "stop"}
    [] c = "reprober" -> {"probe", "stop"}
    [] c = "checker"  -> {"check", "stop"}
    [] OTHER -> {"findClients", "poolStop", "check", "cleanup", "deferred"}

(* ... and those of them at which it is being stopped.                     *)
StopLabels(c) ==
  CASE c = "gateway" -> {"gatewayStop", "gatewayUnwind"}
    [] c = "pool"    -> {"poolStop", "cleanup", "deferred"}
    [] OTHER -> {"stop"}

CoreInv(c) ==
  /\ phase[c] \in {"waiting", "starting"} => pc[Owner(c)] = c
  /\ phase[c] = "stopping" => pc[Owner(c)] \in StopLabels(c)
  /\ phase[c] # "restarting"
  /\ instance[c] => pc[Owner(c)] \in RunLabels(c)

DaemonInv ==
  /\ TypeOK
  /\ SlotInv
  /\ \A c \in Cores : CoreInv(c)

----------------------------------------------------------------------------
(* The daemon implements the slot's specification.                         *)

(* Every step of the daemon is a call of XraySlot, or leaves it alone.     *)
LEMMA StepUsesSlot == [Next]_vars => [SlotNext]_slotVars
<1> SUFFICES ASSUME [Next]_vars PROVE [SlotNext]_slotVars
  OBVIOUS
<1> USE ClientsAssumption DEF Cores
<1>1. ASSUME NEW j, NEW from, NEW to, Step(j, from, to)
      PROVE  [SlotNext]_slotVars
  BY <1>1 DEF Step
<1>2. ASSUME NEW j, NEW from, NEW c \in Cores, CallStart(j, from, c)
      PROVE  [SlotNext]_slotVars
  BY <1>2 DEF CallStart, SlotNext
<1>3. ASSUME NEW c \in Cores, ReturnStart(c)
      PROVE  [SlotNext]_slotVars
  BY <1>3 DEF ReturnStart, SlotNext
<1>4. ASSUME NEW j, NEW from, NEW c \in Cores, NEW to, CallStop(j, from, c, to)
      PROVE  [SlotNext]_slotVars
  BY <1>4 DEF CallStop, SlotNext
<1>5. CASE Triggers
  BY <1>1, <1>5 DEF Triggers, TriggerRefresh, TriggerReprobe, TriggerService,
                    TriggerEnrich
<1>6. CASE Locks
  BY <1>6 DEF Locks, RefreshLock, ReprobeLock, EnrichLock, Lock
<1>7. CASE RefreshJob
  BY <1>1, <1>2, <1>3, <1>4, <1>7
  DEF RefreshJob, Fetch, GatewayFetch, GatewayStop, Parse, Probe, Publish,
      RefreshStop, RefreshUnlock, Unlock, Save
<1>8. CASE ReprobeJob
  BY <1>1, <1>2, <1>3, <1>4, <1>8
  DEF ReprobeJob, SelectReprobe, ReprobeProbe, ReprobeStop, ReprobeUnlock, Unlock
<1>9. CASE ServiceJob
  BY <1>1, <1>2, <1>3, <1>4, <1>9
  DEF ServiceJob, SelectService, Check, ServiceStop
<1>10. CASE EnrichJob
  BY <1>1, <1>2, <1>3, <1>4, <1>10
  DEF EnrichJob, SelectEnrich, FindClients, SlotNext, PoolStop, EnrichCheck,
      Cleanup, Merge, EnrichUnlock, Unlock, EnrichDeferred
<1>11. CASE Restart
  BY <1>11 DEF Restart, SlotNext
<1>12. CASE UNCHANGED vars
  BY <1>12 DEF vars, slotVars
<1>13. QED
  BY <1>5, <1>6, <1>7, <1>8, <1>9, <1>10, <1>11, <1>12 DEF Next

(* Each behaviour of the daemon is a behaviour of its embedded Xray slot.  *)
THEOREM DaemonImplementsSlot == Spec => SlotSpec
<1>1. Init => SlotInit
  BY DEF Init
<1>2. QED
  BY <1>1, StepUsesSlot, PTL DEF Spec, SlotSpec

(* No two jobs of the daemon ever have an embedded core at the same time.  *)
THEOREM DaemonRunsOneCore == Spec => []AtMostOneCore
  BY DaemonImplementsSlot, SlotExcludes, PTL

(* No job ever hangs in giving the slot back.                              *)
THEOREM DaemonNeverBlocksOnRelease == Spec => []ReleaseNeverBlocks
  BY DaemonImplementsSlot, SlotNeverBlocks, PTL

----------------------------------------------------------------------------
(* What the jobs hold at each point.                                       *)

(* A step of a job alone keeps the invariant if it neither enters nor      *)
(* leaves a call on a core, and stays where its cores may run.             *)
LEMMA StepInv ==
  ASSUME DaemonInv, SlotInv', NEW j \in Jobs, NEW from \in Labels \ Cores,
         NEW to \in Labels \ Cores,
         \A c \in Cores : Owner(c) = j =>
           /\ from \in RunLabels(c) => to \in RunLabels(c)
           /\ from \notin StopLabels(c),
         pc[j] = from, pc' = [pc EXCEPT ![j] = to], UNCHANGED slotVars,
         refreshMu' \in Jobs \cup {"none"}, published' \in BOOLEAN,
         cache' \in BOOLEAN
  PROVE  DaemonInv'
<1>1. TypeOK'
  BY DEF DaemonInv, TypeOK, SlotInv
<1>2. ASSUME NEW c \in Cores PROVE CoreInv(c)'
  BY <1>2 DEF DaemonInv, CoreInv, TypeOK, slotVars
<1>3. QED
  BY <1>1, <1>2 DEF DaemonInv

(* A job that calls Start from a point where the core cannot be running.   *)
LEMMA CallStartInv ==
  ASSUME DaemonInv, SlotInv', NEW c \in Cores, NEW from \in Labels \ Cores,
         \A d \in Cores : Owner(d) = Owner(c) =>
           from \notin RunLabels(d) \cup StopLabels(d),
         CallStart(Owner(c), from, c)
  PROVE  DaemonInv'
<1>1. Owner(c) \in Jobs
  BY DEF Owner, Cores, Jobs
<1>2. TypeOK'
  BY <1>1 DEF DaemonInv, TypeOK, SlotInv, CallStart, Goto, Labels
<1>3. ~instance[c] /\ ~ownsCore[c] /\ phase[c] = "idle"
  BY ClientsAssumption DEF DaemonInv, CoreInv, SlotInv, CallStart, Start
<1>4. ASSUME NEW d \in Cores PROVE CoreInv(d)'
  BY <1>1, <1>3, <1>4, ClientsAssumption
  DEF DaemonInv, CoreInv, TypeOK, SlotTypeOK, CallStart, Start, Goto
<1>5. QED
  BY <1>2, <1>4 DEF DaemonInv

(* A call of Start that goes on or returns.                                *)
LEMMA ReturnStartInv ==
  ASSUME DaemonInv, SlotInv', NEW c \in Cores, ReturnStart(c)
  PROVE  DaemonInv'
<1>1. /\ Owner(c) \in Jobs
      /\ OnStarted(c) \in Labels \ Cores
      /\ OnStartError(c) \in Labels \ Cores /\ OnStartPanic(c) \in Labels \ Cores
      /\ OnStarted(c) \in RunLabels(c)
  BY DEF Owner, Cores, Jobs, OnStarted, OnStartError, OnStartPanic, Labels,
         RunLabels
<1>2. TypeOK'
  BY <1>1 DEF DaemonInv, TypeOK, SlotInv, ReturnStart, Goto
<1>3. \A d \in Cores : Owner(d) = Owner(c) /\ d # c =>
        /\ phase[d] = "idle" /\ ~instance[d]
  <2>1. \A d \in Cores : c \notin RunLabels(d) \cup StopLabels(d)
    BY DEF Cores, RunLabels, StopLabels
  <2>2. \A d \in Cores : phase[d] \in Phases
    BY ClientsAssumption DEF DaemonInv, SlotInv, SlotTypeOK
  <2>3. QED
    BY <2>1, <2>2 DEF DaemonInv, CoreInv, ReturnStart, Phases
<1>4. CASE Acquire(c) /\ UNCHANGED pc
  <2>1. ASSUME NEW d \in Cores PROVE CoreInv(d)'
    BY <1>4, ClientsAssumption
    DEF DaemonInv, CoreInv, SlotInv, SlotTypeOK, ReturnStart, Acquire
  <2>2. QED
    BY <1>2, <2>1 DEF DaemonInv
<1>5. CASE Started(c) /\ Goto(Owner(c), OnStarted(c))
  <2>1. ASSUME NEW d \in Cores PROVE CoreInv(d)'
    BY <1>1, <1>3, <1>5, ClientsAssumption
    DEF DaemonInv, CoreInv, SlotInv, SlotTypeOK, TypeOK, Started, Goto
  <2>2. QED
    BY <1>2, <2>1 DEF DaemonInv
<1>6. CASE /\ Timeout(c) \/ StartFailed(c)
           /\ \E to \in {OnStartError(c), OnStartPanic(c)} : Goto(Owner(c), to)
  <2>1. ~instance[c]
    BY <1>6, ClientsAssumption DEF DaemonInv, SlotInv, Timeout, StartFailed
  <2>2. ASSUME NEW d \in Cores PROVE CoreInv(d)'
    BY <1>1, <1>3, <1>6, <2>1, ClientsAssumption
    DEF DaemonInv, CoreInv, SlotInv, SlotTypeOK, TypeOK, Timeout, StartFailed,
        Goto
  <2>3. QED
    BY <1>2, <2>2 DEF DaemonInv
<1>7. QED
  BY <1>4, <1>5, <1>6 DEF ReturnStart

(* A panic that leaves the pool's core behind.                             *)
LEMMA ForgetInv ==
  ASSUME DaemonInv, SlotInv', pc["enrich"] = "findClients", Forget("pool"),
         Goto("enrich", "idle"), UNCHANGED <<refreshMu, published, cache>>
  PROVE  DaemonInv'
<1> USE DEF Owner, Cores, Jobs
<1>1. TypeOK'
  BY DEF DaemonInv, TypeOK, SlotInv, Goto, Labels
<1>2. ASSUME NEW c \in Cores PROVE CoreInv(c)'
  <2>1. CASE c = "pool"
    BY <2>1, ClientsAssumption
    DEF DaemonInv, CoreInv, SlotInv, SlotTypeOK, TypeOK, Forget, Goto
  <2>2. CASE c # "pool"
    <3>1. /\ UNCHANGED <<instance[c], phase[c], pc[Owner(c)]>>
          /\ CoreInv(c)
      BY <1>2, <2>2, ClientsAssumption
      DEF DaemonInv, TypeOK, SlotTypeOK, Forget, Goto
    <3>2. QED
      BY <3>1 DEF CoreInv
  <2>3. QED
    BY <2>1, <2>2
<1>3. QED
  BY <1>1, <1>2 DEF DaemonInv

(* A call of Stop that goes on or returns, at a point where the job has no *)
(* other core.                                                             *)
LEMMA CallStopInv ==
  ASSUME DaemonInv, SlotInv', NEW c \in Cores, NEW from \in StopLabels(c),
         NEW to \in Labels \ Cores, CallStop(Owner(c), from, c, to),
         \A d \in Cores : Owner(d) = Owner(c) /\ d # c =>
           from \notin RunLabels(d) \cup StopLabels(d)
  PROVE  DaemonInv'
<1>1. /\ Owner(c) \in Jobs
      /\ from \in Labels \ Cores
      /\ from \in RunLabels(c)
  BY DEF Owner, Cores, Jobs, Labels, RunLabels, StopLabels
<1>2. TypeOK'
  BY <1>1 DEF DaemonInv, TypeOK, SlotInv, CallStop, Goto
<1>3. \A d \in Cores : Owner(d) = Owner(c) /\ d # c =>
        phase[d] = "idle" /\ ~instance[d]
  <2>1. \A d \in Cores : phase[d] \in Phases
    BY ClientsAssumption DEF DaemonInv, SlotInv, SlotTypeOK
  <2>2. QED
    BY <1>1, <2>1 DEF DaemonInv, CoreInv, CallStop, Phases
<1>4. CASE Stop(c) /\ Goto(Owner(c), IF ownsCore[c] THEN from ELSE to)
  <2>1. ASSUME NEW d \in Cores PROVE CoreInv(d)'
    BY <1>1, <1>3, <1>4, ClientsAssumption
    DEF DaemonInv, CoreInv, SlotInv, SlotTypeOK, TypeOK, CallStop, Stop, Goto
  <2>2. QED
    BY <1>2, <2>1 DEF DaemonInv
<1>5. CASE Release(c) /\ Goto(Owner(c), to)
  <2>1. phase[c] = "stopping" /\ ~instance[c]
    BY <1>5, ClientsAssumption DEF DaemonInv, CoreInv, SlotInv, Release
  <2>2. ASSUME NEW d \in Cores PROVE CoreInv(d)'
    BY <1>1, <1>3, <1>5, <2>1, ClientsAssumption
    DEF DaemonInv, CoreInv, SlotInv, SlotTypeOK, TypeOK, Release, Goto
  <2>3. QED
    BY <1>2, <2>2 DEF DaemonInv
<1>6. QED
  BY <1>4, <1>5 DEF CallStop

(* The kinds of steps, with the labels they are used with.                 *)
LEMMA StepKindInv ==
  ASSUME DaemonInv, SlotInv', NEW j \in Jobs, NEW from \in Labels \ Cores,
         NEW to \in SUBSET (Labels \ Cores), Step(j, from, to),
         \A c \in Cores : Owner(c) = j =>
           /\ from \in RunLabels(c) => to \subseteq RunLabels(c)
           /\ from \notin StopLabels(c)
  PROVE  DaemonInv'
<1>1. PICK label \in to : pc' = [pc EXCEPT ![j] = label]
  BY DEF Step, Goto
<1>2. /\ refreshMu' \in Jobs \cup {"none"} /\ published' \in BOOLEAN
      /\ cache' \in BOOLEAN
  BY DEF Step, DaemonInv, TypeOK
<1>3. QED
  BY <1>1, <1>2, StepInv DEF Step

(* Every step of the daemon keeps the invariant.                           *)
LEMMA NextInv ==
  ASSUME DaemonInv, [Next]_vars
  PROVE  DaemonInv'
<1>1. SlotInv'
  BY StepUsesSlot, SlotStepInv DEF DaemonInv
<1>2. /\ refreshMu \in Jobs \cup {"none"} /\ published \in BOOLEAN
      /\ cache \in BOOLEAN
  BY DEF DaemonInv, TypeOK
<1> USE <1>1, <1>2 DEF Owner, Jobs, Labels, Cores, RunLabels, StopLabels
<1>3. CASE Triggers
  <2>1. CASE TriggerRefresh
    BY <2>1, StepInv DEF TriggerRefresh, Goto
  <2>2. CASE TriggerReprobe
    BY <2>2, StepKindInv DEF TriggerReprobe
  <2>3. CASE TriggerService
    BY <2>3, StepKindInv DEF TriggerService
  <2>4. CASE TriggerEnrich
    BY <2>4, StepKindInv DEF TriggerEnrich
  <2>5. QED
    BY <1>3, <2>1, <2>2, <2>3, <2>4 DEF Triggers
<1>4. CASE Locks
  BY <1>4, StepInv DEF Locks, RefreshLock, ReprobeLock, EnrichLock, Lock, Goto
<1>5. CASE RefreshJob
  <2>1. CASE Fetch
    <3>1. CASE Step("refresh", "fetch", {"parse", "unlock"})
      BY <3>1, StepKindInv
    <3>2. CASE CallStart("refresh", "fetch", "gateway")
      BY <3>2, CallStartInv
    <3>3. QED
      BY <2>1, <3>1, <3>2 DEF Fetch
  <2>2. CASE ReturnStart("gateway") \/ ReturnStart("prober")
    BY <2>2, ReturnStartInv
  <2>3. CASE GatewayFetch
    BY <2>3, StepKindInv DEF GatewayFetch
  <2>4. CASE GatewayStop
    <3>1. CASE CallStop("refresh", "gatewayStop", "gateway", "parse")
      BY <3>1, CallStopInv
    <3>2. CASE CallStop("refresh", "gatewayUnwind", "gateway", "unlock")
      BY <3>2, CallStopInv
    <3>3. QED
      BY <2>4, <3>1, <3>2 DEF GatewayStop
  <2>5. CASE Parse
    <3>1. CASE Step("refresh", "parse", {"unlock"})
      BY <3>1, StepKindInv
    <3>2. CASE CallStart("refresh", "parse", "prober")
      BY <3>2, CallStartInv
    <3>3. QED
      BY <2>5, <3>1, <3>2 DEF Parse
  <2>6. CASE Probe
    BY <2>6, StepKindInv DEF Probe
  <2>7. CASE Publish
    BY <2>7, StepInv DEF Publish, Goto
  <2>8. CASE RefreshStop
    BY <2>8, CallStopInv DEF RefreshStop
  <2>9. CASE RefreshUnlock
    BY <2>9, StepInv DEF RefreshUnlock, Unlock, Goto
  <2>10. CASE Save
    <3>1. CASE Step("refresh", "save", {"idle"})
      BY <3>1, StepKindInv
    <3>2. CASE /\ pc["refresh"] = "save"
               /\ pc' = [pc EXCEPT !["refresh"] = "idle",
                                   !["enrich"] = IF @ = "idle" THEN "select"
                                                               ELSE @]
               /\ UNCHANGED <<slotVars, refreshMu, published, cache>>
      <4>1. TypeOK'
        BY <3>2 DEF DaemonInv, TypeOK, SlotInv
      <4>2. ASSUME NEW c \in Cores PROVE CoreInv(c)'
        BY <3>2, <4>2 DEF DaemonInv, CoreInv, TypeOK, slotVars
      <4>3. QED
        BY <4>1, <4>2 DEF DaemonInv
    <3>3. QED
      BY <2>10, <3>1, <3>2 DEF Save
  <2>11. QED
    BY <1>5, <2>1, <2>2, <2>3, <2>4, <2>5, <2>6, <2>7, <2>8, <2>9, <2>10
    DEF RefreshJob
<1>6. CASE ReprobeJob
  <2>1. CASE SelectReprobe
    <3>1. CASE Step("reprobe", "select", {"unlock"})
      BY <3>1, StepKindInv
    <3>2. CASE CallStart("reprobe", "select", "reprober")
      BY <3>2, CallStartInv
    <3>3. QED
      BY <2>1, <3>1, <3>2 DEF SelectReprobe
  <2>2. CASE ReturnStart("reprober")
    BY <2>2, ReturnStartInv
  <2>3. CASE ReprobeProbe
    BY <2>3, StepKindInv DEF ReprobeProbe
  <2>4. CASE ReprobeStop
    BY <2>4, CallStopInv DEF ReprobeStop
  <2>5. CASE ReprobeUnlock
    <3>1. /\ pc["reprobe"] = "unlock" /\ pc' = [pc EXCEPT !["reprobe"] = "idle"]
          /\ UNCHANGED <<slotVars, published, cache>> /\ refreshMu' = "none"
      BY <2>5 DEF ReprobeUnlock, Unlock, Goto
    <3>2. /\ "reprobe" \in Jobs /\ {"unlock", "idle"} \subseteq Labels \ Cores
          /\ \A c \in Cores : Owner(c) = "reprobe" =>
               "unlock" \notin RunLabels(c) \cup StopLabels(c)
      OBVIOUS
    <3> HIDE DEF Owner, Jobs, Labels, Cores, RunLabels, StopLabels
    <3>3. QED
      BY <3>1, <3>2, StepInv
  <2>6. QED
    BY <1>6, <2>1, <2>2, <2>3, <2>4, <2>5 DEF ReprobeJob
<1>7. CASE ServiceJob
  <2>1. CASE SelectService
    <3>1. CASE Step("service", "select", {"idle"})
      BY <3>1, StepKindInv
    <3>2. CASE CallStart("service", "select", "checker")
      BY <3>2, CallStartInv
    <3>3. QED
      BY <2>1, <3>1, <3>2 DEF SelectService
  <2>2. CASE ReturnStart("checker")
    BY <2>2, ReturnStartInv
  <2>3. CASE Check
    BY <2>3, StepKindInv DEF Check
  <2>4. CASE ServiceStop
    BY <2>4, CallStopInv DEF ServiceStop
  <2>5. QED
    BY <1>7, <2>1, <2>2, <2>3, <2>4 DEF ServiceJob
<1>8. CASE EnrichJob
  <2>1. CASE SelectEnrich
    <3>1. CASE Step("enrich", "select", {"idle"})
      BY <3>1, StepKindInv
    <3>2. CASE Step("enrich", "select", {"check"})
      BY <3>2, StepKindInv
    <3>3. CASE CallStart("enrich", "select", "pool")
      BY <3>3, CallStartInv
    <3>4. QED
      BY <2>1, <3>1, <3>2, <3>3 DEF SelectEnrich
  <2>2. CASE ReturnStart("pool")
    BY <2>2, ReturnStartInv
  <2>3. CASE FindClients
    <3>1. CASE Step("enrich", "findClients", {"check", "poolStop"})
      BY <3>1, StepKindInv
    <3>2. CASE Forget("pool") /\ ~Step("enrich", "findClients", {"check", "poolStop"})
      BY <2>3, <3>2, ForgetInv DEF FindClients
    <3>3. QED
      BY <2>3, <3>1, <3>2 DEF FindClients
  <2>4. CASE PoolStop \/ Cleanup \/ EnrichDeferred
    <3>1. CASE PoolStop
      BY <3>1, CallStopInv DEF PoolStop
    <3>2. CASE Cleanup
      BY <3>2, CallStopInv DEF Cleanup
    <3>3. CASE EnrichDeferred
      BY <3>3, CallStopInv DEF EnrichDeferred
    <3>4. QED
      BY <2>4, <3>1, <3>2, <3>3
  <2>5. CASE EnrichCheck
    BY <2>5, StepKindInv DEF EnrichCheck
  <2>6. CASE Merge
    BY <2>6, StepKindInv DEF Merge
  <2>7. CASE EnrichUnlock
    <3>1. /\ pc["enrich"] = "unlock" /\ pc' = [pc EXCEPT !["enrich"] = "deferred"]
          /\ UNCHANGED <<slotVars, published, cache>> /\ refreshMu' = "none"
      BY <2>7 DEF EnrichUnlock, Unlock, Goto
    <3>2. /\ "enrich" \in Jobs /\ {"unlock", "deferred"} \subseteq Labels \ Cores
          /\ \A c \in Cores : Owner(c) = "enrich" =>
               "unlock" \notin RunLabels(c) \cup StopLabels(c)
      OBVIOUS
    <3> HIDE DEF Owner, Jobs, Labels, Cores, RunLabels, StopLabels
    <3>3. QED
      BY <3>1, <3>2, StepInv
  <2>8. QED
    BY <1>8, <2>1, <2>2, <2>3, <2>4, <2>5, <2>6, <2>7 DEF EnrichJob
<1>9. CASE Restart
  BY <1>9, ClientsAssumption
  DEF Restart, SlotReset, DaemonInv, TypeOK, SlotTypeOK, CoreInv, Phases
<1>10. CASE UNCHANGED vars
  BY <1>10 DEF vars, DaemonInv, TypeOK, SlotTypeOK, CoreInv
<1>11. QED
  BY <1>3, <1>4, <1>5, <1>6, <1>7, <1>8, <1>9, <1>10 DEF Next

(* DaemonInv is an invariant of the daemon.                                *)
THEOREM DaemonInvariant == Spec => []DaemonInv
<1>1. Init => DaemonInv
  <2>1. Init => SlotInv
    BY SlotInitInv DEF Init
  <2>2. Init => TypeOK /\ \A c \in Cores : CoreInv(c)
    BY ClientsAssumption
    DEF Init, SlotInit, TypeOK, SlotTypeOK, CoreInv, Phases, Jobs, Labels, Owner,
        Cores
  <2>3. QED
    BY <2>1, <2>2 DEF DaemonInv
<1>2. DaemonInv /\ [Next]_vars => DaemonInv'
  BY NextInv
<1>3. QED
  BY <1>1, <1>2, PTL DEF Spec

(* The jobs and the locks stay within their types.                         *)
THEOREM DaemonTypeCorrect == Spec => []TypeOK
<1>1. DaemonInv => TypeOK
  BY DEF DaemonInv
<1>2. QED
  BY <1>1, DaemonInvariant, PTL

(* A job that waits for refreshMu or for a core has no core running.       *)
THEOREM NobodyHoldsAndWaits == Spec => []NoHoldAndWait
<1>1. DaemonInv => NoHoldAndWait
  BY DEF DaemonInv, CoreInv, NoHoldAndWait, RunLabels, Cores, Owner
<1>2. QED
  BY <1>1, DaemonInvariant, PTL

(* A job that has ended has neither a core nor a token; and once all have  *)
(* ended the token is in the channel, unless a panic lost the pool's core. *)
THEOREM NobodyLeavesACore == Spec => []NoCoreLeft
<1>1. ASSUME DaemonInv, NEW c \in Cores, pc[Owner(c)] = "idle"
      PROVE  ~instance[c] /\ ~ownsCore[c] /\ phase[c] = "idle"
  <2>1. "idle" \notin RunLabels(c) \cup StopLabels(c) /\ c # "idle"
    BY DEF RunLabels, StopLabels, Cores
  <2>2. phase[c] = "idle" /\ ~instance[c]
    BY <1>1, <2>1, ClientsAssumption
    DEF DaemonInv, CoreInv, SlotInv, SlotTypeOK, Phases
  <2>3. QED
    BY <1>1, <2>2, ClientsAssumption DEF DaemonInv, SlotInv
<1>2. ASSUME DaemonInv, \A j \in Jobs : pc[j] = "idle"
      PROVE  slot <=> ~lost
  <2>1. \A c \in Clients : ~Owed(c)
    BY <1>1, <1>2, ClientsAssumption DEF Owed, Owner, Cores, Jobs
  <2>2. /\ lost => ~slot
        /\ slot \/ lost
    BY <1>2, <2>1 DEF DaemonInv, SlotInv
  <2>3. QED
    BY <2>2
<1>3. DaemonInv => NoCoreLeft
  BY <1>1, <1>2 DEF NoCoreLeft
<1>4. QED
  BY <1>3, DaemonInvariant, PTL
=============================================================================
