------------------------------- MODULE Daemon -------------------------------
(***************************************************************************)
(* The background jobs of cmd/vless-sub-server/main.go and the two locks   *)
(* they share: Pipeline.refreshMu and the embedded Xray core (XraySlot).   *)
(*                                                                         *)
(* Four jobs run at any time and in any order: the subscription refresh,   *)
(* the WARP country reprobe, the service checks and the enrichment checks. *)
(* Each has an atomic flag that main sets by compare-and-swap before it    *)
(* starts the job's goroutine and that the goroutine clears last, so a job *)
(* runs at most once at a time: the flag of a job is `pc[job] # "idle"'.   *)
(* What starts a job (tickers, a request that finds no snapshot or a stale *)
(* one, the start of the process) can do so at any time.                   *)
(*                                                                         *)
(* A context ends at a time the job does not control; the only step here   *)
(* that depends on it is the wait for the core.  Work on the network (pc   *)
(* "fetch", "probe" and so on) is one step of unknown outcome.  A job may  *)
(* panic in any such step, in Start, and in Save; the calls it deferred so *)
(* far then run, and main recovers.  The closing of a core (Stop and Close)*)
(* is taken not to panic, nor does a step on the flags and the mutex.  A   *)
(* panic in a goroutine that a job starts ends the process (Restart).      *)
(***************************************************************************)
EXTENDS XraySlot

Jobs == {"refresh", "reprobe", "service", "enrich"}

(* The cores a job starts, one client per call site: the refresh has its   *)
(* fetch gateway and its prober, enrichment a gateway of proxies.          *)
Cores == {"gateway", "prober", "reprober", "checker", "pool"}

ASSUME ClientsAssumption == Clients = Cores

VARIABLES
  pc,          \* pc[job]: where the job's goroutine is
  refreshMu,   \* the job that holds Pipeline.refreshMu, "none" if it is free
  published,   \* result.Published of the running refresh
  cache        \* Pipeline.cache holds a snapshot

daemonVars == <<pc, refreshMu, published, cache>>
vars == <<slot, instance, ownsCore, phase, lost, pc, refreshMu, published, cache>>

Owner(c) ==
  CASE c \in {"gateway", "prober"} -> "refresh" [] c = "reprober" -> "reprobe"
    [] c = "checker" -> "service" [] OTHER -> "enrich"

(* Where the job goes when the call that starts its core returns.          *)
OnStarted(c) ==
  CASE c = "gateway" -> "gatewayFetch" [] c = "prober" -> "probe"
    [] c = "reprober" -> "probe" [] c = "checker" -> "check"
    [] OTHER -> "findClients"

(* Defective variant: a reprober that does not start is tried again, which *)
(* no job does.                                                            *)
OnStartErrorRetried(c) ==
  CASE c = "gateway" -> "parse" [] c = "prober" -> "unlock"
    [] c = "reprober" -> "retry" [] c = "checker" -> "idle" [] OTHER -> "check"

OnStartError(c) ==
  CASE c = "gateway" -> "parse" [] c = "prober" -> "unlock"
    [] c = "reprober" -> "unlock" [] c = "checker" -> "idle" [] OTHER -> "check"

(* Where it goes if the call panics: to what the job deferred before it.   *)
OnStartPanic(c) ==
  IF Owner(c) \in {"refresh", "reprobe"} THEN "unlock" ELSE "idle"

Labels ==
  Cores \cup
  { "idle", "lock", "fetch", "gatewayFetch", "gatewayStop", "gatewayUnwind",
    "parse", "probe", "publish", "stop", "unlock", "save",
    "select", "check", "findClients", "poolStop", "cleanup", "merge",
    "deferred" }

Init ==
  /\ SlotInit
  /\ pc = [j \in Jobs |-> "idle"]
  /\ refreshMu = "none"
  /\ published = FALSE
  /\ cache \in BOOLEAN     \* LoadCached may have restored one

Goto(j, label) == pc' = [pc EXCEPT ![j] = label]

(* A step of the job alone, from `from` to one of `to`.                    *)
Step(j, from, to) ==
  /\ pc[j] = from
  /\ \E label \in to : Goto(j, label)
  /\ UNCHANGED <<slotVars, refreshMu, published, cache>>

(* The call of Start, and its return.                                      *)
CallStart(j, from, c) ==
  /\ pc[j] = from
  /\ Start(c)
  /\ Goto(j, c)
  /\ UNCHANGED <<refreshMu, published, cache>>

ReturnStart(c) ==
  LET j == Owner(c)
  IN  /\ pc[j] = c
      /\ \/ Acquire(c) /\ UNCHANGED pc
         \/ Started(c) /\ Goto(j, OnStarted(c))
         \/ (Timeout(c) \/ StartFailed(c)) /\ Goto(j, OnStartError(c))
         \/ StartFailed(c) /\ Goto(j, OnStartPanic(c))
      /\ UNCHANGED <<refreshMu, published, cache>>

(* Stop or Close, which is done at once if the client owns no core.        *)
CallStop(j, from, c, to) ==
  /\ pc[j] = from
  /\ \/ Stop(c) /\ Goto(j, IF ownsCore[c] THEN from ELSE to)
     \/ Release(c) /\ Goto(j, to)
  /\ UNCHANGED <<refreshMu, published, cache>>

Lock(j, to) ==
  /\ pc[j] = "lock"
  /\ refreshMu = "none"
  /\ refreshMu' = j
  /\ Goto(j, to)
  /\ UNCHANGED <<slotVars, published, cache>>

Unlock(j, to) ==
  /\ pc[j] = "unlock"
  /\ refreshMu' = "none"
  /\ Goto(j, to)
  /\ UNCHANGED <<slotVars, published, cache>>
----------------------------------------------------------------------------
(* The refresh: triggerRefresh, refreshSubscriptions and Pipeline.Refresh. *)

TriggerRefresh ==
  /\ pc["refresh"] = "idle"
  /\ Goto("refresh", "lock")
  /\ published' = FALSE
  /\ UNCHANGED <<slotVars, refreshMu, cache>>

RefreshLock == Lock("refresh", "fetch")

(* fetchAllSources.  If a source failed and the snapshot offers direct     *)
(* healthy proxies, the failed ones are fetched again through a gateway.   *)
Fetch ==
  \/ Step("refresh", "fetch", {"parse", "unlock"})
  \/ cache /\ CallStart("refresh", "fetch", "gateway")

GatewayFetch == Step("refresh", "gatewayFetch", {"gatewayStop", "gatewayUnwind"})

(* The deferred Close, with or without a panic.                            *)
GatewayStop ==
  \/ CallStop("refresh", "gatewayStop", "gateway", "parse")
  \/ CallStop("refresh", "gatewayUnwind", "gateway", "unlock")

(* Merging, parsing and resolving; nothing resolved ends the refresh.      *)
Parse ==
  \/ Step("refresh", "parse", {"unlock"})
  \/ CallStart("refresh", "parse", "prober")

(* ProbeAll, the witness gate, updateRuntime, bandwidth and outputEntries: *)
(* without a witness or with nothing to list nothing is published.         *)
Probe == Step("refresh", "probe", {"publish", "stop"})

Publish ==
  /\ pc["refresh"] = "publish"
  /\ cache' = TRUE
  /\ published' \in BOOLEAN      \* FALSE: a panic after the store
  /\ Goto("refresh", "stop")
  /\ UNCHANGED <<slotVars, refreshMu>>

RefreshStop == CallStop("refresh", "stop", "prober", "unlock")

RefreshUnlock == Unlock("refresh", IF published THEN "save" ELSE "idle")

(* SaveCached and triggerEnrichmentChecks, outside the lock, or a panic.   *)
Save ==
  \/ /\ pc["refresh"] = "save"
     /\ pc' = [pc EXCEPT !["refresh"] = "idle",
                         !["enrich"] = IF @ = "idle" THEN "select" ELSE @]
     /\ UNCHANGED <<slotVars, refreshMu, published, cache>>
  \/ Step("refresh", "save", {"idle"})

RefreshJob ==
  \/ Fetch \/ ReturnStart("gateway") \/ GatewayFetch \/ GatewayStop \/ Parse
  \/ ReturnStart("prober") \/ Probe \/ Publish \/ RefreshStop
  \/ RefreshUnlock \/ Save
----------------------------------------------------------------------------
(* The reprobe: triggerCountryReprobe and Pipeline.ReprobeWarpCountries.   *)

TriggerReprobe == Step("reprobe", "idle", {"lock"})

ReprobeLock == Lock("reprobe", "select")

SelectReprobe ==
  \/ Step("reprobe", "select", {"unlock"})
  \/ cache /\ CallStart("reprobe", "select", "reprober")

ReprobeProbe == Step("reprobe", "probe", {"stop"})

ReprobeStop == CallStop("reprobe", "stop", "reprober", "unlock")

ReprobeUnlock == Unlock("reprobe", "idle")

ReprobeJob ==
  \/ SelectReprobe \/ ReturnStart("reprober") \/ ReprobeProbe \/ ReprobeStop
  \/ ReprobeUnlock
----------------------------------------------------------------------------
(* The service checks: triggerServiceChecks and Pipeline.RunServiceChecks, *)
(* which never takes refreshMu.                                            *)

TriggerService == Step("service", "idle", {"select"})

SelectService ==
  \/ Step("service", "select", {"idle"})
  \/ cache /\ CallStart("service", "select", "checker")

Check == Step("service", "check", {"stop"})

ServiceStop == CallStop("service", "stop", "checker", "idle")

ServiceJob == SelectService \/ ReturnStart("checker") \/ Check \/ ServiceStop
----------------------------------------------------------------------------
(* The enrichment checks: triggerEnrichmentChecks and                      *)
(* Pipeline.RunEnrichmentChecks with startIntelPool and                    *)
(* refreshCachedEnrichment.                                                *)

TriggerEnrich == Step("enrich", "idle", {"select"})

(* Nothing to check, or checks without a pool of proxies, or with one.     *)
SelectEnrich ==
  \/ Step("enrich", "select", {"idle"})
  \/ cache /\ Step("enrich", "select", {"check"})
  \/ cache /\ CallStart("enrich", "select", "pool")

(* distinctGatewayClients and Probe: without a client the gateway is       *)
(* closed.  Its cleanup is deferred by RunEnrichmentChecks only once       *)
(* startIntelPool has returned it, so after a panic here nobody closes it. *)
FindClients ==
  \/ Step("enrich", "findClients", {"check", "poolStop"})
  \/ /\ pc["enrich"] = "findClients"
     /\ Forget("pool")
     /\ Goto("enrich", "idle")
     /\ UNCHANGED <<refreshMu, published, cache>>

PoolStop == CallStop("enrich", "poolStop", "pool", "check")

(* The lookups.  A panic goes straight to the deferred cleanup.            *)
EnrichCheck == Step("enrich", "check", {"cleanup", "deferred"})

(* Defective variant: refreshCachedEnrichment runs before the cleanup.     *)
CleanupDeferredOnly == Step("enrich", "cleanup", {"lock"})

(* The cleanup comes before the lock ... *)
Cleanup == CallStop("enrich", "cleanup", "pool", "lock")

EnrichLock == Lock("enrich", "merge")

Merge == Step("enrich", "merge", {"unlock"})

EnrichUnlock == Unlock("enrich", "deferred")

(* ... and once more at the end, because `defer cleanup()' kept the        *)
(* function that `cleanup = nil' means to forget.                          *)
EnrichDeferred == CallStop("enrich", "deferred", "pool", "idle")

EnrichJob ==
  \/ SelectEnrich \/ ReturnStart("pool") \/ FindClients \/ PoolStop
  \/ EnrichCheck \/ Cleanup \/ Merge \/ EnrichUnlock \/ EnrichDeferred
----------------------------------------------------------------------------
Locks == RefreshLock \/ ReprobeLock \/ EnrichLock

Triggers == TriggerRefresh \/ TriggerReprobe \/ TriggerService \/ TriggerEnrich

(* The process dies and starts again, with a snapshot file or without.     *)
Restart ==
  /\ SlotReset
  /\ pc' = [j \in Jobs |-> "idle"]
  /\ refreshMu' = "none"
  /\ published' = FALSE
  /\ cache' \in BOOLEAN

Next ==
  \/ Triggers \/ Locks \/ RefreshJob \/ ReprobeJob \/ ServiceJob \/ EnrichJob
  \/ Restart

Spec == Init /\ [][Next]_vars

(* A goroutine that can run does, a context that is waited on ends, and    *)
(* sync.Mutex hands a lock to a waiter it has kept for too long.           *)
Fairness ==
  /\ WF_vars(RefreshJob) /\ WF_vars(ReprobeJob)
  /\ WF_vars(ServiceJob) /\ WF_vars(EnrichJob)
  /\ SF_vars(RefreshLock) /\ SF_vars(ReprobeLock) /\ SF_vars(EnrichLock)

FairSpec == Spec /\ Fairness

----------------------------------------------------------------------------
TypeOK ==
  /\ SlotTypeOK
  /\ pc \in [Jobs -> Labels]
  /\ refreshMu \in Jobs \cup {"none"}
  /\ published \in BOOLEAN
  /\ cache \in BOOLEAN

(* A job that waits, for the mutex or for the core, has no core: it cannot *)
(* keep the one thing that another job, holding refreshMu, waits for, and  *)
(* a refresh cannot wait for its own gateway.                              *)
NoHoldAndWait ==
  \A c \in Cores :
    LET j == Owner(c)
    IN  pc[j] \in Cores \cup {"lock"} => ~instance[c]

(* A job that has ended has no core and is in no call on one, and when all *)
(* have ended the token is back in the channel.  The exception is a core   *)
(* that a panic of the enrichment job in FindClients has lost: then the    *)
(* token is gone until the process restarts.                               *)
NoCoreLeft ==
  /\ \A c \in Cores :
       pc[Owner(c)] = "idle" => ~instance[c] /\ ~ownsCore[c] /\ phase[c] = "idle"
  /\ (\A j \in Jobs : pc[j] = "idle") => (slot <=> ~lost)

(* Every job that is started ends, so its flag is cleared and it can be    *)
(* started again.                                                          *)
JobsEnd == \A j \in Jobs : pc[j] # "idle" ~> pc[j] = "idle"
=============================================================================
