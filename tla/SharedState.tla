---------------------------- MODULE SharedState ----------------------------
(***************************************************************************)
(* The two values that every job of the pipeline replaces as a whole:      *)
(* Pipeline.cache, the snapshot that is served, and Pipeline.metrics, the  *)
(* snapshot that is scraped.  Both are atomic.Value: a job loads one,      *)
(* changes its copy and stores it, and only refreshMu (where it is held)   *)
(* keeps another job from storing in between.  Each load and each store is *)
(* a step here.                                                            *)
(*                                                                         *)
(* The contents are versions: how many times the results that a field is   *)
(* built from had been produced when it was built.  Sources stands for a   *)
(* fetch with its probes, evidence for the route countries of the quality  *)
(* store, enrichment for the exit-IP caches and services for the service   *)
(* cache.  Left out: a job that ends before it changes anything shared,    *)
(* and panics.                                                             *)
(***************************************************************************)
EXTENDS Integers

CONSTANTS
  NoMetrics,     \* Pipeline.metrics before the first publication
  MaxVersion     \* bound on the versions

ASSUME MaxVersionAssumption == MaxVersion \in Nat

Jobs == {"refresh", "reprobe", "enrich", "service"}
Versions == 0 .. MaxVersion

VARIABLES
  results,     \* the version of the newest results of each kind
  cache,       \* Pipeline.cache
  metrics,     \* Pipeline.metrics
  refreshMu,   \* the holder of Pipeline.refreshMu, or "none"
  pc,          \* pc[job]: the next step of the job
  loaded,      \* loaded[job]: what the job works on
  withheld     \* the last refresh to end published nothing, and no reprobe
               \* rebuilt the snapshot since; history for the properties

vars == <<results, cache, metrics, refreshMu, pc, loaded, withheld>>

Results == [sources : Versions, evidence : Versions, enrichment : Versions,
            services : Versions]
Snapshots == [sources : Versions, evidence : Versions, enrichment : Versions]
MetricsSnapshots == [sources : Versions, enrichment : Versions, services : Versions]

Nothing == [sources |-> 0, evidence |-> 0, enrichment |-> 0]

(* A snapshot restored from its file, and no metrics yet. *)
Init ==
  /\ results = [sources |-> 0, evidence |-> 0, enrichment |-> 0, services |-> 0]
  /\ cache = Nothing
  /\ metrics = NoMetrics
  /\ refreshMu = "none"
  /\ pc = [j \in Jobs |-> "idle"]
  /\ loaded = [j \in Jobs |-> NoMetrics]
  /\ withheld = FALSE

Goto(j, from, to) == pc[j] = from /\ pc' = [pc EXCEPT ![j] = to]
Keep(j, value) == loaded' = [loaded EXCEPT ![j] = value]

Lock(j, from, to) ==
  /\ refreshMu = "none"
  /\ refreshMu' = j
  /\ Goto(j, from, to)
  /\ UNCHANGED <<results, cache, metrics, loaded, withheld>>

Unlock(j, to) ==
  /\ Goto(j, "unlock", to)
  /\ refreshMu' = "none"
  /\ UNCHANGED <<results, cache, metrics, loaded, withheld>>

Load(j, from, to, value) ==
  /\ Goto(j, from, to)
  /\ Keep(j, value)
  /\ UNCHANGED <<results, cache, metrics, refreshMu, withheld>>

StoreCache(j, from, to, value) ==
  /\ Goto(j, from, to)
  /\ cache' = value
  /\ withheld' = (withheld /\ j = "enrich")
  /\ UNCHANGED <<results, metrics, refreshMu, loaded>>

StoreMetrics(j, from, to, value) ==
  /\ Goto(j, from, to)
  /\ metrics' = value
  /\ UNCHANGED <<results, cache, refreshMu, loaded, withheld>>

(* The job produces new results of some kinds. *)
Produce(j, from, to, kinds) ==
  /\ \A kind \in kinds : results[kind] < MaxVersion
  /\ Goto(j, from, to)
  /\ results' = [kind \in DOMAIN results |->
                   IF kind \in kinds THEN results[kind] + 1 ELSE results[kind]]
  /\ UNCHANGED <<cache, metrics, refreshMu, loaded, withheld>>
----------------------------------------------------------------------------
(* Defective variant: the services are left to refreshServiceMetrics.      *)
MetricsWithoutServices(snapshot) ==
  [sources |-> snapshot.sources, enrichment |-> snapshot.enrichment]

(* buildMetricsSnapshot of a snapshot and the service cache of now.        *)
MetricsOf(snapshot) ==
  [ sources |-> snapshot.sources, enrichment |-> snapshot.enrichment,
    services |-> results.services ]

(* CanPublish says no: what the probes found stays in the quality store.   *)
Withhold ==
  /\ Goto("refresh", "read", "unlock")
  /\ withheld' = TRUE
  /\ UNCHANGED <<results, cache, metrics, refreshMu, loaded>>

(* Pipeline.Refresh: fetch, probe and updateRuntime; cachedEnrichmentByIP  *)
(* reads the exit-IP caches; the snapshot is stored; buildMetricsSnapshot  *)
(* reads the service cache; the metrics are stored.                        *)
RefreshJob ==
  \/ /\ results["sources"] < MaxVersion /\ results["evidence"] < MaxVersion
     /\ Lock("refresh", "idle", "apply")
  \/ Produce("refresh", "apply", "read", {"sources", "evidence"})
  \/ Withhold
  \/ Load("refresh", "read", "publish",
          [ sources |-> results.sources, evidence |-> results.evidence,
            enrichment |-> results.enrichment ])
  \/ StoreCache("refresh", "publish", "build", loaded["refresh"])
  \/ Load("refresh", "build", "publishMetrics",
          MetricsOf(loaded["refresh"]))
  \/ StoreMetrics("refresh", "publishMetrics", "unlock", loaded["refresh"])
  \/ Unlock("refresh", "idle")

(* Defective variant: the candidates are read before the lock is taken.    *)
ReprobeStartUnlocked ==
  \/ Load("reprobe", "idle", "lock", cache)
  \/ Lock("reprobe", "lock", "apply")

ReprobeStart ==
  \/ /\ results["evidence"] < MaxVersion
     /\ Lock("reprobe", "idle", "read")
  \/ Load("reprobe", "read", "apply", cache)

(* Pipeline.ReprobeWarpCountries, which rebuilds the snapshot it selected  *)
(* the candidates from with the evidence it found.                         *)
ReprobeJob ==
  \/ ReprobeStart
  \/ Produce("reprobe", "apply", "rebuild", {"evidence"})
  \/ StoreCache("reprobe", "rebuild", "unlock",
                [loaded["reprobe"] EXCEPT !.evidence = results.evidence])
  \/ Unlock("reprobe", "idle")

(* Defective variant: the snapshot the job started from is merged.         *)
EnrichReloadSkipped == Load("enrich", "reload", "merge", loaded["enrich"])

(* refreshCachedEnrichment takes the snapshot of now.                      *)
EnrichReload == Load("enrich", "reload", "merge", cache)

(* Defective variant: the merge does without the lock.                     *)
EnrichLockSkipped ==
  Load("enrich", "lock", "reload", loaded["enrich"])

EnrichLock == Lock("enrich", "lock", "reload")

(* Pipeline.RunEnrichmentChecks: the exit addresses of the snapshot are    *)
(* looked up, then refreshCachedEnrichment merges the caches into the      *)
(* snapshot and refreshEnrichmentMetrics brings the metrics up to date;    *)
(* with nothing to look up, only the latter, and without the lock.         *)
EnrichJob ==
  \/ /\ results["enrichment"] < MaxVersion
     /\ Load("enrich", "idle", "check", cache)
  \/ Produce("enrich", "check", "lock", {"enrichment"})
  \/ EnrichLock
  \/ EnrichReload
  \/ StoreCache("enrich", "merge", "loadMetrics",
                [loaded["enrich"] EXCEPT !.enrichment = results.enrichment])
  \/ metrics = NoMetrics /\ Load("enrich", "loadMetrics", "unlock", NoMetrics)
  \/ metrics # NoMetrics /\ Load("enrich", "loadMetrics", "storeMetrics", metrics)
  \/ StoreMetrics("enrich", "storeMetrics", "unlock",
                  [loaded["enrich"] EXCEPT !.enrichment = cache.enrichment])
  \/ Unlock("enrich", "idle")
  \/ metrics # NoMetrics /\ Load("enrich", "idle", "storeMetricsOnly", metrics)
  \/ StoreMetrics("enrich", "storeMetricsOnly", "idle",
                  [loaded["enrich"] EXCEPT !.enrichment = cache.enrichment])

(* Pipeline.RunServiceChecks, with or without something to check, and      *)
(* refreshServiceMetrics, all without the lock.                            *)
ServiceJob ==
  \/ Produce("service", "idle", "loadMetrics", {"services"})
  \/ metrics = NoMetrics /\ Load("service", "loadMetrics", "idle", NoMetrics)
  \/ metrics # NoMetrics /\ Load("service", "idle", "storeMetrics", metrics)
  \/ metrics # NoMetrics /\ Load("service", "loadMetrics", "storeMetrics", metrics)
  \/ StoreMetrics("service", "storeMetrics", "idle",
                  [loaded["service"] EXCEPT !.services = results.services])

Next == RefreshJob \/ ReprobeJob \/ EnrichJob \/ ServiceJob

Spec == Init /\ [][Next]_vars

----------------------------------------------------------------------------
TypeOK ==
  /\ results \in Results
  /\ cache \in Snapshots
  /\ metrics \in MetricsSnapshots \cup {NoMetrics}
  /\ refreshMu \in Jobs \cup {"none"}
  /\ \A j \in Jobs : loaded[j] \in Snapshots \cup MetricsSnapshots \cup {NoMetrics}

(* The jobs implement the promise: whatever they load, produce and store   *)
(* in between, the snapshot of Pipeline.cache moves forward only, and      *)
(* never ahead of the results.                                             *)
Promise == INSTANCE Published WITH
  Kinds <- DOMAIN Nothing,
  found <- [kind \in DOMAIN Nothing |-> results[kind]],
  served <- cache

KeepsPromise == Promise!Spec

(* No store of a snapshot takes back what an earlier one had published,    *)
(* although each is computed from a copy.                                  *)
CacheNeverRegresses ==
  [][ \A kind \in DOMAIN cache : cache'[kind] >= cache[kind] ]_vars

(* "Refresh and reprobe are serialized to keep runtime and publication     *)
(* state coherent": while no job holds the lock, the served evidence is    *)
(* the evidence of the quality store, unless the last refresh published    *)
(* nothing.                                                                *)
EvidenceIsServed ==
  refreshMu = "none" /\ ~withheld => cache.evidence = results.evidence

(* Once an enrichment job has ended, what it looked up is served, whatever *)
(* refreshes and reprobes ran while it was looking.                        *)
EnrichmentLands == pc["enrich"] = "idle" => cache.enrichment = results.enrichment

(* refreshServiceMetrics "updates only the service availability stats in   *)
(* the existing metrics snapshot", so it never takes the source series of  *)
(* a scrape back to those of an earlier refresh.                           *)
MetricsNeverRegress ==
  [][ metrics # NoMetrics => metrics'.sources >= metrics.sources ]_vars
=============================================================================
