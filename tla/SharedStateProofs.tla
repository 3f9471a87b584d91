------------------------- MODULE SharedStateProofs -------------------------
(***************************************************************************)
(* The served snapshot under all four jobs, for every bound on the         *)
(* versions: nothing that was published is taken back, what was looked up  *)
(* lands, and the jobs together implement Published.                       *)
(*                                                                         *)
(* The inductive invariant says who has refreshMu at which step (LockHeld) *)
(* and what the copies of the jobs are while they have it: the reprobe and *)
(* the merge of the enrichment work on the snapshot that is served         *)
(* (CopyIsServed), the refresh on one that is as new in every kind         *)
(* (RefreshCopy).  EvidenceSynced and EnrichmentSynced name the steps      *)
(* between the production of results and their publication, at which the   *)
(* snapshot may lag behind them.                                           *)
(***************************************************************************)
EXTENDS SharedState, TLAPS

Labels ==
  { "idle", "apply", "read", "publish", "build", "publishMetrics", "unlock",
    "rebuild", "check", "lock", "reload", "merge", "loadMetrics",
    "storeMetrics", "storeMetricsOnly" }

(* The steps of the enrichment job at which it has the lock.               *)
Merging == {"reload", "merge", "loadMetrics", "storeMetrics", "unlock"}

Contents == Snapshots \cup MetricsSnapshots \cup {NoMetrics}

Typed ==
  /\ results \in Results
  /\ cache \in Snapshots
  /\ metrics \in MetricsSnapshots \cup {NoMetrics}
  /\ refreshMu \in Jobs \cup {"none"}
  /\ withheld \in BOOLEAN
  /\ pc \in [Jobs -> Labels]
  /\ loaded \in [Jobs -> Contents]

StepsOK ==
  /\ pc["refresh"] \in {"idle", "apply", "read", "publish", "build",
                        "publishMetrics", "unlock"}
  /\ pc["reprobe"] \in {"idle", "read", "apply", "rebuild", "unlock"}
  /\ pc["enrich"] \in Merging \cup {"idle", "check", "lock", "storeMetricsOnly"}
  /\ pc["service"] \in {"idle", "loadMetrics", "storeMetrics"}

(* What a job has loaded, by what it is about to do with it.               *)
LoadedOK ==
  /\ pc["refresh"] = "build" => loaded["refresh"] \in Snapshots
  /\ pc["refresh"] = "publishMetrics" => loaded["refresh"] \in MetricsSnapshots
  /\ pc["enrich"] \in {"storeMetrics", "storeMetricsOnly"} =>
       loaded["enrich"] \in MetricsSnapshots
  /\ pc["service"] = "storeMetrics" => loaded["service"] \in MetricsSnapshots

LockHeld ==
  /\ refreshMu = "refresh" <=> pc["refresh"] # "idle"
  /\ refreshMu = "reprobe" <=> pc["reprobe"] # "idle"
  /\ refreshMu = "enrich" <=> pc["enrich"] \in Merging
  /\ refreshMu # "service"

CopyIsServed ==
  /\ pc["reprobe"] \in {"apply", "rebuild"} => loaded["reprobe"] = cache
  /\ pc["enrich"] = "merge" => loaded["enrich"] = cache

RefreshCopy ==
  pc["refresh"] = "publish" =>
    /\ loaded["refresh"] \in Snapshots
    /\ loaded["refresh"].sources = results.sources
    /\ loaded["refresh"].evidence = results.evidence
    /\ cache.enrichment <= loaded["refresh"].enrichment
    /\ loaded["refresh"].enrichment <= results.enrichment
    /\ pc["enrich"] # "lock" => loaded["refresh"].enrichment = results.enrichment

NotAhead ==
  /\ cache.sources <= results.sources
  /\ cache.evidence <= results.evidence
  /\ cache.enrichment <= results.enrichment

EvidenceSynced ==
  \/ pc["refresh"] \in {"read", "publish"}
  \/ pc["reprobe"] = "rebuild"
  \/ withheld
  \/ cache.evidence = results.evidence

EnrichmentSynced ==
  \/ pc["enrich"] \in {"lock", "reload", "merge"}
  \/ cache.enrichment = results.enrichment

SharedInv ==
  /\ Typed
  /\ StepsOK
  /\ LoadedOK
  /\ LockHeld
  /\ CopyIsServed
  /\ RefreshCopy
  /\ NotAhead
  /\ EvidenceSynced
  /\ EnrichmentSynced

(* Before any job has run, the invariant holds.                            *)
LEMMA InitShared == Init => SharedInv
<1> SUFFICES ASSUME Init PROVE SharedInv
  OBVIOUS
<1>1. 0 \in Versions
  BY MaxVersionAssumption DEF Versions
<1>2. results \in Results /\ cache \in Snapshots
  BY <1>1 DEF Init, Results, Snapshots, Nothing
<1>3. /\ cache.sources = 0 /\ cache.evidence = 0 /\ cache.enrichment = 0
      /\ results.sources = 0 /\ results.evidence = 0 /\ results.enrichment = 0
  BY DEF Init, Nothing
<1>4. Typed
  BY <1>2 DEF Init, Typed, Contents, Labels
<1>5. StepsOK /\ LoadedOK /\ LockHeld /\ CopyIsServed /\ RefreshCopy
  BY DEF Init, StepsOK, LoadedOK, LockHeld, CopyIsServed, RefreshCopy, Merging, Jobs
<1>6. NotAhead /\ EvidenceSynced /\ EnrichmentSynced
  BY <1>3 DEF NotAhead, EvidenceSynced, EnrichmentSynced
<1> QED
  BY <1>4, <1>5, <1>6 DEF SharedInv

(* A job that moves on leaves the places of the others alone.              *)
LEMMA GotoMoves ==
  ASSUME NEW j \in Jobs, NEW from, NEW to \in Labels, pc \in [Jobs -> Labels],
         Goto(j, from, to)
  PROVE  /\ pc' \in [Jobs -> Labels]
         /\ pc[j] = from
         /\ pc'[j] = to
         /\ \A k \in Jobs \ {j} : pc'[k] = pc[k]
  BY DEF Goto

(* No load or store of the refresh breaks the invariant.                   *)
LEMMA RefreshKeeps ==
  ASSUME SharedInv, RefreshJob
  PROVE  SharedInv'
<1> USE DEF SharedInv, Typed, StepsOK, LoadedOK, LockHeld, CopyIsServed,
      RefreshCopy, NotAhead, EvidenceSynced, EnrichmentSynced, Jobs, Merging,
      Labels
<1>1. CASE Lock("refresh", "idle", "apply")
  BY <1>1 DEF Lock, Goto
<1>2. CASE Produce("refresh", "apply", "read", {"sources", "evidence"})
  <2>1. /\ results' \in Results
        /\ results'.sources = results.sources + 1
        /\ results'.evidence = results.evidence + 1
        /\ results'.enrichment = results.enrichment
    BY <1>2, MaxVersionAssumption DEF Produce, Results, Versions
  <2>2. results \in Results /\ cache \in Snapshots
    OBVIOUS
  <2> QED
    BY <1>2, <2>1, <2>2 DEF Produce, Goto, Results, Snapshots, Versions
<1>3. CASE Withhold
  BY <1>3 DEF Withhold, Goto
<1>4. CASE Load("refresh", "read", "publish",
          [ sources |-> results.sources, evidence |-> results.evidence,
            enrichment |-> results.enrichment ])
  <2> DEFINE new == [ sources |-> results.sources, evidence |-> results.evidence,
                      enrichment |-> results.enrichment ]
  <2>1. /\ new \in Snapshots
        /\ new.sources = results.sources
        /\ new.evidence = results.evidence
        /\ new.enrichment = results.enrichment
    BY DEF Snapshots, Results
  <2>2. results.enrichment \in Int
    BY DEF Results, Versions
  <2>3. Load("refresh", "read", "publish", new)
    BY <1>4
  <2> HIDE DEF new
  <2>4. loaded' \in [Jobs -> Contents] /\ loaded'["refresh"] = new
    BY <2>1, <2>3 DEF Load, Keep, Contents
  <2>5. RefreshCopy'
    BY <2>1, <2>2, <2>3, <2>4 DEF Load, Goto
  <2> QED
    BY <2>3, <2>4, <2>5 DEF Load, Goto, Keep
<1>5. CASE StoreCache("refresh", "publish", "build", loaded["refresh"])
  <2>1. cache' = loaded["refresh"] /\ cache' \in Snapshots
    BY <1>5 DEF StoreCache, Goto
  <2>2. /\ results' = results
        /\ cache'.sources = results.sources
        /\ cache'.evidence = results.evidence
        /\ cache'.enrichment <= results.enrichment
        /\ pc["enrich"] # "lock" => cache'.enrichment = results.enrichment
    BY <1>5, <2>1 DEF StoreCache, Goto
  <2>3. results.sources \in Int /\ results.evidence \in Int
    BY DEF Results, Versions
  <2>4. NotAhead' /\ EvidenceSynced'
    BY <2>2, <2>3
  <2>5. EnrichmentSynced'
    BY <1>5, <2>2 DEF StoreCache, Goto
  <2> QED
    BY <1>5, <2>1, <2>4, <2>5 DEF StoreCache, Goto
<1>6. CASE Load("refresh", "build", "publishMetrics", MetricsOf(loaded["refresh"]))
  BY <1>6 DEF Load, Goto, Keep, MetricsOf, Contents, MetricsSnapshots, Snapshots, Results
<1>7. CASE StoreMetrics("refresh", "publishMetrics", "unlock", loaded["refresh"])
  BY <1>7 DEF StoreMetrics, Goto
<1>8. CASE Unlock("refresh", "idle")
  BY <1>8 DEF Unlock, Goto
<1> QED
  BY <1>1, <1>2, <1>3, <1>4, <1>5, <1>6, <1>7, <1>8 DEF RefreshJob

(* A copy of the served snapshot with one kind brought up to date.         *)
LEMMA CopyWith ==
  ASSUME SharedInv
  PROVE  /\ LET s == [cache EXCEPT !.evidence = results.evidence]
            IN  /\ s \in Snapshots
                /\ s.sources = cache.sources
                /\ s.evidence = results.evidence
                /\ s.enrichment = cache.enrichment
         /\ LET s == [cache EXCEPT !.enrichment = results.enrichment]
            IN  /\ s \in Snapshots
                /\ s.sources = cache.sources
                /\ s.evidence = cache.evidence
                /\ s.enrichment = results.enrichment
         /\ \A k \in {"sources", "evidence", "enrichment"} : results[k] \in Int
         /\ \A k \in {"sources", "evidence", "enrichment"} : cache[k] \in Int
  BY DEF SharedInv, Typed, Snapshots, Results, Versions

(* No load or store of the country reprobe breaks the invariant.           *)
LEMMA ReprobeKeeps ==
  ASSUME SharedInv, ReprobeJob
  PROVE  SharedInv'
<1> USE DEF SharedInv, Typed, StepsOK, LoadedOK, LockHeld, CopyIsServed,
      RefreshCopy, NotAhead, EvidenceSynced, EnrichmentSynced, Jobs, Merging,
      Labels
<1>1. CASE Lock("reprobe", "idle", "read")
  BY <1>1 DEF Lock, Goto
<1>2. CASE Load("reprobe", "read", "apply", cache)
  BY <1>2 DEF Load, Goto, Keep, Contents
<1>3. CASE Produce("reprobe", "apply", "rebuild", {"evidence"})
  <2>1. /\ results' \in Results
        /\ results'.sources = results.sources
        /\ results'.evidence = results.evidence + 1
        /\ results'.enrichment = results.enrichment
    BY <1>3, MaxVersionAssumption DEF Produce, Results, Versions
  <2>2. cache.evidence \in Int /\ results.evidence \in Int
    BY CopyWith
  <2> QED
    BY <1>3, <2>1, <2>2 DEF Produce, Goto
<1>4. CASE StoreCache("reprobe", "rebuild", "unlock",
                [loaded["reprobe"] EXCEPT !.evidence = results.evidence])
  <2>1. cache' = [cache EXCEPT !.evidence = results.evidence] /\ results' = results
    BY <1>4 DEF StoreCache, Goto
  <2>2. /\ cache' \in Snapshots
        /\ cache'.sources = cache.sources
        /\ cache'.evidence = results.evidence
        /\ cache'.enrichment = cache.enrichment
        /\ results.evidence \in Int
    BY <2>1, CopyWith
  <2>3. NotAhead' /\ EvidenceSynced'
    BY <2>1, <2>2
  <2> QED
    BY <1>4, <2>1, <2>2, <2>3 DEF StoreCache, Goto
<1>5. CASE Unlock("reprobe", "idle")
  BY <1>5 DEF Unlock, Goto
<1> QED
  BY <1>1, <1>2, <1>3, <1>4, <1>5 DEF ReprobeJob, ReprobeStart

(* No load or store of the enrichment job breaks the invariant.            *)
LEMMA EnrichKeeps ==
  ASSUME SharedInv, EnrichJob
  PROVE  SharedInv'
<1> USE DEF SharedInv, Typed, StepsOK, LoadedOK, LockHeld, CopyIsServed,
      RefreshCopy, NotAhead, EvidenceSynced, EnrichmentSynced, Jobs, Merging,
      Labels
<1>1. CASE Load("enrich", "idle", "check", cache)
  BY <1>1 DEF Load, Goto, Keep, Contents
<1>2. CASE Produce("enrich", "check", "lock", {"enrichment"})
  <2>1. /\ results' \in Results
        /\ results'.sources = results.sources
        /\ results'.evidence = results.evidence
        /\ results'.enrichment = results.enrichment + 1
    BY <1>2, MaxVersionAssumption DEF Produce, Results, Versions
  <2>2. cache.enrichment \in Int /\ results.enrichment \in Int
    BY CopyWith
  <2>3. pc["refresh"] = "publish" => loaded["refresh"].enrichment \in Int
    BY DEF Snapshots, Versions
  <2> QED
    BY <1>2, <2>1, <2>2, <2>3 DEF Produce, Goto
<1>3. CASE Lock("enrich", "lock", "reload")
  BY <1>3 DEF Lock, Goto
<1>4. CASE Load("enrich", "reload", "merge", cache)
  BY <1>4 DEF Load, Goto, Keep, Contents
<1>5. CASE StoreCache("enrich", "merge", "loadMetrics",
                [loaded["enrich"] EXCEPT !.enrichment = results.enrichment])
  <2>1. cache' = [cache EXCEPT !.enrichment = results.enrichment] /\ results' = results
    BY <1>5 DEF StoreCache, Goto
  <2>2. /\ cache' \in Snapshots
        /\ cache'.sources = cache.sources
        /\ cache'.evidence = cache.evidence
        /\ cache'.enrichment = results.enrichment
        /\ results.enrichment \in Int
    BY <2>1, CopyWith
  <2>3. NotAhead' /\ EnrichmentSynced'
    BY <2>1, <2>2
  <2>4. withheld' = withheld
    BY <1>5 DEF StoreCache
  <2>5. EvidenceSynced'
    BY <1>5, <2>1, <2>2, <2>4 DEF StoreCache, Goto
  <2> QED
    BY <1>5, <2>1, <2>2, <2>3, <2>4, <2>5 DEF StoreCache, Goto
<1>6. CASE \/ Load("enrich", "loadMetrics", "unlock", NoMetrics)
           \/ metrics # NoMetrics /\ Load("enrich", "loadMetrics", "storeMetrics", metrics)
           \/ metrics # NoMetrics /\ Load("enrich", "idle", "storeMetricsOnly", metrics)
  BY <1>6 DEF Load, Goto, Keep, Contents
<1>7. CASE \/ StoreMetrics("enrich", "storeMetrics", "unlock",
                  [loaded["enrich"] EXCEPT !.enrichment = cache.enrichment])
           \/ StoreMetrics("enrich", "storeMetricsOnly", "idle",
                  [loaded["enrich"] EXCEPT !.enrichment = cache.enrichment])
  <2>1. /\ metrics' = [loaded["enrich"] EXCEPT !.enrichment = cache.enrichment]
        /\ loaded["enrich"] \in MetricsSnapshots
    BY <1>7 DEF StoreMetrics, Goto
  <2>2. metrics' \in MetricsSnapshots
    BY <2>1 DEF MetricsSnapshots, Snapshots
  <2> QED
    BY <1>7, <2>2 DEF StoreMetrics, Goto
<1>8. CASE Unlock("enrich", "idle")
  BY <1>8 DEF Unlock, Goto
<1> QED
  BY <1>1, <1>2, <1>3, <1>4, <1>5, <1>6, <1>7, <1>8
  DEF EnrichJob, EnrichLock, EnrichReload

(* No load or store of the service checks breaks the invariant.            *)
LEMMA ServiceKeeps ==
  ASSUME SharedInv, ServiceJob
  PROVE  SharedInv'
<1> USE DEF SharedInv, Typed, StepsOK, LoadedOK, LockHeld, CopyIsServed,
      RefreshCopy, NotAhead, EvidenceSynced, EnrichmentSynced, Jobs, Merging,
      Labels
<1>1. CASE Produce("service", "idle", "loadMetrics", {"services"})
  <2>1. /\ results' \in Results
        /\ results'.sources = results.sources
        /\ results'.evidence = results.evidence
        /\ results'.enrichment = results.enrichment
    BY <1>1, MaxVersionAssumption DEF Produce, Results, Versions
  <2> QED
    BY <1>1, <2>1 DEF Produce, Goto
<1>2. CASE \/ Load("service", "loadMetrics", "idle", NoMetrics)
           \/ metrics # NoMetrics /\ Load("service", "idle", "storeMetrics", metrics)
           \/ metrics # NoMetrics /\ Load("service", "loadMetrics", "storeMetrics", metrics)
  BY <1>2 DEF Load, Goto, Keep, Contents
<1>3. CASE StoreMetrics("service", "storeMetrics", "idle",
                  [loaded["service"] EXCEPT !.services = results.services])
  <2>1. metrics' = [loaded["service"] EXCEPT !.services = results.services]
    BY <1>3 DEF StoreMetrics
  <2>2. loaded["service"] \in MetricsSnapshots /\ results \in Results
    BY <1>3 DEF StoreMetrics, Goto
  <2>3. metrics' \in MetricsSnapshots
    BY <2>1, <2>2 DEF MetricsSnapshots, Results
  <2> QED
    BY <1>3, <2>3 DEF StoreMetrics, Goto
<1> QED
  BY <1>1, <1>2, <1>3 DEF ServiceJob

(* Every step of any of the four jobs keeps the invariant.                 *)
LEMMA NextShared == SharedInv /\ [Next]_vars => SharedInv'
<1>1. ASSUME SharedInv, UNCHANGED vars PROVE SharedInv'
  BY <1>1
  DEF vars, SharedInv, Typed, StepsOK, LoadedOK, LockHeld, CopyIsServed,
      RefreshCopy, NotAhead, EvidenceSynced, EnrichmentSynced
<1> QED
  BY <1>1, RefreshKeeps, ReprobeKeeps, EnrichKeeps, ServiceKeeps DEF Next

(* The invariant of locks, copies and versions holds in every state.       *)
THEOREM SharedInvariant == Spec => []SharedInv
<1>1. SharedInv /\ [Next]_vars => SharedInv'
  BY NextShared
<1> QED
  BY InitShared, <1>1, PTL DEF Spec

(* The shared values keep their type, whatever the bound on the versions.  *)
THEOREM SharedTypeCorrect == Spec => []TypeOK
<1>1. SharedInv => TypeOK
  BY DEF SharedInv, Typed, TypeOK, Contents
<1> QED
  BY <1>1, SharedInvariant, PTL

(* While nobody holds refreshMu, the served evidence is that of the        *)
(* quality store, unless the last refresh withheld its snapshot.           *)
THEOREM EvidenceIsAlwaysServed == Spec => []EvidenceIsServed
<1>1. SharedInv => EvidenceIsServed
  BY DEF SharedInv, LockHeld, EvidenceSynced, EvidenceIsServed
<1> QED
  BY <1>1, SharedInvariant, PTL

(* What an enrichment job looked up is served once the job has ended.      *)
THEOREM EnrichmentAlwaysLands == Spec => []EnrichmentLands
<1>1. SharedInv => EnrichmentLands
  BY DEF SharedInv, EnrichmentSynced, EnrichmentLands
<1> QED
  BY <1>1, SharedInvariant, PTL

----------------------------------------------------------------------------
(* The refinement.                                                         *)

Kinds == DOMAIN Nothing

(* The kinds of results that Published tells apart.                        *)
LEMMA KindsAre == Kinds = {"sources", "evidence", "enrichment"}
  BY DEF Kinds, Nothing

(* What a step does to the served snapshot and the results: it leaves both *)
(* alone, or has new results, or serves a newer snapshot.                  *)
StaysPut == UNCHANGED <<results, cache>>

HasFound ==
  /\ UNCHANGED cache
  /\ \A kind \in Kinds : results'[kind] \in {results[kind], results[kind] + 1}

HasServed ==
  /\ UNCHANGED results
  /\ DOMAIN cache' = Kinds
  /\ \A kind \in Kinds : cache[kind] <= cache'[kind] /\ cache'[kind] <= results[kind]

(* A step that produces results is a step Found of Published.              *)
LEMMA ProducedIsFound ==
  ASSUME NEW j, NEW from, NEW to, NEW kinds, results \in Results,
         Produce(j, from, to, kinds)
  PROVE  HasFound
  BY KindsAre DEF HasFound, Produce, Results

(* The refresh serves results that are as new or newer.                    *)
LEMMA RefreshForward ==
  ASSUME SharedInv, StoreCache("refresh", "publish", "build", loaded["refresh"])
  PROVE  HasServed
<1>1. results' = results /\ cache' = loaded["refresh"] /\ loaded["refresh"] \in Snapshots
  BY DEF SharedInv, RefreshCopy, StoreCache, Goto
<1>2. /\ cache'.sources = results.sources
      /\ cache'.evidence = results.evidence
      /\ cache.enrichment <= cache'.enrichment
      /\ cache'.enrichment <= results.enrichment
  BY <1>1 DEF SharedInv, RefreshCopy, StoreCache, Goto
<1>3. DOMAIN cache' = Kinds
  BY <1>1, KindsAre DEF Snapshots
<1> QED
  BY <1>1, <1>2, <1>3, KindsAre, CopyWith DEF HasServed, SharedInv, NotAhead

(* So does the country reprobe.                                            *)
LEMMA ReprobeForward ==
  ASSUME SharedInv,
         StoreCache("reprobe", "rebuild", "unlock",
                    [loaded["reprobe"] EXCEPT !.evidence = results.evidence])
  PROVE  HasServed
<1>1. /\ results' = results
      /\ cache' = [cache EXCEPT !.evidence = results.evidence]
  BY DEF SharedInv, CopyIsServed, StoreCache, Goto
<1>2. /\ cache' \in Snapshots
      /\ cache'.sources = cache.sources
      /\ cache'.evidence = results.evidence
      /\ cache'.enrichment = cache.enrichment
  BY <1>1, CopyWith
<1>3. DOMAIN cache' = Kinds
  BY <1>2, KindsAre DEF Snapshots
<1> QED
  BY <1>1, <1>2, <1>3, KindsAre, CopyWith DEF HasServed, SharedInv, NotAhead

(* So does the enrichment job.                                             *)
LEMMA EnrichForward ==
  ASSUME SharedInv,
         StoreCache("enrich", "merge", "loadMetrics",
                    [loaded["enrich"] EXCEPT !.enrichment = results.enrichment])
  PROVE  HasServed
<1>1. /\ results' = results
      /\ cache' = [cache EXCEPT !.enrichment = results.enrichment]
  BY DEF SharedInv, CopyIsServed, StoreCache, Goto
<1>2. /\ cache' \in Snapshots
      /\ cache'.sources = cache.sources
      /\ cache'.evidence = cache.evidence
      /\ cache'.enrichment = results.enrichment
  BY <1>1, CopyWith
<1>3. DOMAIN cache' = Kinds
  BY <1>2, KindsAre DEF Snapshots
<1> QED
  BY <1>1, <1>2, <1>3, KindsAre, CopyWith DEF HasServed, SharedInv, NotAhead

(* No step of any job takes back what is served.                           *)
LEMMA StepForward ==
  ASSUME SharedInv, [Next]_vars
  PROVE  StaysPut \/ HasFound \/ HasServed
<1> USE DEF StaysPut
<1>1. CASE UNCHANGED vars
  BY <1>1 DEF vars
<1>2. CASE RefreshJob
  BY <1>2, ProducedIsFound, RefreshForward
  DEF RefreshJob, Lock, Unlock, Load, StoreMetrics, Withhold, SharedInv, Typed
<1>3. CASE ReprobeJob
  BY <1>3, ProducedIsFound, ReprobeForward
  DEF ReprobeJob, ReprobeStart, Lock, Unlock, Load, SharedInv, Typed
<1>4. CASE EnrichJob
  BY <1>4, ProducedIsFound, EnrichForward
  DEF EnrichJob, EnrichLock, EnrichReload, Lock, Unlock, Load, StoreMetrics,
      SharedInv, Typed
<1>5. CASE ServiceJob
  BY <1>5, ProducedIsFound
  DEF ServiceJob, Load, StoreMetrics, SharedInv, Typed
<1> QED
  BY <1>1, <1>2, <1>3, <1>4, <1>5 DEF Next

(* No job takes back what another one published.                           *)
THEOREM CacheMovesForward == Spec => CacheNeverRegresses
<1>1. SharedInv /\ [Next]_vars
        => [\A kind \in DOMAIN cache : cache'[kind] >= cache[kind]]_vars
  <2> SUFFICES ASSUME SharedInv, [Next]_vars, SharedInv',
                      NEW kind \in DOMAIN cache
               PROVE  cache'[kind] >= cache[kind]
    BY NextShared
  <2>1. kind \in Kinds
    BY KindsAre DEF SharedInv, Typed, Snapshots
  <2>2. cache[kind] \in Int
    BY <2>1, KindsAre, CopyWith
  <2>3. cache'[kind] \in Int
    BY <2>1, KindsAre DEF SharedInv, Typed, Snapshots, Versions
  <2> QED
    BY <2>1, <2>2, <2>3, StepForward DEF StaysPut, HasFound, HasServed
<1> QED
  BY <1>1, SharedInvariant, PTL DEF Spec, CacheNeverRegresses

(* The four jobs, with their copies and their lock, implement Published:   *)
(* new results appear, and the served snapshot moves forward to them.      *)
THEOREM JobsKeepThePromise == Spec => KeepsPromise
<1>1. Init => Promise!Init
  BY DEF Init, Promise!Init, Nothing
<1>2. SharedInv /\ [Next]_vars => [Promise!Next]_(Promise!vars)
  <2> SUFFICES ASSUME SharedInv, [Next]_vars
               PROVE  [Promise!Next]_(Promise!vars)
    OBVIOUS
  <2>1. CASE StaysPut
    BY <2>1 DEF StaysPut, Promise!vars
  <2>2. CASE HasFound
    BY <2>2 DEF HasFound, Kinds, Promise!Next, Promise!Find
  <2>3. CASE HasServed
    BY <2>3 DEF HasServed, Kinds, Promise!Next, Promise!Serve
  <2> QED
    BY <2>1, <2>2, <2>3, StepForward
<1> QED
  BY <1>1, <1>2, SharedInvariant, PTL DEF Spec, KeepsPromise, Promise!Spec
=============================================================================
