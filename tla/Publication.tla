---------------------------- MODULE Publication ----------------------------
(***************************************************************************)
(* What is published and what survives: internal/pipeline, from the probe  *)
(* results of a refresh to the snapshot that is served, and the two files  *)
(* a restart reads back.                                                   *)
(*                                                                         *)
(* Refresh and ReprobeWarpCountries hold refreshMu from their first read   *)
(* to the save of the country state, so what they do in memory is one      *)
(* step.  The saves are steps of their own: the process may die before     *)
(* each of them, a save may fail, and the snapshot is saved by             *)
(* refreshSubscriptions only after the lock is released, when a reprobe    *)
(* may have started.                                                       *)
(*                                                                         *)
(* A proxy stands for its identity (pipeline.identity).  Left out: the     *)
(* order of the entries, their names, scores and bandwidth, and what       *)
(* enrichment and service checks add to them.                              *)
(***************************************************************************)
EXTENDS Quality, Country, FiniteSets

CONSTANTS
  Proxies,       \* identities
  NoRuntime,     \* Store.Get finds nothing
  NoSnapshot,    \* Pipeline.cache holds nothing, or there is no file
  Exits,         \* the countries, by family, in which an exit may be seen
  Probes,        \* Probes[p]: the probe results of proxy p that occur
  Expiries,      \* whether the context of a refresh may end while it probes
  MaxFailures,   \* bound on the saves that fail
  MaxRestarts    \* bound on the restarts of the process

(* An exit is the country a route was seen in with the family of the exit  *)
(* address; NoExit is an invalid observation.                              *)
NoExit == <<"v4", NoCountry>>

ASSUME ExitsAssumption ==
  NoExit \in Exits /\ Exits \subseteq (Families \X Codes) \cup {NoExit}

(* What one probe of a proxy found: the health samples and the geo answers *)
(* over the direct route ("good" is four samples in five, "some" is any    *)
(* sample or any geo answer), and the exit of each route.                  *)
ProbeResults ==
  { r \in [health : {"good", "some", "none"}, direct : Exits, warp : Exits] :
      r.health = "none" => r.direct = NoExit }

(* A probe that failed, or never ran: both have no metrics and no country. *)
NoAnswer == [health |-> "none", direct |-> NoExit, warp |-> NoExit]

(* The runtime of a proxy (quality.Runtime).                               *)
Runtimes ==
  [ StateData : RuntimeStates, DirectHealthy : BOOLEAN, WarpHealthy : BOOLEAN,
    Countries : RouteCountries ]

ASSUME ProxiesAssumption == IsFiniteSet(Proxies)
ASSUME NoRuntimeAssumption == NoRuntime \notin Runtimes
ASSUME ProbesAssumption ==
  \A p \in Proxies : NoAnswer \in Probes[p] /\ Probes[p] \subseteq ProbeResults
ASSUME BoundsAssumption ==
  Expiries \subseteq BOOLEAN /\ MaxFailures \in Nat /\ MaxRestarts \in Nat

VARIABLES
  runtime,       \* quality.Store: the runtime of each proxy, or NoRuntime
  store,         \* country.StateStore.entries
  countryFile,   \* COUNTRY_STATE_PATH
  cache,         \* Pipeline.cache
  cacheFile,     \* CACHE_STATE_PATH
  refresh,       \* what the refresh still has to save
  reprobe,       \* what the reprobe still has to save
  results,       \* what ProbeAll returned, in the step of a refresh only
  history        \* for the properties

vars ==
  <<runtime, store, countryFile, cache, cacheFile, refresh, reprobe, results, history>>

(* A snapshot: Entries is the function from the listed proxies to their    *)
(* entries [Countries, DirectHealthy, WarpHealthy]; Output lists the       *)
(* direct routes and JSONOutput the WARP routes.                           *)
(*                                                                         *)
(* History:                                                                *)
(*   restarts   how often the process was restarted                        *)
(*   published  the last refresh that applied its observations published   *)
(*              them, and no restart came between that and its saves       *)
(*   expired    the context of the last refresh ended while it was probing *)
(*   unsaved    the files whose last save failed                           *)
(*   failures   how often a save failed                                    *)

Init ==
  /\ runtime = [p \in Proxies |-> NoRuntime]
  /\ store = [p \in Proxies |-> NoCountries]
  /\ countryFile = store
  /\ cache = NoSnapshot
  /\ cacheFile = NoSnapshot
  /\ refresh = "idle"
  /\ reprobe = "idle"
  /\ results = << >>
  /\ history = [restarts |-> 0, published |-> FALSE, expired |-> FALSE,
                unsaved |-> {}, failures |-> 0]
----------------------------------------------------------------------------
(* The refresh.                                                            *)

DirectHealthy(probe) == probe.health # "none"
WarpHealthy(probe) == probe.warp # NoExit

Classified(probe) ==
  CASE probe.health = "good" -> "GOOD"
    [] probe.health # "good" /\ (DirectHealthy(probe) \/ WarpHealthy(probe)) ->
         "PARTIAL"
    [] OTHER -> "BLACKHOLE"

Applied(countries, probe) ==
  Apply(Apply(countries, "direct", probe.direct[1], probe.direct[2]),
        "warp", probe.warp[1], probe.warp[2])

(* updateRuntime: a proxy without a runtime starts HEALTHY, with the       *)
(* evidence of the country store.                                          *)
UpdatedRuntime(p, probe) ==
  LET exists == runtime[p] # NoRuntime
      state == IF exists THEN runtime[p].StateData ELSE NewRuntimeState
      countries == IF exists THEN runtime[p].Countries ELSE store[p]
  IN  [ StateData     |-> Transition(state, Classified(probe)),
        DirectHealthy |-> DirectHealthy(probe),
        WarpHealthy   |-> WarpHealthy(probe),
        Countries     |-> Applied(countries, probe) ]

EntryOf(r) ==
  [ Countries |-> r.Countries, DirectHealthy |-> r.DirectHealthy,
    WarpHealthy |-> r.WarpHealthy ]

Snapshot(entries) ==
  [ Entries    |-> entries,
    Output     |-> {p \in DOMAIN entries : entries[p].DirectHealthy},
    JSONOutput |-> {p \in DOMAIN entries : entries[p].WarpHealthy} ]

(* Defective variant: a proxy that is not probed counts with the flags it  *)
(* has from an earlier refresh.                                            *)
HasReachabilityWitnessKept(probes) ==
  \E p \in Proxies :
    IF p \in DOMAIN probes THEN DirectHealthy(probes[p]) \/ WarpHealthy(probes[p])
    ELSE /\ runtime[p] # NoRuntime
         /\ runtime[p].DirectHealthy \/ runtime[p].WarpHealthy

(* The shared measurement path works if some proxy was reachable.          *)
HasReachabilityWitness(probes) ==
  \E p \in DOMAIN probes : DirectHealthy(probes[p]) \/ WarpHealthy(probes[p])

CanPublish(entryCount) == entryCount # 0

(* outputEntries lists the probed proxies that are not DEAD.               *)
Listed(updated, probes) ==
  {p \in DOMAIN probes : updated[p].StateData.State # "DEAD"}

(* `probes' gives the result of each proxy that a source listed and whose  *)
(* host was resolved.  If the context ended during the probing, some of    *)
(* the results are no answers.                                             *)
Refresh(probes, expired) ==
  LET updated == [p \in Proxies |->
                    IF p \in DOMAIN probes THEN UpdatedRuntime(p, probes[p])
                    ELSE runtime[p]]
      listed == Listed(updated, probes)
      publishes == CanPublish(Cardinality(listed))
  IN  /\ refresh = "idle" /\ reprobe = "idle"
      /\ expired => \E p \in DOMAIN probes : probes[p] = NoAnswer
      /\ IF HasReachabilityWitness(probes)
         THEN /\ runtime' = updated
              /\ store' = [p \in Proxies |->
                             IF p \in DOMAIN probes THEN updated[p].Countries
                             ELSE store[p]]
              /\ IF publishes
                 THEN /\ cache' = Snapshot([p \in listed |-> EntryOf(updated[p])])
                      /\ refresh' = "saveCountries"
                 ELSE UNCHANGED <<cache, refresh>>
              /\ history' = [history EXCEPT !.published = publishes,
                                            !.expired = expired]
         ELSE /\ UNCHANGED <<runtime, store, cache, refresh>>
              /\ history' = [history EXCEPT !.expired = expired]
      /\ results' = probes
      /\ UNCHANGED <<countryFile, cacheFile, reprobe>>
----------------------------------------------------------------------------
(* The reprobe of WARP countries.                                          *)

(* Defective variant: every WARP route is reprobed.                        *)
CandidatesSettledToo ==
  IF cache = NoSnapshot THEN {}
  ELSE {p \in DOMAIN cache.Entries : cache.Entries[p].WarpHealthy}

Candidates ==
  IF cache = NoSnapshot THEN {}
  ELSE {p \in DOMAIN cache.Entries :
          /\ cache.Entries[p].WarpHealthy
          /\ NeedsWarpReprobe(cache.Entries[p].Countries)}

(* Defective variants: the outputs are kept; so are the entries' countries.*)
RebuiltOutputsKept(updated) ==
  [ Entries    |-> [p \in DOMAIN cache.Entries |->
                      IF updated[p] # NoRuntime THEN EntryOf(updated[p])
                      ELSE cache.Entries[p]],
    Output     |-> cache.Output,
    JSONOutput |-> cache.JSONOutput ]

RebuiltCountriesKept(updated) ==
  LET known == {p \in DOMAIN cache.Entries : updated[p] # NoRuntime}
  IN  [ Entries    |-> cache.Entries,
        Output     |-> {p \in known : updated[p].DirectHealthy},
        JSONOutput |-> {p \in known : updated[p].WarpHealthy} ]

(* rebuildCachedCountries: the entries of the snapshot with the runtimes   *)
(* of now.  An entry without a runtime is kept, and not listed.            *)
Rebuilt(updated) ==
  LET known == {p \in DOMAIN cache.Entries : updated[p] # NoRuntime}
  IN  [ Entries    |-> [p \in DOMAIN cache.Entries |->
                          IF p \in known THEN EntryOf(updated[p])
                          ELSE cache.Entries[p]],
        Output     |-> {p \in known : updated[p].DirectHealthy},
        JSONOutput |-> {p \in known : updated[p].WarpHealthy} ]

(* `observed' gives the WARP exit seen for each candidate.  A valid one    *)
(* always changes the evidence, which is dated.                            *)
Reprobe(observed) ==
  LET changed == {p \in Candidates : runtime[p] # NoRuntime /\ observed[p] # NoExit}
      countries(p) == Apply(runtime[p].Countries, "warp",
                            observed[p][1], observed[p][2])
      updated == [p \in Proxies |->
                    IF p \in changed THEN [runtime[p] EXCEPT !.Countries = countries(p)]
                    ELSE runtime[p]]
  IN  /\ reprobe = "idle" /\ refresh # "saveCountries"
      /\ changed # {}
      /\ runtime' = updated
      /\ store' = [p \in Proxies |->
                     IF p \in changed THEN countries(p) ELSE store[p]]
      /\ cache' = Rebuilt(updated)
      /\ reprobe' = "saveCountries"
      /\ results' = << >>
      /\ UNCHANGED <<countryFile, cacheFile, refresh, history>>
----------------------------------------------------------------------------
(* The saves.  Each replaces its file by a rename, or fails and leaves it. *)

Unsaved(file, failed) ==
  /\ failed => history.failures < MaxFailures
  /\ history' = [history EXCEPT
       !.unsaved = IF failed THEN @ \cup {file} ELSE @ \ {file},
       !.failures = IF failed THEN @ + 1 ELSE @]

SaveCountries(failed) ==
  /\ countryFile' = IF failed THEN countryFile ELSE store
  /\ Unsaved("countries", failed)
  /\ results' = << >>

RefreshSaves(failed) ==
  /\ refresh = "saveCountries"
  /\ SaveCountries(failed)
  /\ refresh' = "saveCache"
  /\ UNCHANGED <<runtime, store, cache, cacheFile, reprobe>>

(* SaveCached, outside refreshMu: it saves the snapshot of now.            *)
SaveCached(failed) ==
  /\ refresh = "saveCache"
  /\ cacheFile' = IF failed THEN cacheFile ELSE cache
  /\ Unsaved("cache", failed)
  /\ results' = << >>
  /\ refresh' = "idle"
  /\ UNCHANGED <<runtime, store, countryFile, cache, reprobe>>

(* Defective variant: the reprobe leaves the save to the next refresh.     *)
ReprobeSavesNothing(failed) ==
  /\ reprobe = "saveCountries"
  /\ reprobe' = "idle"
  /\ results' = << >>
  /\ UNCHANGED <<runtime, store, countryFile, cache, cacheFile, refresh, history>>

ReprobeSaves(failed) ==
  /\ reprobe = "saveCountries"
  /\ SaveCountries(failed)
  /\ reprobe' = "idle"
  /\ UNCHANGED <<runtime, store, cache, cacheFile, refresh>>
----------------------------------------------------------------------------
Tick ==
  /\ runtime' = [p \in Proxies |->
                   IF runtime[p] = NoRuntime THEN NoRuntime
                   ELSE [runtime[p] EXCEPT !.StateData = Aged(@)]]
  /\ results' = << >>
  /\ UNCHANGED <<store, countryFile, cache, cacheFile, refresh, reprobe, history>>

(* LoadCountryState and LoadCached; the quality store starts empty.        *)
Restart ==
  /\ history.restarts < MaxRestarts
  /\ runtime' = [p \in Proxies |-> NoRuntime]
  /\ store' = countryFile
  /\ cache' = cacheFile
  /\ refresh' = "idle"
  /\ reprobe' = "idle"
  /\ results' = << >>
  /\ history' = [history EXCEPT
                   !.restarts = @ + 1,
                   !.published = /\ @ /\ refresh = "idle" /\ reprobe = "idle"
                                 /\ history.unsaved = {},
                   !.unsaved = {}]
  /\ UNCHANGED <<countryFile, cacheFile>>

Next ==
  \/ \E probed \in (SUBSET Proxies) \ {{}}, expired \in Expiries :
       \E probes \in [probed -> UNION {Probes[p] : p \in probed}] :
         /\ \A p \in probed : probes[p] \in Probes[p]
         /\ Refresh(probes, expired)
  \/ \E observed \in [Candidates -> Exits] : Reprobe(observed)
  \/ \E failed \in BOOLEAN :
       RefreshSaves(failed) \/ SaveCached(failed) \/ ReprobeSaves(failed)
  \/ Tick
  \/ Restart

Spec == Init /\ [][Next]_vars

----------------------------------------------------------------------------
(* One snapshot, whatever format it is asked for in: the ready-made        *)
(* outputs list exactly the entries that a view rendered from the typed    *)
(* entries would.  A rebuild could break this: it drops an entry without a *)
(* runtime from the outputs and keeps it in Entries.                       *)
SnapshotIsOne ==
  cache # NoSnapshot => cache = Snapshot(cache.Entries)

(* While the last refresh that observed anything was published, what is    *)
(* served is what is known: no listed proxy is DEAD, and each entry has    *)
(* the health and the evidence of its runtime, also after any reprobe.     *)
ServedIsCurrent ==
  cache # NoSnapshot /\ history.published =>
    \A p \in DOMAIN cache.Entries :
      runtime[p] # NoRuntime =>
        /\ runtime[p].StateData.State # "DEAD"
        /\ cache.Entries[p] = EntryOf(runtime[p])

(* When the jobs have done their saves, a restart loses no evidence that   *)
(* was published.                                                          *)
EvidenceIsDurable ==
  /\ history.published /\ "countries" \notin history.unsaved
  /\ refresh # "saveCountries" /\ reprobe = "idle"
  => countryFile = store

(* A reprobe does not save the snapshot, so a restart serves an older one. *)
(* It never opens a filtered view all the same: a route that a view lists  *)
(* from the saved snapshot is one it would list on the saved evidence.     *)
(* The exception is a WARP route that was seen over IPv6 only: views list  *)
(* it while reprobes go on looking for its IPv4, and what they find is not *)
(* in the snapshot.                                                        *)
RestartFailsClosed ==
  /\ cacheFile # NoSnapshot /\ history.published /\ history.unsaved = {}
  /\ refresh = "idle" /\ reprobe = "idle"
  => \A p \in DOMAIN cacheFile.Entries, route \in Routes,
        excluded \in (SUBSET Codes) \ {{}} :
       LET saved == cacheFile.Entries[p].Countries
           reported == route = "direct" \/ saved["warp"]["v4"].Available
       IN  Filter(saved, route, excluded).Include /\ reported
             => Filter(countryFile[p], route, excluded).Include

(* A proxy dies only by an answer that it did not give to this refresh,    *)
(* and only if another proxy gave one: a failure of the whole measurement  *)
(* path, which leaves every result of the refresh empty, condemns nobody,  *)
(* whatever earlier refreshes have found.                                  *)
Dies(p) ==
  /\ runtime[p] # NoRuntime /\ runtime'[p] # NoRuntime
  /\ runtime[p].StateData.State # "DEAD"
  /\ runtime'[p].StateData.State = "DEAD"

DeathIsWitnessed ==
  \A p \in Proxies : Dies(p) =>
    /\ p \in DOMAIN results' /\ Classified(results'[p]) = "BLACKHOLE"
    /\ \E q \in DOMAIN results' : DirectHealthy(results'[q]) \/ WarpHealthy(results'[q])

DeathNeedsWitness == [][DeathIsWitnessed]_vars

(* "Publication is also rejected when a newly built output is empty while  *)
(* the previous output is non-empty."                                      *)
PopulatedOutputStays ==
  [][ history'.restarts = history.restarts /\ cache # NoSnapshot =>
        (cache.Output # {} => cache'.Output # {}) ]_vars

(* A refresh whose context ended before the probing was complete is a      *)
(* systemic failure: "do not apply BLACKHOLE transitions".                 *)
ExpiredAppliesNothing ==
  [][ ~history.expired /\ history'.expired => UNCHANGED <<runtime, cache>> ]_vars
=============================================================================
