------------------------- MODULE PublicationProofs -------------------------
(***************************************************************************)
(* The properties of Publication, proved for every set of proxies, codes   *)
(* and probe results, any number of restarts and of failing saves.         *)
(*                                                                         *)
(* PubInv adds to the properties what ties the snapshots and the store to  *)
(* the runtimes: a snapshot knows all of its entries or none of them       *)
(* (EntriesKnown), which is what keeps a rebuild from dropping one, and a  *)
(* saved snapshot differs from the evidence only on routes that still      *)
(* wanted a reprobe when it was saved (SavedBehind).                       *)
(***************************************************************************)
EXTENDS Publication, FiniteSetTheorems, TLAPS

Histories ==
  [ restarts : Nat, published : BOOLEAN, expired : BOOLEAN,
    unsaved : SUBSET {"countries", "cache"}, failures : Nat ]

Typed ==
  /\ runtime \in [Proxies -> Runtimes \cup {NoRuntime}]
  /\ store \in [Proxies -> RouteCountries]
  /\ countryFile \in [Proxies -> RouteCountries]
  /\ refresh \in {"idle", "saveCountries", "saveCache"}
  /\ reprobe \in {"idle", "saveCountries"}
  /\ history \in Histories

(* Only DEGRADED and RECOVERING carry a good count.                        *)
GoodsCleared ==
  \A p \in Proxies :
    runtime[p] # NoRuntime /\ runtime[p].StateData.State \in {"HEALTHY", "DEAD"}
    => runtime[p].StateData.ConsecutiveGood = 0

(* The outputs of a snapshot are those of its entries.                     *)
Consistent(snapshot) ==
  snapshot # NoSnapshot =>
    snapshot = Snapshot(snapshot.Entries) /\ DOMAIN snapshot.Entries \subseteq Proxies

Known(p) == runtime[p] # NoRuntime

(* The country store has the evidence of every runtime.                    *)
StoreFollows ==
  \A p \in Proxies : Known(p) => store[p] = runtime[p].Countries

(* Once a runtime is known since the start, every entry has one.           *)
EntriesKnown ==
  cache # NoSnapshot /\ (\E p \in Proxies : Known(p)) =>
    \A p \in DOMAIN cache.Entries : Known(p)

(* A refresh with something to save has published it.                      *)
PendingIsPublished ==
  refresh # "idle" => history.published /\ \E p \in Proxies : Known(p)

(* The saved evidence is that of now, or a WARP route wanted a reprobe.    *)
Behind(saved, now) ==
  \/ saved = now
  \/ /\ saved \in RouteCountries /\ NeedsWarpReprobe(saved)
     /\ saved["direct"] = now["direct"]

SavedBehind ==
  /\ cacheFile # NoSnapshot /\ history.published
  /\ "cache" \notin history.unsaved /\ refresh = "idle"
  => \A p \in DOMAIN cacheFile.Entries :
       Behind(cacheFile.Entries[p].Countries, store[p])

PubInv ==
  /\ Typed
  /\ GoodsCleared
  /\ Consistent(cache)
  /\ Consistent(cacheFile)
  /\ StoreFollows
  /\ EntriesKnown
  /\ PendingIsPublished
  /\ ServedIsCurrent
  /\ EvidenceIsDurable
  /\ SavedBehind

----------------------------------------------------------------------------
(* A transition of the table keeps the runtime state within its type, for  *)
(* states whose good count is the one the table leaves there.              *)
LEMMA TransitionType ==
  ASSUME NEW r \in RuntimeStates, NEW obs \in Observations,
         r.State \in {"HEALTHY", "DEAD"} => r.ConsecutiveGood = 0
  PROVE  Transition(r, obs) \in RuntimeStates
<1> USE DeadCooldownAssumption, CountCapAssumption
    DEF RuntimeStates, States, Observations, Bump, StateData
<1>1. CASE r.State = "HEALTHY"
  BY <1>1 DEF Transition, OnHealthy
<1>2. CASE r.State = "DEGRADED"
  BY <1>2 DEF Transition, OnDegraded
<1>3. CASE r.State = "DEAD"
  BY <1>3 DEF Transition, OnDead
<1>4. CASE r.State = "RECOVERING"
  BY <1>4 DEF Transition, OnRecovering
<1>5. QED
  BY <1>1, <1>2, <1>3, <1>4

(* The states that a transition enters with a good count of zero keep it.  *)
LEMMA TransitionClearsGoods ==
  ASSUME NEW r \in RuntimeStates, NEW obs \in Observations,
         r.State \in {"HEALTHY", "DEAD"} => r.ConsecutiveGood = 0,
         Transition(r, obs).State \in {"HEALTHY", "DEAD"}
  PROVE  Transition(r, obs).ConsecutiveGood = 0
<1> USE DEF RuntimeStates, States, Observations, StateData
<1>1. CASE r.State = "HEALTHY"
  BY <1>1 DEF Transition, OnHealthy
<1>2. CASE r.State = "DEGRADED"
  BY <1>2 DEF Transition, OnDegraded
<1>3. CASE r.State = "DEAD"
  BY <1>3 DEF Transition, OnDead
<1>4. CASE r.State = "RECOVERING"
  BY <1>4 DEF Transition, OnRecovering
<1>5. QED
  BY <1>1, <1>2, <1>3, <1>4

(* A proxy that was not there before never starts DEAD.                    *)
LEMMA NewIsAlive ==
  /\ NewRuntimeState \in RuntimeStates
  /\ NewRuntimeState.State = "HEALTHY" /\ NewRuntimeState.ConsecutiveGood = 0
  /\ \A obs \in Observations : Transition(NewRuntimeState, obs).State # "DEAD"
  BY DeadCooldownAssumption, CountCapAssumption
  DEF NewRuntimeState, RuntimeStates, States, Observations, Transition,
      OnHealthy, StateData

(* The passing of time changes the age of a death and nothing else.        *)
LEMMA AgedType ==
  ASSUME NEW r \in RuntimeStates
  PROVE  /\ Aged(r) \in RuntimeStates
         /\ Aged(r).State = r.State
         /\ Aged(r).ConsecutiveGood = r.ConsecutiveGood
  BY DeadCooldownAssumption DEF Aged, RuntimeStates

(* An observation keeps the evidence of a family within its type.          *)
LEMMA ObserveType ==
  ASSUME NEW r \in FamilyResults, NEW code \in Codes
  PROVE  Observe(r, code) \in FamilyResults
<1>1. ConfirmedAs(code) \in FamilyResults
  BY DEF ConfirmedAs, Result, FamilyResults, Status
<1>2. CASE r.CandidateCountry = code
  <2>1. r.CandidateCount + 1 \in 1 .. 2
    BY DEF FamilyResults
  <2>2. CASE r.CandidateCount + 1 = 1
    BY <1>1, <1>2, <2>2 DEF Observe, Result, FamilyResults, Status
  <2>3. CASE r.CandidateCount + 1 = 2
    BY <1>1, <1>2, <2>3 DEF Observe
  <2>4. QED
    BY <2>1, <2>2, <2>3
<1>3. CASE r.CandidateCountry # code
  BY <1>1, <1>3 DEF Observe, Result, FamilyResults, Status
<1>4. QED
  BY <1>2, <1>3

(* Filing an exit keeps the type, and leaves the other route alone.        *)
LEMMA ApplyType ==
  ASSUME NEW c \in RouteCountries, NEW to \in Routes, NEW exit \in Exits
  PROVE  /\ Apply(c, to, exit[1], exit[2]) \in RouteCountries
         /\ \A route \in Routes \ {to} :
              Apply(c, to, exit[1], exit[2])[route] = c[route]
<1>1. CASE exit[2] = NoCountry
  BY <1>1 DEF Apply
<1>2. CASE exit[2] # NoCountry
  <2>1. exit[1] \in Families /\ exit[2] \in Codes
    BY <1>2, ExitsAssumption DEF NoExit
  <2>2. \A r \in Routes, f \in Families : c[r][f] \in FamilyResults
    BY DEF RouteCountries
  <2>3. \A r \in Routes, f \in Families : Observe(c[r][f], exit[2]) \in FamilyResults
    BY <2>1, <2>2, ObserveType
  <2>4. Apply(c, to, exit[1], exit[2]) =
          [r \in Routes |-> [f \in Families |->
             IF r = to /\ f = exit[1] THEN Observe(c[r][f], exit[2]) ELSE c[r][f]]]
    BY <1>2 DEF Apply
  <2>5. \A route \in Routes \ {to} : [f \in Families |-> c[route][f]] = c[route]
    BY DEF RouteCountries
  <2>6. QED
    BY <2>2, <2>3, <2>4, <2>5 DEF RouteCountries
<1>3. QED
  BY <1>1, <1>2

(* A WARP route that wants a reprobe and was seen over IPv4 is in no       *)
(* filtered view.                                                          *)
LEMMA ReprobedIsExcluded ==
  ASSUME NEW c \in RouteCountries, NeedsWarpReprobe(c),
         c["warp"]["v4"].Available,
         NEW excluded \in (SUBSET Codes) \ {{}}
  PROVE  ~Filter(c, "warp", excluded).Include
<1> DEFINE v4 == c["warp"]["v4"]
           v6 == c["warp"]["v6"]
<1>1. v4 \in FamilyResults /\ v6 \in FamilyResults
  BY DEF RouteCountries, Routes, Families
<1>2. \E f \in Families :
        /\ c["warp"][f].Available
        /\ c["warp"][f].Status # "CONFIRMED" \/ c["warp"][f].Country = NoCountry
  BY DEF NeedsWarpReprobe, RouteNeedsReprobe, FamilyNeedsReprobe, Stable, Families
<1>3. PICK f \in Families :
        /\ c["warp"][f].Available
        /\ c["warp"][f].Status # "CONFIRMED" \/ c["warp"][f].Country = NoCountry
  BY <1>2
<1>4. c["warp"][f].Status \in Status
  BY <1>1 DEF Families, FamilyResults
<1> DEFINE known == {g \in Families : c["warp"][g].Available}
           has(g) == c["warp"][g]
           filtered == \E g \in known :
             \/ has(g).Country \in excluded
             \/ has(g).ObservedCountry \in excluded
             \/ has(g).CandidateCountry \in excluded
           unknown ==
             \/ known = {}
             \/ \E g \in known : \/ has(g).Status = "UNKNOWN"
                                 \/ has(g).Status = "CONFIRMED" /\ has(g).Country = NoCountry
           conflict == \E g \in known : has(g).Status = "CONFLICT"
<1>5. unknown \/ conflict
  <2>1. f \in known
    BY <1>3
  <2>2. \/ has(f).Status = "UNKNOWN" \/ has(f).Status = "CONFLICT"
        \/ has(f).Status = "CONFIRMED" /\ has(f).Country = NoCountry
    BY <1>3, <1>4 DEF Status
  <2>3. QED
    BY <2>1, <2>2
<1>6. excluded # {}
  OBVIOUS
<1>7. Filter(c, "warp", excluded) =
        Decision(~filtered /\ ~unknown /\ ~conflict, filtered, unknown, conflict)
  BY <1>6 DEF Filter
<1> HIDE DEF unknown, conflict, filtered
<1>8. Filter(c, "warp", excluded).Include = (~filtered /\ ~unknown /\ ~conflict)
  BY <1>7 DEF Decision
<1>9. QED
  BY <1>5, <1>8

(* What a refresh makes of a probe.                                        *)
LEMMA UpdatedType ==
  ASSUME Typed, GoodsCleared, NEW p \in Proxies, NEW probe \in ProbeResults
  PROVE  LET updated == UpdatedRuntime(p, probe)
         IN  /\ updated \in Runtimes /\ updated # NoRuntime
             /\ updated.DirectHealthy = DirectHealthy(probe)
             /\ updated.WarpHealthy = WarpHealthy(probe)
             /\ updated.StateData.State \in {"HEALTHY", "DEAD"}
                  => updated.StateData.ConsecutiveGood = 0
             /\ ~Known(p) => updated.StateData.State # "DEAD"
<1> DEFINE state == IF Known(p) THEN runtime[p].StateData ELSE NewRuntimeState
           countries == IF Known(p) THEN runtime[p].Countries ELSE store[p]
           obs == Classified(probe)
           updated == UpdatedRuntime(p, probe)
<1>1. /\ state \in RuntimeStates
      /\ state.State \in {"HEALTHY", "DEAD"} => state.ConsecutiveGood = 0
      /\ countries \in RouteCountries
  BY NewIsAlive DEF Typed, GoodsCleared, Runtimes, Known
<1>2. obs \in Observations /\ DirectHealthy(probe) \in BOOLEAN
      /\ WarpHealthy(probe) \in BOOLEAN
  BY DEF Classified, Observations, DirectHealthy, WarpHealthy
<1>3. Transition(state, obs) \in RuntimeStates
  BY <1>1, <1>2, TransitionType
<1>4. Applied(countries, probe) \in RouteCountries
  <2>1. probe.direct \in Exits /\ probe.warp \in Exits
    BY DEF ProbeResults
  <2>2. Apply(countries, "direct", probe.direct[1], probe.direct[2]) \in RouteCountries
    BY <1>1, <2>1, ApplyType DEF Routes
  <2>3. QED
    BY <2>1, <2>2, ApplyType DEF Applied, Routes
<1>5. updated = [ StateData |-> Transition(state, obs),
                  DirectHealthy |-> DirectHealthy(probe),
                  WarpHealthy |-> WarpHealthy(probe),
                  Countries |-> Applied(countries, probe) ]
  BY DEF UpdatedRuntime, Known
<1> HIDE DEF state, countries, obs, updated
<1>6. updated \in Runtimes /\ updated # NoRuntime
  BY <1>2, <1>3, <1>4, <1>5, NoRuntimeAssumption DEF Runtimes
<1>7. updated.StateData.State \in {"HEALTHY", "DEAD"}
        => updated.StateData.ConsecutiveGood = 0
  BY <1>1, <1>2, <1>5, TransitionClearsGoods
<1>8. ~Known(p) => updated.StateData.State # "DEAD"
  BY <1>2, <1>5, NewIsAlive DEF state
<1>9. QED
  BY <1>5, <1>6, <1>7, <1>8 DEF updated

(* A snapshot made of entries gives those entries back.                    *)
LEMMA SnapshotEntries ==
  ASSUME NEW entries, DOMAIN entries \subseteq Proxies
  PROVE  Snapshot(entries).Entries = entries /\ Consistent(Snapshot(entries))
  BY DEF Snapshot, Consistent

----------------------------------------------------------------------------
(* With no files and empty stores the invariant holds.                     *)
LEMMA InitInv == Init => PubInv
<1> SUFFICES ASSUME Init PROVE PubInv
  OBVIOUS
<1>1. NoCountries \in RouteCountries
  BY DEF NoCountries, RouteCountries, NoResult, FamilyResults, Status
<1>2. Typed
  BY <1>1 DEF Init, Typed, Histories
<1>3. QED
  BY <1>2 DEF Init, PubInv, GoodsCleared, Consistent, StoreFollows, EntriesKnown,
      PendingIsPublished, ServedIsCurrent, EvidenceIsDurable, SavedBehind, Known

(* A refresh without a witness changes nothing; one with a witness writes  *)
(* runtimes and evidence together, and either lists every proxy it left    *)
(* alive or found none, in which case it only met proxies known before.    *)
LEMMA RefreshInv ==
  ASSUME PubInv, NEW probed \in (SUBSET Proxies) \ {{}},
         NEW probes, DOMAIN probes = probed,
         \A p \in probed : probes[p] \in ProbeResults,
         NEW expired \in BOOLEAN, Refresh(probes, expired)
  PROVE  PubInv'
<1> DEFINE updated == [p \in Proxies |->
                         IF p \in DOMAIN probes THEN UpdatedRuntime(p, probes[p])
                         ELSE runtime[p]]
           listed == Listed(updated, probes)
           publishes == CanPublish(Cardinality(listed))
           entries == [p \in listed |-> EntryOf(updated[p])]
<1>0. /\ refresh = "idle" /\ reprobe = "idle"
      /\ UNCHANGED <<countryFile, cacheFile, reprobe>>
  BY DEF Refresh
<1>1. CASE ~HasReachabilityWitness(probes)
  <2>1. /\ UNCHANGED <<runtime, store, cache, refresh>>
        /\ history' = [history EXCEPT !.expired = expired]
    BY <1>1 DEF Refresh
  <2>2. /\ history' \in Histories /\ history'.published = history.published
        /\ history'.unsaved = history.unsaved
    BY <2>1 DEF PubInv, Typed, Histories
  <2>3. QED
    BY <1>0, <2>1, <2>2 DEF PubInv, Typed, GoodsCleared, Consistent, StoreFollows,
       EntriesKnown, PendingIsPublished, ServedIsCurrent, EvidenceIsDurable,
       SavedBehind, Known
<1>2. CASE HasReachabilityWitness(probes)
  <2>1. /\ runtime' = updated
        /\ store' = [p \in Proxies |->
                       IF p \in DOMAIN probes THEN updated[p].Countries ELSE store[p]]
        /\ IF publishes THEN cache' = Snapshot(entries) /\ refresh' = "saveCountries"
           ELSE UNCHANGED <<cache, refresh>>
        /\ history' = [history EXCEPT !.published = publishes, !.expired = expired]
    BY <1>2 DEF Refresh
  <2>2. publishes \in BOOLEAN /\ probed \subseteq Proxies /\ probed # {}
    BY DEF CanPublish
  <2>3. /\ history' \in Histories /\ history'.published = publishes
        /\ history'.unsaved = history.unsaved
    BY <2>1, <2>2 DEF PubInv, Typed, Histories
  <2>4. ASSUME NEW p \in probed
        PROVE  /\ updated[p] \in Runtimes /\ updated[p] # NoRuntime
               /\ updated[p].StateData.State \in {"HEALTHY", "DEAD"}
                    => updated[p].StateData.ConsecutiveGood = 0
               /\ ~Known(p) => updated[p].StateData.State # "DEAD"
    BY <2>2, UpdatedType DEF PubInv
  <2>5. \A p \in Proxies \ probed : updated[p] = runtime[p]
    OBVIOUS
  <2>6. \A p \in Proxies : updated[p] \in Runtimes \cup {NoRuntime}
    BY <2>4, <2>5 DEF PubInv, Typed
  <2>7. listed \subseteq probed
    BY DEF Listed
  <2> HIDE DEF updated, listed
  <2>8. Typed'
    <3>1. updated \in [Proxies -> Runtimes \cup {NoRuntime}]
      BY <2>6 DEF updated
    <3>2. \A p \in probed : updated[p].Countries \in RouteCountries
      BY <2>4 DEF Runtimes
    <3>3. store' \in [Proxies -> RouteCountries]
      BY <2>1, <3>2 DEF PubInv, Typed
    <3>4. refresh' \in {"idle", "saveCountries", "saveCache"}
      BY <1>0, <2>1
    <3>5. QED
      BY <1>0, <2>1, <2>3, <3>1, <3>3, <3>4 DEF PubInv, Typed
  <2>9. GoodsCleared'
    BY <2>1, <2>4, <2>5 DEF PubInv, GoodsCleared
  <2>10. StoreFollows'
    BY <2>1, <2>4, <2>5 DEF PubInv, StoreFollows, Known
  <2>11. Consistent(cacheFile)'
    BY <1>0 DEF PubInv, Consistent
  <2>12. CASE publishes
    <3>1. cache' = Snapshot(entries) /\ refresh' = "saveCountries" /\ history'.published
      BY <2>1, <2>3, <2>12
    <3>2. DOMAIN entries = listed /\ listed \subseteq Proxies
      BY <2>2, <2>7
    <3>3. cache'.Entries = entries /\ Consistent(cache)'
      BY <3>1, <3>2, SnapshotEntries DEF Consistent
    <3>4. \A p \in listed : /\ updated[p] # NoRuntime
                            /\ updated[p].StateData.State # "DEAD"
      BY <2>4, <2>7 DEF listed, Listed
    <3>5. EntriesKnown'
      BY <2>1, <3>2, <3>3, <3>4 DEF EntriesKnown, Known
    <3>6. PendingIsPublished'
      <4>1. \E p \in Proxies : updated[p] # NoRuntime
        BY <2>2, <2>4
      <4>2. QED
        BY <2>1, <3>1, <4>1 DEF PendingIsPublished, Known
    <3>7. ServedIsCurrent'
      BY <2>1, <3>2, <3>3, <3>4 DEF ServedIsCurrent
    <3>8. EvidenceIsDurable' /\ SavedBehind'
      BY <3>1 DEF EvidenceIsDurable, SavedBehind
    <3>9. QED
      BY <2>8, <2>9, <2>10, <2>11, <3>3, <3>5, <3>6, <3>7, <3>8 DEF PubInv
  <2>13. CASE ~publishes
    <3>1. UNCHANGED <<cache, refresh>> /\ ~history'.published
      BY <2>1, <2>3, <2>13
    <3>2. listed = {}
      <4>1. IsFiniteSet(listed)
        BY <2>2, <2>7, ProxiesAssumption, FS_Subset
      <4>2. QED
        BY <4>1, <2>13, FS_EmptySet DEF CanPublish
    <3>3. \A p \in probed : Known(p)
      BY <2>4, <3>2 DEF listed, Listed
    <3>4. \A p \in Proxies : Known(p) => updated[p] # NoRuntime
      BY <2>4, <2>5 DEF Known
    <3>5. EntriesKnown'
      <4>1. cache # NoSnapshot => \A p \in DOMAIN cache.Entries : p \in Proxies /\ Known(p)
        BY <2>2, <3>3 DEF PubInv, EntriesKnown, Consistent
      <4>2. QED
        BY <2>1, <3>1, <3>4, <4>1 DEF EntriesKnown, Known
    <3>6. Consistent(cache)' /\ PendingIsPublished' /\ ServedIsCurrent'
          /\ EvidenceIsDurable' /\ SavedBehind'
      BY <1>0, <3>1 DEF PubInv, Consistent, PendingIsPublished, ServedIsCurrent,
         EvidenceIsDurable, SavedBehind
    <3>7. QED
      BY <2>8, <2>9, <2>10, <2>11, <3>5, <3>6 DEF PubInv
  <2>14. QED
    BY <2>12, <2>13
<1>3. QED
  BY <1>1, <1>2

(* A reprobe knows every entry it rebuilds, so none is dropped; and what   *)
(* it changes in the evidence is a WARP route that wanted a reprobe.       *)
LEMMA ReprobeInv ==
  ASSUME PubInv, NEW observed \in [Candidates -> Exits], Reprobe(observed)
  PROVE  PubInv'
<1> DEFINE changed == {p \in Candidates : runtime[p] # NoRuntime /\ observed[p] # NoExit}
           countries(p) == Apply(runtime[p].Countries, "warp",
                                 observed[p][1], observed[p][2])
           updated == [p \in Proxies |->
                         IF p \in changed
                         THEN [runtime[p] EXCEPT !.Countries = countries(p)]
                         ELSE runtime[p]]
           listed == DOMAIN cache.Entries
           entries == [p \in listed |-> EntryOf(updated[p])]
<1>1. /\ reprobe = "idle" /\ refresh # "saveCountries" /\ changed # {}
      /\ runtime' = updated
      /\ store' = [p \in Proxies |-> IF p \in changed THEN countries(p) ELSE store[p]]
      /\ cache' = Rebuilt(updated)
      /\ reprobe' = "saveCountries"
      /\ UNCHANGED <<countryFile, cacheFile, refresh, history>>
  BY DEF Reprobe
<1>2. /\ cache # NoSnapshot
      /\ listed \subseteq Proxies
      /\ \A p \in changed : /\ p \in listed
                            /\ NeedsWarpReprobe(cache.Entries[p].Countries)
  BY <1>1 DEF Candidates, PubInv, Consistent
<1>3. \A p \in listed : Known(p)
  BY <1>1, <1>2 DEF PubInv, EntriesKnown, Known
<1>4. ASSUME NEW p \in changed
      PROVE  /\ p \in Proxies /\ runtime[p] \in Runtimes
             /\ countries(p) \in RouteCountries
             /\ countries(p)["direct"] = runtime[p].Countries["direct"]
  <2>1. p \in Proxies /\ runtime[p] \in Runtimes
    BY <1>2 DEF PubInv, Typed
  <2>2. runtime[p].Countries \in RouteCountries /\ observed[p] \in Exits
    BY <2>1 DEF Runtimes
  <2>3. QED
    BY <2>1, <2>2, ApplyType DEF Routes
<1> HIDE DEF countries, changed
<1>5. ASSUME NEW p \in changed
      PROVE  /\ updated[p] \in Runtimes /\ updated[p] # NoRuntime
             /\ updated[p].Countries = countries(p)
             /\ updated[p].StateData = runtime[p].StateData
  BY <1>4, NoRuntimeAssumption DEF Runtimes
<1>6. \A p \in Proxies \ changed : updated[p] = runtime[p]
  OBVIOUS
<1>7. updated \in [Proxies -> Runtimes \cup {NoRuntime}]
  BY <1>5, <1>6 DEF PubInv, Typed
<1>8. \A p \in listed : updated[p] # NoRuntime
  BY <1>2, <1>3, <1>5, <1>6 DEF Known
<1> HIDE DEF updated
<1>9. cache' = Snapshot(entries)
  <2>1. {p \in DOMAIN cache.Entries : updated[p] # NoRuntime} = listed
    BY <1>8
  <2>2. cache' = [ Entries |-> entries,
                   Output |-> {p \in listed : updated[p].DirectHealthy},
                   JSONOutput |-> {p \in listed : updated[p].WarpHealthy} ]
    BY <1>1, <2>1 DEF Rebuilt
  <2>3. \A p \in listed : /\ entries[p].DirectHealthy = updated[p].DirectHealthy
                         /\ entries[p].WarpHealthy = updated[p].WarpHealthy
    BY DEF EntryOf
  <2>4. DOMAIN entries = listed
    OBVIOUS
  <2> HIDE DEF entries, listed
  <2>5. QED
    BY <2>2, <2>3, <2>4 DEF Snapshot
<1>10. cache'.Entries = entries /\ Consistent(cache)'
  BY <1>2, <1>9, SnapshotEntries DEF Consistent
<1>11. Typed'
  <2>1. store' \in [Proxies -> RouteCountries]
    BY <1>1, <1>4 DEF PubInv, Typed
  <2>2. QED
    BY <1>1, <1>7, <2>1 DEF PubInv, Typed
<1>12. GoodsCleared'
  BY <1>1, <1>4, <1>5, <1>6, NoRuntimeAssumption DEF PubInv, GoodsCleared
<1>13. StoreFollows'
  BY <1>1, <1>5, <1>6 DEF PubInv, StoreFollows, Known
<1>14. EntriesKnown'
  BY <1>1, <1>8, <1>10 DEF EntriesKnown, Known
<1>15. PendingIsPublished'
  <2>1. \A p \in Proxies : Known(p) => updated[p] # NoRuntime
    BY <1>5, <1>6 DEF Known
  <2>2. QED
    BY <1>1, <2>1 DEF PubInv, PendingIsPublished, Known
<1>16. ServedIsCurrent'
  <2>1. ASSUME history.published, NEW p \in listed
        PROVE  updated[p].StateData.State # "DEAD"
    BY <1>2, <1>3, <1>5, <1>6, <2>1 DEF PubInv, ServedIsCurrent, Known
  <2>2. QED
    BY <1>1, <1>10, <2>1 DEF ServedIsCurrent
<1>17. EvidenceIsDurable' /\ Consistent(cacheFile)'
  BY <1>1 DEF PubInv, EvidenceIsDurable, Consistent
<1>18. SavedBehind'
  <2> SUFFICES ASSUME cacheFile # NoSnapshot, history.published,
                      "cache" \notin history.unsaved, refresh = "idle",
                      NEW p \in DOMAIN cacheFile.Entries
               PROVE  Behind(cacheFile.Entries[p].Countries, store'[p])
    BY <1>1 DEF SavedBehind
  <2>1. Behind(cacheFile.Entries[p].Countries, store[p]) /\ p \in Proxies
    BY DEF PubInv, SavedBehind, Consistent
  <2>2. CASE p \in changed
    <3>1. cache.Entries[p].Countries = runtime[p].Countries
      <4>1. cache.Entries[p] = EntryOf(runtime[p])
        BY <1>2, <1>3, <2>2 DEF PubInv, ServedIsCurrent, Known
      <4>2. QED
        BY <4>1 DEF EntryOf
    <3>2. store[p] = runtime[p].Countries /\ NeedsWarpReprobe(store[p])
      BY <1>2, <1>3, <2>1, <2>2, <3>1 DEF PubInv, StoreFollows
    <3>3. store'[p]["direct"] = store[p]["direct"]
      BY <1>1, <1>4, <2>1, <2>2, <3>2
    <3>4. store[p] \in RouteCountries
      BY <2>1 DEF PubInv, Typed
    <3>5. QED
      BY <2>1, <3>2, <3>3, <3>4 DEF Behind
  <2>3. CASE p \notin changed
    BY <1>1, <2>1, <2>3
  <2>4. QED
    BY <2>2, <2>3
<1>19. QED
  BY <1>10, <1>11, <1>12, <1>13, <1>14, <1>15, <1>16, <1>17, <1>18 DEF PubInv

(* A save writes one file, and remembers whether it did.                   *)
LEMMA UnsavedType ==
  ASSUME Typed, NEW file \in {"countries", "cache"}, NEW failed \in BOOLEAN,
         Unsaved(file, failed)
  PROVE  /\ history' \in Histories
         /\ history'.published = history.published
         /\ file \in history'.unsaved <=> failed
         /\ \A other \in {"countries", "cache"} \ {file} :
              other \in history'.unsaved <=> other \in history.unsaved
<1> DEFINE unsaved == IF failed THEN history.unsaved \cup {file}
                      ELSE history.unsaved \ {file}
           failures == IF failed THEN history.failures + 1 ELSE history.failures
<1>1. history' = [history EXCEPT !.unsaved = unsaved, !.failures = failures]
  BY DEF Unsaved
<1>2. history \in Histories /\ unsaved \subseteq {"countries", "cache"} /\ failures \in Nat
  BY DEF Typed, Histories
<1>3. /\ file \in unsaved <=> failed
      /\ \A other \in {"countries", "cache"} \ {file} :
           other \in unsaved <=> other \in history.unsaved
  OBVIOUS
<1> HIDE DEF unsaved, failures
<1>4. QED
  BY <1>1, <1>2, <1>3 DEF Histories

(* A save writes to a file what the stores have, or fails.                 *)
LEMMA SavesInv ==
  ASSUME PubInv, NEW failed \in BOOLEAN,
         RefreshSaves(failed) \/ SaveCached(failed) \/ ReprobeSaves(failed)
  PROVE  PubInv'
<1>1. CASE RefreshSaves(failed) \/ ReprobeSaves(failed)
  <2>1. /\ SaveCountries(failed)
        /\ UNCHANGED <<runtime, store, cache, cacheFile>>
        /\ \/ refresh = "saveCountries" /\ refresh' = "saveCache" /\ reprobe' = reprobe
           \/ reprobe = "saveCountries" /\ reprobe' = "idle" /\ refresh' = refresh
    BY <1>1 DEF RefreshSaves, ReprobeSaves
  <2>2. /\ countryFile' = IF failed THEN countryFile ELSE store
        /\ history' \in Histories
        /\ history'.published = history.published
        /\ "countries" \in history'.unsaved <=> failed
        /\ "cache" \in history'.unsaved <=> "cache" \in history.unsaved
    BY <2>1, UnsavedType DEF SaveCountries, PubInv
  <2>3. Typed'
    BY <2>1, <2>2 DEF PubInv, Typed
  <2>4. EvidenceIsDurable'
    BY <2>1, <2>2 DEF EvidenceIsDurable
  <2>5. PendingIsPublished' /\ SavedBehind'
    BY <2>1, <2>2 DEF PubInv, PendingIsPublished, SavedBehind, Known
  <2>6. QED
    BY <2>1, <2>2, <2>3, <2>4, <2>5 DEF PubInv, GoodsCleared, Consistent,
       StoreFollows, EntriesKnown, ServedIsCurrent, Known
<1>2. CASE SaveCached(failed)
  <2>1. /\ refresh = "saveCache" /\ refresh' = "idle"
        /\ cacheFile' = IF failed THEN cacheFile ELSE cache
        /\ Unsaved("cache", failed)
        /\ UNCHANGED <<runtime, store, countryFile, cache, reprobe>>
    BY <1>2 DEF SaveCached
  <2>2. /\ history' \in Histories
        /\ history'.published = history.published
        /\ "cache" \in history'.unsaved <=> failed
        /\ "countries" \in history'.unsaved <=> "countries" \in history.unsaved
    BY <2>1, UnsavedType DEF PubInv
  <2>3. Typed' /\ PendingIsPublished' /\ Consistent(cacheFile)'
    BY <2>1, <2>2 DEF PubInv, Typed, PendingIsPublished, Consistent
  <2>4. EvidenceIsDurable'
    BY <2>1, <2>2 DEF PubInv, EvidenceIsDurable
  <2>5. SavedBehind'
    <3> SUFFICES ASSUME ~failed, cache # NoSnapshot, NEW p \in DOMAIN cache.Entries
                 PROVE  cache.Entries[p].Countries = store[p]
      BY <2>1, <2>2 DEF SavedBehind, Behind
    <3>1. p \in Proxies /\ Known(p) /\ history.published
      BY <2>1 DEF PubInv, Consistent, EntriesKnown, PendingIsPublished
    <3>2. cache.Entries[p] = EntryOf(runtime[p])
      BY <3>1 DEF PubInv, ServedIsCurrent, Known
    <3>3. cache.Entries[p].Countries = runtime[p].Countries
      BY <3>2 DEF EntryOf
    <3>4. QED
      BY <3>1, <3>3 DEF PubInv, StoreFollows
  <2>6. QED
    BY <2>1, <2>2, <2>3, <2>4, <2>5 DEF PubInv, GoodsCleared, Consistent,
       StoreFollows, EntriesKnown, ServedIsCurrent, Known
<1>3. QED
  BY <1>1, <1>2

(* Time passing changes dates of death only.                               *)
LEMMA TickInv ==
  ASSUME PubInv, Tick
  PROVE  PubInv'
<1>1. ASSUME NEW p \in Proxies
      PROVE  /\ runtime'[p] \in Runtimes \cup {NoRuntime}
             /\ Known(p)' <=> Known(p)
             /\ Known(p) =>
                  /\ runtime'[p].StateData.State = runtime[p].StateData.State
                  /\ runtime'[p].StateData.ConsecutiveGood
                       = runtime[p].StateData.ConsecutiveGood
                  /\ runtime'[p].Countries = runtime[p].Countries
                  /\ EntryOf(runtime'[p]) = EntryOf(runtime[p])
  <2>1. CASE ~Known(p)
    BY <2>1 DEF Tick, Known
  <2>2. CASE Known(p)
    <3>1. runtime[p] \in Runtimes /\ runtime[p].StateData \in RuntimeStates
      BY <2>2 DEF PubInv, Typed, Known, Runtimes
    <3>2. runtime'[p] = [runtime[p] EXCEPT !.StateData = Aged(runtime[p].StateData)]
      BY <2>2 DEF Tick, Known
    <3>3. /\ runtime'[p] \in Runtimes
          /\ runtime'[p].StateData = Aged(runtime[p].StateData)
          /\ runtime'[p].Countries = runtime[p].Countries
          /\ runtime'[p].DirectHealthy = runtime[p].DirectHealthy
          /\ runtime'[p].WarpHealthy = runtime[p].WarpHealthy
      BY <3>1, <3>2, AgedType DEF Runtimes
    <3>4. QED
      BY <2>2, <3>1, <3>3, AgedType, NoRuntimeAssumption DEF Known, EntryOf
  <2>3. QED
    BY <2>1, <2>2
<1>2. UNCHANGED <<store, countryFile, cache, cacheFile, refresh, reprobe, history>>
  BY DEF Tick
<1>3. Typed'
  <2>1. runtime' \in [Proxies -> Runtimes \cup {NoRuntime}]
    BY <1>1 DEF Tick
  <2>2. QED
    BY <1>2, <2>1 DEF PubInv, Typed
<1>4. GoodsCleared' /\ StoreFollows'
  BY <1>1, <1>2 DEF PubInv, GoodsCleared, StoreFollows, Known
<1>5. EntriesKnown' /\ ServedIsCurrent'
  <2>1. cache # NoSnapshot => DOMAIN cache.Entries \subseteq Proxies
    BY DEF PubInv, Consistent
  <2>2. QED
    BY <1>1, <1>2, <2>1 DEF PubInv, EntriesKnown, ServedIsCurrent, Known
<1>6. PendingIsPublished'
  BY <1>1, <1>2 DEF PubInv, PendingIsPublished
<1>7. QED
  BY <1>2, <1>3, <1>4, <1>5, <1>6 DEF PubInv, Consistent, EvidenceIsDurable, SavedBehind

(* After a restart nothing is known; what is served and what is stored are *)
(* the files, which agree if the saves before the restart were done.       *)
LEMMA RestartInv ==
  ASSUME PubInv, Restart
  PROVE  PubInv'
<1>1. /\ \A p \in Proxies : runtime'[p] = NoRuntime
      /\ store' = countryFile /\ cache' = cacheFile
      /\ refresh' = "idle" /\ reprobe' = "idle"
      /\ UNCHANGED <<countryFile, cacheFile>>
  BY DEF Restart
<1>2. /\ history' \in Histories
      /\ history'.published =>
           /\ history.published /\ refresh = "idle" /\ reprobe = "idle"
           /\ history.unsaved = {}
  <2> DEFINE published == /\ history.published /\ refresh = "idle" /\ reprobe = "idle"
                          /\ history.unsaved = {}
  <2>1. history' = [history EXCEPT !.restarts = history.restarts + 1,
                                   !.published = published, !.unsaved = {}]
    BY DEF Restart
  <2>2. history \in Histories
    BY DEF PubInv, Typed
  <2>3. published \in BOOLEAN
    BY <2>2 DEF Histories
  <2>4. history.restarts + 1 \in Nat
    BY <2>2 DEF Histories
  <2>5. published => /\ history.published /\ refresh = "idle" /\ reprobe = "idle"
                     /\ history.unsaved = {}
    OBVIOUS
  <2> HIDE DEF published
  <2>6. QED
    BY <2>1, <2>2, <2>3, <2>4, <2>5 DEF Histories
<1>3. Typed'
  <2>1. runtime' \in [Proxies -> Runtimes \cup {NoRuntime}]
    BY DEF Restart
  <2>2. QED
    BY <1>1, <1>2, <2>1 DEF PubInv, Typed
<1>4. SavedBehind'
  <2>1. history'.published => store' = store
    BY <1>1, <1>2 DEF PubInv, EvidenceIsDurable
  <2>2. QED
    BY <1>1, <1>2, <2>1 DEF PubInv, SavedBehind
<1>5. ServedIsCurrent'
  <2>1. cacheFile # NoSnapshot => DOMAIN cacheFile.Entries \subseteq Proxies
    BY DEF PubInv, Consistent
  <2>2. QED
    BY <1>1, <2>1 DEF ServedIsCurrent
<1>6. QED
  BY <1>1, <1>3, <1>4, <1>5 DEF PubInv, GoodsCleared, Consistent, StoreFollows,
     EntriesKnown, PendingIsPublished, EvidenceIsDurable, Known

(* PubInv is an invariant: every step of the refresh, the reprobe, the     *)
(* saves, the clock and the process keeps it.                              *)
LEMMA StepInv == PubInv /\ [Next]_vars => PubInv'
<1> SUFFICES ASSUME PubInv, [Next]_vars PROVE PubInv'
  OBVIOUS
<1>1. CASE \E probed \in (SUBSET Proxies) \ {{}}, expired \in Expiries :
             \E probes \in [probed -> UNION {Probes[p] : p \in probed}] :
               /\ \A p \in probed : probes[p] \in Probes[p]
               /\ Refresh(probes, expired)
  <2>1. PICK probed \in (SUBSET Proxies) \ {{}}, expired \in Expiries :
             \E probes \in [probed -> UNION {Probes[p] : p \in probed}] :
               /\ \A p \in probed : probes[p] \in Probes[p]
               /\ Refresh(probes, expired)
    BY <1>1
  <2>2. PICK probes \in [probed -> UNION {Probes[p] : p \in probed}] :
               /\ \A p \in probed : probes[p] \in Probes[p]
               /\ Refresh(probes, expired)
    BY <2>1
  <2>3. /\ DOMAIN probes = probed /\ expired \in BOOLEAN
        /\ \A p \in probed : probes[p] \in ProbeResults
    BY <2>2, ProbesAssumption, BoundsAssumption
  <2>4. QED
    BY <2>2, <2>3, RefreshInv
<1>2. CASE \E observed \in [Candidates -> Exits] : Reprobe(observed)
  BY <1>2, ReprobeInv
<1>3. CASE \E failed \in BOOLEAN :
             RefreshSaves(failed) \/ SaveCached(failed) \/ ReprobeSaves(failed)
  BY <1>3, SavesInv
<1>4. CASE Tick
  BY <1>4, TickInv
<1>5. CASE Restart
  BY <1>5, RestartInv
<1>6. CASE UNCHANGED vars
  BY <1>6 DEF vars, PubInv, Typed, GoodsCleared, Consistent, StoreFollows, EntriesKnown,
     PendingIsPublished, ServedIsCurrent, EvidenceIsDurable, SavedBehind, Known
<1>7. QED
  BY <1>1, <1>2, <1>3, <1>4, <1>5, <1>6 DEF Next

(* Everything below follows from this invariant.                           *)
THEOREM PublicationInvariant == Spec => []PubInv
<1>1. QED
  BY InitInv, StepInv, PTL DEF Spec

(* The ready-made outputs of the snapshot that is served (pipeline.go:331  *)
(* and :424) list exactly what its entries say.                            *)
THEOREM OneSnapshot == Spec => []SnapshotIsOne
<1>1. PubInv => SnapshotIsOne
  BY DEF PubInv, Consistent, SnapshotIsOne
<1>2. QED
  BY <1>1, PublicationInvariant, PTL

(* A published refresh serves the health and evidence of the runtimes, and *)
(* reprobes keep it so (rebuildCachedCountries).                           *)
THEOREM ServedStaysCurrent == Spec => []ServedIsCurrent
<1>1. PubInv => ServedIsCurrent
  BY DEF PubInv
<1>2. QED
  BY <1>1, PublicationInvariant, PTL

(* The evidence of a published refresh, and of every reprobe, is in        *)
(* COUNTRY_STATE_PATH once the job that found it has saved.                *)
THEOREM EvidenceSurvives == Spec => []EvidenceIsDurable
<1>1. PubInv => EvidenceIsDurable
  BY DEF PubInv
<1>2. QED
  BY <1>1, PublicationInvariant, PTL

(* The two files may be of different moments, and a view rendered from the *)
(* saved snapshot still shows no route that the saved evidence hides,      *)
(* except a WARP route never seen over IPv4.                               *)
THEOREM RestartIsClosed == Spec => []RestartFailsClosed
<1>1. PubInv => RestartFailsClosed
  <2> SUFFICES ASSUME PubInv, cacheFile # NoSnapshot, history.published,
                      history.unsaved = {}, refresh = "idle", reprobe = "idle",
                      NEW p \in DOMAIN cacheFile.Entries, NEW route \in Routes,
                      NEW excluded \in (SUBSET Codes) \ {{}},
                      Filter(cacheFile.Entries[p].Countries, route, excluded).Include,
                      \/ route = "direct"
                      \/ cacheFile.Entries[p].Countries["warp"]["v4"].Available
               PROVE  Filter(countryFile[p], route, excluded).Include
    BY DEF RestartFailsClosed
  <2> DEFINE saved == cacheFile.Entries[p].Countries
  <2>1. /\ Behind(saved, countryFile[p]) /\ p \in Proxies
        /\ countryFile[p] \in RouteCountries
    <3>1. p \in Proxies /\ Behind(saved, store[p])
      BY DEF PubInv, SavedBehind, Consistent
    <3>2. countryFile = store /\ store[p] \in RouteCountries
      BY <3>1 DEF PubInv, EvidenceIsDurable, Typed
    <3>3. QED
      BY <3>1, <3>2
  <2>2. CASE saved = countryFile[p]
    BY <2>2
  <2>3. CASE /\ saved \in RouteCountries /\ NeedsWarpReprobe(saved)
             /\ saved["direct"] = countryFile[p]["direct"]
    <3>1. CASE route = "direct"
      BY <2>3, <3>1 DEF Filter
    <3>2. CASE route = "warp"
      BY <2>3, <3>2, ReprobedIsExcluded
    <3>3. QED
      BY <3>1, <3>2 DEF Routes
  <2>4. QED
    BY <2>1, <2>2, <2>3 DEF Behind
<1>2. QED
  BY <1>1, PublicationInvariant, PTL

(* Only a blackhole kills, in any state of the table.                      *)
LEMMA OnlyBlackholesKill ==
  ASSUME NEW r \in RuntimeStates, NEW obs \in Observations,
         r.State # "DEAD", Transition(r, obs).State = "DEAD"
  PROVE  obs = "BLACKHOLE"
<1> USE DEF RuntimeStates, States, Observations, StateData
<1>1. CASE r.State = "HEALTHY"
  BY <1>1 DEF Transition, OnHealthy
<1>2. CASE r.State = "DEGRADED"
  BY <1>2 DEF Transition, OnDegraded
<1>3. CASE r.State = "RECOVERING"
  BY <1>3 DEF Transition, OnRecovering
<1>4. QED
  BY <1>1, <1>2, <1>3

(* The step that kills a proxy is a refresh that probed it, and that had a *)
(* witness among its own results.                                          *)
LEMMA StepWitnessed == PubInv /\ [Next]_vars => DeathIsWitnessed
<1> SUFFICES ASSUME PubInv, [Next]_vars, NEW dead \in Proxies, Dies(dead)
             PROVE  /\ dead \in DOMAIN results'
                    /\ Classified(results'[dead]) = "BLACKHOLE"
                    /\ \E q \in DOMAIN results' :
                         DirectHealthy(results'[q]) \/ WarpHealthy(results'[q])
  BY DEF DeathIsWitnessed
<1>1. runtime[dead] \in Runtimes /\ runtime[dead].StateData \in RuntimeStates
  BY DEF PubInv, Typed, Dies, Runtimes
<1>2. ASSUME NEW probed \in (SUBSET Proxies) \ {{}}, NEW expired \in Expiries,
             NEW probes \in [probed -> UNION {Probes[p] : p \in probed}],
             \A p \in probed : probes[p] \in Probes[p],
             Refresh(probes, expired)
      PROVE  /\ dead \in DOMAIN results'
             /\ Classified(results'[dead]) = "BLACKHOLE"
             /\ \E q \in DOMAIN results' :
                  DirectHealthy(results'[q]) \/ WarpHealthy(results'[q])
  <2>1. HasReachabilityWitness(probes) /\ results' = probes /\ DOMAIN probes = probed
    BY <1>2 DEF Refresh, Dies
  <2>2. runtime' = [p \in Proxies |->
                     IF p \in DOMAIN probes THEN UpdatedRuntime(p, probes[p])
                     ELSE runtime[p]]
    BY <1>2, <2>1 DEF Refresh
  <2>3. dead \in probed /\ runtime'[dead] = UpdatedRuntime(dead, probes[dead])
    BY <2>1, <2>2 DEF Dies
  <2>4. Classified(probes[dead]) \in Observations
    BY DEF Classified, Observations
  <2>5. Transition(runtime[dead].StateData, Classified(probes[dead])).State = "DEAD"
    BY <2>3 DEF UpdatedRuntime, Dies
  <2>6. Classified(probes[dead]) = "BLACKHOLE"
    BY <1>1, <2>4, <2>5, OnlyBlackholesKill DEF Dies
  <2>7. QED
    BY <2>1, <2>3, <2>6 DEF HasReachabilityWitness
<1>3. ASSUME NEW observed \in [Candidates -> Exits], Reprobe(observed)
      PROVE  FALSE
  <2>1. \/ runtime'[dead] = runtime[dead]
        \/ \E countries : runtime'[dead] = [runtime[dead] EXCEPT !.Countries = countries]
    BY <1>3 DEF Reprobe
  <2>2. QED
    BY <1>1, <2>1 DEF Dies, Runtimes
<1>4. ASSUME Tick
      PROVE  FALSE
  <2>1. /\ runtime'[dead] = [runtime[dead] EXCEPT
             !.StateData = Aged(runtime[dead].StateData)]
        /\ runtime[dead].StateData \in RuntimeStates
    BY <1>1, <1>4 DEF Tick, Dies, Runtimes
  <2>2. runtime'[dead].StateData = Aged(runtime[dead].StateData)
    BY <1>1, <2>1 DEF Runtimes
  <2>3. QED
    BY <2>1, <2>2, AgedType DEF Dies
<1>5. ~Restart
  BY DEF Restart, Dies
<1>6. ~(\E failed \in BOOLEAN :
          RefreshSaves(failed) \/ SaveCached(failed) \/ ReprobeSaves(failed))
  BY DEF RefreshSaves, SaveCached, ReprobeSaves, Dies
<1>7. ~UNCHANGED vars
  BY DEF vars, Dies
<1>8. QED
  BY <1>2, <1>3, <1>4, <1>5, <1>6, <1>7 DEF Next

(* hasReachabilityWitness guards every transition to DEAD, on the results  *)
(* of the refresh itself.                                                  *)
THEOREM DeathIsJustified == Spec => DeathNeedsWitness
<1>1. PubInv /\ [Next]_vars => [DeathIsWitnessed]_vars
  BY StepWitnessed
<1>2. QED
  BY <1>1, PublicationInvariant, PTL DEF Spec, DeathNeedsWitness
=============================================================================
