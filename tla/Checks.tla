------------------------------- MODULE Checks -------------------------------
(***************************************************************************)
(* The work that is done in batches: RunEnrichmentChecks and               *)
(* RunServiceChecks look at some of the exit addresses each time they run, *)
(* and a refresh measures the bandwidth of some of the proxies.  Each      *)
(* takes the first of a queue that is computed anew every time; who is     *)
(* taken depends on what the caches remember, on what has failed, and on   *)
(* what else is listed at that moment.                                     *)
(*                                                                         *)
(* The three share nothing, nor does the verdict that is made of what the  *)
(* providers say of one address: a behaviour is about one of the four, its *)
(* work.  Addresses and proxy keys are numbers, in the order of the        *)
(* strings.                                                                *)
(***************************************************************************)
EXTENDS Intel

CONSTANTS
  KeyCount,        \* exit addresses, or proxies
  Listings,        \* what may be listed at a time
  Batch,           \* EnrichmentCheckBatchSize and ServiceCheckBatchSize
  MaxMeasured,     \* BandwidthBudget / BandwidthBytes
  Failing,         \* those that no provider knows, or that load nothing
  Services,        \* the service checkers
  ServiceTTL,      \* ServiceCheckCacheTTL in runs of the job
  RefreshAfter,    \* BandwidthRefreshAfter in refreshes
  RetryAfter,      \* BandwidthRetryAfter in refreshes
  Providers,       \* what the aggregator's providers may answer
  PoolProviders    \* what the providers behind the pool may answer

ASSUME BatchAssumption == Batch \in Nat \ {0} /\ MaxMeasured \in Nat \ {0}
ASSUME ProvidersAssumption == Providers \cup PoolProviders \subseteq Results

VARIABLES
  work,        \* which of the four
  listed,      \* the exits of healthy routes; the reachable proxies
  partial,     \* the last batch was cut off by its context
  intel,       \* intelCache, as [order, stale]: the addresses with an entry,
               \* the oldest first, of which the first stale ones are stale
  ports,       \* portCache, likewise; dnsblCache is treated the same
  services,    \* services[key][s]: the age of a verdict, ServiceTTL if stale
               \* or missing
  success,     \* LastBandwidthSuccessAt, as an age; those past RefreshAfter
               \* are numbered in their order
  attempt,     \* LastBandwidthAttemptAt, as an age up to RetryAfter
  asked,       \* the answers about the address, in the order they came
  verdict      \* the Intel made of them

queueVars == <<listed, partial, intel, ports, services, success, attempt>>
verdictVars == <<asked, verdict>>
vars == <<work, queueVars, verdictVars>>

Keys == 1 .. KeyCount
NeverMeasured == RefreshAfter + KeyCount + 1

Init ==
  /\ work \in {"enrichment", "services", "bandwidth", "verdict"}
  /\ listed \in Listings
  /\ partial = FALSE
  /\ intel = [order |-> <<>>, stale |-> 0]
  /\ ports = [order |-> <<>>, stale |-> 0]
  /\ services = [key \in Keys |-> [s \in Services |-> ServiceTTL]]
  /\ success = [key \in Keys |-> NeverMeasured]
  /\ attempt = [key \in Keys |-> RetryAfter]
  /\ asked = <<>>
  /\ verdict = NoIntel

InOrder(keys) == SelectSeq([key \in Keys |-> key], LAMBDA key : key \in keys)

First(n, seq) == SubSeq(seq, 1, IF Len(seq) < n THEN Len(seq) ELSE n)

(* A refresh publishes other healthy routes. *)
Relist ==
  /\ work # "verdict"
  /\ listed' \in Listings
  /\ UNCHANGED <<work, partial, intel, ports, services, success, attempt, verdictVars>>

(***************************************************************************)
(* enrichment.Cache and RunEnrichmentChecks.                               *)
(***************************************************************************)
Stale(cache) == SubSeq(cache.order, 1, cache.stale)

(* Defective variant: the keys alone decide. *)
StaleKeysInKeyOrder(cache) ==
  InOrder(listed \ (ToSet(cache.order) \ ToSet(Stale(cache))))

(* StaleKeysAt: what is missing, by key, then what is stale, the oldest    *)
(* first.                                                                  *)
StaleKeys(cache) ==
  InOrder(listed \ ToSet(cache.order))
    \o SelectSeq(Stale(cache), LAMBDA key : key \in listed)

IsFresh(cache, key) == key \in ToSet(cache.order) \ ToSet(Stale(cache))

(* SetAt for keys, one after the other. *)
SetInTurn(cache, keys) ==
  LET kept(seq) == SelectSeq(seq, LAMBDA key : key \notin ToSet(keys))
  IN  [order |-> kept(cache.order) \o keys, stale |-> Len(kept(Stale(cache)))]

OneOlder(cache) ==
  IF cache.stale < Len(cache.order) THEN {[cache EXCEPT !.stale = @ + 1]} ELSE {}

EnrichmentAges ==
  /\ work = "enrichment"
  /\ \/ intel' \in OneOlder(intel) /\ UNCHANGED ports
     \/ ports' \in OneOlder(ports) /\ UNCHANGED intel
  /\ UNCHANGED <<work, listed, partial, services, success, attempt, verdictVars>>

(* What lacks an intel comes before what only lacks its ports, and an      *)
(* address that is taken gets all that it lacks.                           *)
EnrichmentBatch ==
  LET intelKeys == StaleKeys(intel)
  IN  First(Batch, intelKeys \o SelectSeq(StaleKeys(ports),
                                          LAMBDA key : key \notin ToSet(intelKeys)))

(* The lookups end in any order; with the context at its end some are left *)
(* out, and an intel without an answer is not written.                     *)
RunEnrichmentChecks ==
  /\ work = "enrichment"
  /\ partial' \in BOOLEAN
  /\ \E cut \in IF partial' THEN SUBSET ToSet(EnrichmentBatch) ELSE {{}} :
       LET batch == ToSet(EnrichmentBatch) \ cut
       IN  /\ \E keys \in SetToSeqs((batch \cap ToSet(StaleKeys(intel))) \ Failing) :
                intel' = SetInTurn(intel, keys)
           /\ \E keys \in SetToSeqs(batch \cap ToSet(StaleKeys(ports))) :
                ports' = SetInTurn(ports, keys)
  /\ UNCHANGED <<work, listed, services, success, attempt, verdictVars>>

(***************************************************************************)
(* servicecheck.Cache and RunServiceChecks.  Every run is one unit of time *)
(* after the one before.                                                   *)
(***************************************************************************)
StaleServices(ages) == {s \in Services : ages[s] = ServiceTTL}
TargetsOf(ages) ==
  First(Batch, InOrder({key \in listed : StaleServices(ages[key]) # {}}))

RunServiceChecks ==
  LET aged == [key \in Keys |-> [s \in Services |->
                 IF services[key][s] < ServiceTTL THEN services[key][s] + 1 ELSE ServiceTTL]]
      todo == {key \in Keys \X Services : /\ key[1] \in ToSet(TargetsOf(aged))
                                          /\ key[2] \in StaleServices(aged[key[1]])}
  IN  /\ work = "services"
      /\ partial' \in BOOLEAN
      /\ \E cut \in IF partial' THEN SUBSET todo ELSE {{}} :
           services' = [key \in Keys |-> [s \in Services |->
             IF <<key, s>> \in todo \ cut THEN 0 ELSE aged[key][s]]]
      /\ UNCHANGED <<work, listed, intel, ports, success, attempt, verdictVars>>

(***************************************************************************)
(* SelectBandwidthCandidates in a refresh, every one a unit of time after  *)
(* the one before.                                                         *)
(***************************************************************************)
(* The ages past RefreshAfter count only against each other. *)
Ranked(ages) ==
  [key \in Keys |->
     IF ages[key] < RefreshAfter \/ ages[key] = NeverMeasured THEN ages[key]
     ELSE RefreshAfter + Cardinality({ages[k] : k \in {k \in Keys :
                           /\ ages[k] >= RefreshAfter /\ ages[k] < ages[key]}})]

Older(ages) ==
  Ranked([key \in Keys |-> IF ages[key] = NeverMeasured THEN NeverMeasured ELSE ages[key] + 1])

(* Defective variant: a failed attempt does not put a proxy off.           *)
EligibleAtOnce(measured, tried) == {key \in listed : measured[key] >= RefreshAfter}

Eligible(measured, tried) ==
  {key \in listed : tried[key] = RetryAfter /\ measured[key] >= RefreshAfter}

Before(measured, a, b) ==
  measured[a] > measured[b] \/ (measured[a] = measured[b] /\ a < b)

SelectBandwidthCandidates(measured, tried) ==
  First(MaxMeasured, SetToSortSeq(Eligible(measured, tried),
                                  LAMBDA a, b : Before(measured, a, b)))

MeasureBandwidth ==
  LET measured == Older(success)
      tried == [key \in Keys |-> IF attempt[key] < RetryAfter THEN attempt[key] + 1
                                 ELSE RetryAfter]
      selected == ToSet(SelectBandwidthCandidates(measured, tried))
  IN  /\ work = "bandwidth"
      /\ partial' \in BOOLEAN
      /\ \E cut \in IF partial' THEN SUBSET selected ELSE {{}} :
           success' = Ranked([key \in Keys |->
             IF key \in selected \ (cut \cup Failing) THEN 0 ELSE measured[key]])
      /\ attempt' = [key \in Keys |-> IF key \in selected THEN 0 ELSE tried[key]]
      /\ UNCHANGED <<work, listed, intel, ports, services, verdictVars>>

(***************************************************************************)
(* The verdict on an address.                                              *)
(***************************************************************************)
SourcesOf(results) == {results[i].Source : i \in DOMAIN results}

(* Providers that answer, in any order; their merge when the last is done. *)
Ask ==
  /\ work = "verdict"
  /\ asked = <<>>
  /\ \E results \in SeqOf(Providers, Cardinality({r.Source : r \in Providers})) :
       /\ Cardinality(SourcesOf(results)) = Len(results)
       /\ asked' = results
       /\ verdict' = IF results = <<>> THEN NoIntel ELSE MergeAll(results)
  /\ UNCHANGED <<work, queueVars>>

AskThroughPool ==
  /\ work = "verdict"
  /\ \E result \in PoolProviders :
       /\ result.Source \notin SourcesOf(asked)
       /\ asked' = Append(asked, result)
       /\ verdict' = MergeResult(verdict, result)
  /\ UNCHANGED <<work, queueVars>>

(* The address is looked up again. *)
Forget ==
  /\ work = "verdict"
  /\ asked' = <<>>
  /\ verdict' = NoIntel
  /\ UNCHANGED <<work, queueVars>>

Runs == RunEnrichmentChecks \/ RunServiceChecks \/ MeasureBandwidth

Next == Runs \/ Relist \/ EnrichmentAges \/ Ask \/ AskThroughPool \/ Forget

(* The timers of the jobs and of the refresh come again and again, and a   *)
(* batch is not always cut off.                                            *)
Spec == Init /\ [][Next]_vars /\ WF_vars(Runs /\ ~partial')
----------------------------------------------------------------------------
(***************************************************************************)
(* Properties                                                              *)
(***************************************************************************)
(* No address is left out for ever.  If the batches are not cut off, every *)
(* address that stays listed has its intel looked up again and again, and  *)
(* its ports, however the listing changes around it and the entries expire *)
(* - as long as fewer addresses than a batch takes go without an answer.   *)
(* The services, which are taken in the order of the keys whatever their   *)
(* age, need what a batch takes in a ttl to be all there is.               *)
CheckedInTurn ==
  <>[](~partial) =>
    \A key \in Keys :
      /\ work = "enrichment" =>
           /\ key \notin Failing => []<>(key \in listed => IsFresh(intel, key))
           /\ []<>(key \in listed => IsFresh(ports, key))
      /\ work = "services" => []<>(key \in listed => StaleServices(services[key]) = {})

(* "Measures a rotating subset of healthy routes with bounded bandwidth    *)
(* downloads" (README.md:13): every reachable proxy gets its turn, if the  *)
(* stage is not cut off, as long as those that load nothing are fewer than *)
(* are measured until they are tried again.                                *)
MeasuredInTurn ==
  work = "bandwidth" /\ <>[](~partial) =>
    \A key \in Keys \ Failing : []<>(key \in listed => success[key] < RefreshAfter)

(* A verdict is that of all who answered, whichever came first and whether *)
(* they were asked at once or through the pool later: no flag is lost, the *)
(* risk is that of the flags, and a hosting address is called so.          *)
VerdictOfAll ==
  asked # <<>> =>
    LET results == ToSet(asked)
        flags == UNION {r.Flags : r \in results}
    IN  /\ verdict.Flags = flags
        /\ verdict.RiskLevel = ClassifyRisk(flags)
        /\ verdict.RiskScore = Max({CompositeScore(flags)} \cup {r.Score : r \in results})
        /\ (verdict.Type = "hosting") = \E r \in results : "datacenter" \in r.Flags \/ r.Type = "hosting"
        /\ verdict.Sources = SourcesOf(asked)
=============================================================================
