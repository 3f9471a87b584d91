------------------------------- MODULE Intake -------------------------------
(***************************************************************************)
(* The measuring half of Pipeline.Refresh: the sources are fetched, the    *)
(* failed ones through the pool once more, the answers merged with what    *)
(* the failed ones said before, the lines parsed, filtered and attributed, *)
(* the hosts resolved, and the records that have an address probed.  What  *)
(* the probes say is applied and published by the second half, which the   *)
(* modules ProxyHealth, CountryEvidence and Publication are about.         *)
(***************************************************************************)
EXTENDS Sources, Resolver, ExitProbe

VARIABLES
  phase,       \* how far the refresh is
  records,     \* the records of this refresh, those with an address at last
  hasGateway   \* the published snapshot has a record that is healthy directly

vars == <<sourceVars, resolverVars, probeVars, phase, records, hasGateway>>

Phases == {"idle", "fetched", "retried", "merged", "resolving", "probing"}

Init ==
  /\ SourcesInit
  /\ ResolverInit
  /\ ProbeInit
  /\ phase = "idle"
  /\ records = <<>>
  /\ hasGateway = FALSE

To(from, to) == phase = from /\ phase' = to

Fetch ==
  /\ To("idle", "fetched")
  /\ FetchAllSources
  /\ UNCHANGED <<resolverVars, probeVars, records, hasGateway>>

Retry ==
  /\ To("fetched", "retried")
  /\ RetryFailedFetchesViaPool(hasGateway)
  /\ UNCHANGED <<resolverVars, probeVars, records, hasGateway>>

Merge ==
  /\ To("retried", "merged")
  /\ MergeDetailed
  /\ UNCHANGED <<resolverVars, probeVars, records, hasGateway>>

HostsOf(recs) == {recs[i].Host : i \in DOMAIN recs}

Parse ==
  /\ To("merged", "resolving")
  /\ records' = ApplyNameFilter(ParseAllLines(AllLines(merged)).Records)
  /\ ForgetFetches
  /\ UNCHANGED <<resolverVars, probeVars, hasGateway>>

Resolve ==
  /\ phase = "resolving"
  /\ ResolverStep(HostsOf(records))
  /\ UNCHANGED <<sourceVars, probeVars, phase, records, hasGateway>>

WithAddress(recs) == SelectSeq(recs, LAMBDA record : answers[record.Host] = "found")

Resolved == \A h \in HostsOf(records) : answers[h] \in {"found", "none"}

(* The refresh goes on if some host has an address and Xray starts.        *)
StartProbing ==
  /\ Resolved
  /\ To("resolving", "probing")
  /\ WithAddress(records) # <<>>
  /\ records' = WithAddress(records)
  /\ ForgetRaces
  /\ UNCHANGED <<sourceVars, dnsCache, probeVars, hasGateway>>

GiveUp ==
  /\ Resolved
  /\ To("resolving", "idle")
  /\ records' = <<>>
  /\ ForgetRaces
  /\ UNCHANGED <<sourceVars, dnsCache, probeVars, hasGateway>>

ProbeRecords ==
  /\ phase = "probing"
  /\ \E i \in Probes \cap DOMAIN records : ProbeStep(i)
  /\ UNCHANGED <<sourceVars, resolverVars, phase, records, hasGateway>>

Probed == \A i \in DOMAIN records : probe[i].pc = "done"

(* Without a witness of the network nothing is applied; otherwise health   *)
(* decides which routes are published, any of those that answered.         *)
EndProbing ==
  /\ Probed
  /\ To("probing", "idle")
  /\ IF HasReachabilityWitness(DOMAIN records) THEN hasGateway' \in BOOLEAN
     ELSE UNCHANGED hasGateway
  /\ records' = <<>>
  /\ ForgetProber
  /\ UNCHANGED <<sourceVars, resolverVars>>

TimePasses ==
  /\ phase = "idle"
  /\ SourcesAge
  /\ UNCHANGED <<resolverVars, probeVars, phase, records, hasGateway>>

RefreshStep ==
  \/ Retry \/ Merge \/ Parse \/ Resolve \/ StartProbing \/ GiveUp
  \/ ProbeRecords \/ EndProbing

Next == Fetch \/ RefreshStep \/ TimePasses

Spec == Init /\ [][Next]_vars /\ WF_vars(RefreshStep)
----------------------------------------------------------------------------
(***************************************************************************)
(* Properties                                                              *)
(***************************************************************************)
(* A source that fails stands for what it said last, exactly as long as    *)
(* that is no older than SOURCE_STALE_MAX_AGE, and a source that says it   *)
(* has nothing, or that refuses us, is believed: lines from before that    *)
(* never come back.                                                        *)
SourcesRemembered ==
  phase = "merged" =>
    \A s \in SourceIds : /\ merged[s].Lines = said[s].Lines
                         /\ merged[s].Stale = (fetched[s].Status # "ok" /\ merged[s].Lines # <<>>)

(* The second pass, AttributeSources "mirroring the global dedup that      *)
(* ParseAllLines performs": it counts every record once, and the owner of  *)
(* a record is a source that serves it.                                    *)
AttributionAgrees ==
  phase = "merged" =>
    LET all == ParseAllLines(AllLines(merged)).Records
        sources == AttributeSources(merged)
    IN  /\ FoldFunction(LAMBDA source, total : source.Unique + total, 0, sources) = Len(all)
        /\ \A i \in DOMAIN all :
             LET owner == OwnerOf(merged, all[i].Id)
             IN  /\ owner \in SourceIds
                 /\ \E line \in ToSet(merged[owner].Lines) : line.Valid /\ line.Id = all[i].Id

(* A host is dropped, and its proxies with it, only if none of the six     *)
(* resolvers found an address, however the racers and the closer run.      *)
DroppedOnlyIfNobodyAnswers ==
  \A h \in Hosts : answers[h] = "none" => h \notin heard

(* The probes of one refresh agree about an exit address: whoever asks,    *)
(* and when, hears what the one request to the database brought.           *)
ExitsAgree ==
  \A i, j \in Probes : \A a \in told[i], b \in told[j] : a.IP = b.IP => a = b

(* A refresh ends: no racer, closer, owner of a lookup or probe that waits *)
(* for one keeps it, if each request has its timeout.                      *)
RefreshEnds == (phase # "idle") ~> (phase = "idle")
=============================================================================
