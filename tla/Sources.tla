------------------------------ MODULE Sources ------------------------------
(***************************************************************************)
(* The subscriptions a refresh is fed from: pipeline/fetch_fallback.go     *)
(* fetches them, fetch/source_cache.go puts the last lines of a source in  *)
(* place of a failed fetch, pipeline/attribution.go says which source a    *)
(* record is from, and parse.ParseAllLines makes records of all lines.     *)
(*                                                                         *)
(* A line stands for a share link: Valid if ParseAllLines makes a record   *)
(* of it, Key its DedupKey, Id its quality.Identity, which writes the host *)
(* in one way where DedupKey keeps the spelling of the link, Name whether  *)
(* the name filter of the configuration keeps it.  Sources are the         *)
(* positions of config.SubscriptionURLs.  Time is counted in units of      *)
(* which MaxAge are SOURCE_STALE_MAX_AGE, and stops at MaxAge + 1.         *)
(***************************************************************************)
EXTENDS Positions, Integers, FiniteSets, Sequences, SequencesExt

CONSTANTS
  SourceCount,    \* Len(config.SubscriptionURLs)
  Feeds,          \* Feeds[s]: what source s may hold, sequences of lines
  MaxAge,         \* SourceStaleMaxAge
  Dedicated,      \* the sources with a proxy of their own
  PoolFallback    \* FetchProxyFallback

ASSUME SourceCountAssumption == SourceCount \in Nat \ {0}
ASSUME MaxAgeAssumption == MaxAge \in Nat
ASSUME DedicatedAssumption == Dedicated \subseteq 1 .. SourceCount
(* A sequence of lines that are valid or not.                              *)
IsFeed(lines) ==
  lines \in Seq(ToSet(lines)) /\ \A line \in ToSet(lines) : line.Valid \in BOOLEAN

ASSUME FeedsAssumption ==
  \A s \in 1 .. SourceCount : \A lines \in Feeds[s] : IsFeed(lines)

VARIABLES
  snapshots,   \* SourceCache: the last lines of each source, with their age
  fetched,     \* the FetchResults of this refresh
  merged,      \* the MergedSources made of them
  said         \* history: what each source said when it last answered, if
               \* that is no older than MaxAge

sourceVars == <<snapshots, fetched, merged, said>>

SourceIds == 1 .. SourceCount

NoSnapshot == [Lines |-> <<>>, Age |-> 0]

(* FetchResult.Via of what came without a proxy. *)
DirectEgress == ""

FetchOK(lines, via) == [Status |-> "ok", Lines |-> lines, Refused |-> FALSE, Via |-> via]
FetchError(refused) ==
  [Status |-> "error", Lines |-> <<>>, Refused |-> refused, Via |-> DirectEgress]

(* Refused: an HTTP status of the 4xx but 429.                             *)
DirectResults(source) ==
  {FetchOK(lines, DirectEgress) : lines \in Feeds[source]} \cup {FetchError(r) : r \in BOOLEAN}

(* Through its dedicated proxy, or directly when it has none or that fails *)
FetchResults(source) ==
  DirectResults(source)
    \cup (IF source \in Dedicated
          THEN {FetchOK(lines, "socks5") : lines \in Feeds[source]} ELSE {})

Answers == UNION {FetchResults(s) \cup {FetchOK(lines, "proxy") : lines \in Feeds[s]} :
                    s \in SourceIds}

FetchAllSources ==
  /\ fetched' \in {f \in [SourceIds -> Answers] :
                     \A s \in SourceIds : f[s] \in FetchResults(s)}
  /\ UNCHANGED <<snapshots, merged, said>>

(* The pool is asked for what failed, through one exit after another; what *)
(* no exit gets keeps the error of the direct fetch, a refusal too.        *)
RetryFailedFetchesViaPool(hasCandidates) ==
  LET failed == {s \in SourceIds : fetched[s].Status # "ok"}
  IN  \E recovered \in SUBSET failed :
        /\ recovered # {} => PoolFallback /\ hasCandidates
        /\ fetched' \in {f \in [SourceIds -> Answers] :
             \A s \in SourceIds :
               IF s \in recovered THEN f[s] \in {FetchOK(lines, "proxy") : lines \in Feeds[s]}
               ELSE f[s] = fetched[s]}
        /\ UNCHANGED <<snapshots, merged, said>>

(***************************************************************************)
(* MergeDetailed.                                                          *)
(***************************************************************************)
Merged(lines, ok, stale, via) ==
  [Lines |-> lines, FetchOK |-> ok, Stale |-> stale, ViaProxy |-> via]

Usable(snapshot) == snapshot.Lines # <<>> /\ snapshot.Age <= MaxAge

(* Defective variant: every failure is answered from the snapshot. *)
SnapshotAfterAnyFailure(snapshot, result) ==
  IF result.Status = "ok" THEN [Lines |-> result.Lines, Age |-> 0]
  ELSE snapshot

SnapshotAfter(snapshot, result) ==
  IF result.Status = "ok" THEN [Lines |-> result.Lines, Age |-> 0]
  ELSE IF result.Refused THEN NoSnapshot ELSE snapshot

MergedSource(snapshot, result) ==
  IF result.Status = "ok"
  THEN Merged(result.Lines, TRUE, FALSE, result.Lines # <<>> /\ result.Via # DirectEgress)
  ELSE IF ~result.Refused /\ Usable(snapshot)
       THEN Merged(snapshot.Lines, FALSE, TRUE, FALSE)
       ELSE Merged(<<>>, FALSE, FALSE, FALSE)

MergeDetailed ==
  /\ snapshots' = [s \in SourceIds |-> SnapshotAfter(snapshots[s], fetched[s])]
  /\ merged' = [s \in SourceIds |-> MergedSource(snapshots[s], fetched[s])]
  /\ said' = [s \in SourceIds |->
       IF fetched[s].Status = "ok" THEN [Lines |-> fetched[s].Lines, Age |-> 0]
       ELSE IF fetched[s].Refused THEN NoSnapshot ELSE said[s]]
  /\ UNCHANGED fetched

(* The results belong to the refresh. *)
ForgetFetches ==
  /\ fetched' = [s \in SourceIds |-> FetchError(FALSE)]
  /\ merged' = [s \in SourceIds |-> Merged(<<>>, FALSE, FALSE, FALSE)]
  /\ UNCHANGED <<snapshots, said>>

(* Time passes between two refreshes. *)
Older(entry) ==
  IF entry.Age > MaxAge THEN entry ELSE [entry EXCEPT !.Age = @ + 1]

SourcesAge ==
  /\ snapshots' = [s \in SourceIds |-> IF snapshots[s].Lines = <<>> THEN NoSnapshot
                                       ELSE Older(snapshots[s])]
  /\ said' = [s \in SourceIds |->
       IF said[s].Lines = <<>> \/ said[s].Age = MaxAge THEN NoSnapshot ELSE Older(said[s])]
  /\ UNCHANGED <<fetched, merged>>

(***************************************************************************)
(* ParseAllLines and AttributeSources.                                     *)
(***************************************************************************)
(* The lines that are the first of their key. *)
Firsts(lines) ==
  {i \in DOMAIN lines : /\ lines[i].Valid
                        /\ \A j \in 1 .. i - 1 : lines[j].Valid => lines[j].Key # lines[i].Key}

ParseAllLines(lines) ==
  LET valid == {i \in DOMAIN lines : lines[i].Valid}
  IN  [ Records |-> Kept(lines, Firsts(lines)),
        Skipped |-> Len(lines) - Cardinality(valid),
        Duplicates |-> Cardinality(valid) - Cardinality(Firsts(lines)) ]

ApplyNameFilter(records) == SelectSeq(records, LAMBDA record : record.Name)

AllLines(sources) == FlattenSeq([s \in SourceIds |-> sources[s].Lines])

KeysOf(records) == {records[i].Key : i \in DOMAIN records}
ParsedOf(sources, s) == ParseAllLines(sources[s].Lines)
SeenBefore(sources, s) == UNION {KeysOf(ParsedOf(sources, t).Records) : t \in 1 .. s - 1}

Attribution(parsed, unique) ==
  [ Parsed |-> Len(parsed.Records), Skipped |-> parsed.Skipped,
    Duplicates |-> parsed.Duplicates + Len(parsed.Records) - unique,
    Unique |-> unique ]

(* Defective variant: the second pass tells records apart by identity. *)
AttributeByIdentity(sources) ==
  [s \in SourceIds |->
     LET parsed == ParsedOf(sources, s)
         before == UNION {{r.Id : r \in ToSet(ParsedOf(sources, t).Records)} : t \in 1 .. s - 1}
     IN  Attribution(parsed, Cardinality({r.Id : r \in ToSet(parsed.Records)} \ before))]

AttributeSources(sources) ==
  [s \in SourceIds |->
     LET parsed == ParsedOf(sources, s)
     IN  Attribution(parsed,
           Cardinality(KeysOf(parsed.Records) \ SeenBefore(sources, s)))]

(* owners: of two spellings of one identity the later one decides. *)
OwnerOf(sources, id) ==
  LET counted(s) == {r \in ToSet(ParsedOf(sources, s).Records) :
                       r.Id = id /\ r.Key \notin SeenBefore(sources, s)}
      owning == {s \in SourceIds : counted(s) # {}}
  IN  IF owning = {} THEN 0 ELSE CHOOSE s \in owning : \A t \in owning : t <= s

SourcesInit ==
  /\ snapshots = [s \in SourceIds |-> NoSnapshot]
  /\ said = [s \in SourceIds |-> NoSnapshot]
  /\ fetched = [s \in SourceIds |-> FetchError(FALSE)]
  /\ merged = [s \in SourceIds |-> Merged(<<>>, FALSE, FALSE, FALSE)]
=============================================================================
