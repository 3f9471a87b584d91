# Specifications of vless-sub-server

The server collects proxy subscriptions, probes every proxy through an embedded
Xray core, keeps a quality state and country evidence for each, and serves the
ones worth using in several formats. This directory holds TLA+ modules of its
core logic, the TLC configurations that check them on small instances, and
theorems about them that TLAPS checks for every value of the constants. Paths
below are relative to the repository; `PROJECT.json` maps each definition to
the lines it translates and lists the hazards, findings and mutants.

## The system

| Component | State | Operations | Modelled in |
|---|---|---|---|
| Sources (`internal/fetch`, `parse`, `pipeline/attribution.go`) | last good lines per source | three rounds of fetching, `MergeDetailed`, `ParseAllLines`, `ApplyNameFilter`, `AttributeSources` | `Sources`, `Intake` |
| Share links and Xray outbounds (`internal/fetch`, `parse`, `exitprobe`, `format`) | none | outbound to link, link to record, record to what is dialled | `Conversion`, `Links` |
| Resolvers (`internal/dns`) | `DNSCache` | `ResolveHosts`, `resolveRacing` | `Resolver`, `Intake` |
| Exit probing (`internal/exitprobe`) | memo of exit addresses, a singleflight group | `ProbeAll`, `probeSingle`, `lookupObservedExit` | `ExitProbe`, `Intake` |
| Embedded Xray core (`internal/exitprobe`) | the channel `embeddedXraySlot`, `instance` and `ownsCore` of each client | `StartWithProxiesContext`, `Stop`, `StartFetchGatewayContext`, `Close` | `XraySlot` |
| Quality state machine (`internal/quality/state.go`, `updateRuntime` in `internal/pipeline/pipeline.go`) | state, two counters and date of death per proxy | classify a probe, `Transition` | `Quality`, `ProxyHealth` |
| Country evidence (`internal/country`) | a `FamilyResult` per proxy, route and address family | `Observe`, `Apply`, `Filter`, `NeedsReprobe`, `Save` | `Country`, `CountryEvidence`, `Publication` |
| Publication (`internal/pipeline`) | quality store, country store, served snapshot, two files | `Refresh`, `ReprobeWarpCountries`, `SaveCached`, the loads at the start | `Publication` |
| Background jobs (`cmd/vless-sub-server/main.go`) | four flags, `refreshMu` | refresh, WARP country reprobe, service checks, enrichment checks | `Daemon` |
| Shared snapshots (`Pipeline.cache`, `Pipeline.metrics`) | two atomic values | loads and stores by all four jobs | `SharedState`, `Published` |
| Check queues (`internal/enrichment`, `servicecheck`, `quality/bandwidth.go`) | cached results with their dates | `StaleKeysAt`, `StaleServicesAt`, `SelectBandwidthCandidates` | `Checks` |
| IP intelligence (`internal/ipintel`) | none | `merge`, `MergeResult` | `Intel`, `Checks` |
| Views (`internal/subview`, `rename`, `format`, `GET /sub`) | none | request options, choice and naming of entries, four kinds of body | `Views`, `Links` |
| Score smoothing, metrics text, configuration, HTTP checkers, DNSBL and port checks | none that decides | arithmetic, layout, network I/O | not modelled (see the end) |

How they interact. `main` starts each job in a goroutine, at most one of each
(compare-and-swap flags). A refresh fetches the sources, possibly through a
gateway of proxies of its own (one core), merges, parses and resolves them,
starts a prober (the same core, again), applies the results to the quality and
country stores, publishes a snapshot, saves the evidence, and only after
releasing `refreshMu` saves the snapshot and triggers the enrichment checks. The
reprobe does the same for the unresolved WARP routes of the snapshot. Service
checks never take `refreshMu`; enrichment takes it only to merge its results.
HTTP handlers read the snapshot and trigger jobs.

What is hard: two locks (`refreshMu` and the core) taken by four jobs in
different orders, with timeouts on one of them; a token whose double release
blocks for good; copies of atomic values that are changed and stored back; two
files written at different moments; resolvers and probes that race for a
channel, a memo and a group; batches taken from queues whose order depends on
what failed before; the same record turned into a connection in five places;
counters that some rows of a transition table reset and others do not; evidence
that must fail closed. The full list, line by line, is under `hazards` in
`PROJECT.json`.

## The modules

How they build on each other (an arrow reads "extends"):

    Intake -> Sources, Resolver, ExitProbe      MCIntake -> Intake
    Views -> Conversion -> Links, Country       MCViews -> Views
    Checks -> Intel                             MCChecks -> Checks
    ProxyHealth -> Quality
    CountryEvidence -> Country                  MCCountryEvidence -> CountryEvidence
    Publication -> Quality, Country             MCPublication -> Publication
    Daemon -> XraySlot                          (implements XraySlot, by proof)
    SharedState                                 (implements Published, by run and proof)
    Sources, Views -> Positions

**Sources** holds the three rounds of fetching (directly or through a source's
own proxy, then through the pool), `MergeDetailed` with the snapshots that
stand in for failures, the parsing of lines into records and the second pass
that attributes them. A line is told by the things the code compares: its
`DedupKey`, its identity, its host, whether it parses and whether its name
passes the filter. `said` remembers what each source last said; no step reads
it. **Positions** is the one helper that Sources and Views share, what a
sequence has at some of its positions. **Resolver** is the race of
`resolveRacing`, with every racer, the channel with room for one and the closer
as steps of their own. **ExitProbe** runs the probes of a refresh at the same
time; the steps of `lookupObservedExit` (memo, group, second look, request,
memo, leave) are separate, everything a probe does through its own outbounds is
one step with any outcome. **Intake** composes the three as the measuring half
of `Pipeline.Refresh`.

**Links** has one operator for each place that turns a record into a
connection: the prober and the four formats. A connection is a transport under
a security and, for each of three layers (transport, security, user), the set of
parameters the client is told of: a translation has a set of parameters it
knows for each layer (`ProberTransport`, `XrayTLS`, `TunnelUser`, ...), and what
it says is what of those the record has. The parameters are all those that any
translation, or the reader of Xray configurations, has a case for: paths and
hosts, gRPC and XHTTP modes, the XHTTP extra, the headers of tcp and mKCP and
the mKCP seed, certificate check, ALPN, fingerprint, spiderX, VLESS encryption,
VMess cipher, Hysteria2 obfuscation, and the server name, which only decides
whether the JSON view sends the ALPN of Hysteria2. Left out are those that every
translation copies in every case (address, port, credentials, flow, the method
of Shadowsocks, the key and short id of reality), and `alterId`, which the
parser never fills in. **Conversion** turns Xray outbounds of a source into
links; an outbound has the same parameters, and a WebSocket of it two places
for a host, which have the same host if both have one.
**Views** answers `GET /sub`: options from the request and the client, entries
that pass, names, and for three of the formats the documents with their tags,
chains, groups and defaults. `Labels` are the names a route can have before
they are told apart; a parameter that a link leaves out is `"unset"`.

**Quality** is the transition table as one operator per state, and the
classification of a probe. `DeadAge` is the time since `DeadAt`, held at
`DeadCooldown`; `ConsecutiveBlackholes`, which the code never bounds, is held
at `CountCap`, above which no comparison changes. **ProxyHealth** drives it for
one proxy: `Refresh` classifies any probe result and applies the transition,
`Tick` lets time pass. `history` records what the proxy did; no step reads it.

**Country** holds the pure functions of `internal/country`; **CountryEvidence**
applies them to one proxy (`Refresh` on both routes, `Reprobe` on WARP when
`NeedsWarpReprobe` says so) and remembers the last two valid observations per
route and family. `MCCountryEvidence` declares three codes and their symmetry.

**XraySlot** is the protocol of the core for any set of clients. `phase` is the
place in `Start` or `Stop`: the select of `acquireEmbeddedXray` is `Acquire` or
`Timeout`, the deferred release of a failed start is `StartFailed`, and `Stop`
and `Release` are two steps because the send may wait.

**Daemon** extends XraySlot with the four jobs as programs over `pc`,
`refreshMu` and one client of the slot per call site (`Cores`). Every early
return is a branch, and so is a recovered panic of every step but `Stop` and
`Close`, which are taken not to panic; network work is one step of unknown
outcome. Each job's flag is `pc[job] # "idle"`. A panic in
`startIntelPool`, between the start of the pool's gateway and the `defer
cleanup()` of its caller (`internal/pipeline/enrichment.go:197-232` and
`104-106`), ends the job while nobody has a reference to the gateway any more:
this is `Forget` of XraySlot. It leaves `lost`, a core that runs on and a token
that never comes back. The next starts then end with their timeouts, and no
refresh probes, until the process restarts.

**Publication** treats a refresh or a reprobe as one step, which `refreshMu`
makes it, and the saves as steps of their own, between which the process may
die and each of which may fail. `Probes` is the set of probe results that
occur, `Exits` that of exit addresses, each of an address family and a country.

**SharedState** looks at the same jobs one load and one store at a time. The
contents are versions (how often the results behind a field had been produced),
so a lost update is a version that goes back or a result that never arrives.
**Published** is the abstract specification: results become newer, and what is
served moves forward in each kind and never back. `KeepsPromise` is the
refinement; its mapping forgets jobs, locks, copies and metrics.

**Intel** merges what providers say about an address; **Checks** has the queues
of the enrichment, service and bandwidth stages, and the verdict of an address
under answers in any order: `Ask` takes from each provider at most one answer.

In every module an operator introduced as a *defective variant* is a plausible
mistake in the definition that follows it. No specification uses it; replacing
the definition by it makes the property named in `PROJECT.json` fail.

## What TLC checks

`tlc -workers 2 -config X.cfg M` in this directory.

| Run | Module, configuration | Question | Distinct states |
|---|---|---|---|
| health | `ProxyHealth`, `MCProxyHealth.cfg` | when a proxy dies, how long it stays dead, what brings it back | 134 |
| health_relapse | `ProxyHealth`, `MCProxyHealthRelapse.cfg` | violated: every death from DEGRADED takes two blackholes | |
| country_evidence | `MCCountryEvidence`, `MCCountryEvidence.cfg` | does the evidence tell the truth, does the filter fail closed | 65,145 |
| daemon | `Daemon`, `MCDaemon.cfg` | one core, no deadlock, every job ends | 4,250 |
| publication | `MCPublication`, `MCPublication.cfg` | is what is served what is known, is a restart from the files safe | 406,499 |
| empty_output | `MCPublication`, `MCEmptyOutput.cfg` | violated: an empty output never replaces a populated one | |
| expired_refresh | `MCPublication`, `MCExpiredRefresh.cfg` | violated: a refresh that ran out of time applies nothing | |
| shared_state | `SharedState`, `MCSharedState.cfg` | is an update of the served snapshot ever lost; implements `Published` | 3,528,568 |
| metrics_lost | `SharedState`, `MCMetricsLost.cfg` | violated: the scraped source series never go back | |
| intake | `MCIntake`, `MCIntake.cfg` | what stands for a failed source, whose a record is, which host is dropped, what probes hear, does a refresh end | 389,672 |
| checks | `MCChecks`, `MCChecks.cfg` | is anything left unchecked for ever, is the verdict that of all | 44,259 |
| views | `MCViews`, `MCViews.cfg` | what is listed, what its client dials, where the documents send traffic | 769,056 |

### What the properties of the newer runs say

- *intake*: a source that fails stands for what it said last while that is
  young enough, and a refusal or an empty success is believed
  (`SourcesRemembered`); the second pass counts each record once and finds it
  an owner that serves it (`AttributionAgrees`); a host is dropped only if no
  resolver found an address (`DroppedOnlyIfNobodyAnswers`); the probes of a
  refresh agree about an exit (`ExitsAgree`); a refresh ends (`RefreshEnds`).
- *daemon*: a job that ended has no core, no token and no place in line for one
  (`NoCoreLeft`), also after a start that failed or panicked. When all jobs have
  ended the token is back, but for the core that a panic in `startIntelPool`
  lost; and nobody waits with a core in hand (`NoHoldAndWait`).
- *publication*: among others, a proxy dies in a refresh only if that refresh
  classified it as a blackhole and reached some proxy it probed
  (`DeathNeedsWitness`, which looks at the results of the step and not at
  health that earlier refreshes have stored).
- *checks*: every address that stays listed is looked up again and again
  (`CheckedInTurn`), every reachable proxy gets measured (`MeasuredInTurn`),
  the verdict loses no answer (`VerdictOfAll`).
- *views*: `ServedAsProbed` says for *every* record whether a client dials what
  the prober found healthy: the operator `Gap` lists the records it does not,
  and the property is an equivalence, so the list is exact.
  `ProbedAsConfigured` does the same for outbounds on their way into a link.
  `ViewIsClean` compares the listed entries with those due,
  `DocumentsResolve` and `TrafficAsAsked` follow the tags.

### Bounds, and why they are enough

- *health*: the cooldown is six units, so a refresh every few units meets it
  early, exactly and late; five samples give every class of observation,
  `CountCap` 3 is one above the largest comparison.
- *country_evidence*: `Observe` compares one code with a current one and a
  candidate, so a third code is the last that can behave differently; the state
  space is finite without a bound.
- *daemon*: the jobs and clients are those of the program. Nothing is bounded.
- *publication*: two proxies, as the only things that relate proxies are the
  witness and whether anything is listed; two codes, exits over IPv4 in both
  and over IPv6 in one; one failing save (`MaxFailures`) and one restart
  (`MaxRestarts`), after which the same states come again but for `history`; a
  cooldown of one unit. The theorems about this module have none of these bounds.
- *shared_state*: `MaxVersion` 3, so that two jobs can each overtake a third
  that still holds an older version. At the bound the jobs stop, hence
  `CHECK_DEADLOCK FALSE` there; no other run needs it.
- *intake*: two sources that share a proxy, one twice and one in another
  spelling of its host, beside a line that is no link and one the name filter
  drops; two hosts with two racers each (a winner and a loser); two probes for
  one exit (an owner and one that waits or comes late) and two countries it may
  turn out to be in; `MaxAge` 1, so that lines are fresh, stale and too old.
- *checks*: three keys and batches of two, so that somebody is always left out;
  `Failing` is one key. Two assumptions are needed and are those of the
  configuration: with as many failing addresses as a batch takes, or with
  `ServiceTTL` 2, `CheckedInTurn` is violated (a batch times the runs in a ttl
  must cover all targets and services; by default 20 times 12 runs), and with
  `Failing` not below `MaxMeasured` times `RetryAfter`, `MeasuredInTurn` is.
- *views*: one record at a time, of any link or outbound with every transport
  and what can be said of it, and with every security, protocol and user over
  four transports (a parameter of one layer has no part in what a translation
  makes of another, and the theorems do not have this bound); and three pairs of
  links, in every combination of health, five kinds of evidence and four choices
  of exits, under requests of every format with WARP on, off or unsaid, profiles
  `ru` and `none`, with and without a filter, from a client that flattens chains
  and one that does not. Pairs suffice for what relates entries: names, tags and
  references.

### Fairness

*health* assumes that the refresh ticker keeps firing and that time passes: weak
fairness of `Refresh` and `Tick`. *daemon* assumes that a goroutine that can
take a step takes one (weak fairness per job), which for a wait on the core
includes the end of its context, since every job runs under
`context.WithTimeout`; and strong fairness for the lock, because Go's
`sync.Mutex` hands itself to a waiter that has waited too long. *intake*:
weak fairness of the steps of a refresh that has begun, as every request in it
has a timeout; `Fetch`, which begins one, and the passing of time have none.
*checks*: the stages run again and again and a batch is not cut off for ever
(weak fairness of a run that completes); listings and ages change as they like.
Nothing is assumed of when a job is triggered or which outcome a network call
has. The other runs have no liveness property.

### Where code and documents differ

Each of these is a run that TLC must find violated.

1. *health_relapse*. The blackhole count is cleared on no row out of DEAD or
   RECOVERING (`internal/quality/state.go:62-75`), so a proxy that was dead
   once and is DEGRADED again dies on one blackhole; the design asks for two.
   What does hold, for the first death, is `FirstDeathIsEarned`.
2. *empty_output*. `CanPublish` counts entries of either route and ignores its
   second argument: proxies alive over WARP only empty the direct output.
3. *expired_refresh*. One reachable proxy is enough for a refresh whose context
   ended to apply blackholes to all it never probed.
4. *metrics_lost*. `refreshServiceMetrics` stores a copy of the metrics without
   the lock and can undo those of a refresh that was published meanwhile.

### What the passing properties leave out by name

Some properties hold with an exception that the property itself states.

- `RestartFailsClosed`: a reprobe saves the evidence and not the snapshot. A
  WARP route known over IPv6 only is listed while reprobes go on looking for
  its IPv4, so that after a restart the old snapshot may list it though the
  country file already has an excluded IPv4 country.
- `NoCoreLeft`, by `lost`: a panic in `startIntelPool` leaves a core and its
  token behind, as said of Daemon above.
- `ServedAsProbed`, by `Gap`: the JSON view knows one name of each transport
  and dials `raw`, `websocket` and `mkcp` as plain TCP without their security;
  no format but share links sends the header of tcp and mKCP or the seed of
  mKCP, which the prober sends; the prober ignores the path and host of HTTP/2
  and the obfuscation of Hysteria2, which the formats send; a Hysteria2 record
  with a transport of its own (`type=quic`) or a security other than TLS is
  probed with it and dialled without; the JSON view sends the ALPN of Hysteria2
  only beside a server name; under reality only the prober sends spiderX, and
  only sing-box and Clash send ALPN; sing-box and Clash lose VLESS encryption
  and the gRPC mode; a VMess link turns reality into TLS and forgets `insecure`;
  a Shadowsocks link keeps its method only.
- `ProbedAsConfigured`, by `ConversionGap`: the way from an Xray outbound to a
  link loses `allowInsecure`, ALPN, spiderX, the cipher of VMess, `multiMode`,
  the seed and header of mKCP, the paths and hosts of `httpupgrade`, HTTP/2
  and `websocket`, for VLESS and Trojan a host of `ws` that is not among its
  headers, VMess with reality or a service name, and of Hysteria2 the
  obfuscation and any fingerprint or security other than TLS.
- `DocumentsResolve`: a sing-box view of profile `ru` that lists nothing refers
  to the selector `proxy`, which it then does not have.

## What is proved

`tlapm M.tla` checks a proof module. The assumptions are the named `ASSUME`s of
the modules, which TLC evaluates in every run. Each inductive invariant was
checked with TLC before it was proved.

- **ProxyHealthProofs**: the type invariant, `TwoBlackholesAreDead`,
  `CooldownServed`, `HealthyNeedsTwoGoods` and `FirstDeathIsEarned`. The
  inductive invariant `HealthInv` relates the counters to the history: a good
  count of one has been seen, a last blackhole has been counted unless the
  proxy is dead, a proxy that never died has counted no more blackholes than it
  had since its last GOOD. The action properties follow from the invariant and
  one case per row of the table.
  What a transition does to the type of a runtime and to its counters is a
  lemma about the operators of Quality.
- **CountryEvidenceProofs**: all five invariants and `ReopeningNeedsTwo`. The
  inductive invariant is `StatusIsTrue` with the type and what is known of the
  observation before the last; lemmas say what `Observe` does to a single
  family, `Apply` moves it to a route, and the properties of the filter follow
  from the status being true.
- **DaemonProofs**: of the slot protocol, `AtMostOneCore` and
  `ReleaseNeverBlocks` for every set of clients. The invariant says that the
  token is out exactly when some one client has it (has a core, or is between
  acquiring and releasing), which neither property says by itself. The jobs
  implement the protocol (`Spec => SlotSpec`, each step of a job being a step of
  the slot or a stutter), so the two properties carry over; and an inductive
  invariant that ties the `pc` of each job to the phase of its clients and to
  `refreshMu` gives `TypeOK`, `NoHoldAndWait` and `NoCoreLeft`. A core that was
  lost has the token for good, so the invariant counts it beside the clients.
- **PublicationProofs**: all five properties of the run, for any finite set of
  proxies, any codes, exits, probe results, cooldown and number of restarts and
  failing saves. `PubInv` adds to the properties that the country store has the
  evidence of every runtime (`StoreFollows`), that once something was probed
  since the start every entry has a runtime (`EntriesKnown`), and that the
  saved evidence of an entry is that of now or wanted a WARP reprobe
  (`SavedBehind`). A proxy that dies does so by a probe result of the same step
  (`OnlyBlackholesKill`), and such results are applied only with a witness
  among them. A lemma says that the filter keeps out what wants a reprobe,
  but for the exception above, which is what a restart needs.
- **SharedStateProofs**: the four properties for every `MaxVersion`, among them
  that the jobs implement `Published`. The invariant says who has `refreshMu` at
  which step, that the reprobe and the merge work on the snapshot that is
  served, and at which steps the snapshot may lag behind the results;
  `CacheMovesForward` gives the step that the refinement maps to `Serve`.
- **ViewsProofs**: all five invariants of the run, for listings of any length
  over any labels, addresses, codes and requests. `ViewsInv` is short (the
  snapshot is empty or that of what the refreshes find, an answer with a body is
  the answer to some request about that snapshot); the work is in the operators,
  in six sections from the inside outwards. Section 1 says field by field what
  the prober and each format dial, parameter by parameter where only one of
  two translations knows it, and arrives at `GapIsExact`: for *every*
  record `Parse` can make, not only for the values a listing of the run has, the
  client dials something else exactly when `Gap` says so. Section 2 does the
  same for outbounds made links (`ConversionGapIsExact`). Section 3 shows that
  `Kept` lists each chosen position once (every number up to the size of the set
  is the rank of one position) and that `RenameAll` gives no two routes one
  name. Section 4 composes these to what `Render` lists, whether it was made
  when the snapshot was published or at the request. Section 5 follows the tags
  of the three kinds of document, for any number of entries: unique, defined,
  and reaching the entries and WARP as asked. Section 6 has the theorems.
- **IntakeProofs**: all four invariants of the run, for any number of sources,
  lines, hosts, resolvers, probes and exits. `IntakeInv` has a part for each: a
  usable snapshot is what the source said last; whatever may be parsed is made
  of lines that parse or do not (`LinesInv`); a race in which an address was
  found has it in the channel or has answered; a probe between joining and
  leaving the group owns the lookup of its exit, writes the memo once, and what
  anybody was told is what the memo has. `AttributionAgrees` is about functions
  of the merged sources. Its proof says that a feed has as many first lines as
  keys (`FirstsAre`); that one source more adds its keys, and those of its lines
  whose keys were not there (`ConcatIs`, `AllLinesAre`); that what is new in
  each source is new in no other, so that the fold which adds the counts up is
  the number of all keys (`SumIs`); and that among the sources which count an
  identity there is a last one.
- **ChecksProofs**: `VerdictOfAll`, for any providers, any number of answers
  and any order of them. `VerdictInv` says besides that there is no verdict before
  the first answer. A verdict is changed one answer at a time while the
  property looks at all answers at once; the lemmas say that one answer more
  does the same to both, part by part: flags, score, risk and type.

The last two of these need induction over numbers, where the library's theorem
has an operator for a parameter, which the provers do not instantiate. The
proofs use instead that a nonempty set of numbers has a least one, which follows
from `NatLessThanWellFounded` and `WFMin`, two theorems about sets
(`LeastExists` and `Induction` in IntakeProofs, `LargestExists` in ChecksProofs).

The proofs of Views corrected the model in two places. The alternatives of
`OutboundToURL` overlapped, so that its CASE left open which of two links some
outbounds become; they exclude each other now, as the switch of the code does.
And the parts of `Gap` and `ConversionGap` about Shadowsocks compared the two
connections themselves, so that the equivalence said nothing there; they name
the parameters that are lost now, as the other protocols do.

Only model-checked is liveness (`PersistentGoodRecovers`, `JobsEnd`,
`RefreshEnds`, `CheckedInTurn`, `MeasuredInTurn`), which is outside of what the
prover does.

## Not modelled, and why

- Splitting of URLs, base64, the escapes of a link, configuration parsing and
  the Prometheus text: character data and layout. What a parameter does to the
  connection is in Links.
- The HTTP checkers of services, the reputation and geo providers, DNSBL and
  port scans: clients of third parties, most of which classify one response.
  Their outcomes, and what is done with them, are in Checks, Intel and ExitProbe.
  One of them merges by itself: check.place asks five databases and joins their
  answers, the first type that arrives being the one that stays
  (`internal/ipintel/checkplace.go:308-338`). To Intel that is one answer, so
  `VerdictOfAll` says nothing of what is lost inside it.
- `Score` and the latency and throughput statistics: floating-point smoothing
  that orders entries and decides nothing else. The selection of candidates for
  bandwidth is in Checks.
- The choice of flag, city and provider for a name: one label in Views; when
  two names are told apart is modelled.
- What Xray refuses to load or leaves open when it fails to start: a property
  of the library. That it fails is `StartFailed` and `GiveUp`.
- A country file that cannot be read: `Restart` reads what was last renamed
  into place.
- `ResolveStream` of `internal/dns`: the program does not call it.
- The caches of exit addresses over a restart: SharedState starts once, and
  after a restart they are empty until the first checks.
