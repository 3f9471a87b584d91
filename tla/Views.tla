------------------------------- MODULE Views -------------------------------
(***************************************************************************)
(* Subscription views: what GET /sub answers.  cmd/.../main.go reads the   *)
(* published snapshot, internal/subview chooses options and entries, and   *)
(* internal/format writes the body; internal/rename gave the entries of    *)
(* the snapshot their names.                                               *)
(*                                                                         *)
(* A body is a sequence of listed entries and, but for share links, a set  *)
(* of documents: complete client configurations, whose outbounds refer to  *)
(* each other by tag.  A tag is a tuple: <<"proxy">>, or the name of an    *)
(* entry <<label, exit, count>>.                                           *)
(*                                                                         *)
(* The snapshot is replaced as a whole and a handler loads it once, so a   *)
(* request is one step, and requests do not meet: there is one in hand at  *)
(* a time.  Publish stands for a refresh: only the fields a view reads are *)
(* in the snapshot (Publication and SharedState have the rest).            *)
(***************************************************************************)
EXTENDS Positions, Conversion, Country, Sequences, SequencesExt

CONSTANTS
  Listings,   \* the probed records a refresh may publish, as sequences
  Requests,   \* the requests of clients
  Labels,     \* what a route may be called: flag, city and provider
  ExitID      \* ExitID[ip]: the first bytes of the hash of an exit address

VARIABLES
  probed,     \* what a refresh finds: one of Listings, in all of a behaviour
  cache,      \* the published snapshot
  response    \* the answer to the request in hand

vars == <<probed, cache, response>>

RequestSpace ==
  [ Format : Formats \cup {"other"}, Warp : {"unset", "on", "off", "other"},
    Profile : {"unset", "ru", "none", "other"}, Exclude : SUBSET Codes,
    Client : {"unknown", "v2rayng", "incy", "exclave", "husi"} ]

(* A probed record: where it is from, a share link or an Xray outbound,    *)
(* and what the refresh found out about it.  Geo is the label of a route   *)
(* (flag, city and provider) with its exit address, if that is known.      *)
ShareLink(link) == [Kind |-> "link", Link |-> link]
Outbound(outbound) == [Kind |-> "xray", Link |-> outbound]

LinkOf(source) ==
  IF source.Kind = "xray" THEN OutboundToURL(source.Link) ELSE source.Link

RecordOf(source) ==
  IF LinkOf(source) = NoLink THEN NoRecord ELSE Parse(LinkOf(source))

Probed(source, direct, warp, countries, directGeo, warpGeo) ==
  [ Source |-> source, Healthy |-> [direct |-> direct, warp |-> warp],
    Countries |-> countries, Geo |-> [direct |-> directGeo, warp |-> warpGeo] ]

Geo(label, ip) == [Label |-> label, IP |-> ip]

(* Any link at all, with any health and any well-formed evidence.          *)
ProbedRecords ==
  [ Source : [Kind : {"link", "xray"}, Link : Records],
    Healthy : [Routes -> BOOLEAN], Countries : RouteCountries,
    Geo : [Routes -> [Label : Labels, IP : {"unset"} \cup DOMAIN ExitID]] ]

ASSUME RequestsAssumption == Requests \subseteq RequestSpace
ASSUME ListingsAssumption == Listings \subseteq Seq(ProbedRecords)

NoData == [Entries |-> <<>>, Output |-> <<>>]
NoResponse == [Status |-> 0]

(***************************************************************************)
(* Names: routes that share a label and not an exit address are told apart *)
(* by the hash of the address, and equal names are counted.                *)
(***************************************************************************)
RenameAll(geos) ==
  LET exits(label) ==
        {geos[j].IP : j \in {k \in DOMAIN geos : geos[k].Label = label}} \ {"unset"}
      base(i) == << geos[i].Label,
                    IF geos[i].IP # "unset" /\ Cardinality(exits(geos[i].Label)) > 1
                    THEN ExitID[geos[i].IP] ELSE "unset" >>
      count(i) == Cardinality({j \in 1 .. i : base(j) = base(i)})
  IN  [i \in DOMAIN geos |-> <<base(i)[1], base(i)[2], count(i)>>]

(* The entries of a snapshot: the records that parse, under their names.   *)
EntriesOf(listing) ==
  LET parsed == Kept(listing, {i \in DOMAIN listing : RecordOf(listing[i].Source) # NoRecord})
      names == [route \in Routes |->
                  RenameAll([i \in DOMAIN parsed |-> parsed[i].Geo[route]])]
  IN  [i \in DOMAIN parsed |->
         [ Source |-> parsed[i].Source, Record |-> RecordOf(parsed[i].Source),
           Healthy |-> parsed[i].Healthy, Countries |-> parsed[i].Countries,
           Name |-> [route \in Routes |-> names[route][i]] ]]

RouteOf(warp) == IF warp THEN "warp" ELSE "direct"

Listed(entry, route) == [Record |-> entry.Record, Name |-> entry.Name[route]]

HealthyOn(entries, route) ==
  Kept(entries, {i \in DOMAIN entries : entries[i].Healthy[route]})

(* Output: the share links of the direct view, made when it is published.  *)
Snapshot(entries) ==
  LET healthy == HealthyOn(entries, "direct")
  IN  [ Entries |-> entries,
        Output |-> [i \in DOMAIN healthy |-> Listed(healthy[i], "direct")] ]

Publish ==
  /\ EntriesOf(probed) # <<>>
  /\ cache' = Snapshot(EntriesOf(probed))
  /\ UNCHANGED <<probed, response>>

(***************************************************************************)
(* Options: ParseForClient.  Exclave and husi flatten the outbounds of an  *)
(* Xray document, and lose the chain through WARP with it.                 *)
(***************************************************************************)
BadRequest == [Format |-> "other"]

Flattens(request) ==
  request.Format = "json" /\ request.Client \in {"exclave", "husi"}

WarpOption(request) ==
  IF request.Warp = "unset" THEN request.Format # "url" /\ ~Flattens(request)
  ELSE request.Warp = "on"

Rejected(request) ==
  \/ request.Format = "other" \/ request.Warp = "other" \/ request.Profile = "other"
  \/ request.Warp = "on" /\ (Flattens(request) \/ request.Format = "url")
  \/ request.Profile # "unset" /\ request.Format = "url"

(* Defective variant: the default of the format wins over the client. *)
ParseForAnyClient(request) ==
  IF Rejected(request) THEN BadRequest
  ELSE [ Format |-> request.Format,
         Warp |-> request.Format # "url" /\ request.Warp # "off",
         Profile |-> IF request.Profile = "unset" THEN "ru" ELSE request.Profile,
         Exclude |-> request.Exclude ]

ParseForClient(request) ==
  IF Rejected(request) THEN BadRequest
  ELSE [ Format |-> request.Format, Warp |-> WarpOption(request),
         Profile |-> IF request.Profile = "unset" THEN "ru" ELSE request.Profile,
         Exclude |-> request.Exclude ]

(***************************************************************************)
(* Documents.  Tags are the outbounds a document defines, in order; Edges  *)
(* the tags an outbound goes through; Default where the rules send what no *)
(* other rule takes; Refs every tag its rules, DNS servers and rule sets   *)
(* name; Proxies the tags of listed records.                               *)
(***************************************************************************)
Document(tags, edges, default, refs, proxies) ==
  [ Tags |-> tags, Edges |-> edges, Default |-> default,
    Refs |-> refs \cup {default}, Proxies |-> proxies ]

Through(tag, targets) == {tag} \X targets

(* The tags that the rules and the DNS of a profile name by themselves.    *)
XrayRefs(profile) ==
  IF profile = "none" THEN {} ELSE { <<"block", 0>>, <<"direct", 0>> }

SingboxRefs(profile) ==
  {<<"direct">>} \cup (IF profile = "none" THEN {} ELSE {<<"proxy">>})

ClashRefs(profile) ==
  {<<"DIRECT">>} \cup (IF profile = "none" THEN {} ELSE {<<"REJECT">>})

(* One entry, one document: proxy-i first, warp-out-i dialling through it. *)
XrayConfig(i, warp, profile) ==
  LET proxy == <<"proxy", i>>
      chain == <<"warp-out", i>>
  IN  Document(
        <<proxy>> \o (IF warp THEN <<chain>> ELSE <<>>)
                  \o << <<"direct", 0>>, <<"block", 0>> >>,
        IF warp THEN Through(chain, {proxy}) ELSE {},
        IF warp THEN chain ELSE proxy,
        XrayRefs(profile), {proxy})

(* Selector "proxy" over "auto" over the listed names.  The rule sets of   *)
(* profile ru are downloaded through "proxy", also when there is none.     *)
SingboxDocument(names, warp, profile, chained) ==
  LET listed == ToSet(names)
      empty == names = <<>>
      catchAll == IF empty THEN <<"direct">>
                  ELSE IF warp THEN <<"warp-out">> ELSE <<"proxy">>
  IN  Document(
        names \o (IF empty THEN <<>> ELSE << <<"auto">>, <<"proxy">> >>)
              \o << <<"direct">> >>
              \o (IF chained THEN << <<"warp-out">> >> ELSE <<>>),
        (IF empty THEN {} ELSE Through(<<"auto">>, listed)
                               \cup Through(<<"proxy">>, {<<"auto">>} \cup listed))
          \cup (IF chained THEN Through(<<"warp-out">>, {<<"proxy">>}) ELSE {}),
        catchAll, SingboxRefs(profile), listed)

(* Defective variant: WARP is chained to a selector that is not there.     *)
SingboxConfigAlwaysChained(names, warp, profile) ==
  SingboxDocument(names, warp, profile, warp)

SingboxConfig(names, warp, profile) ==
  SingboxDocument(names, warp, profile, warp /\ names # <<>>)

(* Groups PROXY and AUTO; DIRECT and REJECT are mihomo's own.              *)
ClashConfig(names, warp, profile) ==
  LET listed == ToSet(names)
      empty == names = <<>>
      chained == warp /\ ~empty
      final == IF empty THEN <<"DIRECT">>
               ELSE IF warp THEN <<"warp">> ELSE <<"PROXY">>
  IN  Document(
        names \o (IF chained THEN << <<"warp">> >> ELSE <<>>)
              \o (IF empty THEN <<>> ELSE << <<"AUTO">>, <<"PROXY">> >>)
              \o << <<"DIRECT">>, <<"REJECT">> >>,
        (IF empty THEN {} ELSE Through(<<"AUTO">>, listed)
                               \cup Through(<<"PROXY">>, {<<"AUTO">>} \cup listed))
          \cup (IF chained THEN Through(<<"warp">>, {<<"PROXY">>}) ELSE {}),
        final, ClashRefs(profile), listed)

Documents(options, listed) ==
  LET names == [i \in DOMAIN listed |-> listed[i].Name]
  IN  CASE options.Format = "url" -> {}
        [] options.Format = "json" ->
             {XrayConfig(i, options.Warp, options.Profile) : i \in DOMAIN listed}
        [] options.Format = "singbox" ->
             {SingboxConfig(names, options.Warp, options.Profile)}
        [] options.Format = "clash" ->
             {ClashConfig(names, options.Warp, options.Profile)}

(***************************************************************************)
(* Render.                                                                 *)
(***************************************************************************)
(* Defective variant: the evidence of the direct route decides every view. *)
ViewEntriesByDirect(data, options) ==
  Kept(data.Entries, {i \in DOMAIN data.Entries :
    /\ data.Entries[i].Healthy[RouteOf(options.Warp)]
    /\ Filter(data.Entries[i].Countries, "direct", options.Exclude).Include})

ViewEntries(data, options) ==
  Kept(data.Entries, {i \in DOMAIN data.Entries :
    /\ data.Entries[i].Healthy[RouteOf(options.Warp)]
    /\ Filter(data.Entries[i].Countries, RouteOf(options.Warp), options.Exclude).Include})

(* What the format has an outbound for. *)
Expressible(format, entries) ==
  Kept(entries, {i \in DOMAIN entries : FormatDial(format, entries[i].Record) # Omitted})

Render(data, options) ==
  IF options.Exclude = {} /\ options.Format = "url" /\ ~options.Warp
  THEN data.Output
  ELSE LET shown == Expressible(options.Format, ViewEntries(data, options))
       IN  [i \in DOMAIN shown |-> Listed(shown[i], RouteOf(options.Warp))]

Answer(data, request) ==
  LET options == ParseForClient(request)
  IN  IF data = NoData THEN [Status |-> 503]
      ELSE IF options = BadRequest THEN [Status |-> 400]
      ELSE [ Status |-> 200, Request |-> request, Options |-> options,
             Listed |-> Render(data, options),
             Documents |-> Documents(options, Render(data, options)) ]

Get(request) ==
  /\ response = NoResponse
  /\ response' = Answer(cache, request)
  /\ UNCHANGED <<probed, cache>>

(* The client has its answer. *)
Done ==
  /\ response # NoResponse
  /\ response' = NoResponse
  /\ UNCHANGED <<probed, cache>>

Init ==
  /\ probed \in Listings
  /\ cache = NoData
  /\ response = NoResponse

Next == Publish \/ Done \/ \E request \in Requests : Get(request)

Spec == Init /\ [][Next]_vars

-----------------------------------------------------------------------------
Answered == response.Status = 200

(* Every link that a listed entry stands for, read back or dialled by the  *)
(* client of any format, makes the connection that was probed when the     *)
(* route was found healthy, but for the records Gap lists for the format;  *)
(* and those it really dials otherwise.                                    *)
ServedAsProbed ==
  Answered => \A i \in DOMAIN response.Listed :
    LET format == response.Options.Format
        record == response.Listed[i].Record
    IN  FormatDial(format, record) # ProberDial(record) <=> Gap(format, record)

(* A source that serves an Xray configuration is probed with the           *)
(* connection its outbound describes, but for the outbounds ConversionGap  *)
(* lists; and those really are not.                                        *)
ProbedAsConfigured ==
  \A i \in DOMAIN cache.Entries :
    LET entry == cache.Entries[i]
    IN  entry.Source.Kind = "xray" =>
          ( ProberDial(entry.Record) # ConfiguredDial(entry.Source.Link)
              <=> ConversionGap(entry.Source.Link) )

(* No evidence of the route names an excluded country, not the observation *)
(* that has yet to be confirmed either, and all of it is settled.          *)
Clean(countries, route, excluded) ==
  LET seen == {f \in Families : countries[route][f].Available}
  IN  /\ seen # {}
      /\ \A f \in seen :
           LET evidence == countries[route][f]
           IN  /\ Stable(evidence)
               /\ excluded \cap { evidence.Country, evidence.ObservedCountry,
                                  evidence.CandidateCountry } = {}

(* A view lists the entries that are healthy on the route it sends traffic *)
(* through and, when countries are excluded, are known to exit elsewhere   *)
(* on that route: those that the format can express, all of them, each     *)
(* once and under a name of its own.                                       *)
ViewIsClean ==
  Answered =>
    LET options == response.Options
        route == RouteOf(options.Warp)
        due(e) == /\ e.Healthy[route]
                  /\ options.Exclude = {} \/ Clean(e.Countries, route, options.Exclude)
                  /\ FormatDial(options.Format, e.Record) # Omitted
        names == [i \in DOMAIN response.Listed |-> response.Listed[i].Name]
    IN  /\ ToSet(response.Listed) =
             {Listed(cache.Entries[i], route) : i \in {j \in DOMAIN cache.Entries :
                                                         due(cache.Entries[j])}}
        /\ IsInjective(names)

(* The tags traffic to `tag` can reach: no way through a document is       *)
(* longer than from WARP to the selector, to the automatic group, to an    *)
(* entry.                                                                  *)
Onward(document, tags) ==
  tags \cup {edge[2] : edge \in {e \in document.Edges : e[1] \in tags}}

Reach(document, tag) ==
  Onward(document, Onward(document, Onward(document, {tag})))

IsWarp(tag) == Len(tag) < 3 /\ tag[1] \in {"warp-out", "warp"}

(* A document is whole: its tags are unique and every tag it names is one  *)
(* of its own.  The one exception is a sing-box view of profile ru that    *)
(* lists nothing: its rule sets are to be downloaded through a selector    *)
(* the document does not have, which no client loads                       *)
(* (docs/specs/2026-08-12-subscription-views-country-filter-design.md:285  *)
(* wants a valid body).                                                    *)
DocumentsResolve ==
  Answered => \A document \in response.Documents :
    LET named == document.Refs \cup {edge[2] : edge \in document.Edges}
        dangling == named \ ToSet(document.Tags)
    IN  /\ IsInjective(document.Tags)
        /\ dangling = IF /\ response.Options.Format = "singbox"
                         /\ response.Options.Profile = "ru"
                         /\ response.Listed = <<>>
                      THEN {<<"proxy">>} ELSE {}

(* Traffic no rule takes leaves through a listed proxy and nothing else,   *)
(* and through WARP exactly when the view is a WARP view: never when the   *)
(* request turned it off, or when the client would flatten the chain.      *)
TrafficAsAsked ==
  Answered => \A document \in response.Documents :
    LET path == Reach(document, document.Default)
        leaves == {tag \in path : \A edge \in document.Edges : edge[1] # tag}
        chained == \E tag \in path : IsWarp(tag)
    IN  response.Listed # <<>> =>
          /\ leaves # {} /\ leaves \subseteq document.Proxies
          /\ chained <=> response.Options.Warp
          /\ chained => ~Flattens(response.Request) /\ response.Request.Warp # "off"
=============================================================================
