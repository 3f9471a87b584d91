----------------------------- MODULE ViewsProofs -----------------------------
(***************************************************************************)
(* Proofs about Views, for every set of listings, requests and labels:     *)
(* every property that the run of Views checks.  The invariant is short;   *)
(* the work is in the operators.  The proofs go from the inside outwards:  *)
(*                                                                         *)
(*   1. what the prober and each format dial for a record (GapIsExact)     *)
(*   2. what is left of an outbound that is made a link and read again     *)
(*      (ConversionGapIsExact)                                             *)
(*   3. Kept, and the names RenameAll gives                                *)
(*   4. the entries of a snapshot, and what Render lists of them           *)
(*   5. the documents of the three formats that have them                  *)
(*   6. the invariant and the theorems of the specification                *)
(***************************************************************************)
EXTENDS Views, FiniteSetTheorems, SequenceTheorems, TLAPS

(***************************************************************************)
(* 1. Connections.  A Dial differs from another when one of its five       *)
(* fields does.  Each of three fields is what the record has of what the   *)
(* translation tells of a layer, so two translations of one record differ  *)
(* when the record has what only one of them tells.                        *)
(***************************************************************************)
(* A record as Parse leaves it.                                            *)
ParsedRecord(record) ==
  /\ record \in Records
  /\ record.Protocol \in {"vless", "vmess", "trojan"} => record.Type # "splithttp"
  /\ record.Protocol = "vmess" => /\ record.Type # "unset" /\ record.Security # "none"
                                  /\ record.Extra # "broken"
                                  /\ record.Given \subseteq VMessFields
  /\ record.Protocol = "hysteria2" => record.Security # "unset"
  /\ record.Protocol # "ss" => record.Insecure # "0"
  /\ record.Protocol \in {"vless", "trojan"} /\ IsXHTTP(record.Type) => record.Extra # "broken"

(* What parsing does to each field of a link.                              *)
LEMMA ParsedFields ==
  ASSUME NEW link \in Records, Parse(link) # NoRecord
  PROVE  LET r == Parse(link)
         IN  /\ ~Refused(link)
             /\ r.Protocol = link.Protocol /\ r.Type = ParsedType(link)
             /\ r.Header = link.Header /\ r.Security = ParsedSecurity(link)
             /\ r.Insecure = NormalizeInsecure(link)
             /\ r.Extra = link.Extra /\ r.Given = ParsedParameters(link)
  BY DEF Parse, Records

(* Whatever the link, the parser leaves a record it could have made: the   *)
(* conditions of ParsedRecord.                                             *)
LEMMA ParseResult ==
  ASSUME NEW link \in Records, Parse(link) # NoRecord
  PROVE  ParsedRecord(Parse(link))
<1> DEFINE r == Parse(link)
<1>1. /\ link.Protocol \in Protocols /\ link.Type \in Types
      /\ link.Security \in {"unset", "none", "tls", "reality"}
      /\ link.Insecure \in {"unset", "0", "1"}
      /\ link.Given \in SUBSET Parameters
  BY DEF Records
<1>2. /\ ParsedType(link) \in Types
      /\ NormalizesXHTTP(link) => ParsedType(link) # "splithttp"
      /\ link.Protocol = "vmess" => ParsedType(link) # "unset"
      /\ NormalizesXHTTP(link) /\ IsXHTTP(ParsedType(link)) => IsXHTTP(link.Type)
  BY <1>1 DEF ParsedType, Types, NormalizesXHTTP, IsXHTTP
<1>3. /\ ParsedSecurity(link) \in {"unset", "none", "tls", "reality"}
      /\ link.Protocol = "vmess" => ParsedSecurity(link) # "none"
      /\ link.Protocol = "hysteria2" => ParsedSecurity(link) # "unset"
  BY <1>1 DEF ParsedSecurity
<1>4. /\ NormalizeInsecure(link) \in {"unset", "0", "1"}
      /\ link.Protocol # "ss" => NormalizeInsecure(link) # "0"
  BY <1>1 DEF NormalizeInsecure
<1>5. /\ ParsedParameters(link) \in SUBSET Parameters
      /\ link.Protocol = "vmess" => ParsedParameters(link) \subseteq VMessFields
  BY <1>1 DEF ParsedParameters
<1>6. r \in Records
  BY <1>2, <1>3, <1>4, <1>5 DEF Parse, Records
<1> HIDE DEF r
<1>7. QED
  BY <1>1, <1>2, <1>3, <1>4, <1>5, <1>6, ParsedFields
  DEF ParsedRecord, r, Refused, NormalizesXHTTP

IsDial(d) == d = Dial(d.Network, d.Security, d.Transport, d.TLS, d.User)

(* A connection has the parameters it is made of.                          *)
LEMMA DialIs ==
  ASSUME NEW network, NEW security, NEW transport, NEW tls, NEW user
  PROVE  LET d == Dial(network, security, transport, tls, user)
         IN  /\ IsDial(d)
             /\ d.Network = network /\ d.Security = security
             /\ d.Transport = transport /\ d.TLS = tls /\ d.User = user
  BY DEF Dial, IsDial

(* Two connections differ when they differ in one of their parameters.     *)
LEMMA DialsDiffer ==
  ASSUME NEW d, NEW e, IsDial(d), IsDial(e)
  PROVE  d # e <=> \/ d.Network # e.Network
                   \/ d.Security # e.Security
                   \/ d.Transport # e.Transport
                   \/ d.TLS # e.TLS
                   \/ d.User # e.User
<1>1. /\ d = Dial(d.Network, d.Security, d.Transport, d.TLS, d.User)
      /\ e = Dial(e.Network, e.Security, e.Transport, e.TLS, e.User)
  BY DEF IsDial
<1>2. QED
  BY <1>1, Zenon

(* Which names of a transport are names of the same one.                   *)
LEMMA CanonicalIs ==
  ASSUME NEW type \in Types
  PROVE  /\ Canonical(type) = "tcp" <=> type \in {"unset", "tcp", "raw"}
         /\ Canonical(type) = "h2" <=> type \in {"h2", "http"}
         /\ Canonical(type) = "ws" <=> type \in {"ws", "websocket"}
         /\ Canonical(type) = "kcp" <=> type \in {"kcp", "mkcp"}
         /\ Canonical(type) = "xhttp" <=> type \in {"xhttp", "splithttp"}
         /\ Canonical(type) = "grpc" <=> type = "grpc"
         /\ Canonical(type) = "httpupgrade" <=> type = "httpupgrade"
         /\ Canonical(type) = "hysteria" <=> type = "hysteria"
         /\ Canonical(type) = "quic" <=> type = "quic"
         /\ Canonical(type) # "unset"
  BY DEF Types, Canonical, IsXHTTP

(* No security and security none are one; the two others are kept.         *)
LEMMA MapSecurityIs ==
  ASSUME NEW security \in {"unset", "none", "tls", "reality"}
  PROVE  /\ MapSecurity(security) \in {"none", "tls", "reality"}
         /\ MapSecurity(security) = "tls" <=> security = "tls"
         /\ MapSecurity(security) = "reality" <=> security = "reality"
         /\ MapSecurity(security) = "none" <=> security \in {"unset", "none"}
  BY DEF MapSecurity

(* What the prober dials, field by field.                                  *)
LEMMA ProberFields ==
  ASSUME NEW record
  PROVE  LET p == ProberDial(record)
         IN  /\ IsDial(p)
             /\ p.Network = Canonical(ProberNetwork(record))
             /\ p.Security = ProberSecurity(record)
             /\ p.Transport = Has(record) \cap ProberTransport(record)
             /\ p.TLS = Has(record) \cap ProberTLS(ProberSecurity(record))
             /\ p.User = Has(record) \cap XrayUser(record)
  BY DialIs DEF ProberDial

(* What the prober does with each transport of a protocol that is not      *)
(* Hysteria2.                                                              *)
LEMMA ProberTells ==
  ASSUME NEW record \in Records, ~IsHysteria(record)
  PROVE  LET type == record.Type
             told == ProberTransport(record)
         IN  /\ Canonical(ProberNetwork(record)) = Canonical(type)
             /\ ProberSecurity(record) = MapSecurity(record.Security)
             /\ type \in {"unset", "tcp"} => told = {"header"}
             /\ type = "kcp" => told = {"header", "seed"}
             /\ type \in {"ws", "httpupgrade"} => told = {"path", "host"}
             /\ type = "grpc" => told = ServiceName(record) \cup {"mode"}
             /\ type = "xhttp" => told = SettingsFromParams(record)
             /\ type \in {"raw", "websocket", "http", "h2", "mkcp", "splithttp", "quic",
                          "hysteria"} => told = {}
<1>1. /\ ProberNetwork(record) = IF record.Type = "unset" THEN "tcp" ELSE record.Type
      /\ ProberSecurity(record) = MapSecurity(record.Security)
  BY DEF ProberNetwork, ProberSecurity
<1>2. Canonical(ProberNetwork(record)) = Canonical(record.Type)
  <2>1. Canonical("unset") = "tcp" /\ Canonical("tcp") = "tcp"
    BY CanonicalIs DEF Types
  <2>2. QED
    BY <1>1, <2>1
<1>3. QED
  BY <1>1, <1>2 DEF ProberTransport

(* What the JSON view dials, field by field: a transport it does not know  *)
(* the name of is plain TCP.                                               *)
LEMMA XrayFields ==
  ASSUME NEW record \in Records
  PROVE  LET x == XrayDial(record)
             plain == record.Type \in {"raw", "websocket", "mkcp", "quic", "hysteria"}
             security == MapSecurity(record.Security)
         IN  /\ IsDial(x)
             /\ IsHysteria(record) =>
                  /\ x.Network = "hysteria" /\ x.Security = "tls" /\ x.Transport = {}
                  /\ x.TLS = Has(record) \cap XrayHysteriaTLS(record)
                  /\ x.User = Has(record) \cap {"obfs"}
             /\ ~IsHysteria(record) /\ plain =>
                  /\ x.Network = "tcp" /\ x.Security = "none"
                  /\ x.Transport = {} /\ x.TLS = {}
                  /\ x.User = Has(record) \cap XrayUser(record)
             /\ ~IsHysteria(record) /\ ~plain =>
                  /\ x.Network = Canonical(record.Type) /\ x.Security = security
                  /\ x.Transport = Has(record) \cap XrayTransport(record)
                  /\ x.TLS = Has(record) \cap XrayTLS(security)
                  /\ x.User = Has(record) \cap XrayUser(record)
<1> DEFINE plain == record.Type \in {"raw", "websocket", "mkcp", "quic", "hysteria"}
<1>1. CASE IsHysteria(record)
  BY <1>1, DialIs DEF XrayDial, XrayHysteriaDial
<1>2. CASE ~IsHysteria(record) /\ plain
  <2>1. MapTransport(record.Type) = "unset"
    BY <1>2 DEF MapTransport
  <2>2. XrayDial(record) = Dial("tcp", "none", {}, {}, Has(record) \cap XrayUser(record))
    BY <1>2, <2>1 DEF XrayDial, XrayPlainDial
  <2>3. QED
    BY <1>2, <2>2, DialIs
<1>3. CASE ~IsHysteria(record) /\ ~plain
  <2>1. /\ MapTransport(record.Type) = Canonical(record.Type)
        /\ Canonical(record.Type) # "unset"
    BY <1>3, CanonicalIs DEF MapTransport, Records
  <2>2. XrayDial(record)
          = Dial(Canonical(record.Type), MapSecurity(record.Security),
                 Has(record) \cap XrayTransport(record),
                 Has(record) \cap XrayTLS(MapSecurity(record.Security)),
                 Has(record) \cap XrayUser(record))
    BY <1>3, <2>1 DEF XrayDial
  <2>3. QED
    BY <1>3, <2>2, DialIs
<1>4. QED
  BY <1>1, <1>2, <1>3

(* What the JSON view does with each transport it knows the name of.       *)
LEMMA XrayTells ==
  ASSUME NEW record \in Records
  PROVE  LET type == record.Type
             told == XrayTransport(record)
         IN  /\ type \in {"unset", "tcp", "kcp"} => told = {}
             /\ type \in {"ws", "h2", "http", "httpupgrade"} => told = {"path", "host"}
             /\ type = "grpc" => told = ServiceName(record) \cup {"mode"}
             /\ type \in {"xhttp", "splithttp"} => told = SettingsFromParams(record)
<1>1. record.Type \in {"unset", "tcp", "kcp", "ws", "h2", "http", "httpupgrade", "grpc", "xhttp",
                       "splithttp"}
        => MapTransport(record.Type) = Canonical(record.Type)
  BY DEF MapTransport
<1>2. /\ record.Type \in {"unset", "tcp"} => Canonical(record.Type) = "tcp"
      /\ record.Type = "kcp" => Canonical(record.Type) = "kcp"
      /\ record.Type = "ws" => Canonical(record.Type) = "ws"
      /\ record.Type \in {"h2", "http"} => Canonical(record.Type) = "h2"
      /\ record.Type = "httpupgrade" => Canonical(record.Type) = "httpupgrade"
      /\ record.Type = "grpc" => Canonical(record.Type) = "grpc"
      /\ record.Type \in {"xhttp", "splithttp"} => Canonical(record.Type) = "xhttp"
  BY CanonicalIs DEF Records
<1>3. QED
  BY <1>1, <1>2 DEF XrayTransport

(* The JSON view dials what was probed but for XrayGap, no more and no     *)
(* less.                                                                   *)
LEMMA XrayGapIsExact ==
  ASSUME NEW record, ParsedRecord(record), ~IsHysteria(record)
  PROVE  XrayDial(record) # ProberDial(record) <=> XrayGap(record)
<1>1. /\ record \in Records
      /\ record.Type \in Types /\ record.Security \in {"unset", "none", "tls", "reality"}
  BY DEF ParsedRecord, Records
<1> DEFINE x == XrayDial(record)
           p == ProberDial(record)
           type == record.Type
           plain == type \in {"raw", "websocket", "mkcp", "quic", "hysteria"}
           security == MapSecurity(record.Security)
<1>2. /\ IsDial(p) /\ p.Network = Canonical(type) /\ p.Security = security
      /\ p.Transport = Has(record) \cap ProberTransport(record)
      /\ p.TLS = Has(record) \cap ProberTLS(security)
      /\ p.User = Has(record) \cap XrayUser(record)
  BY <1>1, ProberFields, ProberTells
<1>3. /\ security = "reality" <=> record.Security = "reality"
      /\ security \in {"none", "tls", "reality"}
  BY <1>1, MapSecurityIs
<1>4. CASE plain
  <2>1. /\ IsDial(x) /\ x.Network = "tcp" /\ x.Security = "none"
        /\ x.Transport = {} /\ x.TLS = {} /\ x.User = Has(record) \cap XrayUser(record)
    BY <1>1, <1>4, XrayFields
  <2>2. p.Transport = {}
    BY <1>1, <1>2, <1>4, ProberTells
  <2>3. security = "none" => p.TLS = {}
    BY <1>2 DEF ProberTLS
  <2>4. Canonical(type) = "tcp" <=> type = "raw"
    BY <1>1, <1>4, CanonicalIs
  <2> HIDE DEF x, p
  <2>5. x # p <=> type # "raw" \/ security # "none"
    BY <1>2, <2>1, <2>2, <2>3, <2>4, DialsDiffer
  <2>6. XrayGap(record) <=> type # "raw" \/ security # "none"
    BY <1>3, <1>4 DEF XrayGap
  <2>7. QED
    BY <2>5, <2>6 DEF x, p
<1>5. CASE ~plain
  <2>1. /\ IsDial(x) /\ x.Network = Canonical(type) /\ x.Security = security
        /\ x.Transport = Has(record) \cap XrayTransport(record)
        /\ x.TLS = Has(record) \cap XrayTLS(security)
        /\ x.User = Has(record) \cap XrayUser(record)
    BY <1>1, <1>5, XrayFields
  <2> HIDE DEF x, p
  <2>2. x.TLS # p.TLS <=> record.Security = "reality" /\ Carries(record, {"spx"})
    <3>1. CASE security = "reality"
      <4>1. /\ x.TLS = Has(record) \cap {"fp"}
            /\ p.TLS = Has(record) \cap {"fp", "spx"}
        BY <1>2, <2>1, <3>1 DEF XrayTLS, ProberTLS
      <4>2. QED
        BY <1>3, <3>1, <4>1 DEF Carries
    <3>2. CASE security # "reality"
      BY <1>2, <1>3, <2>1, <3>2 DEF XrayTLS, ProberTLS
    <3>3. QED
      BY <3>1, <3>2
  <2>3. x.Transport # p.Transport
          <=> \/ type \in {"unset", "tcp"} /\ Carries(record, {"header"})
              \/ type = "kcp" /\ Carries(record, {"header", "seed"})
              \/ type \in {"h2", "http"} /\ Carries(record, {"path", "host"})
              \/ type = "splithttp" /\ Carries(record, SettingsFromParams(record))
    <3>1. CASE type \in {"unset", "tcp"}
      <4>1. x.Transport = {} /\ p.Transport = Has(record) \cap {"header"}
        BY <1>1, <1>2, <2>1, <3>1, XrayTells, ProberTells
      <4>2. QED
        BY <3>1, <4>1 DEF Carries
    <3>2. CASE type = "kcp"
      <4>1. x.Transport = {} /\ p.Transport = Has(record) \cap {"header", "seed"}
        BY <1>1, <1>2, <2>1, <3>2, XrayTells, ProberTells
      <4>2. QED
        BY <3>2, <4>1 DEF Carries
    <3>3. CASE type \in {"h2", "http"}
      <4>1. x.Transport = Has(record) \cap {"path", "host"} /\ p.Transport = {}
        BY <1>1, <1>2, <2>1, <3>3, XrayTells, ProberTells
      <4>2. QED
        BY <3>3, <4>1 DEF Carries
    <3>4. CASE type = "splithttp"
      <4>1. /\ x.Transport = Has(record) \cap SettingsFromParams(record)
            /\ p.Transport = {}
        BY <1>1, <1>2, <2>1, <3>4, XrayTells, ProberTells
      <4>2. QED
        BY <3>4, <4>1 DEF Carries
    <3>5. CASE type \in {"ws", "httpupgrade", "grpc", "xhttp"}
      <4>1. XrayTransport(record) = ProberTransport(record)
        BY <1>1, <3>5, XrayTells, ProberTells
      <4>2. QED
        BY <1>2, <2>1, <3>5, <4>1
    <3>6. QED
      BY <1>1, <1>5, <3>1, <3>2, <3>3, <3>4, <3>5 DEF Types
  <2>4. x # p <=> x.Transport # p.Transport \/ x.TLS # p.TLS
    BY <1>2, <2>1, DialsDiffer
  <2>5. XrayGap(record)
          <=> \/ type \in {"unset", "tcp"} /\ Carries(record, {"header"})
              \/ type = "kcp" /\ Carries(record, {"header", "seed"})
              \/ type \in {"h2", "http"} /\ Carries(record, {"path", "host"})
              \/ type = "splithttp" /\ Carries(record, SettingsFromParams(record))
              \/ record.Security = "reality" /\ Carries(record, {"spx"})
    BY <1>5 DEF XrayGap
  <2>6. QED
    BY <2>2, <2>3, <2>4, <2>5 DEF x, p
<1>6. QED
  BY <1>4, <1>5

(* What sing-box and mihomo are told, field by field; of Hysteria2 they    *)
(* make different things when it has no security.                          *)
LEMMA TunnelFields ==
  ASSUME NEW record, NEW format \in {"singbox", "clash"}, HasTransport(record)
  PROVE  LET t == FormatDial(format, record)
             security == ProberSecurity(record)
         IN  /\ IsDial(t)
             /\ t.Network = IF IsHysteria(record) THEN "hysteria" ELSE Canonical(record.Type)
             /\ t.Security = IF /\ IsHysteria(record) /\ format = "clash"
                                /\ security = "none"
                             THEN "tls" ELSE security
             /\ t.Transport = Has(record) \cap TunnelTransport(record)
             /\ t.TLS = Has(record) \cap TunnelTLS(security)
             /\ t.User = Has(record) \cap TunnelUser(record)
<1> DEFINE security == ProberSecurity(record)
           actual == IF IsHysteria(record) /\ format = "clash" /\ security = "none"
                     THEN "tls" ELSE security
<1>1. FormatDial(format, record) = TunnelDial(record, security, actual)
  BY DEF FormatDial, SingboxDial, ClashDial
<1> HIDE DEF security, actual
<1>2. TunnelDial(record, security, actual)
        = Dial(IF IsHysteria(record) THEN "hysteria" ELSE Canonical(record.Type), actual,
               Has(record) \cap TunnelTransport(record),
               Has(record) \cap TunnelTLS(security),
               Has(record) \cap TunnelUser(record))
  BY DEF TunnelDial
<1>3. QED
  BY <1>1, <1>2, DialIs DEF security, actual

(* sing-box and mihomo dial what was probed but for TunnelGap, no more and *)
(* no less, if they have the transport.                                    *)
LEMMA TunnelGapIsExact ==
  ASSUME NEW record, ParsedRecord(record), ~IsHysteria(record),
         NEW format \in {"singbox", "clash"}, HasTransport(record)
  PROVE  FormatDial(format, record) # ProberDial(record) <=> TunnelGap(record)
<1> DEFINE t == FormatDial(format, record)
           p == ProberDial(record)
           type == record.Type
           security == MapSecurity(record.Security)
<1>1. /\ record \in Records
      /\ record.Security \in {"unset", "none", "tls", "reality"}
      /\ type \in {"unset", "tcp", "ws", "grpc", "h2", "http", "httpupgrade"}
  BY DEF ParsedRecord, Records, HasTransport
<1>2. /\ IsDial(p) /\ p.Network = Canonical(type) /\ p.Security = security
      /\ p.Transport = Has(record) \cap ProberTransport(record)
      /\ p.TLS = Has(record) \cap ProberTLS(security)
      /\ p.User = Has(record) \cap XrayUser(record)
  BY <1>1, ProberFields, ProberTells
<1>3. /\ IsDial(t) /\ t.Network = Canonical(type) /\ t.Security = security
      /\ t.Transport = Has(record) \cap TunnelTransport(record)
      /\ t.TLS = Has(record) \cap TunnelTLS(security)
      /\ t.User = Has(record) \cap TunnelUser(record)
  BY <1>1, TunnelFields, ProberTells
<1>4. security = "reality" <=> record.Security = "reality"
  BY <1>1, MapSecurityIs
<1> HIDE DEF t, p
<1>5. t.TLS # p.TLS <=> record.Security = "reality" /\ Carries(record, {"alpn", "spx"})
  <2>1. CASE security = "reality"
    <3>1. /\ t.TLS = Has(record) \cap {"alpn", "fp"}
          /\ p.TLS = Has(record) \cap {"fp", "spx"}
      BY <1>2, <1>3, <2>1 DEF TunnelTLS, ProberTLS
    <3>2. QED
      BY <1>4, <2>1, <3>1 DEF Carries
  <2>2. CASE security # "reality"
    BY <1>2, <1>3, <1>4, <2>2 DEF TunnelTLS, ProberTLS
  <2>3. QED
    BY <2>1, <2>2
<1>6. t.Transport # p.Transport
        <=> \/ type \in {"unset", "tcp"} /\ Carries(record, {"header"})
            \/ type \in {"h2", "http"} /\ Carries(record, {"path", "host"})
            \/ type = "grpc" /\ Carries(record, {"mode"})
  <2>1. CASE type \in {"unset", "tcp"}
    <3>1. TunnelTransport(record) = {} /\ ProberTransport(record) = {"header"}
      BY <1>1, <2>1, ProberTells DEF TunnelTransport
    <3>2. QED
      BY <1>2, <1>3, <2>1, <3>1 DEF Carries
  <2>2. CASE type \in {"h2", "http"}
    <3>1. TunnelTransport(record) = {"path", "host"} /\ ProberTransport(record) = {}
      BY <1>1, <2>2, ProberTells DEF TunnelTransport
    <3>2. QED
      BY <1>2, <1>3, <2>2, <3>1 DEF Carries
  <2>3. CASE type \in {"ws", "httpupgrade"}
    <3>1. TunnelTransport(record) = {"path", "host"} /\ ProberTransport(record) = {"path", "host"}
      BY <1>1, <2>3, ProberTells DEF TunnelTransport
    <3>2. QED
      BY <1>2, <1>3, <2>3, <3>1
  <2>4. CASE type = "grpc"
    <3>1. /\ TunnelTransport(record) = ServiceName(record)
          /\ ProberTransport(record) = ServiceName(record) \cup {"mode"}
      BY <1>1, <2>4, ProberTells DEF TunnelTransport
    <3>2. "mode" \notin ServiceName(record)
      BY DEF ServiceName
    <3>3. QED
      BY <1>2, <1>3, <2>4, <3>1, <3>2 DEF Carries
  <2>5. QED
    BY <1>1, <2>1, <2>2, <2>3, <2>4
<1>7. t.User # p.User <=> record.Protocol = "vless" /\ Carries(record, {"encryption"})
  <2>1. CASE record.Protocol = "vless"
    <3>1. TunnelUser(record) = {} /\ XrayUser(record) = {"encryption"}
      BY <2>1 DEF TunnelUser, XrayUser
    <3>2. QED
      BY <1>2, <1>3, <2>1, <3>1 DEF Carries
  <2>2. CASE record.Protocol # "vless"
    <3>1. TunnelUser(record) = XrayUser(record)
      BY <2>2 DEF TunnelUser, XrayUser, IsHysteria
    <3>2. QED
      BY <1>2, <1>3, <2>2, <3>1
  <2>3. QED
    BY <2>1, <2>2
<1>8. t # p <=> t.Transport # p.Transport \/ t.TLS # p.TLS \/ t.User # p.User
  BY <1>2, <1>3, DialsDiffer
<1>9. t # p <=> TunnelGap(record)
  BY <1>5, <1>6, <1>7, <1>8 DEF TunnelGap
<1>10. QED
  BY <1>9 DEF t, p

(* A link that says what the parser would write is read as it is.          *)
LEMMA SameLink ==
  ASSUME NEW link \in Records, ~Refused(link), ParsedType(link) = link.Type,
         ParsedSecurity(link) = link.Security, NormalizeInsecure(link) = link.Insecure,
         ParsedParameters(link) = link.Given
  PROVE  Parse(link) = link
  BY DEF Parse, Records

(* A link made of a record is read back as it was, but for what the link   *)
(* of its protocol cannot say.                                             *)
LEMMA ReadBack ==
  ASSUME NEW record, ParsedRecord(record)
  PROVE  LET back == Parse(Reconstruct(record))
         IN  /\ record.Protocol \in {"vless", "trojan"} => back = record
             /\ record.Protocol = "ss" => back = ReconstructSS(record)
             /\ record.Protocol = "hysteria2" => back = [record EXCEPT !.Security = "tls"]
             /\ record.Protocol = "vmess" => back = ReconstructVMess(record)
<1>1. record \in Records
  BY DEF ParsedRecord
<1>2. CASE record.Protocol \in {"vless", "trojan"}
  <2>1. Reconstruct(record) = record
    BY <1>2 DEF Reconstruct
  <2>2. ~Refused(record) /\ ParsedType(record) = record.Type
    BY <1>2 DEF ParsedRecord, Refused, ParsedType, NormalizesXHTTP, IsXHTTP
  <2>3. ParsedSecurity(record) = record.Security /\ ParsedParameters(record) = record.Given
    BY <1>2 DEF ParsedSecurity, ParsedParameters
  <2>4. NormalizeInsecure(record) = record.Insecure
    BY <1>1, <1>2 DEF ParsedRecord, NormalizeInsecure, Records
  <2>5. Parse(record) = record
    BY <1>1, <2>2, <2>3, <2>4, SameLink
  <2>6. QED
    BY <1>2, <2>1, <2>5
<1>3. CASE record.Protocol = "ss"
  <2> DEFINE link == ReconstructSS(record)
  <2>1. Reconstruct(record) = link
    BY <1>3 DEF Reconstruct
  <2>2. /\ link.Protocol = "ss" /\ link.Type = "unset" /\ link.Security = "unset"
        /\ link.Insecure = "unset" /\ link.Extra = "unset" /\ link.Given = {}
        /\ link \in Records
    BY <1>1, <1>3 DEF ReconstructSS, Records, Types
  <2> HIDE DEF link
  <2>3. /\ ~Refused(link) /\ ParsedType(link) = link.Type
        /\ ParsedSecurity(link) = link.Security
        /\ NormalizeInsecure(link) = link.Insecure
        /\ ParsedParameters(link) = link.Given
    BY <2>2 DEF Refused, ParsedType, NormalizesXHTTP, ParsedSecurity, NormalizeInsecure,
                ParsedParameters
  <2>4. Parse(link) = link
    BY <2>2, <2>3, SameLink
  <2>5. QED
    BY <1>3, <2>1, <2>4 DEF link
<1>4. CASE record.Protocol = "hysteria2"
  <2> DEFINE link == [record EXCEPT !.Security = "unset"]
  <2>1. Reconstruct(record) = link
    BY <1>4 DEF Reconstruct
  <2>2. /\ link.Protocol = "hysteria2" /\ link.Type = record.Type /\ link.Security = "unset"
        /\ link.Insecure = record.Insecure /\ link.Given = record.Given /\ link \in Records
    BY <1>1, <1>4 DEF Records
  <2>3. [link EXCEPT !.Type = record.Type, !.Security = "tls", !.Insecure = record.Insecure,
                     !.Given = record.Given]
          = [record EXCEPT !.Security = "tls"]
    BY <1>1 DEF Records
  <2> HIDE DEF link
  <2>4. /\ ~Refused(link) /\ ParsedType(link) = record.Type /\ ParsedSecurity(link) = "tls"
        /\ ParsedParameters(link) = record.Given
    BY <2>2 DEF Refused, ParsedType, NormalizesXHTTP, ParsedSecurity, ParsedParameters
  <2>5. NormalizeInsecure(link) = record.Insecure
    BY <1>1, <1>4, <2>2 DEF ParsedRecord, NormalizeInsecure, Records
  <2>6. Parse(link) = [record EXCEPT !.Security = "tls"]
    BY <2>3, <2>4, <2>5 DEF Parse
  <2>7. QED
    BY <1>4, <2>1, <2>6
<1>5. CASE record.Protocol = "vmess"
  <2> DEFINE link == ReconstructVMess(record)
  <2>1. Reconstruct(record) = link
    BY <1>5 DEF Reconstruct
  <2>2. /\ link.Protocol = "vmess" /\ link.Type = record.Type
        /\ link.Security \in {"tls", "unset"} /\ link.Given = record.Given
        /\ link.Insecure = "unset" /\ link.Extra = record.Extra /\ link \in Records
    <3> DEFINE header == IF record.Header # "unset" THEN record.Header
                         ELSE IF record.Type = "unset" THEN "tcp" ELSE record.Type
               security == IF record.Security \in {"tls", "reality"} THEN "tls" ELSE "unset"
    <3>1. link = [record EXCEPT !.Header = header, !.Security = security,
                                !.Insecure = "unset"]
      BY DEF ReconstructVMess
    <3>2. header \in {"unset", "srtp"} \cup Types /\ security \in {"tls", "unset"}
      BY <1>1 DEF Records, Types
    <3> HIDE DEF link, header, security
    <3>3. QED
      BY <1>1, <1>5, <3>1, <3>2 DEF Records
  <2> HIDE DEF link
  <2>3. ~Refused(link)
    BY <1>5, <2>2 DEF Refused, ParsedRecord, NormalizesXHTTP
  <2>4. ParsedType(link) = link.Type
    BY <1>5, <2>2 DEF ParsedType, ParsedRecord, NormalizesXHTTP, IsXHTTP
  <2>5. /\ ParsedSecurity(link) = link.Security /\ NormalizeInsecure(link) = link.Insecure
    BY <2>2 DEF ParsedSecurity, NormalizeInsecure
  <2>6. ParsedParameters(link) = link.Given
    BY <1>5, <2>2 DEF ParsedRecord, ParsedParameters
  <2>7. Parse(link) = link
    BY <2>2, <2>3, <2>4, <2>5, <2>6, SameLink
  <2>8. QED
    BY <1>5, <2>1, <2>7 DEF link
<1>6. QED
  BY <1>1, <1>2, <1>3, <1>4, <1>5 DEF Records, Protocols

(* For Hysteria2, whose outbound every translation writes apart, the       *)
(* differences of all four formats are those of HysteriaGap.               *)
LEMMA HysteriaGapIsExact ==
  ASSUME NEW record, ParsedRecord(record), IsHysteria(record), NEW format \in Formats
  PROVE  FormatDial(format, record) # ProberDial(record) <=> HysteriaGap(format, record)
<1> DEFINE p == ProberDial(record)
           type == record.Type
           security == record.Security
           own == type \in {"unset", "hysteria"}
<1>1. /\ record \in Records /\ type \in Types /\ security \in {"none", "tls", "reality"}
      /\ HasTransport(record) /\ record.Protocol = "hysteria2"
  BY DEF ParsedRecord, Records, IsHysteria, HasTransport
<1>2. /\ ProberSecurity(record) = security
      /\ Canonical(ProberNetwork(record)) = "hysteria" <=> own
      /\ own => ProberTransport(record) = {}
      /\ XrayUser(record) = {} /\ TunnelUser(record) = {"obfs"}
      /\ TunnelTransport(record) = {}
  <2>1. ProberSecurity(record) = security
    BY <1>1, MapSecurityIs DEF ProberSecurity
  <2>2. ProberNetwork(record) = IF type = "unset" THEN "hysteria" ELSE type
    BY DEF ProberNetwork
  <2>3. Canonical(ProberNetwork(record)) = "hysteria" <=> own
    BY <1>1, <2>2, CanonicalIs DEF Types
  <2>4. own => ProberTransport(record) = {}
    BY <2>2 DEF ProberTransport
  <2>5. /\ XrayUser(record) = {} /\ TunnelUser(record) = {"obfs"}
        /\ TunnelTransport(record) = {}
    BY <1>1 DEF XrayUser, TunnelUser, TunnelTransport
  <2>6. QED
    BY <2>1, <2>3, <2>4, <2>5
<1>3. /\ IsDial(p) /\ p.Network = "hysteria" <=> own
      /\ p.Security = security
      /\ own => p.Transport = {}
      /\ p.TLS = Has(record) \cap ProberTLS(security)
      /\ p.User = {}
  BY <1>2, ProberFields
<1>4. CASE format = "json"
  <2> DEFINE x == XrayDial(record)
  <2>1. FormatDial(format, record) = x
    BY <1>4 DEF FormatDial
  <2>2. /\ IsDial(x) /\ x.Network = "hysteria" /\ x.Security = "tls" /\ x.Transport = {}
        /\ x.TLS = Has(record) \cap XrayHysteriaTLS(record)
        /\ x.User = Has(record) \cap {"obfs"}
    BY <1>1, XrayFields
  <2> HIDE DEF x, p
  <2>3. x.User # p.User <=> Carries(record, {"obfs"})
    BY <1>3, <2>2 DEF Carries
  <2>4. security = "tls" =>
          (x.TLS # p.TLS <=> Carries(record, {"alpn"}) /\ ~Carries(record, {"sni"}))
    <3>1. "sni" \in record.Given <=> "sni" \in Has(record)
      BY DEF Has
    <3>2. CASE "sni" \in record.Given
      BY <1>3, <2>2, <3>1, <3>2 DEF XrayHysteriaTLS, ProberTLS, Carries
    <3>3. CASE "sni" \notin record.Given
      BY <1>3, <2>2, <3>1, <3>3 DEF XrayHysteriaTLS, ProberTLS, Carries
    <3>4. QED
      BY <3>2, <3>3
  <2>5. x # p <=> \/ ~own \/ security # "tls" \/ x.TLS # p.TLS \/ x.User # p.User
    BY <1>3, <2>2, DialsDiffer
  <2>6. HysteriaGap(format, record)
          <=> \/ ~own \/ Carries(record, {"obfs"}) \/ security # "tls"
              \/ /\ security = "tls"
                 /\ Carries(record, {"alpn"}) /\ ~Carries(record, {"sni"})
    BY <1>1, <1>4 DEF HysteriaGap
  <2>7. x # p <=> HysteriaGap(format, record)
    BY <2>3, <2>4, <2>5, <2>6
  <2>8. QED
    BY <2>1, <2>7 DEF x, p
<1>5. CASE format \in {"singbox", "clash"}
  <2> DEFINE x == FormatDial(format, record)
             none == format = "clash" /\ security = "none"
  <2>1. /\ IsDial(x) /\ x.Network = "hysteria"
        /\ x.Security = IF none THEN "tls" ELSE security
        /\ x.Transport = {} /\ x.TLS = Has(record) \cap TunnelTLS(security)
        /\ x.User = Has(record) \cap {"obfs"}
    BY <1>1, <1>2, <1>5, TunnelFields
  <2> HIDE DEF x, p
  <2>2. x.User # p.User <=> Carries(record, {"obfs"})
    BY <1>3, <2>1 DEF Carries
  <2>3. x.TLS # p.TLS <=> security = "reality" /\ Carries(record, {"alpn", "spx"})
    <3>1. CASE security = "reality"
      <4>1. /\ x.TLS = Has(record) \cap {"alpn", "fp"}
            /\ p.TLS = Has(record) \cap {"fp", "spx"}
        BY <1>3, <2>1, <3>1 DEF TunnelTLS, ProberTLS
      <4>2. QED
        BY <3>1, <4>1 DEF Carries
    <3>2. CASE security # "reality"
      BY <1>3, <2>1, <3>2 DEF TunnelTLS, ProberTLS
    <3>3. QED
      BY <3>1, <3>2
  <2>4. x # p <=> ~own \/ none \/ x.TLS # p.TLS \/ x.User # p.User
    BY <1>3, <2>1, DialsDiffer
  <2>5. HysteriaGap(format, record)
          <=> \/ ~own \/ Carries(record, {"obfs"}) \/ none
              \/ security = "reality" /\ Carries(record, {"alpn", "spx"})
    BY <1>5 DEF HysteriaGap
  <2>6. x # p <=> HysteriaGap(format, record)
    BY <2>2, <2>3, <2>4, <2>5
  <2>7. QED
    BY <2>6 DEF x, p
<1>6. CASE format = "url"
  <2> DEFINE back == [record EXCEPT !.Security = "tls"]
             u == ProberDial(back)
  <2>1. FormatDial(format, record) = u
    BY <1>1, <1>6, ReadBack DEF FormatDial, URLDial
  <2>2. HysteriaGap(format, record) <=> security # "tls"
    BY <1>6 DEF HysteriaGap
  <2>3. CASE security = "tls"
    BY <1>1, <2>1, <2>2, <2>3 DEF Records
  <2>4. CASE security # "tls"
    <3>1. back.Security = "tls"
      BY <1>1 DEF Records
    <3> HIDE DEF back
    <3>2. u.Security = "tls"
      BY <3>1, ProberFields DEF ProberSecurity, MapSecurity
    <3>3. QED
      BY <1>3, <2>1, <2>2, <2>4, <3>2
  <2>5. QED
    BY <2>3, <2>4
<1>7. QED
  BY <1>4, <1>5, <1>6 DEF Formats

(* A share link, read back, dials what was probed but for URLGap, no more  *)
(* and no less.                                                            *)
LEMMA URLGapIsExact ==
  ASSUME NEW record, ParsedRecord(record), ~IsHysteria(record)
  PROVE  URLDial(record) # ProberDial(record) <=> URLGap(record)
<1> DEFINE p == ProberDial(record)
           type == record.Type
           security == MapSecurity(record.Security)
<1>1. /\ record \in Records /\ record.Protocol \in {"vless", "vmess", "trojan", "ss"}
      /\ type \in Types /\ record.Security \in {"unset", "none", "tls", "reality"}
  BY DEF ParsedRecord, Records, IsHysteria, Protocols
<1>2. /\ IsDial(p) /\ p.Network = Canonical(type) /\ p.Security = security
      /\ p.Transport = Has(record) \cap ProberTransport(record)
      /\ p.TLS = Has(record) \cap ProberTLS(security)
      /\ p.User = Has(record) \cap XrayUser(record)
  BY <1>1, ProberFields, ProberTells
<1>3. /\ security = "none" <=> record.Security \notin {"tls", "reality"}
      /\ security = "tls" <=> record.Security = "tls"
      /\ security = "reality" <=> record.Security = "reality"
      /\ security \in {"none", "tls", "reality"}
  BY <1>1, MapSecurityIs
<1>4. CASE record.Protocol \in {"vless", "trojan"}
  BY <1>4, ReadBack DEF URLDial, URLGap
<1>5. CASE record.Protocol = "ss"
  <2> DEFINE back == ReconstructSS(record)
             u == ProberDial(back)
  <2>1. URLDial(record) = u
    BY <1>5, ReadBack DEF URLDial
  <2>2. /\ back \in Records /\ back.Protocol = "ss" /\ back.Type = "unset"
        /\ back.Header = "unset" /\ back.Security = "unset" /\ back.Insecure = "unset"
        /\ back.Extra = "unset" /\ back.Given = {}
    BY <1>1, <1>5 DEF ReconstructSS, Records, Types
  <2> HIDE DEF back
  <2>3. Has(back) = {} /\ ~IsHysteria(back)
    BY <2>2 DEF Has, IsHysteria
  <2>4. /\ IsDial(u) /\ u.Network = "tcp" /\ u.Security = "none"
        /\ u.Transport = {} /\ u.TLS = {} /\ u.User = {}
    <3>1. Canonical(back.Type) = "tcp" /\ MapSecurity(back.Security) = "none"
      BY <2>2, CanonicalIs DEF Types, MapSecurity
    <3>2. QED
      BY <2>2, <2>3, <3>1, ProberFields, ProberTells
  <2>5. p.Network = "tcp" <=> type \in {"unset", "tcp", "raw"}
    BY <1>1, <1>2, CanonicalIs
  <2>6. type \in {"unset", "tcp", "raw"} =>
          (p.Transport # {} <=> type \in {"unset", "tcp"} /\ Carries(record, {"header"}))
    <3>1. CASE type \in {"unset", "tcp"}
      <4>1. p.Transport = Has(record) \cap {"header"}
        BY <1>1, <1>2, <3>1, ProberTells
      <4>2. QED
        BY <3>1, <4>1 DEF Carries
    <3>2. CASE type = "raw"
      <4>1. p.Transport = {}
        BY <1>1, <1>2, <3>2, ProberTells
      <4>2. QED
        BY <3>2, <4>1
    <3>3. QED
      BY <3>1, <3>2
  <2>7. security = "none" => p.TLS = {}
    BY <1>2 DEF ProberTLS
  <2>8. p.User = {}
    BY <1>2, <1>5 DEF XrayUser
  <2> HIDE DEF p, u
  <2>9. u # p <=> \/ p.Network # "tcp" \/ security # "none"
                  \/ p.Transport # {} \/ p.TLS # {}
    BY <1>2, <2>4, <2>8, DialsDiffer
  <2>10. URLGap(record) <=> \/ type \notin {"unset", "tcp", "raw"}
                            \/ record.Security \in {"tls", "reality"}
                            \/ type \in {"unset", "tcp"} /\ Carries(record, {"header"})
    BY <1>5 DEF URLGap
  <2>11. u # p <=> URLGap(record)
    BY <1>3, <2>5, <2>6, <2>7, <2>9, <2>10
  <2>12. QED
    BY <2>1, <2>11 DEF p, u
<1>6. CASE record.Protocol = "vmess"
  <2> DEFINE back == ReconstructVMess(record)
             header == IF record.Header # "unset" THEN record.Header
                       ELSE IF type = "unset" THEN "tcp" ELSE type
             secured == IF record.Security \in {"tls", "reality"} THEN "tls" ELSE "unset"
             u == ProberDial(back)
  <2>1. URLDial(record) = u
    BY <1>6, ReadBack DEF URLDial
  <2>2. /\ back = [record EXCEPT !.Header = header, !.Security = secured, !.Insecure = "unset"]
        /\ header \in {"unset", "srtp"} \cup Types /\ secured \in {"tls", "unset"}
        /\ type \in {"unset", "tcp", "kcp"} => (header = "http" <=> record.Header = "http")
        /\ secured = "tls" <=> record.Security \in {"tls", "reality"}
    BY <1>1 DEF ReconstructVMess, Records, Types
  <2> HIDE DEF header, secured, back
  <2>3. /\ back \in Records /\ back.Protocol = record.Protocol /\ back.Type = type
        /\ back.Header = header /\ back.Security = secured /\ back.Insecure = "unset"
        /\ back.Given = record.Given /\ back.Extra = record.Extra
    BY <1>1, <2>2 DEF Records
  <2>4. /\ ~IsHysteria(back) /\ ProberTransport(back) = ProberTransport(record)
        /\ XrayUser(back) = XrayUser(record)
    BY <1>6, <2>3 DEF IsHysteria, ProberTransport, ProberNetwork, ServiceName,
                      SettingsFromParams, XrayUser
  <2>5. MapSecurity(secured) = IF security = "none" THEN "none" ELSE "tls"
    BY <1>1, <1>3, <2>2 DEF MapSecurity
  <2>6. /\ IsDial(u) /\ u.Network = Canonical(type)
        /\ u.Security = IF security = "none" THEN "none" ELSE "tls"
        /\ u.Transport = Has(back) \cap ProberTransport(record)
        /\ u.TLS = Has(back) \cap ProberTLS(u.Security)
        /\ u.User = Has(back) \cap XrayUser(record)
    BY <2>3, <2>4, <2>5, ProberFields, ProberTells
  <2> HIDE DEF p, u
  <2>7. \A o : o \notin {"header", "insecure"} => (o \in Has(back) <=> o \in Has(record))
    BY <2>3 DEF Has
  <2>8. type \in {"unset", "tcp", "kcp"} => ("header" \in Has(back) <=> "header" \in Has(record))
    <3>1. "header" \notin record.Given
      BY <1>1 DEF Records, Parameters
    <3>2. QED
      BY <2>2, <2>3, <3>1 DEF Has
  <2>9. u.Transport = p.Transport
    <3>1. CASE type \in {"unset", "tcp", "kcp"}
      <4>1. "insecure" \notin ProberTransport(record)
        BY <1>1, <3>1, ProberTells
      <4>2. QED
        BY <1>2, <2>6, <2>7, <2>8, <3>1, <4>1
    <3>2. CASE type \notin {"unset", "tcp", "kcp"}
      <4>1. "insecure" \notin ProberTransport(record) /\ "header" \notin ProberTransport(record)
        BY <1>1, <3>2, ProberTells DEF Types, ServiceName, SettingsFromParams
      <4>2. QED
        BY <1>2, <2>6, <2>7, <4>1
    <3>3. QED
      BY <3>1, <3>2
  <2>10. u.User = p.User
    <3>1. XrayUser(record) = {"scy"}
      BY <1>6 DEF XrayUser
    <3>2. QED
      BY <1>2, <2>6, <2>7, <3>1
  <2>11. u.Security # p.Security <=> security = "reality"
    BY <1>2, <1>3, <2>6
  <2>12. security # "reality" =>
           (u.TLS # p.TLS <=> security = "tls" /\ Carries(record, {"insecure"}))
    <3>1. CASE security = "none"
      BY <1>2, <2>6, <3>1 DEF ProberTLS
    <3>2. CASE security = "tls"
      <4>1. /\ u.TLS = Has(back) \cap {"insecure", "alpn", "fp"}
            /\ p.TLS = Has(record) \cap {"insecure", "alpn", "fp"}
        BY <1>2, <2>6, <3>2 DEF ProberTLS
      <4>2. "insecure" \notin Has(back)
        <5>1. "insecure" \notin record.Given
          BY <1>1 DEF Records, Parameters
        <5>2. QED
          BY <2>3, <5>1 DEF Has
      <4>3. QED
        BY <2>7, <3>2, <4>1, <4>2 DEF Carries
    <3>3. QED
      BY <1>3, <3>1, <3>2
  <2>13. u # p <=> u.Security # p.Security \/ u.TLS # p.TLS
    BY <1>2, <2>6, <2>9, <2>10, DialsDiffer
  <2>14. URLGap(record) <=> \/ security = "reality"
                            \/ security = "tls" /\ Carries(record, {"insecure"})
    BY <1>3, <1>6 DEF URLGap
  <2>15. u # p <=> URLGap(record)
    BY <2>11, <2>12, <2>13, <2>14
  <2>16. QED
    BY <2>1, <2>15 DEF u, p
<1>7. QED
  BY <1>1, <1>4, <1>5, <1>6

(* Gap is what a format dials otherwise than the prober did, no more and   *)
(* no less, for every record that Parse can make.                          *)
THEOREM GapIsExact ==
  ASSUME NEW record, ParsedRecord(record), NEW format \in Formats,
         FormatDial(format, record) # Omitted
  PROVE  FormatDial(format, record) # ProberDial(record) <=> Gap(format, record)
<1>1. CASE IsHysteria(record)
  BY <1>1, HysteriaGapIsExact DEF Gap
<1>2. CASE ~IsHysteria(record) /\ format = "url"
  BY <1>2, URLGapIsExact DEF Gap, FormatDial
<1>3. CASE ~IsHysteria(record) /\ format = "json"
  BY <1>3, XrayGapIsExact DEF Gap, FormatDial
<1>4. CASE ~IsHysteria(record) /\ format \in {"singbox", "clash"}
  <2>1. HasTransport(record)
    BY <1>4 DEF FormatDial, SingboxDial, ClashDial, TunnelDial
  <2>2. Gap(format, record) = TunnelGap(record)
    BY <1>4 DEF Gap
  <2>3. QED
    BY <1>4, <2>1, <2>2, TunnelGapIsExact
<1>5. QED
  BY <1>1, <1>2, <1>3, <1>4 DEF Formats

(***************************************************************************)
(* 2. Outbounds made links.                                                *)
(***************************************************************************)
(* What an outbound describes, field by field.                             *)
LEMMA ConfiguredFields ==
  ASSUME NEW outbound
  PROVE  LET c == ConfiguredDial(outbound)
             security == MapSecurity(outbound.Security)
         IN  /\ IsDial(c)
             /\ c.Network = ConfiguredNetwork(outbound)
             /\ c.Security = security
             /\ c.Transport = Configured(outbound) \cap ConfiguredTransport(outbound)
             /\ c.TLS = Configured(outbound) \cap ProberTLS(security)
             /\ c.User = Configured(outbound) \cap ConfiguredUser(outbound)
  BY DialIs DEF ConfiguredDial

(* What the link made of an outbound says of it, once it is read.          *)
LEMMA VlessRead ==
  ASSUME NEW outbound \in Records, outbound.Protocol \in {"vless", "trojan"},
         OutboundToURL(outbound) # NoLink, Parse(OutboundToURL(outbound)) # NoRecord
  PROVE  LET r == Parse(OutboundToURL(outbound))
         IN  /\ ParsedRecord(r)
             /\ r.Protocol = outbound.Protocol
             /\ r.Type = IF IsXHTTP(outbound.Type) THEN "xhttp"
                         ELSE IF outbound.Type \in {"unset", "tcp"}
                              THEN (IF outbound.Protocol = "vless" THEN "tcp" ELSE "unset")
                              ELSE outbound.Type
             /\ r.Security = IF outbound.Security = "unset" THEN "none" ELSE outbound.Security
             /\ r.Header = IF outbound.Type \in {"unset", "tcp", "raw"} /\ outbound.Header = "http"
                           THEN "http" ELSE "unset"
             /\ r.Insecure = "unset" /\ r.Extra = outbound.Extra
             /\ r.Given = (outbound.Given
                             \cap (ReadAlike(outbound)
                                     \cup (IF outbound.Protocol = "vless"
                                           THEN {"encryption"} ELSE {})))
                          \cup ReadHost(outbound, {"hostHeader"})
             /\ IsXHTTP(r.Type) => r.Extra # "broken"
<1> DEFINE link == OutboundToURL(outbound)
           type == IF outbound.Type \in {"unset", "tcp"}
                   THEN (IF outbound.Protocol = "vless" THEN "tcp" ELSE "unset")
                   ELSE outbound.Type
           header == IF Is(outbound, "tcp") /\ outbound.Header = "http" THEN "http" ELSE "unset"
           given == (outbound.Given
                       \cap (ReadAlike(outbound) \cup (IF outbound.Protocol = "vless"
                                                       THEN {"encryption"} ELSE {})))
                    \cup ReadHost(outbound, {"hostHeader"})
           all == (outbound.Given \cap (ReadAlike(outbound) \cup {"encryption"}))
                    \cup ReadHost(outbound, {"hostHeader"})
           security == SecurityOf(outbound)
<1>1. /\ outbound.Type \in Types /\ outbound.Security \in {"unset", "none", "tls", "reality"}
      /\ outbound.Given \in SUBSET Parameters
  BY DEF Records
<1>2. /\ type \in Types /\ header \in {"unset", "srtp"} \cup Types
      /\ security \in {"none", "tls", "reality"}
  BY <1>1 DEF SecurityOf, Types
<1>3. given \in SUBSET Parameters /\ all \in SUBSET Parameters
  BY <1>1 DEF ReadHost, Parameters
<1>4. /\ header = IF outbound.Type \in {"unset", "tcp", "raw"} /\ outbound.Header = "http"
                  THEN "http" ELSE "unset"
      /\ NetworkOf(outbound) \in Types /\ {"unset", "http", "tcp"} \subseteq Types
  BY <1>1, CanonicalIs DEF Is, NetworkOf, Types
<1>5. ~(HasBrokenExtra(outbound) /\ NormalizesXHTTP(outbound))
  BY DEF OutboundToURL
<1>6. /\ "encryption" \notin ReadAlike(outbound)
      /\ "encryption" \notin ReadHost(outbound, {"hostHeader"})
  BY DEF ReadAlike, ReadHost
<1>7. outbound.Protocol = "vless" => given = all
  BY DEF all
<1>8. outbound.Protocol = "trojan" => given = all \ {"encryption"}
  BY <1>6
<1> HIDE DEF header, security, given, all
<1>9. link = [outbound EXCEPT !.Type = type, !.Security = security, !.Insecure = "unset",
                              !.Header = header, !.Given = given]
  <2> HIDE DEF type
  <2>1. VlessLink(outbound)
          = [outbound EXCEPT !.Type = NetworkOf(outbound), !.Security = security,
                             !.Insecure = "unset", !.Header = header, !.Given = all]
    BY DEF VlessLink, header, security, all
  <2>2. CASE outbound.Protocol = "vless"
    <3>1. link = VlessLink(outbound)
      BY <1>5, <2>2 DEF OutboundToURL
    <3>2. type = NetworkOf(outbound)
      BY <2>2 DEF type, NetworkOf
    <3>3. QED
      BY <1>7, <2>1, <2>2, <3>1, <3>2
  <2>3. CASE outbound.Protocol = "trojan"
    <3>1. link = TrojanLink(outbound)
      BY <1>5, <2>3 DEF OutboundToURL
    <3>2. type = IF NetworkOf(outbound) = "tcp" THEN "unset" ELSE outbound.Type
      BY <2>3 DEF type, NetworkOf
    <3>3. VlessLink(outbound) \in Records /\ VlessLink(outbound).Given = all
      BY <1>2, <1>3, <1>4, <2>1 DEF Records
    <3>4. TrojanLink(outbound) = [VlessLink(outbound) EXCEPT !.Type = type, !.Given = given]
      BY <1>8, <2>3, <3>2, <3>3 DEF TrojanLink
    <3>5. QED
      BY <2>1, <3>1, <3>3, <3>4 DEF Records
  <2>4. QED
    BY <2>2, <2>3
<1> HIDE DEF type, link
<1>10. link \in Records
  BY <1>2, <1>3, <1>4, <1>9 DEF Records
<1>11. /\ link.Protocol = outbound.Protocol /\ link.Type = type /\ link.Security = security
       /\ link.Insecure = "unset" /\ link.Header = header /\ link.Given = given
       /\ link.Extra = outbound.Extra
  BY <1>9 DEF Records
<1>12. /\ ParsedSecurity(link) = security /\ NormalizeInsecure(link) = "unset"
       /\ NormalizesXHTTP(link) /\ ParsedParameters(link) = given
  BY <1>11 DEF ParsedSecurity, NormalizeInsecure, NormalizesXHTTP, ParsedParameters
<1>13. ParsedType(link) = IF IsXHTTP(outbound.Type) THEN "xhttp" ELSE type
  BY <1>11, <1>12 DEF ParsedType, type, IsXHTTP
<1>14. /\ ~Refused(link) /\ ParsedRecord(Parse(link))
       /\ LET r == Parse(link)
          IN  /\ r.Protocol = link.Protocol /\ r.Type = ParsedType(link)
              /\ r.Header = link.Header /\ r.Security = ParsedSecurity(link)
              /\ r.Insecure = NormalizeInsecure(link)
              /\ r.Extra = link.Extra /\ r.Given = ParsedParameters(link)
  BY <1>10, ParsedFields, ParseResult DEF link
<1>15. IsXHTTP(Parse(link).Type) => Parse(link).Extra # "broken"
  BY <1>11, <1>12, <1>13, <1>14 DEF Refused, IsXHTTP, type
<1>16. QED
  BY <1>4, <1>11, <1>12, <1>13, <1>14, <1>15 DEF link, given, security, SecurityOf, type

(* The same for VMess, whose link has the network where the header is      *)
(* read.                                                                   *)
LEMMA VMessRead ==
  ASSUME NEW outbound \in Records, outbound.Protocol = "vmess",
         OutboundToURL(outbound) # NoLink, Parse(OutboundToURL(outbound)) # NoRecord
  PROVE  LET r == Parse(OutboundToURL(outbound))
         IN  /\ ParsedRecord(r)
             /\ r.Protocol = outbound.Protocol
             /\ r.Type = IF IsXHTTP(outbound.Type) THEN "xhttp" ELSE NetworkOf(outbound)
             /\ r.Security = IF outbound.Security \in {"tls", "reality"} THEN "tls" ELSE "unset"
             /\ r.Header = NetworkOf(outbound)
             /\ r.Insecure = "unset" /\ r.Extra = outbound.Extra
             /\ r.Given = (outbound.Given \cap ReadAlike(outbound))
                          \cup ReadHost(outbound, {"host", "hostHeader"})
                          \cup (IF Is(outbound, "kcp") /\ "seed" \in outbound.Given
                                THEN {"path"} ELSE {})
             /\ r.Extra # "broken"
<1> DEFINE link == OutboundToURL(outbound)
           network == NetworkOf(outbound)
           given == (outbound.Given \cap ReadAlike(outbound))
                    \cup ReadHost(outbound, {"host", "hostHeader"})
                    \cup (IF Is(outbound, "kcp") /\ "seed" \in outbound.Given
                          THEN {"path"} ELSE {})
           security == IF outbound.Security \in {"tls", "reality"} THEN "tls" ELSE "unset"
<1>1. network \in Types /\ network # "unset" /\ security \in {"tls", "unset"}
  BY DEF Records, Types, NetworkOf
<1>2. IsXHTTP(network) <=> IsXHTTP(outbound.Type)
  BY DEF NetworkOf, IsXHTTP
<1>3. given \subseteq VMessFields /\ given \in SUBSET Parameters
  <2>1. ReadAlike(outbound) \subseteq VMessFields
    BY DEF ReadAlike, VMessFields
  <2>2. ReadHost(outbound, {"host", "hostHeader"}) \subseteq VMessFields
    BY DEF ReadHost, VMessFields
  <2>3. "path" \in VMessFields /\ VMessFields \subseteq Parameters
    BY DEF VMessFields, Parameters
  <2>4. QED
    BY <2>1, <2>2, <2>3
<1>4. link = VMessLink(outbound)
  BY DEF OutboundToURL
<1> HIDE DEF link
<1>5. link = [outbound EXCEPT !.Type = network, !.Header = network, !.Security = security,
                              !.Insecure = "unset", !.Given = given]
  BY <1>4 DEF VMessLink
<1> HIDE DEF network, given, security
<1>6. link \in Records
  BY <1>1, <1>3, <1>5 DEF Records
<1>7. /\ link.Protocol = "vmess" /\ link.Type = network /\ link.Security = security
      /\ link.Insecure = "unset" /\ link.Header = network /\ link.Given = given
      /\ link.Extra = outbound.Extra
  BY <1>5 DEF Records
<1>8. /\ ParsedSecurity(link) = security /\ NormalizeInsecure(link) = "unset"
      /\ ParsedType(link) = IF IsXHTTP(outbound.Type) THEN "xhttp" ELSE network
      /\ ParsedParameters(link) = given
  BY <1>1, <1>2, <1>3, <1>7
  DEF ParsedSecurity, NormalizeInsecure, ParsedType, NormalizesXHTTP, ParsedParameters
<1>9. /\ ~Refused(link) /\ ParsedRecord(Parse(link))
      /\ LET r == Parse(link)
         IN  /\ r.Protocol = link.Protocol /\ r.Type = ParsedType(link)
             /\ r.Header = link.Header /\ r.Security = ParsedSecurity(link)
             /\ r.Insecure = NormalizeInsecure(link)
             /\ r.Extra = link.Extra /\ r.Given = ParsedParameters(link)
  BY <1>6, ParsedFields, ParseResult DEF link
<1>10. link.Extra # "broken"
  BY <1>7, <1>9 DEF Refused
<1>11. QED
  BY <1>7, <1>8, <1>9, <1>10 DEF link, network, given, security

(* The same for the two protocols whose link has neither transport nor     *)
(* security.                                                               *)
LEMMA BareRead ==
  ASSUME NEW outbound \in Records, outbound.Protocol \in {"ss", "hysteria2"}
  PROVE  LET r == Parse(OutboundToURL(outbound))
         IN  /\ ParsedRecord(r)
             /\ r.Protocol = outbound.Protocol /\ r.Type = "unset" /\ r.Header = "unset"
             /\ r.Insecure = "unset" /\ r.Extra = "unset" /\ r.Given \subseteq {"sni"}
             /\ outbound.Protocol = "ss" => r.Security = "unset"
             /\ outbound.Protocol = "hysteria2" => r.Security = "tls"
<1> DEFINE link == BareLink(outbound)
<1>1. OutboundToURL(outbound) = link
  BY DEF OutboundToURL, NormalizesXHTTP
<1>2. /\ link \in Records /\ link.Protocol = outbound.Protocol
      /\ link.Type = "unset" /\ link.Header = "unset" /\ link.Security = "unset"
      /\ link.Insecure = "unset" /\ link.Extra = "unset" /\ link.Given \subseteq {"sni"}
  <2> DEFINE given == IF IsHysteria(outbound) THEN {"sni"} ELSE {}
  <2>1. given \in SUBSET Parameters /\ given \subseteq {"sni"}
    BY DEF Parameters
  <2> HIDE DEF given
  <2>2. link = [ Protocol |-> outbound.Protocol, Type |-> "unset", Header |-> "unset",
                 Security |-> "unset", Insecure |-> "unset", Extra |-> "unset",
                 Given |-> given ]
    BY DEF BareLink, ReconstructSS, given
  <2>3. QED
    BY <2>1, <2>2 DEF Records, Types
<1> HIDE DEF link
<1>3. /\ ~Refused(link) /\ ParsedType(link) = link.Type /\ NormalizeInsecure(link) = link.Insecure
      /\ ParsedParameters(link) = link.Given
  BY <1>2 DEF Refused, ParsedType, NormalizesXHTTP, NormalizeInsecure, ParsedParameters
<1>4. ParsedSecurity(link) = IF outbound.Protocol = "hysteria2" THEN "tls" ELSE link.Security
  BY <1>2 DEF ParsedSecurity
<1>5. CASE outbound.Protocol = "ss"
  <2>1. Parse(link) = link
    BY <1>2, <1>3, <1>4, <1>5, SameLink
  <2>2. link # NoRecord
    BY <1>2, <1>5 DEF NoRecord
  <2>3. ParsedRecord(link)
    BY <1>2, <2>1, <2>2, ParseResult
  <2>4. QED
    BY <1>1, <1>2, <1>5, <2>1, <2>3 DEF link
<1>6. CASE outbound.Protocol = "hysteria2"
  <2> DEFINE r == [link EXCEPT !.Type = "unset", !.Security = "tls", !.Insecure = "unset",
                               !.Given = link.Given]
  <2>1. Parse(link) = r
    BY <1>2, <1>3, <1>4, <1>6 DEF Parse
  <2>2. /\ r \in Records /\ r.Protocol = link.Protocol /\ r.Type = "unset"
        /\ r.Header = link.Header /\ r.Security = "tls" /\ r.Insecure = "unset"
        /\ r.Extra = link.Extra /\ r.Given = link.Given
    BY <1>2 DEF Records
  <2> HIDE DEF r
  <2>3. r # NoRecord
    BY <1>2, <1>6, <2>2 DEF NoRecord
  <2>4. ParsedRecord(r)
    BY <1>2, <2>1, <2>3, ParseResult
  <2>5. QED
    BY <1>1, <1>2, <1>6, <2>1, <2>2, <2>4
<1>7. QED
  BY <1>5, <1>6

(* Whatever the outbound, what is read back is a record Parse makes.       *)
LEMMA OutboundReads ==
  ASSUME NEW outbound \in Records, OutboundToURL(outbound) # NoLink,
         Parse(OutboundToURL(outbound)) # NoRecord
  PROVE  ParsedRecord(Parse(OutboundToURL(outbound)))
<1>1. outbound.Protocol \in Protocols
  BY DEF Records
<1>2. QED
  BY <1>1, VlessRead, VMessRead, BareRead DEF Protocols

(* What there is to tell, one by one.                                      *)
LEMMA HasIs ==
  ASSUME NEW record \in Records
  PROVE  /\ \A o \in Parameters : o \in Has(record) <=> o \in record.Given
         /\ "header" \in Has(record) <=> record.Header = "http"
         /\ "insecure" \in Has(record) <=> record.Insecure = "1"
         /\ "extra" \in Has(record) <=> record.Extra = "valid"
  BY DEF Has, Records, Parameters

(* What of the transport the reader of an outbound reads.                  *)
LEMMA ReadIs ==
  ASSUME NEW outbound \in Records
  PROVE  LET type == outbound.Type
             read == ReadAlike(outbound)
         IN  /\ read \subseteq {"path", "host", "mode", "sni", "fp"}
             /\ "fp" \in read
             /\ "path" \in read
                  <=> type \in {"xhttp", "splithttp", "ws", "websocket", "grpc"}
             /\ "host" \in read <=> type \in {"xhttp", "splithttp"}
             /\ "mode" \in read <=> type \in {"xhttp", "splithttp"}
             /\ \A places : ReadHost(outbound, places)
                              = IF /\ type \in {"ws", "websocket"}
                                   /\ outbound.Given \cap places # {}
                                THEN {"host"} ELSE {}
             /\ Is(outbound, "kcp") <=> type \in {"kcp", "mkcp"}
<1>1. outbound.Type \in Types
  BY DEF Records
<1>2. /\ Is(outbound, "xhttp") <=> outbound.Type \in {"xhttp", "splithttp"}
      /\ Is(outbound, "ws") <=> outbound.Type \in {"ws", "websocket"}
      /\ Is(outbound, "grpc") <=> outbound.Type = "grpc"
      /\ Is(outbound, "kcp") <=> outbound.Type \in {"kcp", "mkcp"}
  BY <1>1, CanonicalIs DEF Is
<1>3. ReadAlike(outbound) = IF outbound.Type \in {"xhttp", "splithttp"}
                            THEN {"path", "host", "mode", "sni", "fp"}
                            ELSE IF outbound.Type \in {"ws", "websocket", "grpc"}
                            THEN {"path", "sni", "fp"} ELSE {"sni", "fp"}
  BY <1>2 DEF ReadAlike
<1>4. QED
  BY <1>2, <1>3 DEF ReadHost

(* What an outbound that is not Hysteria2 describes of each transport.     *)
LEMMA ConfiguredTells ==
  ASSUME NEW outbound \in Records, ~IsHysteria(outbound)
  PROVE  LET type == outbound.Type
             told == Configured(outbound) \cap ConfiguredTransport(outbound)
             given == outbound.Given
         IN  /\ told \subseteq {"header", "seed", "path", "host", "mode", "extra"}
             /\ "header" \in told
                  <=> \/ type \in {"unset", "tcp", "raw"} /\ outbound.Header = "http"
                      \/ type \in {"kcp", "mkcp"} /\ outbound.Header # "unset"
             /\ "seed" \in told <=> type \in {"kcp", "mkcp"} /\ "seed" \in given
             /\ "path" \in told
                  <=> /\ type \in {"ws", "websocket", "h2", "http", "httpupgrade", "grpc",
                                   "xhttp", "splithttp"}
                      /\ "path" \in given
             /\ "host" \in told
                  <=> \/ /\ type \in {"ws", "websocket", "h2", "http", "httpupgrade",
                                      "xhttp", "splithttp"}
                         /\ "host" \in given
                      \/ type \in {"ws", "websocket"} /\ "hostHeader" \in given
             /\ "mode" \in told <=> type \in {"grpc", "xhttp", "splithttp"} /\ "mode" \in given
             /\ "extra" \in told <=> IsXHTTP(type) /\ outbound.Extra = "valid"
<1> DEFINE type == outbound.Type
           network == ConfiguredNetwork(outbound)
           told == Configured(outbound) \cap ConfiguredTransport(outbound)
<1>1. type \in Types /\ network = Canonical(type)
  BY DEF Records, ConfiguredNetwork
<1>2. /\ network = "tcp" <=> type \in {"unset", "tcp", "raw"}
      /\ network = "h2" <=> type \in {"h2", "http"}
      /\ network = "ws" <=> type \in {"ws", "websocket"}
      /\ network = "kcp" <=> type \in {"kcp", "mkcp"}
      /\ network = "xhttp" <=> type \in {"xhttp", "splithttp"}
      /\ network = "grpc" <=> type = "grpc"
      /\ network = "httpupgrade" <=> type = "httpupgrade"
  BY <1>1, CanonicalIs
<1>3. /\ \A o \in {"path", "mode", "seed"} : o \in Configured(outbound) <=> o \in outbound.Given
      /\ "host" \in Configured(outbound)
           <=> "host" \in outbound.Given \/ (network = "ws" /\ "hostHeader" \in outbound.Given)
      /\ "header" \in Configured(outbound)
           <=> outbound.Header = "http" \/ (network = "kcp" /\ outbound.Header # "unset")
      /\ "extra" \in Configured(outbound) <=> outbound.Extra = "valid"
  BY HasIs DEF Configured, Parameters
<1> HIDE DEF network
<1>4. ConfiguredTransport(outbound)
        = IF network = "tcp" THEN {"header"}
          ELSE IF network = "kcp" THEN {"header", "seed"}
          ELSE IF network \in {"ws", "h2", "httpupgrade"} THEN {"path", "host"}
          ELSE IF network = "grpc" THEN {"path", "mode"}
          ELSE IF network = "xhttp" THEN {"path", "host", "mode", "extra"} ELSE {}
  BY DEF ConfiguredTransport, network
<1>5. /\ told \subseteq {"header", "seed", "path", "host", "mode", "extra"}
      /\ "header" \in told <=> network \in {"tcp", "kcp"} /\ "header" \in Configured(outbound)
      /\ "seed" \in told <=> network = "kcp" /\ "seed" \in Configured(outbound)
      /\ "path" \in told <=> /\ network \in {"ws", "h2", "httpupgrade", "grpc", "xhttp"}
                             /\ "path" \in Configured(outbound)
      /\ "host" \in told <=> /\ network \in {"ws", "h2", "httpupgrade", "xhttp"}
                             /\ "host" \in Configured(outbound)
      /\ "mode" \in told <=> network \in {"grpc", "xhttp"} /\ "mode" \in Configured(outbound)
      /\ "extra" \in told <=> network = "xhttp" /\ "extra" \in Configured(outbound)
  BY <1>4
<1> HIDE DEF told, type
<1>6. QED
  BY <1>2, <1>3, <1>5 DEF told, type, IsXHTTP

(* Two sets of transport parameters differ when they differ in one.        *)
LEMMA TransportsDiffer ==
  ASSUME NEW S, NEW T,
         S \subseteq {"header", "seed", "path", "host", "mode", "extra"},
         T \subseteq {"header", "seed", "path", "host", "mode", "extra"}
  PROVE  S # T <=> \/ ~("header" \in S <=> "header" \in T)
                   \/ ~("seed" \in S <=> "seed" \in T)
                   \/ ~("path" \in S <=> "path" \in T)
                   \/ ~("host" \in S <=> "host" \in T)
                   \/ ~("mode" \in S <=> "mode" \in T)
                   \/ ~("extra" \in S <=> "extra" \in T)
<1> DEFINE all == {"header", "seed", "path", "host", "mode", "extra"}
<1>1. ASSUME \A o \in all : o \in S <=> o \in T
      PROVE  S = T
  <2>1. \A o : o \in S <=> o \in T
    BY <1>1
  <2>2. QED
    BY <2>1
<1>2. QED
  BY <1>1

(* What the prober tells Xray of each transport, one by one.               *)
LEMMA ProbedTells ==
  ASSUME NEW record \in Records, ~IsHysteria(record), record.Type # "splithttp",
         IsXHTTP(record.Type) => record.Extra # "broken"
  PROVE  LET type == record.Type
             told == Has(record) \cap ProberTransport(record)
             given == record.Given
         IN  /\ told \subseteq {"header", "seed", "path", "host", "mode", "extra"}
             /\ "header" \in told
                  <=> type \in {"unset", "tcp", "kcp"} /\ record.Header = "http"
             /\ "seed" \in told <=> type = "kcp" /\ "seed" \in given
             /\ "path" \in told
                  <=> /\ \/ type \in {"ws", "httpupgrade", "xhttp"}
                         \/ type = "grpc" /\ record.Protocol # "vmess"
                      /\ "path" \in given
             /\ "host" \in told <=> type \in {"ws", "httpupgrade", "xhttp"} /\ "host" \in given
             /\ "mode" \in told <=> type \in {"grpc", "xhttp"} /\ "mode" \in given
             /\ "extra" \in told <=> type = "xhttp" /\ record.Extra = "valid"
<1> DEFINE type == record.Type
           told == Has(record) \cap ProberTransport(record)
<1>1. type \in Types
  BY DEF Records
<1>2. ProberTransport(record)
        = IF type \in {"unset", "tcp"} THEN {"header"}
          ELSE IF type = "kcp" THEN {"header", "seed"}
          ELSE IF type \in {"ws", "httpupgrade"} THEN {"path", "host"}
          ELSE IF type = "grpc"
               THEN (IF record.Protocol = "vmess" THEN {} ELSE {"path"}) \cup {"mode"}
          ELSE IF type = "xhttp" THEN {"host", "path", "mode", "extra"} ELSE {}
  BY <1>1, ProberTells DEF ServiceName, SettingsFromParams, IsXHTTP, Types
<1>3. /\ told \subseteq {"header", "seed", "path", "host", "mode", "extra"}
      /\ "header" \in told <=> type \in {"unset", "tcp", "kcp"} /\ "header" \in Has(record)
      /\ "seed" \in told <=> type = "kcp" /\ "seed" \in Has(record)
      /\ "path" \in told <=> /\ \/ type \in {"ws", "httpupgrade", "xhttp"}
                                \/ type = "grpc" /\ record.Protocol # "vmess"
                             /\ "path" \in Has(record)
      /\ "host" \in told <=> type \in {"ws", "httpupgrade", "xhttp"} /\ "host" \in Has(record)
      /\ "mode" \in told <=> type \in {"grpc", "xhttp"} /\ "mode" \in Has(record)
      /\ "extra" \in told <=> type = "xhttp" /\ "extra" \in Has(record)
  BY <1>2
<1>4. \A o \in {"seed", "path", "host", "mode"} : o \in Has(record) <=> o \in record.Given
  BY HasIs DEF Parameters
<1> HIDE DEF told
<1>5. QED
  BY <1>3, <1>4, HasIs DEF told

(* The connection probed is the one the outbound describes but for what    *)
(* ConversionGap lists, no more and no less, for every outbound that Parse *)
(* can read once it has been made a link of.                               *)
THEOREM ConversionGapIsExact ==
  ASSUME NEW outbound \in Records, OutboundToURL(outbound) # NoLink,
         Parse(OutboundToURL(outbound)) # NoRecord
  PROVE  ProberDial(Parse(OutboundToURL(outbound))) # ConfiguredDial(outbound)
           <=> ConversionGap(outbound)
<1> DEFINE r == Parse(OutboundToURL(outbound))
           p == ProberDial(r)
           c == ConfiguredDial(outbound)
           type == outbound.Type
           given == outbound.Given
           security == MapSecurity(outbound.Security)
           unread == {"websocket", "httpupgrade", "h2", "http"}
           lost == \/ "seed" \in c.Transport
                   \/ /\ "header" \in c.Transport
                      /\ outbound.Protocol = "vmess" \/ type \notin {"unset", "tcp"}
                   \/ "mode" \in c.Transport /\ type = "grpc"
                   \/ /\ "path" \in c.Transport
                      /\ type \in unread \/ (type = "grpc" /\ outbound.Protocol = "vmess")
                   \/ /\ "host" \in c.Transport
                      /\ \/ type \in unread
                         \/ /\ type = "ws" /\ outbound.Protocol # "vmess"
                            /\ "hostHeader" \notin given
<1>1. /\ type \in Types /\ outbound.Security \in {"unset", "none", "tls", "reality"}
      /\ outbound.Protocol \in Protocols /\ given \in SUBSET Parameters
      /\ outbound.Header \in {"unset", "srtp"} \cup Types
      /\ outbound.Extra \in {"unset", "valid", "broken"}
  BY DEF Records
<1>2. /\ IsDial(c) /\ c.Network = ConfiguredNetwork(outbound) /\ c.Security = security
      /\ c.Transport = Configured(outbound) \cap ConfiguredTransport(outbound)
      /\ c.TLS = Configured(outbound) \cap ProberTLS(security)
      /\ c.User = Configured(outbound) \cap ConfiguredUser(outbound)
  BY ConfiguredFields
<1>3. /\ security \in {"none", "tls", "reality"}
      /\ security = "tls" <=> outbound.Security = "tls"
      /\ security = "reality" <=> outbound.Security = "reality"
      /\ security = "none" <=> outbound.Security \in {"unset", "none"}
  BY <1>1, MapSecurityIs
<1>4. r \in Records
  BY OutboundReads DEF ParsedRecord
<1>5. /\ \A o \in {"alpn", "fp", "spx", "encryption", "scy", "obfs"} :
           o \in Configured(outbound) <=> o \in given
      /\ "insecure" \in Configured(outbound) <=> outbound.Insecure = "1"
  BY HasIs DEF Configured, Parameters
<1> HIDE DEF r
<1>6. /\ IsDial(p) /\ p.Network = Canonical(ProberNetwork(r))
      /\ p.Security = ProberSecurity(r)
      /\ p.Transport = Has(r) \cap ProberTransport(r)
      /\ p.TLS = Has(r) \cap ProberTLS(ProberSecurity(r))
      /\ p.User = Has(r) \cap XrayUser(r)
  BY <1>4, ProberFields
<1>7. /\ \A o \in Parameters : o \in Has(r) <=> o \in r.Given
      /\ "insecure" \in Has(r) <=> r.Insecure = "1"
  BY <1>4, HasIs
<1>8. /\ {"alpn", "fp", "spx", "encryption", "scy", "obfs", "seed", "path", "host", "mode",
          "hostHeader"} \subseteq Parameters
      /\ "insecure" \notin Parameters
  BY DEF Parameters
<1> HIDE DEF c, p, security
(* The layer of security, when it is the same on both sides and reads the  *)
(* fingerprint: what is lost is all but that.                              *)
<1>9. ASSUME p.Security = security, r.Insecure = "unset",
             "alpn" \notin r.Given, "spx" \notin r.Given,
             "fp" \in r.Given <=> "fp" \in given
      PROVE  p.TLS # c.TLS <=> c.TLS \cap {"insecure", "alpn", "spx"} # {}
  <2>1. /\ "alpn" \notin Has(r) /\ "spx" \notin Has(r) /\ "insecure" \notin Has(r)
        /\ "fp" \in Has(r) <=> "fp" \in Configured(outbound)
    BY <1>5, <1>7, <1>8, <1>9
  <2>2. p.TLS = Has(r) \cap ProberTLS(security)
    BY <1>6, <1>9
  <2>3. ProberTLS(security) \subseteq {"insecure", "alpn", "fp", "spx"}
    BY DEF ProberTLS
  <2>4. QED
    BY <1>2, <2>1, <2>2, <2>3
<1>10. CASE outbound.Protocol \in {"vless", "trojan"}
  <2>1. /\ r.Protocol = outbound.Protocol
        /\ r.Type = IF IsXHTTP(type) THEN "xhttp"
                    ELSE IF type \in {"unset", "tcp"}
                         THEN (IF outbound.Protocol = "vless" THEN "tcp" ELSE "unset")
                         ELSE type
        /\ r.Security = IF outbound.Security = "unset" THEN "none" ELSE outbound.Security
        /\ r.Header = IF type \in {"unset", "tcp", "raw"} /\ outbound.Header = "http"
                      THEN "http" ELSE "unset"
        /\ r.Insecure = "unset" /\ r.Extra = outbound.Extra
        /\ r.Given = (given \cap (ReadAlike(outbound)
                                    \cup (IF outbound.Protocol = "vless"
                                          THEN {"encryption"} ELSE {})))
                     \cup ReadHost(outbound, {"hostHeader"})
        /\ IsXHTTP(r.Type) => r.Extra # "broken"
    BY <1>10, VlessRead DEF r
  <2>2. ~IsHysteria(outbound) /\ ~IsHysteria(r)
    BY <1>10, <2>1 DEF IsHysteria
  <2>3. p.Network = c.Network
    <3>1. Canonical(r.Type) = Canonical(type)
      BY <1>1, <2>1 DEF Canonical, IsXHTTP, Types
    <3>2. QED
      BY <1>2, <1>4, <1>6, <2>2, <3>1, ProberTells DEF ConfiguredNetwork
  <2>4. p.Security = security
    BY <1>4, <1>6, <2>1, <2>2, ProberTells DEF security, MapSecurity
  <2>5. /\ "fp" \in r.Given <=> "fp" \in given
        /\ "alpn" \notin r.Given /\ "spx" \notin r.Given /\ "seed" \notin r.Given
        /\ "scy" \notin r.Given /\ "obfs" \notin r.Given
        /\ "encryption" \in r.Given <=> "encryption" \in given /\ outbound.Protocol = "vless"
        /\ "path" \in r.Given
             <=> /\ type \in {"xhttp", "splithttp", "ws", "websocket", "grpc"}
                 /\ "path" \in given
        /\ "mode" \in r.Given <=> type \in {"xhttp", "splithttp"} /\ "mode" \in given
        /\ "host" \in r.Given
             <=> \/ type \in {"xhttp", "splithttp"} /\ "host" \in given
                 \/ type \in {"ws", "websocket"} /\ "hostHeader" \in given
    <3>1. ReadHost(outbound, {"hostHeader"})
            = IF type \in {"ws", "websocket"} /\ "hostHeader" \in given
              THEN {"host"} ELSE {}
      <4>1. \A places : ReadHost(outbound, places)
                         = IF type \in {"ws", "websocket"} /\ given \cap places # {}
                           THEN {"host"} ELSE {}
        BY ReadIs
      <4>2. given \cap {"hostHeader"} # {} <=> "hostHeader" \in given
        OBVIOUS
      <4>3. QED
        BY <4>1, <4>2
    <3>2. /\ ReadAlike(outbound) \subseteq {"path", "host", "mode", "sni", "fp"}
          /\ "fp" \in ReadAlike(outbound)
          /\ "path" \in ReadAlike(outbound)
               <=> type \in {"xhttp", "splithttp", "ws", "websocket", "grpc"}
          /\ "host" \in ReadAlike(outbound) <=> type \in {"xhttp", "splithttp"}
          /\ "mode" \in ReadAlike(outbound) <=> type \in {"xhttp", "splithttp"}
      BY ReadIs
    <3>3. QED
      BY <1>10, <2>1, <3>1, <3>2
  <2>6. p.TLS # c.TLS <=> c.TLS \cap {"insecure", "alpn", "spx"} # {}
    BY <1>9, <2>1, <2>4, <2>5
  <2>7. p.User = c.User /\ c.User \cap {"scy", "obfs"} = {}
    <3>1. /\ XrayUser(r) = XrayUser(outbound) /\ ConfiguredUser(outbound) = XrayUser(outbound)
          /\ XrayUser(outbound) = IF outbound.Protocol = "vless" THEN {"encryption"} ELSE {}
      BY <1>10, <2>1, <2>2 DEF XrayUser, ConfiguredUser
    <3>2. outbound.Protocol = "vless" =>
            ("encryption" \in Has(r) <=> "encryption" \in Configured(outbound))
      BY <1>5, <1>7, <1>8, <2>5
    <3>3. QED
      BY <1>2, <1>6, <3>1, <3>2
  <2>8. p.Transport # c.Transport <=> lost
    <3>1. r.Type # "splithttp" /\ (IsXHTTP(r.Type) => r.Extra # "broken")
      BY <1>1, <2>1 DEF IsXHTTP
    <3>2. /\ p.Transport \subseteq {"header", "seed", "path", "host", "mode", "extra"}
          /\ "header" \in p.Transport <=> type \in {"unset", "tcp"} /\ outbound.Header = "http"
          /\ "seed" \notin p.Transport
          /\ "path" \in p.Transport
               <=> type \in {"ws", "xhttp", "splithttp", "grpc"} /\ "path" \in given
          /\ "host" \in p.Transport
               <=> \/ type \in {"xhttp", "splithttp"} /\ "host" \in given
                   \/ type = "ws" /\ "hostHeader" \in given
          /\ "mode" \in p.Transport <=> type \in {"xhttp", "splithttp"} /\ "mode" \in given
          /\ "extra" \in p.Transport <=> IsXHTTP(type) /\ outbound.Extra = "valid"
      <4>1. /\ p.Transport \subseteq {"header", "seed", "path", "host", "mode", "extra"}
            /\ "header" \in p.Transport
                 <=> r.Type \in {"unset", "tcp", "kcp"} /\ r.Header = "http"
            /\ "seed" \in p.Transport <=> r.Type = "kcp" /\ "seed" \in r.Given
            /\ "path" \in p.Transport
                 <=> /\ \/ r.Type \in {"ws", "httpupgrade", "xhttp"}
                        \/ r.Type = "grpc" /\ r.Protocol # "vmess"
                     /\ "path" \in r.Given
            /\ "host" \in p.Transport
                 <=> r.Type \in {"ws", "httpupgrade", "xhttp"} /\ "host" \in r.Given
            /\ "mode" \in p.Transport <=> r.Type \in {"grpc", "xhttp"} /\ "mode" \in r.Given
            /\ "extra" \in p.Transport <=> r.Type = "xhttp" /\ r.Extra = "valid"
        BY <1>4, <1>6, <2>2, <3>1, ProbedTells
      <4>2. QED
        BY <1>1, <1>10, <2>1, <2>5, <4>1 DEF IsXHTTP
    <3>3. /\ c.Transport \subseteq {"header", "seed", "path", "host", "mode", "extra"}
          /\ "header" \in c.Transport
               <=> \/ type \in {"unset", "tcp", "raw"} /\ outbound.Header = "http"
                   \/ type \in {"kcp", "mkcp"} /\ outbound.Header # "unset"
          /\ "seed" \in c.Transport <=> type \in {"kcp", "mkcp"} /\ "seed" \in given
          /\ "path" \in c.Transport
               <=> /\ type \in {"ws", "websocket", "h2", "http", "httpupgrade", "grpc",
                                "xhttp", "splithttp"}
                   /\ "path" \in given
          /\ "host" \in c.Transport
               <=> \/ /\ type \in {"ws", "websocket", "h2", "http", "httpupgrade",
                                   "xhttp", "splithttp"}
                      /\ "host" \in given
                   \/ type \in {"ws", "websocket"} /\ "hostHeader" \in given
          /\ "mode" \in c.Transport
               <=> type \in {"grpc", "xhttp", "splithttp"} /\ "mode" \in given
          /\ "extra" \in c.Transport <=> IsXHTTP(type) /\ outbound.Extra = "valid"
      BY <1>2, <2>2, ConfiguredTells
    <3>4. p.Transport # c.Transport
            <=> \/ ~("header" \in p.Transport <=> "header" \in c.Transport)
                \/ ~("seed" \in p.Transport <=> "seed" \in c.Transport)
                \/ ~("path" \in p.Transport <=> "path" \in c.Transport)
                \/ ~("host" \in p.Transport <=> "host" \in c.Transport)
                \/ ~("mode" \in p.Transport <=> "mode" \in c.Transport)
                \/ ~("extra" \in p.Transport <=> "extra" \in c.Transport)
      BY <3>2, <3>3, TransportsDiffer
    <3>5. QED
      BY <1>10, <3>2, <3>3, <3>4
  <2>9. p # c <=> lost \/ c.TLS \cap {"insecure", "alpn", "spx"} # {}
    BY <1>2, <1>6, <2>3, <2>4, <2>6, <2>7, <2>8, DialsDiffer
  <2>10. ConversionGap(outbound) <=> lost \/ c.TLS \cap {"insecure", "alpn", "spx"} # {}
    BY <1>10, <2>7 DEF ConversionGap, c
  <2>11. QED
    BY <2>9, <2>10 DEF p, c, r
<1>11. CASE outbound.Protocol = "vmess"
  <2>1. /\ r.Protocol = "vmess"
        /\ r.Type = IF IsXHTTP(type) THEN "xhttp" ELSE NetworkOf(outbound)
        /\ r.Security = IF outbound.Security \in {"tls", "reality"} THEN "tls" ELSE "unset"
        /\ r.Header = NetworkOf(outbound)
        /\ r.Insecure = "unset" /\ r.Extra = outbound.Extra
        /\ r.Given = (given \cap ReadAlike(outbound))
                     \cup ReadHost(outbound, {"host", "hostHeader"})
                     \cup (IF Is(outbound, "kcp") /\ "seed" \in given THEN {"path"} ELSE {})
        /\ r.Extra # "broken"
    BY <1>11, VMessRead DEF r
  <2>2. ~IsHysteria(outbound) /\ ~IsHysteria(r)
    BY <1>11, <2>1 DEF IsHysteria
  <2>3. p.Network = c.Network
    <3>1. Canonical(r.Type) = Canonical(type)
      BY <1>1, <2>1 DEF Canonical, NetworkOf, IsXHTTP, Types
    <3>2. QED
      BY <1>2, <1>4, <1>6, <2>2, <3>1, ProberTells DEF ConfiguredNetwork
  <2>4. p.Security = IF security = "none" THEN "none" ELSE "tls"
    BY <1>1, <1>3, <1>4, <1>6, <2>1, <2>2, ProberTells DEF MapSecurity
  <2>5. /\ "fp" \in r.Given <=> "fp" \in given
        /\ "alpn" \notin r.Given /\ "spx" \notin r.Given
        /\ "seed" \notin r.Given /\ "scy" \notin r.Given
        /\ type \notin {"kcp", "mkcp"} =>
             ("path" \in r.Given
                <=> /\ type \in {"xhttp", "splithttp", "ws", "websocket", "grpc"}
                    /\ "path" \in given)
        /\ "mode" \in r.Given <=> type \in {"xhttp", "splithttp"} /\ "mode" \in given
        /\ "host" \in r.Given
             <=> \/ type \in {"xhttp", "splithttp"} /\ "host" \in given
                 \/ /\ type \in {"ws", "websocket"}
                    /\ "host" \in given \/ "hostHeader" \in given
    <3>1. ReadHost(outbound, {"host", "hostHeader"})
            = IF type \in {"ws", "websocket"} /\ ("host" \in given \/ "hostHeader" \in given)
              THEN {"host"} ELSE {}
      <4>1. \A places : ReadHost(outbound, places)
                         = IF type \in {"ws", "websocket"} /\ given \cap places # {}
                           THEN {"host"} ELSE {}
        BY ReadIs
      <4>2. given \cap {"host", "hostHeader"} # {} <=> "host" \in given \/ "hostHeader" \in given
        OBVIOUS
      <4>3. QED
        BY <4>1, <4>2
    <3>2. /\ ReadAlike(outbound) \subseteq {"path", "host", "mode", "sni", "fp"}
          /\ "fp" \in ReadAlike(outbound)
          /\ "path" \in ReadAlike(outbound)
               <=> type \in {"xhttp", "splithttp", "ws", "websocket", "grpc"}
          /\ "host" \in ReadAlike(outbound) <=> type \in {"xhttp", "splithttp"}
          /\ "mode" \in ReadAlike(outbound) <=> type \in {"xhttp", "splithttp"}
          /\ Is(outbound, "kcp") <=> type \in {"kcp", "mkcp"}
      BY ReadIs
    <3>3. QED
      BY <2>1, <3>1, <3>2
  <2>6. security # "reality" =>
          (p.TLS # c.TLS <=> c.TLS \cap {"insecure", "alpn", "spx"} # {})
    <3>1. security # "reality" => p.Security = security
      BY <1>3, <2>4
    <3>2. QED
      BY <1>9, <2>1, <2>5, <3>1
  <2>7. p.User # c.User <=> c.User \cap {"scy", "obfs"} # {}
    <3>1. XrayUser(r) = {"scy"} /\ ConfiguredUser(outbound) = {"scy"}
      BY <1>11, <2>1, <2>2 DEF XrayUser, ConfiguredUser
    <3>2. "scy" \notin Has(r)
      BY <1>7, <1>8, <2>5
    <3>3. QED
      BY <1>2, <1>6, <3>1, <3>2
  <2>8. p.Transport # c.Transport <=> lost
    <3>1. r.Type # "splithttp" /\ (IsXHTTP(r.Type) => r.Extra # "broken")
      BY <1>1, <2>1 DEF NetworkOf, IsXHTTP
    <3>2. /\ p.Transport \subseteq {"header", "seed", "path", "host", "mode", "extra"}
          /\ "header" \notin p.Transport /\ "seed" \notin p.Transport
          /\ "path" \in p.Transport
               <=> type \in {"ws", "xhttp", "splithttp"} /\ "path" \in given
          /\ "host" \in p.Transport
               <=> \/ type \in {"xhttp", "splithttp"} /\ "host" \in given
                   \/ type = "ws" /\ ("host" \in given \/ "hostHeader" \in given)
          /\ "mode" \in p.Transport <=> type \in {"xhttp", "splithttp"} /\ "mode" \in given
          /\ "extra" \in p.Transport <=> IsXHTTP(type) /\ outbound.Extra = "valid"
      <4>1. /\ p.Transport \subseteq {"header", "seed", "path", "host", "mode", "extra"}
            /\ "header" \in p.Transport
                 <=> r.Type \in {"unset", "tcp", "kcp"} /\ r.Header = "http"
            /\ "seed" \in p.Transport <=> r.Type = "kcp" /\ "seed" \in r.Given
            /\ "path" \in p.Transport
                 <=> /\ \/ r.Type \in {"ws", "httpupgrade", "xhttp"}
                        \/ r.Type = "grpc" /\ r.Protocol # "vmess"
                     /\ "path" \in r.Given
            /\ "host" \in p.Transport
                 <=> r.Type \in {"ws", "httpupgrade", "xhttp"} /\ "host" \in r.Given
            /\ "mode" \in p.Transport <=> r.Type \in {"grpc", "xhttp"} /\ "mode" \in r.Given
            /\ "extra" \in p.Transport <=> r.Type = "xhttp" /\ r.Extra = "valid"
        BY <1>4, <1>6, <2>2, <3>1, ProbedTells
      <4>2. QED
        BY <1>1, <2>1, <2>5, <4>1 DEF IsXHTTP, NetworkOf
    <3>3. /\ c.Transport \subseteq {"header", "seed", "path", "host", "mode", "extra"}
          /\ "header" \in c.Transport
               <=> \/ type \in {"unset", "tcp", "raw"} /\ outbound.Header = "http"
                   \/ type \in {"kcp", "mkcp"} /\ outbound.Header # "unset"
          /\ "seed" \in c.Transport <=> type \in {"kcp", "mkcp"} /\ "seed" \in given
          /\ "path" \in c.Transport
               <=> /\ type \in {"ws", "websocket", "h2", "http", "httpupgrade", "grpc",
                                "xhttp", "splithttp"}
                   /\ "path" \in given
          /\ "host" \in c.Transport
               <=> \/ /\ type \in {"ws", "websocket", "h2", "http", "httpupgrade",
                                   "xhttp", "splithttp"}
                      /\ "host" \in given
                   \/ type \in {"ws", "websocket"} /\ "hostHeader" \in given
          /\ "mode" \in c.Transport
               <=> type \in {"grpc", "xhttp", "splithttp"} /\ "mode" \in given
          /\ "extra" \in c.Transport <=> IsXHTTP(type) /\ outbound.Extra = "valid"
      BY <1>2, <2>2, ConfiguredTells
    <3>4. p.Transport # c.Transport
            <=> \/ ~("header" \in p.Transport <=> "header" \in c.Transport)
                \/ ~("seed" \in p.Transport <=> "seed" \in c.Transport)
                \/ ~("path" \in p.Transport <=> "path" \in c.Transport)
                \/ ~("host" \in p.Transport <=> "host" \in c.Transport)
                \/ ~("mode" \in p.Transport <=> "mode" \in c.Transport)
                \/ ~("extra" \in p.Transport <=> "extra" \in c.Transport)
      BY <3>2, <3>3, TransportsDiffer
    <3>5. QED
      BY <1>11, <3>2, <3>3, <3>4
  <2>9. p.Security # c.Security <=> security = "reality"
    BY <1>2, <1>3, <2>4
  <2>10. p # c <=> \/ security = "reality" \/ lost
                   \/ c.TLS \cap {"insecure", "alpn", "spx"} # {}
                   \/ c.User \cap {"scy", "obfs"} # {}
    BY <1>2, <1>6, <2>3, <2>6, <2>7, <2>8, <2>9, DialsDiffer
  <2>11. ConversionGap(outbound)
           <=> \/ security = "reality" \/ lost
               \/ c.TLS \cap {"insecure", "alpn", "spx"} # {}
               \/ c.User \cap {"scy", "obfs"} # {}
    BY <1>2, <1>11 DEF ConversionGap, c
  <2>12. QED
    BY <2>10, <2>11 DEF p, c, r
<1>12. CASE outbound.Protocol = "ss"
  <2>1. /\ r.Protocol = "ss" /\ r.Type = "unset" /\ r.Header = "unset"
        /\ r.Insecure = "unset" /\ r.Extra = "unset" /\ r.Given \subseteq {"sni"}
        /\ r.Security = "unset"
    BY <1>12, BareRead DEF r
  <2>2. ~IsHysteria(outbound) /\ ~IsHysteria(r)
    BY <1>12, <2>1 DEF IsHysteria
  <2>3. Has(r) \subseteq {"sni"}
    BY <2>1 DEF Has
  <2>4. /\ p.Network = "tcp" /\ p.Security = "none"
        /\ p.Transport = {} /\ p.TLS = {} /\ p.User = {}
    <3>1. Canonical(r.Type) = "tcp" /\ MapSecurity(r.Security) = "none"
      BY <2>1, CanonicalIs DEF Types, MapSecurity
    <3>2. /\ ProberTLS(p.Security) \subseteq {"insecure", "alpn", "fp", "spx"}
          /\ ProberTransport(r) = {"header"} /\ XrayUser(r) = {}
      BY <1>4, <2>1, <2>2, ProberTells DEF ProberTLS, XrayUser
    <3>3. QED
      BY <1>4, <1>6, <2>2, <2>3, <3>1, <3>2, ProberTells
  <2>5. c.User = {}
    BY <1>2, <1>12, <2>2 DEF ConfiguredUser, XrayUser
  <2>6. security = "none" => c.TLS = {}
    BY <1>2 DEF ProberTLS
  <2>7. c.Network = "tcp" =>
          /\ c.Transport # {} <=> "header" \in c.Transport
          /\ type \in {"unset", "tcp", "raw"}
    <3>1. c.Network = "tcp" => ConfiguredTransport(outbound) = {"header"}
      BY <1>2 DEF ConfiguredTransport
    <3>2. c.Network = "tcp" => type \in {"unset", "tcp", "raw"}
      BY <1>1, <1>2, <2>2, CanonicalIs DEF ConfiguredNetwork
    <3>3. QED
      BY <1>2, <3>1, <3>2
  <2>8. p # c <=> \/ c.Network # "tcp" \/ security # "none"
                  \/ "header" \in c.Transport
    BY <1>2, <1>6, <2>4, <2>5, <2>6, <2>7, DialsDiffer
  <2>9. security # "none" \/ c.TLS \cap {"insecure", "alpn", "spx"} = {}
    BY <2>6
  <2>10. c.Network = "tcp" =>
           c.Transport \cap {"seed", "path", "host", "mode", "extra"} = {}
    BY <1>2 DEF ConfiguredTransport
  <2>11. ConversionGap(outbound)
           <=> \/ c.TLS \cap {"insecure", "alpn", "spx"} # {}
               \/ c.Network # "tcp" \/ security # "none" \/ "header" \in c.Transport
               \/ lost \/ "seed" \in c.Transport
    BY <1>2, <1>12, <2>5 DEF ConversionGap, c
  <2>12. lost \/ "seed" \in c.Transport => c.Network # "tcp" \/ "header" \in c.Transport
    BY <2>10
  <2>13. QED
    BY <2>8, <2>9, <2>11, <2>12 DEF p, c, r
<1>13. CASE outbound.Protocol = "hysteria2"
  <2>1. /\ r.Protocol = "hysteria2" /\ r.Type = "unset" /\ r.Header = "unset"
        /\ r.Insecure = "unset" /\ r.Extra = "unset" /\ r.Given \subseteq {"sni"}
        /\ r.Security = "tls"
    BY <1>13, BareRead DEF r
  <2>2. IsHysteria(outbound) /\ IsHysteria(r)
    BY <1>13, <2>1 DEF IsHysteria
  <2>3. Has(r) \subseteq {"sni"}
    BY <2>1 DEF Has
  <2>4. /\ p.Network = "hysteria" /\ p.Security = "tls"
        /\ p.Transport = {} /\ p.TLS = {} /\ p.User = {}
    <3>1. ProberNetwork(r) = "hysteria" /\ Canonical("hysteria") = "hysteria"
      BY <2>1, <2>2, CanonicalIs DEF ProberNetwork, Types, Canonical, IsXHTTP
    <3>2. ProberSecurity(r) = "tls"
      BY <2>1, <2>2 DEF ProberSecurity, MapSecurity
    <3>3. ProberTransport(r) = {} /\ XrayUser(r) = {}
      BY <2>1, <3>1 DEF ProberTransport, XrayUser
    <3>4. "sni" \notin ProberTLS("tls")
      BY DEF ProberTLS
    <3>5. QED
      BY <1>6, <2>3, <3>1, <3>2, <3>3, <3>4
  <2>5. c.Network = "hysteria" /\ c.Transport = {}
    BY <1>2, <2>2 DEF ConfiguredNetwork, ConfiguredTransport
  <2>6. c.User \subseteq {"obfs"}
    BY <1>2, <2>2 DEF ConfiguredUser
  <2>7. c.TLS \subseteq {"insecure", "alpn", "fp", "spx"}
    BY <1>2 DEF ProberTLS
  <2>8. p # c <=> \/ security # "tls" \/ c.TLS # {} \/ c.User # {}
    BY <1>2, <1>6, <2>4, <2>5, DialsDiffer
  <2>9. ConversionGap(outbound)
          <=> \/ c.TLS \cap {"insecure", "alpn", "spx"} # {}
              \/ c.User \cap {"scy", "obfs"} # {}
              \/ security # "tls" \/ "fp" \in c.TLS
    BY <1>2, <1>13, <2>5 DEF ConversionGap, c
  <2>10. QED
    BY <2>6, <2>7, <2>8, <2>9 DEF p, c, r
<1>14. QED
  BY <1>1, <1>10, <1>11, <1>12, <1>13 DEF Protocols

(***************************************************************************)
(* 3. Sequences: Kept lists what is at some positions, in order, each      *)
(* once, and RenameAll never gives two routes the same name.               *)
(***************************************************************************)
Rank(positions, i) == Cardinality({j \in positions : j <= i})

At(positions, k) == CHOOSE i \in positions : Rank(positions, i) = k

(* Ranks grow with the position, so every number up to the size of the     *)
(* set is the rank of one position.                                        *)
LEMMA RanksCount ==
  ASSUME NEW n \in Nat, NEW positions \in SUBSET (1 .. n)
  PROVE  /\ Cardinality(positions) \in Nat
         /\ \A i \in positions :
              /\ Rank(positions, i) \in 1 .. Cardinality(positions)
              /\ At(positions, Rank(positions, i)) = i
         /\ \A k \in 1 .. Cardinality(positions) :
              /\ At(positions, k) \in positions
              /\ Rank(positions, At(positions, k)) = k
<1> DEFINE S == positions
           size == Cardinality(S)
           upTo(i) == {j \in S : j <= i}
<1>1. IsFiniteSet(1 .. n)
  BY FS_Interval
<1>2. IsFiniteSet(S) /\ size \in Nat
  BY <1>1, FS_Subset, FS_CardinalityType
<1>3. ASSUME NEW i \in S
      PROVE  IsFiniteSet(upTo(i)) /\ Rank(S, i) \in 1 .. size
  <2>1. IsFiniteSet(upTo(i)) /\ Cardinality(upTo(i)) <= size
    BY <1>2, FS_Subset
  <2>2. i \in upTo(i)
    OBVIOUS
  <2>3. Cardinality(upTo(i)) # 0
    BY <2>1, <2>2, FS_EmptySet
  <2>4. Cardinality(upTo(i)) \in Nat
    BY <2>1, FS_CardinalityType
  <2>5. Rank(S, i) = Cardinality(upTo(i))
    BY DEF Rank
  <2> HIDE DEF upTo
  <2>6. QED
    BY <1>2, <2>1, <2>3, <2>4, <2>5
<1>4. ASSUME NEW i \in S, NEW k \in S, i < k
      PROVE  Rank(S, i) # Rank(S, k)
  <2>1. k \in upTo(k) /\ k \notin upTo(i)
    BY <1>4
  <2>2. upTo(i) \in SUBSET upTo(k)
    <3>1. i \in Int /\ k \in Int /\ \A j \in S : j \in Int
      OBVIOUS
    <3>2. \A j \in upTo(i) : j \in upTo(k)
      BY <1>4, <3>1
    <3>3. QED
      BY <3>2
  <2> HIDE DEF upTo
  <2>3. Cardinality(upTo(i)) # Cardinality(upTo(k))
    BY <1>3, <2>1, <2>2, FS_Subset
  <2>4. QED
    BY <2>3 DEF Rank, upTo
<1>5. \A i, k \in S : Rank(S, i) = Rank(S, k) => i = k
  BY <1>4
<1> DEFINE rank == [i \in S |-> Rank(S, i)]
<1>6. rank \in Injection(S, 1 .. size)
  BY <1>2, <1>3, <1>5 DEF Injection, IsInjective
<1>7. IsFiniteSet(1 .. size) /\ Cardinality(1 .. size) = size
  BY <1>2, FS_Interval
<1>8. rank \in Surjection(S, 1 .. size)
  BY <1>2, <1>6, <1>7, FS_Injection
<1>9. \A k \in 1 .. size : \E i \in S : Rank(S, i) = k
  BY <1>8 DEF Surjection
<1> HIDE DEF S, size
<1>10. ASSUME NEW k, \E i \in S : Rank(S, i) = k
       PROVE  At(S, k) \in S /\ Rank(S, At(S, k)) = k
  BY <1>10, Zenon DEF At
<1>11. \A i \in S : At(S, Rank(S, i)) = i
  BY <1>5, <1>10
<1>12. QED
  BY <1>2, <1>3, <1>9, <1>10, <1>11 DEF S, size

(* Kept lists the entry of rank k in place k.                              *)
LEMMA KeptIs ==
  ASSUME NEW seq, NEW n \in Nat, NEW positions \in SUBSET (1 .. n)
  PROVE  /\ DOMAIN Kept(seq, positions) = 1 .. Cardinality(positions)
         /\ \A k \in 1 .. Cardinality(positions) :
              Kept(seq, positions)[k] = seq[At(positions, k)]
  BY DEF Kept, At, Rank

(* The sequence `sub` has the entries of `seq` at the positions, each once. *)
Picks(sub, seq, positions) ==
  /\ \E m \in Nat : DOMAIN sub = 1 .. m
  /\ \E pos \in Bijection(DOMAIN sub, positions) :
       \A k \in DOMAIN sub : sub[k] = seq[pos[k]]

(* Kept picks what is at the positions, each once.                         *)
LEMMA KeptPicks ==
  ASSUME NEW seq, NEW n \in Nat, NEW positions \in SUBSET (1 .. n)
  PROVE  Picks(Kept(seq, positions), seq, positions)
<1> DEFINE size == Cardinality(positions)
           pos == [k \in 1 .. size |-> At(positions, k)]
           sub == Kept(seq, positions)
<1>1. size \in Nat
  BY RanksCount
<1>2. DOMAIN sub = 1 .. size /\ \A k \in 1 .. size : sub[k] = seq[At(positions, k)]
  BY KeptIs
<1>3. /\ \A i \in positions :
           /\ Rank(positions, i) \in 1 .. size
           /\ At(positions, Rank(positions, i)) = i
      /\ \A k \in 1 .. size : /\ At(positions, k) \in positions
                              /\ Rank(positions, At(positions, k)) = k
  BY RanksCount
<1> HIDE DEF size, sub
<1>4. pos \in [1 .. size -> positions]
  BY <1>3
<1>5. \A k, l \in 1 .. size : pos[k] = pos[l] => k = l
  BY <1>3
<1>6. \A i \in positions : \E k \in 1 .. size : pos[k] = i
  BY <1>3
<1>7. pos \in Bijection(1 .. size, positions)
  BY <1>4, <1>5, <1>6 DEF Bijection, Injection, Surjection, IsInjective
<1>8. \A k \in 1 .. size : sub[k] = seq[pos[k]]
  BY <1>2
<1> HIDE DEF pos
<1>9. QED
  BY <1>1, <1>2, <1>7, <1>8 DEF Picks, sub

(* Picking what was picked is picking.                                     *)
LEMMA PicksOfPicks ==
  ASSUME NEW seq, NEW mid, NEW sub, NEW outer, NEW inner,
         NEW pos \in Bijection(DOMAIN mid, outer),
         \A k \in DOMAIN mid : mid[k] = seq[pos[k]],
         inner \subseteq DOMAIN mid, Picks(sub, mid, inner)
  PROVE  Picks(sub, seq, {pos[k] : k \in inner})
<1>1. PICK step \in Bijection(DOMAIN sub, inner) : \A k \in DOMAIN sub : sub[k] = mid[step[k]]
  BY DEF Picks
<1> DEFINE goal == {pos[k] : k \in inner}
           both == [k \in DOMAIN sub |-> pos[step[k]]]
<1>2. /\ step \in [DOMAIN sub -> inner]
      /\ \A k, l \in DOMAIN sub : step[k] = step[l] => k = l
      /\ \A i \in inner : \E k \in DOMAIN sub : step[k] = i
  BY DEF Bijection, Injection, Surjection, IsInjective
<1>3. \A k, l \in DOMAIN mid : pos[k] = pos[l] => k = l
  BY DEF Bijection, Injection, Surjection, IsInjective
<1>4. both \in [DOMAIN sub -> goal]
  BY <1>2
<1>5. \A k, l \in DOMAIN sub : both[k] = both[l] => k = l
  BY <1>2, <1>3
<1>6. \A i \in goal : \E k \in DOMAIN sub : both[k] = i
  BY <1>2
<1>7. both \in Bijection(DOMAIN sub, goal)
  BY <1>4, <1>5, <1>6 DEF Bijection, Injection, Surjection, IsInjective
<1>8. \A k \in DOMAIN sub : sub[k] = seq[both[k]]
  BY <1>1, <1>2
<1> HIDE DEF both
<1>9. QED
  BY <1>7, <1>8 DEF Picks

(* Two routes with one label and one address have different counts.        *)
LEMMA NamesDiffer ==
  ASSUME NEW n \in Nat, NEW geos, DOMAIN geos = 1 .. n
  PROVE  /\ DOMAIN RenameAll(geos) = 1 .. n
         /\ \A i \in 1 .. n : \E a, b, c : RenameAll(geos)[i] = <<a, b, c>>
         /\ \A i, j \in 1 .. n : RenameAll(geos)[i] = RenameAll(geos)[j] => i = j
<1> DEFINE exits(label) ==
             {geos[j].IP : j \in {k \in DOMAIN geos : geos[k].Label = label}} \ {"unset"}
           second(i) == IF geos[i].IP # "unset" /\ Cardinality(exits(geos[i].Label)) > 1
                        THEN ExitID[geos[i].IP] ELSE "unset"
           base(i) == <<geos[i].Label, second(i)>>
           same(i) == {j \in 1 .. i : base(j) = base(i)}
           count(i) == Cardinality(same(i))
<1>1. RenameAll(geos) = [i \in DOMAIN geos |-> <<base(i)[1], base(i)[2], count(i)>>]
  BY Zenon DEF RenameAll
<1>2. \A i : base(i)[1] = geos[i].Label /\ base(i)[2] = second(i)
  BY Zenon
<1> HIDE DEF second
<1>3. RenameAll(geos) = [i \in 1 .. n |-> <<geos[i].Label, second(i), count(i)>>]
  BY <1>1, <1>2
<1>4. ASSUME NEW i \in 1 .. n, NEW j \in 1 .. n, i < j, base(i) = base(j)
      PROVE  count(i) # count(j)
  <2>1. IsFiniteSet(1 .. j)
    BY FS_Interval
  <2>2. IsFiniteSet(same(j))
    BY <2>1, FS_Subset
  <2>3. j \in same(j) /\ j \notin same(i)
    BY <1>4
  <2>4. same(i) \in SUBSET same(j)
    BY <1>4
  <2> HIDE DEF same
  <2>5. QED
    BY <2>2, <2>3, <2>4, FS_Subset
<1>5. ASSUME NEW i \in 1 .. n, NEW j \in 1 .. n, RenameAll(geos)[i] = RenameAll(geos)[j]
      PROVE  i = j
  <2>1. <<geos[i].Label, second(i), count(i)>> = <<geos[j].Label, second(j), count(j)>>
    BY <1>3, <1>5
  <2> HIDE DEF count
  <2>2. geos[i].Label = geos[j].Label /\ second(i) = second(j) /\ count(i) = count(j)
    BY <2>1
  <2>3. base(i) = base(j)
    BY <2>2
  <2>4. i < j \/ j < i \/ i = j
    OBVIOUS
  <2> HIDE DEF base
  <2>5. QED
    BY <1>4, <2>2, <2>3, <2>4
<1> HIDE DEF count
<1>6. QED
  BY <1>3, <1>5

(***************************************************************************)
(* 4. Entries, and what a view lists of them.                              *)
(***************************************************************************)
(* An entry, as the views read it.                                         *)
GoodEntry(entry) ==
  /\ entry.Source \in [Kind : {"link", "xray"}, Link : Records]
  /\ RecordOf(entry.Source) # NoRecord
  /\ entry.Record = RecordOf(entry.Source)
  /\ entry.Countries \in RouteCountries
  /\ \A route \in Routes : \E a, b, c : entry.Name[route] = <<a, b, c>>

(* The entries of a snapshot: each stands for a record that parses, and no *)
(* two have the same name on a route.                                      *)
GoodEntries(entries) ==
  \E n \in Nat :
  /\ DOMAIN entries = 1 .. n
  /\ \A i \in 1 .. n : GoodEntry(entries[i])
  /\ \A route \in Routes : \A i, j \in 1 .. n :
         entries[i].Name[route] = entries[j].Name[route] => i = j

(* The entries of any listing of probed records are good.                  *)
LEMMA EntriesAreGood ==
  ASSUME NEW listing \in Seq(ProbedRecords)
  PROVE  GoodEntries(EntriesOf(listing))
<1> DEFINE positions == {i \in DOMAIN listing : RecordOf(listing[i].Source) # NoRecord}
           parsed == Kept(listing, positions)
           geos(route) == [i \in DOMAIN parsed |-> parsed[i].Geo[route]]
           names == [route \in Routes |-> RenameAll(geos(route))]
           entry(i) == [ Source |-> parsed[i].Source, Record |-> RecordOf(parsed[i].Source),
                         Healthy |-> parsed[i].Healthy, Countries |-> parsed[i].Countries,
                         Name |-> [route \in Routes |-> names[route][i]] ]
<1>1. /\ Len(listing) \in Nat /\ DOMAIN listing = 1 .. Len(listing)
      /\ \A i \in DOMAIN listing : listing[i] \in ProbedRecords
  OBVIOUS
<1>2. Picks(parsed, listing, positions)
  BY <1>1, KeptPicks
<1>3. EntriesOf(listing) = [i \in DOMAIN parsed |-> entry(i)]
  BY Zenon DEF EntriesOf
<1>4. PICK n \in Nat : DOMAIN parsed = 1 .. n
  BY <1>2 DEF Picks
<1>5. \A i \in 1 .. n : parsed[i] \in ProbedRecords /\ RecordOf(parsed[i].Source) # NoRecord
  <2>1. PICK pos \in Bijection(1 .. n, positions) : \A k \in 1 .. n : parsed[k] = listing[pos[k]]
    BY <1>2, <1>4 DEF Picks
  <2>2. \A k \in 1 .. n : pos[k] \in positions
    BY DEF Bijection, Injection
  <2> HIDE DEF parsed
  <2>3. QED
    BY <1>1, <2>1, <2>2
<1> HIDE DEF parsed
<1>6. ASSUME NEW route \in Routes
      PROVE  /\ names[route] = RenameAll(geos(route))
             /\ \A i \in 1 .. n : \E a, b, c : names[route][i] = <<a, b, c>>
             /\ \A i, j \in 1 .. n : names[route][i] = names[route][j] => i = j
  <2>1. DOMAIN geos(route) = 1 .. n
    BY <1>4
  <2>2. names[route] = RenameAll(geos(route))
    OBVIOUS
  <2> HIDE DEF geos, names
  <2>3. QED
    BY <2>1, <2>2, NamesDiffer
<1> HIDE DEF names, geos
<1>7. ASSUME NEW i \in 1 .. n
      PROVE  /\ EntriesOf(listing)[i] = entry(i)
             /\ GoodEntry(entry(i))
             /\ \A route \in Routes : entry(i).Name[route] = names[route][i]
  <2>1. EntriesOf(listing)[i] = entry(i)
    BY <1>3, <1>4
  <2>2. /\ parsed[i].Source \in [Kind : {"link", "xray"}, Link : Records]
        /\ parsed[i].Countries \in RouteCountries
    BY <1>5 DEF ProbedRecords
  <2>3. \A route \in Routes : entry(i).Name[route] = names[route][i]
    OBVIOUS
  <2>4. /\ entry(i).Source = parsed[i].Source
        /\ entry(i).Record = RecordOf(parsed[i].Source)
        /\ entry(i).Countries = parsed[i].Countries
    OBVIOUS
  <2> HIDE DEF entry
  <2>5. QED
    BY <1>5, <1>6, <2>1, <2>2, <2>3, <2>4 DEF GoodEntry
<1> HIDE DEF entry
<1>8. DOMAIN EntriesOf(listing) = 1 .. n
  BY <1>3, <1>4
<1>9. \A route \in Routes : \A i, j \in 1 .. n :
        EntriesOf(listing)[i].Name[route] = EntriesOf(listing)[j].Name[route] => i = j
  BY <1>6, <1>7
<1>10. QED
  BY <1>7, <1>8, <1>9 DEF GoodEntries

(* The record of an entry, of a link or of an outbound, is one that Parse  *)
(* makes.                                                                  *)
LEMMA EntryReads ==
  ASSUME NEW entry, GoodEntry(entry)
  PROVE  ParsedRecord(entry.Record)
<1> DEFINE source == entry.Source
<1>1. /\ LinkOf(source) # NoLink /\ Parse(LinkOf(source)) # NoRecord
      /\ entry.Record = Parse(LinkOf(source))
  BY DEF GoodEntry, RecordOf, NoLink
<1>2. source.Link \in Records
  BY DEF GoodEntry
<1>3. CASE source.Kind = "xray"
  BY <1>1, <1>2, <1>3, OutboundReads DEF LinkOf
<1>4. CASE source.Kind # "xray"
  BY <1>1, <1>2, <1>4, ParseResult DEF LinkOf
<1>5. QED
  BY <1>3, <1>4

(* The prober dials every record, and so a link can be made of every one.  *)
LEMMA ProberDials == \A record : ProberDial(record) # Omitted
<1>1. ASSUME NEW record PROVE ProberDial(record) # Omitted
  <2>1. "User" \in DOMAIN ProberDial(record)
    BY DEF ProberDial, Dial
  <2>2. "User" \notin DOMAIN Omitted
    BY DEF Omitted
  <2>3. QED
    BY <2>1, <2>2
<1>2. QED
  BY <1>1

(* What Filter lets through is free of the excluded countries.             *)
LEMMA FilterIsClean ==
  ASSUME NEW countries \in RouteCountries, NEW route \in Routes, NEW excluded
  PROVE  Filter(countries, route, excluded).Include
           <=> excluded = {} \/ Clean(countries, route, excluded)
<1> DEFINE known == {f \in Families : countries[route][f].Available}
           has(f) == countries[route][f]
           filtered == \E f \in known :
             \/ has(f).Country \in excluded
             \/ has(f).ObservedCountry \in excluded
             \/ has(f).CandidateCountry \in excluded
           unknown ==
             \/ known = {}
             \/ \E f \in known : \/ has(f).Status = "UNKNOWN"
                                 \/ has(f).Status = "CONFIRMED" /\ has(f).Country = NoCountry
           conflict == \E f \in known : has(f).Status = "CONFLICT"
<1>1. \A f \in Families : has(f).Status \in Status /\ has(f).Available \in BOOLEAN
  BY DEF RouteCountries, FamilyResults
<1>2. CASE excluded = {}
  BY <1>2 DEF Filter, Decision
<1>3. CASE excluded # {}
  <2>1. Filter(countries, route, excluded)
          = Decision(~filtered /\ ~unknown /\ ~conflict, filtered, unknown, conflict)
    BY <1>3 DEF Filter
  <2>2. Clean(countries, route, excluded)
          <=> /\ known # {}
              /\ \A f \in known :
                   /\ has(f).Available /\ has(f).Status = "CONFIRMED"
                   /\ has(f).Country # NoCountry
                   /\ has(f).Country \notin excluded
                   /\ has(f).ObservedCountry \notin excluded
                   /\ has(f).CandidateCountry \notin excluded
    BY DEF Clean, Stable
  <2>3. Clean(countries, route, excluded) <=> ~filtered /\ ~unknown /\ ~conflict
    <3>1. \A f \in known : f \in Families /\ has(f).Available
      OBVIOUS
    <3>2. \A f \in known : has(f).Status \in {"UNKNOWN", "CONFIRMED", "CONFLICT"}
      BY <1>1, <3>1 DEF Status
    <3> HIDE DEF known, has
    <3>3. CASE known = {}
      BY <2>2, <3>3
    <3>4. CASE known # {}
      <4>1. ASSUME ~filtered, ~unknown, ~conflict
            PROVE  Clean(countries, route, excluded)
        <5>1. ASSUME NEW f \in known
              PROVE  /\ has(f).Available /\ has(f).Status = "CONFIRMED"
                     /\ has(f).Country # NoCountry
                     /\ has(f).Country \notin excluded
                     /\ has(f).ObservedCountry \notin excluded
                     /\ has(f).CandidateCountry \notin excluded
          BY <3>1, <3>2, <4>1, <5>1
        <5>2. QED
          BY <2>2, <3>4, <5>1
      <4>2. ASSUME Clean(countries, route, excluded)
            PROVE  ~filtered /\ ~unknown /\ ~conflict
        BY <2>2, <3>4, <4>2
      <4>3. QED
        BY <4>1, <4>2
    <3>5. QED
      BY <3>3, <3>4
  <2> DEFINE include == ~filtered /\ ~unknown /\ ~conflict
  <2>4. include \in BOOLEAN
    OBVIOUS
  <2> HIDE DEF filtered, unknown, conflict, include
  <2>5. Filter(countries, route, excluded) = Decision(include, filtered, unknown, conflict)
    BY <2>1 DEF include
  <2>6. Filter(countries, route, excluded).Include <=> include
    BY <2>4, <2>5 DEF Decision
  <2>7. Filter(countries, route, excluded).Include <=> ~filtered /\ ~unknown /\ ~conflict
    BY <2>6 DEF include
  <2>8. QED
    BY <1>3, <2>3, <2>7
<1>4. QED
  BY <1>2, <1>3

(* What a view is to list, by position in the snapshot.                    *)
Due(entries, options) ==
  LET route == RouteOf(options.Warp)
  IN  {i \in DOMAIN entries :
         /\ entries[i].Healthy[route]
         /\ options.Exclude = {} \/ Clean(entries[i].Countries, route, options.Exclude)
         /\ FormatDial(options.Format, entries[i].Record) # Omitted}

(* The share links made when a snapshot is published, and what is filtered *)
(* and expressed at each request, are the same entries: those that are     *)
(* due, each once.                                                         *)
LEMMA RenderPicks ==
  ASSUME NEW entries, NEW n \in Nat, DOMAIN entries = 1 .. n,
         \A i \in 1 .. n : GoodEntry(entries[i]),
         NEW options, options.Warp \in BOOLEAN
  PROVE  LET listed == Render(Snapshot(entries), options)
         IN  \E m \in Nat : \E pos \in Bijection(1 .. m, Due(entries, options)) :
               listed = [k \in 1 .. m |-> Listed(entries[pos[k]], RouteOf(options.Warp))]
<1> DEFINE route == RouteOf(options.Warp)
           data == Snapshot(entries)
           listed == Render(data, options)
           due == Due(entries, options)
<1>1. route \in Routes
  BY DEF RouteOf, Routes
<1>2. data.Entries = entries
  BY DEF Snapshot
<1>3. \A i \in 1 .. n : Filter(entries[i].Countries, route, options.Exclude).Include
        <=> options.Exclude = {} \/ Clean(entries[i].Countries, route, options.Exclude)
  BY <1>1, FilterIsClean DEF GoodEntry
<1>4. CASE options.Exclude = {} /\ options.Format = "url" /\ ~options.Warp
  <2> DEFINE positions == {i \in DOMAIN entries : entries[i].Healthy["direct"]}
             healthy == Kept(entries, positions)
  <2>1. listed = data.Output
    BY <1>4 DEF Render
  <2>2. data.Output = [i \in DOMAIN healthy |-> Listed(healthy[i], "direct")]
    BY Zenon DEF Snapshot, HealthyOn
  <2>3. route = "direct"
    BY <1>4 DEF RouteOf
  <2>4. due = positions
    <3>1. \A i \in DOMAIN entries : FormatDial(options.Format, entries[i].Record) # Omitted
      BY <1>4, ProberDials DEF FormatDial, URLDial
    <3>2. QED
      BY <1>4, <2>3, <3>1 DEF Due
  <2>5. Picks(healthy, entries, positions)
    BY KeptPicks
  <2> HIDE DEF positions, healthy, data, listed, due
  <2>6. PICK m \in Nat : DOMAIN healthy = 1 .. m
    BY <2>5 DEF Picks
  <2>7. PICK pos \in Bijection(1 .. m, due) : \A k \in 1 .. m : healthy[k] = entries[pos[k]]
    BY <2>4, <2>5, <2>6 DEF Picks
  <2>8. listed = [k \in 1 .. m |-> Listed(entries[pos[k]], route)]
    BY <2>1, <2>2, <2>3, <2>6, <2>7
  <2>9. QED
    BY <2>7, <2>8 DEF data, listed, due
<1>5. CASE ~(options.Exclude = {} /\ options.Format = "url" /\ ~options.Warp)
  <2> DEFINE outer == {i \in DOMAIN entries :
                         /\ entries[i].Healthy[route]
                         /\ Filter(entries[i].Countries, route, options.Exclude).Include}
             view == Kept(entries, outer)
             inner == {k \in DOMAIN view : FormatDial(options.Format, view[k].Record) # Omitted}
             shown == Kept(view, inner)
  <2>1. view = ViewEntries(data, options)
    BY <1>2, Zenon DEF ViewEntries
  <2>2. shown = Expressible(options.Format, view)
    BY Zenon DEF Expressible
  <2>3. listed = [i \in DOMAIN shown |-> Listed(shown[i], route)]
    <3> HIDE DEF view, shown, route
    <3>1. listed = [i \in DOMAIN Expressible(options.Format, ViewEntries(data, options)) |->
                      Listed(Expressible(options.Format, ViewEntries(data, options))[i], route)]
      BY <1>5, Zenon DEF Render, route
    <3>2. QED
      BY <2>1, <2>2, <3>1
  <2>4. Picks(view, entries, outer)
    BY KeptPicks
  <2> HIDE DEF view
  <2>5. PICK l \in Nat : DOMAIN view = 1 .. l
    BY <2>4 DEF Picks
  <2>6. PICK at \in Bijection(DOMAIN view, outer) : \A k \in DOMAIN view : view[k] = entries[at[k]]
    BY <2>4 DEF Picks
  <2>7. Picks(shown, view, inner)
    BY <2>5, KeptPicks
  <2> DEFINE chosen == {at[k] : k \in inner}
  <2>8. Picks(shown, entries, chosen)
    BY <2>6, <2>7, PicksOfPicks
  <2>9. chosen = due
    <3>1. /\ at \in [DOMAIN view -> outer]
          /\ \A i \in outer : \E k \in DOMAIN view : at[k] = i
      BY DEF Bijection, Injection, Surjection
    <3>2. due = {i \in outer : FormatDial(options.Format, entries[i].Record) # Omitted}
      BY <1>3 DEF Due
    <3> HIDE DEF outer, due
    <3>3. QED
      BY <2>6, <3>1, <3>2
  <2> HIDE DEF shown, data, listed, due, chosen
  <2>10. PICK m \in Nat : DOMAIN shown = 1 .. m
    BY <2>8 DEF Picks
  <2>11. PICK pos \in Bijection(1 .. m, due) : \A k \in 1 .. m : shown[k] = entries[pos[k]]
    BY <2>8, <2>9, <2>10 DEF Picks
  <2>12. listed = [k \in 1 .. m |-> Listed(entries[pos[k]], route)]
    BY <2>3, <2>10, <2>11
  <2>13. QED
    BY <2>11, <2>12 DEF data, listed, due
<1>6. QED
  BY <1>4, <1>5

(***************************************************************************)
(* 5. Documents.                                                           *)
(***************************************************************************)
(* Tags of different lengths are different tags.                           *)
LEMMA TagsDiffer ==
  /\ \A a, b, c, d : <<a, b, c>> # <<d>>
  /\ \A a, b, c, d, e : <<a, b, c>> # <<d, e>>
  /\ \A a, b, c : Len(<<a, b, c>>) = 3
  /\ \A a : Len(<<a>>) = 1 /\ <<a>>[1] = a
  /\ \A a, b : Len(<<a, b>>) = 2 /\ <<a, b>>[1] = a
  /\ \A a, b : <<a>> = <<b>> => a = b
  /\ \A a, b, c, d : <<a, b>> = <<c, d>> => a = c /\ b = d
  OBVIOUS

(* The pairs of Through.                                                   *)
LEMMA ThroughIs ==
  ASSUME NEW tag, NEW targets
  PROVE  /\ \A t, x : <<t, x>> \in Through(tag, targets) <=> t = tag /\ x \in targets
         /\ \A e \in Through(tag, targets) : e = <<e[1], e[2]>>
  BY DEF Through

(* A sequence of tags of S, each of `set` once.                            *)
Tagged(seq, S, set) ==
  seq \in Seq(S) /\ ToSet(seq) = set /\ IsInjective(seq)

(* Two sequences of unique tags make one, if they have no tag in common.   *)
LEMMA ConcatTags ==
  ASSUME NEW S, NEW s \in Seq(S), NEW t \in Seq(S)
  PROVE  /\ s \o t \in Seq(S)
         /\ ToSet(s \o t) = ToSet(s) \cup ToSet(t)
         /\ IsInjective(s) /\ IsInjective(t) /\ ToSet(s) \cap ToSet(t) = {}
              => IsInjective(s \o t)
<1>1. /\ s \o t \in Seq(S) /\ Len(s \o t) = Len(s) + Len(t)
      /\ DOMAIN (s \o t) = 1 .. Len(s) + Len(t)
      /\ Len(s) \in Nat /\ Len(t) \in Nat /\ DOMAIN s = 1 .. Len(s) /\ DOMAIN t = 1 .. Len(t)
      /\ \A i \in 1 .. Len(s) + Len(t) :
           (s \o t)[i] = IF i <= Len(s) THEN s[i] ELSE t[i - Len(s)]
  BY ConcatProperties
<1> DEFINE u == s \o t
<1> HIDE DEF u
<1>2. /\ \A i \in DOMAIN s : i \in DOMAIN u /\ u[i] = s[i]
      /\ \A i \in DOMAIN t : i + Len(s) \in DOMAIN u /\ u[i + Len(s)] = t[i]
      /\ \A i \in DOMAIN u : \/ i \in DOMAIN s /\ u[i] = s[i]
                             \/ i - Len(s) \in DOMAIN t /\ u[i] = t[i - Len(s)]
  BY <1>1 DEF u
<1>3. ToSet(u) = ToSet(s) \cup ToSet(t)
  BY <1>2 DEF ToSet
<1>4. ASSUME IsInjective(s), IsInjective(t), ToSet(s) \cap ToSet(t) = {}
      PROVE  IsInjective(u)
  <2>1. ASSUME NEW i \in DOMAIN u, NEW j \in DOMAIN u, u[i] = u[j]
        PROVE  i = j
    <3>1. \A k \in DOMAIN s : \A l \in DOMAIN t : s[k] # t[l]
      BY <1>4 DEF ToSet
    <3>2. i \in Int /\ j \in Int /\ Len(s) \in Int
      BY <1>1 DEF u
    <3>3. CASE i \in DOMAIN s /\ u[i] = s[i]
      <4>1. j \in DOMAIN s /\ u[j] = s[j]
        BY <1>2, <2>1, <3>1, <3>3
      <4>2. QED
        BY <1>4, <2>1, <3>3, <4>1 DEF IsInjective
    <3>4. CASE i - Len(s) \in DOMAIN t /\ u[i] = t[i - Len(s)]
      <4>1. j - Len(s) \in DOMAIN t /\ u[j] = t[j - Len(s)]
        BY <1>2, <2>1, <3>1, <3>4
      <4>2. i - Len(s) = j - Len(s)
        BY <1>4, <2>1, <3>4, <4>1 DEF IsInjective
      <4>3. QED
        BY <3>2, <4>2
    <3>5. QED
      BY <1>2, <3>3, <3>4
  <2>2. QED
    BY <2>1 DEF IsInjective
<1>5. QED
  BY <1>1, <1>3, <1>4 DEF u

(* Sequences of up to two tags.                                            *)
LEMMA ShortTags ==
  ASSUME NEW S
  PROVE  /\ <<>> \in Seq(S) /\ ToSet(<<>>) = {} /\ IsInjective(<<>>)
         /\ \A a \in S : << a >> \in Seq(S) /\ ToSet(<< a >>) = {a} /\ IsInjective(<< a >>)
         /\ \A a, b \in S : /\ << a, b >> \in Seq(S) /\ ToSet(<< a, b >>) = {a, b}
                            /\ a # b => IsInjective(<< a, b >>)
<1>1. <<>> \in Seq(S) /\ ToSet(<<>>) = {} /\ IsInjective(<<>>)
  BY DEF ToSet, IsInjective
<1>2. ASSUME NEW a \in S
      PROVE  << a >> \in Seq(S) /\ ToSet(<< a >>) = {a} /\ IsInjective(<< a >>)
  <2>1. DOMAIN << a >> = {1} /\ << a >>[1] = a
    OBVIOUS
  <2>2. QED
    BY <2>1 DEF ToSet, IsInjective
<1>3. ASSUME NEW a \in S, NEW b \in S
      PROVE  /\ << a, b >> \in Seq(S) /\ ToSet(<< a, b >>) = {a, b}
             /\ a # b => IsInjective(<< a, b >>)
  <2>1. DOMAIN << a, b >> = {1, 2} /\ << a, b >>[1] = a /\ << a, b >>[2] = b
    OBVIOUS
  <2> DEFINE p == << a, b >>
  <2>2. p \in Seq(S)
    OBVIOUS
  <2> HIDE DEF p
  <2>3. ToSet(p) = {a, b} /\ (a # b => IsInjective(p))
    BY <2>1 DEF ToSet, IsInjective, p
  <2>4. QED
    BY <2>2, <2>3 DEF p
<1>4. QED
  BY <1>1, <1>2, <1>3

(* The same, in terms of Tagged.                                           *)
LEMMA TaggedParts ==
  ASSUME NEW S
  PROVE  /\ Tagged(<<>>, S, {})
         /\ \A a \in S : Tagged(<< a >>, S, {a})
         /\ \A a, b \in S : a # b => Tagged(<< a, b >>, S, {a, b})
  BY ShortTags DEF Tagged

(* ConcatTags, in terms of Tagged.                                         *)
LEMMA TaggedConcat ==
  ASSUME NEW S, NEW s, NEW t, NEW A, NEW B, Tagged(s, S, A), Tagged(t, S, B), A \cap B = {}
  PROVE  Tagged(s \o t, S, A \cup B)
  BY ConcatTags DEF Tagged

(* What traffic that has reached some tags reaches next.                   *)
LEMMA OnwardIs ==
  ASSUME NEW document, \A e \in document.Edges : e = <<e[1], e[2]>>, NEW tags
  PROVE  \A x : x \in Onward(document, tags)
                  <=> x \in tags \/ \E t \in tags : <<t, x>> \in document.Edges
<1>1. \A t, x : <<t, x>>[1] = t /\ <<t, x>>[2] = x
  OBVIOUS
<1> DEFINE used == {e \in document.Edges : e[1] \in tags}
           next == {edge[2] : edge \in used}
<1>2. ASSUME NEW x \in next PROVE \E t \in tags : <<t, x>> \in document.Edges
  <2>1. PICK e \in document.Edges : e[1] \in tags /\ e[2] = x
    OBVIOUS
  <2>2. e = <<e[1], x>>
    BY <2>1
  <2>3. QED
    BY <2>1, <2>2
<1>3. ASSUME NEW x, NEW t \in tags, <<t, x>> \in document.Edges PROVE x \in next
  <2>1. <<t, x>> \in used
    BY <1>1, <1>3
  <2> HIDE DEF used
  <2>2. QED
    BY <1>1, <2>1
<1>4. Onward(document, tags) = tags \cup next
  BY DEF Onward
<1> HIDE DEF next
<1>5. QED
  BY <1>2, <1>3, <1>4

(* A selector over an automatic group over the entries, and WARP behind    *)
(* the selector or nothing: traffic ends at the entries.                   *)
Selects(document, listed, auto, proxy, chain, warp) ==
  /\ warp \in BOOLEAN /\ listed # {}
  /\ auto # proxy /\ chain # auto /\ chain # proxy
  /\ auto \notin listed /\ proxy \notin listed /\ chain \notin listed
  /\ document.Edges = Through(auto, listed) \cup Through(proxy, {auto} \cup listed)
                        \cup (IF warp THEN Through(chain, {proxy}) ELSE {})
  /\ document.Default = IF warp THEN chain ELSE proxy

(* From the default of such a document traffic reaches every entry, both   *)
(* groups, and WARP if the view has it; only the entries lead nowhere      *)
(* else.                                                                   *)
LEMMA SelectorReach ==
  ASSUME NEW document, NEW listed, NEW auto, NEW proxy, NEW chain, NEW warp,
         Selects(document, listed, auto, proxy, chain, warp)
  PROVE  LET path == Reach(document, document.Default)
         IN  /\ path = listed \cup {auto, proxy} \cup (IF warp THEN {chain} ELSE {})
             /\ {tag \in path : \A edge \in document.Edges : edge[1] # tag} = listed
             /\ \A edge \in document.Edges : edge[2] \in listed \cup {auto, proxy}
<1> DEFINE all == listed \cup {auto, proxy} \cup (IF warp THEN {chain} ELSE {})
           edges == document.Edges
<1> DEFINE below == Through(auto, listed)
           beside == Through(proxy, {auto} \cup listed)
           behind == IF warp THEN Through(chain, {proxy}) ELSE {}
<1>1. /\ \A e \in below : e = <<e[1], e[2]>>
      /\ \A t, x : <<t, x>> \in below <=> t = auto /\ x \in listed
  BY ThroughIs
<1>2. /\ \A e \in beside : e = <<e[1], e[2]>>
      /\ \A t, x : <<t, x>> \in beside <=> t = proxy /\ x \in {auto} \cup listed
  BY ThroughIs
<1>3. /\ \A e \in behind : e = <<e[1], e[2]>>
      /\ \A t, x : <<t, x>> \in behind <=> warp /\ t = chain /\ x = proxy
  BY ThroughIs
<1>4. edges = below \cup beside \cup behind
  BY DEF Selects
<1>5. /\ warp \in BOOLEAN /\ listed # {}
      /\ auto # proxy /\ chain # auto /\ chain # proxy
      /\ auto \notin listed /\ proxy \notin listed /\ chain \notin listed
      /\ document.Default = IF warp THEN chain ELSE proxy
  BY DEF Selects
<1> HIDE DEF edges, below, beside, behind
<1>6. \A e \in edges : e = <<e[1], e[2]>>
  <2>1. ASSUME NEW e \in edges PROVE e = <<e[1], e[2]>>
    <3>1. e \in below \/ e \in beside \/ e \in behind
      BY <1>4
    <3>2. CASE e \in below
      BY <1>1, <3>2, Zenon
    <3>3. CASE e \in beside
      BY <1>2, <3>3, Zenon
    <3>4. CASE e \in behind
      BY <1>3, <3>4, Zenon
    <3>5. QED
      BY <3>1, <3>2, <3>3, <3>4
  <2>2. QED
    BY <2>1, Zenon
<1>7. ASSUME NEW t, NEW x
      PROVE  <<t, x>> \in edges <=> \/ t = auto /\ x \in listed
                                    \/ t = proxy /\ x \in {auto} \cup listed
                                    \/ warp /\ t = chain /\ x = proxy
  <2>1. <<t, x>> \in edges
          <=> <<t, x>> \in below \/ <<t, x>> \in beside \/ <<t, x>> \in behind
    BY <1>4
  <2>2. <<t, x>> \in below <=> t = auto /\ x \in listed
    BY <1>1, Zenon
  <2>3. <<t, x>> \in beside <=> t = proxy /\ x \in {auto} \cup listed
    BY <1>2, Zenon
  <2>4. <<t, x>> \in behind <=> warp /\ t = chain /\ x = proxy
    BY <1>3, Zenon
  <2>5. QED
    BY <2>1, <2>2, <2>3, <2>4, Zenon
<1>8. \A tags, x : x \in Onward(document, tags)
                     <=> x \in tags \/ \E t \in tags : <<t, x>> \in edges
  BY <1>6, OnwardIs DEF edges
<1>9. ASSUME NEW tags, NEW x
      PROVE  x \in Onward(document, tags)
               <=> \/ x \in tags
                   \/ auto \in tags /\ x \in listed
                   \/ proxy \in tags /\ x \in {auto} \cup listed
                   \/ warp /\ chain \in tags /\ x = proxy
  <2>1. x \in Onward(document, tags)
          <=> x \in tags \/ \E t \in tags : <<t, x>> \in edges
    BY <1>8, Zenon
  <2>2. (\E t \in tags : <<t, x>> \in edges)
          <=> \/ auto \in tags /\ x \in listed
              \/ proxy \in tags /\ x \in {auto} \cup listed
              \/ warp /\ chain \in tags /\ x = proxy
    <3>1. \A t : <<t, x>> \in edges <=> \/ t = auto /\ x \in listed
                                        \/ t = proxy /\ x \in {auto} \cup listed
                                        \/ warp /\ t = chain /\ x = proxy
      BY <1>7, Zenon
    <3>2. ASSUME NEW t \in tags, <<t, x>> \in edges
          PROVE  \/ auto \in tags /\ x \in listed
                 \/ proxy \in tags /\ x \in {auto} \cup listed
                 \/ warp /\ chain \in tags /\ x = proxy
      BY <3>1, <3>2
    <3>3. <<auto, x>> \in edges <=> x \in listed
      BY <1>5, <3>1, Zenon
    <3>4. x \in {auto} \cup listed => <<proxy, x>> \in edges
      BY <3>1, Zenon
    <3>5. warp /\ x = proxy => <<chain, x>> \in edges
      BY <3>1, Zenon
    <3>6. QED
      BY <3>2, <3>3, <3>4, <3>5, Zenon
  <2>3. QED
    BY <2>1, <2>2, Zenon
<1>10. Onward(document, all) = all
  BY <1>9
<1>11. Reach(document, document.Default) = all
  <2>1. CASE ~warp
    <3>1. Onward(document, {proxy}) = all
      BY <1>9, <2>1
    <3>2. QED
      BY <1>9, <1>10, <1>5, <2>1, <3>1 DEF Reach
  <2>2. CASE warp
    <3>1. Onward(document, {chain}) = {chain, proxy}
      BY <1>9, <1>5, <2>2
    <3>2. Onward(document, {chain, proxy}) = all
      BY <1>9, <2>2
    <3>3. QED
      BY <1>10, <1>5, <2>2, <3>1, <3>2 DEF Reach
  <2>3. QED
    BY <2>1, <2>2
<1>12. \A tag \in all : (\A edge \in edges : edge[1] # tag) <=> tag \in listed
  <2>1. ASSUME NEW tag \in listed PROVE \A edge \in edges : edge[1] # tag
    BY <1>6, <1>7, <1>5
  <2>2. PICK x : x \in listed
    BY <1>5
  <2>3. <<auto, x>> \in edges /\ <<proxy, x>> \in edges /\ (warp => <<chain, proxy>> \in edges)
    BY <1>7, <2>2
  <2>4. \A t, y : <<t, y>>[1] = t
    OBVIOUS
  <2>5. ASSUME NEW tag \in all, tag \notin listed PROVE \E edge \in edges : edge[1] = tag
    <3>1. tag = auto \/ tag = proxy \/ (warp /\ tag = chain)
      BY <2>5
    <3>2. QED
      BY <2>3, <2>4, <3>1
  <2>6. QED
    BY <2>1, <2>5
<1> HIDE DEF all
<1>13. {tag \in all : \A edge \in edges : edge[1] # tag} = {tag \in all : tag \in listed}
  BY <1>12
<1>14. {tag \in all : tag \in listed} = listed
  BY DEF all
<1>15. ASSUME NEW edge \in edges PROVE edge[2] \in listed \cup {auto, proxy}
  <2>1. <<edge[1], edge[2]>> \in edges
    BY <1>6
  <2>2. QED
    BY <1>7, <2>1
<1>16. QED
  BY <1>11, <1>13, <1>14, <1>15 DEF all, edges

(* The names of a view.                                                    *)
Names(names) ==
  \E m \in Nat : /\ names = [i \in 1 .. m |-> names[i]]
                 /\ \A i \in 1 .. m : \E a, b, c : names[i] = <<a, b, c>>
                 /\ \A i, j \in 1 .. m : names[i] = names[j] => i = j

(* The names of a view as a sequence: unique, of three parts, and empty    *)
(* only if the view is.                                                    *)
LEMMA NamesAre ==
  ASSUME NEW names, Names(names)
  PROVE  /\ names \in Seq(ToSet(names)) /\ IsInjective(names)
         /\ names = <<>> <=> ToSet(names) = {}
         /\ \A tag \in ToSet(names) : \E a, b, c : tag = <<a, b, c>>
<1>1. PICK m \in Nat : /\ names = [i \in 1 .. m |-> names[i]]
                       /\ \A i \in 1 .. m : \E a, b, c : names[i] = <<a, b, c>>
                       /\ \A i, j \in 1 .. m : names[i] = names[j] => i = j
  BY DEF Names
<1>2. DOMAIN names = 1 .. m
  BY <1>1
<1>3. names \in [1 .. m -> ToSet(names)]
  BY <1>1, <1>2 DEF ToSet
<1>4. names \in Seq(ToSet(names))
  BY <1>3, SeqDef
<1>5. names = <<>> <=> ToSet(names) = {}
  <2>1. Len(names) = m
    BY <1>2, <1>4, LenProperties
  <2>2. names = <<>> => m = 0
    BY <2>1, EmptySeq
  <2>3. names # <<>> => m # 0
    BY <1>4, <2>1, EmptySeq
  <2>4. ToSet(names) = {} <=> m = 0
    <3>1. CASE m = 0
      BY <1>2, <3>1 DEF ToSet
    <3>2. CASE m # 0
      <4>1. names[1] \in ToSet(names)
        BY <1>2, <3>2 DEF ToSet
      <4>2. QED
        BY <3>2, <4>1
    <3>3. QED
      BY <3>1, <3>2
  <2>5. QED
    BY <2>4, <2>2, <2>3
<1>6. IsInjective(names)
  BY <1>1, <1>2 DEF IsInjective
<1>7. ASSUME NEW tag \in ToSet(names) PROVE \E a, b, c : tag = <<a, b, c>>
  <2>1. PICK i \in 1 .. m : tag = names[i]
    BY <1>2 DEF ToSet
  <2>2. QED
    BY <1>1, <2>1
<1>8. QED
  BY <1>4, <1>5, <1>6, <1>7

(* A document whose tags are unique and that names no other, but for the   *)
(* tags that are left dangling.                                            *)
Whole(document, dangling) ==
  /\ IsInjective(document.Tags)
  /\ ( document.Refs \cup {edge[2] : edge \in document.Edges} )
       \ ToSet(document.Tags) = dangling

(* Where the traffic that no rule takes ends.                              *)
EndsAt(document, leaves, chained) ==
  LET path == Reach(document, document.Default)
  IN  /\ {tag \in path : \A edge \in document.Edges : edge[1] # tag} = leaves
      /\ (\E tag \in path : IsWarp(tag)) <=> chained

(* The fields of a document.                                               *)
LEMMA DocumentIs ==
  ASSUME NEW tags, NEW edges, NEW default, NEW refs, NEW proxies, NEW d,
         d = Document(tags, edges, default, refs, proxies)
  PROVE  /\ d.Tags = tags /\ d.Edges = edges /\ d.Default = default
         /\ d.Refs = refs \cup {default} /\ d.Proxies = proxies
  BY DEF Document

(* Traffic through a selector ends at the entries, and passes WARP when    *)
(* the view does.                                                          *)
LEMMA SelectorEnds ==
  ASSUME NEW document, NEW listed, NEW auto, NEW proxy, NEW chain, NEW warp,
         Selects(document, listed, auto, proxy, chain, warp),
         \A tag \in listed : ~IsWarp(tag),
         ~IsWarp(auto), ~IsWarp(proxy), IsWarp(chain)
  PROVE  EndsAt(document, listed, warp)
<1> DEFINE path == Reach(document, document.Default)
<1>1. /\ path = listed \cup {auto, proxy} \cup (IF warp THEN {chain} ELSE {})
      /\ {tag \in path : \A edge \in document.Edges : edge[1] # tag} = listed
  BY SelectorReach
<1> HIDE DEF path
<1>2. warp \in BOOLEAN
  BY DEF Selects
<1>3. (\E tag \in path : IsWarp(tag)) <=> warp
  <2>1. CASE warp
    BY <1>1, <2>1
  <2>2. CASE ~warp
    BY <1>1, <2>2
  <2>3. QED
    BY <2>1, <2>2
<1>4. QED
  BY <1>1, <1>3 DEF EndsAt, path

(* A selector document is whole when its tags are those of the entries, of *)
(* the two groups, of WARP if the view has it, and what it refers to.      *)
LEMMA SelectorWhole ==
  ASSUME NEW document, NEW listed, NEW auto, NEW proxy, NEW chain, NEW warp,
         Selects(document, listed, auto, proxy, chain, warp), NEW S, NEW rest,
         Tagged(document.Tags, S,
                listed \cup {auto, proxy} \cup rest \cup (IF warp THEN {chain} ELSE {})),
         document.Refs \subseteq {proxy} \cup rest \cup (IF warp THEN {chain} ELSE {})
  PROVE  Whole(document, {})
<1> DEFINE named == {edge[2] : edge \in document.Edges}
<1>1. named \subseteq listed \cup {auto, proxy}
  BY SelectorReach
<1> HIDE DEF named
<1>2. document.Refs \cup named \subseteq ToSet(document.Tags)
  BY <1>1 DEF Tagged
<1>3. (document.Refs \cup named) \ ToSet(document.Tags) = {}
  BY <1>2
<1>4. QED
  BY <1>3 DEF Whole, Tagged, named

(* The sing-box document of any names: whole, but for the selector that an *)
(* empty view of profile ru refers to, and ending at the listed names.     *)
LEMMA SingboxIs ==
  ASSUME NEW names, Names(names), NEW warp \in BOOLEAN, NEW profile \in {"ru", "none"}
  PROVE  LET d == SingboxConfig(names, warp, profile)
         IN  /\ d.Proxies = ToSet(names)
             /\ Whole(d, IF names = <<>> /\ profile = "ru" THEN {<<"proxy">>} ELSE {})
             /\ names # <<>> => EndsAt(d, ToSet(names), warp)
<1> DEFINE d == SingboxConfig(names, warp, profile)
           listed == ToSet(names)
           auto == <<"auto">>
           proxy == <<"proxy">>
           direct == <<"direct">>
           chain == <<"warp-out">>
           S == listed \cup {auto, proxy, direct, chain}
           refs == SingboxRefs(profile)
<1>1. /\ Tagged(names, S, listed)
      /\ names = <<>> <=> listed = {}
      /\ \A tag \in listed : \E a, b, c : tag = <<a, b, c>>
  BY NamesAre, SeqMonotonic DEF Tagged
<1>2. auto \notin listed /\ proxy \notin listed /\ direct \notin listed /\ chain \notin listed
  BY <1>1, TagsDiffer
<1>3. /\ auto # proxy /\ auto # direct /\ auto # chain
      /\ proxy # direct /\ proxy # chain /\ direct # chain
  BY TagsDiffer
<1>4. refs = {direct} \cup (IF profile = "ru" THEN {proxy} ELSE {})
  BY DEF SingboxRefs
<1>5. ASSUME NEW tag \in listed PROVE ~IsWarp(tag)
  <2>1. Len(tag) = 3
    BY <1>1, TagsDiffer
  <2>2. QED
    BY <2>1 DEF IsWarp
<1>6. ~IsWarp(auto) /\ ~IsWarp(proxy) /\ IsWarp(chain)
  BY TagsDiffer DEF IsWarp
<1>7. /\ Tagged(<<>>, S, {}) /\ Tagged(<< direct >>, S, {direct})
      /\ Tagged(<< chain >>, S, {chain}) /\ Tagged(<< auto, proxy >>, S, {auto, proxy})
  <2>1. auto \in S /\ proxy \in S /\ direct \in S /\ chain \in S
    OBVIOUS
  <2> HIDE DEF S, auto, proxy, direct, chain
  <2>2. QED
    BY <1>3, <2>1, TaggedParts
<1>8. CASE names = <<>>
  <2> DEFINE tags == names \o <<>> \o << direct >> \o <<>>
             edges == {} \cup {}
  <2>1. d = Document(tags, edges, direct, refs, listed)
    BY <1>8 DEF SingboxConfig, SingboxDocument
  <2> HIDE DEF d, tags, edges, listed, refs, S, auto, proxy, direct, chain
  <2>2. /\ d.Tags = tags /\ d.Edges = edges /\ d.Proxies = listed
        /\ d.Refs = refs \cup {direct}
    BY <2>1, DocumentIs
  <2>3. Tagged(tags, S, listed \cup {} \cup {direct} \cup {})
    <3>1. Tagged(names \o <<>>, S, listed \cup {})
      BY <1>1, <1>7, TaggedConcat
    <3>2. Tagged(names \o <<>> \o << direct >>, S, listed \cup {} \cup {direct})
      BY <1>2, <1>7, <3>1, TaggedConcat
    <3>3. QED
      BY <1>7, <3>2, TaggedConcat DEF tags
  <2>4. listed = {} /\ edges = {}
    BY <1>1, <1>8 DEF edges
  <2>5. ToSet(tags) = {direct} /\ IsInjective(tags)
    BY <2>3, <2>4 DEF Tagged
  <2>6. {edge[2] : edge \in edges} = {}
    BY <2>4
  <2>7. (refs \cup {direct}) \ {direct} = IF profile = "ru" THEN {proxy} ELSE {}
    BY <1>3, <1>4
  <2>8. Whole(d, IF profile = "ru" THEN {proxy} ELSE {})
    BY <2>2, <2>5, <2>6, <2>7 DEF Whole
  <2>9. QED
    BY <1>8, <2>2, <2>8 DEF d, proxy, listed
<1>9. CASE names # <<>>
  <2> DEFINE groups == << auto, proxy >>
             last == IF warp THEN << chain >> ELSE <<>>
             more == IF warp THEN {chain} ELSE {}
             tags == names \o groups \o << direct >> \o last
             default == IF warp THEN chain ELSE proxy
             edges == Through(auto, listed) \cup Through(proxy, {auto} \cup listed)
                        \cup (IF warp THEN Through(chain, {proxy}) ELSE {})
  <2>1. d = Document(tags, edges, default, refs, listed)
    BY <1>9 DEF SingboxConfig, SingboxDocument
  <2> HIDE DEF tags, edges, d, listed, refs, S, auto, proxy, direct, chain
  <2>2. /\ d.Tags = tags /\ d.Edges = edges /\ d.Default = default /\ d.Proxies = listed
        /\ d.Refs = refs \cup {default}
    BY <2>1, DocumentIs
  <2>3. Tagged(tags, S, listed \cup {auto, proxy} \cup {direct} \cup more)
    <3>1. Tagged(last, S, more)
      BY <1>7
    <3> HIDE DEF last
    <3>2. Tagged(names \o groups, S, listed \cup {auto, proxy})
      BY <1>1, <1>2, <1>7, TaggedConcat
    <3>3. Tagged(names \o groups \o << direct >>, S, listed \cup {auto, proxy} \cup {direct})
      BY <1>2, <1>3, <1>7, <3>2, TaggedConcat
    <3>4. (listed \cup {auto, proxy} \cup {direct}) \cap more = {}
      BY <1>2, <1>3
    <3> HIDE DEF more
    <3>5. QED
      BY <3>1, <3>3, <3>4, TaggedConcat DEF tags
  <2>4. Selects(d, listed, auto, proxy, chain, warp)
    BY <1>1, <1>2, <1>3, <1>9, <2>2 DEF Selects, edges
  <2>5. EndsAt(d, listed, warp)
    BY <1>5, <1>6, <2>4, SelectorEnds
  <2>6. d.Refs \subseteq {proxy} \cup {direct} \cup more
    BY <1>4, <2>2
  <2>7. Whole(d, {})
    BY <2>2, <2>3, <2>4, <2>6, SelectorWhole
  <2>8. QED
    BY <1>9, <2>2, <2>5, <2>7 DEF d, listed
<1>10. QED
  BY <1>8, <1>9

(* The mihomo document of any names: whole, and ending at the listed       *)
(* names.                                                                  *)
LEMMA ClashIs ==
  ASSUME NEW names, Names(names), NEW warp \in BOOLEAN, NEW profile \in {"ru", "none"}
  PROVE  LET d == ClashConfig(names, warp, profile)
         IN  /\ d.Proxies = ToSet(names)
             /\ Whole(d, {})
             /\ names # <<>> => EndsAt(d, ToSet(names), warp)
<1> DEFINE d == ClashConfig(names, warp, profile)
           listed == ToSet(names)
           auto == <<"AUTO">>
           proxy == <<"PROXY">>
           direct == <<"DIRECT">>
           reject == <<"REJECT">>
           chain == <<"warp">>
           S == listed \cup {auto, proxy, direct, reject, chain}
           builtin == << direct, reject >>
           refs == ClashRefs(profile)
<1>1. /\ Tagged(names, S, listed)
      /\ names = <<>> <=> listed = {}
      /\ \A tag \in listed : \E a, b, c : tag = <<a, b, c>>
  BY NamesAre, SeqMonotonic DEF Tagged
<1>2. /\ auto \notin listed /\ proxy \notin listed /\ direct \notin listed
      /\ reject \notin listed /\ chain \notin listed
  BY <1>1, TagsDiffer
<1>3. /\ auto # proxy /\ auto # direct /\ auto # chain /\ auto # reject
      /\ proxy # direct /\ proxy # chain /\ proxy # reject
      /\ direct # chain /\ direct # reject /\ chain # reject
  BY TagsDiffer
<1>4. refs \subseteq {direct, reject}
  BY DEF ClashRefs
<1>5. ASSUME NEW tag \in listed PROVE ~IsWarp(tag)
  <2>1. Len(tag) = 3
    BY <1>1, TagsDiffer
  <2>2. QED
    BY <2>1 DEF IsWarp
<1>6. ~IsWarp(auto) /\ ~IsWarp(proxy) /\ IsWarp(chain)
  BY TagsDiffer DEF IsWarp
<1>7. /\ Tagged(<<>>, S, {}) /\ Tagged(builtin, S, {direct, reject})
      /\ Tagged(<< chain >>, S, {chain}) /\ Tagged(<< auto, proxy >>, S, {auto, proxy})
  <2>1. auto \in S /\ proxy \in S /\ direct \in S /\ reject \in S /\ chain \in S
    OBVIOUS
  <2> HIDE DEF S, auto, proxy, direct, reject, chain
  <2>2. QED
    BY <1>3, <2>1, TaggedParts
<1>8. CASE names = <<>>
  <2> DEFINE tags == names \o <<>> \o <<>> \o builtin
             edges == {} \cup {}
  <2>1. d = Document(tags, edges, direct, refs, listed)
    BY <1>8 DEF ClashConfig
  <2> HIDE DEF d, tags, edges, listed, refs, S, auto, proxy, direct, reject, chain, builtin
  <2>2. /\ d.Tags = tags /\ d.Edges = edges /\ d.Proxies = listed
        /\ d.Refs = refs \cup {direct}
    BY <2>1, DocumentIs
  <2>3. Tagged(tags, S, listed \cup {} \cup {} \cup {direct, reject})
    <3>1. Tagged(names \o <<>>, S, listed \cup {})
      BY <1>1, <1>7, TaggedConcat
    <3>2. Tagged(names \o <<>> \o <<>>, S, listed \cup {} \cup {})
      BY <1>7, <3>1, TaggedConcat
    <3>3. QED
      BY <1>2, <1>7, <3>2, TaggedConcat DEF tags
  <2>4. listed = {} /\ edges = {}
    BY <1>1, <1>8 DEF edges
  <2>5. ToSet(tags) = {direct, reject} /\ IsInjective(tags)
    BY <2>3, <2>4 DEF Tagged
  <2>6. {edge[2] : edge \in edges} = {}
    BY <2>4
  <2>7. (refs \cup {direct}) \ {direct, reject} = {}
    BY <1>4
  <2>8. Whole(d, {})
    BY <2>2, <2>5, <2>6, <2>7 DEF Whole
  <2>9. QED
    BY <1>8, <2>2, <2>8 DEF d, listed
<1>9. CASE names # <<>>
  <2> DEFINE groups == << auto, proxy >>
             last == IF warp THEN << chain >> ELSE <<>>
             more == IF warp THEN {chain} ELSE {}
             tags == names \o last \o groups \o builtin
             default == IF warp THEN chain ELSE proxy
             edges == Through(auto, listed) \cup Through(proxy, {auto} \cup listed)
                        \cup (IF warp THEN Through(chain, {proxy}) ELSE {})
  <2>1. d = Document(tags, edges, default, refs, listed)
    BY <1>9 DEF ClashConfig
  <2> HIDE DEF tags, edges, d, listed, refs, S, auto, proxy, direct, reject, chain, builtin
  <2>2. /\ d.Tags = tags /\ d.Edges = edges /\ d.Default = default /\ d.Proxies = listed
        /\ d.Refs = refs \cup {default}
    BY <2>1, DocumentIs
  <2>3. Tagged(tags, S, listed \cup {auto, proxy} \cup {direct, reject} \cup more)
    <3>1. Tagged(last, S, more)
      BY <1>7
    <3>2. more \subseteq {chain}
      OBVIOUS
    <3> HIDE DEF last, more
    <3>3. Tagged(names \o last, S, listed \cup more)
      BY <1>1, <1>2, <3>1, <3>2, TaggedConcat
    <3>4. Tagged(names \o last \o groups, S, listed \cup more \cup {auto, proxy})
      BY <1>2, <1>3, <1>7, <3>2, <3>3, TaggedConcat
    <3>5. Tagged(tags, S, listed \cup more \cup {auto, proxy} \cup {direct, reject})
      BY <1>2, <1>3, <1>7, <3>2, <3>4, TaggedConcat DEF tags
    <3>6. listed \cup more \cup {auto, proxy} \cup {direct, reject}
            = listed \cup {auto, proxy} \cup {direct, reject} \cup more
      OBVIOUS
    <3>7. QED
      BY <3>5, <3>6
  <2>4. Selects(d, listed, auto, proxy, chain, warp)
    BY <1>1, <1>2, <1>3, <1>9, <2>2 DEF Selects, edges
  <2>5. EndsAt(d, listed, warp)
    BY <1>5, <1>6, <2>4, SelectorEnds
  <2>6. d.Refs \subseteq {proxy} \cup {direct, reject} \cup more
    BY <1>4, <2>2
  <2>7. Whole(d, {})
    BY <2>2, <2>3, <2>4, <2>6, SelectorWhole
  <2>8. QED
    BY <1>9, <2>2, <2>5, <2>7 DEF d, listed
<1>10. QED
  BY <1>8, <1>9

(* The Xray document of any entry: whole, and ending at its one proxy.     *)
LEMMA XrayIs ==
  ASSUME NEW i \in Nat \ {0}, NEW warp \in BOOLEAN, NEW profile \in {"ru", "none"}
  PROVE  LET d == XrayConfig(i, warp, profile)
         IN  /\ d.Proxies = { <<"proxy", i>> }
             /\ Whole(d, {})
             /\ EndsAt(d, { <<"proxy", i>> }, warp)
<1> DEFINE d == XrayConfig(i, warp, profile)
           proxy == <<"proxy", i>>
           chain == <<"warp-out", i>>
           direct == <<"direct", 0>>
           block == <<"block", 0>>
           S == {proxy, chain, direct, block}
           last == IF warp THEN << chain >> ELSE <<>>
           more == IF warp THEN {chain} ELSE {}
           tags == << proxy >> \o last \o << direct, block >>
           edges == IF warp THEN Through(chain, {proxy}) ELSE {}
           default == IF warp THEN chain ELSE proxy
           refs == XrayRefs(profile)
<1>1. d = Document(tags, edges, default, refs, {proxy})
  BY Zenon DEF XrayConfig
<1>2. /\ proxy # chain /\ proxy # direct /\ proxy # block
      /\ chain # direct /\ chain # block /\ direct # block
  BY TagsDiffer
<1>3. ~IsWarp(proxy) /\ IsWarp(chain)
  BY TagsDiffer DEF IsWarp
<1>4. refs \subseteq {direct, block}
  BY DEF XrayRefs
<1>5. proxy \in S /\ chain \in S /\ direct \in S /\ block \in S
  OBVIOUS
<1> HIDE DEF S, proxy, chain, direct, block, refs, d
<1>6. Tagged(last, S, more) /\ more \subseteq {chain}
  BY <1>5, TaggedParts
<1>7. Tagged(tags, S, {proxy} \cup more \cup {direct, block})
  <2> HIDE DEF last, more
  <2>1. Tagged(<< proxy >> \o last, S, {proxy} \cup more)
    BY <1>2, <1>5, <1>6, TaggedParts, TaggedConcat
  <2>2. Tagged(<< direct, block >>, S, {direct, block})
    BY <1>2, <1>5, TaggedParts
  <2>3. QED
    BY <1>2, <1>6, <2>1, <2>2, TaggedConcat
<1>8. /\ \A e \in edges : e = <<e[1], e[2]>>
      /\ \A t, x : <<t, x>> \in edges <=> warp /\ t = chain /\ x = proxy
  BY ThroughIs
<1> HIDE DEF tags, edges, last
<1>9. /\ d.Tags = tags /\ d.Edges = edges /\ d.Default = default
      /\ d.Refs = refs \cup {default} /\ d.Proxies = {proxy}
  BY <1>1, DocumentIs
<1>10. ASSUME NEW all, NEW x
       PROVE  x \in Onward(d, all) <=> x \in all \/ (warp /\ chain \in all /\ x = proxy)
  <2>1. x \in Onward(d, all) <=> x \in all \/ \E t \in all : <<t, x>> \in edges
    BY <1>8, <1>9, OnwardIs, Zenon
  <2>2. QED
    BY <1>8, <2>1, Zenon
<1>11. Reach(d, default) = {proxy} \cup more
  <2>1. CASE warp
    <3>1. Onward(d, {chain}) = {proxy, chain} /\ Onward(d, {proxy, chain}) = {proxy, chain}
      BY <1>10, <2>1
    <3>2. QED
      BY <2>1, <3>1 DEF Reach
  <2>2. CASE ~warp
    <3>1. Onward(d, {proxy}) = {proxy}
      BY <1>10, <2>2
    <3>2. QED
      BY <2>2, <3>1 DEF Reach
  <2>3. QED
    BY <2>1, <2>2
<1>12. /\ \A edge \in edges : edge[1] = chain /\ edge[2] = proxy
       /\ warp => \E edge \in edges : edge[1] = chain
  <2>1. ASSUME NEW edge \in edges PROVE edge[1] = chain /\ edge[2] = proxy
    <3>1. edge = <<edge[1], edge[2]>>
      BY <1>8, Zenon
    <3>2. <<edge[1], edge[2]>> \in edges
      BY <3>1
    <3>3. QED
      BY <1>8, <3>2, Zenon
  <2>2. <<chain, proxy>>[1] = chain
    OBVIOUS
  <2>3. warp => <<chain, proxy>> \in edges
    BY <1>8, Zenon
  <2>4. QED
    BY <2>1, <2>2, <2>3
<1>13. Whole(d, {})
  <2>1. ToSet(tags) = {proxy} \cup more \cup {direct, block} /\ IsInjective(tags)
    BY <1>7 DEF Tagged
  <2>2. (refs \cup {default}) \cup {edge[2] : edge \in edges} \subseteq ToSet(tags)
    BY <1>4, <1>12, <2>1
  <2>3. ( d.Refs \cup {edge[2] : edge \in d.Edges} ) \ ToSet(d.Tags) = {}
    BY <1>9, <2>2
  <2>4. QED
    BY <1>9, <2>1, <2>3 DEF Whole
<1>14. EndsAt(d, {proxy}, warp)
  <2> DEFINE path == Reach(d, d.Default)
  <2>1. path = {proxy} \cup more
    BY <1>9, <1>11
  <2> HIDE DEF path
  <2>2. {tag \in path : \A edge \in d.Edges : edge[1] # tag} = {proxy}
    BY <1>2, <1>9, <1>12, <2>1
  <2>3. (\E tag \in path : IsWarp(tag)) <=> warp
    BY <1>3, <2>1
  <2>4. QED
    BY <2>2, <2>3 DEF EndsAt, path
<1>15. QED
  BY <1>9, <1>13, <1>14 DEF d, proxy

(***************************************************************************)
(* 6. The invariant, and the properties of the specification.              *)
(***************************************************************************)
LEMMA OptionsAre ==
  ASSUME NEW request \in RequestSpace, ParseForClient(request) # BadRequest
  PROVE  LET options == ParseForClient(request)
         IN  /\ options.Format \in Formats /\ options.Warp \in BOOLEAN
             /\ options.Profile \in {"ru", "none"}
             /\ options.Warp => ~Flattens(request) /\ request.Warp # "off"
<1>1. /\ request.Format \in Formats \cup {"other"}
      /\ request.Warp \in {"unset", "on", "off", "other"}
      /\ request.Profile \in {"unset", "ru", "none", "other"}
  BY DEF RequestSpace
<1>2. /\ request.Format # "other" /\ request.Profile # "other"
      /\ request.Warp = "on" => ~Flattens(request)
  BY DEF ParseForClient, Rejected
<1>3. ParseForClient(request) =
        [ Format |-> request.Format, Warp |-> WarpOption(request),
          Profile |-> IF request.Profile = "unset" THEN "ru" ELSE request.Profile,
          Exclude |-> request.Exclude ]
  BY DEF ParseForClient
<1>4. WarpOption(request) \in BOOLEAN
  BY DEF WarpOption, Flattens
<1>5. WarpOption(request) => ~Flattens(request) /\ request.Warp # "off"
  BY <1>2 DEF WarpOption
<1>6. QED
  BY <1>1, <1>2, <1>3, <1>4, <1>5

(* What a view lists: the entries due, each once, under different names.   *)
Lists(listed, entries, options) ==
  LET route == RouteOf(options.Warp)
      names == [i \in DOMAIN listed |-> listed[i].Name]
  IN  /\ \E m \in Nat : DOMAIN listed = 1 .. m
      /\ ToSet(listed) = {Listed(entries[i], route) : i \in Due(entries, options)}
      /\ Names(names)
      /\ names = <<>> <=> listed = <<>>

(* Whatever is rendered lists the entries due and nothing else, under      *)
(* unique names.                                                           *)
LEMMA RenderLists ==
  ASSUME NEW entries, GoodEntries(entries), NEW options, options.Warp \in BOOLEAN
  PROVE  Lists(Render(Snapshot(entries), options), entries, options)
<1> DEFINE route == RouteOf(options.Warp)
           listed == Render(Snapshot(entries), options)
           due == Due(entries, options)
           names == [i \in DOMAIN listed |-> listed[i].Name]
<1>1. PICK n \in Nat :
        /\ DOMAIN entries = 1 .. n
        /\ \A i \in 1 .. n : GoodEntry(entries[i])
        /\ \A r \in Routes : \A i, j \in 1 .. n :
             entries[i].Name[r] = entries[j].Name[r] => i = j
  BY DEF GoodEntries
<1>2. PICK m \in Nat : \E pos \in Bijection(1 .. m, due) :
        listed = [k \in 1 .. m |-> Listed(entries[pos[k]], route)]
  BY <1>1, RenderPicks
<1>3. PICK pos \in Bijection(1 .. m, due) :
        listed = [k \in 1 .. m |-> Listed(entries[pos[k]], route)]
  BY <1>2
<1>4. route \in Routes
  BY DEF RouteOf, Routes
<1>5. due \subseteq 1 .. n
  BY <1>1 DEF Due
<1>6. /\ pos \in [1 .. m -> due]
      /\ \A k, l \in 1 .. m : pos[k] = pos[l] => k = l
      /\ \A i \in due : \E k \in 1 .. m : pos[k] = i
  BY DEF Bijection, Injection, Surjection, IsInjective
<1> HIDE DEF route, listed, due
<1>7. DOMAIN listed = 1 .. m /\ \A k \in 1 .. m : listed[k] = Listed(entries[pos[k]], route)
  BY <1>3
<1>8. ToSet(listed) = {Listed(entries[i], route) : i \in due}
  BY <1>6, <1>7 DEF ToSet
<1>9. /\ names = [i \in 1 .. m |-> names[i]]
      /\ \A i \in 1 .. m : names[i] = entries[pos[i]].Name[route]
  <2>1. \A k \in 1 .. m : listed[k].Name = entries[pos[k]].Name[route]
    BY <1>7 DEF Listed
  <2>2. names = [i \in 1 .. m |-> listed[i].Name]
    BY <1>7
  <2>3. QED
    BY <2>1, <2>2
<1>10. \A i \in 1 .. m : \E a, b, c : names[i] = <<a, b, c>>
  <2>1. ASSUME NEW i \in 1 .. m PROVE \E a, b, c : names[i] = <<a, b, c>>
    <3>1. pos[i] \in 1 .. n
      BY <1>5, <1>6
    <3>2. \E a, b, c : entries[pos[i]].Name[route] = <<a, b, c>>
      BY <1>1, <1>4, <3>1, Zenon DEF GoodEntry
    <3>3. names[i] = entries[pos[i]].Name[route]
      BY <1>9, Zenon
    <3>4. QED
      BY <3>2, <3>3, Zenon
  <2>2. QED
    BY <2>1, Zenon
<1>11. ASSUME NEW i \in 1 .. m, NEW j \in 1 .. m, names[i] = names[j] PROVE i = j
  <2>1. pos[i] \in 1 .. n /\ pos[j] \in 1 .. n
    BY <1>5, <1>6
  <2>2. pos[i] = pos[j]
    BY <1>1, <1>4, <1>9, <1>11, <2>1
  <2>3. QED
    BY <1>6, <2>2
<1>12. Names(names)
  <2> HIDE DEF names
  <2>1. QED
    BY <1>9, <1>10, <1>11 DEF Names
<1>13. names = <<>> <=> listed = <<>>
  <2>1. names = <<>> <=> m = 0
    BY <1>9
  <2>2. listed = <<>> <=> m = 0
    BY <1>3
  <2>3. QED
    BY <2>1, <2>2
<1>14. QED
  BY <1>7, <1>8, <1>12, <1>13 DEF Lists, listed, due, route, names

(* The invariant: the snapshot is that of what the refreshes find, and an  *)
(* answer with a body is the answer to a request for that snapshot.        *)
ViewsInv ==
  /\ probed \in Listings
  /\ cache \in {NoData, Snapshot(EntriesOf(probed))}
  /\ Answered => /\ cache # NoData
                 /\ \E request \in Requests : response = Answer(cache, request)

(* Every state satisfies the invariant: the snapshot is one that a refresh *)
(* made as a whole, and an answer is about the snapshot there is.          *)
THEOREM ViewsInvariant == Spec => []ViewsInv
<1>1. Init => ViewsInv
  BY DEF Init, ViewsInv, Answered, NoResponse
<1>2. ViewsInv /\ [Next]_vars => ViewsInv'
  <2> SUFFICES ASSUME ViewsInv, [Next]_vars PROVE ViewsInv'
    OBVIOUS
  <2>1. CASE Publish
    <3>1. cache # NoData => cache' = cache
      BY <2>1 DEF Publish, ViewsInv
    <3>2. QED
      BY <2>1, <3>1 DEF Publish, ViewsInv, Answered
  <2>2. CASE Done
    BY <2>2 DEF Done, ViewsInv, Answered, NoResponse
  <2>3. ASSUME NEW request \in Requests, Get(request) PROVE ViewsInv'
    <3>1. response' = Answer(cache, request) /\ cache' = cache /\ probed' = probed
      BY <2>3 DEF Get
    <3>2. cache = NoData => Answer(cache, request).Status = 503
      BY DEF Answer
    <3> HIDE DEF Answer
    <3>3. Answered' => cache' # NoData /\ response' = Answer(cache', request)
      BY <3>1, <3>2 DEF Answered
    <3>4. QED
      BY <3>1, <3>3 DEF ViewsInv
  <2>4. CASE UNCHANGED vars
    BY <2>4 DEF vars, ViewsInv, Answered
  <2>5. QED
    BY <2>1, <2>2, <2>3, <2>4 DEF Next
<1>3. QED
  BY <1>1, <1>2, PTL DEF Spec

(* What an answer with a body consists of.                                 *)
LEMMA AnswerIs ==
  ASSUME ViewsInv, Answered
  PROVE  /\ cache.Entries = EntriesOf(probed) /\ GoodEntries(EntriesOf(probed))
         /\ Lists(response.Listed, EntriesOf(probed), response.Options)
         /\ response.Documents = Documents(response.Options, response.Listed)
         /\ response.Options.Format \in Formats /\ response.Options.Warp \in BOOLEAN
         /\ response.Options.Profile \in {"ru", "none"}
         /\ response.Options.Warp => /\ ~Flattens(response.Request)
                                     /\ response.Request.Warp # "off"
<1> DEFINE entries == EntriesOf(probed)
<1>1. cache = Snapshot(entries) /\ cache # NoData
  BY DEF ViewsInv
<1>2. PICK request \in Requests : response = Answer(cache, request)
  BY DEF ViewsInv
<1>3. GoodEntries(entries)
  BY EntriesAreGood, ListingsAssumption DEF ViewsInv
<1>4. cache.Entries = entries
  BY <1>1 DEF Snapshot
<1> HIDE DEF entries
<1> DEFINE options == ParseForClient(request)
           listed == Render(cache, options)
<1>5. /\ options # BadRequest
      /\ response = [ Status |-> 200, Request |-> request, Options |-> options,
                      Listed |-> listed, Documents |-> Documents(options, listed) ]
  <2>1. Answer(cache, request) =
          IF options = BadRequest THEN [Status |-> 400]
          ELSE [ Status |-> 200, Request |-> request, Options |-> options,
                 Listed |-> listed, Documents |-> Documents(options, listed) ]
    BY <1>1, Zenon DEF Answer
  <2>2. response.Status = 200
    BY DEF Answered
  <2> HIDE DEF options, listed
  <2>3. QED
    BY <1>2, <2>1, <2>2
<1>6. /\ response.Request = request /\ response.Options = options
      /\ response.Listed = listed /\ response.Documents = Documents(options, listed)
  <2> HIDE DEF options, listed
  <2>1. QED
    BY <1>5
<1>7. /\ options.Format \in Formats /\ options.Warp \in BOOLEAN
      /\ options.Profile \in {"ru", "none"}
      /\ options.Warp => ~Flattens(request) /\ request.Warp # "off"
  BY <1>5, OptionsAre, RequestsAssumption
<1>8. Lists(listed, entries, options)
  BY <1>1, <1>3, <1>7, RenderLists
<1> HIDE DEF options, listed
<1>9. QED
  BY <1>3, <1>4, <1>6, <1>7, <1>8 DEF entries

(* In every answer of every behaviour, what a client dials for a listed    *)
(* entry is what was probed, but for what Gap lists for its format         *)
(* (handler /sub, internal/format, internal/exitprobe buildOutbound).      *)
THEOREM ServedAsProbedHolds == Spec => []ServedAsProbed
<1>1. ViewsInv => ServedAsProbed
  <2> SUFFICES ASSUME ViewsInv, Answered PROVE ServedAsProbed
    BY DEF ServedAsProbed
  <2> DEFINE entries == EntriesOf(probed)
             options == response.Options
             route == RouteOf(options.Warp)
             due == Due(entries, options)
             listed == response.Listed
  <2>1. /\ GoodEntries(entries) /\ options.Format \in Formats
        /\ ToSet(listed) = {Listed(entries[i], route) : i \in due}
    BY AnswerIs DEF Lists
  <2> HIDE DEF entries, options, route, listed, due
  <2>2. ASSUME NEW k \in DOMAIN listed
        PROVE  FormatDial(options.Format, listed[k].Record) # ProberDial(listed[k].Record)
                 <=> Gap(options.Format, listed[k].Record)
    <3>1. PICK i \in due : listed[k] = Listed(entries[i], route)
      BY <2>1 DEF ToSet
    <3>2. /\ i \in DOMAIN entries
          /\ FormatDial(options.Format, entries[i].Record) # Omitted
      BY DEF due, Due
    <3>3. listed[k].Record = entries[i].Record
      BY <3>1 DEF Listed
    <3>4. ParsedRecord(entries[i].Record)
      BY <2>1, <3>2, EntryReads DEF GoodEntries
    <3>5. QED
      BY <2>1, <3>2, <3>3, <3>4, GapIsExact
  <2>3. QED
    BY <2>2, Zenon DEF ServedAsProbed, listed, options
<1>2. QED
  BY <1>1, ViewsInvariant, PTL

(* Every record that came from an Xray configuration is probed as          *)
(* configured but for what ConversionGap lists (internal/fetch             *)
(* outboundToURL, internal/parse).                                         *)
THEOREM ProbedAsConfiguredHolds == Spec => []ProbedAsConfigured
<1>1. ViewsInv => ProbedAsConfigured
  <2> SUFFICES ASSUME ViewsInv PROVE ProbedAsConfigured
    OBVIOUS
  <2>1. CASE cache = NoData
    BY <2>1 DEF NoData, ProbedAsConfigured
  <2>2. CASE cache # NoData
    <3>1. cache.Entries = EntriesOf(probed)
      BY <2>2 DEF ViewsInv, Snapshot
    <3>2. GoodEntries(EntriesOf(probed))
      BY EntriesAreGood, ListingsAssumption DEF ViewsInv
    <3>3. ASSUME NEW i \in DOMAIN cache.Entries, cache.Entries[i].Source.Kind = "xray"
          PROVE  ProberDial(cache.Entries[i].Record) # ConfiguredDial(cache.Entries[i].Source.Link)
                   <=> ConversionGap(cache.Entries[i].Source.Link)
      <4> DEFINE entry == cache.Entries[i]
                 outbound == entry.Source.Link
      <4>1. GoodEntry(entry)
        BY <3>1, <3>2 DEF GoodEntries
      <4> HIDE DEF entry
      <4>2. outbound \in Records
        BY <4>1 DEF GoodEntry
      <4>3. LinkOf(entry.Source) = OutboundToURL(outbound)
        BY <3>3 DEF LinkOf, entry
      <4>4. /\ OutboundToURL(outbound) # NoLink /\ Parse(OutboundToURL(outbound)) # NoRecord
            /\ entry.Record = Parse(OutboundToURL(outbound))
        BY <4>1, <4>3 DEF GoodEntry, RecordOf
      <4>5. QED
        BY <4>2, <4>4, ConversionGapIsExact DEF entry
    <3>4. QED
      BY <3>3, Zenon DEF ProbedAsConfigured
  <2>3. QED
    BY <2>1, <2>2
<1>2. QED
  BY <1>1, ViewsInvariant, PTL

(* A view lists exactly the entries that are healthy on its route, free of *)
(* the excluded countries and expressible in its format, under unique      *)
(* names (internal/subview Entries, internal/rename RenameAll).            *)
THEOREM ViewIsCleanHolds == Spec => []ViewIsClean
<1>1. ViewsInv => ViewIsClean
  <2> SUFFICES ASSUME ViewsInv, Answered PROVE ViewIsClean
    BY DEF ViewIsClean
  <2> DEFINE entries == EntriesOf(probed)
             options == response.Options
             route == RouteOf(options.Warp)
             listed == response.Listed
             names == [i \in DOMAIN listed |-> listed[i].Name]
             due(e) == /\ e.Healthy[route]
                       /\ options.Exclude = {} \/ Clean(e.Countries, route, options.Exclude)
                       /\ FormatDial(options.Format, e.Record) # Omitted
  <2>1. /\ cache.Entries = entries
        /\ ToSet(listed) = {Listed(entries[i], route) : i \in Due(entries, options)}
        /\ Names(names)
    BY AnswerIs DEF Lists
  <2>2. IsInjective(names)
    BY <2>1, NamesAre
  <2>3. Due(entries, options) = {j \in DOMAIN entries : due(entries[j])}
    BY Zenon DEF Due
  <2>4. ToSet(listed) = {Listed(cache.Entries[i], route) :
                           i \in {j \in DOMAIN cache.Entries : due(cache.Entries[j])}}
    <3> HIDE DEF due, entries, options, route, listed
    <3>1. QED
      BY <2>1, <2>3
  <2>5. QED
    BY <2>2, <2>4, Zenon DEF ViewIsClean
<1>2. QED
  BY <1>1, ViewsInvariant, PTL

(* The documents of a view, whatever its format.                           *)
LEMMA DocumentsAre ==
  ASSUME ViewsInv, Answered, NEW d \in response.Documents
  PROVE  LET options == response.Options
         IN  /\ Whole(d, IF /\ options.Format = "singbox" /\ options.Profile = "ru"
                            /\ response.Listed = <<>>
                         THEN {<<"proxy">>} ELSE {})
             /\ response.Listed # <<>> => /\ d.Proxies # {}
                                          /\ EndsAt(d, d.Proxies, options.Warp)
<1> DEFINE options == response.Options
           listed == response.Listed
           names == [i \in DOMAIN listed |-> listed[i].Name]
<1>1. /\ Names(names)
      /\ names = <<>> <=> listed = <<>>
      /\ \E m \in Nat : DOMAIN listed = 1 .. m
      /\ d \in Documents(options, listed)
      /\ options.Format \in Formats /\ options.Warp \in BOOLEAN
      /\ options.Profile \in {"ru", "none"}
  BY AnswerIs DEF Lists
<1>2. names # <<>> => ToSet(names) # {}
  BY <1>1, NamesAre
<1> HIDE DEF names, listed, options
<1>3. CASE options.Format = "url"
  BY <1>1, <1>3 DEF Documents
<1>4. CASE options.Format = "json"
  <2>1. PICK i \in DOMAIN listed : d = XrayConfig(i, options.Warp, options.Profile)
    BY <1>1, <1>4 DEF Documents
  <2>2. i \in Nat \ {0}
    BY <1>1
  <2>3. /\ d.Proxies = { <<"proxy", i>> } /\ Whole(d, {})
        /\ EndsAt(d, { <<"proxy", i>> }, options.Warp)
    BY <1>1, <2>1, <2>2, XrayIs
  <2>4. QED
    BY <1>4, <2>3 DEF options
<1>5. CASE options.Format = "singbox"
  <2>1. d = SingboxConfig(names, options.Warp, options.Profile)
    BY <1>1, <1>5 DEF Documents, names
  <2>2. /\ d.Proxies = ToSet(names)
        /\ Whole(d, IF names = <<>> /\ options.Profile = "ru" THEN {<<"proxy">>} ELSE {})
        /\ names # <<>> => EndsAt(d, ToSet(names), options.Warp)
    BY <1>1, <2>1, SingboxIs
  <2>3. QED
    BY <1>1, <1>2, <1>5, <2>2 DEF options, listed
<1>6. CASE options.Format = "clash"
  <2>1. d = ClashConfig(names, options.Warp, options.Profile)
    BY <1>1, <1>6 DEF Documents, names
  <2>2. /\ d.Proxies = ToSet(names) /\ Whole(d, {})
        /\ names # <<>> => EndsAt(d, ToSet(names), options.Warp)
    BY <1>1, <2>1, ClashIs
  <2>3. QED
    BY <1>1, <1>2, <1>6, <2>2 DEF options, listed
<1>7. QED
  BY <1>1, <1>3, <1>4, <1>5, <1>6 DEF Formats

(* Every document of every answer is whole, for any number of entries, but *)
(* for the empty sing-box view of profile ru (internal/format xray.go,     *)
(* singbox.go, clash.go).                                                  *)
THEOREM DocumentsResolveHolds == Spec => []DocumentsResolve
<1>1. ViewsInv => DocumentsResolve
  BY DocumentsAre DEF DocumentsResolve, Whole
<1>2. QED
  BY <1>1, ViewsInvariant, PTL

(* Traffic that no rule takes leaves through a listed proxy, and through   *)
(* WARP exactly when the request was granted it (internal/subview          *)
(* ParseForClient, internal/format).                                       *)
THEOREM TrafficAsAskedHolds == Spec => []TrafficAsAsked
<1>1. ViewsInv => TrafficAsAsked
  <2> SUFFICES ASSUME ViewsInv, Answered, NEW d \in response.Documents, response.Listed # <<>>
               PROVE  LET path == Reach(d, d.Default)
                          leaves == {tag \in path : \A edge \in d.Edges : edge[1] # tag}
                          chained == \E tag \in path : IsWarp(tag)
                      IN  /\ leaves # {} /\ leaves \subseteq d.Proxies
                          /\ chained <=> response.Options.Warp
                          /\ chained => /\ ~Flattens(response.Request)
                                        /\ response.Request.Warp # "off"
    BY Zenon DEF TrafficAsAsked
  <2>1. /\ d.Proxies # {} /\ EndsAt(d, d.Proxies, response.Options.Warp)
    BY DocumentsAre
  <2>2. response.Options.Warp => /\ ~Flattens(response.Request)
                                 /\ response.Request.Warp # "off"
    BY AnswerIs
  <2>3. QED
    BY <2>1, <2>2 DEF EndsAt
<1>2. QED
  BY <1>1, ViewsInvariant, PTL
=============================================================================
