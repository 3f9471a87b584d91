------------------------------- MODULE Links -------------------------------
(***************************************************************************)
(* Share links and the connections made of them: internal/parse reads a    *)
(* link into a record, internal/exitprobe turns the record into the Xray   *)
(* outbound that is probed, and internal/format turns the same record into *)
(* what each of the four kinds of subscription tells a client to dial.     *)
(* The five translations are written apart from each other in the code.    *)
(*                                                                         *)
(* A link and a record have the same fields.  Given are the parameters of  *)
(* which only matters whether they are there, with a value that is not the *)
(* default; five more have values that matter:                             *)
(*   Type      the transport                 Header   the header of tcp    *)
(*   Security  none, tls or reality                   and mKCP             *)
(*   Insecure  skip the certificate          Extra    the JSON of XHTTP    *)
(*                                                                         *)
(* These are all the parameters that any of the translations, or the       *)
(* reader of Xray configurations (Conversion), has a case for, without     *)
(* those every one of them copies in every case: address, port,            *)
(* credentials, flow, the method of Shadowsocks, the key and short id of   *)
(* reality.  (So is the server name, but the JSON view asks for it.)  The  *)
(* alterId has a case too, but the parser never fills it in.               *)
(*                                                                         *)
(* "unset" stands for the empty string, which is what the code reads when  *)
(* a parameter is not there.                                               *)
(***************************************************************************)
Protocols == {"vless", "vmess", "trojan", "ss", "hysteria2"}

(* "quic" stands for every name that no side knows, and among the kinds of *)
(* header "srtp" for every one that is no name of a transport.             *)
Types == {"unset", "tcp", "raw", "ws", "websocket", "grpc", "http", "h2", "kcp",
          "mkcp", "httpupgrade", "xhttp", "splithttp", "quic", "hysteria"}

(* path: the path, or the service name of gRPC; mode: of gRPC or XHTTP;    *)
(* seed: of mKCP; fp: the TLS fingerprint; spx: the spiderX of reality;    *)
(* encryption: of the VLESS payload; scy: the cipher of VMess; obfs: the   *)
(* obfuscation of Hysteria2 with its password.  Only an outbound has       *)
(* hostHeader, a host among the headers of its WebSocket.                  *)
Parameters == {"path", "host", "hostHeader", "mode", "seed", "sni", "alpn", "fp",
               "spx", "encryption", "scy", "obfs"}

Records ==
  [ Protocol : Protocols, Type : Types, Header : {"unset", "srtp"} \cup Types,
    Security : {"unset", "none", "tls", "reality"}, Insecure : {"unset", "0", "1"},
    Extra : {"unset", "valid", "broken"}, Given : SUBSET Parameters ]

NoRecord == [Protocol |-> "unset"]

(* Any value of the parameter, "0" included, asks for an insecure client;  *)
(* the flag of a VMess link is a JSON boolean, and parseSS does not look.  *)
NormalizeInsecure(link) ==
  CASE link.Protocol = "ss" -> link.Insecure
    [] link.Protocol = "vmess" -> IF link.Insecure = "1" THEN "1" ELSE "unset"
    [] OTHER -> IF link.Insecure = "unset" THEN "unset" ELSE "1"

IsXHTTP(type) == type \in {"xhttp", "splithttp"}

(* The schemes whose parser calls normalizeXHTTP. *)
NormalizesXHTTP(link) == link.Protocol \in {"vless", "vmess", "trojan"}

ParsedType(link) ==
  IF NormalizesXHTTP(link) /\ IsXHTTP(link.Type) THEN "xhttp"
  ELSE IF link.Protocol = "vmess" /\ link.Type = "unset" THEN "tcp"
  ELSE link.Type

(* VMess reads three values of `tls`; Hysteria2 fills the missing one in.  *)
ParsedSecurity(link) ==
  IF link.Protocol = "vmess" /\ link.Security = "none" THEN "unset"
  ELSE IF link.Protocol = "hysteria2" /\ link.Security = "unset" THEN "tls"
  ELSE link.Security

(* VMess reads named fields, the others every parameter of the query.      *)
VMessFields == {"path", "host", "mode", "sni", "alpn", "fp", "spx", "scy"}

ParsedParameters(link) ==
  IF link.Protocol = "vmess" THEN link.Given \cap VMessFields ELSE link.Given

Refused(link) ==
  /\ link.Extra = "broken"
  /\ \/ link.Protocol = "vmess"
     \/ NormalizesXHTTP(link) /\ IsXHTTP(link.Type)

Parse(link) ==
  IF Refused(link) THEN NoRecord
  ELSE [link EXCEPT !.Type = ParsedType(link),
                    !.Security = ParsedSecurity(link),
                    !.Insecure = NormalizeInsecure(link),
                    !.Given = ParsedParameters(link)]

(***************************************************************************)
(* What each side dials: a network under a security, and the parameters    *)
(* the client is told of each layer.  Canonical is Xray's own view of a    *)
(* transport: two names of one transport are one.                          *)
(***************************************************************************)
Canonical(type) ==
  CASE type \in {"unset", "tcp", "raw"} -> "tcp"
    [] type \in {"h2", "http"} -> "h2"
    [] type \in {"ws", "websocket"} -> "ws"
    [] type \in {"kcp", "mkcp"} -> "kcp"
    [] IsXHTTP(type) -> "xhttp"
    [] OTHER -> type

Dial(network, security, transport, tls, user) ==
  [ Network |-> network, Security |-> security,
    Transport |-> transport, TLS |-> tls, User |-> user ]

Omitted == [Network |-> "unset"]

IsHysteria(record) == record.Protocol = "hysteria2"

(* What there is to tell. *)
Has(record) ==
  record.Given
    \cup (IF record.Header = "http" THEN {"header"} ELSE {})
    \cup (IF record.Insecure = "1" THEN {"insecure"} ELSE {})
    \cup (IF record.Extra = "valid" THEN {"extra"} ELSE {})

(* The service name of a VMess link is its path, and no translation looks  *)
(* for it there.                                                           *)
ServiceName(record) == IF record.Protocol = "vmess" THEN {} ELSE {"path"}

(* SettingsFromParams fails as a whole on extra that is no JSON object. *)
SettingsFromParams(record) ==
  IF record.Extra = "broken" THEN {} ELSE {"host", "path", "mode", "extra"}

MapSecurity(security) ==
  IF security \in {"tls", "reality"} THEN security ELSE "none"

(***************************************************************************)
(* buildOutbound and buildStreamSettings of the prober.                    *)
(***************************************************************************)
ProberNetwork(record) ==
  IF record.Type # "unset" THEN record.Type
  ELSE IF IsHysteria(record) THEN "hysteria" ELSE "tcp"

ProberSecurity(record) ==
  IF IsHysteria(record) /\ record.Security = "unset" THEN "tls"
  ELSE MapSecurity(record.Security)

ProberTransport(record) ==
  LET network == ProberNetwork(record)
  IN  CASE network = "tcp" -> {"header"}
        [] network = "kcp" -> {"header", "seed"}
        [] network \in {"ws", "httpupgrade"} -> {"path", "host"}
        [] network = "grpc" -> ServiceName(record) \cup {"mode"}
        [] network = "xhttp" -> SettingsFromParams(record)
        [] OTHER -> {}

(* Reality has no certificate to skip.  A fingerprint that is not given is *)
(* Xray's default under reality, which the formats write out.              *)
ProberTLS(security) ==
  CASE security = "tls" -> {"insecure", "alpn", "fp"}
    [] security = "reality" -> {"fp", "spx"}
    [] OTHER -> {}

XrayUser(record) ==
  CASE record.Protocol = "vless" -> {"encryption"}
    [] record.Protocol = "vmess" -> {"scy"}
    [] OTHER -> {}

ProberDial(record) ==
  LET security == ProberSecurity(record)
  IN  Dial(Canonical(ProberNetwork(record)), security,
           Has(record) \cap ProberTransport(record),
           Has(record) \cap ProberTLS(security),
           Has(record) \cap XrayUser(record))

(***************************************************************************)
(* The JSON view: buildStreamSettings of internal/format/xrayjson.go.      *)
(***************************************************************************)
(* mapTransport: the names it does not know have no stream settings, and a *)
(* client that gets none dials plain TCP.                                  *)
MapTransport(type) ==
  IF type \in {"raw", "websocket", "mkcp", "quic", "hysteria"} THEN "unset"
  ELSE Canonical(type)

XrayTransport(record) ==
  LET network == MapTransport(record.Type)
  IN  CASE network \in {"ws", "h2", "httpupgrade"} -> {"path", "host"}
        [] network = "grpc" -> ServiceName(record) \cup {"mode"}
        [] network = "xhttp" -> SettingsFromParams(record)
        [] OTHER -> {}

XrayTLS(security) ==
  CASE security = "tls" -> {"insecure", "alpn", "fp"}
    [] security = "reality" -> {"fp"}
    [] OTHER -> {}

(* Hysteria2 is always TLS, and ALPN goes with the server name. *)
XrayHysteriaTLS(record) ==
  {"insecure", "fp"} \cup (IF "sni" \in record.Given THEN {"alpn"} ELSE {})

XrayHysteriaDial(record) ==
  Dial("hysteria", "tls", {}, Has(record) \cap XrayHysteriaTLS(record),
       Has(record) \cap {"obfs"})

XrayPlainDial(record) ==
  Dial("tcp", "none", {}, {}, Has(record) \cap XrayUser(record))

(* Defective variant: the path of the transport is lost on the way. *)
XrayDialNoPath(record) ==
  LET security == MapSecurity(record.Security)
  IN  Dial(Canonical(record.Type), security,
           Has(record) \cap (XrayTransport(record) \ {"path"}),
           Has(record) \cap XrayTLS(security),
           Has(record) \cap XrayUser(record))

XrayDial(record) ==
  LET network == MapTransport(record.Type)
      security == MapSecurity(record.Security)
  IN  IF IsHysteria(record) THEN XrayHysteriaDial(record)
      ELSE IF network = "unset" THEN XrayPlainDial(record)
      ELSE Dial(network, security,
                Has(record) \cap XrayTransport(record),
                Has(record) \cap XrayTLS(security),
                Has(record) \cap XrayUser(record))

(***************************************************************************)
(* sing-box and mihomo have the same transports, and both take Hysteria2   *)
(* whatever its type says.  Neither is told of the gRPC mode, of a header, *)
(* of VLESS encryption or of spiderX; both are told of ALPN under reality. *)
(***************************************************************************)
HasTransport(record) ==
  \/ IsHysteria(record)
  \/ record.Type \in {"unset", "tcp", "ws", "grpc", "h2", "http", "httpupgrade"}

TunnelTransport(record) ==
  IF IsHysteria(record) THEN {}
  ELSE CASE record.Type \in {"ws", "h2", "http", "httpupgrade"} -> {"path", "host"}
         [] record.Type = "grpc" -> ServiceName(record)
         [] OTHER -> {}

TunnelTLS(security) ==
  CASE security = "tls" -> {"insecure", "alpn", "fp"}
    [] security = "reality" -> {"alpn", "fp"}
    [] OTHER -> {}

TunnelUser(record) ==
  CASE record.Protocol = "vmess" -> {"scy"}
    [] record.Protocol = "hysteria2" -> {"obfs"}
    [] OTHER -> {}

(* `security` is what the configuration says, `actual` what comes of it.   *)
TunnelDial(record, security, actual) ==
  IF ~HasTransport(record) THEN Omitted
  ELSE Dial(IF IsHysteria(record) THEN "hysteria" ELSE Canonical(record.Type), actual,
            Has(record) \cap TunnelTransport(record),
            Has(record) \cap TunnelTLS(security),
            Has(record) \cap TunnelUser(record))

SingboxDial(record) ==
  TunnelDial(record, ProberSecurity(record), ProberSecurity(record))

(* Hysteria2 is always TLS for mihomo, also when nothing is said of it. *)
ClashDial(record) ==
  LET security == ProberSecurity(record)
  IN  TunnelDial(record, security,
                 IF IsHysteria(record) /\ security = "none" THEN "tls" ELSE security)

(***************************************************************************)
(* The share links of a URL subscription.  VLESS and Trojan carry every    *)
(* parameter.  VMess has no field for the certificate, knows one kind of   *)
(* security, and puts the transport where the header is read from.         *)
(* Shadowsocks has its method only, Hysteria2 leaves `security` out.       *)
(***************************************************************************)
ReconstructVMess(record) ==
  [record EXCEPT
     !.Header = IF record.Header # "unset" THEN record.Header
                ELSE IF record.Type = "unset" THEN "tcp" ELSE record.Type,
     !.Security = IF record.Security \in {"tls", "reality"} THEN "tls" ELSE "unset",
     !.Insecure = "unset"]

ReconstructSS(record) ==
  [ Protocol |-> record.Protocol, Type |-> "unset", Header |-> "unset",
    Security |-> "unset", Insecure |-> "unset", Extra |-> "unset", Given |-> {} ]

Reconstruct(record) ==
  CASE record.Protocol = "vmess" -> ReconstructVMess(record)
    [] record.Protocol = "ss" -> ReconstructSS(record)
    [] record.Protocol = "hysteria2" -> [record EXCEPT !.Security = "unset"]
    [] OTHER -> record

(* A client that reads the link the way this program does. *)
URLDial(record) == ProberDial(Parse(Reconstruct(record)))

Formats == {"url", "json", "singbox", "clash"}

FormatDial(format, record) ==
  CASE format = "url" -> URLDial(record)
    [] format = "json" -> XrayDial(record)
    [] format = "singbox" -> SingboxDial(record)
    [] format = "clash" -> ClashDial(record)

(***************************************************************************)
(* The records a format dials otherwise than the prober did.               *)
(***************************************************************************)
Carries(record, parameters) == Has(record) \cap parameters # {}

(* A Hysteria2 record with a transport or a security of its own, which the *)
(* prober passes to Xray and no format does; with obfuscation, which only  *)
(* the prober leaves out; with ALPN, which the JSON view leaves out where  *)
(* there is no server name, and only the prober under reality.             *)
HysteriaGap(format, record) ==
  IF format = "url" THEN record.Security # "tls"
  ELSE \/ record.Type \notin {"unset", "hysteria"}
       \/ Carries(record, {"obfs"})
       \/ record.Security = "none" /\ format \in {"json", "clash"}
       \/ /\ record.Security = "reality"
          /\ format = "json" \/ Carries(record, {"alpn", "spx"})
       \/ /\ record.Security = "tls" /\ format = "json"
          /\ Carries(record, {"alpn"}) /\ ~Carries(record, {"sni"})

(* The JSON view knows one name of each transport and dials what has       *)
(* another name as plain TCP, without its security; it sends no header, no *)
(* seed and no spiderX; and it sends settings that the prober does not: of *)
(* HTTP/2, and of an XHTTP that the parser left under its former name.     *)
XrayGap(record) ==
  \/ record.Type \in {"websocket", "mkcp", "quic", "hysteria"}
  \/ record.Type = "raw" /\ MapSecurity(record.Security) # "none"
  \/ record.Type \in {"unset", "tcp"} /\ Carries(record, {"header"})
  \/ record.Type = "kcp" /\ Carries(record, {"header", "seed"})
  \/ record.Type \in {"h2", "http"} /\ Carries(record, {"path", "host"})
  \/ record.Type = "splithttp" /\ Carries(record, SettingsFromParams(record))
  \/ record.Security = "reality" /\ Carries(record, {"spx"})

TunnelGap(record) ==
  \/ record.Type \in {"unset", "tcp"} /\ Carries(record, {"header"})
  \/ record.Type \in {"h2", "http"} /\ Carries(record, {"path", "host"})
  \/ record.Type = "grpc" /\ Carries(record, {"mode"})
  \/ record.Protocol = "vless" /\ Carries(record, {"encryption"})
  \/ record.Security = "reality" /\ Carries(record, {"alpn", "spx"})

(* A VMess link cannot say reality nor insecure, and a Shadowsocks link    *)
(* nothing at all of the transport, its header and its security.           *)
URLGap(record) ==
  \/ /\ record.Protocol = "vmess"
     /\ \/ record.Security = "reality"
        \/ record.Security = "tls" /\ Carries(record, {"insecure"})
  \/ /\ record.Protocol = "ss"
     /\ \/ record.Type \notin {"unset", "tcp", "raw"}
        \/ record.Security \in {"tls", "reality"}
        \/ record.Type \in {"unset", "tcp"} /\ Carries(record, {"header"})

Gap(format, record) ==
  IF IsHysteria(record) THEN HysteriaGap(format, record)
  ELSE CASE format = "url" -> URLGap(record)
         [] format = "json" -> XrayGap(record)
         [] OTHER -> TunnelGap(record)
=============================================================================
