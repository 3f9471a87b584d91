----------------------------- MODULE Conversion -----------------------------
(***************************************************************************)
(* Sources that serve Xray configurations instead of share links:          *)
(* internal/fetch/fetch.go, which makes a link of every outbound it knows. *)
(* An outbound has the fields of a link: Type is its network, Insecure     *)
(* its allowInsecure, "mode" the multiMode of gRPC or the mode of XHTTP,   *)
(* "path" a path or service name in the settings of its transport, "host"  *)
(* a host there, and "hostHeader" one among the headers of a WebSocket (an *)
(* outbound that has both has the same in both).  It has settings of its   *)
(* own transport and its own security only, under the key the reader looks *)
(* at if there is one (tcpSettings, xhttpSettings and so on), and in the   *)
(* form Xray knows: a gRPC mode that is a string, say, is not there, nor   *)
(* is what no part of the program reads (sockopt, mux and the like).       *)
(***************************************************************************)
EXTENDS Links

NoLink == NoRecord

(* No network is tcp, no security is none. *)
NetworkOf(outbound) == IF outbound.Type = "unset" THEN "tcp" ELSE outbound.Type
SecurityOf(outbound) == IF outbound.Security = "unset" THEN "none" ELSE outbound.Security

Is(outbound, network) == Canonical(outbound.Type) = network

(* The settings read are those of XHTTP, WebSocket and gRPC, and of the    *)
(* security but for ALPN and spiderX.                                      *)
ReadAlike(outbound) ==
  CASE Is(outbound, "xhttp") -> {"path", "host", "mode", "sni", "fp"}
    [] Is(outbound, "ws") \/ Is(outbound, "grpc") -> {"path", "sni", "fp"}
    [] OTHER -> {"sni", "fp"}

(* Where the host of a WebSocket is looked for: VLESS and Trojan know the  *)
(* header only.                                                            *)
ReadHost(outbound, places) ==
  IF Is(outbound, "ws") /\ outbound.Given \cap places # {} THEN {"host"} ELSE {}

HasBrokenExtra(outbound) ==
  outbound.Extra = "broken" /\ IsXHTTP(outbound.Type)

(* Defective variant: the encryption of the user is not copied. *)
VlessLinkUnencrypted(outbound) ==
  [outbound EXCEPT
     !.Type = NetworkOf(outbound), !.Security = SecurityOf(outbound),
     !.Insecure = "unset",
     !.Given = (outbound.Given \cap ReadAlike(outbound))
                 \cup ReadHost(outbound, {"hostHeader"})]

VlessLink(outbound) ==
  [outbound EXCEPT
     !.Type = NetworkOf(outbound), !.Security = SecurityOf(outbound),
     !.Insecure = "unset",
     !.Header = IF Is(outbound, "tcp") /\ outbound.Header = "http" THEN "http" ELSE "unset",
     !.Given = (outbound.Given \cap (ReadAlike(outbound) \cup {"encryption"}))
                 \cup ReadHost(outbound, {"hostHeader"})]

TrojanLink(outbound) ==
  [VlessLink(outbound) EXCEPT
     !.Type = IF NetworkOf(outbound) = "tcp" THEN "unset" ELSE outbound.Type,
     !.Given = @ \ {"encryption"}]

(* `type` of the JSON is the network, or "gun" for multiMode: the parser   *)
(* takes it for the header, and never finds the header written beside it.  *)
(* The seed of mKCP is written where the path is.                          *)
VMessLink(outbound) ==
  [outbound EXCEPT
     !.Type = NetworkOf(outbound), !.Header = NetworkOf(outbound),
     !.Security = IF outbound.Security \in {"tls", "reality"} THEN "tls" ELSE "unset",
     !.Insecure = "unset",
     !.Given = (outbound.Given \cap ReadAlike(outbound))
                 \cup ReadHost(outbound, {"host", "hostHeader"})
                 \cup (IF Is(outbound, "kcp") /\ "seed" \in outbound.Given
                       THEN {"path"} ELSE {})]

(* Address, port and credentials only; Hysteria2 has a server name as      *)
(* well, its address if there is no other.                                 *)
BareLink(outbound) ==
  [ReconstructSS(outbound) EXCEPT
     !.Given = IF IsHysteria(outbound) THEN {"sni"} ELSE {}]

OutboundToURL(outbound) ==
  IF HasBrokenExtra(outbound) /\ NormalizesXHTTP(outbound) THEN NoLink
  ELSE CASE outbound.Protocol = "vless" -> VlessLink(outbound)
         [] outbound.Protocol = "vmess" -> VMessLink(outbound)
         [] outbound.Protocol = "trojan" -> TrojanLink(outbound)
         [] OTHER -> BareLink(outbound)

(***************************************************************************)
(* What the outbound means to Xray, which knows every name of a network,   *)
(* every kind of mKCP header and both places of a host.  Of a security it  *)
(* takes what the prober knows to send.                                    *)
(***************************************************************************)
ConfiguredNetwork(outbound) ==
  IF IsHysteria(outbound) THEN "hysteria" ELSE Canonical(outbound.Type)

Configured(outbound) ==
  LET network == ConfiguredNetwork(outbound)
  IN  Has(outbound)
        \cup (IF network = "kcp" /\ outbound.Header # "unset" THEN {"header"} ELSE {})
        \cup (IF network = "ws" /\ "hostHeader" \in outbound.Given THEN {"host"} ELSE {})

ConfiguredTransport(outbound) ==
  LET network == ConfiguredNetwork(outbound)
  IN  CASE network = "tcp" -> {"header"}
        [] network = "kcp" -> {"header", "seed"}
        [] network \in {"ws", "h2", "httpupgrade"} -> {"path", "host"}
        [] network = "grpc" -> {"path", "mode"}
        [] network = "xhttp" -> {"path", "host", "mode", "extra"}
        [] OTHER -> {}

ConfiguredUser(outbound) ==
  IF IsHysteria(outbound) THEN {"obfs"} ELSE XrayUser(outbound)

ConfiguredDial(outbound) ==
  LET security == MapSecurity(outbound.Security)
  IN  Dial(ConfiguredNetwork(outbound), security,
           Configured(outbound) \cap ConfiguredTransport(outbound),
           Configured(outbound) \cap ProberTLS(security),
           Configured(outbound) \cap ConfiguredUser(outbound))

(* What is lost on the way from an outbound to the connection probed: of   *)
(* every protocol allowInsecure, ALPN, spiderX, the cipher of VMess, the   *)
(* obfuscation of Hysteria2 and the seed of mKCP; of Shadowsocks and       *)
(* Hysteria2 all but the server name; of the others, settings that are     *)
(* written where the reader does not look.                                 *)
ConversionGap(outbound) ==
  LET dial == ConfiguredDial(outbound)
      type == outbound.Type
      unread == {"websocket", "httpupgrade", "h2", "http"}
  IN  \/ dial.TLS \cap {"insecure", "alpn", "spx"} # {}
      \/ dial.User \cap {"scy", "obfs"} # {}
      \/ "seed" \in dial.Transport
      \/ outbound.Protocol = "hysteria2" /\ (dial.Security # "tls" \/ "fp" \in dial.TLS)
      \/ outbound.Protocol = "ss" /\ (\/ dial.Network # "tcp" \/ dial.Security # "none"
                                      \/ "header" \in dial.Transport)
      \/ outbound.Protocol = "vmess" /\ dial.Security = "reality"
      \/ /\ "header" \in dial.Transport
         /\ outbound.Protocol = "vmess" \/ type \notin {"unset", "tcp"}
      \/ "mode" \in dial.Transport /\ type = "grpc"
      \/ /\ "path" \in dial.Transport
         /\ type \in unread \/ (type = "grpc" /\ outbound.Protocol = "vmess")
      \/ /\ "host" \in dial.Transport
         /\ \/ type \in unread
            \/ /\ type = "ws" /\ outbound.Protocol # "vmess"
               /\ "hostHeader" \notin outbound.Given
=============================================================================
