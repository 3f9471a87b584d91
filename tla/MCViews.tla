------------------------------ MODULE MCViews ------------------------------
(***************************************************************************)
(* Views for TLC.  A refresh publishes either one record of any link at    *)
(* all, or two records of few links in every combination of health and     *)
(* evidence.                                                               *)
(***************************************************************************)
EXTENDS Views

(* The parameters that mean something to a translation of a protocol, a    *)
(* transport and a security.                                               *)
MCTransport(type) ==
  CASE type \in {"ws", "websocket", "h2", "http", "httpupgrade"} -> {"path", "host"}
    [] type = "grpc" -> {"path", "mode"}
    [] type \in {"xhttp", "splithttp"} -> {"path", "host", "mode"}
    [] type \in {"kcp", "mkcp"} -> {"seed"}
    [] OTHER -> {}

MCUser(protocol) ==
  CASE protocol = "vless" -> {"encryption"}
    [] protocol = "vmess" -> {"scy"}
    [] protocol = "hysteria2" -> {"obfs", "sni"}
    [] OTHER -> {}

MCHeaders(type) ==
  CASE type \in {"unset", "tcp", "raw"} -> {"unset", "http"}
    [] type \in {"kcp", "mkcp"} -> {"unset", "http", "srtp"}
    [] OTHER -> {"unset"}

MCLink(protocol, type, security, insecure, extra, header, given) ==
  [ Protocol |-> protocol, Type |-> type, Header |-> header, Security |-> security,
    Insecure |-> insecure, Extra |-> extra, Given |-> given ]

(* Every transport with all that can be said of it, under every security;  *)
MCTransportLinks(places) ==
  UNION { {MCLink(p, t, s, "unset", x, h, g) :
             s \in {"unset", "none", "tls", "reality"},
             x \in IF IsXHTTP(t) THEN {"unset", "valid", "broken"} ELSE {"unset"},
             h \in MCHeaders(t),
             g \in SUBSET (MCTransport(t) \cup (IF Canonical(t) = "ws" THEN places ELSE {}))} :
          p \in Protocols, t \in Types }

(* and every security and protocol with all that can be said of it, over   *)
(* transports that all formats have, that some have, and that one has      *)
(* under another name.                                                     *)
MCSecurityLinks ==
  UNION { {MCLink(p, t, s, i, "unset", "unset", g) :
             s \in {"unset", "none", "tls", "reality"}, i \in {"unset", "0", "1"},
             g \in SUBSET (MCUser(p) \cup {"alpn", "fp", "spx"})} :
          p \in Protocols, t \in {"unset", "ws", "xhttp", "raw"} }

MCSources ==
  {ShareLink(link) : link \in MCTransportLinks({}) \cup MCSecurityLinks}
  \cup {Outbound(link) : link \in MCTransportLinks({"hostHeader"})
                                   \cup {l \in MCSecurityLinks : l.Insecure # "0"}}

Vless(type, extra) == MCLink("vless", type, "tls", "unset", extra, "unset", {})

Evidence(direct, warp4, warp6) ==
  [direct |-> [v4 |-> direct, v6 |-> NoResult], warp |-> [v4 |-> warp4, v6 |-> warp6]]

(* Settled outside, settled inside on one route, in conflict, unknown.     *)
MCCountries ==
  { Evidence(ConfirmedAs("b"), ConfirmedAs("b"), NoResult),
    Evidence(ConfirmedAs("a"), ConfirmedAs("b"), NoResult),
    Evidence(ConfirmedAs("b"), ConfirmedAs("b"), ConfirmedAs("a")),
    Evidence(ConfirmedAs("b"), Result("b", "a", "CONFLICT", "a", 1), NoResult),
    NoCountries }

MCOneRecord ==
  LET settled == Evidence(ConfirmedAs("b"), ConfirmedAs("b"), NoResult)
  IN  {<<Probed(source, TRUE, TRUE, settled, Geo("x", "1"), Geo("x", "unset"))>> :
         source \in MCSources}

(* Two exit addresses that hash alike, one that does not, and none. *)
MCExitID == [ip \in {"1", "2", "3"} |-> IF ip = "3" THEN "f" ELSE "e"]
MCGeos == {<<Geo("x", "1"), Geo("x", "1")>>, <<Geo("x", "1"), Geo("x", "2")>>,
           <<Geo("x", "3"), Geo("x", "1")>>, <<Geo("x", "unset"), Geo("x", "2")>>}

MCPairs == {<<Vless("tcp", "unset"), Vless("kcp", "unset")>>,
            <<Vless("tcp", "unset"), Vless("tcp", "unset")>>,
            <<Vless("xhttp", "broken"), Vless("ws", "unset")>>}

MCTwoRecords ==
  { << Probed(ShareLink(links[1]), h[1], h[2], c, geos[1], geos[2]),
       Probed(ShareLink(links[2]), h[3], h[4], d, geos[2], geos[2]) >> :
      links \in MCPairs, h \in BOOLEAN \X BOOLEAN \X BOOLEAN \X BOOLEAN,
      c \in MCCountries, d \in MCCountries, geos \in MCGeos }

MCListings == MCOneRecord \cup MCTwoRecords

Request(format, warp, profile, exclude, client) ==
  [ Format |-> format, Warp |-> warp, Profile |-> profile,
    Exclude |-> exclude, Client |-> client ]

MCRequests ==
  {Request(f, w, p, e, c) : f \in Formats, w \in {"unset", "on", "off"}, p \in {"unset", "none"},
                            e \in {{}, {"a"}}, c \in {"unknown"}}
  \cup {Request("json", w, p, e, "husi") : w \in {"unset", "on", "off"}, p \in {"unset", "none"},
                                           e \in {{}, {"a"}}}
  \cup {Request(f, w, p, {}, "unknown") : f \in {"other"}, w \in {"unset", "other"},
                                          p \in {"unset", "other"}}
=============================================================================
