------------------------------- MODULE ShareLinks -------------------------------
(***************************************************************************)
(* From a share link to a node and from a node to an outbound of Xray:     *)
(* protocols/*.rs, the fields of domain.rs that make a node's id, the      *)
(* badge of dto.rs and render_proxy_outbound with render_stream and        *)
(* render_finalmask in render.rs, all of crates/xray-manager-core/src.     *)
(*                                                                         *)
(* A link is what is left of a line after URL, base64, percent and JSON    *)
(* decoding.  Parameters have the names of the URL query; those of a VMess *)
(* link (net, type, tls, aid, scy) go by the names they have in the others *)
(* (type, headerType, security) or in `extra` (alterId, cipher), and the   *)
(* method of Shadowsocks goes by `method`, its name in `extra`.  The user  *)
(* stands for the user and the password, the server for host and port.     *)
(* Parameter values stand for classes of text: "range" for two numeric     *)
(* ranges and "tlshello", "object" for a JSON object and "bad tcp" for one *)
(* whose member `tcp` is no array.                                         *)
(***************************************************************************)
EXTENDS Functions

CONSTANTS
    None,       \* absent or empty
    Malformed   \* a user or an address that does not decode

\* parse_uri: the schemes, hy2 being another spelling of hysteria2.
Protocols == {"vless", "vmess", "trojan", "ss", "hysteria2"}

\* Transport and Security: together with protocol, server, credentials and subscription
\* they make the id of a node, and nothing else does.
TransportOf == [
    vless |-> {"type", "path", "host", "serviceName", "authority", "mode", "headerType", "seed"},
    vmess |-> {"type", "path", "host", "headerType"},
    trojan |-> {"type", "path", "host", "serviceName", "authority"},
    ss |-> {}, hysteria2 |-> {}]
SecurityOf == [
    vless |-> {"security", "sni", "fp", "pbk", "sid", "spx", "alpn"},
    vmess |-> {"security", "sni", "fp", "alpn"},
    trojan |-> {"security", "sni", "fp", "pbk", "sid", "spx", "alpn"},
    ss |-> {}, hysteria2 |-> {"sni", "alpn", "insecure", "pinSHA256"}]

\* What a query may hold without a warning; VMess and Shadowsocks do not look.
KnownOf == [
    vless |-> TransportOf.vless \cup SecurityOf.vless
              \cup {"encryption", "flow", "fragment", "fm"},
    trojan |-> TransportOf.trojan \cup SecurityOf.trojan,
    hysteria2 |-> SecurityOf.hysteria2
                  \cup {"obfs", "obfs-password", "mport", "upmbps", "downmbps", "fm"}]

Get(params, key, default) == IF key \in DOMAIN params THEN params[key] ELSE default

\* The parsers refuse a link without a valid user, a server or a port.
Refuses(link) ==
    \/ link.scheme \notin Protocols
    \/ link.user \in {None, Malformed}
    \/ link.server \in {None, Malformed}

Networks == {"tcp", "raw", "ws", "websocket", "grpc", "httpupgrade", "xhttp", "splithttp"}

\* The transport that the parser notes: its own, or fixed by the protocol.
Network(link) ==
    CASE link.scheme = "ss" -> "tcp"
      [] link.scheme = "hysteria2" -> "hysteria"
      [] OTHER -> Get(link.params, "type", "tcp")

Unknown(link) ==
    IF link.scheme \in DOMAIN KnownOf THEN DOMAIN link.params \ KnownOf[link.scheme] ELSE {}

\* Mutation: a legacy seed is kept without a warning.
VlessWarningsSeedless(link) ==
    {w \in {"type", "headerType", "fragment", "fm"} :
        /\ link.scheme = "vless"
        /\ \/ w = "type" /\ Network(link) \notin Networks
           \/ w = "headerType" /\ Get(link.params, w, "none") \notin {"none", "http"}
           \/ w = "fragment" /\ Get(link.params, w, "range") # "range"
           \/ w = "fm" /\ Get(link.params, w, "object") \notin {"object", "bad tcp"}}

\* parse_vless, parse_shadowsocks, parse_hysteria2: what is kept but cannot be used.
VlessWarnings(link) ==
    {w \in {"type", "headerType", "seed", "fragment", "fm"} :
        /\ link.scheme = "vless"
        /\ \/ w = "type" /\ Network(link) \notin Networks
           \/ w = "headerType" /\ Get(link.params, w, "none") \notin {"none", "http"}
           \/ w = "seed" /\ w \in DOMAIN link.params
           \/ w = "fragment" /\ Get(link.params, w, "range") # "range"
           \/ w = "fm" /\ Get(link.params, w, "object") \notin {"object", "bad tcp"}}
ShadowsocksWarnings(link) ==
    IF link.scheme = "ss" THEN DOMAIN link.params \cap {"plugin"} ELSE {}
HysteriaWarnings(link) ==
    {w \in {"obfs", "fm"} :
        /\ link.scheme = "hysteria2"
        /\ \/ w = "obfs" /\ Get(link.params, w, "salamander") # "salamander"
           \/ w = "fm" /\ Get(link.params, w, "object") \notin {"object", "bad tcp"}}

Warnings(link) ==
    Unknown(link) \cup VlessWarnings(link) \cup ShadowsocksWarnings(link)
    \cup HysteriaWarnings(link)

\* What of the parameters becomes Transport or Security.
Counted(link) ==
    Restrict(link.params, DOMAIN link.params
                          \cap (TransportOf[link.scheme] \cup SecurityOf[link.scheme]))

\* normalized_identity: neither the name nor `extra` takes part, and a kind of transport
\* or security is the same whether it is given or left to its default.
Identity(link, subscription) ==
    LET counted == Counted(link)
        defaulted == {"type", "security", "insecure"}
    IN  [protocol |-> link.scheme, server |-> link.server, user |-> link.user,
         network |-> Network(link),
         security |-> Get(counted, "security", IF link.scheme = "trojan" THEN "tls" ELSE "none"),
         insecure |-> Get(counted, "insecure", "0") \in {"1", "true"},
         options |-> Restrict(counted, DOMAIN counted \ defaulted),
         subscription |-> subscription]

\* node_from_url, parse_vmess.  A name that is missing is made of the server.
Parsed(link, subscription) ==
    [id |-> Identity(link, subscription), subscription |-> subscription,
     name |-> IF link.name = None THEN link.server ELSE link.name,
     protocol |-> link.scheme, network |-> Network(link), warnings |-> Warnings(link),
     header |-> IF "headerType" \in TransportOf[link.scheme]
                THEN Get(link.params, "headerType", None) ELSE None,
     seed |-> link.scheme = "vless" /\ "seed" \in DOMAIN link.params,
     extra |-> IF link.scheme = "vmess"
               THEN Restrict(link.params, DOMAIN link.params \cap {"alterId", "cipher"})
               ELSE link.params]

\* NodeDto: the badge in the list of nodes and in the terminal interface.
Badge(node) ==
    IF node.warnings = {} THEN "supported"
    ELSE IF node.protocol = "hysteria2" THEN "unsupported" ELSE "partial"

\* normalize_network.
Normal(network) ==
    CASE network = "raw" -> "tcp" [] network = "websocket" -> "ws"
      [] network = "splithttp" -> "xhttp" [] OTHER -> network

\* render_stream: all protocols but Shadowsocks.
StreamRefuses(node) ==
    \/ node.network \notin Networks \cup {"hysteria"}
    \/ Normal(node.network) = "tcp" /\ node.header \notin {None, "none", "http"}
    \/ node.seed

\* render_finalmask: `fm`, the legacy fragment added to its `tcp`, the legacy names of
\* Hysteria2 only where there is no `fm`.
Clashing(extra) == "fragment" \in DOMAIN extra /\ Get(extra, "fm", "object") = "bad tcp"

FinalmaskRefuses(node) ==
    \/ Get(node.extra, "fm", "object") \notin {"object", "bad tcp"}
    \/ Get(node.extra, "fragment", "range") # "range"
    \/ Clashing(node.extra)
    \/ /\ node.protocol = "hysteria2" /\ "fm" \notin DOMAIN node.extra
       /\ Get(node.extra, "obfs", "none") = "salamander"
       /\ "obfs-password" \notin DOMAIN node.extra

\* Mutation: a Hysteria2 node is rendered in spite of its warnings.
RendersUnmapped(node) ==
    IF node.protocol = "ss" THEN "plugin" \notin DOMAIN node.extra
    ELSE ~StreamRefuses(node) /\ ~FinalmaskRefuses(node)

\* render_proxy_outbound.
Renders(node) ==
    IF node.protocol = "ss" THEN "plugin" \notin DOMAIN node.extra
    ELSE /\ node.protocol = "hysteria2" => node.warnings = {}
         /\ ~StreamRefuses(node) /\ ~FinalmaskRefuses(node)
================================================================================
