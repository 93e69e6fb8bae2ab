----------------------------- MODULE LinkCodec -----------------------------
(***************************************************************************)
(* Share links: an inbound is written as a link (lib/xray/inbound-link.ts) *)
(* and the link is read back as an outbound of another panel               *)
(* (lib/xray/outbound-link-parser.ts).  A field's value is the token named *)
(* like the field, "" when it is empty; a link is a map from parameter     *)
(* names to tokens, so what is kept, lost or swapped can be told.          *)
(***************************************************************************)
EXTENDS Integers, Sequences, FiniteSets, TLC

VARIABLES
    inb,       \* the inbound shared: [proto, net, sec, force, ext, on]; on is the set of fields filled in
    place,     \* where it is shared from: [override, listen, browser, domain]
    link,      \* the link, NoLink before it is generated, or the scheme and its parameters
    imported   \* the outbound read from it, or NoOutbound

linkVars == <<inb, place, link, imported>>

NoLink == [scheme |-> "", params |-> <<>>]
NoOutbound == [proto |-> ""]

-----------------------------------------------------------------------------
(* Inbounds the panel can hold: lib/xray/protocol-capabilities.ts *)

Networks == {"tcp", "http", "kcp", "ws", "grpc", "httpupgrade", "xhttp"}   \* http is tcp with an HTTP header
canEnableTls(p, net) == p \in {"vmess", "vless", "trojan", "shadowsocks"} /\ net # "kcp"
canEnableReality(p, net) == p \in {"vless", "trojan"} /\ net \in {"tcp", "http", "grpc", "xhttp"}

NetworkFields(net) ==
    CASE net = "http" -> {"path", "host"} [] net = "kcp" -> {"mtu"}
      [] net \in {"ws", "httpupgrade"} -> {"path", "host", "hostHeader"}
      [] net = "grpc" -> {"path", "authority", "multi"}
      [] net = "xhttp" -> {"path", "host", "hostHeader", "mode", "pad", "headers"}
      [] OTHER -> {}
SecurityFields(sec) ==
    CASE sec = "tls" -> {"sni", "fp", "alpn", "ech", "pcs"}
      [] sec = "reality" -> {"sni", "serverNames", "fp", "sid", "spx", "pqv"} [] OTHER -> {}
OwnFields(p, net, sec) ==
    CASE p = "trojan" -> {"specialPassword"}
      [] p = "vless" -> IF net \in {"tcp", "http"} /\ sec # "none" THEN {"flow"} ELSE {}
      [] p = "hysteria" -> {"obfs", "hopPorts"}
      [] OTHER -> {}

Streams ==
    {s \in {"vmess", "vless", "trojan", "shadowsocks"} \X Networks \X {"none", "tls", "reality"} :
        (s[3] = "tls" => canEnableTls(s[1], s[2])) /\ (s[3] = "reality" => canEnableReality(s[1], s[2]))}
    \cup {<<"hysteria", "hysteria", "tls">>}
AtMostTwo(S) == {{}} \cup {{x, y} : x \in S, y \in S}
Sharings == {<<"same", "none">>, <<"same", "full">>, <<"tls", "bare">>, <<"none", "bare">>}
Inbounds ==
    UNION {{[proto |-> s[1], net |-> s[2], sec |-> s[3], force |-> sh[1], ext |-> sh[2], on |-> on] :
              sh \in Sharings,
              on \in AtMostTwo(NetworkFields(s[2]) \cup SecurityFields(s[3]) \cup OwnFields(s[1], s[2], s[3]) \cup {"fm"})} :
           s \in Streams}
WireguardInbounds ==
    {[proto |-> "wireguard", net |-> "none", sec |-> "none", force |-> "same", ext |-> "none", on |-> on] :
        on \in SUBSET {"mtu", "psk", "keepalive"}}

Places == [override : {"", "node"}, listen : {"", "0.0.0.0", "::", "127.0.0.1", "ip", "@socket"},
           browser : {"public", "127.0.0.1"}, domain : {"", "domain"}]
Plain == [proto |-> "vless", net |-> "tcp", sec |-> "none", force |-> "same", ext |-> "none", on |-> {}]
Here == [override |-> "", listen |-> "", browser |-> "public", domain |-> ""]

Init ==
    /\ \/ inb \in Inbounds \cup WireguardInbounds /\ place = Here
       \/ inb = Plain /\ place \in Places
    /\ link = NoLink /\ imported = NoOutbound

-----------------------------------------------------------------------------
(* Writing *)

Empty == [k \in {} |-> ""]
Tok(c, f) == IF f \in c.on THEN f ELSE ""
Put(k, v) == k :> v
Opt(k, v) == IF v = "" THEN Empty ELSE k :> v
EffSec(c) == IF c.force = "same" THEN c.sec ELSE c.force
\* The explicit host, or the Host header
HostOf(c) == IF "host" \in c.on THEN "host" ELSE Tok(c, "hostHeader")

\* buildXhttpExtra and its two callers: padding rides twice, Host never
XhttpExtra(c) == Opt("xPaddingBytes", Tok(c, "pad")) @@ Opt("headers", Tok(c, "headers"))
XhttpParams(c) ==
    Put("path", Tok(c, "path")) @@ Put("host", HostOf(c)) @@ Put("mode", Tok(c, "mode"))
    @@ Opt("x_padding_bytes", Tok(c, "pad"))
    @@ (IF XhttpExtra(c) = Empty THEN Empty ELSE Put("extra.pad", Tok(c, "pad")) @@ Put("extra.headers", Tok(c, "headers")))

writeNetworkParams(c) ==
    CASE c.net = "http" -> Put("path", Tok(c, "path")) @@ Opt("host", Tok(c, "host")) @@ Put("headerType", "http")
      [] c.net = "kcp" -> Put("mtu", Tok(c, "mtu"))
      [] c.net \in {"ws", "httpupgrade"} -> Put("path", Tok(c, "path")) @@ Put("host", HostOf(c))
      [] c.net = "grpc" -> Put("serviceName", Tok(c, "path")) @@ Put("authority", Tok(c, "authority"))
                           @@ (IF "multi" \in c.on THEN Put("mode", "multi") ELSE Empty)
      [] c.net = "xhttp" -> XhttpParams(c)
      [] OTHER -> Empty

applyFinalMask(c) == Opt("fm", Tok(c, "fm"))

writeTlsParams(c) ==
    IF c.sec # "tls" THEN Empty
    ELSE Put("fp", Tok(c, "fp")) @@ Put("alpn", Tok(c, "alpn")) @@ Opt("sni", Tok(c, "sni"))
         @@ Opt("ech", Tok(c, "ech")) @@ Opt("pcs", Tok(c, "pcs"))

\* An external proxy describes another endpoint: its values win over the
\* inbound's, and its address is the server name when it names none
applyExternalProxyTLS(c) ==
    IF EffSec(c) # "tls" THEN Empty
    ELSE CASE c.ext = "bare" -> Put("sni", "ext.dest")
           [] c.ext = "full" -> Put("sni", "ext.sni") @@ Put("fp", "ext.fp") @@ Put("alpn", "ext.alpn")
                                @@ Put("pcs", "ext.pcs") @@ Put("ech", "ext.ech")
           [] OTHER -> Empty

RealitySni(c) == IF "sni" \in c.on THEN "sni" ELSE IF "serverNames" \in c.on THEN "serverNames" ELSE "target"
writeRealityParams(c) ==
    IF c.sec # "reality" THEN Empty
    ELSE Put("pbk", "pbk") @@ Put("fp", Tok(c, "fp")) @@ Put("sni", RealitySni(c)) @@ Opt("sid", Tok(c, "sid"))
         @@ Opt("spx", Tok(c, "spx")) @@ Opt("pqv", Tok(c, "pqv"))

TypeParam(c) == Put("type", IF c.net = "http" THEN "tcp" ELSE c.net)
Flow(c) == IF c.net \in {"tcp", "http"} THEN Opt("flow", Tok(c, "flow")) ELSE Empty

\* Mutant: the inbound's TLS values win over the external proxy's.
SecurityParamsInboundWins(c) ==
    CASE EffSec(c) = "tls" -> Put("security", "tls") @@ writeTlsParams(c) @@ applyExternalProxyTLS(c)
      [] EffSec(c) = "reality" -> Put("security", "reality") @@ writeRealityParams(c)
      [] OTHER -> Put("security", "none")
SecurityParams(c) ==
    CASE EffSec(c) = "tls" -> Put("security", "tls") @@ applyExternalProxyTLS(c) @@ writeTlsParams(c)
      [] EffSec(c) = "reality" -> Put("security", "reality") @@ writeRealityParams(c)
      [] OTHER -> Put("security", "none")

\* genVlessLink: the flow rides only with the inbound's own security
VlessLink(c) ==
    [scheme |-> "vless",
     params |-> TypeParam(c) @@ writeNetworkParams(c) @@ applyFinalMask(c) @@ SecurityParams(c)
                @@ (IF EffSec(c) = c.sec /\ c.sec # "none" THEN Flow(c) ELSE Empty)]

TrojanLink(c) ==
    [scheme |-> "trojan",
     params |-> TypeParam(c) @@ writeNetworkParams(c) @@ applyFinalMask(c) @@ SecurityParams(c)
                @@ Put("password", IF "specialPassword" \in c.on THEN "specialPassword.encoded" ELSE "password")]

ShadowsocksLink(c) ==
    [scheme |-> "ss",
     params |-> TypeParam(c) @@ writeNetworkParams(c) @@ applyFinalMask(c)
                @@ (IF EffSec(c) = "tls" THEN SecurityParams(c) ELSE Empty) @@ Put("password", "password")]

\* genVmessLink: the same data as a JSON object with keys of its own
VmessLink(c) ==
    [scheme |-> "vmess",
     params |->
        Put("net", IF c.net = "http" THEN "tcp" ELSE c.net) @@ Put("tls", EffSec(c))
        @@ (CASE c.net = "http" -> Put("type", "http") @@ Put("path", Tok(c, "path")) @@ Opt("host", Tok(c, "host"))
              [] c.net = "kcp" -> Put("mtu", Tok(c, "mtu"))
              [] c.net \in {"ws", "httpupgrade"} -> Put("path", Tok(c, "path")) @@ Put("host", HostOf(c))
              [] c.net = "grpc" -> Put("path", Tok(c, "path")) @@ Put("authority", Tok(c, "authority"))
                                   @@ (IF "multi" \in c.on THEN Put("type", "multi") ELSE Empty)
              [] c.net = "xhttp" -> Put("path", Tok(c, "path")) @@ Put("host", HostOf(c)) @@ Put("type", Tok(c, "mode"))
                                    @@ Opt("x_padding_bytes", Tok(c, "pad")) @@ XhttpExtra(c)
              [] OTHER -> Put("type", "none"))
        @@ applyFinalMask(c) @@ applyExternalProxyTLS(c)
        @@ (IF EffSec(c) = "tls" THEN writeTlsParams(c) ELSE Empty)]

\* genHysteriaLink: always TLS; pins travel as pinSHA256, an external proxy
\* brings only its pins
HysteriaLink(c) ==
    [scheme |-> "hysteria2",
     params |-> Put("security", "tls") @@ Opt("fp", Tok(c, "fp")) @@ Opt("alpn", Tok(c, "alpn")) @@ Opt("ech", Tok(c, "ech"))
        @@ Opt("sni", Tok(c, "sni"))
        @@ Opt("pinSHA256", IF c.ext = "full" THEN "ext.pcs" ELSE Tok(c, "pcs"))
        @@ Opt("obfs-password", Tok(c, "obfs")) @@ Opt("mport", Tok(c, "hopPorts"))
        @@ Opt("fm", IF {"fm", "obfs", "hopPorts"} \cap c.on = {} THEN "" ELSE "fm")]

\* genWireguardLink: neither the preshared key nor the keepalive
WireguardLink(c) == [scheme |-> "wireguard", params |-> Put("publickey", "publickey") @@ Opt("mtu", Tok(c, "mtu"))]

genLink(c) ==
    CASE c.proto = "vmess" -> VmessLink(c) [] c.proto = "vless" -> VlessLink(c) [] c.proto = "trojan" -> TrojanLink(c)
      [] c.proto = "shadowsocks" -> ShadowsocksLink(c) [] c.proto = "hysteria" -> HysteriaLink(c)
      [] OTHER -> WireguardLink(c)

preferPublicHost(p) == IF p.browser = "127.0.0.1" /\ p.domain # "" THEN p.domain ELSE p.browser
\* resolveAddr: the node, else a bind address that clients can reach, else
\* the host the browser used, or the configured domain when that is loopback
resolveAddr(p) ==
    IF p.override # "" THEN p.override
    ELSE IF p.listen \notin {"", "0.0.0.0", "@socket"} THEN p.listen ELSE preferPublicHost(p)

Share ==
    /\ link = NoLink
    /\ LET made == genLink(inb) IN link' = [scheme |-> made.scheme, params |-> made.params @@ Put("address", resolveAddr(place))]
    /\ UNCHANGED <<inb, place, imported>>

-----------------------------------------------------------------------------
(* Reading *)

Get(p, k) == IF k \in DOMAIN p THEN p[k] ELSE ""
First(a, b) == IF a # "" THEN a ELSE b

Blank == [net |-> "", sec |-> "", path |-> "", host |-> "", authority |-> "", multi |-> "", mode |-> "", pad |-> "",
          headers |-> "", mtu |-> "", sni |-> "", fp |-> "", alpn |-> "", ech |-> "", pcs |-> "", pbk |-> "",
          sid |-> "", spx |-> "", pqv |-> "", fm |-> "", flow |-> "", password |-> "", psk |-> "", keepalive |-> ""]

\* applyTransportParams: kcp has no case, its parameters are not read
applyTransportParams(p, net) ==
    CASE net \in {"ws", "httpupgrade"} -> [Blank EXCEPT !.host = Get(p, "host"), !.path = Get(p, "path")]
      [] net = "grpc" -> [Blank EXCEPT !.path = First(Get(p, "serviceName"), Get(p, "path")), !.authority = Get(p, "authority"),
                                       !.multi = IF Get(p, "mode") = "multi" THEN "multi" ELSE ""]
      [] net = "xhttp" -> [Blank EXCEPT !.host = Get(p, "host"), !.path = Get(p, "path"), !.mode = Get(p, "mode"),
                                        !.pad = First(Get(p, "extra.pad"), Get(p, "x_padding_bytes")),
                                        !.headers = Get(p, "extra.headers")]
      [] net = "tcp" /\ Get(p, "headerType") = "http" -> [Blank EXCEPT !.host = Get(p, "host"), !.path = Get(p, "path")]
      [] OTHER -> Blank

applySecurityParams(o, p, sec) ==
    CASE sec = "tls" -> [o EXCEPT !.sni = Get(p, "sni"), !.fp = Get(p, "fp"), !.alpn = Get(p, "alpn"),
                                  !.ech = Get(p, "ech"), !.pcs = Get(p, "pcs")]
      [] sec = "reality" -> [o EXCEPT !.sni = Get(p, "sni"), !.fp = Get(p, "fp"), !.pbk = Get(p, "pbk"), !.sid = Get(p, "sid"),
                                      !.spx = Get(p, "spx"), !.pqv = Get(p, "pqv")]
      [] OTHER -> o

ReadUrl(p) ==
    [applySecurityParams(applyTransportParams(p, Get(p, "type")), p, Get(p, "security"))
        EXCEPT !.net = Get(p, "type"), !.sec = Get(p, "security"), !.fm = Get(p, "fm")]

parseVlessLink(p) == [ReadUrl(p) EXCEPT !.flow = Get(p, "flow")]
\* The user name is not decoded
parseTrojanLink(p) == [ReadUrl(p) EXCEPT !.password = Get(p, "password")]
\* Address, method and password only
parseShadowsocksLink(p) == [Blank EXCEPT !.password = Get(p, "password")]
\* The XHTTP mode is looked up under a key that the generator does not write
parseVmessLink(p) ==
    LET net == Get(p, "net")
        sec == IF Get(p, "tls") = "tls" THEN "tls" ELSE "none"
        base == CASE net \in {"ws", "httpupgrade"} -> [Blank EXCEPT !.host = Get(p, "host"), !.path = Get(p, "path")]
                  [] net = "tcp" /\ Get(p, "type") = "http" -> [Blank EXCEPT !.host = Get(p, "host"), !.path = Get(p, "path")]
                  [] net = "grpc" -> [Blank EXCEPT !.path = Get(p, "path"), !.authority = Get(p, "authority"),
                                                   !.multi = IF Get(p, "type") = "multi" THEN "multi" ELSE ""]
                  [] net = "xhttp" -> [Blank EXCEPT !.host = Get(p, "host"), !.path = Get(p, "path"), !.mode = Get(p, "mode"),
                                                    !.pad = Get(p, "xPaddingBytes")]
                  [] OTHER -> Blank
    IN [base EXCEPT !.net = net, !.sec = sec,
           !.sni = IF sec = "tls" THEN Get(p, "sni") ELSE "", !.fp = IF sec = "tls" THEN Get(p, "fp") ELSE "",
           !.alpn = IF sec = "tls" THEN Get(p, "alpn") ELSE ""]
parseHysteria2Link(p) ==
    [Blank EXCEPT !.net = "hysteria", !.sec = "tls", !.sni = Get(p, "sni"), !.alpn = Get(p, "alpn"), !.fp = Get(p, "fp"),
                  !.ech = Get(p, "ech"), !.pcs = Get(p, "pinSHA256"), !.fm = Get(p, "fm")]
parseWireguardLink(p) ==
    [Blank EXCEPT !.mtu = Get(p, "mtu"), !.psk = Get(p, "presharedkey"), !.keepalive = Get(p, "keepalive")]

parseOutboundLink(l) ==
    CASE l.scheme = "vmess" -> parseVmessLink(l.params) [] l.scheme = "vless" -> parseVlessLink(l.params)
      [] l.scheme = "trojan" -> parseTrojanLink(l.params) [] l.scheme = "ss" -> parseShadowsocksLink(l.params)
      [] l.scheme = "hysteria2" -> parseHysteria2Link(l.params) [] OTHER -> parseWireguardLink(l.params)

Import ==
    /\ link # NoLink /\ imported = NoOutbound
    /\ imported' = [proto |-> inb.proto, got |-> parseOutboundLink(link)]
    /\ UNCHANGED <<inb, place, link>>

Next == Share \/ Import
Spec == Init /\ [][Next]_linkVars

-----------------------------------------------------------------------------
(* Properties *)

TypeOK ==
    /\ link.scheme \in {"", "vmess", "vless", "trojan", "ss", "hysteria2", "wireguard"}
    /\ imported # NoOutbound => DOMAIN imported.got = DOMAIN Blank

\* What a client of the inbound needs, field by field
Needed(c) ==
    LET tls(f) == IF EffSec(c) # "tls" THEN ""
                  ELSE IF c.ext = "full" THEN "ext." \o f
                  ELSE IF f = "sni" /\ c.ext = "bare" THEN "ext.dest"
                  ELSE IF c.sec = "tls" THEN Tok(c, f) ELSE ""
        real(f) == IF EffSec(c) = "reality" THEN Tok(c, f) ELSE ""
        plain(f) == Tok(c, f)
    IN [net |-> IF c.net = "http" THEN "tcp" ELSE c.net, sec |-> EffSec(c),
        path |-> plain("path"), host |-> HostOf(c), authority |-> plain("authority"), multi |-> plain("multi"),
        mode |-> plain("mode"), pad |-> plain("pad"), headers |-> plain("headers"), mtu |-> plain("mtu"),
        sni |-> IF EffSec(c) = "reality" THEN RealitySni(c) ELSE tls("sni"),
        fp |-> IF EffSec(c) = "reality" THEN real("fp") ELSE tls("fp"),
        alpn |-> tls("alpn"), ech |-> tls("ech"), pcs |-> tls("pcs"),
        pbk |-> IF EffSec(c) = "reality" THEN "pbk" ELSE "", sid |-> real("sid"), spx |-> real("spx"), pqv |-> real("pqv"),
        fm |-> plain("fm"), flow |-> IF EffSec(c) = c.sec THEN plain("flow") ELSE "",
        password |-> IF "specialPassword" \in c.on THEN "specialPassword" ELSE "password",
        psk |-> plain("psk"), keepalive |-> plain("keepalive")]

\* What the two files together lose today
KnownLosses(c) ==
    CASE c.proto = "vmess" -> {"fm", "ech", "pcs", "mtu", "mode", "headers", "password"}
      [] c.proto = "vless" -> {"mtu", "password"}
      [] c.proto = "trojan" -> {"mtu"} \cup (IF "specialPassword" \in c.on THEN {"password"} ELSE {})
      [] c.proto = "shadowsocks" -> DOMAIN Blank \ {"password"}
      [] c.proto = "hysteria" -> {"sec", "password", "fm"} \cup (IF c.force = "same" /\ c.ext = "none" THEN {} ELSE {"sni", "fp", "alpn", "ech", "pcs"})
      [] OTHER -> {"net", "sec", "password", "psk", "keepalive"}

\* A link read back gives every field its value of the inbound, or the
\* external proxy's where there is one, except for the fields of KnownLosses:
\* generator and parser agree on names, precedence and defaults.
RoundTrip ==
    imported # NoOutbound => \A f \in DOMAIN Blank \ KnownLosses(inb) : imported.got[f] = Needed(inb)[f]

\* sub/subService.go's isRoutableHost and PrepareForRequest, for the same request
SubscriptionAddress(p) ==
    IF p.override # "" THEN p.override
    ELSE IF p.listen \notin {"", "@socket", "0.0.0.0", "::", "127.0.0.1"} THEN p.listen
    ELSE IF p.browser = "127.0.0.1" THEN (IF p.domain # "" THEN p.domain ELSE "localhost") ELSE p.browser

\* The panel's links name the same host as the subscription's, which
\* preferPublicHost promises, unless the inbound binds :: or loopback (the
\* panel takes these for reachable) or the panel is used over loopback with no
\* domain configured.
SameHostAsSubscription ==
    link # NoLink => \/ link.params["address"] = SubscriptionAddress(place)
                     \/ place.listen \in {"::", "127.0.0.1"}
                     \/ place.browser = "127.0.0.1" /\ place.domain = ""
=============================================================================
