---------------------------- MODULE OutboundForm ----------------------------
(***************************************************************************)
(* The outbound dialog (pages/xray/outbounds/OutboundFormModal.tsx) and    *)
(* the adapter between its form and the object the core reads              *)
(* (lib/xray/outbound-form-adapter.ts).  A form and an object are          *)
(* [protocol, tag, network, security, on]: on is the set of fields that    *)
(* hold a value other than their default, and network "" is an object with *)
(* no streamSettings.                                                      *)
(***************************************************************************)
EXTENDS Integers, FiniteSets

CONSTANTS
    MaxFormEdits    \* bound on the changes made in the dialog

VARIABLES
    original,     \* the outbound the dialog was opened on, NoOutbound to add one
    oform,        \* what the form holds
    otab,         \* "basic" or "json"
    ojson,        \* the text of the JSON tab: an object, BadText or BlankText
    ojsonDirty,
    saved,        \* the object handed to onConfirm, NoOutbound before
    savedFrom,    \* the tab it was confirmed on
    oedits

formVars == <<original, oform, otab, ojson, ojsonDirty, saved, savedFrom, oedits>>

Outbound(p, tag, net, sec, on) == [protocol |-> p, tag |-> tag, network |-> net, security |-> sec, on |-> on]
NoOutbound == Outbound("none", "", "", "none", {})
BadText == Outbound("bad", "", "", "none", {})
BlankText == Outbound("blank", "", "", "none", {})

ExistingTags == {"t1", "t2"}

-----------------------------------------------------------------------------
(* Capabilities *)

STREAM_PROTOCOLS == {"vmess", "vless", "trojan", "shadowsocks", "hysteria"}
MUX_PROTOCOLS == {"vmess", "vless", "trojan", "shadowsocks", "http", "socks"}
SERVER_PROTOCOLS == STREAM_PROTOCOLS \cup {"socks", "http"}
Protocols == SERVER_PROTOCOLS \cup {"wireguard", "freedom", "blackhole", "dns", "loopback"}
NETWORKS == {"tcp", "kcp", "ws", "grpc", "httpupgrade", "xhttp"}
TCP_NETWORKS == NETWORKS \ {"kcp"}

canEnableTls(p, net) == p = "hysteria" \/ (p \in STREAM_PROTOCOLS /\ net \in TCP_NETWORKS)
canEnableReality(p, net) == p \in {"vless", "trojan"} /\ net \in {"tcp", "grpc", "xhttp"}
canEnableTlsFlow(f) == f.protocol = "vless" /\ f.network = "tcp" /\ f.security \in {"tls", "reality"}

-----------------------------------------------------------------------------
(* Fields *)

\* Fields of the protocol's settings
SettingsFields(p) ==
    CASE p = "vless" -> {"id", "reverseTag", "sniffing", "sniffDest", "flow", "testseed"}
      [] p = "vmess" -> {"id", "cipher"}
      [] p = "trojan" -> {"password"}
      [] p = "shadowsocks" -> {"password", "method"}
      [] p \in {"socks", "http"} -> {"user", "pass"}
      [] p = "wireguard" -> {"secretKey", "pubKey", "peer"}
      [] p = "freedom" -> {"fragment", "packets", "noises", "finalRule", "block", "blockDelay"}
      [] p = "blackhole" -> {"response"}
      [] p = "dns" -> {"rewrite", "dnsRule"}
      [] p = "loopback" -> {"inboundTag"}
      [] OTHER -> {}

\* Fields of the transport's settings
TransportFields(net) ==
    CASE net = "tcp" -> {"httpHeader"}
      [] net = "kcp" -> {"kcpMtu"}
      [] net = "ws" -> {"path", "heartbeat"}
      [] net = "grpc" -> {"serviceName"}
      [] net = "httpupgrade" -> {"path"}
      [] net = "xhttp" -> {"path", "obfs", "padKey", "packetUp", "postSize", "enableXmux", "xmux"}
      [] net = "hysteria" -> {"auth", "masquerade", "masqProxy", "masqUrl"}
      [] OTHER -> {}
SecurityFields == {"sni", "realityKey"}
SockoptFields == {"sockopt", "dialerProxy", "happyEyeballs", "tryDelay"}
MaskFields == {"maskTcp", "maskUdp", "strayMtu", "quic", "udpHop"}
StreamFields == (UNION {TransportFields(n) : n \in NETWORKS \cup {"hysteria"}}) \cup SecurityFields \cup SockoptFields \cup MaskFields
TopFields == {"sendThrough", "mux"}

\* The field a field belongs to: a field is on the form while the switch or
\* the choice above it is on
Above ==
    [sniffing |-> "reverseTag", sniffDest |-> "sniffing", testseed |-> "flow", packets |-> "fragment",
     block |-> "finalRule", blockDelay |-> "block", padKey |-> "obfs", postSize |-> "packetUp",
     xmux |-> "enableXmux", masqProxy |-> "masquerade", masqUrl |-> "masqProxy", dialerProxy |-> "sockopt",
     happyEyeballs |-> "sockopt", tryDelay |-> "happyEyeballs", udpHop |-> "quic"]
Under(x) == {f \in DOMAIN Above : Above[f] = x \/ (Above[f] \in DOMAIN Above /\ Above[Above[f]] = x)}
Open(on, fields) == {f \in fields : f \in DOMAIN Above =>
                        Above[f] \in on /\ (Above[f] \in DOMAIN Above => Above[Above[f]] \in on)}

isMuxAllowed(f) == f.protocol \in MUX_PROTOCOLS /\ ~(f.protocol = "vless" /\ "flow" \in f.on) /\ f.network # "xhttp"

\* The protocol's own part of the basic tab
ProtocolPart(f) == SettingsFields(f.protocol) \ (IF canEnableTlsFlow(f) THEN {} ELSE {"flow", "testseed"})
\* FinalMaskForm
MaskPart(f) ==
    (IF f.network \in TCP_NETWORKS THEN {"maskTcp"} ELSE {})
    \cup (IF f.protocol = "hysteria" \/ f.network = "kcp" THEN {"maskUdp"} ELSE {})
    \cup (IF f.protocol = "hysteria" \/ f.network = "xhttp" THEN {"quic", "udpHop"} ELSE {})
TransportPart(f) == IF f.protocol \in STREAM_PROTOCOLS THEN TransportFields(f.network) ELSE {}
SecurityPart(f) ==
    (IF f.security = "tls" /\ canEnableTls(f.protocol, f.network) THEN {"sni"} ELSE {})
    \cup (IF f.security = "reality" /\ canEnableReality(f.protocol, f.network) THEN {"realityKey"} ELSE {})
\* What the basic tab shows
Shown(f) ==
    Open(f.on, {"sendThrough"} \cup ProtocolPart(f) \cup TransportPart(f) \cup SecurityPart(f) \cup MaskPart(f)
               \cup (IF f.protocol \in STREAM_PROTOCOLS => f.network # "" THEN SockoptFields ELSE {})
               \cup (IF isMuxAllowed(f) THEN {"mux"} ELSE {}))

-----------------------------------------------------------------------------
(* The adapter *)

\* What has no field in the form falls away; sniffing belongs to a reverse tag,
\* the public key is derived, the legacy ipsBlocked becomes a final rule
vlessFromWire(on) == on \ (IF "reverseTag" \in on THEN {} ELSE {"sniffing", "sniffDest"})
wireguardFromWire(on) == on \cup (IF "secretKey" \in on THEN {"pubKey"} ELSE {})
freedomFromWire(on, legacy) == on \cup (IF legacy /\ "finalRule" \notin on THEN {"finalRule", "block"} ELSE {})
settingsFromWire(p, on) ==
    LET own == on \cap SettingsFields(p)
    IN CASE p = "vless" -> vlessFromWire(own)
         [] p = "wireguard" -> wireguardFromWire(own)
         [] p = "freedom" -> freedomFromWire(own, "ipsBlocked" \in on)
         [] OTHER -> own
hydrateStreamForm(on) == on \cup (IF "xmux" \in on THEN {"enableXmux"} ELSE {})
rawOutboundToFormValues(raw) ==
    LET p == IF raw.protocol \in Protocols THEN raw.protocol ELSE "vless"
    IN [raw EXCEPT !.protocol = p,
                   !.on = settingsFromWire(p, @) \cup (@ \cap TopFields) \cup (hydrateStreamForm(@) \cap StreamFields)]

\* What each protocol's toWire leaves out
Unwritten(f) ==
    CASE f.protocol = "vless" ->
            (IF "reverseTag" \in f.on THEN {} ELSE {"sniffing", "sniffDest"}) \cup (IF "flow" \in f.on THEN {} ELSE {"testseed"})
      [] f.protocol \in {"socks", "http"} -> IF "user" \in f.on THEN {} ELSE {"pass"}
      [] f.protocol = "wireguard" -> {"pubKey"}
      [] f.protocol = "freedom" ->
            (IF "fragment" \in f.on THEN {} ELSE {"packets"})
            \cup (IF "finalRule" \in f.on THEN {} ELSE {"block", "blockDelay"}) \cup (IF "block" \in f.on THEN {} ELSE {"blockDelay"})
      [] OTHER -> {}
stripUiOnlyStreamFields(on) == (on \cap StreamFields) \ ({"enableXmux"} \cup IF "enableXmux" \in on THEN {} ELSE {"xmux"})
muxAllowed(f) == f.protocol \in MUX_PROTOCOLS /\ ~(f.protocol = "vless" /\ "flow" \in f.on) /\ f.network # "xhttp"
formValuesToWirePayload(f) ==
    LET stream == f.protocol \in STREAM_PROTOCOLS
    IN [f EXCEPT !.network = IF stream THEN @ ELSE "", !.security = IF stream THEN @ ELSE "none",
                 !.on = ((@ \cap SettingsFields(f.protocol)) \ Unwritten(f))
                        \cup (IF stream THEN stripUiOnlyStreamFields(@) ELSE @ \cap SockoptFields)
                        \cup (@ \cap {"sendThrough"}) \cup (IF muxAllowed(f) THEN @ \cap {"mux"} ELSE {})]

-----------------------------------------------------------------------------
(* The dialog's effects, which run after every change *)

WithStream(f, net, sec, fields) == [f EXCEPT !.network = net, !.security = sec, !.on = (@ \ StreamFields) \cup fields]
hysteriaStreamSlice(f, kept) == WithStream(f, "hysteria", "tls", kept)

\* The two effects on the stream: a stream-capable protocol gets a default
\* transport, and Hysteria its own transport with TLS
Settle(f) ==
    IF f.protocol = "hysteria"
    THEN IF f.network = "hysteria" /\ f.security = "tls" THEN f
         ELSE hysteriaStreamSlice(f, f.on \cap (TransportFields("hysteria") \cup {"sni"}))
    ELSE IF f.protocol \in STREAM_PROTOCOLS /\ f.network = "" THEN WithStream(f, "tcp", "none", {})
    ELSE f

\* Outbounds met in a template or pasted as text: written by this panel, by
\* other tools, or by hand
RawOutbounds ==
    {Outbound("vless", "t1", "tcp", "reality", {"id", "flow", "testseed", "realityKey", "sockopt", "mux"}),
     Outbound("vless", "t2", "xhttp", "tls", {"id", "sni", "xmux", "obfs", "padKey", "reverseTag", "sniffing"}),
     Outbound("vmess", "t1", "kcp", "none", {"id", "maskUdp", "mux"}),
     Outbound("hysteria", "t3", "tcp", "none", {"auth", "sni"}),
     Outbound("freedom", "t1", "", "none", {"ipsBlocked", "packets", "sockopt", "dialerProxy"}),
     Outbound("socks", "", "", "none", {"user", "pass", "server2"}),
     Outbound("wireguard", "t2", "", "none", {"secretKey", "peer", "proxySettings"}),
     Outbound("tor", "t1", "", "none", {"id"})}

\* What a share link reads as; it brings its own name, or none
LinkOutbounds == {o \in RawOutbounds : o.protocol \in {"vless", "vmess", "hysteria", "wireguard"}}

-----------------------------------------------------------------------------
(* The dialog *)

Opened == saved = NoOutbound

Init ==
    /\ original \in {NoOutbound} \cup RawOutbounds
    /\ LET initial == rawOutboundToFormValues(IF original = NoOutbound THEN Outbound("vless", "", "", "none", {}) ELSE original)
       IN oform = Settle(initial) /\ ojson = formValuesToWirePayload(initial)
    /\ otab = "basic" /\ ojsonDirty = FALSE
    /\ saved = NoOutbound /\ savedFrom = "none" /\ oedits = 0

Change(f) ==
    /\ Opened /\ otab = "basic" /\ oedits < MaxFormEdits
    /\ oedits' = oedits + 1
    /\ oform' = Settle(f)
    /\ UNCHANGED <<original, otab, ojson, ojsonDirty, saved, savedFrom>>

SetTag(t) == t # oform.tag /\ Change([oform EXCEPT !.tag = t])

\* A field on screen is filled in, or cleared; clearing the HTTP header, the noises, a
\* mask, the socket options or the QUIC parameters takes what is under it along
Drops == {"httpHeader", "finalRule", "fragment", "sockopt", "happyEyeballs", "quic", "masquerade"}
SetField(x) ==
    LET on == oform.on
        next == IF x \notin on THEN on \cup {x} ELSE on \ ({x} \cup IF x \in Drops THEN Under(x) ELSE {})
    IN Change([oform EXCEPT !.on =
              IF x = "secretKey" THEN (next \ {"pubKey"}) \cup (IF x \in next THEN {"pubKey"} ELSE {})
              ELSE IF x = "maskUdp" /\ oform.network = "kcp" /\ x \in next THEN next \cup {"strayMtu"}
              ELSE next])

onProtocolChange(p) ==
    /\ p # oform.protocol
    /\ LET f == [oform EXCEPT !.protocol = p, !.on = @ \ SettingsFields(oform.protocol)]
       IN Change(IF p = "hysteria" THEN hysteriaStreamSlice(f, {})
                 ELSE IF oform.network = "hysteria" THEN WithStream(f, "tcp", "none", {}) ELSE f)

onSecurityChange(s) ==
    /\ oform.protocol \in STREAM_PROTOCOLS /\ oform.network # ""
    /\ s # oform.security
    /\ s = "none" => oform.network # "hysteria"
    /\ s = "tls" => canEnableTls(oform.protocol, oform.network)
    /\ s = "reality" => canEnableReality(oform.protocol, oform.network)
    /\ Change([oform EXCEPT !.security = s, !.on = @ \ SecurityFields])

\* applyNetworkChange: a new transport, with the security that it still allows
applyNetworkChange(f, net) ==
    LET kept == \/ f.security = "tls" /\ canEnableTls(f.protocol, net)
                \/ f.security = "reality" /\ canEnableReality(f.protocol, net)
    IN WithStream(f, net, IF kept THEN f.security ELSE "none", IF kept THEN f.on \cap SecurityFields ELSE {})
onNetworkChange(net) ==
    /\ oform.protocol \in STREAM_PROTOCOLS \ {"hysteria"} /\ net # oform.network
    /\ Change(applyNetworkChange(oform, net))

\* The JSON tab is written from the form when it is opened, and read back when
\* it is left
onTabChange(tab) ==
    /\ Opened /\ tab # otab
    /\ IF tab = "json" THEN ojson' = formValuesToWirePayload(oform) /\ ojsonDirty' = FALSE /\ otab' = tab /\ UNCHANGED oform
       ELSE IF ~ojsonDirty \/ ojson = BlankText THEN otab' = tab /\ UNCHANGED <<oform, ojson, ojsonDirty>>
       ELSE IF ojson = BadText THEN UNCHANGED <<oform, otab, ojson, ojsonDirty>>
       ELSE oform' = Settle(rawOutboundToFormValues(ojson)) /\ ojsonDirty' = FALSE /\ otab' = tab /\ UNCHANGED ojson
    /\ UNCHANGED <<original, saved, savedFrom, oedits>>

EditJson(text) ==
    /\ Opened /\ otab = "json" /\ oedits < MaxFormEdits /\ text # ojson
    /\ ojson' = text /\ ojsonDirty' = TRUE /\ oedits' = oedits + 1
    /\ UNCHANGED <<original, oform, otab, saved, savedFrom>>

\* A share link replaces the form; a link without a name keeps the tag
importLink(raw) ==
    /\ Opened /\ otab = "json" /\ oedits < MaxFormEdits
    /\ LET next == rawOutboundToFormValues([raw EXCEPT !.tag = IF @ = "" THEN oform.tag ELSE @])
       IN oform' = Settle(next) /\ ojson' = formValuesToWirePayload(next)
    /\ ojsonDirty' = FALSE /\ otab' = "basic" /\ oedits' = oedits + 1
    /\ UNCHANGED <<original, saved, savedFrom>>

isDuplicateTag(t) == t \in ExistingTags /\ t # original.tag
\* From the JSON tab the text goes straight to the wire; a refusal leaves the
\* form reset from it and the text as typed
onOk ==
    /\ Opened
    /\ otab = "json" => ojson \notin {BadText, BlankText}
    /\ LET values == IF otab = "json" THEN rawOutboundToFormValues(ojson) ELSE oform
       IN /\ oform' = Settle(values)
          /\ IF values.tag = "" \/ isDuplicateTag(values.tag) THEN UNCHANGED <<saved, savedFrom>>
             ELSE saved' = formValuesToWirePayload(values) /\ savedFrom' = otab
    /\ ojsonDirty' = (ojsonDirty /\ otab # "json")
    /\ UNCHANGED <<original, otab, ojson, oedits>>

Next ==
    \/ \E t \in {"", "t1", "t2", "t3"} : SetTag(t)
    \/ \E x \in Shown(oform) \ {"pubKey"} : SetField(x)
    \/ \E p \in Protocols : onProtocolChange(p)
    \/ \E s \in {"none", "tls", "reality"} : onSecurityChange(s)
    \/ \E net \in NETWORKS : onNetworkChange(net)
    \/ \E tab \in {"basic", "json"} : onTabChange(tab)
    \/ \E text \in RawOutbounds \cup {BadText, BlankText} : EditJson(text)
    \/ \E raw \in LinkOutbounds, t \in {"", "t3"} : importLink([raw EXCEPT !.tag = t])
    \/ onOk

Spec == Init /\ [][Next]_formVars

-----------------------------------------------------------------------------
(* Properties *)

TypeOK ==
    /\ oform.protocol \in Protocols /\ oform.network \in NETWORKS \cup {"", "hysteria"}
    /\ oform.on \subseteq (UNION {SettingsFields(p) : p \in Protocols}) \cup StreamFields \cup TopFields
    /\ otab \in {"basic", "json"} /\ oedits \in 0..MaxFormEdits

\* Saved and on screen are the same thing: a field of the saved object is one
\* the basic tab shows, unless it is left over under a switch turned off since
\* (Lingering) or from a protocol or security that allowed it; and a field on
\* screen is saved, unless it needs another one or belongs to a stream that
\* the protocol does not have.
Lingering == {"sniffDest", "padKey", "postSize", "masqProxy", "masqUrl", "flow", "testseed", "realityKey", "strayMtu"}
ScreenMatchesWire ==
    LET sent == formValuesToWirePayload(oform).on
        shown == oform.on \cap Shown(oform)
    IN /\ sent \ Shown(oform) \subseteq Lingering
       /\ shown \ sent \subseteq {"pubKey", "pass", "enableXmux"} \cup (IF oform.protocol \in STREAM_PROTOCOLS THEN {} ELSE MaskFields)

\* The form and the object are each other's image: an object read back gives
\* the same object, however it came about.
WireStable ==
    LET wire == formValuesToWirePayload(oform)
    IN formValuesToWirePayload(rawOutboundToFormValues(wire)) = wire

\* A Hysteria outbound confirmed on the form rides its own transport with TLS.
HysteriaRidesTls ==
    saved.protocol = "hysteria" /\ savedFrom = "basic" => saved.network = "hysteria" /\ saved.security = "tls"

\* No outbound is saved under another outbound's tag, or without one.
TagsStayUnique == saved # NoOutbound => saved.tag # "" /\ (saved.tag \in ExistingTags => saved.tag = original.tag)

\* A JSON tab that was not edited shows the form.
JsonIsForm ==
    otab = "json" /\ ~ojsonDirty =>
        formValuesToWirePayload(oform) = formValuesToWirePayload(Settle(rawOutboundToFormValues(ojson)))
=============================================================================
