----------------------------- MODULE InboundForm -----------------------------
(***************************************************************************)
(* What the inbound dialog (pages/inbounds/form/InboundFormModal.tsx) puts *)
(* on screen, what it accepts and what it posts.  A form is [protocol,     *)
(* network, security, on, bad]: on is the set of fields that hold a value  *)
(* other than their default, bad the fields whose value the form's schema  *)
(* refuses.  The posted inbound is a form as well.                         *)
(***************************************************************************)
EXTENDS Integers, FiniteSets

CONSTANTS
    MaxInboundEdits    \* bound on the changes made in the dialog

VARIABLES
    imode,       \* "add" or "edit"
    iform,       \* what the form holds
    posted,      \* the inbound the submit of this form posted, NoInbound before
    refused,     \* the fields the submit of this form was refused for
    carried,     \* the protocol or the transport changed under the security
    byHand,      \* the protocol or the stream was typed in the JSON of the advanced tab
    iedits

inboundFormVars == <<imode, iform, posted, refused, carried, byHand, iedits>>

Inbound(p, net, sec, on) == [protocol |-> p, network |-> net, security |-> sec, on |-> on, bad |-> {}]
NoInbound == Inbound("none", "", "none", {})

-----------------------------------------------------------------------------
(* Protocols and what they can carry *)

NODE_ELIGIBLE_PROTOCOLS == {"vless", "vmess", "trojan", "shadowsocks", "hysteria", "wireguard"}
Protocols == NODE_ELIGIBLE_PROTOCOLS \cup {"http", "mixed", "tunnel", "tun"}
STREAM_PROTOCOLS == {"vmess", "vless", "trojan", "shadowsocks", "hysteria"}
NETWORKS == {"tcp", "kcp", "ws", "grpc", "httpupgrade", "xhttp"}

canEnableStream(f) == f.protocol \in STREAM_PROTOCOLS
canEnableTls(f) == f.protocol = "hysteria" \/ (canEnableStream(f) /\ f.network \in NETWORKS \ {"kcp"})
canEnableReality(f) == f.protocol \in {"vless", "trojan"} /\ f.network \in {"tcp", "grpc", "xhttp"}

-----------------------------------------------------------------------------
(* The parts of the dialog: the fields each one shows *)

BasicTab(f) == {"total", "expiry"} \cup (IF f.protocol \in NODE_ELIGIBLE_PROTOCOLS THEN {"nodeId"} ELSE {})

WireguardFields == {"secretKey", "wgMtu", "peers"}
TunFields == {"tunName", "gateway"}
TunnelFields == {"rewriteAddress", "rewritePort", "portMap"}
HttpFields == {"accounts", "allowTransparent"}
MixedFields(on) == {"accounts", "noauth", "udp"} \cup (IF "udp" \in on THEN {"ip"} ELSE {})
\* "legacyMethod" is a cipher without the 2022 prefix
ShadowsocksFields(on) == {"legacyMethod", "ssNetwork"} \cup (IF "legacyMethod" \in on THEN {} ELSE {"password"})
VlessFields(f) == {"encryption"} \cup (IF f.network = "tcp" /\ f.security # "none" THEN {"testseed"} ELSE {})
ProtocolTab(f) ==
    CASE f.protocol = "wireguard" -> WireguardFields
      [] f.protocol = "tun" -> TunFields
      [] f.protocol = "tunnel" -> TunnelFields
      [] f.protocol = "http" -> HttpFields
      [] f.protocol = "mixed" -> MixedFields(f.on)
      [] f.protocol = "shadowsocks" -> ShadowsocksFields(f.on)
      [] f.protocol = "vless" -> VlessFields(f)
      [] OTHER -> {}

HysteriaFields(on) ==
    {"udpIdleTimeout", "masquerade"} \cup (IF "masquerade" \in on THEN {"masqProxy"} ELSE {})
    \cup (IF {"masquerade", "masqProxy"} \subseteq on THEN {"masqUrl"} ELSE {})
RawForm(on) == {"tcpProxyProtocol", "httpHeader"} \cup (IF "httpHeader" \in on THEN {"requestPath"} ELSE {})
WsForm == {"wsPath", "wsHeaders"}
GrpcForm == {"serviceName"}
HttpUpgradeForm == {"huPath"}
KcpForm == {"kcpMtu"}
XhttpForm(on) ==
    {"xhttpPath", "packetUp", "obfs", "sessionInHeader"}
    \cup (IF "packetUp" \in on THEN {"bufferedPosts"} ELSE {}) \cup (IF "obfs" \in on THEN {"paddingKey"} ELSE {})
    \cup (IF "sessionInHeader" \in on THEN {"sessionKey"} ELSE {})
Transport(f) ==
    CASE f.network = "hysteria" -> HysteriaFields(f.on)
      [] f.network = "tcp" -> RawForm(f.on)
      [] f.network = "ws" -> WsForm
      [] f.network = "grpc" -> GrpcForm
      [] f.network = "xhttp" -> XhttpForm(f.on)
      [] f.network = "httpupgrade" -> HttpUpgradeForm
      [] f.network = "kcp" -> KcpForm
      [] OTHER -> {}
ExternalProxyForm(on) ==
    {"externalProxy"} \cup (IF "externalProxy" \in on THEN {"forceTls", "extPort"} ELSE {})
    \cup (IF {"externalProxy", "forceTls"} \subseteq on THEN {"extSni"} ELSE {})
SockoptForm(on) ==
    {"sockopt"} \cup (IF "sockopt" \in on THEN {"mark", "happyEyeballs"} ELSE {})
    \cup (IF {"sockopt", "happyEyeballs"} \subseteq on THEN {"tryDelay"} ELSE {})
FinalMaskForm(f) ==
    (IF f.network \in NETWORKS \ {"kcp"} THEN {"maskTcp"} ELSE {})
    \cup (IF f.protocol = "hysteria" \/ f.network = "kcp" THEN {"maskUdp"} ELSE {})
    \cup (IF f.protocol = "hysteria" \/ f.network = "xhttp" THEN {"quic"} ELSE {})
StreamTab(f) == {"network"} \cup Transport(f) \cup ExternalProxyForm(f.on) \cup SockoptForm(f.on) \cup FinalMaskForm(f)

\* "inlineCert" is a certificate switched from files to content
TlsForm(on) ==
    {"sni", "fingerprint", "echKeys", "inlineCert"}
    \cup (IF "inlineCert" \in on THEN {"certContent"} ELSE {"certFile", "keyFile"})
RealityForm == {"target", "shortIds", "realityKeys", "mldsa65"}
SecurityTab(f) ==
    (IF f.security = "tls" THEN TlsForm(f.on) ELSE {}) \cup (IF f.security = "reality" THEN RealityForm ELSE {})

SniffingTab(on) == {"sniffing"} \cup (IF "sniffing" \in on THEN {"destOverride", "routeOnly"} ELSE {})

Shown(f) ==
    BasicTab(f) \cup ProtocolTab(f) \cup SniffingTab(f.on)
    \cup (IF canEnableStream(f) THEN StreamTab(f) \cup SecurityTab(f) ELSE {})

-----------------------------------------------------------------------------
(* The schema of the form: the fields each branch keeps *)

VlessInboundSettings == {"clients", "encryption", "fallbacks", "testseed"}
VmessInboundSettings == {"clients"}
TrojanInboundSettings == {"clients", "fallbacks"}
ShadowsocksInboundSettings == {"clients", "legacyMethod", "ssNetwork", "password"}
HysteriaInboundSettings == {"clients"}
MixedInboundSettings == MixedFields({"udp"})
SettingsSchema(p) ==
    CASE p = "vless" -> VlessInboundSettings
      [] p = "vmess" -> VmessInboundSettings
      [] p = "trojan" -> TrojanInboundSettings
      [] p = "shadowsocks" -> ShadowsocksInboundSettings
      [] p = "hysteria" -> HysteriaInboundSettings
      [] p = "http" -> HttpFields
      [] p = "mixed" -> MixedInboundSettings
      [] p = "tunnel" -> TunnelFields
      [] p = "tun" -> TunFields
      [] p = "wireguard" -> WireguardFields
EveryTransport(f) == Transport([f EXCEPT !.on = {"masquerade", "masqProxy", "httpHeader", "packetUp", "obfs", "sessionInHeader"}])
TlsFields == {"sni", "fingerprint", "echKeys", "inlineCert", "certContent", "certFile", "keyFile"}
StreamExtrasSchema == ExternalProxyForm({"externalProxy", "forceTls"}) \cup SockoptForm({"sockopt", "happyEyeballs"}) \cup {"maskTcp", "maskUdp", "quic"}
SniffingSchema == SniffingTab({"sniffing"})
TopSchema == {"total", "expiry", "nodeId"}
StreamFields(f) == EveryTransport(f) \cup StreamExtrasSchema
    \cup (IF f.security = "tls" THEN TlsFields ELSE {}) \cup (IF f.security = "reality" THEN RealityForm ELSE {})
\* A key belongs to its block: it goes with the switch that makes the block
Blocks == [extPort |-> "externalProxy", forceTls |-> "externalProxy", extSni |-> "externalProxy",
           mark |-> "sockopt", happyEyeballs |-> "sockopt", tryDelay |-> "sockopt",
           requestPath |-> "httpHeader", masqProxy |-> "masquerade", masqUrl |-> "masquerade"]
InBlock(b) == {x \in DOMAIN Blocks : Blocks[x] = b}

\* The certificate is read as two files when both paths are there, as content otherwise
TlsCertSchema(on) == on \ (IF {"certFile", "keyFile"} \subseteq on THEN {"certContent", "inlineCert"} ELSE {"certFile", "keyFile"})
Refusals(f) ==
    (f.bad \cap (SettingsSchema(f.protocol) \cup (IF f.network = "" THEN {} ELSE StreamFields(f))))
    \cup (IF f.protocol = "wireguard" /\ "secretKey" \notin f.on THEN {"secretKey"} ELSE {})
    \cup (IF canEnableStream(f) /\ f.network \notin NETWORKS \cup {"hysteria"} THEN {"network"} ELSE {})

-----------------------------------------------------------------------------
(* The adapter *)

\* Sniffing switched off keeps nothing of its settings; switched on without a
\* list of destinations, the schema fills in its default list
normalizeSniffing(on) ==
    IF "sniffing" \notin on THEN {} ELSE on \cap SniffingSchema
formValuesToWirePayload(f) ==
    [f EXCEPT !.on = (@ \cap (SettingsSchema(f.protocol) \cup TopSchema)) \cup normalizeSniffing(@)
                     \cup (IF f.security = "tls" THEN TlsCertSchema(@ \cap StreamFields(f)) \ {"inlineCert"} ELSE @ \cap StreamFields(f)),
              !.bad = {}]

\* A stored row: a transport without its settings gets an empty block, and the
\* certificate shows its files unless it has content and no file
synthesizeTlsCertUseFile(on) ==
    (on \ {"inlineCert"}) \cup (IF "certContent" \in on /\ on \cap {"certFile", "keyFile"} = {} THEN {"inlineCert"} ELSE {})
rawInboundToFormValues(row) == [row EXCEPT !.on = synthesizeTlsCertUseFile(@)]

\* Rows the server may hold, this panel's and older ones
RawInbounds ==
    {Inbound("vless", "tcp", "reality", {"clients", "encryption", "testseed", "target", "realityKeys", "sniffing", "destOverride"}),
     Inbound("trojan", "tcp", "tls", {"clients", "fallbacks", "certFile", "keyFile", "nodeId"}),
     Inbound("shadowsocks", "kcp", "none", {"clients", "legacyMethod", "password", "kcpMtu", "maskUdp"}),
     Inbound("hysteria", "hysteria", "tls", {"clients", "certContent", "masquerade", "masqProxy", "masqUrl", "maskUdp"}),
     Inbound("tunnel", "", "none", {"rewriteAddress", "rewritePort"}),
     Inbound("wireguard", "", "none", {"secretKey", "peers", "nodeId"}),
     [Inbound("vless", "ws", "tls", {"clients", "wsPath", "externalProxy", "forceTls", "extSni"}) EXCEPT !.bad = {"clients"}]}
buildAddModeValues == Inbound("vless", "tcp", "none", {})

-----------------------------------------------------------------------------
(* The dialog *)

Init ==
    /\ \/ imode = "add" /\ iform = buildAddModeValues
       \/ imode = "edit" /\ \E row \in RawInbounds : iform = rawInboundToFormValues(row)
    /\ posted = NoInbound /\ refused = {} /\ carried = FALSE /\ byHand = FALSE /\ iedits = 0

Change(f) ==
    /\ iedits < MaxInboundEdits
    /\ iedits' = iedits + 1 /\ iform' = f
    /\ posted' = NoInbound /\ refused' = {} /\ UNCHANGED imode

\* Numbers whose cleared box reads as 0, which the schema refuses; the choice
\* "None" of the fingerprint; a test seed edited in one of its four boxes
Refusable == {"rewritePort", "wgMtu", "udpIdleTimeout", "extPort", "testseed", "fingerprint"}
\* A field of the dialog is filled in, cleared, or left with a refused value
SetField(x, how) ==
    /\ how = "bad" => x \in Refusable
    /\ how = "on" => ~(x \in iform.on /\ x \notin iform.bad)
    /\ how = "off" => x \in iform.on \cup iform.bad
    /\ Change([iform EXCEPT
           !.on = IF how = "on" THEN (@ \cup {x}) \cup (IF x = "legacyMethod" THEN {"password"} ELSE {})
                  ELSE @ \ ({x} \cup InBlock(x)),
           !.bad = IF how = "bad" THEN @ \cup {x} ELSE @ \ ({x} \cup (IF how = "off" THEN InBlock(x) ELSE {}))])
    /\ UNCHANGED <<carried, byHand>>

\* What the settings of a new protocol start with
createDefaultInboundSettings(p) ==
    CASE p = "shadowsocks" -> {"password"}
      [] p \in {"http", "mixed"} -> {"accounts"}
      [] p = "wireguard" -> {"secretKey", "peers"}
      [] OTHER -> {}
Settings == UNION {SettingsSchema(p) : p \in Protocols}
WithStream(f, net, sec, fields) ==
    [f EXCEPT !.network = net, !.security = sec, !.on = (@ \cap (Settings \cup TopSchema \cup SniffingSchema)) \cup fields,
              !.bad = @ \cap Settings]
WithSettings(f, p) ==
    LET cleared == (f.on \ Settings) \ (IF p \in NODE_ELIGIBLE_PROTOCOLS THEN {} ELSE {"nodeId"})
    IN [f EXCEPT !.protocol = p, !.on = cleared \cup createDefaultInboundSettings(p), !.bad = @ \ Settings]
onProtocolChange(p) ==
    /\ imode = "add" /\ p # iform.protocol
    /\ LET f == WithSettings(iform, p)
       IN Change(IF p = "hysteria" THEN WithStream(f, "hysteria", "tls", {"maskUdp"})
                 ELSE IF f.network = "hysteria" THEN WithStream(f, "tcp", "none", {}) ELSE f)
    /\ carried' = (carried \/ (p # "hysteria" /\ iform.security # "none"))
    /\ UNCHANGED byHand

\* A new transport keeps everything else of the stream, the security included
onNetworkChange(net) ==
    /\ canEnableStream(iform) /\ iform.protocol # "hysteria" /\ net # iform.network
    /\ LET own == EveryTransport(iform)
       IN Change([iform EXCEPT !.network = net, !.bad = @ \ own,
                               !.on = (@ \ own) \cup (IF net = "kcp" THEN {"maskUdp"} ELSE {})])
    /\ carried' = (carried \/ iform.security # "none")
    /\ UNCHANGED byHand

WithSecurity(s) ==
    Change([iform EXCEPT !.security = s, !.bad = @ \ TlsFields,
                         !.on = (@ \ (TlsFields \cup RealityForm)) \cup (IF s = "reality" THEN {"target", "shortIds"} ELSE {})])
\* Mutant: any security is taken for any transport.
onSecurityChangeUnguarded(s) ==
    /\ canEnableStream(iform) /\ s # iform.security
    /\ WithSecurity(s) /\ carried' = FALSE /\ UNCHANGED byHand
onSecurityChange(s) ==
    /\ canEnableStream(iform) /\ canEnableTls(iform)
    /\ s # iform.security
    /\ s = "none" => iform.protocol # "hysteria"
    /\ s = "reality" => canEnableReality(iform)
    /\ WithSecurity(s) /\ carried' = FALSE /\ UNCHANGED byHand

\* The JSON editors of the advanced tab write a slice as it is typed
EditSettings(on) ==
    /\ Change([iform EXCEPT !.on = (@ \ Settings) \cup (on \cap SettingsSchema(iform.protocol)), !.bad = @ \ Settings])
    /\ UNCHANGED <<carried, byHand>>
EditStream(net, sec, fields) ==
    /\ canEnableStream(iform)
    /\ Change(WithStream(iform, net, sec, fields))
    /\ carried' = TRUE /\ byHand' = TRUE
EditAll(p) ==
    /\ p # iform.protocol
    /\ Change([iform EXCEPT !.protocol = p, !.bad = @ \cup (IF "clients" \in iform.on THEN {"clients"} ELSE {})])
    /\ carried' = TRUE /\ byHand' = TRUE

submit ==
    /\ refused' = Refusals(iform)
    /\ posted' = IF Refusals(iform) = {} THEN formValuesToWirePayload(iform) ELSE NoInbound
    /\ UNCHANGED <<imode, iform, carried, byHand, iedits>>

Next ==
    \/ \E x \in Shown(iform) \ {"network"}, how \in {"on", "off", "bad"} : SetField(x, how)
    \/ \E p \in Protocols : onProtocolChange(p)
    \/ \E net \in NETWORKS : onNetworkChange(net)
    \/ \E s \in {"none", "tls", "reality"} : onSecurityChange(s)
    \/ \E on \in {{}, {"clients"}, {"clients", "fallbacks"}, {"accounts", "portMap", "peers"}} : EditSettings(on)
    \/ \E s \in {<<"kcp", "tls", {}>>, <<"ws", "none", {"wsPath", "maskUdp"}>>, <<"", "none", {}>>} : EditStream(s[1], s[2], s[3])
    \/ \E p \in {"trojan", "http"} : EditAll(p)
    \/ submit

Spec == Init /\ [][Next]_inboundFormVars

-----------------------------------------------------------------------------
(* Properties *)

TypeOK ==
    /\ imode \in {"add", "edit"} /\ iform.protocol \in Protocols /\ iform.network \in NETWORKS \cup {"", "hysteria"}
    /\ iform.security \in {"none", "tls", "reality"} /\ iedits \in 0..MaxInboundEdits

\* What is posted is what is on screen.  A field that is posted and not shown
\* is one the dialog never shows (clients, fallbacks), a value left under a
\* switch turned off since, a mask of another transport, or the stream of a
\* protocol that has none; a field that is shown and not posted is the half of
\* a file certificate, or the content of one whose paths are still filled in.
NeverShown == {"clients", "fallbacks"}
Lingering == {"password", "ip", "testseed", "masqUrl", "bufferedPosts", "paddingKey", "sessionKey", "extSni", "tryDelay", "maskTcp", "maskUdp", "quic", "certContent", "certFile", "keyFile"}
ScreenMatchesPost ==
    LET sent == formValuesToWirePayload(iform).on
        shown == iform.on \cap Shown(iform)
    IN /\ canEnableStream(iform) /\ ~byHand => sent \ Shown(iform) \subseteq NeverShown \cup Lingering
       /\ ~canEnableStream(iform) /\ ~byHand => (sent \cap TopSchema) \subseteq Shown(iform)
       /\ iform.network # "" => shown \ sent \subseteq {"inlineCert", "certContent", "certFile", "keyFile"}

\* A refused save can be put right on screen: the field it is refused for is
\* shown, unless it is a client of the inbound, a test seed left behind by a
\* change of transport or security, or a value of the stream left behind by a
\* change to a protocol that has none.
RefusalIsVisible ==
    ~byHand => refused \subseteq Shown(iform) \cup {"clients", "testseed"}
                                  \cup (IF canEnableStream(iform) THEN {} ELSE StreamFields(iform))

\* Saving an inbound and opening it again posts the same inbound.
PostStable ==
    LET wire == formValuesToWirePayload(iform)
    IN formValuesToWirePayload(rawInboundToFormValues(wire)) = wire

\* A security that the transport and the protocol cannot carry came about by
\* changing one of them after it was chosen, or by editing the JSON.
SecurityFits ==
    iform.security # "none" /\ ~carried =>
        /\ canEnableTls(iform)
        /\ iform.security = "reality" => canEnableReality(iform)

\* Hysteria rides its own transport with TLS, and no other protocol does.
HysteriaRidesQuic == ~byHand => (iform.protocol = "hysteria" <=> iform.network = "hysteria")
=============================================================================
