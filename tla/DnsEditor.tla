----------------------------- MODULE DnsEditor -----------------------------
(***************************************************************************)
(* The DNS section of the Xray template (pages/xray/dns/DnsTab.tsx): the   *)
(* servers and their dialog, the fake DNS pools, and the static hosts,     *)
(* which the page edits in a list of its own (hostsList) because rows that *)
(* are still incomplete have no place in the template.                     *)
(***************************************************************************)
EXTENDS Integers, Sequences, FiniteSets, SequencesExt

CONSTANTS Domains, MaxRows, MaxDnsEdits

VARIABLES
    dns,        \* template: [on, hosts, servers, fakedns]; hosts maps a domain to its values
    hostsList,  \* rows [domain, values]; NoDomain and {} are unfinished
    dnsDlg,     \* the server dialog: [kind, index, row]
    dnsWhy,     \* history
    dnsEdits

dnsVars == <<dns, hostsList, dnsDlg, dnsWhy, dnsEdits>>

NoDomain == "empty"
HostRows == [domain : Domains \cup {NoDomain}, values : {{}, {"ip"}}]
NoHosts == [d \in {} |-> {}]
\* A server is plain (a bare address) or an object with a port and the list of
\* expected addresses, which older templates keep under expectIPs
Servers == [kind : {"plain"}, port : {53}, ips : {{}}] \cup [kind : {"object", "legacy"}, port : {53, 5353}, ips : {{}, {"ip"}}]
ServerHole == [kind |-> "hole", port |-> 53, ips |-> {}]
Plain == [kind |-> "plain", port |-> 53, ips |-> {}]
NoServerDialog == [kind |-> "none", index |-> 0, row |-> ServerHole]
Off == [on |-> FALSE, hosts |-> NoHosts, servers |-> <<>>, fakedns |-> 0]
EmptyDns == [on |-> TRUE, hosts |-> NoHosts, servers |-> <<>>, fakedns |-> 0]

Init ==
    /\ dns = Off /\ hostsList = <<>> /\ dnsDlg = NoServerDialog /\ dnsWhy = {} /\ dnsEdits = 0

DnsEdit == dnsEdits < MaxDnsEdits /\ dnsEdits' = dnsEdits + 1
DnsTable == dnsDlg.kind = "none" /\ DnsEdit

-----------------------------------------------------------------------------
(* Hosts *)

\* The list of hosts the template holds, one row per domain
RowsOf(hosts) == LET ds == SetToSeq(DOMAIN hosts) IN [i \in DOMAIN ds |-> [domain |-> ds[i], values |-> hosts[ds[i]]]]

\* syncHosts writes the complete rows; of two rows for one domain the last one stays
Complete(rows) == {i \in DOMAIN rows : rows[i].domain # NoDomain /\ rows[i].values # {}}
HostsOf(rows) ==
    [d \in {rows[i].domain : i \in Complete(rows)} |->
        rows[CHOOSE i \in Complete(rows) : rows[i].domain = d /\ \A j \in Complete(rows) : rows[j].domain = d => j <= i].values]

SyncHosts(rows) ==
    /\ hostsList' = rows
    /\ dns' = IF dns.on THEN [dns EXCEPT !.hosts = HostsOf(rows)] ELSE dns

EditHost(i, row) ==
    /\ DnsTable /\ dns.on /\ i \in DOMAIN hostsList
    /\ SyncHosts([hostsList EXCEPT ![i] = row])
    /\ dnsWhy' = dnsWhy \ {"reseeded"}
    /\ UNCHANGED dnsDlg
AddHost ==
    /\ DnsTable /\ dns.on /\ Len(hostsList) < MaxRows
    /\ SyncHosts(Append(hostsList, [domain |-> NoDomain, values |-> {}]))
    /\ dnsWhy' = dnsWhy \ {"reseeded"}
    /\ UNCHANGED dnsDlg
DeleteHost(i) ==
    /\ DnsTable /\ dns.on /\ i \in DOMAIN hostsList
    /\ SyncHosts(RemoveAt(hostsList, i))
    /\ dnsWhy' = dnsWhy \ {"reseeded"}
    /\ UNCHANGED dnsDlg

-----------------------------------------------------------------------------
(* The switch, and leaving the tab *)

\* toggleDNS; the effect on dnsEnabled then reads the hosts again
ToggleDNS ==
    /\ DnsTable
    /\ dns' = IF dns.on THEN Off ELSE EmptyDns
    /\ hostsList' = <<>>
    /\ dnsWhy' = dnsWhy \ {"reseeded"}
    /\ UNCHANGED dnsDlg

\* The tab is left and shown again
Remount ==
    /\ DnsTable
    /\ hostsList' = IF dns.on THEN RowsOf(dns.hosts) ELSE <<>>
    /\ dnsWhy' = dnsWhy \ {"reseeded"}
    /\ UNCHANGED <<dns, dnsDlg>>

\* Another session's template replaces the draft; the hosts are read again
\* only if the switch changes with it
ReseedDns(d, s) ==
    /\ DnsEdit
    /\ dns' = [on |-> TRUE, hosts |-> [x \in {d} |-> {"ip"}], servers |-> <<s>>, fakedns |-> 0]
    /\ IF dns.on THEN hostsList' = hostsList /\ dnsWhy' = dnsWhy \cup {"reseeded", "shifted"}
                 ELSE hostsList' = RowsOf(dns'.hosts) /\ dnsWhy' = dnsWhy \cup {"shifted"}
    /\ UNCHANGED dnsDlg

-----------------------------------------------------------------------------
(* Servers *)

\* valuesFromServer then valuesToWire, with nothing changed in the form: a
\* server with nothing special is written as a bare address
FormOf(s) == [port |-> s.port, ips |-> s.ips]
WireOf(s) == [kind |-> IF s.port = 53 /\ s.ips = {} THEN "plain" ELSE "object", port |-> s.port, ips |-> s.ips]

OpenServer(i) ==
    /\ DnsTable /\ dns.on
    /\ IF i = 0 THEN dnsDlg' = [kind |-> "add", index |-> 0, row |-> Plain]
       ELSE i \in DOMAIN dns.servers /\ dnsDlg' = [kind |-> "edit", index |-> i, row |-> dns.servers[i]]
    /\ dnsWhy' = dnsWhy \ {"shifted"}
    /\ UNCHANGED <<dns, hostsList>>

\* The form's fields
EditServerForm(port) ==
    /\ dnsDlg.kind # "none" /\ DnsEdit /\ dnsDlg.row.port # port
    /\ dnsDlg' = [dnsDlg EXCEPT !.row.port = port, !.row.kind = "object"]
    /\ UNCHANGED <<dns, hostsList, dnsWhy>>

CloseServer ==
    /\ dnsDlg.kind # "none" /\ dnsDlg' = NoServerDialog
    /\ UNCHANGED <<dns, hostsList, dnsWhy, dnsEdits>>

OnServerConfirm ==
    /\ dnsDlg.kind # "none"
    /\ LET i == IF dnsDlg.kind = "add" THEN Len(dns.servers) + 1 ELSE dnsDlg.index IN
       dns' = IF ~dns.on THEN dns
              ELSE [dns EXCEPT !.servers =
                 [k \in 1 .. (IF i > Len(@) THEN i ELSE Len(@)) |->
                    IF k = i THEN WireOf(dnsDlg.row) ELSE IF k \in DOMAIN dns.servers THEN dns.servers[k] ELSE ServerHole]]
    /\ dnsDlg' = NoServerDialog
    /\ UNCHANGED <<hostsList, dnsWhy, dnsEdits>>

DeleteServer(i) ==
    /\ DnsTable /\ dns.on /\ i \in DOMAIN dns.servers
    /\ dns' = [dns EXCEPT !.servers = RemoveAt(@, i)]
    /\ UNCHANGED <<hostsList, dnsDlg, dnsWhy>>

\* runClearAllServers and onPresetInstall
ReplaceServers(servers) ==
    /\ DnsTable /\ dns.on
    /\ dns' = [dns EXCEPT !.servers = servers]
    /\ UNCHANGED <<hostsList, dnsDlg, dnsWhy>>

\* addFakedns, deleteFakedns: the pool list is null again when it is empty
SetFakedns(n) ==
    /\ DnsTable /\ dns.on /\ n \in 0 .. 1 /\ n # dns.fakedns
    /\ dns' = [dns EXCEPT !.fakedns = n]
    /\ UNCHANGED <<hostsList, dnsDlg, dnsWhy>>

Next ==
    \/ \E i \in 1 .. MaxRows : DeleteHost(i) \/ \E row \in HostRows : EditHost(i, row)
    \/ AddHost \/ ToggleDNS \/ Remount
    \/ \E d \in Domains, s \in Servers : ReseedDns(d, s)
    \/ \E i \in 0 .. MaxRows : OpenServer(i) \/ DeleteServer(i)
    \/ \E port \in {53, 5353} : EditServerForm(port)
    \/ CloseServer \/ OnServerConfirm \/ ReplaceServers(<<>>) \/ ReplaceServers(<<Plain, Plain>>)
    \/ SetFakedns(1) \/ SetFakedns(0)

Spec == Init /\ [][Next]_dnsVars

-----------------------------------------------------------------------------
TypeOK ==
    /\ \A i \in DOMAIN hostsList : hostsList[i] \in HostRows
    /\ \A i \in DOMAIN dns.servers : dns.servers[i] \in Servers \cup {ServerHole}
    /\ dnsDlg.kind \in {"none", "add", "edit"} /\ dnsEdits \in 0 .. MaxDnsEdits

\* The template holds exactly the complete host rows shown, unless another
\* session's template arrived while the tab was open and DNS stayed enabled;
\* the next host edit then overwrites that session's hosts.
HostsMirrored == "reseeded" \notin dnsWhy => dns.hosts = HostsOf(hostsList)

\* Opening a server and confirming it unchanged keeps what it does, whatever
\* form it was written in (plain address, object, expectIPs).
ServerRoundTrip ==
    [][\A k \in DOMAIN dns.servers :
          (/\ dnsDlg.kind = "edit" /\ dnsDlg.index = k /\ dnsDlg.row = dns.servers[k]
           /\ dnsDlg'.kind = "none" /\ dns' # dns)
             => FormOf(dns'.servers[k]) = FormOf(dns.servers[k])]_dnsVars
=============================================================================
