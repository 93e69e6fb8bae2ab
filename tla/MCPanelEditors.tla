--------------------------- MODULE MCPanelEditors ---------------------------
(***************************************************************************)
(* TLC instance of the panel's pages, editors and watchers: the drafts and *)
(* watchers of DraftsAndWatchers, the forms and pages of PagesAndDialogs   *)
(* and the tables, lists and codecs below. They share no variable at this  *)
(* level, so each behaviour runs one of them and leaves the others at      *)
(* their initial state: the reachable states are the sum, not the product. *)
(* A step of Spec is a step of DraftsSpec or stutters there, and one of    *)
(* CallsSpec or stutters there: what is proved of these two holds of Spec. *)
(***************************************************************************)
EXTENDS DraftsAndWatchers, PagesAndDialogs

CONSTANTS
    MaxOutbounds, MaxRules, MaxTplEdits, MaxAccounts,    \* of the routing tables
    BalTags, Selectors, MaxBalancers, MaxBalEdits,       \* of the balancers
    Lanes, MaxListEdits,                                 \* of the outbound tests
    MaxInboundEdits,                                     \* of the inbound form
    MaxServerSteps, MaxListSteps,                        \* of the rows of the inbounds page
    NClients, PageRows, MaxListActs, MaxPushes           \* of the clients page

VARIABLES
    outs, rules, routingDlg, nord, warp, why, tplEdits,
    balancers, balRules, probes, balDlg, balWhy, balEdits,
    testsList, states, queues, probing, testingAll, listEdits,
    inb, place, link, imported,
    imode, iform, informPosted, refused, carried, byHand, iedits,
    srv, presence, wire, announced, slim, rows, ownRow, counts, seen, presenceAsked, hydration, toggle, card,
    newest, instatsExcuses, lateCounts, ssteps, lsteps,
    people, usage, searchKey, debouncedSearch, currentPage, query, pages, fetching, previous, failed,
    allClientStats, pushes, notices, selectedRowKeys, cllistAsk, deletions, happened, acts, polls

Routing == INSTANCE TemplateRouting WITH dlg <- routingDlg
Balancer == INSTANCE BalancerEditor
Tests == INSTANCE OutboundTests WITH list <- testsList
Codec == INSTANCE LinkCodec
InForm == INSTANCE InboundForm WITH posted <- informPosted
InStats == INSTANCE InboundStats WITH excuses <- instatsExcuses
ClList == INSTANCE ClientList WITH ask <- cllistAsk

routingVars == <<outs, rules, routingDlg, nord, warp, why, tplEdits>>
balancerVars == <<balancers, balRules, probes, balDlg, balWhy, balEdits>>
testsVars == <<testsList, states, queues, probing, testingAll, listEdits>>
codecVars == <<inb, place, link, imported>>
informVars == <<imode, iform, informPosted, refused, carried, byHand, iedits>>
instatsVars == <<srv, presence, wire, announced, slim, rows, ownRow, counts, seen, presenceAsked, hydration, toggle, card,
                 newest, instatsExcuses, lateCounts, ssteps, lsteps>>
cllistVars == <<people, usage, searchKey, debouncedSearch, currentPage, query, pages, fetching, previous, failed,
                allClientStats, pushes, notices, selectedRowKeys, cllistAsk, deletions, happened, acts, polls>>
tablesVars == <<routingVars, balancerVars, testsVars, codecVars, informVars, instatsVars, cllistVars>>
vars == <<draftsVars, callsVars, tablesVars>>

Init ==
    /\ part \in Parts
    /\ IF part = "nodes" THEN TRUE ELSE ncalls = {}
    /\ IF part = "groups" THEN TRUE ELSE stack = <<>>
    /\ IF part = "xray" THEN TRUE ELSE xrayStored = (CHOOSE t \in Templates : TRUE)
    /\ IF part = "codec" THEN TRUE ELSE inb = Codec!Plain /\ place = Codec!Here
    /\ IF part = "outform" THEN TRUE ELSE outformOriginal = OutForm!NoOutbound
    /\ IF part = "inform" THEN TRUE ELSE imode = "add"
    /\ Routing!Init
    /\ Balancer!Init
    /\ Tests!Init
    /\ InStats!Init
    /\ ClList!Init
    /\ DraftsInit
    /\ CallsInit
    /\ InForm!Init
    /\ Codec!Init

RoutingNext ==
    /\ part = "routing" /\ Routing!Next
    /\ UNCHANGED <<draftsVars, callsVars, balancerVars, testsVars, codecVars, informVars, instatsVars, cllistVars>>
BalancerNext ==
    /\ part = "balancer" /\ Balancer!Next
    /\ UNCHANGED <<draftsVars, callsVars, routingVars, testsVars, codecVars, informVars, instatsVars, cllistVars>>
TestsNext ==
    /\ part = "tests" /\ Tests!Next
    /\ UNCHANGED <<draftsVars, callsVars, routingVars, balancerVars, codecVars, informVars, instatsVars,
                    cllistVars>>
CodecNext ==
    /\ part = "codec" /\ Codec!Next
    /\ UNCHANGED <<draftsVars, callsVars, routingVars, balancerVars, testsVars, informVars, instatsVars,
                    cllistVars>>
InformNext ==
    /\ part = "inform" /\ InForm!Next
    /\ UNCHANGED <<draftsVars, callsVars, routingVars, balancerVars, testsVars, codecVars, instatsVars,
                    cllistVars>>
InstatsNext ==
    /\ part = "instats" /\ InStats!Next
    /\ UNCHANGED <<draftsVars, callsVars, routingVars, balancerVars, testsVars, codecVars, informVars, cllistVars>>
CllistNext ==
    /\ part = "cllist" /\ ClList!Next
    /\ UNCHANGED <<draftsVars, callsVars, routingVars, balancerVars, testsVars, codecVars, informVars,
                    instatsVars>>

Next ==
    \/ DraftsNext /\ UNCHANGED <<callsVars, tablesVars>>
    \/ CallsNext /\ UNCHANGED <<draftsVars, tablesVars>>
    \/ RoutingNext
    \/ BalancerNext
    \/ TestsNext
    \/ CodecNext
    \/ InformNext
    \/ InstatsNext
    \/ CllistNext

\* The state that tells two states of this instance apart: the other components
\* stay as they were first, so TLC compares the one that moves (VIEW).
Moving ==
    <<part, CASE part = "settings" -> settingsVars [] part = "xray" -> xrayVars
              [] part = "routing" -> routingVars [] part = "balancer" -> balancerVars
              [] part = "dns" -> dnsVars [] part = "tests" -> testsVars
              [] part = "codec" -> codecVars [] part = "outform" -> outformVars
              [] part = "inform" -> informVars [] part = "indialog" -> indialogVars
              [] part = "instats" -> instatsVars [] part = "inpage" -> inpageVars
              [] part = "cledit" -> cleditVars [] part = "cllist" -> cllistVars
              [] part = "nodes" -> nodesVars [] part = "groups" -> groupsVars
              [] part = "logs" -> logsVars [] part \in {"notices", "sensors"} -> noticesVars>>

Spec == Init /\ [][Next]_vars

-----------------------------------------------------------------------------
\* Each component's variables keep their types.
TypeOK ==
    /\ part = "settings" => Settings!TypeOK
    /\ part = "xray" => Xray!TypeOK
    /\ part = "routing" => Routing!TypeOK
    /\ part = "balancer" => Balancer!TypeOK
    /\ part = "dns" => Dns!TypeOK
    /\ part = "tests" => Tests!TypeOK
    /\ part = "codec" => Codec!TypeOK
    /\ part = "outform" => OutForm!TypeOK
    /\ part = "inform" => InForm!TypeOK
    /\ part = "indialog" => InDialog!TypeOK
    /\ part = "instats" => InStats!TypeOK
    /\ part = "inpage" => InPage!TypeOK
    /\ part = "cledit" => ClEdit!TypeOK
    /\ part = "cllist" => ClList!TypeOK
    /\ part = "nodes" => NodesP!TypeOK
    /\ part = "groups" => GroupsP!TypeOK
    /\ part = "logs" => Logs!TypeOK
    /\ part \in {"notices", "sensors"} => Notices!TypeOK

\* What one row of a page names in another is there: rules name existing
\* outbounds and balancers, lists have no holes, each balancer is watched
\* by the observatory its strategy needs, tags stay unique and the
\* generated inbound tag follows the address, the parent's address reaches
\* the links of a fallback inbound, and no two groups differ in case only
\* or are merged by a rename. Each departure has a named cause.
ReferencesResolve ==
    /\ part = "routing" => Routing!DanglingHasCause /\ Routing!NoHoleUnlessShifted
    /\ part = "balancer" => Balancer!ObservatoriesCover /\ Balancer!BalancerRulesResolve
    /\ part = "outform" => OutForm!TagsStayUnique
    /\ part = "indialog" => InDialog!TagFollows
    /\ part = "inpage" => InPage!LinkReachable
    /\ part = "groups" => GroupsP!TwinsHaveCause /\ GroupsP!MergeHasCause

\* What a list shows is what the server holds, once the answers and
\* messages under way are in: the inbounds page's rows, counters, presence
\* and cards, the clients page's rows, counters, pages and summaries, the
\* nodes page's rows, the groups page's rows, the NordVPN servers of the
\* country on screen, and the test verdicts of the outbound they were
\* measured for, with no more probes than lanes. Each departure has a named
\* cause.
ScreenFollowsServer ==
    /\ part = "instats" =>
        /\ InStats!RowsFollowServer
        /\ InStats!CountsFollowRows
        /\ InStats!OnlineWhereUsed
        /\ InStats!CardShowsRow
    /\ part = "cllist" =>
        /\ ClList!ShowsWhatWasAsked
        /\ ClList!CountersFollow
        /\ ClList!PastEndHasCause
        /\ ClList!SummaryOfLiving
        /\ ClList!Lockstep
    /\ part = "nodes" => NodesP!NodeRowsFollow
    /\ part = "groups" => GroupsP!GroupsFollow
    /\ part = "routing" => Routing!ServersMatchCountry
    /\ part = "tests" => Tests!LanesBounded /\ Tests!VerdictIsOfRow /\ Tests!BusyHasProbe

\* The outbound and inbound forms save what they show: every value that
\* reaches the wire is on screen and back, saving twice changes nothing, a
\* refused field can be seen, and the security and the transport fit the
\* protocol, but for the values the code is known to leave behind.
SavedAsShown ==
    /\ part = "outform" =>
        /\ OutForm!ScreenMatchesWire
        /\ OutForm!WireStable
        /\ OutForm!HysteriaRidesTls
    /\ part = "inform" =>
        /\ InForm!ScreenMatchesPost
        /\ InForm!PostStable
        /\ InForm!RefusalIsVisible
        /\ InForm!SecurityFits
        /\ InForm!HysteriaRidesQuic

\* Importing the share link of an inbound restores every field the outbound
\* needs, and the link names the host the subscription names, but for the
\* named losses.
LinkRoundTrip ==
    /\ part = "codec" => Codec!RoundTrip /\ Codec!SameHostAsSubscription

\* A step changes only the row its dialog was opened on: routing edits and
\* deletions take that row, the WARP outbound goes only with its account, a
\* basic list's setter leaves the other lists alone, a DNS server confirmed
\* unchanged keeps what it does, an access-critical setting changes only
\* through its confirmation, and edits, prompts and choices of the inbounds
\* page are dropped only for a named cause.
RightRow ==
    /\ Routing!RightRow
    /\ Routing!DeletionIsOfDeleted
    /\ Routing!SetterIsLens
    /\ Dns!ServerRoundTrip
    /\ Settings!AccessChangeHasCause
    /\ InPage!EditsKept
    /\ InPage!PromptKept
    /\ InPage!ChoiceKept
=============================================================================
