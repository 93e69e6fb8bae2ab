----------------------------- MODULE ClientList -----------------------------
(***************************************************************************)
(* The list of clients (hooks/useClients.ts, pages/clients/ClientsPage.tsx)*)
(* which the panel filters, sorts and cuts into pages: the search box and  *)
(* its pause, the page shown, one cache entry per query, the counters      *)
(* pushed into the entry on the screen, the summary recomputed from the    *)
(* same push, the selection, and deletion of one client or of many.        *)
(*                                                                         *)
(* Clients are numbered in list order; the search "few" finds all but the  *)
(* last.  A client's usage is 0 until it moves traffic.                    *)
(***************************************************************************)
EXTENDS Integers, Sequences, FiniteSets

CONSTANTS NClients, PageRows,
          MaxListActs,     \* bound: acts of the user
          MaxPushes        \* bound: polls that move a counter, and deletions by another administrator

Clients == 1 .. NClients
Searches == {"", "few"}
NoStats == [c \in {} |-> 0]

VARIABLES
    people, usage,          \* the panel's clients and what they have used
    searchKey, debouncedSearch, currentPage, query,
    pages,                  \* the query cache: query -> rows, counters, matches, and whether to refetch
    fetching,               \* queries being fetched: unanswered, or the answer on its way
    previous,               \* the rows last shown, kept while a new query has none
    failed,                 \* queries whose last fetch failed
    allClientStats, pushes, \* the stats the summary is made from; pushes on their way
    notices,                \* invalidations of "clients" on their way
    selectedRowKeys,
    ask,                    \* the confirmation: the clients it will delete, or {}
    deletions,              \* deletions under way: the clients, whether of a selection, and the outcome
    happened, acts, polls

server == <<people, usage>>
queryVars == <<searchKey, debouncedSearch, currentPage, query>>
cache == <<pages, fetching, previous, failed>>
pushed == <<allClientStats, pushes, notices>>
chosen == <<selectedRowKeys, ask, deletions>>
listVars == <<server, queryVars, cache, pushed, chosen, happened, acts, polls>>

-----------------------------------------------------------------------------
(* ListPaged *)

matching(s) == IF s = "" THEN people ELSE people \ {NClients}
pageRows(found, page) == {c \in found : Cardinality({d \in found : d < c}) \div PageRows = page - 1}
ListPaged(q) ==
    [items |-> pageRows(matching(q.search), q.page), used |-> usage,
     filtered |-> Cardinality(matching(q.search)), stale |-> FALSE]
Unanswered == [unanswered |-> TRUE]

totalPages(filtered) == IF filtered = 0 THEN 1 ELSE (filtered + PageRows - 1) \div PageRows
NoRows == [items |-> {}, used |-> [c \in Clients |-> 0], filtered |-> 0, stale |-> FALSE]

\* listQuery.data: the entry of the query, or the rows before it
data == IF query \in DOMAIN pages THEN pages[query] ELSE previous

Put(f, k, v) == [x \in DOMAIN f \cup {k} |-> IF x = k THEN v ELSE f[x]]

first == [page |-> 1, search |-> ""]
Init ==
    /\ people = Clients /\ usage = [c \in Clients |-> 0]
    /\ searchKey = "" /\ debouncedSearch = "" /\ currentPage = 1 /\ query = first
    /\ pages = Put(NoStats, first, ListPaged(first))
    /\ fetching = NoStats /\ previous = NoRows /\ failed = {}
    /\ allClientStats = NoStats /\ pushes = <<>> /\ notices = 0
    /\ selectedRowKeys = {} /\ ask = {} /\ deletions = {}
    /\ happened = {} /\ acts = 0 /\ polls = 0

UserActs == acts < MaxListActs /\ acts' = acts + 1
PageShown == ask = {} /\ query \notin failed
\* the table lies under the spinner while its query is fetched
TableReached == PageShown /\ query \notin DOMAIN fetching

-----------------------------------------------------------------------------
(* The query *)

\* useQuery: a query with no entry, or one to refetch, is fetched unless it already is
observe(fs, q) ==
    IF q \in DOMAIN fs \/ (q \in DOMAIN pages /\ ~pages[q].stale) THEN fs ELSE Put(fs, q, Unanswered)

\* setQuery: the new query unless it equals the one there is
setQuery(q) == IF query = q THEN query ELSE q

typeSearch(s) ==
    /\ UserActs /\ PageShown /\ s # searchKey
    /\ searchKey' = s
    /\ UNCHANGED <<server, debouncedSearch, currentPage, query, cache, pushed, chosen, happened, polls>>

\* 300 ms after the last key.  The same pass of effects resets the page and sets the query from
\* the page before the reset, so the old page of the new search is fetched as well.
searchSettles ==
    /\ debouncedSearch # searchKey
    /\ debouncedSearch' = searchKey /\ currentPage' = 1
    /\ LET passing == setQuery([page |-> currentPage, search |-> searchKey])
       IN /\ query' = setQuery([page |-> 1, search |-> searchKey])
          /\ fetching' = observe(observe(fetching, passing), query')
    /\ previous' = data
    /\ UNCHANGED <<server, searchKey, pages, failed, pushed, chosen, happened, acts, polls>>

\* The pager compares with the page it shows, which it keeps within the pages there are
onPage(p) ==
    /\ UserActs /\ TableReached
    /\ LET last == totalPages(data.filtered)
           current == IF currentPage > last THEN last ELSE currentPage
       IN p \in 1 .. last /\ p # current
    /\ currentPage' = p
    /\ query' = setQuery([page |-> p, search |-> debouncedSearch])
    /\ fetching' = observe(fetching, query') /\ previous' = data
    /\ UNCHANGED <<server, searchKey, debouncedSearch, pages, failed, pushed, chosen, happened, polls>>

\* Leaving the page and coming back: the search is kept in localStorage, page and selection are not
revisit ==
    /\ UserActs /\ PageShown /\ deletions = {}
    /\ debouncedSearch' = searchKey /\ currentPage' = 1
    /\ query' = [page |-> 1, search |-> searchKey]
    /\ fetching' = observe(observe(fetching, first), query')
    /\ previous' = IF first \in DOMAIN pages THEN pages[first] ELSE NoRows
    /\ selectedRowKeys' = {} /\ allClientStats' = NoStats
    /\ UNCHANGED <<server, searchKey, pages, failed, pushes, notices, ask, deletions, happened, polls>>

-----------------------------------------------------------------------------
(* Fetches *)

fetchAnswered(q) ==
    /\ fetching[q] = Unanswered
    /\ fetching' = [fetching EXCEPT ![q] = ListPaged(q)]
    /\ UNCHANGED <<server, queryVars, pages, previous, failed, pushed, chosen, happened, acts, polls>>

forget(q) == [x \in DOMAIN fetching \ {q} |-> fetching[x]]

\* The answer is the entry from now on, whatever was pushed or invalidated since it was read
fetchArrives(q) ==
    /\ fetching[q] # Unanswered
    /\ pages' = Put(pages, q, fetching[q]) /\ fetching' = forget(q) /\ failed' = failed \ {q}
    /\ happened' = IF pushes = <<>> /\ fetching[q].used # usage THEN happened \cup {"crossed"} ELSE happened
    /\ UNCHANGED <<server, queryVars, previous, pushed, chosen, acts, polls>>

fetchFails(q) ==
    /\ acts < MaxListActs
    /\ fetching' = forget(q) /\ failed' = failed \cup {q}
    /\ acts' = acts + 1
    /\ UNCHANGED <<server, queryVars, pages, previous, pushed, chosen, happened, polls>>

\* invalidateQueries(clients): every entry is to be refetched, the one on the screen now and anew.
\* An answer on its way to an entry beside it still arrives and passes for fresh.
invalidate ==
    /\ pages' = [q \in DOMAIN pages |-> [pages[q] EXCEPT !.stale = TRUE]]
    /\ fetching' = Put(fetching, query, Unanswered)
    /\ happened' = IF \E q \in DOMAIN fetching \ {query} : fetching[q] # Unanswered
                   THEN happened \cup {"besides"} ELSE happened

\* Mutant: the stats of all clients are left alone.
invalidateAllKeepsStats == invalidate /\ UNCHANGED allClientStats

invalidateAll == invalidate /\ allClientStats' = NoStats

\* the button of the error card
refresh ==
    /\ UserActs /\ query \in failed /\ query \notin DOMAIN fetching
    /\ invalidateAll
    /\ UNCHANGED <<server, queryVars, previous, failed, pushes, notices, chosen, polls>>

-----------------------------------------------------------------------------
(* Pushes *)

\* A poll moves a counter and broadcasts the counters of every client
pollMoves(c) ==
    /\ polls < MaxPushes /\ polls' = polls + 1
    /\ c \in people /\ usage[c] = 0
    /\ usage' = [usage EXCEPT ![c] = 1]
    /\ pushes' = Append(pushes, [d \in people |-> usage'[d]])
    /\ UNCHANGED <<people, queryVars, cache, allClientStats, notices, chosen, happened, acts>>

merge(row, stats) ==
    [row EXCEPT !.used = [c \in Clients |-> IF c \in DOMAIN stats /\ c \in row.items THEN stats[c] ELSE @[c]]]

\* setQueryData on the query on the screen
intoPage(stats) ==
    IF query \in DOMAIN pages THEN [pages EXCEPT ![query] = merge(@, stats)] ELSE pages

\* Only the entry on the screen gets the counters: other pages keep theirs until refetched
applyClientStatsEvent ==
    /\ pushes # <<>>
    /\ pushes' = Tail(pushes)
    /\ allClientStats' = Head(pushes)
    /\ pages' = intoPage(Head(pushes))
    /\ happened' = IF \E q \in DOMAIN pages \ {query} : merge(pages[q], Head(pushes)) # pages[q]
                   THEN happened \cup {"aged"} ELSE happened
    /\ UNCHANGED <<server, queryVars, fetching, previous, failed, notices, chosen, acts, polls>>

\* Another administrator deletes a client; the bridge invalidates "clients" and nothing more
otherDeletes(c) ==
    /\ polls < MaxPushes /\ polls' = polls + 1
    /\ c \in people /\ people' = people \ {c}
    /\ notices' = notices + 1
    /\ happened' = happened \cup {"deleted", "elsewhere"}
    /\ UNCHANGED <<usage, queryVars, cache, allClientStats, pushes, chosen, acts>>

noticeArrives ==
    /\ notices > 0 /\ notices' = notices - 1
    /\ invalidate
    /\ UNCHANGED <<server, queryVars, previous, failed, allClientStats, pushes, chosen, acts, polls>>

-----------------------------------------------------------------------------
(* Selecting and deleting *)

toggleRow(c) ==
    /\ UserActs /\ TableReached /\ c \in data.items
    /\ selectedRowKeys' = IF c \in selectedRowKeys THEN selectedRowKeys \ {c} ELSE selectedRowKeys \cup {c}
    /\ UNCHANGED <<server, queryVars, cache, pushed, ask, deletions, happened, polls>>

\* The box in the header selects this page's rows and only those
toggleAll ==
    /\ UserActs /\ TableReached /\ data.items # {}
    /\ selectedRowKeys' = IF data.items \subseteq selectedRowKeys THEN {} ELSE data.items
    /\ UNCHANGED <<server, queryVars, cache, pushed, ask, deletions, happened, polls>>

onBulkDelete ==
    /\ UserActs /\ PageShown /\ selectedRowKeys # {}
    /\ ask' = selectedRowKeys
    /\ deletions' = deletions \cup {[who |-> selectedRowKeys, many |-> TRUE, end |-> "asked"]}
    /\ UNCHANGED <<server, queryVars, cache, pushed, selectedRowKeys, happened, polls>>

onDelete(c) ==
    /\ UserActs /\ TableReached /\ c \in data.items
    /\ ask' = {c}
    /\ deletions' = deletions \cup {[who |-> {c}, many |-> FALSE, end |-> "asked"]}
    /\ UNCHANGED <<server, queryVars, cache, pushed, selectedRowKeys, happened, polls>>

Becomes(d, end) == (deletions \ {d}) \cup {[d EXCEPT !.end = end]}

\* runConfirm: the call leaves; the dialog can still be closed
runConfirm(d) ==
    /\ d.end = "asked" /\ deletions' = Becomes(d, "posted")
    /\ UNCHANGED <<server, queryVars, cache, pushed, selectedRowKeys, ask, happened, acts, polls>>

\* "Cancel": a deletion not yet posted is dropped, one posted goes on unseen
closeConfirm ==
    /\ ask # {} /\ ask' = {}
    /\ deletions' = {d \in deletions : d.end # "asked"}
    /\ UNCHANGED <<server, queryVars, cache, pushed, selectedRowKeys, happened, acts, polls>>

panelDeletes(d) ==
    /\ d.end = "posted" /\ people' = people \ d.who /\ deletions' = Becomes(d, "done")
    /\ happened' = happened \cup {"deleted"} \cup (IF pushes # <<>> THEN {"underway"} ELSE {})
    /\ UNCHANGED <<usage, queryVars, cache, pushed, selectedRowKeys, ask, acts, polls>>

panelRefuses(d) ==
    /\ d.end = "posted" /\ deletions' = Becomes(d, "refused")
    /\ UNCHANGED <<server, queryVars, cache, pushed, selectedRowKeys, ask, happened, acts, polls>>

\* The answer: a bulk deletion empties the selection even when refused, one of a single client
\* leaves it; whatever confirmation is open closes
deletionEnds(d) ==
    /\ d.end \in {"done", "refused"}
    /\ ask' = {} /\ deletions' = {x \in deletions \ {d} : x.end # "asked"}
    /\ selectedRowKeys' = IF d.many THEN {} ELSE selectedRowKeys
    /\ IF d.end = "done" THEN invalidateAll ELSE UNCHANGED <<pages, fetching, allClientStats, happened>>
    /\ UNCHANGED <<server, queryVars, previous, failed, pushes, notices, acts, polls>>

-----------------------------------------------------------------------------
(* The summary: computed in the panel for each answer, in the browser from each push *)

StatRows == [used : {0, 3, 5}, total : {0, 5}, expiry : {0, 1, 2, 4}, enable : BOOLEAN, online : BOOLEAN]
now == 1
expireDiff == 2
trafficDiff == 3

exhausted(r) == r.total > 0 /\ r.used >= r.total
expired(r) == r.expiry > 0 /\ r.expiry <= now
nearExpiry(r) == r.expiry > 0 /\ r.expiry - now < expireDiff
nearLimit(r) == r.total > 0 /\ r.total - r.used < trafficDiff

\* buildClientsSummary: the list a client is counted in, and whether it is counted online
buildClientsSummary(r) ==
    [of |-> IF exhausted(r) \/ expired(r) THEN "depleted" ELSE IF ~r.enable THEN "deactive"
            ELSE IF nearExpiry(r) \/ nearLimit(r) THEN "expiring" ELSE "active",
     online |-> r.enable /\ r.online]

computeClientsSummary(r) ==
    [of |-> IF exhausted(r) \/ expired(r) THEN "depleted" ELSE IF ~r.enable THEN "deactive"
            ELSE IF nearExpiry(r) \/ nearLimit(r) THEN "expiring" ELSE "active",
     online |-> r.enable /\ r.online]

\* the dot on the row
clientBucket(r) ==
    IF expired(r) \/ exhausted(r) THEN "depleted" ELSE IF ~r.enable THEN "deactive"
    ELSE IF nearExpiry(r) \/ nearLimit(r) THEN "expiring" ELSE "active"

-----------------------------------------------------------------------------
Next ==
    \/ \E s \in Searches : typeSearch(s)
    \/ searchSettles \/ revisit \/ refresh
    \/ \E p \in 1 .. NClients : onPage(p)
    \/ \E q \in DOMAIN fetching : fetchAnswered(q) \/ fetchArrives(q) \/ fetchFails(q)
    \/ applyClientStatsEvent \/ noticeArrives
    \/ \E c \in Clients : pollMoves(c) \/ otherDeletes(c) \/ toggleRow(c) \/ onDelete(c)
    \/ toggleAll \/ onBulkDelete \/ closeConfirm
    \/ \E d \in deletions : runConfirm(d) \/ panelDeletes(d) \/ panelRefuses(d) \/ deletionEnds(d)

Spec == Init /\ [][Next]_listVars

-----------------------------------------------------------------------------
Queries == [page : Clients, search : Searches]

\* Every variable has its type.
TypeOK ==
    /\ people \subseteq Clients /\ usage \in [Clients -> 0 .. 1]
    /\ searchKey \in Searches /\ debouncedSearch \in Searches /\ currentPage \in Clients /\ query \in Queries
    /\ DOMAIN pages \subseteq Queries /\ DOMAIN fetching \subseteq Queries /\ failed \subseteq Queries
    /\ \A q \in DOMAIN pages : pages[q].items \subseteq Clients
    /\ DOMAIN allClientStats \subseteq Clients /\ Len(pushes) <= MaxPushes /\ notices \in 0 .. MaxPushes
    /\ selectedRowKeys \subseteq Clients /\ ask \subseteq Clients
    /\ \A d \in deletions : d.who \subseteq Clients
    /\ happened \subseteq {"crossed", "besides", "aged", "deleted", "elsewhere", "underway"}
    /\ acts \in 0 .. MaxListActs /\ polls \in 0 .. MaxPushes

\* nothing is on its way that could still change the screen
Settled ==
    /\ debouncedSearch = searchKey /\ query \notin DOMAIN fetching /\ query \notin failed
    /\ pushes = <<>> /\ notices = 0 /\ \A d \in deletions : d.end = "asked"

\* Once all has arrived the screen shows the page asked for, of the search typed, as the panel
\* has it; the exception is an answer read before a change and cached beside the screen.
ShowsWhatWasAsked ==
    Settled /\ "besides" \notin happened =>
        /\ query = [page |-> currentPage, search |-> searchKey]
        /\ query \in DOMAIN pages /\ pages[query].items = ListPaged(query).items

\* The counters on the screen are the panel's; they lag only when an answer crossed a push or
\* the page was cached away while counters were pushed to another.
CountersFollow ==
    Settled /\ happened \cap {"crossed", "aged", "besides"} = {} /\ query \in DOMAIN pages =>
        \A c \in pages[query].items : pages[query].used[c] = usage[c]

\* The page shown lies past the last one only after clients were deleted; a new search never
\* leaves the user on an empty page, from which the pager leads nowhere.
PastEndHasCause ==
    Settled /\ query \in DOMAIN pages /\ pages[query].items = {} /\ pages[query].filtered > 0
        => "deleted" \in happened

\* The summary counts no client this user has deleted, unless the push counting it was already
\* on its way; only one deleted elsewhere stays in it until the next push.
SummaryOfLiving ==
    happened \cap {"elsewhere", "underway"} = {} /\ (\A d \in deletions : d.end # "done")
        => DOMAIN allClientStats \subseteq people

\* The browser and the panel put every client into the same list, and the dot on its row agrees.
Lockstep ==
    \A r \in StatRows : /\ computeClientsSummary(r) = buildClientsSummary(r)
                        /\ clientBucket(r) = computeClientsSummary(r).of

=============================================================================
