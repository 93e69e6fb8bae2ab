------------------------------- MODULE Session -------------------------------
(***************************************************************************)
(* Requests of one tab through axios and HttpUtil                          *)
(* (frontend/src/api/axios-init.ts, frontend/src/utils/index.ts) and the   *)
(* login form (pages/login/LoginPage.tsx): the CSRF token that unsafe      *)
(* requests carry, its refetch after a 403, the single redirect after a    *)
(* 401, and what the caller of HttpUtil gets to see.                       *)
(*                                                                         *)
(* Tokens are numbered in the order the server mints them.  A page is      *)
(* served with the session's token in its meta tag, or without one when    *)
(* minting it failed (web/controller/dist.go).                             *)
(***************************************************************************)
EXTENDS Integers, FiniteSets

CONSTANTS
    Requests,       \* calls of HttpUtil, numbered in the order they are made
    MaxToken,       \* bound: tokens minted (sessions replaced in another tab)
    MaxFaults       \* bound: network failures

NoToken == 0
Unread == -1

VARIABLES
    serverToken,      \* the session's token
    loggedIn,
    metaToken,        \* content of the meta tag of this page
    served,           \* history: the session's token when this page was served
    csrfToken,        \* cached token
    csrfFetchPromise, \* NoToken: none; Unread: asked; else the answer
    sessionExpired,
    location,         \* "login", "panel", or "leaving" after location.replace
    req,              \* per request: what is asked and how far it is
    faults,
    form              \* the login page: fetched, submitting

sesVars == <<serverToken, loggedIn, metaToken, served, csrfToken, csrfFetchPromise, sessionExpired,
             location, req, faults, form>>

NoRequest == [pc |-> "none", unsafe |-> FALSE, skipAuthRedirect |-> FALSE, token |-> NoToken,
              retried |-> FALSE, status |-> 0]

NoForm == [fetched |-> FALSE, submitting |-> FALSE]

Init ==
    /\ serverToken = 1
    /\ location \in {"login", "panel"}
    /\ loggedIn = (location = "panel")
    /\ metaToken \in {NoToken, 1}
    /\ served = 1
    /\ csrfToken = metaToken           \* setupAxios
    /\ csrfFetchPromise = NoToken
    /\ sessionExpired = FALSE
    /\ req = [r \in Requests |-> NoRequest]
    /\ faults = 0
    /\ form = NoForm

-----------------------------------------------------------------------------
(* ensureCsrfToken.  waiting is the state of a request that awaits it. *)

TokenAttached(q, t) == [q EXCEPT !.pc = "sent", !.token = IF t = NoToken THEN @ ELSE t]

EnsureCsrfToken(r, q) ==
    IF csrfToken # NoToken
    THEN /\ req' = [req EXCEPT ![r] = TokenAttached(q, csrfToken)]
         /\ UNCHANGED <<csrfToken, csrfFetchPromise>>
    ELSE IF metaToken # NoToken
    THEN /\ csrfToken' = metaToken
         /\ req' = [req EXCEPT ![r] = TokenAttached(q, metaToken)]
         /\ UNCHANGED csrfFetchPromise
    ELSE /\ csrfFetchPromise' = IF csrfFetchPromise = NoToken THEN Unread ELSE csrfFetchPromise
         /\ req' = [req EXCEPT ![r] = [q EXCEPT !.pc = "awaitToken"]]
         /\ UNCHANGED csrfToken

ServerGivesToken ==
    /\ csrfFetchPromise = Unread
    /\ csrfFetchPromise' = serverToken
    /\ UNCHANGED <<serverToken, loggedIn, metaToken, served, csrfToken, sessionExpired, location, req, faults, form>>

\* The shared promise settles and every request awaiting it goes on: with the
\* token, or, when the fetch failed, without; a retry without a token is
\* given up
AfterToken(q, t) ==
    IF q.pc # "awaitToken" THEN q
    ELSE IF q.retried /\ t = NoToken THEN [q EXCEPT !.pc = "rejected"]
    ELSE TokenAttached(q, t)

TokenArrives ==
    /\ csrfFetchPromise > 0
    /\ csrfToken' = csrfFetchPromise
    /\ csrfFetchPromise' = NoToken
    /\ req' = [r \in Requests |-> AfterToken(req[r], csrfFetchPromise)]
    /\ UNCHANGED <<serverToken, loggedIn, metaToken, served, sessionExpired, location, faults, form>>

TokenFetchFails ==
    /\ csrfFetchPromise = Unread
    /\ faults < MaxFaults /\ faults' = faults + 1
    /\ csrfFetchPromise' = NoToken
    /\ req' = [r \in Requests |-> AfterToken(req[r], csrfToken)]
    /\ UNCHANGED <<serverToken, loggedIn, metaToken, served, csrfToken, sessionExpired, location, form>>

-----------------------------------------------------------------------------
\* HttpUtil.get / HttpUtil.post and the request interceptor
Issue(r, unsafe, skip) ==
    /\ location # "leaving"
    /\ req[r].pc = "none" /\ \A s \in Requests : s < r => req[s].pc # "none"
    /\ LET q == [NoRequest EXCEPT !.pc = "sent", !.unsafe = unsafe, !.skipAuthRedirect = skip] IN
       IF unsafe THEN EnsureCsrfToken(r, q)
       ELSE req' = [req EXCEPT ![r] = q] /\ UNCHANGED <<csrfToken, csrfFetchPromise>>
    /\ UNCHANGED <<serverToken, loggedIn, metaToken, served, sessionExpired, location, faults, form>>

\* The server's middleware (external): login first, then the token
ServerStatus(q) ==
    IF location = "panel" /\ ~loggedIn THEN 401
    ELSE IF q.unsafe /\ q.token # serverToken THEN 403
    ELSE 200

ServerResponds(r) ==
    /\ req[r].pc = "sent"
    /\ req' = [req EXCEPT ![r].pc = "answered", ![r].status = ServerStatus(req[r])]
    /\ UNCHANGED <<serverToken, loggedIn, metaToken, served, csrfToken, csrfFetchPromise, sessionExpired, location,
                   faults, form>>

RequestFails(r) ==
    /\ req[r].pc = "sent" /\ faults < MaxFaults
    /\ faults' = faults + 1
    /\ req' = [req EXCEPT ![r].pc = "rejected"]
    /\ UNCHANGED <<serverToken, loggedIn, metaToken, served, csrfToken, csrfFetchPromise, sessionExpired, location, form>>

\* The response interceptor
OnSuccess(r) ==
    /\ req[r].pc = "answered" /\ req[r].status = 200
    /\ req' = [req EXCEPT ![r].pc = "resolved"]
    /\ UNCHANGED <<serverToken, loggedIn, metaToken, served, csrfToken, csrfFetchPromise, sessionExpired, location,
                   faults, form>>

\* 401: the first one leaves the page, and the caller's promise never settles
OnUnauthorized(r) ==
    /\ req[r].pc = "answered" /\ req[r].status = 401 /\ ~req[r].skipAuthRedirect
    /\ req' = [req EXCEPT ![r].pc = "suspended"]
    /\ sessionExpired' = TRUE
    /\ location' = IF sessionExpired THEN location ELSE "leaving"
    /\ UNCHANGED <<serverToken, loggedIn, metaToken, served, csrfToken, csrfFetchPromise, faults, form>>

\* Mutant: the refused token is sent again.
OnForbiddenKeepToken(r) ==
    /\ req[r].pc = "answered" /\ req[r].status = 403 /\ ~req[r].retried
    /\ req' = [req EXCEPT ![r] = TokenAttached([req[r] EXCEPT !.retried = TRUE], csrfToken)]
    /\ UNCHANGED <<csrfToken, csrfFetchPromise>>
    /\ UNCHANGED <<serverToken, loggedIn, metaToken, served, sessionExpired, location, faults, form>>

\* 403: the cached token is forgotten and the request sent once more
OnForbidden(r) ==
    /\ req[r].pc = "answered" /\ req[r].status = 403 /\ ~req[r].retried
    /\ LET q == [req[r] EXCEPT !.retried = TRUE] IN
       IF metaToken # NoToken
       THEN /\ csrfToken' = metaToken
            /\ req' = [req EXCEPT ![r] = TokenAttached(q, metaToken)]
            /\ UNCHANGED csrfFetchPromise
       ELSE /\ csrfToken' = NoToken
            /\ csrfFetchPromise' = IF csrfFetchPromise = NoToken THEN Unread ELSE csrfFetchPromise
            /\ req' = [req EXCEPT ![r] = [q EXCEPT !.pc = "awaitToken"]]
    /\ UNCHANGED <<serverToken, loggedIn, metaToken, served, sessionExpired, location, faults, form>>

\* Every other error reaches HttpUtil, which turns it into a failed Msg
OnOtherError(r) ==
    /\ req[r].pc = "answered"
    /\ \/ req[r].status = 401 /\ req[r].skipAuthRedirect
       \/ req[r].status = 403 /\ req[r].retried
    /\ req' = [req EXCEPT ![r].pc = "rejected"]
    /\ UNCHANGED <<serverToken, loggedIn, metaToken, served, csrfToken, csrfFetchPromise, sessionExpired, location,
                   faults, form>>

-----------------------------------------------------------------------------
(* The session changes underneath: it ends, or another tab of the browser   *)
(* logs out and in again, which replaces cookie and token.                  *)

SessionEnds ==
    /\ loggedIn /\ loggedIn' = FALSE
    /\ UNCHANGED <<serverToken, metaToken, served, csrfToken, csrfFetchPromise, sessionExpired, location, req, faults, form>>

OtherTabLogsIn ==
    /\ serverToken < MaxToken
    /\ serverToken' = serverToken + 1
    /\ loggedIn' = TRUE
    /\ UNCHANGED <<metaToken, served, csrfToken, csrfFetchPromise, sessionExpired, location, req, faults, form>>

\* The user loads the page again, which serves it with the session's token: the
\* calls of the old one are dropped.
Reload ==
    /\ location # "leaving"
    /\ location' = IF loggedIn THEN "panel" ELSE "login"
    /\ served' = serverToken
    /\ metaToken' \in {NoToken, serverToken}
    /\ csrfToken' = metaToken'
    /\ csrfFetchPromise' = NoToken
    /\ sessionExpired' = FALSE
    /\ req' = [r \in Requests |-> NoRequest]
    /\ form' = NoForm
    /\ UNCHANGED <<serverToken, loggedIn, faults>>

-----------------------------------------------------------------------------
(* The login page *)

\* The effect on mount: whatever /getTwoFactorEnable returns, the form is shown
TwoFactorProbed ==
    /\ location = "login" /\ ~form.fetched
    /\ form' = [form EXCEPT !.fetched = TRUE]
    /\ UNCHANGED <<serverToken, loggedIn, metaToken, served, csrfToken, csrfFetchPromise, sessionExpired, location, req, faults>>

\* onSubmit with a form that validates
Submit ==
    /\ location = "login" /\ form.fetched /\ ~form.submitting
    /\ form' = [form EXCEPT !.submitting = TRUE]
    /\ UNCHANGED <<serverToken, loggedIn, metaToken, served, csrfToken, csrfFetchPromise, sessionExpired, location, req, faults>>

LoginReturns(success) ==
    /\ form.submitting
    /\ form' = [form EXCEPT !.submitting = FALSE]
    /\ location' = IF success THEN "leaving" ELSE location
    /\ loggedIn' = (loggedIn \/ success)
    /\ UNCHANGED <<serverToken, metaToken, served, csrfToken, csrfFetchPromise, sessionExpired, req, faults>>

-----------------------------------------------------------------------------
Progress ==
    \/ ServerGivesToken \/ TokenArrives
    \/ \E r \in Requests : ServerResponds(r) \/ OnSuccess(r) \/ OnUnauthorized(r) \/ OnForbidden(r)
                           \/ OnOtherError(r)

Next ==
    \/ Progress
    \/ TokenFetchFails
    \/ \E r \in Requests, unsafe, skip \in BOOLEAN : Issue(r, unsafe, skip)
    \/ \E r \in Requests : RequestFails(r)
    \/ SessionEnds \/ OtherTabLogsIn \/ Reload
    \/ TwoFactorProbed \/ Submit
    \/ \E success \in BOOLEAN : LoginReturns(success)

Fairness == WF_sesVars(Progress)
Spec == Init /\ [][Next]_sesVars /\ Fairness

-----------------------------------------------------------------------------
TypeOK ==
    /\ csrfToken \in 0..serverToken
    /\ csrfFetchPromise \in {NoToken, Unread} \cup 1..serverToken
    /\ \A r \in Requests :
         /\ req[r].pc \in {"none", "awaitToken", "sent", "answered", "resolved", "rejected", "suspended"}
         /\ req[r].token \in 0..serverToken

\* A call hangs for ever only on a page that is being left: whatever the order
\* of answers, 403 retries, shared token fetches and session changes, every
\* call of HttpUtil otherwise returns a Msg, or goes with the page.
EveryCallReturns ==
    \A r \in Requests :
        (req[r].pc # "none") ~> (req[r].pc \in {"resolved", "rejected", "none"} \/ location = "leaving")

\* How often the session may be replaced under a page.  One that has its token in
\* a meta tag sends that token again after a 403, so only a reload gets it going;
\* one that has to fetch its token fetches the new one.
Heals == IF metaToken = NoToken THEN 1 ELSE 0

\* A call is given up for its token only because the session was replaced under
\* the page more often than the page heals, or because the network failed while
\* a token was fetched: no interleaving of two calls' refusals, the fetch they
\* share, a replacement and reloads refuses a call that has, or can get, the
\* token of the session.
OnlyReplacedIsRefused ==
    (serverToken <= served + Heals /\ (metaToken = NoToken => faults = 0)) =>
        \A r \in Requests : ~(req[r].pc = "rejected" /\ req[r].status = 403)

=============================================================================
