----------------------------- MODULE PanelRestore ----------------------------
(***************************************************************************)
(* Restoring a backup of the SQLite database: the page's importDb and its  *)
(* wait for the panel (frontend/src/pages/index/BackupModal.tsx), the      *)
(* full-screen takeover (layouts/BusyOverlayProvider.tsx), the status      *)
(* query every page runs meanwhile, and the server's ImportDB              *)
(* (web/service/server.go), which swaps the file under the running panel.  *)
(*                                                                         *)
(* A file's content is <<>> (no file), <<"old">>, <<"fresh">> (what SQLite *)
(* creates where there is no file) or <<i, w>>, the upload i, w telling    *)
(* whether it is "whole" or still being copied ("part").  A renamed file   *)
(* keeps being written through the handle that is copying it.              *)
(*                                                                         *)
(* SQLite keeps what was committed last in a sidecar named after the       *)
(* database (WAL mode).  It goes when the database is closed; one that     *)
(* stays is read into whatever file has the name by then.                  *)
(***************************************************************************)
EXTENDS Integers, Sequences

CONSTANTS
    Imports,        \* uploads, one importDB call each
    Kinds,          \* the kinds of file they carry, some of AllKinds
    Epochs,         \* the login epochs of the database they hold, some of AllEpochs
    MaxPolls,       \* bound: the 90 s of waitForPanelBack, in polls
    MaxFaults       \* bound: file operations and connections that fail

NoFile == <<>>
Old == <<"old">>
Fresh == <<"fresh">>
Mixed == <<"mixed">>          \* a file with the commits of another one in it
Upload(i) == <<i, "whole">>
Partial(i) == <<i, "part">>

AllKinds == {"good", "foreign", "corrupt", "garbage"}
AllEpochs == {"A", "B"}        \* the user's LoginEpoch: a session of one is void in the other

VARIABLES
    upload,                 \* per import: the handler's progress and the connection
    path, backup, temp,     \* the database file, its fallback and the upload's copy
    wal,                    \* the file whose commits a sidecar left at path holds
    handle,                 \* the file the global db has open
    core,
    page,                   \* the tab: where it is, importDb's progress, the last report
    overlay, bootKey,       \* BusyOverlay, and BOOT_BUSY_KEY in localStorage
    cookie,                 \* the epoch of the tab's session, or "none"
    warned,                 \* history: failures that were only logged and what they left:
                            \* "close", "sidecar": another file's commits; "core": no core
    faults

files == <<path, backup, temp>>
restoreVars == <<upload, files, wal, handle, core, page, overlay, bootKey, cookie, warned, faults>>

NoUpload == [pc |-> "none", kind |-> "good", epoch |-> "A", conn |-> "open", result |-> "none"]
Idle == [where |-> "panel", pc |-> "idle", cur |-> "none", polls |-> 0, report |-> "none"]

Init ==
    /\ upload = [i \in Imports |-> NoUpload]
    /\ path = Old /\ backup = NoFile /\ temp = NoFile /\ wal = NoFile
    /\ handle = Old
    /\ core = "running"
    /\ page = Idle
    /\ overlay = FALSE /\ bootKey = FALSE
    /\ cookie = "A"
    /\ warned = {}
    /\ faults = 0

Fault == faults < MaxFaults /\ faults' = faults + 1
NoFault == faults' = faults
AtStage(i, pc) == upload[i].pc = pc
Goes(i, pc) == upload' = [upload EXCEPT ![i].pc = pc]
Ends(i, pc, result) == upload' = [upload EXCEPT ![i].pc = pc, ![i].result = result]

ThisPage == <<page, overlay, bootKey, cookie>>
Sidecar == <<wal, warned>>

IsUpload(f) == Len(f) = 2
KindOf(f) == upload[f[1]].kind
\* What validation accepts, and what InitDB can migrate
Sound(f) == f = Old \/ (IsUpload(f) /\ f[2] = "whole" /\ KindOf(f) \in {"good", "foreign"})
Usable(f) == f = Old \/ f = Fresh \/ (IsUpload(f) /\ f[2] = "whole" /\ KindOf(f) = "good")
\* No other file's sidecar lies beside f when f is at path.
Alone(f) == wal \in {NoFile, f}

-----------------------------------------------------------------------------
(* The server: importDB and ImportDB *)

\* The body has arrived, FormFile returns, and the format is checked: what is
\* not SQLite is refused, else the upload's copy is created in place of any
\* earlier one
Receive(i) ==
    /\ AtStage(i, "sending")
    /\ \/ upload[i].kind # "garbage" /\ Goes(i, "copying") /\ temp' = Partial(i) /\ NoFault
       \/ upload[i].kind = "garbage" /\ Ends(i, "answered", "rejected") /\ UNCHANGED temp /\ NoFault
       \/ Fault /\ Ends(i, "answered", "rejected") /\ UNCHANGED temp
    /\ UNCHANGED <<path, backup, handle, core, Sidecar, ThisPage>>

\* io.Copy ends: the copy is whole wherever it is by now
Completed(i, f) == IF f = Partial(i) THEN Upload(i) ELSE f

Copy(i) ==
    /\ AtStage(i, "copying")
    /\ \/ /\ Goes(i, "copied")
          /\ path' = Completed(i, path)
          /\ backup' = Completed(i, backup)
          /\ temp' = Completed(i, temp)
          /\ handle' = Completed(i, handle)
          /\ wal' = Completed(i, wal)
          /\ NoFault
       \/ Fault /\ Ends(i, "answered", "rejected") /\ temp' = NoFile /\ UNCHANGED <<path, backup, handle, wal>>
    /\ UNCHANGED <<core, warned, ThisPage>>

Validate(i) ==
    /\ AtStage(i, "copied")
    /\ IF temp # NoFile /\ Sound(temp) THEN Goes(i, "validated") /\ UNCHANGED temp
       ELSE Ends(i, "answered", "rejected") /\ temp' = NoFile
    /\ UNCHANGED <<path, backup, handle, core, faults, Sidecar, ThisPage>>

\* The core may withstand; that is only logged.
StopCore(i) ==
    /\ AtStage(i, "validated")
    /\ Goes(i, "stopped")
    /\ \/ core' = "stopped" /\ NoFault
       \/ Fault /\ UNCHANGED core
    /\ UNCHANGED <<files, handle, Sidecar, ThisPage>>

\* Closing writes the sidecar's commits into the file and removes it.  A failure
\* is only logged: the file stays open, and may have a sidecar.
CloseDB(i) ==
    /\ AtStage(i, "stopped")
    /\ Goes(i, "closed")
    /\ \/ /\ handle' = NoFile /\ wal' = NoFile
          /\ NoFault /\ UNCHANGED warned
       \/ /\ Fault
          /\ wal' \in {wal, handle} /\ UNCHANGED handle
          /\ warned' = IF wal' = NoFile THEN warned ELSE warned \cup {"close"}
    /\ UNCHANGED <<files, core, ThisPage>>

DropFallback(i) ==
    /\ AtStage(i, "closed")
    /\ \/ backup' = NoFile /\ Goes(i, "cleared") /\ NoFault
       \/ backup # NoFile /\ Fault /\ Ends(i, "leaving", "refused") /\ UNCHANGED backup
    /\ UNCHANGED <<path, temp, handle, core, Sidecar, ThisPage>>

\* The current database becomes the fallback
KeepOld(i) ==
    /\ AtStage(i, "cleared")
    /\ \/ path # NoFile /\ backup' = path /\ path' = NoFile /\ Goes(i, "kept") /\ NoFault
       \/ path = NoFile /\ Ends(i, "leaving", "refused") /\ UNCHANGED <<path, backup>> /\ NoFault
       \/ Fault /\ Ends(i, "leaving", "refused") /\ UNCHANGED <<path, backup>>
    /\ UNCHANGED <<temp, handle, core, Sidecar, ThisPage>>

\* Renaming the fallback back, after the step that failed with result
RestoreFallback(i) ==
    /\ path' = backup /\ backup' = NoFile
    /\ Ends(i, "unwinding", "refused")

MoveIn(i) ==
    /\ AtStage(i, "kept")
    /\ \/ /\ temp # NoFile
          /\ path' = temp /\ temp' = NoFile
          /\ Goes(i, "moved")
          /\ NoFault /\ UNCHANGED backup
       \/ /\ temp = NoFile
          /\ Goes(i, "failed")
          /\ NoFault /\ UNCHANGED files
       \/ /\ Fault
          /\ Goes(i, "failed")
          /\ UNCHANGED files
    /\ UNCHANGED <<handle, core, Sidecar, ThisPage>>

\* Mutant: the new file is not opened.
OpenNothing(i) ==
    /\ AtStage(i, "moved")
    /\ Goes(i, "opened")
    /\ UNCHANGED <<files, handle, core, faults, Sidecar, ThisPage>>

\* InitDB opens the file, creating it when there is none, and migrates it.  What
\* it could not migrate stays open, and what it committed before that is in the
\* sidecar.  A file that another's commits are read into may even be accepted.
Open(i) ==
    /\ AtStage(i, "moved")
    /\ path' = IF ~Alone(path) THEN Mixed ELSE IF path = NoFile THEN Fresh ELSE path
    /\ handle' = path'
    /\ \/ /\ Usable(path') \/ path' = Mixed
          /\ Goes(i, "opened") /\ NoFault /\ wal' = NoFile
       \/ /\ Goes(i, "failed") /\ wal' \in {NoFile, path'}
          /\ IF Usable(path') THEN Fault ELSE NoFault
    /\ UNCHANGED <<backup, temp, core, warned, ThisPage>>

\* Mutant: the fallback is cleaned up and not renamed back.
RollbackDropsFallback(i) ==
    /\ AtStage(i, "failed")
    /\ backup' = NoFile /\ Ends(i, "unwinding", "refused")
    /\ UNCHANGED <<path, temp, handle, core, faults, Sidecar, ThisPage>>

\* The fallback gets its name back, beside what the refused file left there.
Rollback(i) ==
    /\ AtStage(i, "failed")
    /\ \/ backup # NoFile /\ RestoreFallback(i) /\ NoFault
       \/ backup = NoFile /\ Ends(i, "unwinding", "rollbackFailed") /\ NoFault /\ UNCHANGED <<path, backup>>
       \/ Fault /\ Ends(i, "unwinding", "rollbackFailed") /\ UNCHANGED <<path, backup>>
    /\ warned' = IF Alone(path') THEN warned ELSE warned \cup {"sidecar"}
    /\ UNCHANGED <<temp, handle, wal, core, ThisPage>>

\* MigrateDB and the restart of the core, which the deferred one no longer does
StartCore(i) ==
    /\ AtStage(i, "opened")
    /\ \/ core' = "running" /\ Ends(i, "unwinding", "ok") /\ NoFault
       \/ Fault /\ core' = "stopped" /\ Ends(i, "unwinding", "notStarted")
    /\ UNCHANGED <<files, handle, Sidecar, ThisPage>>

\* Mutant: no deferred restart.
DeferredCoreMissing(i) == {core}

Deferred(i) == upload[i].result \notin {"ok", "notStarted"}

\* The deferred calls, last first: the fallback is removed ("unwinding": it had
\* been made), the core started if that was not done, the copy removed.  The
\* configuration is read from the database, so without one no core starts, and
\* with one that InitDB refused it may or may not.
DeferredCore(i) ==
    IF ~Deferred(i) \/ handle = NoFile THEN {core}
    ELSE IF Usable(handle) THEN {"running"}
    ELSE {"running", "stopped"}

\* RestartXrayService returns an error, which is only logged.
DeferredFails(i) ==
    /\ Deferred(i) /\ handle # NoFile
    /\ Fault
    /\ core' \in {core, "stopped"}
    /\ warned' = warned \cup {"core"}

Answer(i) ==
    /\ upload[i].pc \in {"leaving", "unwinding"}
    /\ backup' = IF AtStage(i, "unwinding") THEN NoFile ELSE backup
    /\ \/ core' \in DeferredCore(i) /\ NoFault /\ UNCHANGED warned
       \/ DeferredFails(i)
    /\ temp' = NoFile
    /\ Goes(i, "answered")
    /\ UNCHANGED <<path, handle, wal, ThisPage>>

Server(i) ==
    \/ Receive(i) \/ Copy(i) \/ Validate(i) \/ StopCore(i) \/ CloseDB(i) \/ DropFallback(i)
    \/ KeepOld(i) \/ MoveIn(i) \/ Open(i) \/ Rollback(i) \/ StartCore(i) \/ Answer(i)

-----------------------------------------------------------------------------
(* The page *)

ServerSide == <<files, handle, core, Sidecar>>
Waiting == page.pc \in {"racing", "polling"}

\* GetLoginUser: a session whose user cannot be read, or has another epoch, is
\* removed from the cookie
EpochOf(f) == IF IsUpload(f) THEN upload[f[1]].epoch ELSE IF f = Old THEN "A" ELSE "F"
Authorized == Usable(handle) /\ cookie = EpochOf(handle)
GetLoginUser == cookie' = IF Authorized THEN cookie ELSE "none"

\* importDb: the dialog closes, the takeover comes up and the upload is sent;
\* without a session it is refused before its body is read
importDb(i, kind, epoch) ==
    /\ page.where = "panel" /\ page.pc = "idle" /\ ~overlay
    /\ AtStage(i, "none")
    /\ LET u == [NoUpload EXCEPT !.kind = kind, !.epoch = epoch] IN
       upload' = [upload EXCEPT ![i] = IF Authorized THEN [u EXCEPT !.pc = "sending"]
                                       ELSE [u EXCEPT !.pc = "answered", !.result = "rejected"]]
    /\ GetLoginUser
    /\ page' = [page EXCEPT !.pc = "racing", !.cur = i, !.polls = 0, !.report = "none"]
    /\ overlay' = TRUE /\ bootKey' = TRUE
    /\ UNCHANGED <<ServerSide, faults>>

\* A dropped connection ends an upload that was still on its way; a handler that
\* has its file goes on
Dropped(u) == IF u.pc = "sending" THEN [u EXCEPT !.pc = "answered", !.conn = "lost", !.result = "rejected"]
              ELSE [u EXCEPT !.conn = "lost"]

ConnectionLost(i) ==
    /\ upload[i].pc \notin {"none", "answered"} /\ upload[i].conn = "open"
    /\ Fault
    /\ upload' = [upload EXCEPT ![i] = Dropped(@)]
    /\ UNCHANGED <<ServerSide, ThisPage>>

\* Mutant: a failure leaves the boot request behind.
SettledKeepsKey(report) ==
    /\ page' = [page EXCEPT !.pc = IF report = "restored" THEN "reloading" ELSE "idle", !.report = report]
    /\ overlay' = FALSE /\ bootKey' = (report = "failed")

Settled(report) ==
    /\ page' = [page EXCEPT !.pc = IF report = "restored" THEN "reloading" ELSE "idle", !.report = report]
    /\ overlay' = FALSE /\ bootKey' = FALSE

\* The race, won by the answer: HttpUtil.post resolves with a failure also when
\* the connection was lost
RaceAnswered ==
    /\ page.pc = "racing"
    /\ LET u == upload[page.cur] IN
       /\ u.pc = "answered" \/ u.conn = "lost"
       /\ IF u.conn = "open" /\ u.result = "ok"
          THEN page' = [page EXCEPT !.pc = "polling"] /\ UNCHANGED <<overlay, bootKey>>
          ELSE Settled("failed")
    /\ UNCHANGED <<upload, ServerSide, cookie, faults>>

\* The race, won by the 8 s timer
RaceTimer ==
    /\ page.pc = "racing"
    /\ page' = [page EXCEPT !.pc = "polling"]
    /\ UNCHANGED <<upload, ServerSide, overlay, bootKey, cookie, faults>>

\* One round of waitForPanelBack: sleep, ask for the status.  The request may
\* also not get through.
PollAnswered ==
    /\ page.pc = "polling" /\ page.polls < MaxPolls
    /\ GetLoginUser
    /\ IF Authorized THEN Settled("restored")
       ELSE page' = [page EXCEPT !.polls = @ + 1] /\ UNCHANGED <<overlay, bootKey>>
    /\ UNCHANGED <<upload, ServerSide, faults>>

PollLost ==
    /\ page.pc = "polling" /\ page.polls < MaxPolls
    /\ page' = [page EXCEPT !.polls = @ + 1]
    /\ UNCHANGED <<upload, ServerSide, overlay, bootKey, cookie, faults>>

PollDeadline ==
    /\ page.pc = "polling" /\ page.polls = MaxPolls
    /\ Settled("timeout")
    /\ UNCHANGED <<upload, ServerSide, cookie, faults>>

\* A page is left for where: an upload on its way is aborted.  A panel page
\* consumes the boot request and shows the takeover for a moment.
Load(where) ==
    /\ upload' = [i \in Imports |-> IF AtStage(i, "sending") THEN Dropped(upload[i]) ELSE upload[i]]
    /\ page' = [page EXCEPT !.where = where, !.pc = "idle", !.polls = 0]
    /\ overlay' = (where = "panel" /\ bootKey)
    /\ bootKey' = (where # "panel" /\ bootKey)

\* window.location.reload after a success; checkLogin answers it
Reload ==
    /\ page.pc = "reloading"
    /\ GetLoginUser
    /\ Load(IF Authorized THEN "panel" ELSE "login")
    /\ UNCHANGED <<ServerSide, faults>>

\* The status query of MetricsPanel, every 2 s, without skipAuthRedirect: once
\* it is refused the tab leaves for the login page
StatusQuery ==
    /\ page.where = "panel"
    /\ ~Authorized
    /\ GetLoginUser
    /\ Load("login")
    /\ UNCHANGED <<ServerSide, faults>>

Login ==
    /\ page.where = "login"
    /\ Usable(handle)
    /\ cookie' = EpochOf(handle)
    /\ Load("panel")
    /\ UNCHANGED <<ServerSide, faults>>

\* BOOT_HOLD_MS is over
BootHold ==
    /\ page.where = "panel" /\ page.pc = "idle" /\ overlay
    /\ overlay' = FALSE
    /\ UNCHANGED <<upload, ServerSide, page, bootKey, cookie, faults>>

PageTimers == RaceAnswered \/ RaceTimer \/ PollAnswered \/ PollLost \/ PollDeadline \/ Reload \/ BootHold

Next ==
    \/ \E i \in Imports : Server(i) \/ ConnectionLost(i)
    \/ \E i \in Imports, kind \in Kinds, epoch \in Epochs : importDb(i, kind, epoch)
    \/ PageTimers
    \/ StatusQuery
    \/ Login

\* The browser's timers run and the requests of the page end
Spec == Init /\ [][Next]_restoreVars /\ WF_restoreVars(PageTimers)

-----------------------------------------------------------------------------
Contents == {NoFile, Old, Fresh, Mixed} \cup {Upload(i) : i \in Imports} \cup {Partial(i) : i \in Imports}
Underway(i) == upload[i].pc \notin {"none", "sending", "answered"}
AtRest == \A i \in Imports : ~Underway(i)
Results(i) == IF AtStage(i, "answered") THEN {upload[i].result} ELSE {}

Stages == {"none", "sending", "copying", "copied", "validated", "stopped", "closed", "cleared", "kept", "moved", "opened",
           "failed", "leaving", "unwinding", "answered"}
Uploads == [pc : Stages, kind : AllKinds, epoch : AllEpochs, conn : {"open", "lost"},
            result : {"none", "ok", "rejected", "refused", "rollbackFailed", "notStarted"}]

\* The variables keep their types.
TypeOK ==
    /\ upload \in [Imports -> Uploads]
    /\ {path, backup, temp, wal, handle} \subseteq Contents
    /\ core \in {"running", "stopped"}
    /\ page \in [where : {"panel", "login"}, pc : {"idle", "racing", "polling", "reloading"}, cur : Imports \cup {"none"},
                 polls : 0..MaxPolls, report : {"none", "failed", "restored", "timeout"}]
    /\ {overlay, bootKey} \subseteq BOOLEAN
    /\ cookie \in AllEpochs \cup {"F", "none"}
    /\ warned \subseteq {"close", "sidecar", "core"}
    /\ faults \in 0..MaxFaults

\* Whatever step fails, one of the two files is a database the panel can open,
\* with no other file's commits beside it, unless the rename of the fallback was
\* reported as failed (server.go:1297-1322), the running database could not be
\* closed (1278), or the fallback came back beside the sidecar of the file that
\* InitDB had begun to migrate (1317).
DatabaseKept ==
    \/ backup # Fresh /\ Usable(backup)
    \/ path # Fresh /\ Usable(path) /\ Alone(path)
    \/ \E i \in Imports : upload[i].result = "rollbackFailed"
    \/ warned \cap {"close", "sidecar"} # {}

\* The answer tells what is served from now on: after a success the uploaded
\* file, stored and open, unless it was opened beside the sidecar of a database
\* that could not be closed; after a refusal of the file itself the old one, with
\* its core never stopped.
AnswerTellsTheFile ==
    \A i \in Imports :
        /\ Results(i) = {"ok"} =>
             /\ core = "running" /\ path = handle
             /\ path = Upload(i) \/ "close" \in warned
        /\ Results(i) = {"rejected"} => path = Old /\ handle = Old /\ core = "running"

\* However an import ends, no traffic stays cut off while the panel has a
\* database to build the configuration from, unless the core refused to start,
\* after the import (answered) or in the deferred restart (server.go:1269, logged).
CoreBack ==
    AtRest /\ core = "stopped" =>
        \/ ~Usable(handle)
        \/ "core" \in warned
        \/ \E i \in Imports : upload[i].result = "notStarted"

\* The takeover and the request to show it on the next boot stand while an
\* import is waited for, in whichever order answer, timer, polls and redirects
\* come, and neither is left behind in a panel that waits for nothing.
TakeoverStands == page.where = "panel" => (Waiting <=> bootKey) /\ (Waiting => overlay)

\* Whatever the server does or fails to do, the takeover is lifted.
TakeoverLifted == overlay ~> ~overlay
=============================================================================
