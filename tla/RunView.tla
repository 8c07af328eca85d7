------------------------------ MODULE RunView ------------------------------
(***************************************************************************)
(* The run panel (frontend/src/RunViewer.tsx): a page of the table of runs, *)
(* read again whenever the run status or the page number changes, and a     *)
(* dialog with the files of one run, which is known by its row.  The server *)
(* side is the run table and the status as mxrun.cpp writes them (in two    *)
(* writes: RunControl has the interleavings of callers, which are left out  *)
(* here).                                                                   *)
(***************************************************************************)
EXTENDS PageCalls

CONSTANTS
  PerPage,     (* RUNS_PER_PAGE                                             *)
  Aliases,     (* names of files logged in runs                             *)
  MaxRuns,     (* bound: runs started                                       *)
  MaxMoves     (* bound: files logged, and dialogs opened or refreshed      *)

VARIABLES
  runlog,        (* run -> "Running" or "Stopped"                           *)
  runfiles,      (* the files logged, in order: run and alias               *)
  runstatus,     (* /system/run/status on the server                        *)
  gRunStatus, gRunNumber,
  runs, runPage, (* the rows shown, and the page number                     *)
  runToInspect, openPopup,
  dialog, opened, (* the last table set up, and the first of this dialog       *)
  logFiles, logFileCache, onlyLast,
  filesRun,      (* the run whose files the dialog asked for                *)
  overlapped,    (* history: an update began while another was under way    *)
  shifted        (* history: rows changed since the dialog was opened       *)

server_r == <<runlog, runfiles, runstatus>>
globals_r == <<gRunStatus, gRunNumber>>
files_r == <<logFiles, logFileCache, filesRun>>
dialog_r == <<runToInspect, openPopup, dialog, opened, onlyLast>>
vars_r == <<server_r, globals_r, runs, runPage, dialog_r, files_r, overlapped, shifted>>

Ceil(n, d) == (n + d - 1) \div d

(* RunLogGetRuns: ORDER BY id DESC LIMIT n OFFSET n * page                  *)
RunsOfPage(p) ==
  LET n == Len(runlog)
      first == n - PerPage * (p - 1)
  IN [i \in 1 .. (IF first <= 0 THEN 0 ELSE IF first < PerPage THEN first ELSE PerPage) |->
        [id |-> first - i + 1, status |-> runlog[first - i + 1]]]

RunInit ==
  /\ runlog = <<>> /\ runfiles = <<>> /\ runstatus = "Stopped"
  /\ gRunStatus = "Stopped" /\ gRunNumber = 0
  /\ runs = <<>> /\ runPage = 1
  /\ runToInspect = 1 /\ openPopup = FALSE /\ dialog = 0 /\ opened = 0 /\ onlyLast = TRUE
  /\ logFiles = <<>> /\ logFileCache = <<>> /\ filesRun = 0
  /\ overlapped = FALSE /\ shifted = FALSE

(* The effect of the status and the page runs when the page is made, too.    *)
RunCalls == <<[what |-> "runs", page |-> 1]>>

(* RunStart and RunStop: the row is written before the status.              *)
RunRegisters ==
  /\ Unhurried
  /\ runstatus = "Stopped"
  /\ runlog # <<>> => Last(runlog) = "Stopped"
  /\ Len(runlog) < MaxRuns
  /\ runlog' = Append(runlog, "Running")
  /\ Tell([what |-> "number", n |-> Len(runlog) + 1])
  /\ UNCHANGED <<up, runfiles, runstatus, globals_r, runs, runPage, dialog_r, files_r,
                 overlapped, shifted>>

RunRegistersStop ==
  /\ runstatus = "Running" /\ Last(runlog) = "Running"
  /\ runlog' = [runlog EXCEPT ![Len(runlog)] = "Stopped"]
  /\ UNCHANGED <<calls, runfiles, runstatus, globals_r, runs, runPage, dialog_r, files_r,
                 overlapped, shifted>>

RunWritesStatus ==
  /\ Unhurried
  /\ runlog # <<>> /\ runstatus # Last(runlog)
  /\ runstatus' = Last(runlog)
  /\ Tell([what |-> "status", v |-> Last(runlog)])
  /\ UNCHANGED <<up, runlog, runfiles, globals_r, runs, runPage, dialog_r, files_r, overlapped,
                 shifted>>

RunLogsFile(a) ==
  /\ runstatus = "Running"
  /\ Len(runfiles) + dialog < MaxMoves
  /\ runfiles' = Append(runfiles, [run |-> Len(runlog), alias |-> a])
  /\ UNCHANGED <<calls, runlog, runstatus, globals_r, runs, runPage, dialog_r, files_r,
                 overlapped, shifted>>

------------------------------------------------------------------------------
(* updateLogsPage: the rows are cleared at once and the answer's appended.  *)
ClearedRows == <<>>

UpdateLogsPage(p) ==
  /\ runs' = ClearedRows
  /\ Ask(<<[what |-> "runs", page |-> p]>>)
  /\ overlapped' = (Outstanding("runs") > 0)
  /\ shifted' = TRUE

RunStatusChanges ==
  /\ Getting("status") /\ Got
  /\ gRunStatus' = Head(down).v
  /\ IF Head(down).v # gRunStatus THEN UpdateLogsPage(runPage)
     ELSE UNCHANGED <<up, runs, overlapped, shifted>>
  /\ UNCHANGED <<server_r, gRunNumber, runPage, dialog_r, files_r>>

RunNumberChanges ==
  /\ Getting("number") /\ Got
  /\ gRunNumber' = Head(down).n
  /\ UNCHANGED <<up, server_r, gRunStatus, runs, runPage, dialog_r, files_r, overlapped, shifted>>

RunPageChanges(p) ==
  /\ Calm
  /\ ~ openPopup
  /\ p \in 1 .. Ceil(gRunNumber, PerPage) /\ p # runPage
  /\ runPage' = p
  /\ UpdateLogsPage(p)
  /\ UNCHANGED <<down, server_r, globals_r, dialog_r, files_r>>

ServeRuns ==
  /\ Serving("runs")
  /\ Serve([what |-> "runs", rows |-> RunsOfPage(Head(up).page)])
  /\ UNCHANGED vars_r

RunsArrive ==
  /\ Getting("runs") /\ Got
  /\ runs' = runs \o Head(down).rows
  /\ shifted' = TRUE
  /\ UNCHANGED <<up, server_r, globals_r, runPage, dialog_r, files_r, overlapped>>

------------------------------------------------------------------------------
(* changeDisplayMode: the last file of each alias, or what was cached.      *)
LastVersionsOf(fs) ==
  SetToSortSeq({f \in Range(fs) : \A g \in Range(fs) : g.alias = f.alias => f.ts >= g.ts},
               LAMBDA f, g : f.ts < g.ts)

SetupTable(run) ==
  /\ Len(runfiles) + dialog < MaxMoves
  /\ dialog' = dialog + 1
  /\ filesRun' = run
  /\ logFiles' = <<>>
  /\ Ask(<<[what |-> "meta", run |-> run, dialog |-> dialog + 1]>>)

(* A click on a row; the table of files is made anew with the dialog.       *)
Inspect(i) ==
  /\ Calm
  /\ ~ openPopup /\ i \in DOMAIN runs
  /\ openPopup' = TRUE /\ runToInspect' = i /\ opened' = dialog + 1
  /\ SetupTable(runs[i].id)
  /\ logFileCache' = <<>>
  /\ shifted' = FALSE
  /\ UNCHANGED <<down, server_r, globals_r, runs, runPage, onlyLast, overlapped>>

CloseInspector ==
  /\ openPopup
  /\ openPopup' = FALSE
  /\ UNCHANGED <<calls, server_r, globals_r, runs, runPage, runToInspect, dialog, opened,
                 onlyLast, files_r, overlapped, shifted>>

(* Refresh, disabled for a run that is stopped, reads the run of the row.   *)
Refresh ==
  /\ Calm
  /\ openPopup /\ runToInspect \in DOMAIN runs
  /\ runs[runToInspect].status # "Stopped"
  /\ SetupTable(runs[runToInspect].id)
  /\ UNCHANGED <<down, server_r, globals_r, runs, runPage, runToInspect, openPopup, opened,
                 onlyLast, logFileCache, overlapped, shifted>>

ShowOnlyLast(v) ==
  /\ openPopup /\ v # onlyLast
  /\ onlyLast' = v
  /\ logFiles' = IF v THEN LastVersionsOf(logFiles) ELSE logFileCache
  /\ UNCHANGED <<calls, server_r, globals_r, runs, runPage, runToInspect, openPopup, dialog,
                 opened, logFileCache, filesRun, overlapped, shifted>>

FilesOf(run) ==
  SelectSeq([i \in DOMAIN runfiles |-> [run |-> runfiles[i].run, alias |-> runfiles[i].alias,
                                        ts |-> i]],
            LAMBDA f : f.run = run)

ServeMeta ==
  /\ Serving("meta")
  /\ Serve([what |-> "meta", dialog |-> Head(up).dialog, files |-> FilesOf(Head(up).run)])
  /\ UNCHANGED vars_r

(* The files are added once the name of their backend has been read too;    *)
(* what a closed dialog asked for goes to a table that is not shown.        *)
MetaArrives ==
  /\ Getting("meta") /\ Got
  /\ IF Head(down).files # <<>>
     THEN Ask(<<[what |-> "name", dialog |-> Head(down).dialog, files |-> Head(down).files]>>)
     ELSE UNCHANGED up
  /\ UNCHANGED vars_r

ServeName ==
  /\ Serving("name")
  /\ Serve(Head(up))
  /\ UNCHANGED vars_r

(* Fault: the rows are kept outside of the dialog (InspectorRight).         *)
AnyTable(d) == openPopup
ThisTable(d) == openPopup /\ d >= opened

FilesArrive ==
  LET all == logFiles \o Head(down).files
  IN /\ Getting("name") /\ Got
     /\ IF ThisTable(Head(down).dialog)
        THEN /\ logFileCache' = all
             /\ logFiles' = IF onlyLast THEN LastVersionsOf(all) ELSE all
        ELSE UNCHANGED <<logFiles, logFileCache>>
     /\ UNCHANGED <<up, server_r, globals_r, runs, runPage, dialog_r, filesRun, overlapped, shifted>>

RunNext ==
  \/ RunRegisters \/ RunRegistersStop \/ RunWritesStatus
  \/ \E a \in Aliases : RunLogsFile(a)
  \/ RunStatusChanges \/ RunNumberChanges \/ ServeRuns \/ RunsArrive
  \/ \E p \in 1 .. MaxRuns : RunPageChanges(p)
  \/ \E i \in 1 .. PerPage : Inspect(i)
  \/ CloseInspector \/ Refresh \/ ShowOnlyLast(TRUE) \/ ShowOnlyLast(FALSE)
  \/ ServeMeta \/ MetaArrives \/ ServeName \/ FilesArrive

------------------------------------------------------------------------------
Rows == Seq([id : 1 .. MaxRuns, status : {"Running", "Stopped"}])
Files == Seq([run : 1 .. MaxRuns, alias : Aliases, ts : 1 .. MaxMoves])

RunViewTypeOK ==
  /\ runlog \in Seq({"Running", "Stopped"})
  /\ runstatus \in {"Running", "Stopped"} /\ gRunStatus \in {"Running", "Stopped"}
  /\ gRunNumber \in 0 .. MaxRuns
  /\ runs \in Rows /\ runPage \in 1 .. MaxRuns
  /\ runToInspect \in 1 .. PerPage /\ openPopup \in BOOLEAN /\ onlyLast \in BOOLEAN
  /\ dialog \in 0 .. MaxMoves /\ opened \in 0 .. MaxMoves
  /\ logFiles \in Files /\ logFileCache \in Files /\ filesRun \in 0 .. MaxRuns
  /\ overlapped \in BOOLEAN /\ shifted \in BOOLEAN

(* Once no call or event is under way the table shows the server's page of   *)
(* runs, though it was read while runs started and stopped, and a new run    *)
(* moves the others to the next page.  It does not when an update began      *)
(* while another was under way (updateLogsPage clears the rows before its    *)
(* call and appends after it): each then adds its rows.                      *)
RowsRight ==
  LET page == RunsOfPage(runPage)
      quiet == Quiet("run") /\ (runlog = <<>> \/ runstatus = Last(runlog))
  IN (quiet /\ ~ overlapped /\ runlog # <<>>) => runs = page

(* The dialog's header and its table are of the same run, as long as the     *)
(* rows did not change since it was opened: the header goes by the row's     *)
(* index (runToInspect), the table by the run that the row had then.         *)
InspectorRight ==
  (openPopup /\ ~ shifted) =>
    /\ runToInspect \in DOMAIN runs
    /\ runs[runToInspect].id = filesRun
    /\ \A f \in Range(logFiles) : f.run = filesRun

(* While only the last versions are shown no alias is listed twice, and none  *)
(* in a version older than one that was read (changeDisplayMode), however     *)
(* refreshes overlap.                                                         *)
LastVersions ==
  LET pending == {m \in Range(up) \cup Range(down) : m.what \in {"meta", "name"}}
  IN (openPopup /\ onlyLast /\ pending = {}) =>
       \A i \in DOMAIN logFiles : \A g \in Range(logFileCache) :
         (logFiles[i].run = g.run /\ logFiles[i].alias = g.alias) =>
            /\ g.ts <= logFiles[i].ts
            /\ \A j \in DOMAIN logFiles : logFiles[j].alias = g.alias => i = j
=============================================================================
