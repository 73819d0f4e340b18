---------------------------- MODULE SessionSave ----------------------------
(***************************************************************************)
(* Saving the session (app/session.rs, persist/io.rs).  The application    *)
(* loop marks its state changed, and after a pause a thread writes a       *)
(* snapshot of it; the loop itself writes one when it exits.  The session  *)
(* and its pane history are two files, each written under a temporary name *)
(* and renamed.  The server may crash between any two steps and be started *)
(* again, any file operation may fail, and a live handoff may put another  *)
(* process in its place.                                                   *)
(*                                                                         *)
(* A change gives the state a new version number, and a snapshot is its    *)
(* version.  The process a handoff replaces is taken to be gone before its *)
(* successor saves: it leaves within a second of the commit, and a save    *)
(* waits for five unless the successor is stopped at once.                 *)
(***************************************************************************)
EXTENDS Naturals

CONSTANTS
    Absent,    \* the file does not exist
    Torn,      \* it holds part of a snapshot
    NoJob,     \* nothing to write
    MaxChanges \* bound: changes of the state

Files == {"session", "history"}
Workers == {"thread", "loop"}
Versions == 0..MaxChanges

VARIABLES
    server,   \* "down", "running", "stopping", "saving" (its last save), "off"
    app,      \* the state: its version, and whether no workspace is open
    keep,     \* persist_pane_history
    dirty,    \* session_dirty
    deadline, \* session_save_deadline is set
    job,      \* what the save thread and the loop are writing
    disk,     \* the two files
    tmp,      \* and their temporary names
    made,     \* changes made so far, by every server
    lost,     \* history: the last version known not to have been saved
    cut       \* history: the last save did not come to its end

vars == <<server, app, keep, dirty, deadline, job, disk, tmp, made, lost, cut>>

Snapshots == [version : Versions, closed : BOOLEAN]
Jobs == [version : Versions, closed : BOOLEAN, history : BOOLEAN,
         file : Files, step : {"open", "fill", "rename", "remove"}]
Contents == Versions \cup {Absent, Torn}

ASSUME SessionSaveConstants ==
    /\ MaxChanges \in Nat
    /\ Absent \notin Nat /\ Torn \notin Nat /\ Absent # Torn
    /\ NoJob \notin Jobs

TypeOK ==
    /\ server \in {"down", "running", "stopping", "saving", "off"}
    /\ app \in Snapshots
    /\ keep \in BOOLEAN /\ dirty \in BOOLEAN /\ deadline \in BOOLEAN
    /\ job \in [Workers -> Jobs \cup {NoJob}]
    /\ disk \in [Files -> Contents]
    /\ tmp \in [Files -> Contents]
    /\ made \in Versions /\ lost \in Versions /\ cut \in BOOLEAN

Nothing == [version |-> 0, closed |-> TRUE]
Idle == [w \in Workers |-> NoJob]
LoopFree == server = "running" /\ job["loop"] = NoJob

Init ==
    /\ server = "down"
    /\ app = Nothing
    /\ keep = FALSE /\ dirty = FALSE /\ deadline = FALSE
    /\ job = Idle
    /\ disk = [f \in Files |-> Absent]
    /\ tmp = [f \in Files |-> Absent]
    /\ made = 0 /\ lost = 0 /\ cut = FALSE

-----------------------------------------------------------------------------
(* The server starts: without a session file, or one it can read and make  *)
(* workspaces of, it starts empty.                                         *)
Start ==
    /\ server \in {"down", "off"}
    /\ server' = "running"
    /\ \/ app' = Nothing
       \/ disk["session"] \in Versions
          /\ app' = [version |-> disk["session"], closed |-> FALSE]
    /\ keep' \in BOOLEAN
    /\ dirty' = FALSE /\ deadline' = FALSE
    /\ UNCHANGED <<job, disk, tmp, made, lost, cut>>

(* A command or an event changes the state; its handler either marks it    *)
(* changed or schedules the save.                                          *)
Change ==
    /\ LoopFree
    /\ made < MaxChanges
    /\ made' = made + 1
    /\ \E closed \in BOOLEAN : app' = [version |-> made + 1, closed |-> closed]
    /\ \/ dirty' = TRUE /\ UNCHANGED deadline
       \/ deadline' = TRUE /\ UNCHANGED dirty
    /\ UNCHANGED <<server, keep, job, disk, tmp, lost, cut>>

(* Once in every turn of the loop.                                         *)
SyncSchedule ==
    /\ LoopFree
    /\ dirty
    /\ dirty' = FALSE
    /\ deadline' = TRUE
    /\ UNCHANGED <<server, app, keep, job, disk, tmp, made, lost, cut>>

(* capture_session_save_job: with no workspace the files are removed.      *)
Capture ==
    [version |-> app.version, closed |-> app.closed, history |-> keep /\ ~app.closed,
     file |-> "session", step |-> IF app.closed THEN "remove" ELSE "open"]

(* Mutant: the deadline is taken before the thread is looked at.           *)
Postpone_Forgets ==
    /\ LoopFree
    /\ deadline
    /\ job["thread"] # NoJob
    /\ deadline' = FALSE
    /\ UNCHANGED <<server, app, keep, dirty, job, disk, tmp, made, lost, cut>>

(* The deadline passes while the thread of an earlier save still runs: it  *)
(* is put off.                                                             *)
Postpone ==
    /\ LoopFree
    /\ deadline
    /\ job["thread"] # NoJob
    /\ UNCHANGED vars

(* Mutant: the loop does not ask whether the thread still writes.          *)
Due_AnyTime ==
    /\ LoopFree
    /\ deadline
    /\ deadline' = FALSE
    /\ \E w \in Workers : job' = [job EXCEPT ![w] = Capture]
    /\ UNCHANGED <<server, app, keep, dirty, disk, tmp, made, lost, cut>>

(* It passes with no save running.  When no thread can be started, the     *)
(* loop writes the snapshot itself.                                        *)
Due ==
    /\ LoopFree
    /\ deadline
    /\ job["thread"] = NoJob
    /\ deadline' = FALSE
    /\ \E w \in Workers : job' = [job EXCEPT ![w] = Capture]
    /\ UNCHANGED <<server, app, keep, dirty, disk, tmp, made, lost, cut>>

(* The configuration is read again; turning the pane history off removes   *)
(* its file, or fails to.                                                  *)
Reload ==
    /\ LoopFree
    /\ keep' \in BOOLEAN
    /\ \/ UNCHANGED disk
       \/ ~keep' /\ disk' = [disk EXCEPT !["history"] = Absent]
    /\ UNCHANGED <<server, app, dirty, deadline, job, tmp, made, lost, cut>>

-----------------------------------------------------------------------------
(* Writing: the session file first, then the history file.                 *)
Completed(w) ==
    /\ job' = [job EXCEPT ![w] = NoJob]
    /\ cut' = FALSE

SessionDone(w) ==
    /\ job' = [job EXCEPT ![w].file = "history",
                          ![w].step = IF job[w].history THEN "open" ELSE "remove"]
    /\ UNCHANGED cut

FileDone(w) == IF job[w].file = "session" THEN SessionDone(w) ELSE Completed(w)

(* Mutant: a failure to write the session does not keep the history back.  *)
Fails_GoesOn(w) ==
    /\ FileDone(w)
    /\ lost' = IF job[w].file = "session" /\ job[w].version > lost THEN job[w].version ELSE lost

(* The step fails: the rest is left undone, and the failure only logged.   *)
Fails(w) ==
    /\ job' = [job EXCEPT ![w] = NoJob]
    /\ cut' = TRUE
    /\ lost' = IF job[w].file = "session" /\ job[w].version > lost THEN job[w].version ELSE lost

(* fs::write creates or empties the temporary file and fills it.           *)
OpenTmp(w) ==
    /\ job[w].step = "open"
    /\ UNCHANGED disk
    /\ \/ /\ tmp' = [tmp EXCEPT ![job[w].file] = Torn]
          /\ job' = [job EXCEPT ![w].step = "fill"]
          /\ UNCHANGED <<lost, cut>>
       \/ Fails(w) /\ UNCHANGED tmp

FillTmp(w) ==
    /\ job[w].step = "fill"
    /\ UNCHANGED disk
    /\ \/ /\ tmp' = [tmp EXCEPT ![job[w].file] = job[w].version]
          /\ job' = [job EXCEPT ![w].step = "rename"]
          /\ UNCHANGED <<lost, cut>>
       \/ Fails(w) /\ UNCHANGED tmp

(* A failed rename removes the temporary file.                             *)
Rename(w) ==
    /\ job[w].step = "rename"
    /\ tmp' = [tmp EXCEPT ![job[w].file] = Absent]
    /\ \/ /\ disk' = [disk EXCEPT ![job[w].file] = tmp[job[w].file]]
          /\ FileDone(w)
          /\ UNCHANGED lost
       \/ Fails(w) /\ UNCHANGED disk

(* clear_path: a file that is not there counts as removed.                 *)
Remove(w) ==
    /\ job[w].step = "remove"
    /\ UNCHANGED tmp
    /\ \/ /\ disk' = [disk EXCEPT ![job[w].file] = Absent]
          /\ FileDone(w)
          /\ UNCHANGED lost
       \/ Fails(w) /\ UNCHANGED disk

Write(w) ==
    /\ job[w] # NoJob
    /\ OpenTmp(w) \/ FillTmp(w) \/ Rename(w) \/ Remove(w)
    /\ UNCHANGED <<server, app, keep, dirty, deadline, made>>

-----------------------------------------------------------------------------
(* The loop ends; save_session_now joins the thread, then writes.          *)
Stop ==
    /\ LoopFree
    /\ server' = "stopping"
    /\ UNCHANGED <<app, keep, dirty, deadline, job, disk, tmp, made, lost, cut>>

(* Mutant: the thread is not joined.                                       *)
SaveNow_NoJoin ==
    /\ server = "stopping"
    /\ server' = "saving"
    /\ job' = [job EXCEPT !["loop"] = Capture]
    /\ UNCHANGED <<app, keep, dirty, deadline, disk, tmp, made, lost, cut>>

SaveNow ==
    /\ server = "stopping"
    /\ job["thread"] = NoJob
    /\ server' = "saving"
    /\ job' = [job EXCEPT !["loop"] = Capture]
    /\ UNCHANGED <<app, keep, dirty, deadline, disk, tmp, made, lost, cut>>

(* What is left running dies with the process.                             *)
Exit ==
    /\ server = "saving"
    /\ job["loop"] = NoJob
    /\ server' = "off"
    /\ job' = Idle
    /\ deadline' = FALSE
    /\ UNCHANGED <<app, keep, dirty, disk, tmp, made, lost, cut>>

Crash ==
    /\ server \in {"running", "stopping", "saving"}
    /\ server' = "down"
    /\ job' = Idle
    /\ cut' = (cut \/ job # Idle)
    /\ UNCHANGED <<app, keep, dirty, deadline, disk, tmp, made, lost>>

(* A committed handoff: the new process has the state, read the            *)
(* configuration itself, and knows of no change yet to be saved.  The old  *)
(* one exits without saving (no_session).                                  *)
Handoff ==
    /\ LoopFree
    /\ keep' \in BOOLEAN
    /\ dirty' = FALSE /\ deadline' = FALSE
    /\ job' = Idle
    /\ cut' = (cut \/ job # Idle)
    /\ lost' = IF app.version > lost THEN app.version ELSE lost
    /\ UNCHANGED <<server, app, disk, tmp, made>>

Next ==
    \/ Start \/ Change \/ SyncSchedule \/ Postpone \/ Due \/ Reload
    \/ \E w \in Workers : Write(w)
    \/ Stop \/ SaveNow \/ Exit \/ Crash \/ Handoff

(* The loop runs, deadlines pass and file operations return; nobody has to *)
(* start, change, stop, crash or replace the server.                       *)
Fairness ==
    /\ WF_vars(SyncSchedule)
    /\ WF_vars(Due)
    /\ \A w \in Workers : WF_vars(Write(w))

Spec == Init /\ [][Next]_vars /\ Fairness

-----------------------------------------------------------------------------
(* What a server restores: each file is the whole snapshot of one state,   *)
(* the history (joined to the session by position) is never newer than the *)
(* session, and is of the same state unless a save is under way or the     *)
(* last one was cut short (save_to_paths, load, load_history).             *)
Restorable ==
    /\ Torn \notin {disk["session"], disk["history"]}
    /\ disk["session"] # Absent /\ disk["history"] # Absent =>
         /\ disk["history"] <= disk["session"]
         /\ job = Idle /\ ~cut => disk["history"] = disk["session"]

(* A server that stopped, and whose last save came to its end, leaves its  *)
(* last state on disk, with the history only if it is to be kept, whatever *)
(* save was running or due when it was stopped (save_session_now).         *)
CleanExit ==
    server = "off" /\ ~cut =>
        /\ disk["session"] = IF app.closed THEN Absent ELSE app.version
        /\ disk["history"] = IF app.closed \/ ~keep THEN Absent ELSE app.version

(* A file is never replaced by an older state, not by a save that was      *)
(* overtaken, by the final one, nor after a failure, a crash, a restart or *)
(* a handoff (start_background_session_save, save_session_now).            *)
NeverOlder ==
    [][\A f \in Files : {disk[f], disk'[f]} \subseteq Versions => disk[f] <= disk'[f]]_vars

Saved == disk["session"] = IF app.closed THEN Absent ELSE app.version

(* A change is on disk some time after the changes have stopped, although  *)
(* the flag and the deadline are cleared before anything is written and a  *)
(* running save puts off the next; only a failed save of that state, a     *)
(* crash, or a handoff (which drops the deadline) may prevent it           *)
(* (sync_session_save_schedule, start_background_session_save).            *)
ChangeReachesDisk ==
    (server = "running" /\ app.version > lost)
        ~> (Saved \/ server # "running" \/ app.version <= lost)

=============================================================================
