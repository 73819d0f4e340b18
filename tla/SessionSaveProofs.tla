------------------------- MODULE SessionSaveProofs -------------------------
(***************************************************************************)
(* What holds of the session files for any number of changes: TypeOK,      *)
(* Restorable and CleanExit are invariants of SessionSave, and no step     *)
(* puts an older state in the place of a newer one (NeverOlder).           *)
(***************************************************************************)
EXTENDS SessionSave, TLAPS

AtMost(content, version) == content # Absent => content <= version

(* Nothing on disk or in memory is newer than the last change.             *)
KnownVersions ==
    /\ app.version <= made
    /\ disk["session"] # Torn /\ disk["history"] # Torn
    /\ AtMost(disk["session"], made) /\ AtMost(disk["history"], made)

(* One worker writes at a time: the loop starts only when the thread is    *)
(* done, and dead processes write nothing.                                 *)
OneWriter ==
    /\ \A w \in Workers : job[w] # NoJob => \A v \in Workers \ {w} : job[v] = NoJob
    /\ server \in {"down", "off"} => \A w \in Workers : job[w] = NoJob
    /\ server = "stopping" => job["loop"] = NoJob
    /\ server = "saving" => job["thread"] = NoJob

(* How far a job has come.                                                 *)
SoFar(j) ==
    /\ j.version <= app.version
    /\ j.history => ~j.closed
    /\ j.step = "rename" => tmp[j.file] = j.version
    /\ j.file = "session" =>
         /\ j.closed <=> j.step = "remove"
         /\ ~j.closed => AtMost(disk["history"], j.version)
    /\ j.file = "history" =>
         /\ j.history <=> j.step # "remove"
         /\ disk["session"] = IF j.closed THEN Absent ELSE j.version

Progress == \A w \in Workers : job[w] # NoJob => SoFar(job[w])

(* The history on disk belongs to the session on disk or to an older one;  *)
(* while no save is past the session file, only a save cut short leaves    *)
(* them apart.                                                             *)
Paired ==
    /\ ~app.closed => AtMost(disk["history"], app.version)
    /\ disk["session"] # Absent /\ disk["history"] # Absent =>
         /\ disk["history"] <= disk["session"]
         /\ ~cut /\ (\A w \in Workers : job[w] # NoJob => job[w].file = "session")
              => disk["history"] = disk["session"]

LastStateOnDisk ==
    /\ disk["session"] = IF app.closed THEN Absent ELSE app.version
    /\ disk["history"] = IF app.closed \/ ~keep THEN Absent ELSE app.version

(* The last save is of the last state.                                     *)
LastSave ==
    /\ server = "saving" /\ job["loop"] # NoJob =>
         /\ job["loop"].version = app.version
         /\ job["loop"].closed = app.closed
         /\ job["loop"].history <=> keep /\ ~app.closed
    /\ server \in {"saving", "off"} /\ job["loop"] = NoJob /\ ~cut => LastStateOnDisk

Inv == TypeOK /\ KnownVersions /\ OneWriter /\ Progress /\ Paired /\ LastSave
-----------------------------------------------------------------------------
(* A job that was just captured has got nowhere yet.                       *)
LEMMA CaptureIsJob ==
    ASSUME TypeOK
    PROVE  Capture \in Jobs /\ Capture # NoJob
<1>1. Capture \in Jobs
  BY DEF TypeOK, Capture, Jobs, Snapshots, Files
<1> QED BY <1>1, SessionSaveConstants

LEMMA CapturedSoFar ==
    ASSUME Inv
    PROVE  SoFar(Capture)
<1>1. /\ Capture.version = app.version
      /\ Capture.closed = app.closed
      /\ Capture.history = (keep /\ ~app.closed)
      /\ Capture.file = "session"
      /\ Capture.step = IF app.closed THEN "remove" ELSE "open"
  BY DEF Capture
<1>2. app.version \in Nat /\ app.closed \in BOOLEAN
  BY DEF Inv, TypeOK, Snapshots, Versions
<1>3. Capture.version <= app.version
  BY <1>1, <1>2
<1>4. Capture.history => ~Capture.closed
  BY <1>1, Zenon
<1>5. Capture.closed <=> Capture.step = "remove"
  BY <1>1, <1>2
<1>6. ~Capture.closed => AtMost(disk["history"], Capture.version)
  BY <1>1 DEF Inv, Paired
<1> QED BY <1>1, <1>3, <1>4, <1>5, <1>6 DEF SoFar

(* A job stays a job as it goes from step to step.                         *)
LEMMA JobStep ==
    ASSUME NEW j \in Jobs, NEW s \in {"open", "fill", "rename", "remove"}, NEW f \in Files
    PROVE  [j EXCEPT !.step = s] \in Jobs /\ [j EXCEPT !.file = f, !.step = s] \in Jobs
BY DEF Jobs

LEMMA InitInv ==
    ASSUME Init
    PROVE  Inv
<1> USE SessionSaveConstants DEF Init, Nothing, Idle
<1>1. TypeOK
  <2>1. 0 \in Versions
    BY DEF Versions
  <2> QED BY <2>1 DEF TypeOK, Snapshots, Contents
<1>2. KnownVersions /\ OneWriter /\ Progress /\ Paired
  BY DEF KnownVersions, OneWriter, Progress, Paired, AtMost, Files, Workers
<1>3. LastSave
  BY DEF LastSave
<1> QED BY <1>1, <1>2, <1>3 DEF Inv

LEMMA StartInv ==
    ASSUME Inv, Start
    PROVE  Inv'
<1>1. TypeOK'
  <2>1. 0 \in Versions
    BY SessionSaveConstants DEF Versions
  <2>2. app' \in Snapshots
    <3>1. CASE app' = Nothing
      BY <2>1, <3>1 DEF Nothing, Snapshots
    <3>2. CASE disk["session"] \in Versions
               /\ app' = [version |-> disk["session"], closed |-> FALSE]
      BY <3>2 DEF Snapshots
    <3> QED BY <3>1, <3>2 DEF Start
  <2> QED BY <2>2 DEF Inv, TypeOK, Start
<1>2. KnownVersions'
  BY SessionSaveConstants DEF Inv, TypeOK, KnownVersions, Progress, SoFar,
     AtMost, Start, Nothing, Snapshots, Versions, Jobs, Files, Contents
<1>3. OneWriter'
  BY DEF Inv, OneWriter, Start, Nothing, Workers
<1>4. Progress'
  BY DEF Inv, TypeOK, OneWriter, Progress, SoFar, AtMost, Start, Nothing,
     Workers, Files, Jobs, Versions
<1>5. Paired'
  BY SessionSaveConstants DEF Inv, TypeOK, KnownVersions, OneWriter,
     Progress, SoFar, Paired, AtMost, Start, Nothing, Files, Workers,
     Snapshots, Versions, Jobs, Contents
<1>6. LastSave'
  BY DEF Inv, LastSave, LastStateOnDisk, Start, Nothing
<1> QED BY <1>1, <1>2, <1>3, <1>4, <1>5, <1>6 DEF Inv

LEMMA ChangeInv ==
    ASSUME Inv, Change
    PROVE  Inv'
<1>1. TypeOK'
  <2>1. made + 1 \in Versions
    BY SessionSaveConstants DEF Inv, TypeOK, Change, Versions
  <2>2. app' \in Snapshots
    BY <2>1 DEF Inv, TypeOK, Change, Snapshots
  <2>3. dirty' \in BOOLEAN /\ deadline' \in BOOLEAN
    BY DEF Inv, TypeOK, Change
  <2> QED BY <2>1, <2>2, <2>3 DEF Inv, TypeOK, Change
<1>2. KnownVersions'
  BY DEF Inv, TypeOK, KnownVersions, Progress, SoFar, AtMost, Change,
     LoopFree, Snapshots, Versions, Jobs, Files, Contents
<1>3. OneWriter'
  BY DEF Inv, OneWriter, Change, LoopFree, Workers
<1>4. Progress'
  BY SessionSaveConstants DEF Inv, TypeOK, KnownVersions, OneWriter,
     Progress, SoFar, Paired, LastSave, LastStateOnDisk, AtMost, Change,
     LoopFree, Files, Workers, Snapshots, Versions, Contents, Jobs
<1>5. Paired'
  BY DEF Inv, TypeOK, KnownVersions, OneWriter, Progress, SoFar, Paired,
     AtMost, Change, LoopFree, Files, Workers, Snapshots, Versions, Jobs,
     Contents
<1>6. LastSave'
  BY DEF Inv, LastSave, LastStateOnDisk, Change, LoopFree
<1> QED BY <1>1, <1>2, <1>3, <1>4, <1>5, <1>6 DEF Inv

LEMMA SyncScheduleInv ==
    ASSUME Inv, SyncSchedule
    PROVE  Inv'
<1>1. TypeOK'
  BY DEF Inv, TypeOK, SyncSchedule, LoopFree
<1>2. KnownVersions'
  BY DEF Inv, KnownVersions, AtMost, SyncSchedule, LoopFree
<1>3. OneWriter'
  BY DEF Inv, OneWriter, SyncSchedule, LoopFree, Workers
<1>4. Progress'
  BY DEF Inv, Progress, SoFar, AtMost, SyncSchedule, LoopFree
<1>5. Paired'
  BY DEF Inv, Paired, AtMost, SyncSchedule, LoopFree
<1>6. LastSave'
  BY DEF Inv, LastSave, LastStateOnDisk, SyncSchedule, LoopFree
<1> QED BY <1>1, <1>2, <1>3, <1>4, <1>5, <1>6 DEF Inv

LEMMA DueInv ==
    ASSUME Inv, Due
    PROVE  Inv'
<1>1. TypeOK'
  BY CaptureIsJob DEF Inv, TypeOK, Due
<1>2. KnownVersions'
  BY DEF Inv, KnownVersions, AtMost, Due, LoopFree
<1>3. OneWriter'
  BY DEF Inv, OneWriter, Due, LoopFree, Workers
<1>4. Progress'
  <2>1. SoFar(Capture)
    BY CapturedSoFar
  <2> QED BY <2>1, CaptureIsJob
    DEF Inv, TypeOK, OneWriter, Progress, SoFar, AtMost, Due, Workers, LoopFree
<1>5. Paired'
  BY DEF Inv, TypeOK, KnownVersions, OneWriter, Progress, SoFar, Paired,
     AtMost, Due, LoopFree, Files, Workers, Snapshots, Versions, Jobs,
     Contents
<1>6. LastSave'
  BY DEF Inv, LastSave, LastStateOnDisk, Due, LoopFree
<1> QED BY <1>1, <1>2, <1>3, <1>4, <1>5, <1>6 DEF Inv

LEMMA ReloadInv ==
    ASSUME Inv, Reload
    PROVE  Inv'
<1>1. TypeOK'
  BY DEF Inv, TypeOK, Reload, LoopFree, Workers, Files, Contents, Versions,
     Jobs
<1>2. KnownVersions'
  BY SessionSaveConstants DEF Inv, TypeOK, KnownVersions, Progress, SoFar,
     AtMost, Reload, LoopFree, Snapshots, Versions, Jobs, Files, Contents
<1>3. OneWriter'
  BY DEF Inv, OneWriter, Reload, LoopFree, Workers
<1>4. Progress'
  BY DEF Inv, TypeOK, OneWriter, Progress, SoFar, AtMost, Reload, LoopFree,
     Workers, Files, Jobs, Versions
<1>5. Paired'
  BY DEF Inv, TypeOK, KnownVersions, OneWriter, Progress, SoFar, Paired,
     AtMost, Reload, LoopFree, Files, Workers, Snapshots, Versions, Jobs,
     Contents
<1>6. LastSave'
  BY DEF Inv, LastSave, LastStateOnDisk, Reload, LoopFree
<1> QED BY <1>1, <1>2, <1>3, <1>4, <1>5, <1>6 DEF Inv

LEMMA StopInv ==
    ASSUME Inv, Stop
    PROVE  Inv'
<1>1. TypeOK'
  BY DEF Inv, TypeOK, Stop, LoopFree
<1>2. KnownVersions'
  BY DEF Inv, KnownVersions, AtMost, Stop, LoopFree
<1>3. OneWriter'
  BY DEF Inv, OneWriter, Stop, LoopFree, Workers
<1>4. Progress'
  BY DEF Inv, Progress, SoFar, AtMost, Stop, LoopFree
<1>5. Paired'
  BY DEF Inv, Paired, AtMost, Stop, LoopFree
<1>6. LastSave'
  BY DEF Inv, LastSave, LastStateOnDisk, Stop, LoopFree
<1> QED BY <1>1, <1>2, <1>3, <1>4, <1>5, <1>6 DEF Inv

LEMMA SaveNowInv ==
    ASSUME Inv, SaveNow
    PROVE  Inv'
<1>1. TypeOK'
  BY CaptureIsJob DEF Inv, TypeOK, SaveNow
<1>2. KnownVersions'
  BY DEF Inv, KnownVersions, AtMost, SaveNow
<1>3. OneWriter'
  BY DEF Inv, OneWriter, SaveNow, Workers
<1>4. Progress'
  <2>1. SoFar(Capture)
    BY CapturedSoFar
  <2> QED BY <2>1, CaptureIsJob
    DEF Inv, TypeOK, OneWriter, Progress, SoFar, AtMost, SaveNow, Workers, LoopFree
<1>5. Paired'
  BY DEF Inv, TypeOK, KnownVersions, OneWriter, Progress, SoFar, Paired,
     AtMost, SaveNow, Files, Workers, Snapshots, Versions, Jobs, Contents
<1>6. LastSave'
  BY SessionSaveConstants, CaptureIsJob DEF Inv, TypeOK, OneWriter,
     Progress, SoFar, LastSave, LastStateOnDisk, SaveNow, Capture, Workers,
     Files, Jobs
<1> QED BY <1>1, <1>2, <1>3, <1>4, <1>5, <1>6 DEF Inv

LEMMA ExitInv ==
    ASSUME Inv, Exit
    PROVE  Inv'
<1>1. TypeOK'
  BY DEF Inv, TypeOK, Exit, Idle
<1>2. KnownVersions'
  BY DEF Inv, KnownVersions, AtMost, Exit, Idle
<1>3. OneWriter'
  BY DEF Inv, OneWriter, Exit, Idle, Workers
<1>4. Progress'
  BY DEF Inv, Progress, SoFar, AtMost, Exit, Idle
<1>5. Paired'
  BY DEF Inv, TypeOK, KnownVersions, OneWriter, Progress, SoFar, Paired,
     AtMost, Exit, Idle, Files, Workers, Snapshots, Versions, Jobs, Contents
<1>6. LastSave'
  BY DEF Inv, LastSave, LastStateOnDisk, Exit, Idle
<1> QED BY <1>1, <1>2, <1>3, <1>4, <1>5, <1>6 DEF Inv

LEMMA CrashInv ==
    ASSUME Inv, Crash
    PROVE  Inv'
<1>1. TypeOK'
  BY DEF Inv, TypeOK, Crash, Idle
<1>2. KnownVersions'
  BY DEF Inv, KnownVersions, AtMost, Crash, Idle
<1>3. OneWriter'
  BY DEF Inv, OneWriter, Crash, Idle, Workers
<1>4. Progress'
  BY DEF Inv, Progress, SoFar, AtMost, Crash, Idle
<1>5. Paired'
  BY DEF Inv, Paired, AtMost, Crash, Idle
<1>6. LastSave'
  BY DEF Inv, LastSave, LastStateOnDisk, Crash, Idle
<1> QED BY <1>1, <1>2, <1>3, <1>4, <1>5, <1>6 DEF Inv

LEMMA HandoffInv ==
    ASSUME Inv, Handoff
    PROVE  Inv'
<1>1. TypeOK'
  <2>1. app.version \in Versions
    BY DEF Inv, TypeOK, Snapshots
  <2> QED BY <2>1 DEF Inv, TypeOK, Handoff, LoopFree, Idle
<1>2. KnownVersions'
  BY DEF Inv, KnownVersions, AtMost, Handoff, LoopFree, Idle
<1>3. OneWriter'
  BY DEF Inv, OneWriter, Handoff, LoopFree, Idle, Workers
<1>4. Progress'
  BY DEF Inv, Progress, SoFar, AtMost, Handoff, LoopFree, Idle
<1>5. Paired'
  BY DEF Inv, Paired, AtMost, Handoff, LoopFree, Idle
<1>6. LastSave'
  BY DEF Inv, LastSave, LastStateOnDisk, Handoff, LoopFree, Idle
<1> QED BY <1>1, <1>2, <1>3, <1>4, <1>5, <1>6 DEF Inv

LEMMA OpenTmpInv ==
    ASSUME Inv, NEW w \in Workers, job[w] # NoJob, OpenTmp(w),
           UNCHANGED <<server, app, keep, dirty, deadline, made>>
    PROVE  Inv'
<1>1. TypeOK'
  <2>1. job[w] \in Jobs /\ job[w].file \in Files /\ job[w].version \in Versions
    BY DEF Inv, TypeOK, Jobs
  <2>2. [job[w] EXCEPT !.step = "fill"] \in Jobs
    BY <2>1, JobStep
  <2> QED BY <2>1, <2>2 DEF Inv, TypeOK, OpenTmp, Fails, Contents
<1>2. KnownVersions'
  BY DEF Inv, KnownVersions, AtMost, OpenTmp, Fails
<1>3. OneWriter'
  BY DEF Inv, TypeOK, OneWriter, OpenTmp, Fails, Workers
<1>4. Progress'
  BY DEF Inv, TypeOK, OneWriter, Progress, SoFar, AtMost, OpenTmp, Fails,
     Workers, Files, Jobs, Versions
<1>5. Paired'
  BY SessionSaveConstants DEF Inv, TypeOK, KnownVersions, OneWriter,
     Progress, SoFar, Paired, AtMost, OpenTmp, Fails, Files, Workers,
     Snapshots, Versions, Jobs, Contents
<1>6. LastSave'
  BY SessionSaveConstants DEF Inv, TypeOK, OneWriter, Progress, SoFar,
     LastSave, LastStateOnDisk, OpenTmp, Fails, Workers, Files, Jobs
<1> QED BY <1>1, <1>2, <1>3, <1>4, <1>5, <1>6 DEF Inv

LEMMA FillTmpInv ==
    ASSUME Inv, NEW w \in Workers, job[w] # NoJob, FillTmp(w),
           UNCHANGED <<server, app, keep, dirty, deadline, made>>
    PROVE  Inv'
<1>1. TypeOK'
  <2>1. job[w] \in Jobs /\ job[w].file \in Files /\ job[w].version \in Versions
    BY DEF Inv, TypeOK, Jobs
  <2>2. [job[w] EXCEPT !.step = "rename"] \in Jobs
    BY <2>1, JobStep
  <2> QED BY <2>1, <2>2 DEF Inv, TypeOK, FillTmp, Fails, Contents
<1>2. KnownVersions'
  BY DEF Inv, KnownVersions, AtMost, FillTmp, Fails
<1>3. OneWriter'
  BY DEF Inv, TypeOK, OneWriter, FillTmp, Fails, Workers
<1>4. Progress'
  BY DEF Inv, TypeOK, OneWriter, Progress, SoFar, AtMost, FillTmp, Fails,
     Workers, Files, Jobs, Versions
<1>5. Paired'
  BY SessionSaveConstants DEF Inv, TypeOK, KnownVersions, OneWriter,
     Progress, SoFar, Paired, AtMost, FillTmp, Fails, Files, Workers,
     Snapshots, Versions, Jobs, Contents
<1>6. LastSave'
  BY SessionSaveConstants DEF Inv, TypeOK, OneWriter, Progress, SoFar,
     LastSave, LastStateOnDisk, FillTmp, Fails, Workers, Files, Jobs
<1> QED BY <1>1, <1>2, <1>3, <1>4, <1>5, <1>6 DEF Inv

LEMMA RenameInv ==
    ASSUME Inv, NEW w \in Workers, job[w] # NoJob, Rename(w),
           UNCHANGED <<server, app, keep, dirty, deadline, made>>
    PROVE  Inv'
<1>1. TypeOK'
  <2>1. job[w] \in Jobs /\ job[w].file \in Files /\ job[w].version \in Versions
    BY DEF Inv, TypeOK, Jobs
  <2>2. [job[w] EXCEPT !.file = "history", !.step = IF job[w].history THEN "open" ELSE "remove"]
          \in Jobs
    BY <2>1, JobStep DEF Files
  <2> QED BY <2>1, <2>2 DEF Inv, TypeOK, Rename, Fails, FileDone, SessionDone, Completed, Contents
<1>2. KnownVersions'
  BY DEF Inv, TypeOK, KnownVersions, Progress, SoFar, AtMost, Rename, Fails,
     FileDone, SessionDone, Completed, Snapshots, Versions, Jobs, Files,
     Contents
<1>3. OneWriter'
  BY DEF Inv, TypeOK, OneWriter, Rename, Fails, FileDone, SessionDone,
     Completed, Workers
<1>4. Progress'
  BY DEF Inv, TypeOK, OneWriter, Progress, SoFar, AtMost, Rename, Fails,
     FileDone, SessionDone, Completed, Workers, Files, Jobs, Versions
<1>5. Paired'
  BY DEF Inv, TypeOK, KnownVersions, OneWriter, Progress, SoFar, Paired,
     AtMost, Rename, Fails, FileDone, SessionDone, Completed, Files,
     Workers, Snapshots, Versions, Jobs, Contents
<1>6. LastSave'
  BY DEF Inv, TypeOK, OneWriter, Progress, SoFar, LastSave, LastStateOnDisk,
     Rename, Fails, FileDone, SessionDone, Completed, Workers, Files, Jobs
<1> QED BY <1>1, <1>2, <1>3, <1>4, <1>5, <1>6 DEF Inv

LEMMA RemoveInv ==
    ASSUME Inv, NEW w \in Workers, job[w] # NoJob, Remove(w),
           UNCHANGED <<server, app, keep, dirty, deadline, made>>
    PROVE  Inv'
<1>1. TypeOK'
  <2>1. job[w] \in Jobs /\ job[w].file \in Files /\ job[w].version \in Versions
    BY DEF Inv, TypeOK, Jobs
  <2>2. [job[w] EXCEPT !.file = "history", !.step = IF job[w].history THEN "open" ELSE "remove"]
          \in Jobs
    BY <2>1, JobStep DEF Files
  <2> QED BY <2>1, <2>2 DEF Inv, TypeOK, Remove, Fails, FileDone, SessionDone, Completed, Contents
<1>2. KnownVersions'
  BY SessionSaveConstants DEF Inv, TypeOK, KnownVersions, Progress, SoFar,
     AtMost, Remove, Fails, FileDone, SessionDone, Completed, Snapshots,
     Versions, Jobs, Files, Contents
<1>3. OneWriter'
  BY DEF Inv, TypeOK, OneWriter, Remove, Fails, FileDone, SessionDone,
     Completed, Workers
<1>4. Progress'
  BY DEF Inv, TypeOK, OneWriter, Progress, SoFar, AtMost, Remove, Fails,
     FileDone, SessionDone, Completed, Workers, Files, Jobs, Versions
<1>5. Paired'
  BY DEF Inv, TypeOK, KnownVersions, OneWriter, Progress, SoFar, Paired,
     AtMost, Remove, Fails, FileDone, SessionDone, Completed, Files,
     Workers, Snapshots, Versions, Jobs, Contents
<1>6. LastSave'
  BY SessionSaveConstants DEF Inv, TypeOK, OneWriter, Progress, SoFar,
     LastSave, LastStateOnDisk, Remove, Fails, FileDone, SessionDone,
     Completed, Workers, Files, Jobs
<1> QED BY <1>1, <1>2, <1>3, <1>4, <1>5, <1>6 DEF Inv

LEMMA PostponeInv ==
    ASSUME Inv, UNCHANGED vars
    PROVE  Inv'
BY DEF vars, Inv, TypeOK, KnownVersions, OneWriter, Progress, SoFar, Paired, LastSave,
       LastStateOnDisk, AtMost

-----------------------------------------------------------------------------
LEMMA NextInv ==
    ASSUME Inv, [Next]_vars
    PROVE  Inv'
<1>1. CASE Start \/ Change \/ SyncSchedule \/ Due \/ Reload
  BY <1>1, StartInv, ChangeInv, SyncScheduleInv, DueInv, ReloadInv
<1>2. CASE Stop \/ SaveNow \/ Exit \/ Crash \/ Handoff
  BY <1>2, StopInv, SaveNowInv, ExitInv, CrashInv, HandoffInv
<1>3. ASSUME NEW w \in Workers, Write(w)
      PROVE  Inv'
  BY <1>3, OpenTmpInv, FillTmpInv, RenameInv, RemoveInv DEF Write
<1>4. CASE Postpone \/ UNCHANGED vars
  BY <1>4, PostponeInv DEF Postpone
<1> QED BY <1>1, <1>2, <1>3, <1>4 DEF Next

THEOREM Invariance == Spec => []Inv
<1>1. Init => Inv
  BY InitInv
<1>2. Inv /\ [Next]_vars => Inv'
  BY NextInv
<1> QED BY <1>1, <1>2, PTL DEF Spec

(* Every variable keeps to its values: app/session.rs, persist/io.rs.      *)
THEOREM TypeCorrect == Spec => []TypeOK
<1>1. Inv => TypeOK
  BY DEF Inv
<1> QED BY <1>1, Invariance, PTL

(* Whatever fails and whenever the server dies, the files are whole, and   *)
(* the history is never newer than the session (save_to_paths).            *)
THEOREM AlwaysRestorable == Spec => []Restorable
<1>1. Inv => Restorable
  BY DEF Inv, KnownVersions, Paired, Restorable, Idle
<1> QED BY <1>1, Invariance, PTL

(* A stopped server leaves its last state, and only that, on disk if its   *)
(* last save came to its end (save_session_now).                           *)
THEOREM ExitIsClean == Spec => []CleanExit
<1>1. Inv => CleanExit
  BY DEF Inv, OneWriter, LastSave, LastStateOnDisk, CleanExit, Workers
<1> QED BY <1>1, Invariance, PTL

-----------------------------------------------------------------------------
(* No file is ever replaced by an older state.                             *)

(* What is being saved, or will be, is not older than what is on disk.     *)
Newest ==
    /\ ~app.closed => AtMost(disk["session"], app.version)
    /\ \A w \in Workers :
         job[w] # NoJob /\ job[w].file = "session" /\ ~job[w].closed
           => AtMost(disk["session"], job[w].version)

LEMMA InitNewest == Init => Newest
BY DEF Init, Newest, Nothing, Idle, AtMost, Files, Workers

\* Steps that write no file.
LEMMA CalmNewest ==
    ASSUME Inv, Newest,
           \/ Start \/ Change \/ SyncSchedule \/ Reload \/ Stop
           \/ Exit \/ Crash \/ Handoff \/ UNCHANGED vars
    PROVE  Newest'
<1>1. UNCHANGED disk["session"]
  BY DEF Start, Change, SyncSchedule, Reload, Stop, Exit, Crash, Handoff, vars,
         Inv, TypeOK, Files
<1>2. \A w \in Workers : job'[w] # NoJob => job'[w] = job[w]
  BY DEF Start, Change, SyncSchedule, Reload, Stop, Exit, Crash, Handoff, vars, Idle
<1>3. ~app'.closed => AtMost(disk["session"], app'.version)
  <2>1. CASE Start
    BY <2>1, SessionSaveConstants
       DEF Start, Nothing, AtMost, Inv, TypeOK, Versions
  <2>2. CASE Change
    <3>1. app'.version = made + 1 /\ made \in Nat
      BY <2>2 DEF Change, Inv, TypeOK, Versions
    <3>2. disk["session"] # Absent => disk["session"] \in Nat /\ disk["session"] <= made
      BY DEF Inv, TypeOK, KnownVersions, AtMost, Files, Contents, Versions
    <3> QED BY <3>1, <3>2 DEF AtMost
  <2>3. CASE ~Start /\ ~Change
    BY <2>3 DEF SyncSchedule, Reload, Stop, Exit, Crash, Handoff, vars, Newest
  <2> QED BY <2>1, <2>2, <2>3
<1> QED BY <1>1, <1>2, <1>3 DEF Newest, AtMost

\* A snapshot is of the present state.
LEMMA CaptureNewest ==
    ASSUME Inv, Newest, Due \/ SaveNow
    PROVE  Newest'
<1>1. UNCHANGED <<disk, app>>
  BY DEF Due, SaveNow
<1>2. \A w \in Workers : job'[w] # NoJob => job'[w] \in {job[w], Capture}
  BY DEF Due, SaveNow, Inv, TypeOK
<1>3. Capture.version = app.version /\ Capture.closed = app.closed
  BY DEF Capture
<1> QED BY <1>1, <1>2, <1>3 DEF Newest

\* A step of a save leaves the session file alone, removes it, or puts the snapshot there.
LEMMA WriteLeaves ==
    ASSUME Inv, NEW w \in Workers, Write(w)
    PROVE  /\ UNCHANGED app
           /\ \A v \in Workers \ {w} : job[v] = NoJob /\ job'[v] = NoJob
           /\ job'[w] # NoJob => /\ job'[w].version = job[w].version
                                 /\ job'[w].closed = job[w].closed
           /\ \/ UNCHANGED disk
              \/ disk' = [disk EXCEPT ![job[w].file] = Absent] /\ job[w].step = "remove"
              \/ disk' = [disk EXCEPT ![job[w].file] = job[w].version] /\ job[w].step = "rename"
           /\ job'[w] # NoJob => job'[w].file = job[w].file \/ job[w].file = "session"
<1>1. job[w] \in Jobs /\ job[w] # NoJob /\ \A v \in Workers \ {w} : job[v] = NoJob
  BY DEF Write, Inv, TypeOK, OneWriter
<1>2. job[w].step = "rename" => tmp[job[w].file] = job[w].version
  BY <1>1 DEF Inv, Progress, SoFar
<1>3. \/ job' = [job EXCEPT ![w] = NoJob]
      \/ job' = [job EXCEPT ![w].step = "fill"]
      \/ job' = [job EXCEPT ![w].step = "rename"]
      \/ /\ job[w].file = "session"
         /\ job' = [job EXCEPT ![w].file = "history",
                               ![w].step = IF job[w].history THEN "open" ELSE "remove"]
  BY DEF Write, OpenTmp, FillTmp, Rename, Remove, Fails, FileDone, SessionDone, Completed
<1>4. \A v \in Workers \ {w} : job'[v] = job[v]
  BY <1>3 DEF Inv, TypeOK
<1>5. job'[w] # NoJob => /\ job'[w].version = job[w].version
                         /\ job'[w].closed = job[w].closed
                         /\ job'[w].file = job[w].file \/ job[w].file = "session"
  BY <1>1, <1>3 DEF Inv, TypeOK, Jobs
<1>6. \/ UNCHANGED disk
      \/ disk' = [disk EXCEPT ![job[w].file] = Absent] /\ job[w].step = "remove"
      \/ disk' = [disk EXCEPT ![job[w].file] = job[w].version] /\ job[w].step = "rename"
  BY <1>2 DEF Write, OpenTmp, FillTmp, Rename, Remove, Fails
<1> QED BY <1>1, <1>4, <1>5, <1>6 DEF Write

LEMMA WriteNewest ==
    ASSUME Inv, Newest, NEW w \in Workers, Write(w)
    PROVE  Newest' /\ \A f \in Files : disk[f] # Absent /\ disk'[f] # Absent => disk[f] <= disk'[f]
<1>1. /\ job[w] # NoJob /\ job[w] \in Jobs /\ SoFar(job[w])
      /\ \A f \in Files : disk[f] # Absent => disk[f] \in Nat
  BY DEF Write, Inv, TypeOK, Progress, KnownVersions, Files, Contents, Versions
<1>2. job[w].version \in Nat /\ app.version \in Nat /\ job[w].version <= app.version
      /\ job[w].file \in Files
  BY <1>1 DEF Inv, TypeOK, Snapshots, Jobs, SoFar, Versions
<1>3. CASE UNCHANGED disk
  BY <1>1, <1>3, WriteLeaves DEF Newest, AtMost, Jobs, Files
<1>4. CASE disk' = [disk EXCEPT ![job[w].file] = Absent]
  <2>1. \A f \in Files : disk'[f] \in {disk[f], Absent}
    BY <1>4 DEF Inv, TypeOK
  <2>2. job'[w] # NoJob /\ job'[w].file = "session" /\ ~job'[w].closed
          => AtMost(disk'["session"], job'[w].version)
    <3>1. CASE job[w].file = "session"
      BY <1>2, <1>4, <3>1 DEF AtMost, Inv, TypeOK, Files
    <3>2. CASE job[w].file # "session"
      BY <3>2, WriteLeaves
    <3> QED BY <3>1, <3>2
  <2> QED BY <1>1, <2>1, <2>2, WriteLeaves DEF Newest, AtMost, Files
<1>5. CASE disk' = [disk EXCEPT ![job[w].file] = job[w].version] /\ job[w].step = "rename"
  <2>1. job[w].file = "session" => ~job[w].closed
    BY <1>1, <1>5 DEF SoFar
  <2>2. AtMost(disk[job[w].file], job[w].version)
    <3>1. CASE job[w].file = "session"
      BY <1>1, <2>1, <3>1 DEF Newest
    <3>2. CASE job[w].file = "history"
      <4>1. job[w].history /\ ~job[w].closed
        BY <1>1, <1>5, <3>2 DEF SoFar, Jobs
      <4>2. disk["session"] = job[w].version
        BY <1>1, <3>2, <4>1 DEF SoFar
      <4> QED BY <1>2, <3>2, <4>2, SessionSaveConstants DEF Inv, Paired, AtMost
    <3> QED BY <1>2, <3>1, <3>2 DEF Files
  <2>3. \A f \in Files : disk'[f] = IF f = job[w].file THEN job[w].version ELSE disk[f]
    BY <1>5 DEF Inv, TypeOK
  <2>4. Newest'
    BY <1>1, <1>2, <2>1, <2>3, WriteLeaves DEF Newest, AtMost, Files
  <2> QED BY <1>1, <2>2, <2>3, <2>4 DEF AtMost
<1> QED BY <1>3, <1>4, <1>5, WriteLeaves

LEMMA CalmFiles ==
    ASSUME Inv, [Next]_vars, \A w \in Workers : ~Write(w), NEW f \in Files
    PROVE  disk'[f] \in {disk[f], Absent}
BY DEF Next, Start, Change, SyncSchedule, Postpone, Due, Reload, Stop, SaveNow, Exit, Crash,
       Handoff, vars, Inv, TypeOK, Files

(* Whichever process saved last, and whatever failed or crashed in between, *)
(* no file is replaced by an older state (start_background_session_save).  *)
THEOREM DiskNeverOlder == Spec => NeverOlder
<1>1. Init => Newest
  BY InitNewest
<1>2. Inv /\ Newest /\ [Next]_vars =>
        /\ Newest'
        /\ \A f \in Files : {disk[f], disk'[f]} \subseteq Versions => disk[f] <= disk'[f]
  <2> SUFFICES ASSUME Inv, Newest, [Next]_vars
               PROVE  /\ Newest'
                      /\ \A f \in Files :
                           {disk[f], disk'[f]} \subseteq Versions => disk[f] <= disk'[f]
    OBVIOUS
  <2>0. Absent \notin Versions
    BY SessionSaveConstants DEF Versions
  <2>1. CASE \E w \in Workers : Write(w)
    BY <2>0, <2>1, WriteNewest
  <2>2. CASE \A w \in Workers : ~Write(w)
    <3>1. Newest'
      BY <2>2, CalmNewest, CaptureNewest DEF Next, Postpone
    <3>2. \A f \in Files : disk[f] # Absent => disk[f] \in Nat
      BY DEF Inv, TypeOK, KnownVersions, Files, Contents, Versions
    <3> QED BY <2>0, <2>2, <3>1, <3>2, CalmFiles
  <2> QED BY <2>1, <2>2
<1> QED BY <1>1, <1>2, Invariance, PTL DEF Spec, NeverOlder

=============================================================================
