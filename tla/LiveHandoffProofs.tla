------------------------- MODULE LiveHandoffProofs -------------------------
(***************************************************************************)
(* LiveHandoff implements PaneCustody, for any panes and any number of       *)
(* handoffs: an inductive invariant, then one abstract step (or none) for    *)
(* every step of either process; and in the last part, who is found at the   *)
(* public sockets.                                                           *)
(***************************************************************************)
EXTENDS LiveHandoff, TLAPS

Lines(queue) == {queue[k] : k \in DOMAIN queue}

\* Where the old server has no import process, where it has paused panes, and where it has
\* paused them all.
Alone   == {"serving", "pausing", "spawning", "closing", "rebinding api", "rebinding client",
            "rollingback"}
Waiting == {"spawning", "duplicating", "accepting", "validating", "sending", "restoring",
            "unpublishing", "readying", "committing", "draining"}
Pausing == Waiting \cup {"pausing", "closing", "rebinding api", "rebinding client", "rollingback"}
Past    == {"draining", "acking", "stopped"}
Built   == {"waiting", "publishing api", "publishing client", "uncommitted", "assuming", "running"}

\* A failed handoff leaves no import process, and no line of it.
AloneInv ==
  /\ old \in Alone => ~NewRuns
  /\ old \in {"pausing", "spawning"} => toOld = <<>>

\* Panes stay paused until the rollback, which is posted after the last of these steps.
PausedInv ==
  /\ old \in Pausing => \A p \in paused : p \notin resume["old"]
  /\ old \in Pausing => \A p \in paused : actor["old"][p] # "running"
  /\ old \in Waiting => paused = Shown
  /\ old = "serving" => paused = {}

\* An old server that runs and has not committed still has its actors.
HoldInv == OldRuns /\ ~committed => \A p \in Panes : actor["old"][p] # "none"

\* Before the commit the new server reads nothing; after it the old one reads nothing.
CommitInv ==
  /\ committed => old \in Past \cup {"crashed"}
  /\ old \in Past => committed
  /\ committed => \A p \in Shown : p \notin resume["old"] /\ actor["old"][p] # "running"
  /\ ~OldRuns => \A p \in Panes : p \notin resume["old"] /\ actor["old"][p] = "none"
  /\ old = "acking" => \A p \in Panes : actor["old"][p] = "none"
  /\ ~committed =>
       /\ new \notin {"assuming", "running"}
       /\ "committed" \notin Lines(toNew)
       /\ resume["new"] = {}
       /\ \A p \in Panes : actor["new"][p] # "running"

\* An import that has built its runtimes keeps them, and has built them once it is ready.
Ripe == \/ "ready" \in Lines(toOld) \/ old = "committing" \/ committed
ImportInv ==
  /\ ~NewRuns => resume["new"] = {} /\ \A p \in Panes : actor["new"][p] = "none"
  /\ new \in Built => \A p \in Shown : actor["new"][p] # "none"
  /\ Ripe /\ NewRuns =>
       /\ new \in {"uncommitted", "assuming", "running", "failing"}
       /\ \A p \in Shown : actor["new"][p] # "none"
  /\ \A p \in Panes \ Shown : actor["new"][p] = "none"

\* Until it takes over, the import's runtimes would survive it, and none is unpaused.
ChildInv ==
  /\ new # "running" => resume["new"] = {}
  /\ new # "running" => keeps \/ \A p \in Panes : actor["new"][p] = "none"
  /\ OnlyPopupsKilled

IInv ==
  /\ TypeOK /\ AloneInv /\ PausedInv /\ HoldInv /\ CommitInv /\ ImportInv /\ ChildInv

-----------------------------------------------------------------------------
(* The lines of a queue. *)

\* Appending a line adds it.
LEMMA LinesAppended ==
  ASSUME NEW S, NEW queue \in Seq(S), NEW line \in S
  PROVE  Lines(Append(queue, line)) = Lines(queue) \cup {line}
<1>1. DOMAIN queue = 1..Len(queue) /\ Len(queue) \in Nat
  OBVIOUS
<1>2. /\ DOMAIN Append(queue, line) = 1..(Len(queue) + 1)
      /\ \A k \in 1..Len(queue) : Append(queue, line)[k] = queue[k]
      /\ Append(queue, line)[Len(queue) + 1] = line
  OBVIOUS
<1>3. QED
  BY <1>1, <1>2 DEF Lines

\* The line read is taken out, the others stay.
LEMMA LinesRead ==
  ASSUME NEW S, NEW queue \in Seq(S), queue # <<>>
  PROVE  Lines(queue) = {Head(queue)} \cup Lines(Tail(queue))
<1>1. DOMAIN queue = 1..Len(queue) /\ Len(queue) \in Nat \ {0} /\ Head(queue) = queue[1]
  OBVIOUS
<1>2. /\ DOMAIN Tail(queue) = 1..(Len(queue) - 1)
      /\ \A k \in 1..(Len(queue) - 1) : Tail(queue)[k] = queue[k + 1]
  OBVIOUS
<1>3. \A k \in 2..Len(queue) : queue[k] = Tail(queue)[k - 1] /\ k - 1 \in DOMAIN Tail(queue)
  BY <1>1, <1>2
<1>4. Lines(queue) \subseteq {Head(queue)} \cup Lines(Tail(queue))
  <2> SUFFICES ASSUME NEW k \in DOMAIN queue 
                 PROVE  queue[k] \in {Head(queue)} \cup Lines(Tail(queue))
    BY DEF Lines
  <2>1. CASE k = 1
    BY <1>1, <2>1
  <2>2. CASE k \in 2..Len(queue)
    BY <1>3, <2>2 DEF Lines
  <2>3. QED
    BY <1>1, <2>1, <2>2
<1>5. {Head(queue)} \cup Lines(Tail(queue)) \subseteq Lines(queue)
  BY <1>1, <1>2 DEF Lines
<1>6. QED
  BY <1>4, <1>5

\* An empty queue has none.
LEMMA NoLines == Lines(<<>>) = {}
BY DEF Lines

-----------------------------------------------------------------------------
(* Types. *)

\* The servers stay at their steps, and their flags Boolean.
LEMMA ServersTyped == TypeOK /\ [Next]_vars => TypeServers'
<1> SUFFICES ASSUME TypeOK, [Next]_vars PROVE TypeServers'
  OBVIOUS
<1> USE DEF TypeOK, TypeServers, Goes, Moves, Frame, PauseFrame, ImportFrame, VisitorFrame,
            chanVars, ptyVars, sockVars
<1> USE ConstantsAssumption
<1>1. CASE BeginHandoff
  <2>1. /\ old' = "pausing" /\ new' = "none" /\ result' = "none" /\ attempts' = attempts + 1
        /\ attempts < MaxAttempts /\ UNCHANGED <<dups, keeps, committed, visitor>>
    BY <1>1 DEF BeginHandoff
  <2>2. attempts + 1 \in 0..MaxAttempts
    BY <2>1
  <2>3. old' \in OldSteps /\ new' \in NewSteps
    BY <2>1 DEF OldSteps, NewSteps
  <2>4. QED
    BY <2>1, <2>2, <2>3
<1>2. ASSUME NEW p \in Pausable, PausePane(p) PROVE TypeServers'
  BY <1>2 DEF PausePane, Pausable
<1>3. ASSUME NEW p \in Pausable, PauseFails(p) PROVE TypeServers'
  BY <1>3 DEF PauseFails, Pausable, OldSteps, NewSteps
<1>4. CASE Snapshot
  BY <1>4 DEF Snapshot, OldSteps, NewSteps
<1>5. CASE Spawn
  BY <1>5 DEF Spawn, OldSteps, NewSteps
<1>6. CASE SpawnFails
  BY <1>6 DEF SpawnFails, OldSteps, NewSteps
<1>7. CASE Duplicate
  BY <1>7 DEF Duplicate, OldSteps, NewSteps
<1>8. CASE DuplicateFails
  BY <1>8 DEF DuplicateFails, KillImport, ImportGone, OldSteps, NewSteps
<1>9. CASE Accept
  BY <1>9 DEF Accept, OldSteps, NewSteps
<1>10. CASE Validated
  BY <1>10 DEF Validated, OldSteps, NewSteps
<1>11. CASE SendFds
  BY <1>11 DEF SendFds, OldSteps, NewSteps
<1>12. CASE Restored
  BY <1>12 DEF Restored, OldSteps, NewSteps
<1>13. CASE GiveUp
  BY <1>13 DEF GiveUp, KillImport, ImportGone, OldSteps, NewSteps
<1>14. CASE Unpublish
  BY <1>14 DEF Unpublish, OldSteps, NewSteps
<1>15. CASE Ready
  BY <1>15 DEF Ready, OldSteps, NewSteps
<1>16. CASE Commit
  BY <1>16 DEF Commit, OldSteps, NewSteps
<1>17. CASE GiveUpUnpublished
  BY <1>17 DEF GiveUpUnpublished, KillImport, ImportGone, OldSteps, NewSteps
<1>18. CASE SeenClosed
  BY <1>18 DEF SeenClosed, OldSteps, NewSteps, Answers
<1>19. CASE RebindApi
  BY <1>19 DEF RebindApi, Bind, OldSteps, NewSteps, Answers
<1>20. CASE RebindClient
  BY <1>20 DEF RebindClient, OldSteps, NewSteps, Answers
<1>21. CASE RestoreFails
  BY <1>21 DEF RestoreFails, OldSteps, NewSteps, Answers
<1>22. CASE Rollback
  BY <1>22 DEF Rollback, Unpaused, OldSteps, NewSteps
<1>23. CASE Drained
  BY <1>23 DEF Drained, OldSteps, NewSteps
<1>24. CASE Finish
  BY <1>24 DEF Finish, OldSteps, NewSteps
<1>25. ASSUME NEW p \in Panes, Drain(p) PROVE TypeServers'
  BY <1>25 DEF Drain
<1>26. CASE OldCrashes
  BY <1>26 DEF OldCrashes, OldSteps, NewSteps
<1>27. CASE Connect
  BY <1>27 DEF Connect, OldSteps, NewSteps
<1>28. CASE ReadManifest
  BY <1>28 DEF ReadManifest, OldSteps, NewSteps
<1>29. CASE ReceiveFds
  BY <1>29 DEF ReceiveFds, OldSteps, NewSteps
<1>30. CASE Import
  BY <1>30 DEF Import, ImportedKeeps, OldSteps, NewSteps
<1>31. CASE SocketsFree
  BY <1>31 DEF SocketsFree, OldSteps, NewSteps, Answers
<1>32. CASE PublishApi
  BY <1>32 DEF PublishApi, Bind, OldSteps, NewSteps, Answers
<1>33. CASE PublishClient
  BY <1>33 DEF PublishClient, Bind, OldSteps, NewSteps, Answers
<1>34. CASE HearCommit
  BY <1>34 DEF HearCommit, OldSteps, NewSteps
<1>35. CASE Assume
  BY <1>35 DEF Assume, OldSteps, NewSteps
<1>36. CASE ImportFails
  BY <1>36 DEF ImportFails, OldSteps, NewSteps
<1>37. CASE ImportExits
  BY <1>37 DEF ImportExits, ImportGone, OldSteps, NewSteps
<1>38. CASE ImportCrashes
  BY <1>38 DEF ImportCrashes, KillImport, ImportGone, OldSteps, NewSteps
<1>39. CASE ActorStep
  BY <1>39 DEF ActorStep, ActorResumes
<1>40. CASE VisitorStarts
  BY <1>40 DEF VisitorStarts
<1>41. CASE VisitorServes
  BY <1>41 DEF VisitorServes
<1>42. CASE UNCHANGED vars
  <2>1. UNCHANGED <<old, new, dups, keeps, committed, result, attempts, visitor>>
    BY <1>42 DEF vars
  <2>2. QED
    BY <2>1
<1>43. QED
  BY <1>1, <1>2, <1>3, <1>4, <1>5, <1>6, <1>7, <1>8, <1>9, <1>10, <1>11, <1>12, <1>13, <1>14,
     <1>15, <1>16, <1>17, <1>18, <1>19, <1>20, <1>21, <1>22, <1>23, <1>24, <1>25, <1>26,
     <1>27, <1>28, <1>29, <1>30, <1>31, <1>32, <1>33, <1>34, <1>35, <1>36, <1>37, <1>38,
     <1>39, <1>40, <1>41, <1>42 DEF Next, OldStep, ImportStep, vars

\* Only lines of the protocol are ever written.
LEMMA LinesTyped == TypeOK /\ [Next]_vars => TypeLines'
<1> SUFFICES ASSUME TypeOK, [Next]_vars PROVE TypeLines'
  OBVIOUS
<1> USE DEF TypeOK, TypeLines, Reportable, Sendable, Goes, Moves, Frame, PauseFrame,
   ImportFrame, VisitorFrame,
            chanVars, ptyVars, sockVars
<1>1. CASE BeginHandoff
  BY <1>1 DEF BeginHandoff, Answers
<1>2. CASE DuplicateFails
  BY <1>2 DEF DuplicateFails, KillImport, ImportGone
<1>3. CASE Accept
  BY <1>3 DEF Accept, Heard
<1>4. CASE Validated
  BY <1>4 DEF Validated, Heard
<1>5. CASE SendFds
  BY <1>5 DEF SendFds
<1>6. CASE Restored
  BY <1>6 DEF Restored, Heard
<1>7. CASE GiveUp
  BY <1>7 DEF GiveUp, KillImport, ImportGone
<1>8. CASE Ready
  BY <1>8 DEF Ready, Heard
<1>9. CASE Commit
  BY <1>9 DEF Commit
<1>10. CASE GiveUpUnpublished
  BY <1>10 DEF GiveUpUnpublished, KillImport, ImportGone
<1>11. CASE Connect
  BY <1>11 DEF Connect, Reports
<1>12. CASE ReadManifest
  BY <1>12 DEF ReadManifest, Receives, Reports
<1>13. CASE ReceiveFds
  BY <1>13 DEF ReceiveFds, Receives
<1>14. CASE Import
  BY <1>14 DEF Import, Reports
<1>15. CASE PublishClient
  <2>1. toOld' = Append(toOld, "ready") /\ toNew' = toNew
    BY <1>15 DEF PublishClient, Reports
  <2>2. QED
    BY <2>1
<1>16. CASE HearCommit
  BY <1>16 DEF HearCommit, Receives
<1>17. CASE Assume
  BY <1>17 DEF Assume
<1>18. CASE ImportExits
  BY <1>18 DEF ImportExits, ImportGone
<1>19. CASE ImportCrashes
  BY <1>19 DEF ImportCrashes, KillImport, ImportGone
<1>20. CASE UNCHANGED chanVars
  BY <1>20
<1>21. ASSUME NEW p \in Pausable, PausePane(p) PROVE TypeLines'
  BY <1>20, <1>21 DEF PausePane, Pausable
<1>22. ASSUME NEW p \in Pausable, PauseFails(p) PROVE TypeLines'
  BY <1>20, <1>22 DEF PauseFails, Pausable
<1>23. ASSUME NEW p \in Panes, Drain(p) PROVE TypeLines'
  BY <1>20, <1>23 DEF Drain
<1>24. CASE \/ Snapshot
     \/ Spawn
     \/ SpawnFails
     \/ Duplicate
     \/ Unpublish
     \/ SeenClosed
     \/ RebindApi
     \/ RebindClient
     \/ RestoreFails
     \/ Rollback
     \/ Drained
     \/ Finish
     \/ OldCrashes
     \/ SocketsFree
     \/ PublishApi
     \/ ImportFails
     \/ ActorStep
     \/ VisitorStarts
     \/ VisitorServes
  BY <1>20, <1>24 DEF ActorResumes, ActorStep, Answers, Bind, Drained, Duplicate, Finish,
     ImportFails, OldCrashes, PublishApi, RebindApi, RebindClient, RestoreFails, Rollback,
     SeenClosed, Snapshot, SocketsFree, Spawn, SpawnFails, Unpublish, VisitorServes,
     VisitorStarts
<1>25. QED
  BY <1>1, <1>2, <1>3, <1>4, <1>5, <1>6, <1>7, <1>8, <1>9, <1>10, <1>11, <1>12, <1>13, <1>14,
     <1>15, <1>16, <1>17, <1>18, <1>19, <1>20, <1>21, <1>22, <1>23, <1>24 DEF Next, OldStep,
     ImportStep, vars

\* Actors, rollbacks and processes belong to panes; only panes in a tab are paused.
LEMMA PtysTyped == TypeOK /\ [Next]_vars => TypePtys'
<1> SUFFICES ASSUME TypeOK, [Next]_vars PROVE TypePtys'
  OBVIOUS
<1> USE DEF TypeOK, TypePtys, Servers, Panes, Goes, Moves, Frame, PauseFrame, ImportFrame,
   VisitorFrame,
            chanVars, ptyVars, sockVars
<1>1. ASSUME NEW p \in Pausable, PausePane(p) PROVE TypePtys'
  BY <1>1 DEF PausePane, Pausable
<1>2. ASSUME NEW p \in Pausable, PauseFails(p) PROVE TypePtys'
  BY <1>2 DEF PauseFails, Pausable
<1>3. CASE DuplicateFails
  BY <1>3 DEF DuplicateFails, KillImport, ImportGone
<1>4. CASE GiveUp
  BY <1>4 DEF GiveUp, KillImport, ImportGone
<1>5. CASE GiveUpUnpublished
  BY <1>5 DEF GiveUpUnpublished, KillImport, ImportGone
<1>6. CASE Rollback
  BY <1>6 DEF Rollback, Unpaused
<1>7. ASSUME NEW p \in Panes, Drain(p) PROVE TypePtys'
  BY <1>7 DEF Drain
<1>8. CASE OldCrashes
  BY <1>8 DEF OldCrashes
<1>9. CASE Import
  BY <1>9 DEF Import
<1>10. CASE Assume
  BY <1>10 DEF Assume
<1>11. CASE ImportExits
  BY <1>11 DEF ImportExits, ImportGone
<1>12. CASE ImportCrashes
  BY <1>12 DEF ImportCrashes, KillImport, ImportGone
<1>13. CASE ActorStep
  BY <1>13 DEF ActorStep, ActorResumes
<1>14. CASE UNCHANGED <<ptyVars, paused>>
  BY <1>14
<1>15. CASE \/ BeginHandoff
     \/ Snapshot
     \/ Spawn
     \/ SpawnFails
     \/ Duplicate
     \/ Accept
     \/ Validated
     \/ SendFds
     \/ Restored
     \/ Unpublish
     \/ Ready
     \/ Commit
     \/ SeenClosed
     \/ RebindApi
     \/ RebindClient
     \/ RestoreFails
     \/ Drained
     \/ Finish
     \/ Connect
     \/ ReadManifest
     \/ ReceiveFds
     \/ SocketsFree
     \/ PublishApi
     \/ PublishClient
     \/ HearCommit
     \/ ImportFails
     \/ VisitorStarts
     \/ VisitorServes
  BY <1>14, <1>15 DEF Accept, Answers, BeginHandoff, Bind, Commit, Connect, Drained,
     Duplicate, Finish, HearCommit, ImportFails, PublishApi, PublishClient, ReadManifest,
     Ready, RebindApi, RebindClient, ReceiveFds, RestoreFails, Restored, SeenClosed, SendFds,
     Snapshot, SocketsFree, Spawn, SpawnFails, Unpublish, Validated, VisitorServes,
     VisitorStarts
<1>16. QED
  BY <1>1, <1>2, <1>3, <1>4, <1>5, <1>6, <1>7, <1>8, <1>9, <1>10, <1>11, <1>12, <1>13, <1>14,
     <1>15 DEF Next, OldStep, ImportStep, vars

\* A bind keeps the types.
LEMMA BindTyped ==
  ASSUME TypeSockets, NEW path \in Paths, NEW owner \in Owners, Bind(path, owner), mine' = mine
  PROVE  TypeSockets'
<1> HIDE DEF Owners
<1>1. file' \in [Paths -> Owners \cup {NoFile}] /\ mine' \in [Paths -> Owners]
  BY DEF TypeSockets, Bind
<1>2. listening' \subseteq Paths \X Owners
  BY DEF TypeSockets, Bind
<1>3. QED
  BY <1>1, <1>2 DEF TypeSockets

\* The files at the public paths belong to listeners that were bound there.
LEMMA SocketsTyped == TypeOK /\ [Next]_vars => TypeSockets'
<1> SUFFICES ASSUME TypeOK, [Next]_vars PROVE TypeSockets'
  OBVIOUS
<1> USE DEF TypeOK, TypeSockets, Paths, Owners, NoFile, Goes, Moves, Frame, PauseFrame,
   ImportFrame, VisitorFrame,
            chanVars, ptyVars, sockVars
<1> DEFINE oldId == <<"old", attempts>>
<1>ids. NewId \in Owners /\ oldId \in Owners /\ VisitorId \in Owners
  BY ConstantsAssumption DEF TypeServers, NewId, VisitorId
<1> HIDE DEF Owners, oldId
<1>1. CASE DuplicateFails
  BY <1>1 DEF DuplicateFails, KillImport, ImportGone, Closed
<1>2. CASE GiveUp
  BY <1>2 DEF GiveUp, KillImport, ImportGone, Closed
<1>3. CASE Unpublish
  BY <1>3 DEF Unpublish, WithoutOwn
<1>4. CASE GiveUpUnpublished
  BY <1>4 DEF GiveUpUnpublished, KillImport, ImportGone, Closed
<1>5. CASE RebindApi
  <2>1. Bind("api", oldId) /\ mine' = mine
    BY <1>5 DEF RebindApi, oldId
  <2>2. QED
    BY <1>ids, <2>1, BindTyped DEF Paths
<1>6. CASE RebindClient
  <2>1. /\ mine' = [path \in Paths |-> oldId]
        /\ file' = [WithoutOwn(file, mine) EXCEPT !["client"] = oldId]
        /\ listening' = listening \cup {<<"client", oldId>>}
    BY <1>6 DEF RebindClient, oldId
  <2>2. WithoutOwn(file, mine) \in [Paths -> Owners \cup {NoFile}]
    BY DEF WithoutOwn
  <2>3. QED
    BY <1>ids, <2>1, <2>2
<1>7. CASE Finish
  BY <1>7 DEF Finish, AfterFinish, WithoutOwn, Closed
<1>8. CASE OldCrashes
  BY <1>8 DEF OldCrashes, Closed
<1>9. CASE PublishApi
  <2>1. Bind("api", NewId) /\ mine' = mine
    BY <1>9 DEF PublishApi
  <2>2. QED
    BY <1>ids, <2>1, BindTyped DEF Paths
<1>10. CASE PublishClient
  <2>1. Bind("client", NewId) /\ mine' = mine
    BY <1>10 DEF PublishClient
  <2>2. QED
    BY <1>ids, <2>1, BindTyped DEF Paths
<1>11. CASE ImportExits
  BY <1>11 DEF ImportExits, ImportGone, WithoutOwn, Closed
<1>12. CASE ImportCrashes
  BY <1>12 DEF ImportCrashes, KillImport, ImportGone, Closed
<1>13. CASE VisitorStarts
  <2>1. Bind("api", VisitorId) /\ mine' = mine
    BY <1>13 DEF VisitorStarts
  <2>2. QED
    BY <1>ids, <2>1, BindTyped DEF Paths
<1>14. CASE VisitorServes
  <2>1. Bind("client", VisitorId) /\ mine' = mine
    BY <1>14 DEF VisitorServes
  <2>2. QED
    BY <1>ids, <2>1, BindTyped DEF Paths
<1>15. CASE UNCHANGED sockVars
  BY <1>15
<1>16. ASSUME NEW p \in Pausable, PausePane(p) PROVE TypeSockets'
  BY <1>15, <1>16 DEF PausePane
<1>17. ASSUME NEW p \in Pausable, PauseFails(p) PROVE TypeSockets'
  BY <1>15, <1>17 DEF PauseFails
<1>18. ASSUME NEW p \in Panes, Drain(p) PROVE TypeSockets'
  BY <1>15, <1>18 DEF Drain
<1>19. CASE \/ BeginHandoff
     \/ Snapshot
     \/ Spawn
     \/ SpawnFails
     \/ Duplicate
     \/ Accept
     \/ Validated
     \/ SendFds
     \/ Restored
     \/ Ready
     \/ Commit
     \/ SeenClosed
     \/ RestoreFails
     \/ Rollback
     \/ Drained
     \/ Connect
     \/ ReadManifest
     \/ ReceiveFds
     \/ Import
     \/ SocketsFree
     \/ HearCommit
     \/ Assume
     \/ ImportFails
     \/ ActorStep
  BY <1>15, <1>19 DEF Accept, ActorResumes, ActorStep, Answers, Assume, BeginHandoff, Commit,
     Connect, Drained, Duplicate, HearCommit, Import, ImportFails, ReadManifest, Ready,
     ReceiveFds, RestoreFails, Restored, Rollback, SeenClosed, SendFds, Snapshot, SocketsFree,
     Spawn, SpawnFails, Validated
<1>20. QED
  BY <1>1, <1>2, <1>3, <1>4, <1>5, <1>6, <1>7, <1>8, <1>9, <1>10, <1>11, <1>12, <1>13, <1>14,
     <1>15, <1>16, <1>17, <1>18, <1>19 DEF Next, OldStep, ImportStep, vars

-----------------------------------------------------------------------------
(* What writing and reading a line do to the lines in transit. *)

\* The import server reports a line.
LEMMA ReportsLine ==
  ASSUME TypeLines, NEW line \in Reportable, Reports(line)
  PROVE  OldRuns /\ Lines(toOld)' = Lines(toOld) \cup {line}
BY LinesAppended DEF TypeLines, Reports

\* The old server reads one.
LEMMA HeardLine ==
  ASSUME TypeLines, NEW line, Heard(line)
  PROVE  Lines(toOld) = {line} \cup Lines(toOld)'
BY LinesRead DEF TypeLines, Heard

\* The old server sends a line.
LEMMA SendsLine ==
  ASSUME TypeLines, NEW line \in Sendable, toNew' = Append(toNew, line)
  PROVE  Lines(toNew)' = Lines(toNew) \cup {line}
BY LinesAppended DEF TypeLines

\* The import server reads one.
LEMMA ReceivesLine ==
  ASSUME TypeLines, NEW line, Receives(line)
  PROVE  Lines(toNew) = {line} \cup Lines(toNew)'
BY LinesRead DEF TypeLines, Receives

-----------------------------------------------------------------------------
(* The invariant is inductive. *)

\* No import process survives a handoff given up, nor a line it wrote.
LEMMA AloneKept == IInv /\ [Next]_vars => AloneInv'
<1> SUFFICES ASSUME IInv, [Next]_vars PROVE AloneInv'
  OBVIOUS
<1>inv. AloneInv
  BY DEF IInv
<1> USE DEF AloneInv, Alone, NewRuns, Goes, Moves, Frame, PauseFrame, ImportFrame, VisitorFrame,
            chanVars, ptyVars, sockVars
<1>1. CASE BeginHandoff
  BY <1>1, <1>inv DEF BeginHandoff
<1>2. ASSUME NEW p \in Pausable, PauseFails(p) PROVE AloneInv'
  BY <1>2, <1>inv DEF PauseFails, Pausable
<1>3. CASE Snapshot
  BY <1>3, <1>inv DEF Snapshot, EveryonePaused
<1>4. CASE Spawn
  BY <1>4, <1>inv DEF Spawn
<1>5. CASE SpawnFails
  BY <1>5, <1>inv DEF SpawnFails
<1>6. CASE Duplicate
  BY <1>6, <1>inv DEF Duplicate
<1>7. CASE DuplicateFails
  BY <1>7, <1>inv DEF DuplicateFails, KillImport, ImportGone
<1>8. CASE Accept
  BY <1>8, <1>inv DEF Accept
<1>9. CASE Validated
  BY <1>9, <1>inv DEF Validated
<1>10. CASE SendFds
  BY <1>10, <1>inv DEF SendFds
<1>11. CASE Restored
  BY <1>11, <1>inv DEF Restored
<1>12. CASE GiveUp
  BY <1>12, <1>inv DEF GiveUp, KillImport, ImportGone
<1>13. CASE Unpublish
  BY <1>13, <1>inv DEF Unpublish
<1>14. CASE Ready
  BY <1>14, <1>inv DEF Ready
<1>15. CASE Commit
  BY <1>15, <1>inv DEF Commit
<1>16. CASE GiveUpUnpublished
  BY <1>16, <1>inv DEF GiveUpUnpublished, KillImport, ImportGone
<1>17. CASE SeenClosed
  BY <1>17, <1>inv DEF SeenClosed
<1>18. CASE RebindApi
  BY <1>18, <1>inv DEF RebindApi
<1>19. CASE RebindClient
  BY <1>19, <1>inv DEF RebindClient
<1>20. CASE RestoreFails
  BY <1>20, <1>inv DEF RestoreFails
<1>21. CASE Rollback
  BY <1>21, <1>inv DEF Rollback, Unpaused
<1>22. CASE Drained
  BY <1>22, <1>inv DEF Drained
<1>23. CASE Finish
  BY <1>23, <1>inv DEF Finish
<1>24. CASE OldCrashes
  BY <1>24, <1>inv DEF OldCrashes
<1>25. CASE Connect
  BY <1>25, <1>inv DEF Connect
<1>26. CASE ReadManifest
  BY <1>26, <1>inv DEF ReadManifest
<1>27. CASE ReceiveFds
  BY <1>27, <1>inv DEF ReceiveFds
<1>28. CASE Import
  BY <1>28, <1>inv DEF Import, ImportedKeeps
<1>29. CASE SocketsFree
  BY <1>29, <1>inv DEF SocketsFree
<1>30. CASE PublishApi
  BY <1>30, <1>inv DEF PublishApi
<1>31. CASE PublishClient
  BY <1>31, <1>inv DEF PublishClient
<1>32. CASE HearCommit
  BY <1>32, <1>inv DEF HearCommit
<1>33. CASE Assume
  BY <1>33, <1>inv DEF Assume
<1>34. CASE ImportFails
  BY <1>34, <1>inv DEF ImportFails
<1>35. CASE ImportExits
  BY <1>35, <1>inv DEF ImportExits, ImportGone
<1>36. CASE ImportCrashes
  BY <1>36, <1>inv DEF ImportCrashes, KillImport, ImportGone
<1>37. CASE UNCHANGED <<old, new, toOld>>
  BY <1>37, <1>inv DEF vars
<1>38. ASSUME NEW p \in Pausable, PausePane(p) PROVE AloneInv'
  BY <1>37, <1>38 DEF PausePane, Pausable
<1>39. ASSUME NEW p \in Panes, Drain(p) PROVE AloneInv'
  BY <1>37, <1>39 DEF Drain
<1>40. CASE \/ ActorStep \/ VisitorStarts \/ VisitorServes
  BY <1>37, <1>40 DEF ActorResumes, ActorStep, Answers, Bind, VisitorServes, VisitorStarts
<1>41. QED
  BY <1>1, <1>2, <1>3, <1>4, <1>5, <1>6, <1>7, <1>8, <1>9, <1>10, <1>11, <1>12, <1>13, <1>14,
     <1>15, <1>16, <1>17, <1>18, <1>19, <1>20, <1>21, <1>22, <1>23, <1>24, <1>25, <1>26,
     <1>27, <1>28, <1>29, <1>30, <1>31, <1>32, <1>33, <1>34, <1>35, <1>36, <1>37, <1>38,
     <1>39, <1>40 DEF Next, OldStep, ImportStep, ActorStep, vars

\* Panes stay paused until their rollback is posted.
LEMMA PausedKept == IInv /\ [Next]_vars => PausedInv'
<1> SUFFICES ASSUME IInv, [Next]_vars PROVE PausedInv'
  OBVIOUS
<1>ty. /\ actor \in [Servers -> [Panes -> {"none", "running", "quiesced"}]]
      /\ resume \in [Servers -> SUBSET Shown] /\ paused \subseteq Shown /\ Shown \subseteq Panes
  BY DEF IInv, TypeOK, TypePtys, Panes
<1>inv. PausedInv
  BY DEF IInv
<1> USE DEF PausedInv, Waiting, Pausing, Servers, Goes, Moves, Frame, PauseFrame, ImportFrame,
   VisitorFrame,
            chanVars, ptyVars, sockVars
<1>1. CASE BeginHandoff
  BY <1>1, <1>inv, <1>ty DEF BeginHandoff
<1>2. ASSUME NEW p \in Pausable, PausePane(p) PROVE PausedInv'
  BY <1>2, <1>inv, <1>ty DEF PausePane, Pausable
<1>3. ASSUME NEW p \in Pausable, PauseFails(p) PROVE PausedInv'
  BY <1>3, <1>inv, <1>ty DEF PauseFails, Pausable
<1>4. CASE Snapshot
  BY <1>4, <1>inv, <1>ty DEF Snapshot, EveryonePaused
<1>5. CASE Spawn
  BY <1>5, <1>inv, <1>ty DEF Spawn
<1>6. CASE SpawnFails
  BY <1>6, <1>inv, <1>ty DEF SpawnFails
<1>7. CASE Duplicate
  BY <1>7, <1>inv, <1>ty DEF Duplicate
<1>8. CASE DuplicateFails
  BY <1>8, <1>inv, <1>ty DEF DuplicateFails, KillImport, ImportGone
<1>9. CASE Accept
  BY <1>9, <1>inv, <1>ty DEF Accept
<1>10. CASE Validated
  BY <1>10, <1>inv, <1>ty DEF Validated
<1>11. CASE SendFds
  BY <1>11, <1>inv, <1>ty DEF SendFds
<1>12. CASE Restored
  BY <1>12, <1>inv, <1>ty DEF Restored
<1>13. CASE GiveUp
  BY <1>13, <1>inv, <1>ty DEF GiveUp, KillImport, ImportGone
<1>14. CASE Unpublish
  BY <1>14, <1>inv, <1>ty DEF Unpublish
<1>15. CASE Ready
  BY <1>15, <1>inv, <1>ty DEF Ready
<1>16. CASE Commit
  BY <1>16, <1>inv, <1>ty DEF Commit
<1>17. CASE GiveUpUnpublished
  BY <1>17, <1>inv, <1>ty DEF GiveUpUnpublished, KillImport, ImportGone
<1>18. CASE SeenClosed
  BY <1>18, <1>inv, <1>ty DEF SeenClosed
<1>19. CASE RebindApi
  BY <1>19, <1>inv, <1>ty DEF RebindApi
<1>20. CASE RebindClient
  BY <1>20, <1>inv, <1>ty DEF RebindClient
<1>21. CASE RestoreFails
  BY <1>21, <1>inv, <1>ty DEF RestoreFails
<1>22. CASE Rollback
  BY <1>22, <1>inv, <1>ty DEF Rollback, Unpaused
<1>23. CASE Drained
  BY <1>23, <1>inv, <1>ty DEF Drained
<1>24. CASE Finish
  BY <1>24, <1>inv, <1>ty DEF Finish
<1>25. ASSUME NEW p \in Panes, Drain(p) PROVE PausedInv'
  BY <1>25, <1>inv, <1>ty DEF Drain
<1>26. CASE OldCrashes
  BY <1>26, <1>inv, <1>ty DEF OldCrashes
<1>27. ASSUME NEW server \in Servers, NEW p \in Panes, ActorResumes(server, p) PROVE PausedInv'
  BY <1>27, <1>inv, <1>ty DEF ActorResumes
<1>28. CASE UNCHANGED <<old, actor["old"], resume["old"], paused>>
  BY <1>28, <1>inv, <1>ty DEF vars
<1>29. CASE \/ Connect \/ ReadManifest \/ ReceiveFds \/ SocketsFree \/ PublishApi
          \/ PublishClient \/ HearCommit \/ Assume
  BY <1>28, <1>29, <1>ty DEF Answers, Assume, Bind, Connect, HearCommit, PublishApi,
     PublishClient, ReadManifest, ReceiveFds, SocketsFree
<1>30. CASE \/ ImportFails \/ VisitorStarts \/ VisitorServes
  BY <1>28, <1>30, <1>ty DEF Answers, Bind, ImportFails, VisitorServes, VisitorStarts
<1>31. CASE \/ Import \/ ImportExits \/ ImportCrashes
  BY <1>28, <1>31, <1>ty DEF Import, ImportCrashes, ImportExits, ImportGone, ImportedKeeps,
     KillImport
<1>32. QED
  BY <1>1, <1>2, <1>3, <1>4, <1>5, <1>6, <1>7, <1>8, <1>9, <1>10, <1>11, <1>12, <1>13, <1>14,
     <1>15, <1>16, <1>17, <1>18, <1>19, <1>20, <1>21, <1>22, <1>23, <1>24, <1>25, <1>26,
     <1>27, <1>28, <1>29, <1>30, <1>31 DEF Next, OldStep, ImportStep, ActorStep, vars

\* The old server keeps its actors until it has committed.
LEMMA HoldKept == IInv /\ [Next]_vars => HoldInv'
<1> SUFFICES ASSUME IInv, [Next]_vars PROVE HoldInv'
  OBVIOUS
<1>ty. /\ actor \in [Servers -> [Panes -> {"none", "running", "quiesced"}]]
      /\ resume \in [Servers -> SUBSET Shown] /\ paused \subseteq Shown /\ Shown \subseteq Panes
  BY DEF IInv, TypeOK, TypePtys, Panes
<1>inv. HoldInv
  BY DEF IInv
<1>past. old \in Past => committed
  BY DEF IInv, CommitInv
<1> USE DEF HoldInv, OldRuns, Servers, Goes, Moves, Frame, PauseFrame, ImportFrame,
   VisitorFrame,
            chanVars, ptyVars, sockVars
<1>1. CASE BeginHandoff
  BY <1>1, <1>inv, <1>ty, <1>past DEF BeginHandoff
<1>2. ASSUME NEW p \in Pausable, PausePane(p) PROVE HoldInv'
  BY <1>2, <1>inv, <1>ty, <1>past DEF PausePane, Pausable
<1>3. ASSUME NEW p \in Pausable, PauseFails(p) PROVE HoldInv'
  BY <1>3, <1>inv, <1>ty, <1>past DEF PauseFails, Pausable
<1>4. CASE Snapshot
  BY <1>4, <1>inv, <1>ty, <1>past DEF Snapshot, EveryonePaused
<1>5. CASE Spawn
  BY <1>5, <1>inv, <1>ty, <1>past DEF Spawn
<1>6. CASE SpawnFails
  BY <1>6, <1>inv, <1>ty, <1>past DEF SpawnFails
<1>7. CASE Duplicate
  BY <1>7, <1>inv, <1>ty, <1>past DEF Duplicate
<1>8. CASE DuplicateFails
  BY <1>8, <1>inv, <1>ty, <1>past DEF DuplicateFails, KillImport, ImportGone
<1>9. CASE Accept
  BY <1>9, <1>inv, <1>ty, <1>past DEF Accept
<1>10. CASE Validated
  BY <1>10, <1>inv, <1>ty, <1>past DEF Validated
<1>11. CASE SendFds
  BY <1>11, <1>inv, <1>ty, <1>past DEF SendFds
<1>12. CASE Restored
  BY <1>12, <1>inv, <1>ty, <1>past DEF Restored
<1>13. CASE GiveUp
  BY <1>13, <1>inv, <1>ty, <1>past DEF GiveUp, KillImport, ImportGone
<1>14. CASE Unpublish
  BY <1>14, <1>inv, <1>ty, <1>past DEF Unpublish
<1>15. CASE Ready
  BY <1>15, <1>inv, <1>ty, <1>past DEF Ready
<1>16. CASE Commit
  BY <1>16, <1>inv, <1>ty, <1>past DEF Commit
<1>17. CASE GiveUpUnpublished
  BY <1>17, <1>inv, <1>ty, <1>past DEF GiveUpUnpublished, KillImport, ImportGone
<1>18. CASE SeenClosed
  BY <1>18, <1>inv, <1>ty, <1>past DEF SeenClosed
<1>19. CASE RebindApi
  BY <1>19, <1>inv, <1>ty, <1>past DEF RebindApi
<1>20. CASE RebindClient
  BY <1>20, <1>inv, <1>ty, <1>past DEF RebindClient
<1>21. CASE RestoreFails
  BY <1>21, <1>inv, <1>ty, <1>past DEF RestoreFails
<1>22. CASE Rollback
  BY <1>22, <1>inv, <1>ty, <1>past DEF Rollback, Unpaused
<1>23. CASE Drained
  BY <1>23, <1>inv, <1>ty, <1>past DEF Drained
<1>24. CASE Finish
  BY <1>24, <1>inv, <1>ty, <1>past DEF Finish
<1>25. ASSUME NEW p \in Panes, Drain(p) PROVE HoldInv'
  BY <1>25, <1>inv, <1>ty, <1>past DEF Drain, Past
<1>26. CASE OldCrashes
  BY <1>26, <1>inv, <1>ty, <1>past DEF OldCrashes
<1>27. ASSUME NEW server \in Servers, NEW p \in Panes, ActorResumes(server, p) PROVE HoldInv'
  BY <1>27, <1>inv, <1>ty, <1>past DEF ActorResumes
<1>28. CASE UNCHANGED <<old, actor["old"], committed>>
  BY <1>28, <1>inv, <1>ty, <1>past DEF vars
<1>29. CASE \/ Connect \/ ReadManifest \/ ReceiveFds \/ SocketsFree \/ PublishApi
          \/ PublishClient \/ HearCommit \/ Assume
  BY <1>28, <1>29, <1>ty DEF Answers, Assume, Bind, Connect, HearCommit, PublishApi,
     PublishClient, ReadManifest, ReceiveFds, SocketsFree
<1>30. CASE \/ ImportFails \/ VisitorStarts \/ VisitorServes
  BY <1>28, <1>30, <1>ty DEF Answers, Bind, ImportFails, VisitorServes, VisitorStarts
<1>31. CASE \/ Import \/ ImportExits \/ ImportCrashes
  BY <1>28, <1>31, <1>ty DEF Import, ImportCrashes, ImportExits, ImportGone, ImportedKeeps,
     KillImport
<1>32. QED
  BY <1>1, <1>2, <1>3, <1>4, <1>5, <1>6, <1>7, <1>8, <1>9, <1>10, <1>11, <1>12, <1>13, <1>14,
     <1>15, <1>16, <1>17, <1>18, <1>19, <1>20, <1>21, <1>22, <1>23, <1>24, <1>25, <1>26,
     <1>27, <1>28, <1>29, <1>30, <1>31 DEF Next, OldStep, ImportStep, ActorStep, vars

\* Only the commit hands the PTYs over.
LEMMA CommitKept == IInv /\ [Next]_vars => CommitInv'
<1> SUFFICES ASSUME IInv, [Next]_vars PROVE CommitInv'
  OBVIOUS
<1>ty. /\ actor \in [Servers -> [Panes -> {"none", "running", "quiesced"}]]
      /\ resume \in [Servers -> SUBSET Shown] /\ paused \subseteq Shown /\ Shown \subseteq Panes
  BY DEF IInv, TypeOK, TypePtys, Panes
<1>lines. TypeLines
  BY DEF IInv, TypeOK
<1>inv. CommitInv
  BY DEF IInv
<1>pause. PausedInv
  BY DEF IInv
<1> USE DEF CommitInv, Past, OldRuns, Servers, Goes, Moves, Frame, PauseFrame, ImportFrame,
   VisitorFrame,
            chanVars, ptyVars, sockVars
<1>1. CASE BeginHandoff
  BY <1>1, <1>inv, <1>ty DEF BeginHandoff
<1>2. ASSUME NEW p \in Pausable, PausePane(p) PROVE CommitInv'
  BY <1>2, <1>inv, <1>ty DEF PausePane, Pausable
<1>3. ASSUME NEW p \in Pausable, PauseFails(p) PROVE CommitInv'
  BY <1>3, <1>inv, <1>ty DEF PauseFails, Pausable
<1>4. CASE Snapshot
  BY <1>4, <1>inv, <1>ty DEF Snapshot, EveryonePaused
<1>5. CASE Spawn
  BY <1>5, <1>inv, <1>ty DEF Spawn
<1>6. CASE SpawnFails
  BY <1>6, <1>inv, <1>ty DEF SpawnFails
<1>7. CASE Duplicate
  BY <1>7, <1>inv, <1>ty DEF Duplicate
<1>8. CASE DuplicateFails
  <2>1. Lines(toNew)' = {}
    BY <1>8, NoLines DEF DuplicateFails, KillImport, ImportGone
  <2>2. QED
    BY <1>8, <1>inv, <1>ty, <2>1 DEF DuplicateFails, KillImport, ImportGone
<1>9. CASE Accept
  <2>1. Lines(toNew)' = Lines(toNew) \cup {"manifest"}
    BY <1>9, <1>lines, SendsLine DEF Accept, Sendable
  <2>2. QED
    BY <1>9, <1>inv, <1>ty, <1>pause, <2>1 DEF Accept, PausedInv, Waiting, Pausing
<1>10. CASE Validated
  BY <1>10, <1>inv, <1>ty DEF Validated
<1>11. CASE SendFds
  <2>1. Lines(toNew)' = Lines(toNew) \cup {"fds"}
    BY <1>11, <1>lines, SendsLine DEF SendFds, Sendable
  <2>2. QED
    BY <1>11, <1>inv, <1>ty, <1>pause, <2>1 DEF SendFds, PausedInv, Waiting, Pausing
<1>12. CASE Restored
  BY <1>12, <1>inv, <1>ty DEF Restored
<1>13. CASE GiveUp
  <2>1. Lines(toNew)' = {}
    BY <1>13, NoLines DEF GiveUp, KillImport, ImportGone
  <2>2. QED
    BY <1>13, <1>inv, <1>ty, <2>1 DEF GiveUp, KillImport, ImportGone
<1>14. CASE Unpublish
  BY <1>14, <1>inv, <1>ty DEF Unpublish
<1>15. CASE Ready
  BY <1>15, <1>inv, <1>ty DEF Ready
<1>16. CASE Commit
  <2>1. Lines(toNew)' = Lines(toNew) \cup {"committed"}
    BY <1>16, <1>lines, SendsLine DEF Commit, Sendable
  <2>2. QED
    BY <1>16, <1>inv, <1>ty, <1>pause, <2>1 DEF Commit, PausedInv, Waiting, Pausing
<1>17. CASE GiveUpUnpublished
  <2>1. Lines(toNew)' = {}
    BY <1>17, NoLines DEF GiveUpUnpublished, KillImport, ImportGone
  <2>2. QED
    BY <1>17, <1>inv, <1>ty, <2>1 DEF GiveUpUnpublished, KillImport, ImportGone
<1>18. CASE SeenClosed
  BY <1>18, <1>inv, <1>ty DEF SeenClosed
<1>19. CASE RebindApi
  BY <1>19, <1>inv, <1>ty DEF RebindApi
<1>20. CASE RebindClient
  BY <1>20, <1>inv, <1>ty DEF RebindClient
<1>21. CASE RestoreFails
  BY <1>21, <1>inv, <1>ty DEF RestoreFails
<1>22. CASE Rollback
  BY <1>22, <1>inv, <1>ty DEF Rollback, Unpaused
<1>23. CASE Drained
  BY <1>23, <1>inv, <1>ty DEF Drained
<1>24. CASE Finish
  BY <1>24, <1>inv, <1>ty DEF Finish
<1>25. ASSUME NEW p \in Panes, Drain(p) PROVE CommitInv'
  BY <1>25, <1>inv, <1>ty DEF Drain
<1>26. CASE OldCrashes
  BY <1>26, <1>inv, <1>ty DEF OldCrashes
<1>27. CASE Connect
  BY <1>27, <1>inv, <1>ty DEF Connect
<1>28. CASE ReadManifest
  <2>1. "manifest" \in Lines(toNew) /\ Lines(toNew)' \subseteq Lines(toNew)
    BY <1>28, <1>lines, ReceivesLine DEF ReadManifest
  <2>2. QED
    BY <1>28, <1>inv, <1>ty, <2>1 DEF ReadManifest
<1>29. CASE ReceiveFds
  <2>1. "fds" \in Lines(toNew) /\ Lines(toNew)' \subseteq Lines(toNew)
    BY <1>29, <1>lines, ReceivesLine DEF ReceiveFds
  <2>2. QED
    BY <1>29, <1>inv, <1>ty, <2>1 DEF ReceiveFds
<1>30. CASE Import
  BY <1>30, <1>inv, <1>ty DEF Import, ImportedKeeps
<1>31. CASE SocketsFree
  BY <1>31, <1>inv, <1>ty DEF SocketsFree
<1>32. CASE PublishApi
  BY <1>32, <1>inv, <1>ty DEF PublishApi
<1>33. CASE PublishClient
  BY <1>33, <1>inv, <1>ty DEF PublishClient
<1>34. CASE HearCommit
  <2>1. "committed" \in Lines(toNew) /\ Lines(toNew)' \subseteq Lines(toNew)
    BY <1>34, <1>lines, ReceivesLine DEF HearCommit
  <2>2. QED
    BY <1>34, <1>inv, <1>ty, <2>1 DEF HearCommit
<1>35. CASE Assume
  BY <1>35, <1>inv, <1>ty DEF Assume
<1>36. CASE ImportFails
  BY <1>36, <1>inv, <1>ty DEF ImportFails
<1>37. CASE ImportExits
  <2>1. Lines(toNew)' = {}
    BY <1>37, NoLines DEF ImportExits, KillImport, ImportGone
  <2>2. QED
    BY <1>37, <1>inv, <1>ty, <2>1 DEF ImportExits, KillImport, ImportGone
<1>38. CASE ImportCrashes
  <2>1. Lines(toNew)' = {}
    BY <1>38, NoLines DEF ImportCrashes, KillImport, ImportGone
  <2>2. QED
    BY <1>38, <1>inv, <1>ty, <2>1 DEF ImportCrashes, KillImport, ImportGone
<1>39. ASSUME NEW server \in Servers, NEW p \in Panes, ActorResumes(server, p) PROVE CommitInv'
  BY <1>39, <1>inv, <1>ty DEF ActorResumes
<1>40. CASE UNCHANGED <<old, new, actor, resume, committed, toNew>>
  BY <1>40, <1>inv, <1>ty DEF vars
<1>41. CASE \/ VisitorStarts \/ VisitorServes
  BY <1>40, <1>41, <1>ty DEF Answers, Bind, VisitorServes, VisitorStarts
<1>42. QED
  BY <1>1, <1>2, <1>3, <1>4, <1>5, <1>6, <1>7, <1>8, <1>9, <1>10, <1>11, <1>12, <1>13, <1>14,
     <1>15, <1>16, <1>17, <1>18, <1>19, <1>20, <1>21, <1>22, <1>23, <1>24, <1>25, <1>26,
     <1>27, <1>28, <1>29, <1>30, <1>31, <1>32, <1>33, <1>34, <1>35, <1>36, <1>37, <1>38,
     <1>39, <1>40, <1>41 DEF Next, OldStep, ImportStep, ActorStep, vars

\* An import that reports itself ready has built its runtimes and keeps them.
LEMMA ImportKept == IInv /\ [Next]_vars => ImportInv'
<1> SUFFICES ASSUME IInv, [Next]_vars PROVE ImportInv'
  OBVIOUS
<1>ty. /\ actor \in [Servers -> [Panes -> {"none", "running", "quiesced"}]]
      /\ resume \in [Servers -> SUBSET Shown] /\ paused \subseteq Shown /\ Shown \subseteq Panes
  BY DEF IInv, TypeOK, TypePtys, Panes
<1>lines. TypeLines
  BY DEF IInv, TypeOK
<1>inv. ImportInv
  BY DEF IInv
<1>alone. AloneInv /\ CommitInv
  BY DEF IInv
<1> USE DEF ImportInv, Ripe, Built, NewRuns, Servers, Goes, Moves, Frame, PauseFrame,
   ImportFrame, VisitorFrame,
            chanVars, ptyVars, sockVars
<1>1. CASE BeginHandoff
  <2>1. ~NewRuns /\ new' = "none" /\ UNCHANGED <<actor, resume>>
    BY <1>1, <1>alone DEF BeginHandoff, AloneInv, Alone
  <2>2. QED
    BY <1>inv, <1>ty, <2>1
<1>2. ASSUME NEW p \in Pausable, PauseFails(p) PROVE ImportInv'
  BY <1>2, <1>inv, <1>ty DEF PauseFails, Pausable
<1>3. CASE Snapshot
  BY <1>3, <1>inv, <1>ty DEF Snapshot, EveryonePaused
<1>4. CASE Spawn
  <2>1. toOld' = <<>> /\ ~committed' /\ old' = "duplicating" /\ new' = "starting"
    BY <1>4, <1>alone DEF Spawn, AloneInv, CommitInv, Past
  <2>2. ~NewRuns /\ UNCHANGED <<actor, resume>>
    BY <1>4, <1>alone DEF Spawn, AloneInv, Alone
  <2>3. QED
    BY <1>inv, <1>ty, <2>1, <2>2, NoLines
<1>5. CASE SpawnFails
  BY <1>5, <1>inv, <1>ty DEF SpawnFails
<1>6. CASE Duplicate
  BY <1>6, <1>inv, <1>ty DEF Duplicate
<1>7. CASE DuplicateFails
  BY <1>7, <1>inv, <1>ty DEF DuplicateFails, KillImport, ImportGone
<1>8. CASE Accept
  <2>1. "token" \in Lines(toOld) /\ Lines(toOld)' \subseteq Lines(toOld)
    BY <1>8, <1>lines, HeardLine DEF Accept
  <2>2. QED
    BY <1>8, <1>inv, <1>ty, <2>1 DEF Accept
<1>9. CASE Validated
  <2>1. "validated" \in Lines(toOld) /\ Lines(toOld)' \subseteq Lines(toOld)
    BY <1>9, <1>lines, HeardLine DEF Validated
  <2>2. QED
    BY <1>9, <1>inv, <1>ty, <2>1 DEF Validated
<1>10. CASE SendFds
  BY <1>10, <1>inv, <1>ty DEF SendFds
<1>11. CASE Restored
  <2>1. "restored" \in Lines(toOld) /\ Lines(toOld)' \subseteq Lines(toOld)
    BY <1>11, <1>lines, HeardLine DEF Restored
  <2>2. QED
    BY <1>11, <1>inv, <1>ty, <2>1 DEF Restored
<1>12. CASE GiveUp
  BY <1>12, <1>inv, <1>ty DEF GiveUp, KillImport, ImportGone
<1>13. CASE Unpublish
  BY <1>13, <1>inv, <1>ty DEF Unpublish
<1>14. CASE Ready
  <2>1. "ready" \in Lines(toOld) /\ Lines(toOld)' \subseteq Lines(toOld)
    BY <1>14, <1>lines, HeardLine DEF Ready
  <2>2. QED
    BY <1>14, <1>inv, <1>ty, <2>1 DEF Ready
<1>15. CASE Commit
  BY <1>15, <1>inv, <1>ty DEF Commit
<1>16. CASE GiveUpUnpublished
  BY <1>16, <1>inv, <1>ty DEF GiveUpUnpublished, KillImport, ImportGone
<1>17. CASE SeenClosed
  BY <1>17, <1>inv, <1>ty DEF SeenClosed
<1>18. CASE RebindApi
  BY <1>18, <1>inv, <1>ty DEF RebindApi
<1>19. CASE RebindClient
  BY <1>19, <1>inv, <1>ty DEF RebindClient
<1>20. CASE RestoreFails
  BY <1>20, <1>inv, <1>ty DEF RestoreFails
<1>21. CASE Rollback
  BY <1>21, <1>inv, <1>ty DEF Rollback, Unpaused
<1>22. CASE Drained
  BY <1>22, <1>inv, <1>ty DEF Drained
<1>23. CASE Finish
  BY <1>23, <1>inv, <1>ty DEF Finish
<1>24. CASE OldCrashes
  BY <1>24, <1>inv, <1>ty DEF OldCrashes
<1>25. CASE Connect
  <2>1. Lines(toOld)' = Lines(toOld) \cup {"token"}
    BY <1>25, <1>lines, ReportsLine DEF Connect, Reportable
  <2>2. QED
    BY <1>25, <1>inv, <1>ty, <2>1 DEF Connect
<1>26. CASE ReadManifest
  <2>1. Lines(toOld)' = Lines(toOld) \cup {"validated"}
    BY <1>26, <1>lines, ReportsLine DEF ReadManifest, Reportable
  <2>2. QED
    BY <1>26, <1>inv, <1>ty, <2>1 DEF ReadManifest
<1>27. CASE ReceiveFds
  BY <1>27, <1>inv, <1>ty DEF ReceiveFds
<1>28. CASE Import
  <2>1. Lines(toOld)' = Lines(toOld) \cup {"restored"}
    BY <1>28, <1>lines, ReportsLine DEF Import, Reportable
  <2>2. QED
    BY <1>28, <1>inv, <1>ty, <2>1 DEF Import
<1>29. CASE SocketsFree
  BY <1>29, <1>inv, <1>ty DEF SocketsFree
<1>30. CASE PublishApi
  BY <1>30, <1>inv, <1>ty DEF PublishApi
<1>31. CASE PublishClient
  <2>1. Lines(toOld)' = Lines(toOld) \cup {"ready"}
    BY <1>31, <1>lines, ReportsLine DEF PublishClient, Reportable
  <2>2. QED
    BY <1>31, <1>inv, <1>ty, <2>1 DEF PublishClient
<1>32. CASE HearCommit
  BY <1>32, <1>inv, <1>ty DEF HearCommit
<1>33. CASE Assume
  <2>1. CASE OldRuns
    <3>1. Lines(toOld)' = Lines(toOld) \cup {"owned"}
      BY <1>33, <1>lines, <2>1, ReportsLine DEF Assume, Reportable, Reports
    <3>2. QED
      BY <1>33, <1>inv, <1>ty, <3>1 DEF Assume
  <2>2. CASE ~OldRuns
    BY <1>33, <1>inv, <1>ty, <2>2 DEF Assume
  <2>3. QED
    BY <2>1, <2>2
<1>34. CASE ImportFails
  BY <1>34, <1>inv, <1>ty DEF ImportFails
<1>35. CASE ImportExits
  BY <1>35, <1>inv, <1>ty DEF ImportExits, ImportGone
<1>36. CASE ImportCrashes
  BY <1>36, <1>inv, <1>ty DEF ImportCrashes, KillImport, ImportGone
<1>37. ASSUME NEW server \in Servers, NEW p \in Panes, ActorResumes(server, p) PROVE ImportInv'
  BY <1>37, <1>inv, <1>ty DEF ActorResumes
<1>38. CASE UNCHANGED <<old, new, toOld, actor["new"], resume["new"], committed>>
  BY <1>38, <1>inv, <1>ty DEF vars
<1>39. ASSUME NEW p \in Pausable, PausePane(p) PROVE ImportInv'
  BY <1>38, <1>39, <1>ty DEF PausePane, Pausable
<1>40. ASSUME NEW p \in Panes, Drain(p) PROVE ImportInv'
  BY <1>38, <1>40, <1>ty DEF Drain
<1>41. CASE \/ VisitorStarts \/ VisitorServes
  BY <1>38, <1>41, <1>ty DEF Answers, Bind, VisitorServes, VisitorStarts
<1>42. QED
  BY <1>1, <1>2, <1>3, <1>4, <1>5, <1>6, <1>7, <1>8, <1>9, <1>10, <1>11, <1>12, <1>13, <1>14,
     <1>15, <1>16, <1>17, <1>18, <1>19, <1>20, <1>21, <1>22, <1>23, <1>24, <1>25, <1>26,
     <1>27, <1>28, <1>29, <1>30, <1>31, <1>32, <1>33, <1>34, <1>35, <1>36, <1>37, <1>38,
     <1>39, <1>40, <1>41 DEF Next, OldStep, ImportStep, ActorStep, vars

\* An import that ends before it takes over leaves the panes' processes alone.
LEMMA ChildKept == IInv /\ [Next]_vars => ChildInv'
<1> SUFFICES ASSUME IInv, [Next]_vars PROVE ChildInv'
  OBVIOUS
<1>ty. /\ actor \in [Servers -> [Panes -> {"none", "running", "quiesced"}]]
      /\ resume \in [Servers -> SUBSET Shown] /\ paused \subseteq Shown /\ Shown \subseteq Panes
  BY DEF IInv, TypeOK, TypePtys, Panes
<1>kids. child \in [Panes -> {"alive", "killed"}]
  BY DEF IInv, TypeOK, TypePtys
<1>inv. ChildInv
  BY DEF IInv
<1>alone. AloneInv /\ CommitInv /\ ImportInv
  BY DEF IInv
<1> USE DEF ChildInv, OnlyPopupsKilled, NewRuns, Servers, Goes, Moves, Frame, PauseFrame,
   ImportFrame, VisitorFrame,
            chanVars, ptyVars, sockVars
<1>1. CASE BeginHandoff
  <2>1. ~NewRuns /\ new' = "none" /\ UNCHANGED <<actor, resume, child, keeps, committed>>
    BY <1>1, <1>alone DEF BeginHandoff, AloneInv, Alone
  <2>2. QED
    BY <1>inv, <1>ty, <1>alone, <2>1 DEF ImportInv
<1>2. CASE Spawn
  <2>1. ~NewRuns /\ new' = "starting" /\ UNCHANGED <<actor, resume, child, keeps, committed>>
    BY <1>2, <1>alone DEF Spawn, AloneInv, Alone
  <2>2. QED
    BY <1>inv, <1>ty, <1>alone, <2>1 DEF ImportInv
<1>3. CASE DuplicateFails
  BY <1>3, <1>inv, <1>ty DEF DuplicateFails, KillImport, ImportGone
<1>4. CASE GiveUp
  BY <1>4, <1>inv, <1>ty DEF GiveUp, KillImport, ImportGone
<1>5. CASE Commit
  BY <1>5, <1>inv, <1>ty DEF Commit
<1>6. CASE GiveUpUnpublished
  BY <1>6, <1>inv, <1>ty DEF GiveUpUnpublished, KillImport, ImportGone
<1>7. ASSUME NEW p \in Panes, Drain(p) PROVE ChildInv'
  <2>1. committed /\ committed' = committed
    BY <1>7, <1>alone DEF Drain, CommitInv, Past
  <2>2. \A q \in Panes : child'[q] = "killed" => q \in Popups \/ child[q] = "killed"
    BY <1>7, <1>kids DEF Drain
  <2>3. UNCHANGED <<new, keeps, actor["new"], resume["new"]>>
    BY <1>7, <1>ty DEF Drain
  <2>4. QED
    BY <1>inv, <2>1, <2>2, <2>3
<1>8. CASE Connect
  BY <1>8, <1>inv, <1>ty DEF Connect
<1>9. CASE ReadManifest
  BY <1>9, <1>inv, <1>ty DEF ReadManifest
<1>10. CASE ReceiveFds
  BY <1>10, <1>inv, <1>ty DEF ReceiveFds
<1>11. CASE Import
  BY <1>11, <1>inv, <1>ty DEF Import, ImportedKeeps
<1>12. CASE SocketsFree
  BY <1>12, <1>inv, <1>ty DEF SocketsFree
<1>13. CASE PublishApi
  BY <1>13, <1>inv, <1>ty DEF PublishApi
<1>14. CASE PublishClient
  BY <1>14, <1>inv, <1>ty DEF PublishClient
<1>15. CASE HearCommit
  BY <1>15, <1>inv, <1>ty DEF HearCommit
<1>16. CASE Assume
  BY <1>16, <1>inv, <1>ty DEF Assume
<1>17. CASE ImportFails
  BY <1>17, <1>inv, <1>ty DEF ImportFails
<1>18. CASE ImportExits
  <2>1. new # "running" /\ child' = child
    BY <1>18, <1>inv, <1>kids DEF ImportExits
  <2>2. QED
    BY <1>18, <1>inv, <1>ty, <2>1 DEF ImportExits, ImportGone
<1>19. CASE ImportCrashes
  BY <1>19, <1>inv, <1>ty DEF ImportCrashes, KillImport, ImportGone
<1>20. ASSUME NEW server \in Servers, NEW p \in Panes, ActorResumes(server, p) PROVE ChildInv'
  BY <1>20, <1>inv, <1>ty DEF ActorResumes
<1>21. CASE UNCHANGED <<new, keeps, actor["new"], resume["new"], child, committed>>
  BY <1>21, <1>inv, <1>ty DEF vars
<1>22. ASSUME NEW p \in Pausable, PausePane(p) PROVE ChildInv'
  BY <1>21, <1>22, <1>ty DEF PausePane, Pausable
<1>23. ASSUME NEW p \in Pausable, PauseFails(p) PROVE ChildInv'
  BY <1>21, <1>23, <1>ty DEF PauseFails, Pausable
<1>24. CASE \/ Snapshot \/ SpawnFails \/ Duplicate \/ Accept \/ Validated \/ SendFds
          \/ Restored \/ Unpublish
  BY <1>21, <1>24, <1>ty DEF Accept, Duplicate, EveryonePaused, Restored, SendFds, Snapshot,
     SpawnFails, Unpublish, Validated
<1>25. CASE \/ Ready \/ SeenClosed \/ RebindApi \/ RebindClient \/ RestoreFails \/ Rollback
          \/ Drained \/ Finish
  BY <1>21, <1>25, <1>ty DEF Answers, Bind, Drained, Finish, Ready, RebindApi, RebindClient,
     RestoreFails, Rollback, SeenClosed, Unpaused
<1>26. CASE \/ OldCrashes \/ VisitorStarts \/ VisitorServes
  BY <1>21, <1>26, <1>ty DEF Answers, Bind, OldCrashes, VisitorServes, VisitorStarts
<1>27. QED
  BY <1>1, <1>2, <1>3, <1>4, <1>5, <1>6, <1>7, <1>8, <1>9, <1>10, <1>11, <1>12, <1>13, <1>14,
     <1>15, <1>16, <1>17, <1>18, <1>19, <1>20, <1>21, <1>22, <1>23, <1>24, <1>25, <1>26 DEF
     Next, OldStep, ImportStep, ActorStep, vars

\* The invariant holds at first.
LEMMA InitInv == Init => IInv
<1> SUFFICES ASSUME Init PROVE IInv
  OBVIOUS
<1> USE ConstantsAssumption DEF Init, Servers, Panes
<1>1. TypeServers
  <2>1. old \in OldSteps /\ new \in NewSteps
    BY DEF OldSteps, NewSteps
  <2>2. attempts \in 0..MaxAttempts
    OBVIOUS
  <2>3. QED
    BY <2>1, <2>2 DEF TypeServers
<1>2. TypeLines
  BY DEF TypeLines
<1>3. TypePtys
  BY DEF TypePtys
<1>4. TypeSockets
  BY DEF TypeSockets, Paths, Owners
<1>5. AloneInv /\ PausedInv /\ HoldInv
  BY DEF AloneInv, PausedInv, HoldInv, NewRuns, Pausing, Waiting
<1>6. CommitInv
  BY NoLines DEF CommitInv, Past, OldRuns
<1>7. ImportInv
  BY NoLines DEF ImportInv, Ripe, NewRuns, Built
<1>8. ChildInv
  BY DEF ChildInv, OnlyPopupsKilled
<1>9. QED
  BY <1>1, <1>2, <1>3, <1>4, <1>5, <1>6, <1>7, <1>8 DEF IInv, TypeOK

\* And always.
LEMMA Inductive == Spec => []IInv
<1>1. TypeOK /\ [Next]_vars => TypeOK'
  BY ServersTyped, LinesTyped, PtysTyped, SocketsTyped DEF TypeOK
<1>2. IInv /\ [Next]_vars => IInv'
  BY <1>1, AloneKept, PausedKept, HoldKept, CommitKept, ImportKept, ChildKept DEF IInv
<1>3. QED
  BY InitInv, <1>2, PTL DEF Spec

\* The two processes, the lines between them, the PTYs and the sockets keep their types; no
\* pane outside a tab is ever paused (pane_by_terminal).
THEOREM TypesHold == Spec => []TypeOK
BY Inductive, PTL DEF IInv

\* However a handoff ends, it kills no process of a pane it was to pass on
\* (preserve_processes_on_drop, assume_handoff_ownership).
THEOREM ProcessesKept == Spec => []OnlyPopupsKilled
BY Inductive, PTL DEF IInv, ChildInv

\* An old server that serves again has no import process left behind it
\* (cleanup_failed_import_child).
THEOREM ImportReaped == Spec => []NoStrayImport
<1>1. AloneInv => NoStrayImport
  BY DEF AloneInv, Alone, NoStrayImport
<1>2. QED
  BY Inductive, <1>1, PTL DEF IInv

-----------------------------------------------------------------------------
(* Custody of the PTYs. *)

HeldPanes == {p \in Shown : Held(p)}
Holder    == IF committed THEN "new" ELSE "old"
KeptBy    == [p \in Shown |-> Keeper(p)]
ReadBy    == [p \in Shown |-> Readers(p)]

\* The keeper of a pane, by what is held and what is committed.
LEMMA KeptByHolder ==
  committed \in BOOLEAN =>
    KeptBy = [p \in Shown |-> IF p \in HeldPanes THEN Holder ELSE "nobody"]
<1> HAVE committed \in BOOLEAN
<1>1. ASSUME NEW p \in Shown
      PROVE  Keeper(p) = IF p \in HeldPanes THEN Holder ELSE "nobody"
  BY DEF Keeper, HeldPanes, Holder
<1>2. QED
  BY <1>1 DEF KeptBy

\* A step in which servers end, or none does, is an abstract End.
LEMMA EndMaps ==
  ASSUME committed \in BOOLEAN, committed' = committed,
         NEW gone \in SUBSET Up, Up' = Up \ gone,
         HeldPanes' \subseteq HeldPanes,
         HeldPanes' = HeldPanes \/ Holder \notin Up',
         ReadBy' = [p \in Shown |-> ReadBy[p] \ gone]
  PROVE  Custody!Next
<1> DEFINE lost == HeldPanes \ HeldPanes'
<1>1. Holder' = Holder
  BY DEF Holder
<1>2. KeptBy = [p \in Shown |-> IF p \in HeldPanes THEN Holder ELSE "nobody"]
  BY KeptByHolder
<1>3. KeptBy' = [p \in Shown |-> IF p \in HeldPanes' THEN Holder ELSE "nobody"]
  <2>1. committed' \in BOOLEAN
    OBVIOUS
  <2>2. KeptBy' = [p \in Shown |-> IF p \in HeldPanes' THEN Holder' ELSE "nobody"]
    <3>1. ASSUME NEW p \in Shown
          PROVE  Keeper(p)' = IF p \in HeldPanes' THEN Holder' ELSE "nobody"
      BY <2>1 DEF Keeper, HeldPanes, Holder
    <3>2. QED
      BY <3>1 DEF KeptBy
  <2>3. QED
    BY <1>1, <2>2
<1>4. lost \in SUBSET Shown
  BY DEF HeldPanes
<1>5. KeptBy' = [p \in Shown |-> IF p \in lost THEN "nobody" ELSE KeptBy[p]]
  BY <1>2, <1>3
<1>6. \A p \in lost : KeptBy[p] \notin Up'
  BY <1>2, <1>4
<1>7. Custody!End(gone, lost)
  BY <1>5, <1>6 DEF Custody!End, KeptBy, ReadBy
<1>8. QED
  BY <1>4, <1>7 DEF Custody!Next

AllHeld  == \A p \in Shown : Held(p)
KeeperUp == Holder \in Up

\* While the keeper of the panes runs, all of them are held.
LEMMA KeeperHolds == IInv /\ KeeperUp => AllHeld
<1> SUFFICES ASSUME IInv, KeeperUp, NEW p \in Shown PROVE Held(p)
  BY DEF AllHeld
<1> USE DEF KeeperUp, Up, Holder, Servers, Held
<1>1. CASE committed
  <2>1. NewRuns
    BY <1>1
  <2>2. actor["new"][p] # "none"
    BY <1>1, <2>1 DEF IInv, ImportInv, Ripe
  <2>3. QED
    BY <2>2
<1>2. CASE ~committed
  <2>1. OldRuns
    BY <1>2
  <2>2. actor["old"][p] # "none"
    BY <1>2, <2>1 DEF IInv, HoldInv, Panes
  <2>3. QED
    BY <2>2
<1>3. QED
  BY <1>1, <1>2

\* Before the commit, a step of the old server finds all of them held.
LEMMA HeldBefore == IInv /\ old \notin Past \cup {"crashed"} => AllHeld /\ ~committed /\ OldRuns
<1> SUFFICES ASSUME IInv, old \notin Past \cup {"crashed"} PROVE AllHeld /\ ~committed /\ OldRuns
  OBVIOUS
<1>1. ~committed
  BY DEF IInv, CommitInv
<1>2. OldRuns
  BY DEF OldRuns, Past
<1>3. QED
  BY <1>1, <1>2, KeeperHolds DEF KeeperUp, Holder, Up, Servers

\* What nobody holds, nobody will.
LEMMA NothingGained == IInv /\ [Next]_vars => HeldPanes' \subseteq HeldPanes
<1> SUFFICES ASSUME IInv, [Next]_vars, ~AllHeld, NEW p \in Shown, Held(p)' PROVE Held(p)
  BY DEF HeldPanes, AllHeld
<1>ty. /\ actor \in [Servers -> [Panes -> {"none", "running", "quiesced"}]]
       /\ resume \in [Servers -> SUBSET Shown] /\ p \in Panes
  BY DEF IInv, TypeOK, TypePtys, Panes
<1>lines. TypeLines
  BY DEF IInv, TypeOK
<1>late. old \in Past \cup {"crashed"}
  BY HeldBefore
<1>held. Held(p) <=> \/ actor["old"][p] # "none" \/ actor["new"][p] # "none" \/ dups
                     \/ "fds" \in Lines(toNew) \/ new = "importing"
  BY DEF Held, Lines
<1>held2. Held(p)' <=> \/ actor'["old"][p] # "none" \/ actor'["new"][p] # "none" \/ dups'
                       \/ "fds" \in Lines(toNew)' \/ new' = "importing"
  BY DEF Held, Lines
<1> HIDE DEF Held
<1> USE DEF Goes, Moves, Frame, PauseFrame, ImportFrame, VisitorFrame, chanVars, ptyVars, sockVars,
            Servers
<1>1. CASE UNCHANGED <<actor, dups, toNew, new>>
  BY <1>1, <1>held, <1>held2
<1>2. ASSUME NEW q \in Panes, Drain(q) PROVE Held(p)
  BY <1>2, <1>ty, <1>held, <1>held2 DEF Drain
<1>3. CASE OldCrashes
  BY <1>3, <1>ty, <1>held, <1>held2 DEF OldCrashes
<1>4. CASE ReadManifest
  BY <1>4, <1>lines, <1>held, <1>held2, ReceivesLine DEF ReadManifest
<1>5. CASE ReceiveFds
  BY <1>5, <1>lines, <1>held, <1>held2, ReceivesLine DEF ReceiveFds
<1>6. CASE Import
  BY <1>6, <1>held DEF Import
<1>7. CASE HearCommit
  BY <1>7, <1>lines, <1>held, <1>held2, ReceivesLine DEF HearCommit
<1>8. CASE SocketsFree \/ PublishApi \/ PublishClient \/ Connect \/ Assume \/ ImportFails
  <2>1. UNCHANGED <<actor, dups, toNew>> /\ new' # "importing"
    BY <1>8 DEF SocketsFree, PublishApi, PublishClient, Connect, Assume, ImportFails, Bind,
       Answers
  <2>2. QED
    BY <2>1, <1>held, <1>held2
<1>9. CASE ImportExits
  BY <1>9, <1>ty, <1>held, <1>held2, NoLines DEF ImportExits, ImportGone
<1>10. CASE ImportCrashes
  BY <1>10, <1>ty, <1>held, <1>held2, NoLines DEF ImportCrashes, KillImport, ImportGone
<1>11. ASSUME NEW server \in Servers, NEW q \in Panes, ActorResumes(server, q) PROVE Held(p)
  <2>1. actor[server][q] # "none"
    <3>1. CASE server = "old"
      <4>1. q \in resume["old"] /\ q \in Shown
        BY <1>11, <3>1, <1>ty DEF ActorResumes
      <4>2. q \notin resume["old"]
        BY <4>1, <1>late, <1>ty DEF IInv, CommitInv, OldRuns, Panes
      <4>3. QED
        BY <4>1, <4>2
    <3>2. CASE server = "new"
      BY <1>11, <3>2, <1>ty DEF ActorResumes, IInv, ChildInv, ImportInv, Built
    <3>3. QED
      BY <3>1, <3>2
  <2>2. QED
    BY <1>11, <2>1, <1>ty, <1>held, <1>held2 DEF ActorResumes
<1>12. CASE VisitorStarts \/ VisitorServes
  BY <1>12, <1>1 DEF VisitorStarts, VisitorServes, Bind, Answers
<1>13. CASE Drained \/ Finish
  BY <1>13, <1>1 DEF Drained, Finish
<1>14. CASE \/ Snapshot \/ Spawn \/ SpawnFails \/ Duplicate \/ DuplicateFails \/ Accept \/ Validated
            \/ SendFds \/ Restored \/ GiveUp \/ Unpublish \/ Ready \/ Commit \/ GiveUpUnpublished
            \/ SeenClosed \/ RebindApi \/ RebindClient \/ RestoreFails \/ Rollback \/ BeginHandoff
  BY <1>14, <1>late DEF Snapshot, Spawn, SpawnFails, Duplicate, DuplicateFails, Accept,
     Validated,
     SendFds, Restored, GiveUp, Unpublish, Ready, Commit, GiveUpUnpublished, SeenClosed,
     RebindApi, RebindClient, RestoreFails, Rollback, BeginHandoff, Past, Bind, Answers
<1>15. ASSUME NEW q \in Pausable, PausePane(q) \/ PauseFails(q) PROVE Held(p)
  BY <1>15, <1>late DEF PausePane, PauseFails, Past
<1>16. CASE UNCHANGED vars
  BY <1>1, <1>16 DEF vars
<1>17. QED
  BY <1>2, <1>3, <1>4, <1>5, <1>6, <1>7, <1>8, <1>9, <1>10, <1>11, <1>12, <1>13, <1>14, <1>15,
     <1>16 DEF Next, OldStep, ImportStep, ActorStep

\* A step that starts no server, reads no pane and commits nothing is an abstract End.
LEMMA QuietMaps ==
  ASSUME IInv, IInv', [Next]_vars, committed' = committed,
         NEW gone \in SUBSET Up, Up' = Up \ gone,
         ReadBy' = [p \in Shown |-> ReadBy[p] \ gone]
  PROVE  Custody!Next
<1>1. committed \in BOOLEAN
  BY DEF IInv, TypeOK, TypeServers
<1>2. HeldPanes' \subseteq HeldPanes
  BY NothingGained
<1>3. KeeperUp' => AllHeld'
  BY KeeperHolds, PTL
<1>4. Holder' = Holder
  BY DEF Holder
<1>5. Holder \in Up' => HeldPanes' = HeldPanes
  BY <1>2, <1>3, <1>4 DEF HeldPanes, AllHeld, KeeperUp
<1>6. QED
  BY <1>1, <1>2, <1>5, EndMaps

\* Every step of either process is an abstract step, or none.
LEMMA StepMaps == IInv /\ IInv' /\ [Next]_vars => [Custody!Next]_(Custody!vars)
<1> SUFFICES ASSUME IInv, IInv', [Next]_vars PROVE Custody!Next \/ UNCHANGED Custody!vars
  OBVIOUS
<1>ty. /\ actor \in [Servers -> [Panes -> {"none", "running", "quiesced"}]]
       /\ resume \in [Servers -> SUBSET Shown] /\ Shown \subseteq Panes /\ committed \in BOOLEAN
  BY DEF IInv, TypeOK, TypePtys, TypeServers, Panes
<1>read. ReadBy = [p \in Shown |-> {server \in Servers : actor[server][p] = "running"}]
  BY DEF ReadBy, Readers
<1>read2. ReadBy' = [p \in Shown |-> {server \in Servers : actor'[server][p] = "running"}]
  BY DEF ReadBy, Readers
<1>up. /\ Up \subseteq {"old", "new"} /\ ("old" \in Up <=> OldRuns) /\ ("new" \in Up <=> NewRuns)
       /\ Up' \subseteq {"old", "new"} /\ ("old" \in Up' <=> OldRuns') /\ ("new" \in Up' <=> NewRuns')
  BY DEF Up, Servers
<1>kept. KeptBy = [p \in Shown |-> IF p \in HeldPanes THEN Holder ELSE "nobody"]
  BY <1>ty, KeptByHolder
<1>dead. /\ ~NewRuns => \A p \in Shown : actor["new"][p] # "running"
         /\ ~OldRuns => \A p \in Shown : actor["old"][p] # "running"
  BY DEF IInv, ImportInv, CommitInv, Panes
<1>stay. ASSUME UNCHANGED OldRuns, UNCHANGED NewRuns PROVE Up' = Up
  <2>1. \A server : server \in Up' <=> server \in Up
    BY <1>stay, <1>up
  <2>2. QED
    BY <2>1
<1> USE DEF Servers, Goes, Moves, Frame, PauseFrame, ImportFrame, VisitorFrame, chanVars,
            ptyVars, sockVars
<1>same. ASSUME committed' = committed, Up' = Up, ReadBy' = ReadBy PROVE Custody!Next
  <2> DEFINE gone == {}
  <2>1. gone \in SUBSET Up /\ Up' = Up \ gone
    BY <1>same
  <2>2. ReadBy' = [p \in Shown |-> ReadBy[p] \ gone]
    BY <1>same, <1>read
  <2> HIDE DEF gone
  <2>3. QED
    BY <1>same, <2>1, <2>2, QuietMaps
<1>newends. ASSUME ImportGone, committed' = committed, UNCHANGED OldRuns PROVE Custody!Next
  <2> DEFINE gone == Up \cap {"new"}
  <2>1. Up' = Up \ gone
    BY <1>newends, <1>up DEF ImportGone, NewRuns
  <2>2. \A p \in Shown : actor'["old"][p] = actor["old"][p] /\ actor'["new"][p] = "none"
    BY <1>newends, <1>ty DEF ImportGone
  <2>3. ReadBy' = [p \in Shown |-> ReadBy[p] \ gone]
    BY <2>2, <1>read, <1>read2, <1>dead, <1>up
  <2>4. QED
    BY <1>newends, <2>1, <2>3, QuietMaps
<1>pause. ASSUME NEW p \in Shown, old = "pausing", actor' = [actor EXCEPT !["old"][p] = "quiesced"],
                 OldRuns', UNCHANGED <<new, dups, toNew, committed>>
          PROVE  Custody!Next
  <2>1. AllHeld /\ ~committed /\ OldRuns
    BY <1>pause, HeldBefore DEF Past
  <2>2. Up' = Up
    BY <1>pause, <1>up, <2>1 DEF NewRuns
  <2>3. KeptBy' = KeptBy
    <3>1. KeeperUp'
      BY <1>pause, <2>1, <1>up DEF KeeperUp, Holder
    <3>2. AllHeld'
      BY <3>1, KeeperHolds, PTL
    <3>3. \A q \in Shown : Keeper(q) = "old" /\ Keeper(q)' = "old"
      BY <1>pause, <2>1, <3>2 DEF AllHeld, Keeper
    <3>4. QED
      BY <3>3 DEF KeptBy
  <2>4. ReadBy' = [ReadBy EXCEPT ![p] = {}]
    <3>1. \A q \in Shown : actor["new"][q] # "running"
      BY <2>1, <1>ty DEF IInv, CommitInv
    <3>2. QED
      BY <1>pause, <3>1, <1>read, <1>read2, <1>ty
  <2>5. Custody!Pause(p)
    BY <2>2, <2>3, <2>4 DEF Custody!Pause, KeptBy, ReadBy
  <2>6. QED
    BY <2>5 DEF Custody!Next
<1>1. ASSUME NEW p \in Pausable, PausePane(p) PROVE Custody!Next
  <2>1. OldRuns' /\ p \in Shown
    BY <1>1 DEF PausePane, OldRuns, Pausable
  <2>2. QED
    BY <1>1, <2>1, <1>pause DEF PausePane
<1>2. ASSUME NEW p \in Pausable, PauseFails(p) PROVE Custody!Next \/ UNCHANGED Custody!vars
  <2>1. OldRuns /\ OldRuns' /\ p \in Shown
    BY <1>2 DEF PauseFails, OldRuns, Pausable
  <2>2. CASE UNCHANGED actor
    <3>1. Up' = Up
      BY <1>2, <2>1, <1>up DEF PauseFails, NewRuns
    <3>2. QED
      BY <1>2, <2>2, <3>1, <1>read, <1>read2, <1>same DEF PauseFails
  <2>3. CASE actor' = [actor EXCEPT !["old"][p] = "quiesced"]
    BY <1>2, <2>1, <2>3, <1>pause DEF PauseFails
  <2>4. QED
    BY <1>2, <2>2, <2>3 DEF PauseFails
<1>3. CASE Spawn
  <2>1. AllHeld /\ ~committed /\ OldRuns
    BY <1>3, HeldBefore DEF Spawn, Past
  <2>2. OldRuns' /\ NewRuns' /\ ~committed' /\ UNCHANGED actor
    BY <1>3, <2>1 DEF Spawn, OldRuns, NewRuns
  <2>3. Up' = Up \cup {"new"}
    BY <1>up, <2>1, <2>2
  <2>4. KeeperUp'
    BY <2>2, <1>up DEF KeeperUp, Holder
  <2>5. AllHeld'
    BY <2>4, KeeperHolds, PTL
  <2>6. \A p \in Shown : Keeper(p) = "old" /\ Keeper(p)' = "old"
    BY <2>1, <2>2, <2>5 DEF AllHeld, Keeper
  <2>7. KeptBy' = KeptBy /\ \A p \in Shown : KeptBy[p] = "old"
    BY <2>6 DEF KeptBy
  <2>8. ReadBy' = ReadBy
    BY <2>2, <1>read, <1>read2
  <2>9. Custody!Start
    BY <2>3, <2>7, <2>8 DEF Custody!Start, KeptBy, ReadBy
  <2>10. QED
    BY <2>9 DEF Custody!Next
<1>4. CASE Commit
  <2>1. AllHeld /\ ~committed /\ OldRuns /\ NewRuns
    BY <1>4, HeldBefore DEF Commit, Past
  <2>2. OldRuns' /\ NewRuns' /\ committed' /\ UNCHANGED actor
    BY <1>4, <2>1 DEF Commit, OldRuns, NewRuns
  <2>3. Up = {"old", "new"} /\ Up' = Up
    <3>1. \A server : server \in Up <=> server \in {"old", "new"}
      BY <1>up, <2>1
    <3>2. UNCHANGED OldRuns /\ UNCHANGED NewRuns
      BY <1>4 DEF Commit, OldRuns, NewRuns
    <3>3. QED
      BY <3>1, <3>2, <1>stay
  <2>4. KeeperUp'
    BY <2>2, <1>up DEF KeeperUp, Holder
  <2>5. AllHeld'
    BY <2>4, KeeperHolds, PTL
  <2>6. \A p \in Shown : Keeper(p) = "old" /\ Keeper(p)' = "new"
    BY <2>1, <2>2, <2>5 DEF AllHeld, Keeper
  <2>7. KeptBy' = [p \in Shown |-> "new"] /\ \A p \in Shown : KeptBy[p] = "old"
    BY <2>6 DEF KeptBy
  <2>8. \A p \in Shown : actor["old"][p] # "running" /\ actor["new"][p] # "running"
    BY <1>4, <2>1, <1>ty DEF Commit, IInv, PausedInv, Pausing, Waiting, CommitInv
  <2>9. ReadBy' = ReadBy /\ \A p \in Shown : ReadBy[p] = {}
    BY <2>2, <2>8, <1>read, <1>read2
  <2>10. Custody!HandOver
    BY <2>3, <2>7, <2>9 DEF Custody!HandOver, KeptBy, ReadBy
  <2>11. QED
    BY <2>10 DEF Custody!Next
<1>5. ASSUME NEW server \in Servers, NEW p \in Panes, ActorResumes(server, p)
      PROVE  Custody!Next
  <2>1. /\ p \in Shown /\ p \in resume[server]
        /\ actor' = [actor EXCEPT ![server][p] = "running"]
        /\ UNCHANGED <<old, new, committed>>
    BY <1>5, <1>ty DEF ActorResumes
  <2>2. Holder = server /\ KeeperUp
    <3>1. CASE server = "old"
      BY <2>1, <3>1, <1>ty, <1>up DEF IInv, CommitInv, Holder, KeeperUp
    <3>2. CASE server = "new"
      <4>1. committed
        BY <2>1, <3>2 DEF IInv, CommitInv
      <4>2. NewRuns
        BY <2>1, <3>2 DEF IInv, ImportInv
      <4>3. QED
        BY <3>2, <4>1, <4>2, <1>up DEF Holder, KeeperUp
    <3>3. QED
      BY <3>1, <3>2
  <2>3. Up' = Up /\ Holder' = Holder
    BY <2>1, <1>up DEF OldRuns, NewRuns, Holder
  <2>4. KeeperUp'
    BY <2>2, <2>3 DEF KeeperUp
  <2>5. AllHeld /\ AllHeld'
    BY <2>2, <2>4, KeeperHolds, PTL
  <2>6. KeptBy = [q \in Shown |-> server] /\ KeptBy' = KeptBy
    <3>1. \A q \in Shown : Keeper(q) = server /\ Keeper(q)' = server
      BY <2>1, <2>2, <2>5, <1>ty DEF AllHeld, Keeper, Holder
    <3>2. QED
      BY <3>1 DEF KeptBy
  <2>7. ReadBy' = [ReadBy EXCEPT ![p] = {server}]
    <3>1. \A other \in Servers : other # server => actor[other][p] # "running"
      BY <2>1, <2>2, <1>ty DEF Holder, IInv, CommitInv
    <3>2. QED
      BY <2>1, <3>1, <1>read, <1>read2, <1>ty
  <2>8. server \in Up
    BY <2>2 DEF KeeperUp
  <2>9. Custody!Resume(p)
    BY <2>1, <2>3, <2>6, <2>7, <2>8 DEF Custody!Resume, KeptBy, ReadBy
  <2>10. QED
    BY <2>1, <2>9 DEF Custody!Next
<1>6. CASE OldCrashes \/ Finish
  <2> DEFINE gone == Up \cap {"old"}
  <2>1. Up' = Up \ gone /\ committed' = committed
    BY <1>6, <1>up DEF OldCrashes, Finish, OldRuns, NewRuns
  <2>2. \A p \in Shown : actor'["old"][p] # "running" /\ actor'["new"][p] = actor["new"][p]
    BY <1>6, <1>ty DEF OldCrashes, Finish, IInv, CommitInv
  <2>3. ReadBy' = [p \in Shown |-> ReadBy[p] \ gone]
    BY <2>2, <1>read, <1>read2, <1>dead, <1>up
  <2>4. QED
    BY <2>1, <2>3, QuietMaps
<1>7. CASE DuplicateFails \/ GiveUp \/ GiveUpUnpublished
  <2>1. ImportGone /\ committed' = committed
    BY <1>7 DEF DuplicateFails, GiveUp, GiveUpUnpublished, KillImport
  <2>2. UNCHANGED OldRuns
    BY <1>7 DEF DuplicateFails, GiveUp, GiveUpUnpublished, OldRuns
  <2>3. QED
    BY <2>1, <2>2, <1>newends
<1>8. CASE ImportExits \/ ImportCrashes
  <2>1. ImportGone /\ committed' = committed /\ UNCHANGED OldRuns
    BY <1>8 DEF ImportExits, ImportCrashes, KillImport, OldRuns
  <2>2. QED
    BY <2>1, <1>newends
<1>9. ASSUME NEW p \in Panes, Drain(p) PROVE Custody!Next
  <2>1. committed /\ committed' = committed /\ UNCHANGED <<old, new>>
    BY <1>9 DEF Drain, IInv, CommitInv, Past
  <2>2. Up' = Up
    BY <2>1, <1>stay DEF OldRuns, NewRuns
  <2>3. \A q \in Shown : /\ actor["old"][q] # "running" /\ actor'["old"][q] # "running"
                        /\ actor'["new"][q] = actor["new"][q]
    BY <1>9, <2>1, <1>ty DEF Drain, IInv, CommitInv
  <2>4. ReadBy' = ReadBy
    BY <2>3, <1>read, <1>read2
  <2>5. QED
    BY <2>1, <2>2, <2>4, <1>same
<1>10. CASE Import
  <2>1. committed' = committed /\ UNCHANGED old /\ NewRuns /\ NewRuns'
    BY <1>10 DEF Import, NewRuns
  <2>2. Up' = Up
    <3>1. UNCHANGED OldRuns /\ UNCHANGED NewRuns
      BY <2>1, <1>10 DEF OldRuns, NewRuns, Import
    <3>2. QED
      BY <3>1, <1>stay
  <2>3. \A q \in Shown : /\ actor'["old"][q] = actor["old"][q]
                        /\ actor["new"][q] # "running" /\ actor'["new"][q] # "running"
    BY <1>10, <1>ty DEF Import, IInv, CommitInv, ImportInv, Ripe, NewRuns, Panes
  <2>4. ReadBy' = ReadBy
    BY <2>3, <1>read, <1>read2
  <2>5. QED
    BY <2>1, <2>2, <2>4, <1>same
<1>still. ASSUME UNCHANGED <<actor, committed>>, UNCHANGED OldRuns, UNCHANGED NewRuns
          PROVE  Custody!Next
  <2>1. Up' = Up
    BY <1>still, <1>stay
  <2>2. ReadBy' = ReadBy
    BY <1>still, <1>read, <1>read2
  <2>3. QED
    BY <1>still, <2>1, <2>2, <1>same
<1>11. CASE BeginHandoff
  <2>1. ~NewRuns
    BY <1>11 DEF BeginHandoff, IInv, AloneInv, Alone
  <2>2. UNCHANGED <<actor, committed>> /\ UNCHANGED OldRuns /\ UNCHANGED NewRuns
    BY <1>11, <2>1 DEF BeginHandoff, OldRuns, NewRuns
  <2>3. QED
    BY <2>2, <1>still
<1>12. CASE \/ Snapshot \/ SpawnFails \/ Duplicate \/ Accept \/ Validated \/ SendFds \/ Restored
            \/ Unpublish \/ Ready
  <2>1. UNCHANGED <<actor, committed>> /\ UNCHANGED OldRuns /\ UNCHANGED NewRuns
    BY <1>12 DEF Snapshot, SpawnFails, Duplicate, Accept, Validated, SendFds, Restored,
                 Unpublish, Ready, OldRuns, NewRuns
  <2>2. QED
    BY <2>1, <1>still
<1>13. CASE SeenClosed \/ RebindApi \/ RebindClient \/ RestoreFails \/ Rollback \/ Drained
  <2>1. UNCHANGED <<actor, committed>> /\ UNCHANGED OldRuns /\ UNCHANGED NewRuns
    BY <1>13 DEF SeenClosed, RebindApi, RebindClient, RestoreFails, Rollback, Drained,
                 OldRuns, NewRuns, Bind, Answers
  <2>2. QED
    BY <2>1, <1>still
<1>14. CASE \/ Connect \/ ReadManifest \/ ReceiveFds \/ SocketsFree \/ PublishApi
            \/ PublishClient \/ HearCommit \/ Assume \/ ImportFails
  <2>1. UNCHANGED <<actor, committed>> /\ UNCHANGED OldRuns /\ UNCHANGED NewRuns
    BY <1>14 DEF Connect, ReadManifest, ReceiveFds, SocketsFree, PublishApi, PublishClient,
                 HearCommit, Assume, ImportFails, OldRuns, NewRuns, Bind, Answers
  <2>2. QED
    BY <2>1, <1>still
<1>15. CASE VisitorStarts \/ VisitorServes \/ UNCHANGED vars
  <2>1. UNCHANGED <<actor, committed, old, new>>
    BY <1>15 DEF VisitorStarts, VisitorServes, Bind, Answers, vars
  <2>2. QED
    BY <2>1, <1>still DEF OldRuns, NewRuns
<1>16. QED
  BY <1>1, <1>2, <1>3, <1>4, <1>5, <1>6, <1>7, <1>8, <1>9, <1>10, <1>11, <1>12, <1>13, <1>14,
     <1>15 DEF Next, OldStep, ImportStep, ActorStep

\* A live handoff keeps the custody PaneCustody asks for: every PTY has one keeper, only the
\* keeper reads it, all change hands together at the commit, and none is lost while its
\* keeper runs, whatever fails (perform_live_handoff, run_handoff_import_server).
THEOREM CustodyKept == Spec => KeepsCustody
<1>1. Init => Custody!Init
  <2> SUFFICES ASSUME Init PROVE Custody!Init
    OBVIOUS
  <2>1. Up = {"old"}
    BY DEF Init, Up, OldRuns, NewRuns, Servers
  <2>2. \A p \in Shown : Keeper(p) = "old" /\ Readers(p) = {"old"}
    BY DEF Init, Keeper, Held, Readers, Servers, Panes
  <2>3. QED
    BY <2>1, <2>2 DEF Custody!Init
<1>2. QED
  BY <1>1, Inductive, StepMaps, PTL DEF Spec, KeepsCustody, Custody!Spec

-----------------------------------------------------------------------------
(***************************************************************************)
(* Who is found at the public sockets during and after a live handoff, for *)
(* any number of handoffs and with a visitor that may take a free path.    *)
(***************************************************************************)

\* Where the old server has not touched its socket files or has them back, where it has
\* removed them, and where it is in a handoff that has bound none again.
Undisturbed == {"serving", "pausing", "spawning", "duplicating", "accepting", "validating",
                "sending", "restoring", "unpublishing", "rollingback"}
Hidden == {"readying", "committing", "closing", "rebinding api"}
Midway == {"pausing", "spawning", "duplicating", "accepting", "validating", "sending",
           "restoring", "unpublishing", "readying", "committing", "closing", "rebinding api",
           "rebinding client"}

\* The recorded identities are those of one bind, before the handoff under way.
RecordedInv ==
  \E k \in 0..attempts :
    /\ mine = [path \in Paths |-> <<"old", k>>]
    /\ old \in Midway => k < attempts

\* The old server listens behind what it has recorded.
ListenInv == OldRuns => \A path \in Paths : <<path, mine[path]>> \in listening

\* Its files are at their paths unless it has removed or lost them ...
OwnInv ==
  old \in Undisturbed /\ result # "unreachable" => \A path \in Paths : file[path] = mine[path]

\* ... and the api path never leads back to a bind it has given up.
LostInv == old \in Hidden \/ (result = "unreachable" /\ OldRuns) => file["api"] # mine["api"]

OutcomeInv == result = "unreachable" => old \in {"serving", "rollingback", "crashed"}

\* Between its two binds it has the first.
ReboundInv ==
  old = "rebinding client" => Answers("api") /\ file["api"] = <<"old", attempts>>

\* So has the import server, and then both.
TakenInv ==
  /\ new = "publishing client" => Answers("api") /\ file["api"] = NewId
  /\ new \in {"uncommitted", "assuming", "running"} =>
       \A path \in Paths : Answers(path) /\ file[path] = NewId

SocketInv ==
  /\ RecordedInv /\ ListenInv /\ OwnInv /\ LostInv /\ OutcomeInv /\ ReboundInv /\ TakenInv

Inv == IInv /\ SocketInv

-----------------------------------------------------------------------------
(* Identities, and what a step may do to the sockets. *)

\* No two servers have the same identity, nor has the old one at two attempts.
LEMMA IdentitiesDiffer ==
  ASSUME Inv
  PROVE  /\ mine["api"] = mine["client"]
         /\ \A path \in Paths :
              /\ mine[path] # NewId /\ mine[path] # VisitorId /\ mine[path] # NoFile
              /\ mine[path] # <<"old", attempts + 1>>
              /\ old \in Midway => mine[path] # <<"old", attempts>>
              /\ mine[path][1] = "old"
<1>1. PICK k \in 0..attempts :
        /\ mine = [path \in Paths |-> <<"old", k>>]
        /\ old \in Midway => k < attempts
  BY DEF Inv, SocketInv, RecordedInv
<1>2. attempts \in Nat /\ k \in Nat
  BY <1>1, ConstantsAssumption DEF Inv, IInv, TypeOK, TypeServers
<1>3. \A path \in Paths : mine[path] = <<"old", k>>
  BY <1>1
<1>4. QED
  BY <1>1, <1>2, <1>3 DEF NewId, VisitorId, NoFile, Paths

\* A bind is refused where a listener answers, and disturbs no other path.
LEMMA BindsFree ==
  ASSUME Inv, NEW path \in Paths, NEW owner, Bind(path, owner)
  PROVE  /\ ~Answers(path)
         /\ file' = [file EXCEPT ![path] = owner]
         /\ file'[path] = owner
         /\ \A other \in Paths \ {path} : file'[other] = file[other]
         /\ listening' = listening \cup {<<path, owner>>}
         /\ <<path, owner>> \in listening'
BY DEF Bind, Inv, IInv, TypeOK, TypeSockets

-----------------------------------------------------------------------------
(* What a step does to the old server's identity and place. *)

\* Only a new attempt and the second bind of a restore touch what is recorded, and only a
\* request takes the old server into a handoff.
LEMMA RecordedStays ==
  ASSUME [Next]_vars, ~BeginHandoff, ~RebindClient
  PROVE  /\ UNCHANGED <<mine, attempts>>
         /\ old' \in Midway => old \in Midway
<1> USE DEF Midway, Goes, Moves, Frame, PauseFrame, ImportFrame, VisitorFrame, chanVars, ptyVars,
            sockVars
<1>1. ASSUME NEW p \in Pausable, PausePane(p) \/ PauseFails(p)
      PROVE  /\ UNCHANGED <<mine, attempts>>
             /\ old' \in Midway => old \in Midway
  BY <1>1 DEF PausePane, PauseFails
<1>2. CASE \/ Snapshot \/ Spawn \/ SpawnFails \/ Duplicate \/ DuplicateFails \/ Accept \/ Validated
           \/ SendFds \/ Restored \/ GiveUp
  BY <1>2 DEF Snapshot, Spawn, SpawnFails, Duplicate, DuplicateFails, Accept, Validated, SendFds,
              Restored, GiveUp, KillImport
<1>3. CASE \/ Unpublish \/ Ready \/ Commit \/ GiveUpUnpublished \/ SeenClosed \/ RebindApi
           \/ RestoreFails \/ Rollback \/ Drained \/ Finish \/ OldCrashes
  BY <1>3 DEF Unpublish, Ready, Commit, GiveUpUnpublished, KillImport, SeenClosed, RebindApi,
              RestoreFails, Rollback, Drained, Finish, OldCrashes
<1>4. ASSUME NEW p \in Panes, Drain(p)
      PROVE  /\ UNCHANGED <<mine, attempts>>
             /\ old' \in Midway => old \in Midway
  BY <1>4 DEF Drain
<1>5. CASE ImportStep
  BY <1>5 DEF ImportStep, Connect, ReadManifest, ReceiveFds, Import, SocketsFree, PublishApi,
              PublishClient, HearCommit, Assume, ImportFails, ImportExits
<1>6. CASE ImportCrashes
  BY <1>6 DEF ImportCrashes, KillImport
<1>7. CASE ActorStep \/ VisitorStarts \/ VisitorServes \/ UNCHANGED vars
  BY <1>7 DEF ActorStep, ActorResumes, VisitorStarts, VisitorServes, vars
<1>8. QED
  BY <1>1, <1>2, <1>3, <1>4, <1>5, <1>6, <1>7 DEF Next, OldStep

\* The old server records the identity of one bind.
LEMMA RecordedKept == Inv /\ [Next]_vars => RecordedInv'
<1> SUFFICES ASSUME Inv, [Next]_vars PROVE RecordedInv'
  OBVIOUS
<1>1. PICK k \in 0..attempts :
        /\ mine = [path \in Paths |-> <<"old", k>>]
        /\ old \in Midway => k < attempts
  BY DEF Inv, SocketInv, RecordedInv
<1>2. attempts \in Nat
  BY ConstantsAssumption DEF Inv, IInv, TypeOK, TypeServers
<1>3. CASE BeginHandoff
  <2>1. attempts' = attempts + 1 /\ mine' = mine
    BY <1>3 DEF BeginHandoff, sockVars
  <2>2. k \in 0..attempts' /\ k < attempts'
    BY <1>2, <2>1
  <2>3. QED
    BY <1>1, <2>1, <2>2 DEF RecordedInv
<1>4. CASE RebindClient
  <2>1. attempts' = attempts /\ old' = "rollingback" /\ mine' = [path \in Paths |-> <<"old", attempts>>]
    BY <1>4 DEF RebindClient, Goes, Frame
  <2>2. attempts' \in 0..attempts' /\ mine' = [path \in Paths |-> <<"old", attempts'>>]
    BY <1>2, <2>1
  <2>3. old' \notin Midway
    BY <2>1 DEF Midway
  <2>4. QED
    BY <2>2, <2>3 DEF RecordedInv
<1>5. CASE ~BeginHandoff /\ ~RebindClient
  <2>1. UNCHANGED <<mine, attempts>> /\ (old' \in Midway => old \in Midway)
    BY <1>5, RecordedStays
  <2>2. QED
    BY <1>1, <2>1 DEF RecordedInv
<1>6. QED
  BY <1>3, <1>4, <1>5

\* It goes on listening behind it as long as it runs.
LEMMA ListenKept == Inv /\ [Next]_vars => ListenInv'
<1> SUFFICES ASSUME Inv, [Next]_vars, OldRuns', NEW path \in Paths
             PROVE  <<path, mine'[path]>> \in listening'
  BY DEF ListenInv
<1> USE DEF Goes, Moves, Frame, PauseFrame, ImportFrame, VisitorFrame, chanVars, ptyVars, sockVars
<1>runs. OldRuns
  <2>1. CASE old \notin {"stopped", "crashed"}
    BY <2>1 DEF OldRuns
  <2>2. CASE old \in {"stopped", "crashed"}
    <3>1. ~BeginHandoff /\ ~OldStep /\ ~OldCrashes
      BY <2>2 DEF BeginHandoff, OldStep, PausePane, PauseFails, Snapshot, Spawn, SpawnFails,
         Duplicate, DuplicateFails, Accept, Validated, SendFds, Restored, GiveUp, Unpublish, Ready,
         Commit, GiveUpUnpublished, SeenClosed, RebindApi, RebindClient, RestoreFails, Rollback,
         Drain, Drained, Finish, OldCrashes, OldRuns
    <3>2. old' = old
      BY <3>1 DEF Next, ImportStep, Connect, ReadManifest, ReceiveFds, Import, SocketsFree,
         PublishApi, PublishClient, HearCommit, Assume, ImportFails, ImportExits, ImportCrashes,
         ActorStep, ActorResumes, VisitorStarts, VisitorServes, vars
    <3>3. QED
      BY <2>2, <3>2 DEF OldRuns
  <2>3. QED
    BY <2>1, <2>2
<1>had. <<path, mine[path]>> \in listening /\ mine[path][1] = "old"
  BY <1>runs, IdentitiesDiffer DEF Inv, SocketInv, ListenInv
<1>1. CASE mine' = mine /\ listening \subseteq listening'
  BY <1>1, <1>had
<1>2. CASE mine' = mine /\ listening' = Closed("new")
  BY <1>2, <1>had DEF Closed
<1>3. CASE RebindClient
  <2>1. /\ old = "rebinding client"
        /\ mine' = [q \in Paths |-> <<"old", attempts>>]
        /\ listening' = listening \cup {<<"client", <<"old", attempts>>>>}
    BY <1>3 DEF RebindClient
  <2>2. <<"api", <<"old", attempts>>>> \in listening
    BY <2>1 DEF Inv, SocketInv, ReboundInv, Answers
  <2>3. QED
    BY <2>1, <2>2 DEF Paths
<1>4. CASE DuplicateFails \/ GiveUp \/ GiveUpUnpublished \/ ImportCrashes \/ ImportExits
  BY <1>2, <1>4 DEF DuplicateFails, GiveUp, GiveUpUnpublished, ImportCrashes, ImportExits,
                    KillImport, ImportGone
<1>5. CASE RebindApi \/ PublishApi \/ PublishClient \/ VisitorStarts \/ VisitorServes
  BY <1>1, <1>5 DEF RebindApi, PublishApi, PublishClient, VisitorStarts, VisitorServes, Bind
<1>6. ASSUME NEW p \in Pausable, PausePane(p) \/ PauseFails(p)
      PROVE  <<path, mine'[path]>> \in listening'
  BY <1>1, <1>6 DEF PausePane, PauseFails
<1>7. ASSUME NEW p \in Panes, Drain(p)
      PROVE  <<path, mine'[path]>> \in listening'
  BY <1>1, <1>7 DEF Drain
<1>8. CASE \/ BeginHandoff \/ Snapshot \/ Spawn \/ SpawnFails \/ Duplicate \/ Accept \/ Validated
           \/ SendFds \/ Restored \/ Unpublish \/ Ready \/ Commit \/ SeenClosed \/ RestoreFails
           \/ Rollback \/ Drained
  BY <1>1, <1>8 DEF BeginHandoff, Snapshot, Spawn, SpawnFails, Duplicate, Accept, Validated,
     SendFds, Restored, Unpublish, Ready, Commit, SeenClosed, RestoreFails, Rollback, Drained
<1>9. CASE \/ Connect \/ ReadManifest \/ ReceiveFds \/ Import \/ SocketsFree \/ HearCommit \/ Assume
           \/ ImportFails \/ ActorStep \/ UNCHANGED vars
  BY <1>1, <1>9 DEF Connect, ReadManifest, ReceiveFds, Import, SocketsFree, HearCommit, Assume,
     ImportFails, ActorStep, ActorResumes, vars
<1>10. CASE Finish \/ OldCrashes
  BY <1>10 DEF Finish, OldCrashes, OldRuns
<1>11. QED
  BY <1>3, <1>4, <1>5, <1>6, <1>7, <1>8, <1>9, <1>10 DEF Next, OldStep, ImportStep

-----------------------------------------------------------------------------
(* What a step does to the files and to the listeners. *)

\* A file is removed only by the server it names, and replaced only where none answers.
LEMMA FileChanges ==
  ASSUME Inv, [Next]_vars, NEW path \in Paths
  PROVE  \/ file'[path] = file[path]
         \/ (Unpublish \/ Finish \/ RebindClient) /\ file[path] = mine[path] /\ file'[path] = NoFile
         \/ ImportExits /\ file[path] = NewId /\ file'[path] = NoFile
         \/ (RebindApi \/ RebindClient) /\ ~Answers(path) /\ file'[path] = <<"old", attempts>>
         \/ (PublishApi \/ PublishClient) /\ ~Answers(path) /\ file'[path] = NewId
         \/ (VisitorStarts \/ VisitorServes) /\ ~Answers(path) /\ file'[path] = VisitorId
<1> DEFINE Changes ==
      \/ file'[path] = file[path]
      \/ (Unpublish \/ Finish \/ RebindClient) /\ file[path] = mine[path] /\ file'[path] = NoFile
      \/ ImportExits /\ file[path] = NewId /\ file'[path] = NoFile
      \/ (RebindApi \/ RebindClient) /\ ~Answers(path) /\ file'[path] = <<"old", attempts>>
      \/ (PublishApi \/ PublishClient) /\ ~Answers(path) /\ file'[path] = NewId
      \/ (VisitorStarts \/ VisitorServes) /\ ~Answers(path) /\ file'[path] = VisitorId
<1> SUFFICES Changes
  OBVIOUS
<1>typed. file \in [Paths -> Owners \cup {NoFile}]
  BY DEF Inv, IInv, TypeOK, TypeSockets
<1>1. CASE file' = file
  BY <1>1
<1>2. CASE Unpublish \/ Finish
  BY <1>2 DEF Unpublish, Finish, AfterFinish, WithoutOwn
<1>3. CASE ImportExits
  BY <1>3 DEF ImportExits, WithoutOwn
<1>4. CASE RebindClient
  <2>1. /\ ~Answers("client")
        /\ file' = [WithoutOwn(file, mine) EXCEPT !["client"] = <<"old", attempts>>]
    BY <1>4 DEF RebindClient
  <2>2. CASE path = "client"
    BY <1>4, <2>1, <2>2 DEF WithoutOwn
  <2>3. CASE path # "client"
    BY <1>4, <2>1, <2>3 DEF WithoutOwn
  <2>4. QED
    BY <2>2, <2>3
<1>5. CASE RebindApi
  <2>1. Bind("api", <<"old", attempts>>)
    BY <1>5 DEF RebindApi
  <2>2. QED
    BY <1>5, <2>1, BindsFree DEF Paths
<1>6. CASE PublishApi
  <2>1. Bind("api", NewId)
    BY <1>6 DEF PublishApi
  <2>2. QED
    BY <1>6, <2>1, BindsFree DEF Paths
<1>7. CASE PublishClient
  <2>1. Bind("client", NewId)
    BY <1>7 DEF PublishClient
  <2>2. QED
    BY <1>7, <2>1, BindsFree DEF Paths
<1>8. CASE VisitorStarts
  <2>1. Bind("api", VisitorId)
    BY <1>8 DEF VisitorStarts
  <2>2. QED
    BY <1>8, <2>1, BindsFree DEF Paths
<1>9. CASE VisitorServes
  <2>1. Bind("client", VisitorId)
    BY <1>9 DEF VisitorServes
  <2>2. QED
    BY <1>9, <2>1, BindsFree DEF Paths
<1> HIDE DEF Changes
<1> USE DEF PauseFrame, ImportFrame, chanVars, ptyVars, sockVars
<1>10. ASSUME NEW p \in Pausable, PausePane(p) \/ PauseFails(p) PROVE Changes
  BY <1>1, <1>10 DEF PausePane, PauseFails
<1>11. ASSUME NEW p \in Panes, Drain(p) PROVE Changes
  BY <1>1, <1>11 DEF Drain
<1>12. CASE \/ BeginHandoff \/ Snapshot \/ Spawn \/ SpawnFails \/ Duplicate \/ DuplicateFails
            \/ Accept \/ Validated \/ SendFds \/ Restored \/ GiveUp \/ Ready \/ Commit
            \/ GiveUpUnpublished \/ SeenClosed \/ RestoreFails \/ Rollback \/ Drained \/ OldCrashes
  BY <1>1, <1>12 DEF BeginHandoff, Snapshot, Spawn, SpawnFails, Duplicate, DuplicateFails, Accept,
     Validated, SendFds, Restored, GiveUp, KillImport, Ready, Commit, GiveUpUnpublished,
     SeenClosed, RestoreFails, Rollback, Drained, OldCrashes
<1>13. CASE \/ Connect \/ ReadManifest \/ ReceiveFds \/ Import \/ SocketsFree \/ HearCommit
            \/ Assume \/ ImportFails \/ ImportCrashes \/ ActorStep \/ UNCHANGED vars
  BY <1>1, <1>13 DEF Connect, ReadManifest, ReceiveFds, Import, SocketsFree, HearCommit, Assume,
     ImportFails, ImportCrashes, KillImport, ActorStep, ActorResumes, vars
<1>14. QED
  BY <1>2, <1>3, <1>4, <1>5, <1>6, <1>7, <1>8, <1>9, <1>10, <1>11, <1>12, <1>13
     DEF Next, OldStep, ImportStep

\* A listener is closed only with its server.
LEMMA ListenersStay ==
  ASSUME [Next]_vars
  PROVE  \/ listening \subseteq listening'
         \/ listening' = Closed("new") /\ new' = "dead"
         \/ listening' = Closed("old") /\ ~OldRuns' /\ new' = new
<1> DEFINE Stay ==
      \/ listening \subseteq listening'
      \/ listening' = Closed("new") /\ new' = "dead"
      \/ listening' = Closed("old") /\ ~OldRuns' /\ new' = new
<1> USE DEF PauseFrame, ImportFrame, VisitorFrame, chanVars, ptyVars, sockVars
<1>1. CASE Finish \/ OldCrashes
  BY <1>1 DEF Finish, OldCrashes, Goes, OldRuns
<1>2. CASE DuplicateFails \/ GiveUp \/ GiveUpUnpublished \/ ImportCrashes \/ ImportExits
  BY <1>2 DEF DuplicateFails, GiveUp, GiveUpUnpublished, ImportCrashes, ImportExits, KillImport,
              ImportGone
<1>3. CASE \/ RebindApi \/ RebindClient \/ PublishApi \/ PublishClient \/ VisitorStarts
           \/ VisitorServes
  BY <1>3 DEF RebindApi, RebindClient, PublishApi, PublishClient, VisitorStarts, VisitorServes, Bind
<1>4. ASSUME NEW p \in Pausable, PausePane(p) \/ PauseFails(p) PROVE Stay
  BY <1>4 DEF PausePane, PauseFails
<1>5. ASSUME NEW p \in Panes, Drain(p) PROVE Stay
  BY <1>5 DEF Drain
<1>6. CASE \/ BeginHandoff \/ Snapshot \/ Spawn \/ SpawnFails \/ Duplicate \/ Accept \/ Validated
           \/ SendFds \/ Restored \/ Unpublish \/ Ready \/ Commit \/ SeenClosed \/ RestoreFails
           \/ Rollback \/ Drained
  BY <1>6 DEF BeginHandoff, Snapshot, Spawn, SpawnFails, Duplicate, Accept, Validated,
     SendFds, Restored, Unpublish, Ready, Commit, SeenClosed, RestoreFails, Rollback, Drained
<1>7. CASE \/ Connect \/ ReadManifest \/ ReceiveFds \/ Import \/ SocketsFree \/ HearCommit \/ Assume
           \/ ImportFails \/ ActorStep \/ UNCHANGED vars
  BY <1>7 DEF Connect, ReadManifest, ReceiveFds, Import, SocketsFree, HearCommit, Assume,
     ImportFails, ActorStep, ActorResumes, vars
<1>8. QED
  BY <1>1, <1>2, <1>3, <1>4, <1>5, <1>6, <1>7 DEF Next, OldStep, ImportStep

\* From where the old server comes to a place that says something about its sockets, and how
\* an outcome is set and cleared.
LEMMA OldComesFrom ==
  ASSUME [Next]_vars
  PROVE  /\ old' \in Undisturbed => old \in Undisturbed \/ RebindClient \/ RestoreFails
         /\ old' \in Hidden => old \in Hidden \/ Unpublish
         /\ old' = "rebinding client" => old = "rebinding client" \/ RebindApi
         /\ result' = "unreachable" => result = "unreachable" \/ RestoreFails
         /\ result = "unreachable" /\ result' # "unreachable" => BeginHandoff \/ Finish
         /\ old \in {"serving", "rollingback", "crashed"} =>
              old' \in {"serving", "rollingback", "crashed"} \/ BeginHandoff
         /\ OldRuns' => OldRuns
<1> DEFINE From ==
         /\ old' \in Undisturbed => old \in Undisturbed \/ RebindClient \/ RestoreFails
         /\ old' \in Hidden => old \in Hidden \/ Unpublish
         /\ old' = "rebinding client" => old = "rebinding client" \/ RebindApi
         /\ result' = "unreachable" => result = "unreachable" \/ RestoreFails
         /\ result = "unreachable" /\ result' # "unreachable" => BeginHandoff \/ Finish
         /\ old \in {"serving", "rollingback", "crashed"} =>
              old' \in {"serving", "rollingback", "crashed"} \/ BeginHandoff
         /\ OldRuns' => OldRuns
<1> USE DEF Goes, PauseFrame, ImportFrame, VisitorFrame, OldRuns, Undisturbed, Hidden
<1>1. CASE BeginHandoff \/ Finish \/ OldCrashes \/ RestoreFails \/ Rollback
  BY <1>1 DEF BeginHandoff, Finish, OldCrashes, RestoreFails, Rollback
<1>2. CASE \/ Snapshot \/ Spawn \/ SpawnFails \/ Duplicate \/ DuplicateFails \/ Accept \/ Validated
           \/ SendFds \/ Restored \/ GiveUp
  BY <1>2 DEF Snapshot, Spawn, SpawnFails, Duplicate, DuplicateFails, Accept, Validated, SendFds,
              Restored, GiveUp
<1>3. CASE \/ Unpublish \/ Ready \/ Commit \/ GiveUpUnpublished \/ SeenClosed \/ RebindApi
           \/ RebindClient \/ Drained
  BY <1>3 DEF Unpublish, Ready, Commit, GiveUpUnpublished, SeenClosed, RebindApi, RebindClient,
              Drained
<1>4. ASSUME NEW p \in Pausable, PausePane(p) \/ PauseFails(p) PROVE From
  BY <1>4 DEF PausePane, PauseFails
<1>5. ASSUME NEW p \in Panes, Drain(p) PROVE From
  BY <1>5 DEF Drain
<1>6. CASE ImportStep \/ ImportCrashes \/ ActorStep \/ VisitorStarts \/ VisitorServes
           \/ UNCHANGED vars
  <2>1. UNCHANGED <<old, result>>
    BY <1>6 DEF ImportStep, Connect, ReadManifest, ReceiveFds, Import, SocketsFree, PublishApi,
       PublishClient, HearCommit, Assume, ImportFails, ImportExits, ImportCrashes, ActorStep,
       ActorResumes, VisitorStarts, VisitorServes, vars
  <2>2. QED
    BY <2>1
<1>7. QED
  BY <1>1, <1>2, <1>3, <1>4, <1>5, <1>6 DEF Next, OldStep

\* From where the import server comes to hold a socket.
LEMMA NewComesFrom ==
  ASSUME [Next]_vars
  PROVE  /\ new' = "publishing client" => PublishApi \/ new = "publishing client"
         /\ new' \in {"uncommitted", "assuming", "running"} =>
              PublishClient \/ new \in {"uncommitted", "assuming", "running"}
<1> DEFINE From ==
         /\ new' = "publishing client" => PublishApi \/ new = "publishing client"
         /\ new' \in {"uncommitted", "assuming", "running"} =>
              PublishClient \/ new \in {"uncommitted", "assuming", "running"}
<1> USE DEF Moves, PauseFrame, VisitorFrame
<1>1. CASE DuplicateFails \/ GiveUp \/ GiveUpUnpublished \/ ImportCrashes \/ ImportExits
  BY <1>1 DEF DuplicateFails, GiveUp, GiveUpUnpublished, ImportCrashes, ImportExits, KillImport,
              ImportGone
<1>2. ASSUME NEW p \in Pausable, PausePane(p) \/ PauseFails(p) PROVE From
  BY <1>2 DEF PausePane, PauseFails
<1>3. ASSUME NEW p \in Panes, Drain(p) PROVE From
  BY <1>3 DEF Drain
<1>4. CASE \/ BeginHandoff \/ Snapshot \/ Spawn \/ SpawnFails \/ Duplicate \/ Accept \/ Validated
           \/ SendFds \/ Restored \/ Unpublish \/ Ready \/ Commit \/ SeenClosed \/ RebindApi
           \/ RebindClient \/ RestoreFails \/ Rollback \/ Drained \/ Finish \/ OldCrashes
  BY <1>4 DEF BeginHandoff, Snapshot, Spawn, SpawnFails, Duplicate, Accept, Validated, SendFds,
     Restored, Unpublish, Ready, Commit, SeenClosed, RebindApi, RebindClient, RestoreFails,
     Rollback, Drained, Finish, OldCrashes
<1>5. CASE \/ Connect \/ ReadManifest \/ ReceiveFds \/ Import \/ SocketsFree \/ PublishApi
           \/ PublishClient \/ HearCommit \/ Assume \/ ImportFails
  BY <1>5 DEF Connect, ReadManifest, ReceiveFds, Import, SocketsFree, PublishApi, PublishClient,
     HearCommit, Assume, ImportFails
<1>6. CASE ActorStep \/ VisitorStarts \/ VisitorServes \/ UNCHANGED vars
  BY <1>6 DEF ActorStep, ActorResumes, VisitorStarts, VisitorServes, vars
<1>7. QED
  BY <1>1, <1>2, <1>3, <1>4, <1>5, <1>6 DEF Next, OldStep, ImportStep

-----------------------------------------------------------------------------
(* Each part of the invariant is kept. *)

\* Where the old server answers for its file, only it can take the file away.
LEMMA OwnFileStays ==
  ASSUME Inv, [Next]_vars, OldRuns, NEW path \in Paths, file[path] = mine[path],
         ~Unpublish, ~Finish, ~RebindClient
  PROVE  file'[path] = file[path]
<1>1. Answers(path)
  BY DEF Inv, SocketInv, ListenInv, Answers
<1>2. mine[path] # NewId
  BY IdentitiesDiffer
<1>3. QED
  BY <1>1, <1>2, FileChanges

\* The old server keeps its files unless it removes them or loses them for good.
LEMMA OwnKept == Inv /\ [Next]_vars => OwnInv'
<1> SUFFICES ASSUME Inv, [Next]_vars, old' \in Undisturbed, result' # "unreachable",
                    NEW path \in Paths
             PROVE  file'[path] = mine'[path]
  BY DEF OwnInv
<1>1. CASE RebindClient
  <2>1. /\ old = "rebinding client"
        /\ mine' = [q \in Paths |-> <<"old", attempts>>]
        /\ file' = [WithoutOwn(file, mine) EXCEPT !["client"] = <<"old", attempts>>]
    BY <1>1 DEF RebindClient, Goes
  <2>2. file["api"] = <<"old", attempts>> /\ file["api"] # mine["api"]
    BY <2>1, IdentitiesDiffer DEF Inv, SocketInv, ReboundInv, Midway, Paths
  <2>3. file'["api"] = <<"old", attempts>> /\ file'["client"] = <<"old", attempts>>
    BY <2>1, <2>2 DEF WithoutOwn, Paths
  <2>4. QED
    BY <2>1, <2>3 DEF Paths
<1>2. CASE ~RebindClient
  <2>1. old' # "readying" /\ old' # "stopped"
    BY DEF Undisturbed
  <2>2. ~RestoreFails /\ ~Unpublish /\ ~Finish
    BY <2>1 DEF RestoreFails, Unpublish, Finish, Goes
  <2>3. old \in Undisturbed
    BY <1>2, <2>2, OldComesFrom
  <2>4. OldRuns
    BY <2>3 DEF Undisturbed, OldRuns
  <2>5. result # "unreachable"
    <3>1. CASE BeginHandoff
      <4>1. old = "serving" /\ file["api"] = mine["api"]
        BY <3>1 DEF BeginHandoff, Goes
      <4>2. QED
        BY <2>4, <4>1 DEF Inv, SocketInv, LostInv
    <3>2. CASE ~BeginHandoff
      BY <2>2, <3>2, OldComesFrom
    <3>3. QED
      BY <3>1, <3>2
  <2>6. file[path] = mine[path]
    BY <2>3, <2>5 DEF Inv, SocketInv, OwnInv
  <2>7. mine' = mine
    <3>1. CASE BeginHandoff
      BY <3>1 DEF BeginHandoff, sockVars
    <3>2. CASE ~BeginHandoff
      BY <1>2, <3>2, RecordedStays
    <3>3. QED
      BY <3>1, <3>2
  <2>8. QED
    BY <1>2, <2>2, <2>4, <2>6, <2>7, OwnFileStays
<1>3. QED
  BY <1>1, <1>2

\* A file it has removed or lost does not become its own again, but by a new bind.
LEMMA LostKept == Inv /\ [Next]_vars => LostInv'
<1> SUFFICES ASSUME Inv, [Next]_vars, old' \in Hidden \/ (result' = "unreachable" /\ OldRuns')
             PROVE  file'["api"] # mine'["api"]
  BY DEF LostInv
<1> USE DEF Paths
<1>differ. /\ mine["api"] # NewId /\ mine["api"] # VisitorId /\ mine["api"] # NoFile
  BY IdentitiesDiffer
<1>1. CASE Unpublish
  <2>1. file' = WithoutOwn(file, mine) /\ mine' = mine
    BY <1>1 DEF Unpublish
  <2>2. QED
    BY <1>differ, <2>1 DEF WithoutOwn
<1>2. CASE ~Unpublish
  <2>1. old' \in Hidden => old \in Hidden
    BY <1>2, OldComesFrom
  <2>2. RestoreFails => old \in Hidden
    BY DEF RestoreFails, Goes, Hidden
  <2>3. OldRuns' => OldRuns
    BY OldComesFrom
  <2>4. old \in Hidden \/ (result = "unreachable" /\ OldRuns)
    BY <2>1, <2>2, <2>3, OldComesFrom
  <2>5. file["api"] # mine["api"]
    BY <2>4 DEF Inv, SocketInv, LostInv
  <2>6. ~BeginHandoff
    BY DEF BeginHandoff, Goes, Hidden
  <2>7. ~RebindClient
    <3> SUFFICES ASSUME RebindClient PROVE FALSE
      OBVIOUS
    <3>1. old = "rebinding client" /\ old' = "rollingback" /\ result' = result
      BY DEF RebindClient, Goes
    <3>2. QED
      BY <2>4, <3>1 DEF Hidden, Inv, SocketInv, OutcomeInv
  <2>8. ~RebindApi
    <3> SUFFICES ASSUME RebindApi PROVE FALSE
      OBVIOUS
    <3>1. old = "rebinding api" /\ old' = "rebinding client" /\ result' = result
      BY DEF RebindApi, Goes
    <3>2. QED
      BY <3>1 DEF Hidden, Inv, SocketInv, OutcomeInv
  <2>9. mine' = mine
    BY <2>6, <2>7, RecordedStays
  <2>10. QED
    BY <1>differ, <2>5, <2>7, <2>8, <2>9, FileChanges
<1>3. QED
  BY <1>1, <1>2

\* A server without its sockets is back from its handoff, or dead.
LEMMA OutcomeKept == Inv /\ [Next]_vars => OutcomeInv'
<1> SUFFICES ASSUME Inv, [Next]_vars, result' = "unreachable"
             PROVE  old' \in {"serving", "rollingback", "crashed"}
  BY DEF OutcomeInv
<1>1. CASE RestoreFails
  BY <1>1 DEF RestoreFails, Goes
<1>2. CASE ~RestoreFails
  <2>1. old \in {"serving", "rollingback", "crashed"}
    BY <1>2, OldComesFrom DEF Inv, SocketInv, OutcomeInv
  <2>2. ~BeginHandoff
    BY DEF BeginHandoff
  <2>3. QED
    BY <2>1, <2>2, OldComesFrom
<1>3. QED
  BY <1>1, <1>2

\* The api path it has bound again stays its own.
LEMMA ReboundKept == Inv /\ [Next]_vars => ReboundInv'
<1> SUFFICES ASSUME Inv, [Next]_vars, old' = "rebinding client"
             PROVE  /\ file'["api"] = <<"old", attempts'>>
                    /\ <<"api", file'["api"]>> \in listening'
  BY DEF ReboundInv, Answers
<1> USE DEF Paths
<1>1. CASE RebindApi
  <2>1. Bind("api", <<"old", attempts>>) /\ attempts' = attempts
    BY <1>1 DEF RebindApi, Frame
  <2>2. QED
    BY <2>1, BindsFree
<1>2. CASE ~RebindApi
  <2>1. old = "rebinding client"
    BY <1>2, OldComesFrom
  <2>2. Answers("api") /\ file["api"] = <<"old", attempts>>
    BY <2>1 DEF Inv, SocketInv, ReboundInv
  <2>3. ~NewRuns
    BY <2>1 DEF Inv, IInv, AloneInv, Alone
  <2>4. ~ImportExits
    BY <2>3 DEF ImportExits, NewRuns
  <2>5. ~BeginHandoff /\ ~RebindClient /\ ~Unpublish /\ ~Finish
    BY <2>1 DEF BeginHandoff, RebindClient, Unpublish, Finish, Goes
  <2>6. attempts' = attempts
    BY <2>5, RecordedStays
  <2>7. file'["api"] = file["api"]
    BY <2>2, <2>4, <2>5, FileChanges
  <2>8. <<"api", <<"old", attempts>>>> \in listening'
    <3>1. <<"api", <<"old", attempts>>>> \in listening
      BY <2>2 DEF Answers
    <3>2. OldRuns'
      BY DEF OldRuns
    <3>3. QED
      BY <3>1, <3>2, ListenersStay DEF Closed
  <2>9. QED
    BY <2>2, <2>6, <2>7, <2>8
<1>3. QED
  BY <1>1, <1>2

\* A socket the import server has bound stays its own while it goes on.
LEMMA BoundStays ==
  ASSUME Inv, [Next]_vars, NEW path \in Paths, Answers(path), file[path] = NewId,
         new' \notin {"none", "dead"}
  PROVE  file'[path] = NewId' /\ <<path, NewId'>> \in listening'
<1>1. ~BeginHandoff
  BY DEF BeginHandoff
<1>2. attempts' = attempts
  <2>1. CASE RebindClient
    BY <2>1 DEF RebindClient, Frame
  <2>2. CASE ~RebindClient
    BY <1>1, <2>2, RecordedStays
  <2>3. QED
    BY <2>1, <2>2
<1>3. ~ImportExits
  BY DEF ImportExits, ImportGone
<1>4. mine[path] # NewId
  BY IdentitiesDiffer
<1>5. file'[path] = file[path]
  BY <1>3, <1>4, FileChanges
<1>6. <<path, NewId>> \in listening'
  <2>1. <<path, NewId>> \in listening
    BY DEF Answers
  <2>2. QED
    BY <2>1, ListenersStay DEF Closed, NewId
<1>7. QED
  BY <1>2, <1>5, <1>6 DEF NewId

\* The import server has the sockets it has published.
LEMMA TakenKept == Inv /\ [Next]_vars => TakenInv'
<1> SUFFICES ASSUME Inv, [Next]_vars PROVE TakenInv'
  OBVIOUS
<1> USE DEF Paths
<1>1. ASSUME new' = "publishing client"
      PROVE  file'["api"] = NewId' /\ <<"api", NewId'>> \in listening'
  <2>1. CASE PublishApi
    <3>1. Bind("api", NewId) /\ attempts' = attempts
      BY <2>1 DEF PublishApi, ImportFrame
    <3>2. QED
      BY <3>1, BindsFree DEF NewId
  <2>2. CASE ~PublishApi
    <3>1. Answers("api") /\ file["api"] = NewId
      BY <1>1, <2>2, NewComesFrom DEF Inv, SocketInv, TakenInv
    <3>2. QED
      BY <1>1, <3>1, BoundStays
  <2>3. QED
    BY <2>1, <2>2
<1>2. ASSUME new' \in {"uncommitted", "assuming", "running"}, NEW path \in Paths
      PROVE  file'[path] = NewId' /\ <<path, NewId'>> \in listening'
  <2>1. CASE PublishClient
    <3>1. Bind("client", NewId) /\ attempts' = attempts /\ new = "publishing client"
      BY <2>1 DEF PublishClient, ImportFrame, Moves
    <3>2. Answers("api") /\ file["api"] = NewId
      BY <3>1 DEF Inv, SocketInv, TakenInv
    <3>3. file'["api"] = NewId' /\ <<"api", NewId'>> \in listening'
      BY <1>2, <3>2, BoundStays
    <3>4. file'["client"] = NewId' /\ <<"client", NewId'>> \in listening'
      BY <3>1, BindsFree DEF NewId
    <3>5. QED
      BY <3>3, <3>4
  <2>2. CASE ~PublishClient
    <3>1. Answers(path) /\ file[path] = NewId
      BY <1>2, <2>2, NewComesFrom DEF Inv, SocketInv, TakenInv
    <3>2. QED
      BY <1>2, <3>1, BoundStays
  <2>3. QED
    BY <2>1, <2>2
<1>3. QED
  BY <1>1, <1>2 DEF TakenInv, Answers

-----------------------------------------------------------------------------
(* The theorems. *)

\* At first the old server has both paths.
LEMMA InitSockets == Init => SocketInv
<1> SUFFICES ASSUME Init PROVE SocketInv
  OBVIOUS
<1>1. /\ old = "serving" /\ new = "none" /\ result = "none" /\ attempts = 0
      /\ mine = [path \in Paths |-> <<"old", 0>>] /\ file = mine
      /\ listening = {<<path, <<"old", 0>>>> : path \in Paths}
  BY DEF Init
<1>2. RecordedInv
  <2>1. 0 \in 0..attempts /\ old \notin Midway
    BY <1>1 DEF Midway
  <2>2. QED
    BY <1>1, <2>1 DEF RecordedInv
<1>3. ListenInv /\ OwnInv
  BY <1>1 DEF ListenInv, OwnInv
<1>4. LostInv /\ OutcomeInv /\ ReboundInv /\ TakenInv
  BY <1>1 DEF LostInv, OutcomeInv, ReboundInv, TakenInv, Hidden
<1>5. QED
  BY <1>2, <1>3, <1>4 DEF SocketInv

\* The invariant of the sockets, relative to that of the handoff.
LEMMA SocketsInductive == Spec => []Inv
<1>1. Init => SocketInv
  BY InitSockets
<1>2. IInv /\ SocketInv /\ [Next]_vars => SocketInv'
  BY RecordedKept, ListenKept, OwnKept, LostKept, OutcomeKept, ReboundKept, TakenKept
     DEF SocketInv, Inv
<1>3. QED
  BY <1>1, <1>2, Inductive, PTL DEF Spec, Inv

\* A server that serves and has not reported socket trouble is found at both public paths,
\* under the identity it has recorded, after any handoff that failed
\* (restore_public_sockets_after_failed_handoff).
THEOREM OldServerFound == Spec => []OldReachable
<1>1. Inv => OldReachable
  <2> SUFFICES ASSUME Inv, old = "serving", result # "unreachable", NEW path \in Paths
               PROVE  Answers(path) /\ file[path] = mine[path]
    BY DEF OldReachable
  <2>1. file[path] = mine[path]
    BY DEF Inv, SocketInv, OwnInv, Undisturbed
  <2>2. <<path, mine[path]>> \in listening
    BY DEF Inv, SocketInv, ListenInv, OldRuns
  <2>3. QED
    BY <2>1, <2>2 DEF Answers
<1>2. QED
  BY <1>1, SocketsInductive, PTL

\* The server that took over is found at both public paths for as long as it runs, whatever
\* the old one cleans up behind it and whoever else starts (cleanup_sockets,
\* remove_socket_file_if_owned, prepare_socket_path).
THEOREM NewServerFound == Spec => []NewReachable
<1>1. Inv => NewReachable
  BY DEF NewReachable, Inv, SocketInv, TakenInv
<1>2. QED
  BY <1>1, SocketsInductive, PTL

=============================================================================
