---------------------------- MODULE LiveHandoff ----------------------------
(***************************************************************************)
(* A live handoff: a server passes the PTYs of its panes to a new server    *)
(* process without ending the programs in them (src/src/server/headless.rs, *)
(* src/src/server/handoff.rs).                                              *)
(*                                                                         *)
(*   old      perform_live_handoff, in the server loop of the old server    *)
(*   new      run_handoff_import_server, the process the old one spawns     *)
(*   actors   the PTY actors of both, as the servers see them (PtyActor)    *)
(*   visitor  a server that a launching client spawns when none answers     *)
(*                                                                         *)
(* Every wait for a line has a timeout, and a peer that is gone ends it: at *)
(* a wait, either side may give up at any time.                             *)
(***************************************************************************)
EXTENDS Integers, Sequences, FiniteSets

CONSTANTS
  Shown,        \* panes in a tab: those a handoff passes on
  Popups,       \* runtimes in no tab
  Visitors,     \* whether a visitor may come
  MaxAttempts   \* bound: handoffs requested

ASSUME ConstantsAssumption ==
  /\ Shown \cap Popups = {}
  /\ Visitors \in BOOLEAN
  /\ MaxAttempts \in Nat

VARIABLES
  old, new,     \* where either server is
  toOld, toNew, \* lines on the handoff socket, not yet read
  actor,        \* each server's PTY actors
  resume,       \* panes whose actor has an unhandled rollback command
  paused,       \* paused_terminal_ids
  dups,         \* the old server holds duplicates of the masters
  keeps,        \* preserve_processes_on_drop of the imported runtimes
  child,        \* the panes' processes
  committed,    \* "committed" was written
  result,       \* how the last handoff ended
  attempts,
  file,         \* the owner of the socket file at each public path
  listening,    \* open public listeners
  mine,         \* the socket identities the old server has recorded
  visitor

chanVars == <<toOld, toNew>>
ptyVars  == <<actor, resume, child>>
sockVars == <<file, listening, mine>>
vars == <<old, new, chanVars, ptyVars, paused, dups, keeps, committed, result, attempts,
          sockVars, visitor>>

Servers == {"old", "new"}
Panes == Shown \cup Popups
Paths == {"api", "client"}
NoFile == <<"none", 0>>
Owners == {"old", "new", "visitor"} \X (0..MaxAttempts)

OldSteps == {"serving", "pausing", "spawning", "duplicating", "accepting", "validating",
             "sending", "restoring", "unpublishing", "readying", "committing", "draining",
             "acking", "closing", "rebinding api", "rebinding client", "rollingback",
             "stopped", "crashed"}
NewSteps == {"none", "starting", "greeting", "receiving", "importing", "waiting",
             "publishing api", "publishing client", "uncommitted", "assuming", "running",
             "failing", "dead"}
Reportable == {"token", "validated", "restored", "ready", "owned"}
Sendable   == {"manifest", "fds", "committed"}

Init ==
  /\ old = "serving" /\ new = "none"
  /\ toOld = <<>> /\ toNew = <<>>
  /\ actor = [server \in Servers |->
                [p \in Panes |-> IF server = "old" THEN "running" ELSE "none"]]
  /\ resume = [server \in Servers |-> {}]
  /\ paused = {} /\ dups = FALSE /\ keeps = FALSE
  /\ child = [p \in Panes |-> "alive"]
  /\ committed = FALSE /\ result = "none" /\ attempts = 0
  /\ mine = [path \in Paths |-> <<"old", 0>>]
  /\ file = mine
  /\ listening = {<<path, <<"old", 0>>>> : path \in Paths}
  /\ visitor = "absent"

-----------------------------------------------------------------------------
(* Public sockets. *)

\* A connect to the path finds a listener.
Answers(path) == <<path, file[path]>> \in listening

\* prepare_socket_path and bind: refused while another server answers, else the stale
\* file is replaced.
Bind(path, owner) ==
  /\ ~Answers(path)
  /\ file' = [file EXCEPT ![path] = owner]
  /\ listening' = listening \cup {<<path, owner>>}

\* remove_socket_file_if_owned, for every path.
WithoutOwn_Unconditional(files, ids) == [path \in Paths |-> NoFile]
WithoutOwn(files, ids) ==
  [path \in Paths |-> IF files[path] = ids[path] THEN NoFile ELSE files[path]]

Closed(server) == {l \in listening : l[2][1] # server}

NewId == <<"new", attempts>>

-----------------------------------------------------------------------------
(* The old server. *)

OldRuns == old \notin {"stopped", "crashed"}
NewRuns == new \notin {"none", "dead"}

Goes(from, to) == old = from /\ old' = to
Heard(line) == toOld # <<>> /\ Head(toOld) = line /\ toOld' = Tail(toOld)

\* What dies with the import process, however it ends.
ImportGone ==
  /\ new' = "dead"
  /\ actor' = [actor EXCEPT !["new"] = [p \in Panes |-> "none"]]
  /\ resume' = [resume EXCEPT !["new"] = {}]
  /\ toNew' = <<>>
  /\ listening' = Closed("new")

\* cleanup_failed_import_child kills and reaps: nothing is dropped in order.
KillImport ==
  /\ ImportGone
  /\ UNCHANGED <<toOld, child, file, mine>>

\* The request comes in by the api socket.
BeginHandoff ==
  /\ Goes("serving", "pausing")
  /\ Answers("api") /\ file["api"] = mine["api"]
  /\ attempts < MaxAttempts
  /\ attempts' = attempts + 1
  /\ new' = "none" /\ toOld' = <<>> /\ result' = "none"
  /\ UNCHANGED <<toNew, ptyVars, paused, dups, keeps, committed, sockVars, visitor>>

PauseFrame == UNCHANGED <<new, chanVars, child, dups, keeps, committed, result, attempts,
                          sockVars, visitor>>

\* The panes of pane_by_terminal, not every runtime.
Pausable_AllRuntimes == Panes
Pausable == Shown

PausePane(p) ==
  /\ old = "pausing" /\ p \notin paused /\ p \notin resume["old"]
  /\ actor' = [actor EXCEPT !["old"][p] = "quiesced"]
  /\ paused' = paused \cup {p}
  /\ UNCHANGED <<old, resume>>
  /\ PauseFrame

\* A failed begin_handoff posts a rollback of its own: the actor may quiesce in between.
PauseFails(p) ==
  /\ Goes("pausing", "rollingback") /\ p \notin paused
  /\ \/ UNCHANGED <<actor, resume>>
     \/ /\ actor' = [actor EXCEPT !["old"][p] = "quiesced"]
        /\ resume' = [resume EXCEPT !["old"] = @ \cup {p}]
  /\ UNCHANGED paused
  /\ PauseFrame

EveryonePaused_Someone == paused # {}
EveryonePaused == paused = Shown

Frame == UNCHANGED <<paused, keeps, attempts, visitor>>

Snapshot ==
  /\ Goes("pausing", "spawning") /\ EveryonePaused
  /\ UNCHANGED <<new, chanVars, ptyVars, dups, committed, result, sockVars>>
  /\ Frame

Spawn ==
  /\ Goes("spawning", "duplicating")
  /\ new' = "starting"
  /\ UNCHANGED <<chanVars, ptyVars, dups, committed, result, sockVars>>
  /\ Frame

SpawnFails ==
  /\ Goes("spawning", "rollingback")
  /\ UNCHANGED <<new, chanVars, ptyVars, dups, committed, result, sockVars>>
  /\ Frame

Duplicate ==
  /\ Goes("duplicating", "accepting")
  /\ dups' = TRUE
  /\ UNCHANGED <<new, chanVars, ptyVars, committed, result, sockVars>>
  /\ Frame

DuplicateFails_ChildKept ==
  /\ Goes("duplicating", "rollingback")
  /\ UNCHANGED <<new, chanVars, ptyVars, dups, committed, result, sockVars>>
  /\ Frame

DuplicateFails ==
  /\ Goes("duplicating", "rollingback")
  /\ KillImport
  /\ UNCHANGED <<dups, committed, result>>
  /\ Frame

\* accept_and_validate_on, in its two waits: the token against the manifest ...
Accept ==
  /\ Goes("accepting", "validating") /\ Heard("token")
  /\ toNew' = Append(toNew, "manifest")
  /\ UNCHANGED <<new, ptyVars, dups, committed, result, sockVars>>
  /\ Frame

\* ... and its acceptance by the import server.
Validated ==
  /\ Goes("validating", "sending") /\ Heard("validated")
  /\ UNCHANGED <<new, toNew, ptyVars, dups, committed, result, sockVars>>
  /\ Frame

SendFds ==
  /\ Goes("sending", "restoring") /\ NewRuns
  /\ toNew' = Append(toNew, "fds")
  /\ UNCHANGED <<new, toOld, ptyVars, dups, committed, result, sockVars>>
  /\ Frame

Restored ==
  /\ Goes("restoring", "unpublishing") /\ Heard("restored")
  /\ dups' = FALSE
  /\ UNCHANGED <<new, toNew, ptyVars, committed, result, sockVars>>
  /\ Frame

\* A wait or a write before the sockets are unpublished fails.
GiveUp ==
  /\ \E from \in {"accepting", "validating", "sending", "restoring"} : Goes(from, "rollingback")
  /\ KillImport
  /\ dups' = FALSE
  /\ UNCHANGED <<committed, result>>
  /\ Frame

Unpublish ==
  /\ Goes("unpublishing", "readying")
  /\ file' = WithoutOwn(file, mine)
  /\ UNCHANGED <<new, chanVars, ptyVars, dups, committed, result, listening, mine>>
  /\ Frame

Ready ==
  /\ Goes("readying", "committing") /\ Heard("ready")
  /\ UNCHANGED <<new, toNew, ptyVars, dups, committed, result, sockVars>>
  /\ Frame

\* A process about to exit still has its end of the socket open.
Commit ==
  /\ Goes("committing", "draining") /\ NewRuns
  /\ toNew' = Append(toNew, "committed")
  /\ committed' = TRUE
  /\ UNCHANGED <<new, toOld, ptyVars, dups, result, sockVars>>
  /\ Frame

\* wait_ready or report_committed fails.
GiveUpUnpublished ==
  /\ \/ Goes("readying", "closing")
     \/ Goes("committing", "closing") /\ ~NewRuns
  /\ KillImport
  /\ UNCHANGED <<dups, committed, result>>
  /\ Frame

\* wait_for_old_public_sockets_to_close, with COMMIT_TIMEOUT and two seconds.
SeenClosed ==
  /\ Goes("closing", "rebinding api")
  /\ \A path \in Paths : ~Answers(path)
  /\ UNCHANGED <<new, chanVars, ptyVars, dups, committed, result, sockVars>>
  /\ Frame

RebindApi ==
  /\ Goes("rebinding api", "rebinding client")
  /\ Bind("api", <<"old", attempts>>)
  /\ UNCHANGED <<new, chanVars, ptyVars, dups, committed, result, mine>>
  /\ Frame

\* The new handles replace the recorded ones; dropping the former api handle removes the
\* file at its path if it is still its own.
RebindClient ==
  /\ Goes("rebinding client", "rollingback")
  /\ ~Answers("client")
  /\ mine' = [path \in Paths |-> <<"old", attempts>>]
  /\ file' = [WithoutOwn(file, mine) EXCEPT !["client"] = <<"old", attempts>>]
  /\ listening' = listening \cup {<<"client", <<"old", attempts>>>>}
  /\ UNCHANGED <<new, chanVars, ptyVars, dups, committed, result>>
  /\ Frame

\* Another server answers: the old one goes on without public sockets.
RestoreFails ==
  /\ \/ Goes("closing", "rollingback") /\ \E path \in Paths : Answers(path)
     \/ Goes("rebinding api", "rollingback") /\ Answers("api")
  /\ result' = "unreachable"
  /\ UNCHANGED <<new, chanVars, ptyVars, dups, committed, sockVars>>
  /\ Frame

\* rollback_handoff_before_commit.
Unpaused_OnlyIfReachable == IF result = "unreachable" THEN {} ELSE paused
Unpaused == paused

Rollback ==
  /\ Goes("rollingback", "serving")
  /\ resume' = [resume EXCEPT !["old"] = @ \cup Unpaused]
  /\ paused' = {}
  /\ result' = IF result = "unreachable" THEN result ELSE "failed"
  /\ UNCHANGED <<new, chanVars, actor, child, dups, keeps, committed, attempts, sockVars,
                 visitor>>

\* drain_for_handoff: preserve_for_handoff, or the Drop of a runtime in no tab.
Drain(p) ==
  /\ old = "draining" /\ actor["old"][p] # "none"
  /\ actor' = [actor EXCEPT !["old"][p] = "none"]
  /\ child' = [child EXCEPT ![p] = IF p \in Popups THEN "killed" ELSE @]
  /\ UNCHANGED <<old, new, chanVars, resume, dups, committed, result, sockVars>>
  /\ Frame

Drained ==
  /\ Goes("draining", "acking")
  /\ \A p \in Panes : actor["old"][p] = "none"
  /\ UNCHANGED <<new, chanVars, ptyVars, dups, committed, result, sockVars>>
  /\ Frame

\* cleanup_sockets and the Drop of the api handle.
AfterFinish_AllRemoved == [path \in Paths |-> NoFile]
AfterFinish == WithoutOwn(file, mine)

\* wait_owned_ack only warns; then the response, and the server's own end.
Finish ==
  /\ Goes("acking", "stopped")
  /\ result' = "ok"
  /\ file' = AfterFinish
  /\ listening' = Closed("old")
  /\ UNCHANGED <<new, chanVars, ptyVars, dups, committed, mine>>
  /\ Frame

OldStep ==
  \/ \E p \in Pausable : PausePane(p) \/ PauseFails(p)
  \/ Snapshot \/ Spawn \/ SpawnFails \/ Duplicate \/ DuplicateFails
  \/ Accept \/ Validated \/ SendFds \/ Restored \/ GiveUp
  \/ Unpublish \/ Ready \/ Commit \/ GiveUpUnpublished
  \/ SeenClosed \/ RebindApi \/ RebindClient \/ RestoreFails \/ Rollback
  \/ \E p \in Panes : Drain(p)
  \/ Drained \/ Finish

\* The old server is killed: its files and the lines it sent stay.
OldCrashes ==
  /\ OldRuns
  /\ old' = "crashed"
  /\ actor' = [actor EXCEPT !["old"] = [p \in Panes |-> "none"]]
  /\ resume' = [resume EXCEPT !["old"] = {}]
  /\ dups' = FALSE
  /\ listening' = Closed("old")
  /\ UNCHANGED <<new, chanVars, child, paused, keeps, committed, result, attempts, file,
                 mine, visitor>>

-----------------------------------------------------------------------------
(* The import server. *)

Moves(from, to) == new = from /\ new' = to
Receives(line) == toNew # <<>> /\ Head(toNew) = line /\ toNew' = Tail(toNew)

\* A write to a peer that is gone fails.
Reports(line) == OldRuns /\ toOld' = Append(toOld, line)

ImportFrame == UNCHANGED <<old, child, paused, dups, committed, result, attempts, mine, visitor>>

Connect ==
  /\ Moves("starting", "greeting") /\ Reports("token")
  /\ UNCHANGED <<toNew, actor, resume, keeps, file, listening>>
  /\ ImportFrame

ReadManifest ==
  /\ Moves("greeting", "receiving") /\ Receives("manifest") /\ Reports("validated")
  /\ UNCHANGED <<actor, resume, keeps, file, listening>>
  /\ ImportFrame

ReceiveFds ==
  /\ Moves("receiving", "importing") /\ Receives("fds")
  /\ UNCHANGED <<toOld, actor, resume, keeps, file, listening>>
  /\ ImportFrame

\* from_handoff_fd: initially_quiesced, and preserve_processes_on_drop.
ImportedKeeps_LikeSpawned == FALSE
ImportedKeeps == TRUE

Import ==
  /\ Moves("importing", "waiting") /\ Reports("restored")
  /\ actor' = [actor EXCEPT !["new"] = [p \in Panes |-> IF p \in Shown THEN "quiesced" ELSE "none"]]
  /\ keeps' = ImportedKeeps
  /\ UNCHANGED <<toNew, resume, file, listening>>
  /\ ImportFrame

SocketsFree ==
  /\ Moves("waiting", "publishing api")
  /\ \A path \in Paths : ~Answers(path)
  /\ UNCHANGED <<chanVars, actor, resume, keeps, file, listening>>
  /\ ImportFrame

PublishApi ==
  /\ Moves("publishing api", "publishing client")
  /\ Bind("api", NewId)
  /\ UNCHANGED <<chanVars, actor, resume, keeps>>
  /\ ImportFrame

PublishClient ==
  /\ Moves("publishing client", "uncommitted")
  /\ Bind("client", NewId)
  /\ Reports("ready")
  /\ UNCHANGED <<toNew, actor, resume, keeps>>
  /\ ImportFrame

HearCommit ==
  /\ Moves("uncommitted", "assuming") /\ Receives("committed")
  /\ UNCHANGED <<toOld, actor, resume, keeps, file, listening>>
  /\ ImportFrame

\* assume_handoff_ownership, unpause_handoff_readers, and report_owned, which only warns.
Assume ==
  /\ Moves("assuming", "running")
  /\ keeps' = FALSE
  /\ resume' = [resume EXCEPT !["new"] = Shown]
  /\ toOld' = IF OldRuns THEN Append(toOld, "owned") ELSE toOld
  /\ UNCHANGED <<toNew, actor, file, listening>>
  /\ ImportFrame

\* An error, a closed peer or a timeout before ownership: run_handoff_import_server returns.
ImportFails ==
  /\ new \in {"starting", "greeting", "receiving", "importing", "waiting", "publishing api",
              "publishing client", "uncommitted"}
  /\ new' = "failing"
  /\ UNCHANGED <<chanVars, actor, resume, keeps, file, listening>>
  /\ ImportFrame

\* What the process owns is dropped: runtimes, then its socket files.
ImportExits ==
  /\ new = "failing"
  /\ ImportGone
  /\ child' = [p \in Panes |->
       IF ~keeps /\ actor["new"][p] # "none" THEN "killed" ELSE child[p]]
  /\ file' = WithoutOwn(file, [path \in Paths |-> NewId])
  /\ UNCHANGED <<old, toOld, paused, dups, keeps, committed, result, attempts, mine, visitor>>

ImportStep ==
  \/ Connect \/ ReadManifest \/ ReceiveFds \/ Import
  \/ SocketsFree \/ PublishApi \/ PublishClient \/ HearCommit \/ Assume
  \/ ImportFails \/ ImportExits

ImportCrashes ==
  /\ NewRuns
  /\ KillImport
  /\ UNCHANGED <<old, paused, dups, keeps, committed, result, attempts, visitor>>

-----------------------------------------------------------------------------
(* The PTY actors, and a visitor. *)

ActorResumes(server, p) ==
  /\ p \in resume[server]
  /\ actor' = [actor EXCEPT ![server][p] = "running"]
  /\ resume' = [resume EXCEPT ![server] = @ \ {p}]
  /\ UNCHANGED <<old, new, chanVars, child, paused, dups, keeps, committed, result, attempts,
                 sockVars, visitor>>

ActorStep == \E server \in Servers, p \in Panes : ActorResumes(server, p)

VisitorFrame == UNCHANGED <<old, new, chanVars, ptyVars, paused, dups, keeps, committed,
                            result, attempts, mine>>

VisitorId == <<"visitor", 0>>

\* auto_detect_launch finds no server at the client socket and spawns one.  Every server
\* takes the api path first, so whoever has that one gets the other too.
VisitorStarts ==
  /\ Visitors /\ visitor = "absent" /\ ~Answers("client")
  /\ Bind("api", VisitorId)
  /\ visitor' = "binding"
  /\ VisitorFrame

VisitorServes ==
  /\ visitor = "binding"
  /\ Bind("client", VisitorId)
  /\ visitor' = "serving"
  /\ VisitorFrame

-----------------------------------------------------------------------------
Next ==
  \/ BeginHandoff \/ OldStep \/ OldCrashes
  \/ ImportStep \/ ImportCrashes
  \/ ActorStep
  \/ VisitorStarts \/ VisitorServes

Spec == Init /\ [][Next]_vars

\* Both processes run their straight-line code, every wait of which has a timeout or ends
\* with the peer, and the actor threads handle their commands.
FairSpec ==
  /\ Spec
  /\ WF_vars(OldStep) /\ WF_vars(ImportStep) /\ WF_vars(ActorStep)

-----------------------------------------------------------------------------
(* Properties. *)

TypeServers ==
  /\ old \in OldSteps /\ new \in NewSteps
  /\ dups \in BOOLEAN /\ keeps \in BOOLEAN /\ committed \in BOOLEAN
  /\ result \in {"none", "ok", "failed", "unreachable"}
  /\ attempts \in 0..MaxAttempts
  /\ visitor \in {"absent", "binding", "serving"}

TypeLines == toOld \in Seq(Reportable) /\ toNew \in Seq(Sendable)

TypePtys ==
  /\ actor \in [Servers -> [Panes -> {"none", "running", "quiesced"}]]
  /\ resume \in [Servers -> SUBSET Shown]
  /\ paused \subseteq Shown
  /\ child \in [Panes -> {"alive", "killed"}]

TypeSockets ==
  /\ file \in [Paths -> Owners \cup {NoFile}]
  /\ listening \subseteq Paths \X Owners
  /\ mine \in [Paths -> Owners]

\* Types of the two servers, the lines between them, the PTYs and the sockets; only panes
\* in a tab are ever paused (pane_by_terminal).
TypeOK == TypeServers /\ TypeLines /\ TypePtys /\ TypeSockets

\* Somebody holds the master of the pane's PTY: an actor, the duplicates, the message that
\* carries them, or an import that has not built its runtimes yet.
Held(p) ==
  \/ actor["old"][p] # "none" \/ actor["new"][p] # "none"
  \/ dups
  \/ \E k \in DOMAIN toNew : toNew[k] = "fds"
  \/ new = "importing"

Keeper(p) == CASE ~Held(p) -> "nobody" [] Held(p) /\ committed -> "new" [] OTHER -> "old"
Readers(p) == {server \in Servers : actor[server][p] = "running"}
Up == {server \in Servers : IF server = "old" THEN OldRuns ELSE NewRuns}

Custody == INSTANCE PaneCustody WITH
  Panes  <- Shown,
  keeper <- [p \in Shown |-> Keeper(p)],
  reader <- [p \in Shown |-> Readers(p)],
  up     <- Up

\* Every PTY has one keeper, only the keeper reads it, all change hands together and none is
\* lost while its keeper runs, however either server fails (perform_live_handoff against
\* run_handoff_import_server).
KeepsCustody == Custody!Spec

\* No handoff, however it ends, kills the processes of a pane it was to pass on; those in no
\* tab end only when it is committed (preserve_processes_on_drop).
OnlyPopupsKilled == \A p \in Panes : child[p] = "killed" => p \in Popups /\ committed

\* A server that is back from a failed handoff has no import process left behind it that
\* could still take its sockets or PTYs (cleanup_failed_import_child).
NoStrayImport == old = "serving" => ~NewRuns

\* After a failed handoff that reports no socket trouble, both public paths lead to the old
\* server again (restore_public_sockets_after_failed_handoff).
OldReachable ==
  old = "serving" /\ result # "unreachable" =>
    \A path \in Paths : Answers(path) /\ file[path] = mine[path]

\* The server that took over is found at both public paths, also once the old one has cleaned
\* up behind it (cleanup_sockets, Drop of ServerHandle).
NewReachable ==
  new = "running" => \A path \in Paths : Answers(path) /\ file[path] = NewId

KeeperDied == IF committed THEN new = "dead" ELSE old = "crashed"

\* A pane that was paused is read again, by whichever server keeps it then, unless that
\* server died.
EveryPaneReadAgain ==
  \A p \in Shown : actor["old"][p] = "quiesced" ~> (Readers(p) # {} \/ KeeperDied)

\* After a failed handoff the old server answers at its sockets, whatever failed.
FailedHandoffReachable ==
  old = "serving" => \A path \in Paths : Answers(path) /\ file[path][1] = "old"
=============================================================================
