------------------------------ MODULE PtyActor ------------------------------
(***************************************************************************)
(* The PTY I/O actor of one pane (src/src/pty/actor/unix.rs): a thread that *)
(* owns the PTY master, fed by a handle that any task may clone.           *)
(*                                                                         *)
(*   writers     tasks calling write_user_input / try_write_user_input     *)
(*   controller  the server thread: handoff calls, resize, nudge, shutdown *)
(*   actor       PtyIoActorRunner::run                                     *)
(*                                                                         *)
(* A write is an item of two units, so that a short write can stop inside  *)
(* it; what an item says is irrelevant.  A reply channel that nobody waits *)
(* on any more is a command whose call number is no longer the current one. *)
(***************************************************************************)
EXTENDS Integers, Sequences, FiniteSets

CONSTANTS
  Writers,      \* tasks that send user input
  Terminal,     \* the sender of terminal responses (not a writer)
  Sizes,        \* terminal sizes
  TinySizes,    \* sizes too small to be nudged: at most 2 rows and 4 columns
  NoSize,       \* an empty control slot
  QCap,         \* ACTOR_COMMAND_BUFFER
  MaxMsgs,      \* bound: items each writer sends
  MaxCalls,     \* bound: control calls
  MaxReads,     \* bound: reads of the PTY
  MaxResizes,   \* bound: resize requests
  MaxNudges     \* bound: nudge requests

ASSUME ConstantsAssumption ==
  /\ Terminal \notin Writers
  /\ TinySizes \subseteq Sizes
  /\ NoSize \notin Sizes \cup (Sizes \X BOOLEAN)
  /\ Sizes # {}
  /\ QCap \in Nat \ {0}
  /\ {MaxMsgs, MaxCalls, MaxReads, MaxResizes, MaxNudges} \subseteq Nat

VARIABLES
  accepting,    \* UserWriteGate.accepting
  dataQ,        \* the bounded data channel
  ctlQ,         \* the unbounded control channel: [op, id]
  resizeSlot,   \* SharedPtyControls.resize: [size, resp] or NoSize
  nudgeSlot,    \* SharedPtyControls.nudge: a size or NoSize
  state,        \* ActorState
  pc,           \* where the runner is in run()
  beginId,      \* the BeginHandoff being drained
  pending,      \* pending_writes
  offset,       \* current_write_offset, in units
  winsize,      \* the PTY's window size
  wpc,          \* each writer's place in write_user_input
  sent,         \* items each writer has tried to send
  call,         \* the controller's outstanding call
  calls,        \* control calls made: the number of the current one
  reply,        \* the reply to the current call
  view,         \* what the controller knows of the actor
  want,         \* PaneRuntime.current_size
  resizes, nudges,
  wire,         \* history: units written to the PTY
  accepted,     \* history: user items accepted, in order
  lost,         \* history: user items dropped by a failed write
  reads,        \* history: reads of the PTY
  handed,       \* history: the controller holds a duplicate of the master
  raced         \* history: a resize was posted behind a waiting nudge

gateVars  == <<accepting>>
slotVars  == <<resizeSlot, nudgeSlot, want, resizes, nudges, raced>>
writeVars == <<pending, offset, wire, lost>>
userVars  == <<wpc, sent, accepted>>
callVars  == <<call, calls, reply, view, handed>>
vars == <<gateVars, dataQ, ctlQ, slotVars, state, pc, beginId, writeVars,
          winsize, userVars, callVars, reads>>

Item == (Writers \cup {Terminal}) \X Nat
Unit == Item \X {1, 2}
IsUser(item) == item[1] \in Writers
Elems(s)     == {s[i] : i \in DOMAIN s}

Alive  == pc \notin {"exiting", "exited"}
RxOpen == pc # "exited"

Ops == {"begin", "duplicate", "rollback", "release", "shutdown"}
Command == [op : Ops, id : Nat]

Init ==
  /\ state \in {"Running", "Quiesced"}        \* spawned, or imported by a handoff
  /\ accepting = (state = "Running")
  /\ view = IF state = "Running" THEN "live" ELSE "paused"
  /\ dataQ = <<>> /\ ctlQ = <<>>
  /\ resizeSlot = NoSize /\ nudgeSlot = NoSize
  /\ pc = "control" /\ beginId = 0
  /\ pending = <<>> /\ offset = 0
  /\ want \in Sizes /\ winsize = want
  /\ wpc = [w \in Writers |-> "idle"]
  /\ sent = [w \in Writers |-> 0]
  /\ call = "idle" /\ calls = 0 /\ reply = "none"
  /\ resizes = 0 /\ nudges = 0 /\ reads = 0
  /\ wire = <<>> /\ accepted = <<>> /\ lost = {}
  /\ handed = FALSE /\ raced = FALSE

-----------------------------------------------------------------------------
(* Writers. *)

Permits == {w \in Writers : wpc[w] = "permit"}
HasRoom == Len(dataQ) + Cardinality(Permits) < QCap

\* Enqueue under the gate's lock.
Push(w) ==
  /\ dataQ' = Append(dataQ, <<w, sent'[w]>>)
  /\ accepted' = Append(accepted, <<w, sent'[w]>>)

WriterFrame == UNCHANGED <<ctlQ, slotVars, state, pc, beginId, writeVars, winsize,
                           gateVars, callVars, reads>>

\* try_write_user_input: the gate, then a try_send, under one lock.
TryWrite(w) ==
  /\ wpc[w] = "idle" /\ sent[w] < MaxMsgs
  /\ sent' = [sent EXCEPT ![w] = @ + 1]
  /\ IF accepting /\ RxOpen /\ HasRoom
       THEN Push(w)
       ELSE UNCHANGED <<dataQ, accepted>>
  /\ UNCHANGED wpc
  /\ WriterFrame

\* write_user_input: the first look at the gate, then reserve() without the lock.
CheckGate(w) ==
  /\ wpc[w] = "idle" /\ sent[w] < MaxMsgs
  /\ sent' = [sent EXCEPT ![w] = @ + 1]
  /\ wpc' = IF accepting THEN [wpc EXCEPT ![w] = "reserving"] ELSE wpc
  /\ UNCHANGED <<dataQ, accepted>>
  /\ WriterFrame

Reserve(w) ==
  /\ wpc[w] = "reserving"
  /\ RxOpen => HasRoom
  /\ wpc' = [wpc EXCEPT ![w] = IF RxOpen THEN "permit" ELSE "idle"]
  /\ UNCHANGED <<dataQ, sent, accepted>>
  /\ WriterFrame

\* The second look: handoff may have closed the gate while reserve() waited.
SecondLook_Skipped == TRUE
SecondLook == accepting

SendPermit(w) ==
  /\ wpc[w] = "permit"
  /\ wpc' = [wpc EXCEPT ![w] = "idle"]
  /\ UNCHANGED sent
  /\ IF SecondLook /\ RxOpen THEN Push(w) ELSE UNCHANGED <<dataQ, accepted>>
  /\ WriterFrame

Writer == \E w \in Writers : TryWrite(w) \/ CheckGate(w) \/ Reserve(w) \/ SendPermit(w)

-----------------------------------------------------------------------------
(* Controller: the server thread, one call at a time. *)

ControllerFrame == UNCHANGED <<dataQ, state, pc, beginId, writeVars, winsize, userVars, reads>>

Gone == view \in {"released", "dropped"}

\* PaneRuntime::resize: nothing is sent for an unchanged size.
Resize(size, resp) ==
  /\ call = "idle" /\ ~Gone /\ resizes < MaxResizes /\ size # want
  /\ want' = size
  /\ resizeSlot' = <<size, resp>>
  /\ resizes' = resizes + 1
  /\ raced' = (raced \/ nudgeSlot # NoSize)
  /\ UNCHANGED <<nudgeSlot, nudges, ctlQ, gateVars, callVars>>
  /\ ControllerFrame

\* PaneRuntime::nudge_child_redraw_after_handoff, with the size the pane has now.
Nudge ==
  /\ call = "idle" /\ ~Gone /\ nudges < MaxNudges
  /\ nudgeSlot' = want
  /\ nudges' = nudges + 1
  /\ UNCHANGED <<resizeSlot, want, resizes, raced, ctlQ, gateVars, callVars>>
  /\ ControllerFrame

\* Send a command and wait for its reply; a closed channel is an error at once.
Issue(op, waiting) ==
  /\ calls' = calls + 1
  /\ reply' = "none"
  /\ IF RxOpen
       THEN /\ ctlQ' = Append(ctlQ, [op |-> op, id |-> calls + 1])
            /\ call' = waiting
       ELSE /\ UNCHANGED ctlQ
            /\ call' = "idle"
  /\ UNCHANGED slotVars
  /\ ControllerFrame

Ready == call = "idle" /\ ~Gone /\ calls < MaxCalls

\* begin_handoff: close the gate and send, under one lock.  The server never pauses a
\* pane twice without a rollback in between.
BeginCall ==
  /\ Ready /\ view \in {"live", "failed"}
  /\ Issue("begin", "begin")
  /\ accepting' = ~RxOpen
  /\ UNCHANGED <<view, handed>>

DuplicateCall ==
  /\ Ready /\ view = "paused"
  /\ Issue("duplicate", "duplicate")
  /\ UNCHANGED <<gateVars, view, handed>>

\* The duplicates are closed before a rollback is asked for.
RollbackCall ==
  /\ Ready /\ view = "paused"
  /\ Issue("rollback", "rollback")
  /\ view' = IF RxOpen THEN view ELSE "failed"
  /\ handed' = FALSE
  /\ UNCHANGED gateVars

ReleaseCall ==
  /\ Ready /\ view = "paused"
  /\ Issue("release", "release")
  /\ accepting' = FALSE
  /\ view' = "released"
  /\ UNCHANGED handed

\* shutdown: nobody waits for a reply, and the handle is dropped.
ShutdownCall ==
  /\ Ready
  /\ Issue("shutdown", "idle")
  /\ accepting' = FALSE
  /\ view' = "dropped"
  /\ UNCHANGED handed

\* A failed begin_handoff rolls back before it returns its error.
RollbackAfterBegin ==
  /\ Issue("rollback", "rollback")
  /\ view' = "failed"
  /\ UNCHANGED <<gateVars, handed>>

Returned(op) == call = op /\ reply # "none"
TimedOut(op) == call = op /\ reply = "none"

ReturnFrame == UNCHANGED <<calls, ctlQ, slotVars>> /\ ControllerFrame

BeginReturns ==
  \/ /\ Returned("begin") /\ reply = "ok"
     /\ call' = "idle" /\ view' = "paused"
     /\ UNCHANGED <<gateVars, reply, handed>>
     /\ ReturnFrame
  \/ /\ Returned("begin") /\ reply = "err"
     /\ RollbackAfterBegin
  \/ TimedOut("begin") /\ RollbackAfterBegin

DuplicateReturns ==
  /\ call = "duplicate"
  /\ call' = "idle"
  /\ handed' = (handed \/ reply = "ok")
  /\ UNCHANGED <<gateVars, reply, view>>
  /\ ReturnFrame

\* Only a rollback whose success is seen opens the gate.
GateAfterRollback_Always == TRUE
GateAfterRollback == accepting \/ reply = "ok"

RollbackReturns ==
  /\ call = "rollback"
  /\ call' = "idle"
  /\ accepting' = GateAfterRollback
  /\ view' = IF reply = "ok" THEN "live" ELSE "failed"
  /\ UNCHANGED <<reply, handed>>
  /\ ReturnFrame

ReleaseReturns ==
  /\ call = "release"
  /\ call' = "idle"
  /\ UNCHANGED <<gateVars, reply, view, handed>>
  /\ ReturnFrame

Controller ==
  \/ \E size \in Sizes, resp \in BOOLEAN : Resize(size, resp)
  \/ Nudge
  \/ BeginCall \/ DuplicateCall \/ RollbackCall \/ ReleaseCall \/ ShutdownCall
  \/ BeginReturns \/ DuplicateReturns \/ RollbackReturns \/ ReleaseReturns

-----------------------------------------------------------------------------
(* Actor. *)

ActorFrame == UNCHANGED <<gateVars, want, resizes, nudges, raced, userVars, call, calls,
                          view, handed>>

\* The reply reaches the caller only while it still waits for this very call.
Answer(id, result) ==
  reply' = IF id = calls /\ call # "idle" THEN result ELSE reply

\* apply_pending_controls followed by enqueue_terminal_responses, on top of `queue`.
Response(n) == <<Terminal, n>>

ControlsDiscarded_UnlessRunning == state # "Running"
ControlsDiscarded == state = "Released"

ApplyControls(queue) ==
  LET resizing == resizeSlot # NoSize
      resized  == IF resizing THEN resizeSlot[1] ELSE winsize
      answers  == resizing /\ resizeSlot[2]
      nudging  == nudgeSlot # NoSize /\ nudgeSlot \notin TinySizes
  IN /\ resizeSlot' = NoSize
     /\ nudgeSlot' = NoSize
     /\ IF ControlsDiscarded
          THEN winsize' = winsize /\ pending' = queue
          ELSE /\ winsize' = IF nudging THEN nudgeSlot ELSE resized
               /\ pending' = IF answers THEN Append(queue, Response(0)) ELSE queue

\* The k-th unit that pending_writes still owes, counted from its front item.
UnitAt(k) == <<pending[(k + 1) \div 2], 2 - (k % 2)>>
Owed == 2 * Len(pending) - offset

OffsetAfter_KeptOnFailure(n, failed) == (offset + n) % 2
OffsetAfter_NotWrapped(n, failed) == offset + n
OffsetAfter(n, failed) == IF failed THEN 0 ELSE (offset + n) % 2

\* flush_pending_writes_once: n units reach the PTY, then the queue is empty, the PTY
\* takes no more, or the write fails and the rest is dropped.
Flush(n, failed) ==
  LET done == (offset + n) \div 2
      rest == SubSeq(pending, done + 1, Len(pending))
  IN /\ wire' = wire \o [k \in 1..n |-> UnitAt(offset + k)]
     /\ pending' = IF failed THEN <<>> ELSE rest
     /\ offset' = OffsetAfter(n, failed)
     /\ lost' = IF failed THEN lost \cup {item \in Elems(rest) : IsUser(item)} ELSE lost

NextCommand == Head(ctlQ)
TakeCommand(op) ==
  /\ pc = "control" /\ ctlQ # <<>> /\ NextCommand.op = op
  /\ ctlQ' = Tail(ctlQ)

\* begin_handoff: drain the data queue, apply the controls, then flush until empty.
Backlog_DataDropped == pending
Backlog == IF state = "Released" THEN pending ELSE pending \o dataQ

HandleBegin ==
  /\ TakeCommand("begin")
  /\ ApplyControls(Backlog)
  /\ dataQ' = <<>>
  /\ IF state = "Released"
       THEN Answer(NextCommand.id, "err") /\ UNCHANGED <<pc, beginId>>
       ELSE pc' = "draining" /\ beginId' = NextCommand.id /\ UNCHANGED reply
  /\ UNCHANGED <<state, offset, wire, lost, reads>>
  /\ ActorFrame

DrainFlush ==
  /\ pc = "draining" /\ pending # <<>>
  /\ \E n \in 0..Owed, failed \in BOOLEAN :
       /\ failed => n < Owed
       /\ Flush(n, failed)
  /\ UNCHANGED <<dataQ, ctlQ, resizeSlot, nudgeSlot, state, pc, beginId, winsize, reply, reads>>
  /\ ActorFrame

\* HANDOFF_DRAIN_TIMEOUT: the state stays what it was.
DrainGivesUp_Never == FALSE
DrainGivesUp == pending # <<>>

DrainTimeout ==
  /\ pc = "draining" /\ DrainGivesUp
  /\ Answer(beginId, "err")
  /\ pc' = "control" /\ beginId' = 0
  /\ UNCHANGED <<dataQ, ctlQ, resizeSlot, nudgeSlot, state, writeVars, winsize, reads>>
  /\ ActorFrame

Drained_NotAwaited == TRUE
Drained == pending = <<>>

DrainDone ==
  /\ pc = "draining" /\ Drained
  /\ state' = "Quiesced"
  /\ Answer(beginId, "ok")
  /\ pc' = "control" /\ beginId' = 0
  /\ UNCHANGED <<dataQ, ctlQ, resizeSlot, nudgeSlot, writeVars, winsize, reads>>
  /\ ActorFrame

\* dup(2) may fail too.
HandleDuplicate ==
  /\ TakeCommand("duplicate")
  /\ \E result \in {"ok", "err"} :
       /\ result = "ok" => state = "Quiesced"
       /\ Answer(NextCommand.id, result)
  /\ UNCHANGED <<dataQ, resizeSlot, nudgeSlot, state, pc, beginId, writeVars, winsize, reads>>
  /\ ActorFrame

HandleRollback ==
  /\ TakeCommand("rollback")
  /\ IF state = "Released"
       THEN Answer(NextCommand.id, "err") /\ UNCHANGED state
       ELSE Answer(NextCommand.id, "ok") /\ state' = "Running"
  /\ UNCHANGED <<dataQ, resizeSlot, nudgeSlot, pc, beginId, writeVars, winsize, reads>>
  /\ ActorFrame

HandleRelease ==
  /\ TakeCommand("release")
  /\ state' = "Released"
  /\ pending' = <<>>
  /\ Answer(NextCommand.id, "ok")
  /\ pc' = "exiting"
  /\ UNCHANGED <<dataQ, resizeSlot, nudgeSlot, beginId, offset, wire, lost, winsize, reads>>
  /\ ActorFrame

HandleShutdown ==
  /\ TakeCommand("shutdown")
  /\ pc' = "exiting"
  /\ UNCHANGED <<dataQ, resizeSlot, nudgeSlot, state, beginId, writeVars, winsize, reply, reads>>
  /\ ActorFrame

ControlDrained ==
  /\ pc = "control" /\ ctlQ = <<>>
  /\ pc' = "data"
  /\ UNCHANGED <<dataQ, ctlQ, resizeSlot, nudgeSlot, state, beginId, writeVars, winsize, reply, reads>>
  /\ ActorFrame

\* handle_data_command drops what it finds while not Running.
HandleData ==
  /\ pc = "data" /\ dataQ # <<>>
  /\ dataQ' = Tail(dataQ)
  /\ pending' = IF state = "Running" THEN Append(pending, Head(dataQ)) ELSE pending
  /\ UNCHANGED <<ctlQ, resizeSlot, nudgeSlot, state, pc, beginId, offset, wire, lost,
                 winsize, reply, reads>>
  /\ ActorFrame

DataDrained ==
  /\ pc = "data" /\ dataQ = <<>>
  /\ ApplyControls(pending)
  /\ pc' = "flush"
  /\ UNCHANGED <<dataQ, ctlQ, state, beginId, offset, wire, lost, reply, reads>>
  /\ ActorFrame

\* The flush before the poll, and the one a write-ready poll makes.
FlushStep(from, to) ==
  /\ pc = from
  /\ \E n \in 0..Owed, failed \in BOOLEAN :
       /\ failed => n < Owed
       /\ Flush(n, failed)
  /\ pc' = to
  /\ UNCHANGED <<dataQ, ctlQ, resizeSlot, nudgeSlot, state, beginId, winsize, reply, reads>>
  /\ ActorFrame

FlushBeforePoll == FlushStep("flush", "poll")
PollWrite       == pending # <<>> /\ FlushStep("poll", "read")

ReadInterest_UntilReleased == state # "Released"
ReadInterest == state = "Running"

\* read_once, and the responses the read callback returns.
PollRead ==
  /\ pc \in {"poll", "read"} /\ ReadInterest /\ reads < MaxReads
  /\ reads' = reads + 1
  /\ \E responses \in {<<>>, <<Response(reads + 1)>>} : pending' = pending \o responses
  /\ pc' = "control"
  /\ UNCHANGED <<dataQ, ctlQ, resizeSlot, nudgeSlot, state, beginId, offset, wire, lost,
                 winsize, reply>>
  /\ ActorFrame

\* A wake, an idle timeout or a spurious readiness; or end of file, a failed read,
\* poll or wake drain, which end the loop.
PollDone ==
  /\ pc \in {"poll", "read"}
  /\ pc' \in {"control", "exiting"}
  /\ UNCHANGED <<dataQ, ctlQ, resizeSlot, nudgeSlot, state, beginId, writeVars, winsize, reply, reads>>
  /\ ActorFrame

\* on_reader_exit has run and the runner is dropped: both channels close, and a caller
\* that still waits sees its reply channel disconnect (as a timeout does).
RunnerDropped ==
  /\ pc = "exiting"
  /\ pc' = "exited"
  /\ dataQ' = <<>> /\ ctlQ' = <<>>
  /\ UNCHANGED <<resizeSlot, nudgeSlot, state, beginId, writeVars, winsize, reply, reads>>
  /\ ActorFrame

Loop ==
  \/ HandleBegin \/ DrainTimeout \/ DrainDone
  \/ HandleDuplicate \/ HandleRollback \/ HandleRelease \/ HandleShutdown
  \/ ControlDrained \/ HandleData \/ DataDrained
  \/ FlushBeforePoll \/ PollWrite \/ PollRead \/ PollDone \/ RunnerDropped

Actor == Loop \/ DrainFlush

-----------------------------------------------------------------------------
Next == Writer \/ Controller \/ Actor

Spec == Init /\ [][Next]_vars

\* The actor thread runs; that the child reads its input, so that a drain gets anywhere,
\* is not promised.
FairSpec == Spec /\ WF_vars(Loop)

-----------------------------------------------------------------------------
(* Properties. *)

\* Types of every variable: the handle's shared state, the runner's and the callers'.
TypeOK ==
  /\ accepting \in BOOLEAN
  /\ dataQ \in Seq(Writers \X Nat)
  /\ ctlQ \in Seq(Command)
  /\ resizeSlot \in (Sizes \X BOOLEAN) \cup {NoSize}
  /\ nudgeSlot \in Sizes \cup {NoSize}
  /\ state \in {"Running", "Quiesced", "Released"}
  /\ pc \in {"control", "draining", "data", "flush", "poll", "read", "exiting", "exited"}
  /\ beginId \in Nat
  /\ pending \in Seq(Item) /\ offset \in {0, 1}
  /\ winsize \in Sizes /\ want \in Sizes
  /\ wpc \in [Writers -> {"idle", "reserving", "permit"}]
  /\ sent \in [Writers -> Nat]
  /\ call \in {"idle", "begin", "duplicate", "rollback", "release"}
  /\ calls \in Nat /\ resizes \in Nat /\ nudges \in Nat /\ reads \in Nat
  /\ reply \in {"none", "ok", "err"}
  /\ view \in {"live", "paused", "failed", "released", "dropped"}
  /\ wire \in Seq(Unit) /\ accepted \in Seq(Writers \X Nat)
  /\ lost \subseteq Writers \X Nat
  /\ handed \in BOOLEAN /\ raced \in BOOLEAN

\* What was accepted stands in one line: written, to be written, queued.  An item is
\* written when its last unit is.
Line == [k \in DOMAIN wire |-> wire[k][1]] \o pending \o dataQ
Places == {k \in DOMAIN Line : IsUser(Line[k]) /\ (k <= Len(wire) => wire[k][2] = 2)}

\* Queued input and capacity promised to waiting writers never exceed the channel: a writer
\* that holds a permit always finds its place (data_tx.reserve against try_send).
QueueBounded == RxOpen => Len(dataQ) + Cardinality(Permits) <= QCap

\* Accepted input is never dropped, duplicated or reordered on its way to the PTY, across
\* failed and rolled back handoffs: only a failed write or the actor's end loses any
\* (write_user_input, handle_data_command, begin_handoff).
AcceptedConserved ==
  Alive =>
    /\ {Line[k] : k \in Places} = Elems(accepted) \ lost
    /\ \A m, n \in Places, i, j \in DOMAIN accepted :
         Line[m] = accepted[i] /\ Line[n] = accepted[j] => (m < n <=> i < j)

\* The second half of an item goes out right behind its first: a partial write is resumed
\* where it stopped, and a failed one leaves no offset behind (current_write_offset).
WireIntact ==
  \A k \in DOMAIN wire :
    wire[k][2] = 2 => k > 1 /\ wire[k - 1] = <<wire[k][1], 1>>

\* While the gate is open the actor is Running, so what it accepts it will enqueue
\* (user_writes against ActorState).
GateOpenOnlyWhenRunning == accepting /\ Alive => state = "Running"

\* Once begin_handoff has returned Ok, no user input is left behind in the old process:
\* the successor that gets the PTY starts from an empty backlog.
PausedIsDrained ==
  view = "paused" /\ call # "rollback" /\ Alive =>
    /\ state = "Quiesced"
    /\ dataQ = <<>>
    /\ \A k \in DOMAIN pending : ~IsUser(pending[k])

\* From the moment a duplicate of the master is in the controller's hands until a rollback,
\* this actor neither reads the PTY nor writes user input to it.
HandedMasterLeftAlone ==
  [][handed /\ handed' =>
       /\ reads' = reads
       /\ \A k \in (DOMAIN wire') \ DOMAIN wire : ~IsUser(wire'[k][1])]_vars

\* With both slots taken, the PTY has the size the pane last asked for, unless a resize was
\* posted behind a nudge that was still waiting (apply_pending_controls).
LatestSizeUnlessRaced ==
  Alive /\ resizeSlot = NoSize /\ nudgeSlot = NoSize /\ ~raced => winsize = want

\* The same without the exception: resize and nudge keep the latest request.
LatestSizeWins ==
  Alive /\ resizeSlot = NoSize /\ nudgeSlot = NoSize => winsize = want

\* A Running actor with nothing left to do accepts user input again once the controller's
\* handoff calls have returned (rollback_handoff).
RolledBackAccepts ==
  pc = "poll" /\ state = "Running" /\ ctlQ = <<>> /\ call = "idle" /\ ~Gone => accepting

\* A child that never reads its input cannot keep the actor from its control commands, nor
\* from a posted resize: the drain of begin_handoff gives up (HANDOFF_DRAIN_TIMEOUT).
RequestsEventuallyHandled ==
  /\ ctlQ # <<>> ~> ctlQ = <<>>
  /\ resizeSlot # NoSize ~> resizeSlot = NoSize \/ ~Alive
=============================================================================
