--------------------------- MODULE PtyActorProofs ---------------------------
(***************************************************************************)
(* The gate, the backlog, the channel, the sizes, the wire and the input   *)
(* accepted by PtyActor, for every number of writers, queue length and     *)
(* bound.                                                                  *)
(***************************************************************************)
EXTENDS PtyActor, FiniteSetTheorems, TLAPS

Call  == {"begin", "duplicate", "rollback", "release", "idle"}

\* The types the argument needs.
GateTypes ==
  /\ accepting \in BOOLEAN
  /\ ctlQ \in Seq(Command)
  /\ calls \in Nat /\ beginId \in Nat
  /\ call \in Call
  /\ reply \in {"none", "ok", "err"}

\* Commands are numbered in the order they are sent, and handled in that order.
CommandsNumbered ==
  /\ \A i \in 1..Len(ctlQ) : ctlQ[i].id <= calls
  /\ \A i, j \in 1..Len(ctlQ) : i < j => ctlQ[i].id < ctlQ[j].id
  /\ pc = "draining" => beginId <= calls /\ \A i \in 1..Len(ctlQ) : beginId < ctlQ[i].id
  /\ pc = "exited" => ctlQ = <<>>

\* The current call's command is of its kind, and an answered call leaves nothing behind it.
CurrentCall ==
  call # "idle" =>
    /\ \A i \in 1..Len(ctlQ) : ctlQ[i].id = calls => ctlQ[i].op = call
    /\ pc = "draining" /\ beginId = calls => call = "begin"
    /\ reply # "none" => ctlQ = <<>> /\ pc # "draining"

\* What an answer says about the actor stays true until the caller has read it.
AnswerHolds ==
  /\ call = "rollback" /\ reply = "ok" /\ Alive => state = "Running"
  /\ call = "begin" /\ reply = "ok" /\ Alive => state = "Quiesced"

\* An open gate means that no quiesce is under way or waiting.
OpenGate ==
  /\ accepting /\ Alive => state = "Running"
  /\ accepting => pc # "draining" /\ \A i \in 1..Len(ctlQ) : ctlQ[i].op # "begin"

GateInv == GateTypes /\ CommandsNumbered /\ CurrentCall /\ AnswerHolds /\ OpenGate

USE DEF Call, Alive, RxOpen

\* Facts about queues of any type.
LEMMA QueueElement ==
  ASSUME NEW S, NEW q \in Seq(S), NEW i \in 1..Len(q)
  PROVE  q[i] \in S
  OBVIOUS

LEMMA QueueAppend ==
  ASSUME NEW S, NEW q \in Seq(S), NEW e \in S
  PROVE  /\ Append(q, e) \in Seq(S)
         /\ Len(Append(q, e)) = Len(q) + 1
         /\ Append(q, e)[Len(q) + 1] = e
         /\ \A i \in 1..Len(q) : Append(q, e)[i] = q[i]
  OBVIOUS

LEMMA QueueTail ==
  ASSUME NEW S, NEW q \in Seq(S), q # <<>>
  PROVE  /\ Head(q) = q[1] /\ 1 \in 1..Len(q)
         /\ Tail(q) \in Seq(S) /\ Len(Tail(q)) = Len(q) - 1
         /\ \A i \in 1..Len(Tail(q)) : i + 1 \in 1..Len(q) /\ Tail(q)[i] = q[i + 1]
  OBVIOUS

LEMMA QueueRest ==
  ASSUME NEW S, NEW q \in Seq(S), NEW d \in Nat, d <= Len(q)
  PROVE  /\ Len(SubSeq(q, d + 1, Len(q))) = Len(q) - d
         /\ \A i \in 1..(Len(q) - d) : d + i \in 1..Len(q) /\ SubSeq(q, d + 1, Len(q))[i] = q[d + i]
  OBVIOUS

LEMMA QueueConcat ==
  ASSUME NEW S, NEW q \in Seq(S), NEW r \in Seq(S)
  PROVE  /\ q \o r \in Seq(S) /\ Len(q) \in Nat /\ Len(r) \in Nat
         /\ Len(q \o r) = Len(q) + Len(r) /\ DOMAIN (q \o r) = 1..(Len(q) + Len(r))
         /\ \A k \in 1..Len(q) : (q \o r)[k] = q[k]
         /\ \A k \in 1..Len(r) : (q \o r)[Len(q) + k] = r[k]
  OBVIOUS

LEMMA CommandFields ==
  ASSUME NEW c \in Command PROVE c.op \in Ops /\ c.id \in Nat
  BY DEF Command

\* Every queued command has a number.
LEMMA QueuedIds ==
  ASSUME GateInv, NEW i \in 1..Len(ctlQ)
  PROVE  ctlQ[i].id \in Nat /\ calls \in Nat /\ ctlQ[i].id <= calls
<1>1. ctlQ[i] \in Command
  BY QueueElement DEF GateInv, GateTypes
<1> QED BY <1>1, CommandFields DEF GateInv, GateTypes, CommandsNumbered

\* A step that leaves the gate, the commands and the actor's state alone, and does not
\* enter or leave the drain.
LEMMA GateUntouched ==
  ASSUME GateInv, UNCHANGED <<accepting, ctlQ, calls, call, reply, state, beginId>>,
         Alive' => Alive,
         pc' = "draining" => pc = "draining",
         pc' = "exited" => pc = "exited"
  PROVE  GateInv'
<1>1. GateTypes' BY DEF GateInv, GateTypes
<1>2. CommandsNumbered' BY DEF GateInv, CommandsNumbered
<1>3. CurrentCall' BY DEF GateInv, CurrentCall
<1>4. AnswerHolds' BY DEF GateInv, AnswerHolds
<1>5. OpenGate' BY DEF GateInv, OpenGate
<1> QED BY <1>1, <1>2, <1>3, <1>4, <1>5 DEF GateInv

LEMMA GateInit == Init => GateInv
<1> SUFFICES ASSUME Init PROVE GateInv
  OBVIOUS
<1>1. accepting \in BOOLEAN /\ (accepting => state = "Running")
  BY Zenon DEF Init
<1>2. ctlQ = <<>> /\ calls = 0 /\ beginId = 0 /\ call = "idle" /\ reply = "none" /\ pc = "control"
  BY DEF Init
<1> QED
  BY <1>1, <1>2 DEF GateInv, GateTypes, CommandsNumbered, CurrentCall, AnswerHolds, OpenGate

LEMMA GateWriter == GateInv /\ Writer => GateInv'
  BY DEF Writer, TryWrite, CheckGate, Reserve, SendPermit, WriterFrame, gateVars, callVars,
         GateInv, GateTypes, CommandsNumbered, CurrentCall, AnswerHolds, OpenGate

LEMMA GateControls ==
  ASSUME GateInv, NEW size, NEW resp, Resize(size, resp) \/ Nudge
  PROVE  GateInv'
  BY DEF Resize, Nudge, ControllerFrame, gateVars, callVars,
         GateInv, GateTypes, CommandsNumbered, CurrentCall, AnswerHolds, OpenGate

\* Sending a command: it is the newest, and nobody has answered it.
LEMMA GateIssue ==
  ASSUME GateInv, NEW op \in Ops, NEW waiting \in Call, Issue(op, waiting),
         waiting \in {"idle", op},
         accepting' \in BOOLEAN,
         accepting' /\ RxOpen => accepting /\ op # "begin"
  PROVE  GateInv'
<1> USE DEF Issue, ControllerFrame
<1>1. CASE RxOpen
  <2> DEFINE cmd == [op |-> op, id |-> calls + 1]
  <2>1. cmd \in Command
    BY DEF GateInv, GateTypes, Command
  <2>2. ctlQ' = Append(ctlQ, cmd) /\ Len(ctlQ') = Len(ctlQ) + 1
        /\ ctlQ' \in Seq(Command)
        /\ ctlQ'[Len(ctlQ) + 1] = cmd
        /\ \A i \in 1..Len(ctlQ) : ctlQ'[i] = ctlQ[i]
    BY <1>1, <2>1, QueueAppend DEF GateInv, GateTypes
  <2>3. GateTypes'
    BY <1>1, <2>2 DEF GateInv, GateTypes
  <2>4. CommandsNumbered'
    <3>1. \A i \in 1..Len(ctlQ) : ctlQ[i].id \in Nat /\ ctlQ[i].id <= calls
      BY QueuedIds
    <3>2. calls' = calls + 1 /\ calls \in Nat /\ cmd.id = calls + 1
      BY DEF GateInv, GateTypes
    <3>3. \A i \in 1..Len(ctlQ') : ctlQ'[i].id <= calls'
      BY <2>2, <3>1, <3>2
    <3>4. \A i, j \in 1..Len(ctlQ') : i < j => ctlQ'[i].id < ctlQ'[j].id
      BY <2>2, <3>1, <3>2 DEF GateInv, CommandsNumbered
    <3>5. pc' = "draining" =>
            beginId' <= calls' /\ \A i \in 1..Len(ctlQ') : beginId' < ctlQ'[i].id
      BY <2>2, <3>2 DEF GateInv, GateTypes, CommandsNumbered
    <3> QED BY <1>1, <3>3, <3>4, <3>5 DEF CommandsNumbered
  <2>5. CurrentCall'
    BY <1>1, <2>2 DEF GateInv, GateTypes, CommandsNumbered, CurrentCall
  <2>6. AnswerHolds'
    BY <1>1 DEF AnswerHolds
  <2>7. accepting' => accepting /\ op # "begin"
    BY <1>1
  <2>8. OpenGate'
    BY <1>1, <2>2, <2>7 DEF GateInv, OpenGate
  <2> QED BY <2>3, <2>4, <2>5, <2>6, <2>8 DEF GateInv
<1>2. CASE ~RxOpen
  BY <1>2 DEF GateInv, GateTypes, CommandsNumbered, CurrentCall, AnswerHolds, OpenGate
<1> QED BY <1>1, <1>2

LEMMA GateCalls ==
  GateInv /\ (BeginCall \/ DuplicateCall \/ RollbackCall \/ ReleaseCall \/ ShutdownCall)
    => GateInv'
<1> SUFFICES ASSUME GateInv PROVE
      BeginCall \/ DuplicateCall \/ RollbackCall \/ ReleaseCall \/ ShutdownCall => GateInv'
  OBVIOUS
<1> accepting \in BOOLEAN BY DEF GateInv, GateTypes
<1>1. BeginCall => GateInv'     BY GateIssue DEF BeginCall, Ops
<1>2. DuplicateCall => GateInv' BY GateIssue DEF DuplicateCall, Ops, gateVars
<1>3. RollbackCall => GateInv'  BY GateIssue DEF RollbackCall, Ops, gateVars
<1>4. ReleaseCall => GateInv'   BY GateIssue DEF ReleaseCall, Ops
<1>5. ShutdownCall => GateInv'  BY GateIssue DEF ShutdownCall, Ops
<1> QED BY <1>1, <1>2, <1>3, <1>4, <1>5

\* The caller hears its answer, or gives up: the gate may open only on a rollback's success.
LEMMA GateReturn ==
  ASSUME GateInv, call' = "idle", UNCHANGED <<ctlQ, calls, reply, state, beginId, pc>>,
         accepting' \in BOOLEAN,
         accepting' => accepting \/ (call = "rollback" /\ reply = "ok")
  PROVE  GateInv'
<1>2. accepting' => /\ Alive => state = "Running"
                    /\ pc # "draining" /\ \A i \in 1..Len(ctlQ) : ctlQ[i].op # "begin"
  BY DEF GateInv, GateTypes, CurrentCall, AnswerHolds, OpenGate
<1>3. OpenGate'
  BY <1>2 DEF OpenGate
<1>4. GateTypes' /\ CurrentCall' /\ AnswerHolds'
  BY DEF GateInv, GateTypes, CurrentCall, AnswerHolds
<1>5. CommandsNumbered'
  BY DEF GateInv, CommandsNumbered
<1> QED BY <1>3, <1>4, <1>5 DEF GateInv

LEMMA GateReturns ==
  GateInv /\ (BeginReturns \/ DuplicateReturns \/ RollbackReturns \/ ReleaseReturns) => GateInv'
<1> SUFFICES ASSUME GateInv PROVE
      BeginReturns \/ DuplicateReturns \/ RollbackReturns \/ ReleaseReturns => GateInv'
  OBVIOUS
<1>1. accepting \in BOOLEAN
  BY DEF GateInv, GateTypes
<1> USE DEF ReturnFrame, ControllerFrame, gateVars
<1>2. RollbackAfterBegin => GateInv'
  BY <1>1, GateIssue DEF RollbackAfterBegin, Ops
<1>3. BeginReturns => GateInv'
  BY <1>1, <1>2, GateReturn DEF BeginReturns
<1>4. DuplicateReturns => GateInv'
  BY <1>1, GateReturn DEF DuplicateReturns
<1>5. ASSUME RollbackReturns PROVE GateInv'
  <2>1. accepting' \in BOOLEAN /\ (accepting' => accepting \/ reply = "ok")
    BY <1>5, Zenon DEF RollbackReturns, GateAfterRollback
  <2> QED BY <1>5, <2>1, GateReturn DEF RollbackReturns
<1>6. ReleaseReturns => GateInv'
  BY <1>1, GateReturn DEF ReleaseReturns
<1> QED BY <1>3, <1>4, <1>5, <1>6

\* Answering command `id`, with the queue q still waiting behind it.
LEMMA GateAnswer ==
  ASSUME GateInv, NEW id \in Nat, NEW result \in {"ok", "err"}, Answer(id, result)
  PROVE  /\ reply' \in {"none", "ok", "err"}
         /\ call # "idle" /\ id # calls => reply' = reply
         /\ call # "idle" /\ id = calls => reply' = result
         /\ call = "idle" => reply' = reply
  BY DEF Answer, GateInv, GateTypes

\* Taking the oldest command: what is left is numbered above it.
LEMMA GateTake ==
  ASSUME GateInv, NEW op, TakeCommand(op)
  PROVE  /\ NextCommand \in Command /\ NextCommand.op = op
         /\ NextCommand.id <= calls
         /\ ctlQ' \in Seq(Command)
         /\ Len(ctlQ') = Len(ctlQ) - 1
         /\ \A i \in 1..Len(ctlQ') : /\ i + 1 \in 1..Len(ctlQ)
                                    /\ ctlQ'[i] = ctlQ[i + 1]
                                    /\ NextCommand.id < ctlQ'[i].id
                                    /\ ctlQ'[i].id <= calls
         /\ \A i, j \in 1..Len(ctlQ') : i < j => ctlQ'[i].id < ctlQ'[j].id
         /\ NextCommand.id = calls => ctlQ' = <<>>
         /\ NextCommand.id = calls /\ call # "idle" => call = op
         /\ accepting => op # "begin"
         /\ reply # "none" => call = "idle"
<1> USE DEF TakeCommand, NextCommand
<1>1. ctlQ \in Seq(Command) /\ ctlQ # <<>> /\ Len(ctlQ) >= 1
  BY DEF GateInv, GateTypes
<1>2. Head(ctlQ) = ctlQ[1] /\ 1 \in 1..Len(ctlQ)
  BY <1>1, QueueTail
<1>3. ctlQ' \in Seq(Command) /\ Len(ctlQ') = Len(ctlQ) - 1
      /\ \A i \in 1..Len(ctlQ') : i + 1 \in 1..Len(ctlQ) /\ ctlQ'[i] = ctlQ[i + 1]
  BY <1>1, QueueTail
<1>4. \A i \in 1..Len(ctlQ) : ctlQ[i] \in Command /\ ctlQ[i].id \in Nat
  BY <1>1, QueueElement, CommandFields
<1>5. \A i \in 1..Len(ctlQ') : NextCommand.id < ctlQ'[i].id /\ ctlQ'[i].id <= calls
  BY <1>1, <1>2, <1>3, <1>4 DEF GateInv, CommandsNumbered
<1>6. \A i, j \in 1..Len(ctlQ') : i < j => ctlQ'[i].id < ctlQ'[j].id
  BY <1>1, <1>3, <1>4 DEF GateInv, CommandsNumbered
<1>7. NextCommand.id = calls => ctlQ' = <<>>
  <2> SUFFICES ASSUME NextCommand.id = calls, ctlQ' # <<>> PROVE FALSE
    OBVIOUS
  <2>1. 1 \in 1..Len(ctlQ') /\ 2 \in 1..Len(ctlQ) /\ ctlQ'[1] = ctlQ[2]
    BY <1>3
  <2> QED BY <2>1, <1>2, <1>3, <1>4, <1>5 DEF GateInv, GateTypes
<1>8. NextCommand.id <= calls
  BY <1>2 DEF GateInv, CommandsNumbered
<1> QED
  BY <1>1, <1>2, <1>3, <1>4, <1>5, <1>6, <1>7, <1>8
     DEF GateInv, CurrentCall, OpenGate

\* A handler that answers at once, and leaves the actor out of the drain.
LEMMA GateHandler ==
  ASSUME GateInv, NEW op \in {"duplicate", "rollback", "release"}, TakeCommand(op),
         NEW result \in {"ok", "err"}, Answer(NextCommand.id, result),
         UNCHANGED <<gateVars, call, calls, beginId>>,
         pc' \in {"control", "exiting"},
         pc' = "control" /\ state' # state => op = "rollback" /\ state' = "Running",
         pc' = "control" /\ op = "rollback" /\ result = "ok" => state' = "Running"
  PROVE  GateInv'
<1> USE GateTake DEF gateVars
<1>1. pc = "control"
  BY DEF TakeCommand
<1>2. NextCommand.id \in Nat
  BY CommandFields
<1>3. /\ reply' \in {"none", "ok", "err"}
      /\ NextCommand.id # calls => reply' = reply
      /\ call # "idle" /\ NextCommand.id = calls => reply' = result
      /\ call = "idle" => reply' = reply
  BY <1>2, GateAnswer
<1>4. GateTypes'
  BY <1>3 DEF GateInv, GateTypes
<1>5. CommandsNumbered'
  BY DEF CommandsNumbered
<1>6. CurrentCall'
  BY <1>3 DEF GateInv, CurrentCall
<1>7. AnswerHolds'
  BY <1>1, <1>3 DEF GateInv, AnswerHolds, CurrentCall
<1>8. OpenGate'
  BY <1>1 DEF GateInv, OpenGate
<1> QED BY <1>4, <1>5, <1>6, <1>7, <1>8 DEF GateInv

LEMMA GateHandlers ==
  GateInv /\ (HandleDuplicate \/ HandleRollback \/ HandleRelease \/ HandleShutdown) => GateInv'
<1> SUFFICES ASSUME GateInv PROVE
      HandleDuplicate \/ HandleRollback \/ HandleRelease \/ HandleShutdown => GateInv'
  OBVIOUS
<1> USE DEF ActorFrame, gateVars
<1>1. ASSUME HandleDuplicate PROVE GateInv'
  <2>1. PICK result \in {"ok", "err"} : Answer(NextCommand.id, result)
    BY <1>1 DEF HandleDuplicate
  <2> QED BY <1>1, <2>1, GateHandler DEF HandleDuplicate, TakeCommand
<1>2. ASSUME HandleRollback PROVE GateInv'
  <2>1. CASE state = "Released"
    BY <1>2, <2>1, GateHandler DEF HandleRollback, TakeCommand
  <2>2. CASE state # "Released"
    BY <1>2, <2>2, GateHandler DEF HandleRollback, TakeCommand
  <2> QED BY <2>1, <2>2
<1>3. ASSUME HandleRelease PROVE GateInv'
  BY <1>3, GateHandler DEF HandleRelease
<1>4. ASSUME HandleShutdown PROVE GateInv'
  <2>1. TakeCommand("shutdown") /\ pc = "control" /\ pc' = "exiting"
        /\ UNCHANGED <<accepting, call, calls, beginId, reply, state>>
    BY <1>4 DEF HandleShutdown, TakeCommand
  <2> QED
    BY <2>1, GateTake DEF GateInv, GateTypes, CommandsNumbered, CurrentCall, AnswerHolds, OpenGate
<1> QED BY <1>1, <1>2, <1>3, <1>4

LEMMA GateBegin == GateInv /\ HandleBegin => GateInv'
<1> SUFFICES ASSUME GateInv, HandleBegin PROVE GateInv'
  OBVIOUS
<1> USE DEF ActorFrame, gateVars
<1>1. TakeCommand("begin") /\ pc = "control" /\ UNCHANGED <<accepting, call, calls, state>>
  BY DEF HandleBegin, TakeCommand
<1>2. NextCommand.id \in Nat
  BY <1>1, GateTake, CommandFields
<1>3. CASE state = "Released"
  <2>1. Answer(NextCommand.id, "err") /\ UNCHANGED <<pc, beginId>>
    BY <1>3 DEF HandleBegin
  <2> QED
    BY <1>1, <1>2, <2>1, GateTake, GateAnswer
       DEF GateInv, GateTypes, CommandsNumbered, CurrentCall, AnswerHolds, OpenGate
<1>4. CASE state # "Released"
  <2>1. pc' = "draining" /\ beginId' = NextCommand.id /\ UNCHANGED reply
    BY <1>4 DEF HandleBegin
  <2> QED
    BY <1>1, <1>2, <2>1, GateTake
       DEF GateInv, GateTypes, CommandsNumbered, CurrentCall, AnswerHolds, OpenGate
<1> QED BY <1>3, <1>4

LEMMA GateDrain == GateInv /\ (DrainFlush \/ DrainTimeout \/ DrainDone) => GateInv'
<1> SUFFICES ASSUME GateInv PROVE DrainFlush \/ DrainTimeout \/ DrainDone => GateInv'
  OBVIOUS
<1> USE DEF ActorFrame, gateVars
<1>1. beginId \in Nat
  BY DEF GateInv, GateTypes
<1>2. pc = "draining" /\ beginId = calls => ctlQ = <<>>
  <2> SUFFICES ASSUME pc = "draining", beginId = calls, ctlQ # <<>> PROVE FALSE
    OBVIOUS
  <2>1. 1 \in 1..Len(ctlQ)
    BY DEF GateInv, GateTypes
  <2>2. ctlQ[1].id \in Nat
    BY <2>1, QueuedIds
  <2> QED BY <2>1, <2>2 DEF GateInv, GateTypes, CommandsNumbered
<1>3. DrainFlush => GateInv'
  BY DEF DrainFlush, GateInv, GateTypes, CommandsNumbered, CurrentCall, AnswerHolds, OpenGate
<1>4. ASSUME DrainTimeout PROVE GateInv'
  <2>1. pc = "draining" /\ pc' = "control" /\ beginId' = 0 /\ Answer(beginId, "err")
        /\ UNCHANGED <<accepting, ctlQ, call, calls, state>>
    BY <1>4 DEF DrainTimeout
  <2> QED
    BY <1>1, <1>2, <2>1, GateAnswer
       DEF GateInv, GateTypes, CommandsNumbered, CurrentCall, AnswerHolds, OpenGate
<1>5. ASSUME DrainDone PROVE GateInv'
  <2>1. pc = "draining" /\ pc' = "control" /\ beginId' = 0 /\ Answer(beginId, "ok")
        /\ state' = "Quiesced" /\ UNCHANGED <<accepting, ctlQ, call, calls>>
    BY <1>5 DEF DrainDone
  <2> QED
    BY <1>1, <1>2, <2>1, GateAnswer
       DEF GateInv, GateTypes, CommandsNumbered, CurrentCall, AnswerHolds, OpenGate
<1> QED BY <1>3, <1>4, <1>5

\* The rest of the loop neither takes commands nor changes the actor's state.
LEMMA GateLoop ==
  GateInv /\ (ControlDrained \/ HandleData \/ DataDrained \/ FlushBeforePoll \/ PollWrite
              \/ PollRead \/ PollDone \/ RunnerDropped) => GateInv'
<1> SUFFICES ASSUME GateInv PROVE
      ControlDrained \/ HandleData \/ DataDrained \/ FlushBeforePoll \/ PollWrite
      \/ PollRead \/ PollDone \/ RunnerDropped => GateInv'
  OBVIOUS
<1> USE DEF ActorFrame, gateVars
<1>1. ControlDrained => GateInv'  BY GateUntouched DEF ControlDrained
<1>2. HandleData => GateInv'      BY GateUntouched DEF HandleData
<1>3. DataDrained => GateInv'     BY GateUntouched DEF DataDrained
<1>4. FlushBeforePoll => GateInv' BY GateUntouched DEF FlushBeforePoll, FlushStep
<1>5. PollWrite => GateInv'       BY GateUntouched DEF PollWrite, FlushStep
<1>6. PollRead => GateInv'        BY GateUntouched DEF PollRead
<1>7. PollDone => GateInv'        BY GateUntouched DEF PollDone
<1>8. ASSUME RunnerDropped PROVE GateInv'
  <2>1. pc = "exiting" /\ pc' = "exited" /\ ctlQ' = <<>>
        /\ UNCHANGED <<accepting, calls, call, reply, state, beginId>>
    BY <1>8 DEF RunnerDropped
  <2> QED
    BY <2>1 DEF GateInv, GateTypes, CommandsNumbered, CurrentCall, AnswerHolds, OpenGate
<1> QED BY <1>1, <1>2, <1>3, <1>4, <1>5, <1>6, <1>7, <1>8

LEMMA GateStep == GateInv /\ [Next]_vars => GateInv'
<1>1. GateInv /\ Controller => GateInv'
  BY GateControls, GateCalls, GateReturns DEF Controller
<1>2. GateInv /\ Actor => GateInv'
  BY GateBegin, GateDrain, GateHandlers, GateLoop DEF Actor, Loop
<1>3. GateInv /\ UNCHANGED vars => GateInv'
  BY DEF vars, gateVars, callVars,
         GateInv, GateTypes, CommandsNumbered, CurrentCall, AnswerHolds, OpenGate
<1> QED BY <1>1, <1>2, <1>3, GateWriter DEF Next

\* While the gate is open the actor is Running, whatever handoff calls have timed out, been
\* rolled back or are still in its queue: no accepted input meets an actor that drops it
\* (UserWriteGate.accepting against ActorState).
THEOREM GateIsSafe == Spec => []GateOpenOnlyWhenRunning
<1>1. GateInv => GateOpenOnlyWhenRunning
  BY DEF GateInv, OpenGate, GateOpenOnlyWhenRunning
<1> QED BY <1>1, GateInit, GateStep, PTL DEF Spec

-----------------------------------------------------------------------------
(* Types of every variable. *)

USE DEF Ops

LEMMA TypeInit == Init => TypeOK
<1> SUFFICES ASSUME Init PROVE TypeOK
  OBVIOUS
<1>1. accepting \in BOOLEAN /\ handed \in BOOLEAN /\ raced \in BOOLEAN
  BY Zenon DEF Init
<1> QED BY <1>1 DEF Init, TypeOK

LEMMA TypePush ==
  ASSUME TypeOK, NEW w \in Writers, sent'[w] \in Nat, Push(w)
  PROVE  dataQ' \in Seq(Writers \X Nat) /\ accepted' \in Seq(Writers \X Nat)
<1>1. <<w, sent'[w]>> \in Writers \X Nat
  OBVIOUS
<1> QED BY <1>1, QueueAppend DEF Push, TypeOK

LEMMA TypeWriter == TypeOK /\ Writer => TypeOK'
<1> SUFFICES ASSUME TypeOK, NEW w \in Writers PROVE
      TryWrite(w) \/ CheckGate(w) \/ Reserve(w) \/ SendPermit(w) => TypeOK'
  BY DEF Writer
<1> USE DEF WriterFrame, gateVars, slotVars, writeVars, callVars
<1>1. TryWrite(w) => TypeOK'   BY TypePush DEF TryWrite, TypeOK
<1>2. CheckGate(w) => TypeOK'  BY DEF CheckGate, TypeOK
<1>3. Reserve(w) => TypeOK'    BY DEF Reserve, TypeOK
<1>4. SendPermit(w) => TypeOK' BY TypePush DEF SendPermit, TypeOK
<1> QED BY <1>1, <1>2, <1>3, <1>4

LEMMA TypeControls ==
  ASSUME TypeOK, NEW size \in Sizes, NEW resp \in BOOLEAN, Resize(size, resp) \/ Nudge
  PROVE  TypeOK'
<1> USE DEF ControllerFrame, gateVars, writeVars, userVars, callVars
<1>1. ASSUME Resize(size, resp) PROVE TypeOK'
  <2>1. raced' \in BOOLEAN
    BY <1>1, Zenon DEF Resize
  <2>2. resizeSlot' \in (Sizes \X BOOLEAN) \cup {NoSize} /\ want' \in Sizes /\ resizes' \in Nat
    BY <1>1 DEF Resize, TypeOK
  <2>3. UNCHANGED <<accepting, dataQ, ctlQ, nudgeSlot, state, pc, beginId, pending, offset,
                    winsize, wpc, sent, call, calls, nudges, reply, view, wire, accepted,
                    lost, reads, handed>>
    BY <1>1 DEF Resize
  <2> QED BY <2>1, <2>2, <2>3 DEF TypeOK
<1>2. Nudge => TypeOK'
  BY DEF Nudge, TypeOK
<1> QED BY <1>1, <1>2

LEMMA TypeIssue ==
  ASSUME TypeOK, NEW op \in Ops, NEW waiting \in Call, Issue(op, waiting)
  PROVE  /\ ctlQ' \in Seq(Command) /\ call' \in Call /\ calls' \in Nat /\ reply' = "none"
<1>1. [op |-> op, id |-> calls + 1] \in Command
  BY DEF TypeOK, Command
<1>2. Append(ctlQ, [op |-> op, id |-> calls + 1]) \in Seq(Command)
  BY <1>1, QueueAppend DEF TypeOK
<1>3. ctlQ \in Seq(Command) /\ calls + 1 \in Nat
  BY DEF TypeOK
<1>4. calls' = calls + 1 /\ reply' = "none"
      /\ \/ ctlQ' = Append(ctlQ, [op |-> op, id |-> calls + 1]) /\ call' = waiting
         \/ ctlQ' = ctlQ /\ call' = "idle"
  BY Zenon DEF Issue
<1> QED BY <1>2, <1>3, <1>4

LEMMA TypeCalls ==
  TypeOK /\ (BeginCall \/ DuplicateCall \/ RollbackCall \/ ReleaseCall \/ ShutdownCall)
    => TypeOK'
<1> SUFFICES ASSUME TypeOK PROVE
      BeginCall \/ DuplicateCall \/ RollbackCall \/ ReleaseCall \/ ShutdownCall => TypeOK'
  OBVIOUS
<1> DEFINE Rest == UNCHANGED <<slotVars, dataQ, state, pc, beginId, writeVars, winsize,
                               userVars, reads>>
<1> USE DEF slotVars, writeVars, userVars, gateVars
<1>1. ASSUME NEW op \in Ops, NEW waiting \in Call, Issue(op, waiting),
             accepting' \in BOOLEAN, handed' \in BOOLEAN,
             view' \in {"live", "paused", "failed", "released", "dropped"}
      PROVE  TypeOK'
  <2>1. Rest
    BY <1>1 DEF Issue, ControllerFrame
  <2>2. ctlQ' \in Seq(Command) /\ call' \in Call /\ calls' \in Nat /\ reply' = "none"
    BY <1>1, TypeIssue
  <2> QED BY <1>1, <2>1, <2>2 DEF TypeOK
<1>2. BeginCall => TypeOK'     BY <1>1 DEF BeginCall, TypeOK
<1>3. DuplicateCall => TypeOK' BY <1>1 DEF DuplicateCall, TypeOK
<1>4. RollbackCall => TypeOK'  BY <1>1 DEF RollbackCall, TypeOK
<1>5. ReleaseCall => TypeOK'   BY <1>1 DEF ReleaseCall, TypeOK
<1>6. ShutdownCall => TypeOK'  BY <1>1 DEF ShutdownCall, TypeOK
<1> QED BY <1>2, <1>3, <1>4, <1>5, <1>6

LEMMA TypeReturns ==
  TypeOK /\ (BeginReturns \/ DuplicateReturns \/ RollbackReturns \/ ReleaseReturns) => TypeOK'
<1> SUFFICES ASSUME TypeOK PROVE
      BeginReturns \/ DuplicateReturns \/ RollbackReturns \/ ReleaseReturns => TypeOK'
  OBVIOUS
<1> USE DEF slotVars, writeVars, userVars, gateVars
<1>1. ASSUME RollbackAfterBegin PROVE TypeOK'
  <2>1. Issue("rollback", "rollback") /\ view' = "failed" /\ UNCHANGED <<accepting, handed>>
    BY <1>1 DEF RollbackAfterBegin
  <2>2. UNCHANGED <<slotVars, dataQ, state, pc, beginId, writeVars, winsize, userVars, reads>>
    BY <2>1 DEF Issue, ControllerFrame
  <2>3. ctlQ' \in Seq(Command) /\ call' \in Call /\ calls' \in Nat /\ reply' = "none"
    BY <2>1, TypeIssue
  <2> QED BY <2>1, <2>2, <2>3 DEF TypeOK
<1> USE DEF ReturnFrame, ControllerFrame
<1>2. BeginReturns => TypeOK'
  BY <1>1 DEF BeginReturns, TypeOK
<1>3. ASSUME DuplicateReturns PROVE TypeOK'
  <2>1. handed' \in BOOLEAN
    BY <1>3, Zenon DEF DuplicateReturns
  <2> QED BY <1>3, <2>1 DEF DuplicateReturns, TypeOK
<1>4. ASSUME RollbackReturns PROVE TypeOK'
  <2>1. accepting' \in BOOLEAN
    BY <1>4, Zenon DEF RollbackReturns, GateAfterRollback
  <2> QED BY <1>4, <2>1 DEF RollbackReturns, TypeOK
<1>5. ReleaseReturns => TypeOK'
  BY DEF ReleaseReturns, TypeOK
<1> QED BY <1>2, <1>3, <1>4, <1>5

\* pending_writes holds items after the controls have been applied on top of a queue of items.
LEMMA TypeApply ==
  ASSUME TypeOK, NEW queue \in Seq(Item), ApplyControls(queue)
  PROVE  /\ pending' \in Seq(Item) /\ winsize' \in Sizes
         /\ resizeSlot' = NoSize /\ nudgeSlot' = NoSize
<1>1. Response(0) \in Item
  BY DEF Response, Item
<1>2. Append(queue, Response(0)) \in Seq(Item)
  BY <1>1, QueueAppend
<1>3. resizeSlot # NoSize => resizeSlot[1] \in Sizes
  BY DEF TypeOK
<1>4. nudgeSlot # NoSize => nudgeSlot \in Sizes
  BY DEF TypeOK
<1> QED BY <1>2, <1>3, <1>4 DEF ApplyControls, TypeOK

\* A flush of n owed units writes units and leaves items.
LEMMA TypeFlush ==
  ASSUME TypeOK, NEW n \in 0..Owed, NEW failed \in BOOLEAN, Flush(n, failed)
  PROVE  /\ pending' \in Seq(Item) /\ offset' \in {0, 1}
         /\ wire' \in Seq(Unit) /\ lost' \subseteq Writers \X Nat
<1> DEFINE done == (offset + n) \div 2
           rest == SubSeq(pending, done + 1, Len(pending))
           out  == [k \in 1..n |-> UnitAt(offset + k)]
<1>1. pending \in Seq(Item) /\ Len(pending) \in Nat /\ offset \in 0..1 /\ n \in Nat
      /\ offset + n <= 2 * Len(pending)
  BY DEF TypeOK, Owed
<1>2. done \in Nat /\ done <= Len(pending)
  BY <1>1
<1>3. rest \in Seq(Item)
  BY <1>1, <1>2
<1>4. (offset + n) % 2 \in {0, 1}
  BY <1>1
<1>5. ASSUME NEW k \in 1..n PROVE UnitAt(offset + k) \in Unit
  <2>1. (offset + k + 1) \div 2 \in 1..Len(pending)
    BY <1>1
  <2>2. pending[(offset + k + 1) \div 2] \in Item
    BY <1>1, <2>1, QueueElement
  <2>3. 2 - ((offset + k) % 2) \in {1, 2}
    BY <1>1
  <2> QED BY <2>2, <2>3 DEF UnitAt, Unit
<1>6. out \in Seq(Unit)
  BY <1>1, <1>5
<1>7. wire \o out \in Seq(Unit)
  BY <1>6 DEF TypeOK
<1>8. \A item \in Elems(rest) : item \in Item
  BY <1>3, QueueElement DEF Elems
<1>9. {item \in Elems(rest) : IsUser(item)} \subseteq Writers \X Nat
  BY <1>8 DEF IsUser, Item
<1> QED
  BY <1>3, <1>4, <1>7, <1>9 DEF Flush, OffsetAfter, TypeOK

LEMMA TypeAnswer ==
  ASSUME TypeOK, NEW id, NEW result \in {"ok", "err"}, Answer(id, result)
  PROVE  reply' \in {"none", "ok", "err"}
  BY DEF Answer, TypeOK

LEMMA TypeHandlers ==
  TypeOK /\ (HandleBegin \/ HandleDuplicate \/ HandleRollback \/ HandleRelease \/ HandleShutdown)
    => TypeOK'
<1> SUFFICES ASSUME TypeOK PROVE
      HandleBegin \/ HandleDuplicate \/ HandleRollback \/ HandleRelease \/ HandleShutdown => TypeOK'
  OBVIOUS
<1> USE DEF ActorFrame, gateVars, userVars, writeVars
<1>1. ASSUME NEW op, TakeCommand(op)
      PROVE  ctlQ' \in Seq(Command) /\ NextCommand.id \in Nat
  <2>1. ctlQ \in Seq(Command) /\ ctlQ # <<>>
    BY <1>1 DEF TakeCommand, TypeOK
  <2>2. ctlQ[1] \in Command
    BY <2>1, QueueTail, QueueElement
  <2>3. ctlQ[1].id \in Nat
    BY <2>2, CommandFields
  <2> QED BY <2>3, <1>1, <2>1, <2>2, QueueTail DEF TakeCommand, NextCommand
<1>2. ASSUME HandleBegin PROVE TypeOK'
  <2>1. Backlog \in Seq(Item)
    BY DEF Backlog, TypeOK, Item
  <2>2. /\ pending' \in Seq(Item) /\ winsize' \in Sizes
        /\ resizeSlot' = NoSize /\ nudgeSlot' = NoSize
    BY <1>2, <2>1, TypeApply DEF HandleBegin
  <2>3. ctlQ' \in Seq(Command) /\ NextCommand.id \in Nat
    BY <1>1, <1>2 DEF HandleBegin
  <2>4. CASE state = "Released"
    BY <1>2, <2>2, <2>3, <2>4, TypeAnswer DEF HandleBegin, TypeOK
  <2>5. CASE state # "Released"
    BY <1>2, <2>2, <2>3, <2>5 DEF HandleBegin, TypeOK
  <2> QED BY <2>4, <2>5
<1>3. HandleDuplicate => TypeOK'
  BY <1>1, TypeAnswer DEF HandleDuplicate, TypeOK
<1>4. HandleRollback => TypeOK'
  BY <1>1, TypeAnswer DEF HandleRollback, TypeOK
<1>5. HandleRelease => TypeOK'
  BY <1>1, TypeAnswer DEF HandleRelease, TypeOK
<1>6. HandleShutdown => TypeOK'
  BY <1>1 DEF HandleShutdown, TypeOK
<1> QED BY <1>2, <1>3, <1>4, <1>5, <1>6

LEMMA TypeLoop ==
  TypeOK /\ (DrainFlush \/ DrainTimeout \/ DrainDone \/ ControlDrained \/ HandleData
             \/ DataDrained \/ FlushBeforePoll \/ PollWrite \/ PollRead \/ PollDone
             \/ RunnerDropped) => TypeOK'
<1> SUFFICES ASSUME TypeOK PROVE
      DrainFlush \/ DrainTimeout \/ DrainDone \/ ControlDrained \/ HandleData
      \/ DataDrained \/ FlushBeforePoll \/ PollWrite \/ PollRead \/ PollDone
      \/ RunnerDropped => TypeOK'
  OBVIOUS
<1> USE DEF ActorFrame, gateVars, userVars, writeVars
<1>1. DrainFlush => TypeOK'     BY TypeFlush DEF DrainFlush, TypeOK
<1>2. DrainTimeout => TypeOK'   BY TypeAnswer DEF DrainTimeout, TypeOK
<1>3. DrainDone => TypeOK'      BY TypeAnswer DEF DrainDone, TypeOK
<1>4. ControlDrained => TypeOK' BY DEF ControlDrained, TypeOK
<1>5. ASSUME HandleData PROVE TypeOK'
  <2>1. dataQ' \in Seq(Writers \X Nat) /\ Head(dataQ) \in Writers \X Nat
    BY <1>5, QueueTail, QueueElement DEF HandleData, TypeOK
  <2>2. Append(pending, Head(dataQ)) \in Seq(Item)
    BY <2>1, QueueAppend DEF TypeOK, Item
  <2> QED BY <1>5, <2>1, <2>2 DEF HandleData, TypeOK
<1>6. ASSUME DataDrained PROVE TypeOK'
  <2>1. /\ pending' \in Seq(Item) /\ winsize' \in Sizes
        /\ resizeSlot' = NoSize /\ nudgeSlot' = NoSize
    BY <1>6, TypeApply DEF DataDrained, TypeOK
  <2> QED BY <1>6, <2>1 DEF DataDrained, TypeOK
<1>7. FlushBeforePoll => TypeOK' BY TypeFlush DEF FlushBeforePoll, FlushStep, TypeOK
<1>8. PollWrite => TypeOK'       BY TypeFlush DEF PollWrite, FlushStep, TypeOK
<1>9. ASSUME PollRead PROVE TypeOK'
  <2>1. Response(reads + 1) \in Item
    BY DEF Response, TypeOK, Item
  <2>2. pending \o <<>> \in Seq(Item) /\ pending \o <<Response(reads + 1)>> \in Seq(Item)
    BY <2>1 DEF TypeOK
  <2>3. pending' \in Seq(Item)
    BY <1>9, <2>2 DEF PollRead
  <2> QED BY <1>9, <2>3 DEF PollRead, TypeOK
<1>10. PollDone => TypeOK'       BY DEF PollDone, TypeOK
<1>11. RunnerDropped => TypeOK'  BY DEF RunnerDropped, TypeOK
<1> QED BY <1>1, <1>2, <1>3, <1>4, <1>5, <1>6, <1>7, <1>8, <1>9, <1>10, <1>11

LEMMA TypeStep == TypeOK /\ [Next]_vars => TypeOK'
<1>1. ASSUME TypeOK, Controller PROVE TypeOK'
  <2>1. CASE \E size \in Sizes, resp \in BOOLEAN : Resize(size, resp)
    BY <1>1, <2>1, TypeControls
  <2>2. CASE Nudge
    <3>1. PICK size \in Sizes : TRUE
      BY <1>1 DEF TypeOK
    <3> QED BY <1>1, <2>2, <3>1, TypeControls
  <2> QED BY <1>1, <2>1, <2>2, TypeCalls, TypeReturns DEF Controller
<1>2. TypeOK /\ Actor => TypeOK'
  BY TypeHandlers, TypeLoop DEF Actor, Loop
<1>3. TypeOK /\ UNCHANGED vars => TypeOK'
  BY DEF TypeOK, vars, gateVars, slotVars, writeVars, userVars, callVars
<1> QED BY <1>1, <1>2, <1>3, TypeWriter DEF Next

\* Every variable keeps its type, for any writers, sizes and bounds: in particular a partial
\* write never points past the item it stopped in (current_write_offset).
THEOREM TypesHold == Spec => []TypeOK
  BY TypeInit, TypeStep, PTL DEF Spec

-----------------------------------------------------------------------------
(* Nothing is left behind by a quiesce. *)

NoUser(items) == \A k \in 1..Len(items) : ~IsUser(items[k])

DrainInv ==
  /\ pc = "draining" => dataQ = <<>>
  /\ state = "Quiesced" /\ Alive => dataQ = <<>> /\ NoUser(pending)
  /\ view = "paused" => call \in {"idle", "duplicate", "rollback"}
  /\ view = "paused" /\ call # "rollback" /\ Alive =>
       /\ state = "Quiesced" /\ pc # "draining"
       /\ \A i \in 1..Len(ctlQ) : ctlQ[i].op = "duplicate"

IInv == TypeOK /\ GateInv /\ DrainInv

LEMMA DrainInit == Init => DrainInv
  BY DEF Init, DrainInv, NoUser

\* A step that leaves the controller and the control queue alone, and keeps a quiesced
\* actor's backlog free of user input.
LEMMA DrainQuiet ==
  ASSUME IInv, UNCHANGED <<ctlQ, call, view, state>>,
         Alive' => Alive,
         pc' = "draining" => pc = "draining" /\ dataQ' = dataQ,
         state = "Quiesced" /\ Alive' => dataQ' = <<>> /\ NoUser(pending')
  PROVE  DrainInv'
  BY DEF IInv, DrainInv, NoUser

LEMMA DrainWriter == IInv /\ Writer => DrainInv'
<1> SUFFICES ASSUME IInv, NEW w \in Writers,
                    TryWrite(w) \/ CheckGate(w) \/ Reserve(w) \/ SendPermit(w)
             PROVE DrainInv'
  BY DEF Writer
<1>1. /\ UNCHANGED <<ctlQ, call, view, state, pc, pending>>
      /\ dataQ' = dataQ \/ accepting
  BY DEF TryWrite, CheckGate, Reserve, SendPermit, SecondLook, WriterFrame, callVars, writeVars
<1>2. accepting => pc # "draining" /\ (Alive => state = "Running")
  BY DEF IInv, GateInv, OpenGate
<1> QED BY <1>1, <1>2, DrainQuiet DEF IInv, DrainInv, NoUser

LEMMA DrainController == IInv /\ Controller => DrainInv'
<1> SUFFICES ASSUME IInv PROVE Controller => DrainInv'
  OBVIOUS
<1> USE DEF ControllerFrame, writeVars
<1>1. ASSUME NEW size, NEW resp, Resize(size, resp) PROVE DrainInv'
  BY <1>1, DrainQuiet DEF Resize, callVars, IInv, DrainInv, NoUser
<1>2. Nudge => DrainInv'
  BY DrainQuiet DEF Nudge, callVars, IInv, DrainInv, NoUser
<1>3. ASSUME NEW op \in Ops, NEW waiting \in Call, Issue(op, waiting),
             view' = "paused" => /\ view = "paused"
                                 /\ \/ call' = "rollback"
                                    \/ op = "duplicate" /\ waiting = "duplicate" /\ call = "idle"
      PROVE DrainInv'
  <2>1. UNCHANGED <<pc, dataQ, state, pending>>
    BY <1>3 DEF Issue
  <2>2. ctlQ \in Seq(Command) /\ [op |-> op, id |-> calls + 1] \in Command
    BY DEF IInv, TypeOK, Command
  <2>3. \/ ctlQ' = Append(ctlQ, [op |-> op, id |-> calls + 1]) /\ call' = waiting
        \/ ctlQ' = ctlQ /\ call' = "idle"
    BY <1>3, Zenon DEF Issue
  <2>4. op = "duplicate" /\ (\A i \in 1..Len(ctlQ) : ctlQ[i].op = "duplicate")
          => \A i \in 1..Len(ctlQ') : ctlQ'[i].op = "duplicate"
    BY <2>2, <2>3, QueueAppend
  <2> QED BY <1>3, <2>1, <2>3, <2>4 DEF IInv, DrainInv, NoUser
<1>4. BeginCall => DrainInv'
  BY <1>3 DEF BeginCall
<1>5. DuplicateCall => DrainInv'
  BY <1>3 DEF DuplicateCall, Ready
<1>6. ASSUME RollbackCall PROVE DrainInv'
  <2>1. view' = "paused" => view = "paused" /\ call' = "rollback"
    BY <1>6 DEF RollbackCall, Issue
  <2> QED BY <1>3, <1>6, <2>1 DEF RollbackCall
<1>7. ReleaseCall => DrainInv'
  BY <1>3 DEF ReleaseCall
<1>8. ShutdownCall => DrainInv'
  BY <1>3 DEF ShutdownCall
<1>9. ASSUME BeginReturns PROVE DrainInv'
  <2>1. CASE RollbackAfterBegin
    BY <1>3, <2>1 DEF RollbackAfterBegin
  <2>2. CASE ~RollbackAfterBegin
    <3>1. call = "begin" /\ reply = "ok" /\ call' = "idle"
          /\ UNCHANGED <<ctlQ, pc, dataQ, state, pending>>
      BY <1>9, <2>2 DEF BeginReturns, Returned, ReturnFrame
    <3>2. ctlQ = <<>> /\ pc # "draining" /\ (Alive => state = "Quiesced")
      BY <3>1 DEF IInv, GateInv, CurrentCall, AnswerHolds
    <3> QED BY <3>1, <3>2 DEF IInv, DrainInv, NoUser
  <2> QED BY <2>1, <2>2
<1>10. DuplicateReturns => DrainInv'
  BY DEF DuplicateReturns, ReturnFrame, IInv, DrainInv, NoUser
<1>11. RollbackReturns => DrainInv'
  BY DEF RollbackReturns, ReturnFrame, IInv, DrainInv, NoUser
<1>12. ReleaseReturns => DrainInv'
  BY DEF ReleaseReturns, ReturnFrame, IInv, DrainInv, NoUser
<1> QED
  BY <1>1, <1>2, <1>4, <1>5, <1>6, <1>7, <1>8, <1>9, <1>10, <1>11, <1>12 DEF Controller

LEMMA DrainFlushed ==
  ASSUME TypeOK, NEW n \in 0..Owed, NEW failed, Flush(n, failed), NoUser(pending)
  PROVE  NoUser(pending')
<1> DEFINE done == (offset + n) \div 2
<1>1. pending \in Seq(Item) /\ done \in Nat /\ done <= Len(pending)
  BY DEF TypeOK, Owed
<1>2. NoUser(SubSeq(pending, done + 1, Len(pending)))
  <2> HIDE DEF done
  <2> QED BY <1>1, QueueRest DEF NoUser
<1>3. NoUser(<<>>)
  BY DEF NoUser
<1> QED BY <1>2, <1>3 DEF Flush

LEMMA DrainApplied ==
  ASSUME TypeOK, NEW queue \in Seq(Item), ApplyControls(queue), NoUser(queue)
  PROVE  NoUser(pending')
<1>1. Response(0) \in Item /\ ~IsUser(Response(0))
  BY ConstantsAssumption DEF Response, Item, IsUser
<1>2. NoUser(Append(queue, Response(0)))
  BY <1>1, QueueAppend DEF NoUser
<1>3. pending' \in {queue, Append(queue, Response(0))}
  BY DEF ApplyControls
<1> QED BY <1>2, <1>3

\* The command at the head of the queue, while the controller believes the pane paused.
LEMMA DrainTake ==
  ASSUME IInv, NEW op, TakeCommand(op)
  PROVE  /\ view = "paused" /\ call # "rollback" => op = "duplicate"
         /\ \A i \in 1..Len(ctlQ') : i + 1 \in 1..Len(ctlQ) /\ ctlQ'[i] = ctlQ[i + 1]
         /\ pc = "control" /\ Alive
<1>1. ctlQ \in Seq(Command) /\ ctlQ # <<>> /\ Head(ctlQ).op = op /\ ctlQ' = Tail(ctlQ)
      /\ pc = "control"
  BY DEF IInv, TypeOK, TakeCommand, NextCommand
<1> QED BY <1>1, QueueTail DEF IInv, DrainInv

LEMMA DrainActor == IInv /\ Actor => DrainInv'
<1> SUFFICES ASSUME IInv PROVE Actor => DrainInv'
  OBVIOUS
<1> TypeOK /\ pending \in Seq(Item) BY DEF IInv, TypeOK
<1> USE DEF ActorFrame, writeVars
<1>1. ASSUME HandleBegin PROVE DrainInv'
  <2>1. TakeCommand("begin") /\ UNCHANGED <<call, view, state>> /\ dataQ' = <<>>
        /\ ApplyControls(Backlog)
    BY <1>1 DEF HandleBegin
  <2>2. ~(view = "paused" /\ call # "rollback") /\ pc = "control"
    BY <2>1, DrainTake
  <2>3. ASSUME state = "Quiesced" PROVE NoUser(pending')
    <3>1. dataQ = <<>> /\ NoUser(pending)
      BY <2>2, <2>3 DEF IInv, DrainInv
    <3>2. Backlog = pending
      BY <2>3, <3>1 DEF Backlog
    <3> QED BY <2>1, <3>1, <3>2, DrainApplied
  <2> QED BY <2>1, <2>2, <2>3 DEF IInv, DrainInv
<1>2. ASSUME DrainFlush PROVE DrainInv'
  <2>1. NoUser(pending) => NoUser(pending')
    BY <1>2, DrainFlushed DEF DrainFlush
  <2> QED BY <1>2, <2>1, DrainQuiet DEF DrainFlush, IInv, DrainInv
<1>3. DrainTimeout => DrainInv'
  BY DrainQuiet DEF DrainTimeout, IInv, DrainInv, NoUser
<1>4. DrainDone => DrainInv'
  BY DEF DrainDone, Drained, IInv, DrainInv, NoUser
<1>5. ASSUME HandleDuplicate PROVE DrainInv'
  BY <1>5, DrainTake DEF HandleDuplicate, IInv, DrainInv, NoUser
<1>6. ASSUME HandleRollback PROVE DrainInv'
  BY <1>6, DrainTake DEF HandleRollback, IInv, DrainInv, NoUser
<1>7. HandleRelease => DrainInv'
  BY DEF HandleRelease, IInv, DrainInv
<1>8. HandleShutdown => DrainInv'
  BY DEF HandleShutdown, IInv, DrainInv
<1>9. ControlDrained => DrainInv'
  BY DrainQuiet DEF ControlDrained, IInv, DrainInv, NoUser
<1>10. HandleData => DrainInv'
  BY DrainQuiet DEF HandleData, IInv, DrainInv, NoUser
<1>11. ASSUME DataDrained PROVE DrainInv'
  <2>1. NoUser(pending) => NoUser(pending')
    BY <1>11, DrainApplied DEF DataDrained
  <2> QED BY <1>11, <2>1, DrainQuiet DEF DataDrained, IInv, DrainInv
<1>12. ASSUME FlushBeforePoll \/ PollWrite PROVE DrainInv'
  <2>1. NoUser(pending) => NoUser(pending')
    BY <1>12, DrainFlushed DEF FlushBeforePoll, PollWrite, FlushStep
  <2> QED BY <1>12, <2>1, DrainQuiet DEF FlushBeforePoll, PollWrite, FlushStep, IInv, DrainInv
<1>13. PollRead => DrainInv'
  BY DrainQuiet DEF PollRead, ReadInterest, IInv, DrainInv
<1>14. PollDone => DrainInv'
  BY DrainQuiet DEF PollDone, IInv, DrainInv, NoUser
<1>15. RunnerDropped => DrainInv'
  BY DEF RunnerDropped, IInv, DrainInv
<1> QED
  BY <1>1, <1>2, <1>3, <1>4, <1>5, <1>6, <1>7, <1>8, <1>9, <1>10, <1>11, <1>12, <1>13,
     <1>14, <1>15 DEF Actor, Loop

LEMMA InvInit == Init => IInv
  BY TypeInit, GateInit, DrainInit DEF IInv

LEMMA InvStep == IInv /\ [Next]_vars => IInv'
<1>1. IInv /\ UNCHANGED vars => DrainInv'
  BY DEF vars, gateVars, slotVars, writeVars, userVars, callVars, IInv, DrainInv, NoUser
<1>2. IInv /\ Next => DrainInv'
  BY DrainWriter, DrainController, DrainActor DEF Next
<1> QED BY <1>1, <1>2, TypeStep, GateStep DEF IInv

\* A pane whose begin_handoff has succeeded holds no user input, neither queued nor half
\* written, until its rollback: what the successor takes over is the PTY and nothing else
\* (begin_handoff's drain, the gate, and the dropping of commands by a quiesced actor).
THEOREM PausedIsClean == Spec => []PausedIsDrained
<1>1. IInv => PausedIsDrained
  <2> SUFFICES ASSUME IInv PROVE PausedIsDrained
    OBVIOUS
  <2>1. DOMAIN pending = 1..Len(pending)
    BY DEF IInv, TypeOK
  <2> QED BY <2>1 DEF IInv, DrainInv, NoUser, PausedIsDrained
<1> QED BY <1>1, InvInit, InvStep, PTL DEF Spec

-----------------------------------------------------------------------------
(* The channel's capacity. *)

CapInv == IsFiniteSet(Permits) /\ QueueBounded

LEMMA CapWriter == TypeOK /\ CapInv /\ Writer => CapInv'
<1> SUFFICES ASSUME TypeOK, CapInv, NEW w \in Writers PROVE
      TryWrite(w) \/ CheckGate(w) \/ Reserve(w) \/ SendPermit(w) => CapInv'
  BY DEF Writer
<1> USE DEF WriterFrame
<1>1. /\ wpc \in [Writers -> {"idle", "reserving", "permit"}] /\ Len(dataQ) \in Nat
      /\ IsFiniteSet(Permits) /\ Cardinality(Permits) \in Nat
      /\ RxOpen => Len(dataQ) + Cardinality(Permits) <= QCap
      /\ QCap \in Nat
  <2>1. IsFiniteSet(Permits)
    BY DEF CapInv
  <2>2. Cardinality(Permits) \in Nat
    BY <2>1, FS_CardinalityType
  <2>3. RxOpen => Len(dataQ) + Cardinality(Permits) <= QCap
    BY DEF CapInv, QueueBounded
  <2>4. QCap \in Nat
    BY ConstantsAssumption
  <2>5. wpc \in [Writers -> {"idle", "reserving", "permit"}] /\ Len(dataQ) \in Nat
    BY DEF TypeOK
  <2> QED BY <2>1, <2>2, <2>3, <2>4, <2>5
<1>2. /\ IsFiniteSet(Permits \cup {w}) /\ IsFiniteSet(Permits \ {w})
      /\ w \notin Permits => Cardinality(Permits \cup {w}) = Cardinality(Permits) + 1
      /\ w \in Permits => Cardinality(Permits \ {w}) = Cardinality(Permits) - 1
  BY <1>1, FS_AddElement, FS_RemoveElement
<1>3. Push(w) => Len(dataQ') = Len(dataQ) + 1
  BY QueueAppend DEF Push, TypeOK
<1>4. ASSUME TryWrite(w) PROVE CapInv'
  <2>1. Permits' = Permits /\ pc' = pc
    BY <1>4 DEF TryWrite, Permits
  <2>2. dataQ' = dataQ \/ (HasRoom /\ Push(w))
    BY <1>4 DEF TryWrite
  <2> QED BY <1>1, <1>3, <2>1, <2>2 DEF HasRoom, CapInv, QueueBounded
<1>5. ASSUME CheckGate(w) PROVE CapInv'
  <2>1. Permits' = Permits /\ pc' = pc /\ dataQ' = dataQ
    BY <1>5, <1>1 DEF CheckGate, Permits
  <2> QED BY <2>1 DEF CapInv, QueueBounded
<1>6. ASSUME Reserve(w) PROVE CapInv'
  <2>1. w \notin Permits /\ pc' = pc /\ dataQ' = dataQ
    BY <1>6 DEF Reserve, Permits
  <2>2. CASE RxOpen
    <3>1. Permits' = Permits \cup {w}
      BY <1>6, <1>1, <2>2 DEF Reserve, Permits
    <3>2. HasRoom
      BY <1>6, <2>2 DEF Reserve
    <3> QED BY <1>1, <1>2, <2>1, <3>1, <3>2 DEF HasRoom, CapInv, QueueBounded
  <2>3. CASE ~RxOpen
    <3>1. Permits' = Permits
      BY <1>6, <1>1, <2>3 DEF Reserve, Permits
    <3> QED BY <2>1, <2>3, <3>1 DEF CapInv, QueueBounded
  <2> QED BY <2>2, <2>3
<1>7. ASSUME SendPermit(w) PROVE CapInv'
  <2>1. w \in Permits /\ Permits' = Permits \ {w} /\ pc' = pc
    BY <1>7, <1>1 DEF SendPermit, Permits
  <2>2. dataQ' = dataQ \/ Push(w)
    BY <1>7 DEF SendPermit
  <2> QED BY <1>1, <1>2, <1>3, <2>1, <2>2 DEF CapInv, QueueBounded
<1> QED BY <1>4, <1>5, <1>6, <1>7

\* Only the writers fill the channel.
LEMMA CapActor == TypeOK /\ CapInv /\ Actor => CapInv'
<1> SUFFICES ASSUME TypeOK, CapInv, Actor PROVE CapInv'
  OBVIOUS
<1>1. wpc' = wpc
  BY DEF Actor, Loop, HandleBegin, DrainTimeout, DrainDone, HandleDuplicate, HandleRollback,
         HandleRelease, HandleShutdown, ControlDrained, HandleData, DataDrained,
         FlushBeforePoll, PollWrite, FlushStep, PollRead, PollDone, RunnerDropped, DrainFlush,
         ActorFrame, userVars
<1>2. dataQ' = dataQ \/ dataQ' = <<>> \/ (dataQ # <<>> /\ dataQ' = Tail(dataQ))
  BY DEF Actor, Loop, HandleBegin, DrainTimeout, DrainDone, HandleDuplicate, HandleRollback,
         HandleRelease, HandleShutdown, ControlDrained, HandleData, DataDrained,
         FlushBeforePoll, PollWrite, FlushStep, PollRead, PollDone, RunnerDropped, DrainFlush
<1>3. RxOpen' => RxOpen
  BY DEF Actor, Loop, HandleBegin, DrainTimeout, DrainDone, HandleDuplicate, HandleRollback,
         HandleRelease, HandleShutdown, ControlDrained, HandleData, DataDrained,
         FlushBeforePoll, PollWrite, FlushStep, PollRead, PollDone, RunnerDropped, DrainFlush,
         TakeCommand
<1>4. Len(dataQ) \in Nat /\ Len(dataQ') \in Nat /\ Len(dataQ') <= Len(dataQ)
  BY <1>2, QueueTail DEF TypeOK
<1>5. Permits' = Permits
  BY <1>1 DEF Permits
<1>6. Cardinality(Permits) \in Nat /\ QCap \in Nat
  BY FS_CardinalityType, ConstantsAssumption DEF CapInv
<1> QED BY <1>3, <1>4, <1>5, <1>6 DEF CapInv, QueueBounded

LEMMA CapStep == TypeOK /\ CapInv /\ [Next]_vars => CapInv'
<1> SUFFICES ASSUME TypeOK, CapInv, [Next]_vars PROVE CapInv'
  OBVIOUS
<1>1. Controller \/ UNCHANGED vars => UNCHANGED <<dataQ, wpc, pc>>
  BY DEF Controller, Resize, Nudge, BeginCall, DuplicateCall, RollbackCall, ReleaseCall,
         ShutdownCall, BeginReturns, DuplicateReturns, RollbackReturns, ReleaseReturns,
         RollbackAfterBegin, Issue, ReturnFrame, ControllerFrame, userVars, vars
<1>2. UNCHANGED <<dataQ, wpc, pc>> => CapInv'
  BY DEF CapInv, QueueBounded, Permits
<1> QED BY <1>1, <1>2, CapWriter, CapActor DEF Next

\* A writer with a permit always finds its place: the queue and the permits together never
\* exceed the channel, for any number of writers and any length (data_tx.reserve, try_send).
THEOREM ChannelBounded == Spec => []QueueBounded
<1>1. Init => CapInv
  <2> SUFFICES ASSUME Init PROVE CapInv
    OBVIOUS
  <2>1. Permits = {} /\ dataQ = <<>>
    BY DEF Init, Permits
  <2> QED BY <2>1, FS_EmptySet, ConstantsAssumption DEF CapInv, QueueBounded
<1>2. TypeOK /\ CapInv /\ [Next]_vars => CapInv'
  BY CapStep
<1>3. CapInv => QueueBounded
  BY DEF CapInv
<1> QED BY <1>1, <1>2, <1>3, TypesHold, PTL DEF Spec

-----------------------------------------------------------------------------
(* The size of the PTY. *)

\* Whatever waits in a slot is what the pane wants, unless a resize has overtaken a nudge.
SizeInv ==
  /\ Alive => state # "Released"
  /\ Alive /\ ~raced =>
       /\ resizeSlot = NoSize => winsize = want
       /\ resizeSlot # NoSize => resizeSlot[1] = want
       /\ nudgeSlot # NoSize => nudgeSlot = want

LEMMA SizeApplied ==
  ASSUME TypeOK, SizeInv, Alive, NEW queue, ApplyControls(queue), UNCHANGED <<want, raced>>
  PROVE  resizeSlot' = NoSize /\ nudgeSlot' = NoSize /\ (~raced => winsize' = want)
<1>1. ~ControlsDiscarded
  BY DEF ControlsDiscarded, SizeInv
<1> QED BY <1>1 DEF ApplyControls, SizeInv

LEMMA SizeController == TypeOK /\ SizeInv /\ Controller => SizeInv'
<1> SUFFICES ASSUME TypeOK, SizeInv, Controller PROVE SizeInv'
  OBVIOUS
<1> USE DEF ControllerFrame
<1>1. ASSUME NEW size \in Sizes, NEW resp \in BOOLEAN, Resize(size, resp) PROVE SizeInv'
  <2>1. <<size, resp>> # NoSize /\ <<size, resp>>[1] = size
    BY ConstantsAssumption
  <2> QED BY <1>1, <2>1 DEF Resize, SizeInv
<1>2. Nudge => SizeInv'
  BY DEF Nudge, SizeInv
<1>3. CASE ~Nudge /\ ~(\E size \in Sizes, resp \in BOOLEAN : Resize(size, resp))
  <2>1. UNCHANGED <<resizeSlot, nudgeSlot, want, raced, winsize, state, pc>>
    BY <1>3 DEF Controller, BeginCall, DuplicateCall, RollbackCall, ReleaseCall,
         ShutdownCall, BeginReturns, DuplicateReturns, RollbackReturns, ReleaseReturns,
         RollbackAfterBegin, Issue, ReturnFrame, slotVars
  <2> QED BY <2>1 DEF SizeInv
<1> QED BY <1>1, <1>2, <1>3

LEMMA SizeActor == TypeOK /\ SizeInv /\ Actor => SizeInv'
<1> SUFFICES ASSUME TypeOK, SizeInv PROVE Actor => SizeInv'
  OBVIOUS
<1> USE DEF ActorFrame, TakeCommand
<1>1. ASSUME HandleBegin PROVE SizeInv'
  <2>1. Alive /\ ApplyControls(Backlog) /\ UNCHANGED <<want, raced, state>>
    BY <1>1 DEF HandleBegin
  <2> QED BY <2>1, SizeApplied DEF SizeInv
<1>2. ASSUME DataDrained PROVE SizeInv'
  <2>1. Alive /\ ApplyControls(pending) /\ UNCHANGED <<want, raced, state>>
    BY <1>2 DEF DataDrained
  <2> QED BY <2>1, SizeApplied DEF SizeInv
<1>3. HandleRelease => SizeInv'
  BY DEF HandleRelease, SizeInv
<1>4. HandleRollback \/ DrainDone => SizeInv'
  BY DEF HandleRollback, DrainDone, SizeInv
<1>5. DrainTimeout \/ HandleDuplicate \/ HandleShutdown \/ ControlDrained \/ HandleData
        \/ FlushBeforePoll \/ PollWrite \/ PollRead \/ PollDone \/ RunnerDropped \/ DrainFlush
      => SizeInv'
  BY DEF DrainTimeout, HandleDuplicate, HandleShutdown, ControlDrained, HandleData,
         FlushBeforePoll, PollWrite, FlushStep, PollRead, PollDone, RunnerDropped, DrainFlush,
         SizeInv
<1> QED BY <1>1, <1>2, <1>3, <1>4, <1>5 DEF Actor, Loop

LEMMA SizeStep == TypeOK /\ SizeInv /\ [Next]_vars => SizeInv'
<1> SUFFICES ASSUME TypeOK, SizeInv, [Next]_vars PROVE SizeInv'
  OBVIOUS
<1>1. Writer \/ UNCHANGED vars
      => UNCHANGED <<resizeSlot, nudgeSlot, want, raced, winsize, state, pc>>
  BY DEF Writer, TryWrite, CheckGate, Reserve, SendPermit, WriterFrame, slotVars, vars
<1>2. UNCHANGED <<resizeSlot, nudgeSlot, want, raced, winsize, state, pc>> => SizeInv'
  BY DEF SizeInv
<1> QED BY <1>1, <1>2, SizeController, SizeActor DEF Next

\* But for a resize posted behind a waiting nudge, no order of resizes, nudges, drains and
\* rollbacks leaves the PTY with another size than the pane last asked for
\* (apply_pending_controls, PaneRuntime::resize).
THEOREM SizeFollows == Spec => []LatestSizeUnlessRaced
<1>1. Init => SizeInv
  BY DEF Init, SizeInv
<1>2. TypeOK /\ SizeInv /\ [Next]_vars => SizeInv'
  BY SizeStep
<1>3. SizeInv => LatestSizeUnlessRaced
  BY DEF SizeInv, LatestSizeUnlessRaced
<1> QED BY <1>1, <1>2, <1>3, TypesHold, PTL DEF Spec

-----------------------------------------------------------------------------
(* What is on the wire. *)

\* Second halves follow their first, and a half-written item is at the front of the backlog
\* with its first half last on the wire.
WireInv ==
  /\ \A k \in 1..Len(wire) : wire[k][2] = 2 => k > 1 /\ wire[k - 1] = <<wire[k][1], 1>>
  /\ Alive /\ offset = 1 =>
       pending # <<>> /\ wire # <<>> /\ wire[Len(wire)] = <<pending[1], 1>>

\* A step that writes nothing and leaves the front of the backlog where it is.
LEMMA WireQuiet ==
  ASSUME WireInv, UNCHANGED <<wire, offset>>, Alive' => Alive,
         Alive' /\ pending # <<>> => pending' # <<>> /\ pending'[1] = pending[1]
  PROVE  WireInv'
  BY DEF WireInv

\* What a flush writes, unit by unit.
LEMMA WrittenUnits ==
  ASSUME TypeOK, NEW n \in 0..Owed, NEW failed, Flush(n, failed)
  PROVE  /\ Len(wire') = Len(wire) + n
         /\ \A k \in 1..Len(wire) : wire'[k] = wire[k]
         /\ \A k \in 1..n : wire'[Len(wire) + k] = UnitAt(offset + k)
<1> DEFINE out == [k \in 1..n |-> UnitAt(offset + k)]
<1>1. n \in Nat /\ wire \in Seq(Unit)
  BY DEF TypeOK, Owed
<1>2. wire' = wire \o out
  BY DEF Flush
<1>3. ASSUME NEW o, o = out PROVE
        /\ Len(wire \o o) = Len(wire) + n
        /\ \A k \in 1..Len(wire) : (wire \o o)[k] = wire[k]
        /\ \A k \in 1..n : (wire \o o)[Len(wire) + k] = UnitAt(offset + k)
  <2>1. Len(o) = n /\ \A k \in 1..n : o[k] = UnitAt(offset + k)
    BY <1>1, <1>3
  <2> QED BY <1>1, <2>1
<1> QED BY <1>2, <1>3

\* The units of an item are neighbours.
LEMMA UnitsPair ==
  ASSUME NEW m \in Nat
  PROVE  /\ m % 2 = 0 => /\ UnitAt(m)[2] = 2
                         /\ UnitAt(m)[1] = pending[m \div 2]
                         /\ m > 0 => UnitAt(m - 1) = <<pending[m \div 2], 1>>
         /\ m % 2 = 1 => UnitAt(m) = <<pending[m \div 2 + 1], 1>>
<1>1. m % 2 = 0 => m - (m % 2) = m /\ (m + 1) \div 2 = m \div 2 /\ 2 - (m % 2) = 2
  OBVIOUS
<1>2. m % 2 = 0 /\ m > 0 => ((m - 1) + 1) \div 2 = m \div 2 /\ 2 - ((m - 1) % 2) = 1
  OBVIOUS
<1>3. m % 2 = 1 => (m + 1) \div 2 = m \div 2 + 1 /\ 2 - (m % 2) = 1
  OBVIOUS
<1> QED BY <1>1, <1>2, <1>3 DEF UnitAt

LEMMA WireFlushed ==
  ASSUME TypeOK, WireInv, Alive, NEW n \in 0..Owed, NEW failed \in BOOLEAN, Flush(n, failed)
  PROVE  WireInv'
<1> DEFINE done == (offset + n) \div 2
           rest == SubSeq(pending, done + 1, Len(pending))
<1>1. /\ pending \in Seq(Item) /\ Len(pending) \in Nat /\ offset \in 0..1 /\ n \in Nat
      /\ offset + n <= 2 * Len(pending) /\ Len(wire) \in Nat
  BY DEF TypeOK, Owed
<1>2. /\ Len(wire') = Len(wire) + n
      /\ \A k \in 1..Len(wire) : wire'[k] = wire[k]
      /\ \A k \in 1..n : wire'[Len(wire) + k] = UnitAt(offset + k)
  BY WrittenUnits
<1>3. ASSUME NEW k \in 1..n, wire'[Len(wire) + k][2] = 2
      PROVE  Len(wire) + k > 1 /\ wire'[Len(wire) + k - 1] = <<wire'[Len(wire) + k][1], 1>>
  <2>1. PICK m \in Nat : m = offset + k /\ m > 0 /\ m % 2 \in 0..1
    BY <1>1
  <2>2. m % 2 = 0
    BY <1>2, <1>3, <2>1, UnitsPair
  <2>3. wire'[Len(wire) + k][1] = pending[m \div 2] /\ UnitAt(m - 1) = <<pending[m \div 2], 1>>
    BY <1>2, <2>1, <2>2, UnitsPair
  <2>4. CASE k > 1
    <3>1. PICK i \in 1..n : i = k - 1 /\ offset + i = m - 1 /\ Len(wire) + i = Len(wire) + k - 1
      BY <1>1, <2>1, <2>4
    <3>2. wire'[Len(wire) + i] = UnitAt(m - 1)
      BY <1>2, <3>1
    <3>3. wire'[Len(wire) + k - 1] = UnitAt(m - 1)
      BY <3>1, <3>2
    <3> QED BY <1>1, <2>3, <2>4, <3>3
  <2>5. CASE k = 1
    <3>1. offset = 1 /\ m \div 2 = 1
      BY <1>1, <2>1, <2>2, <2>5
    <3>2. wire # <<>> /\ wire[Len(wire)] = <<pending[1], 1>>
      BY <3>1 DEF WireInv
    <3>3. Len(wire) \in 1..Len(wire)
      BY <3>2 DEF TypeOK
    <3> QED BY <1>1, <1>2, <2>3, <2>5, <3>1, <3>2, <3>3
  <2> QED BY <2>4, <2>5
<1>4. ASSUME NEW j \in 1..Len(wire'), wire'[j][2] = 2
      PROVE  j > 1 /\ wire'[j - 1] = <<wire'[j][1], 1>>
  <2>1. CASE j \in 1..Len(wire)
    <3>1. j > 1 /\ wire[j - 1] = <<wire[j][1], 1>>
      BY <1>2, <1>4, <2>1 DEF WireInv
    <3>2. j - 1 \in 1..Len(wire)
      BY <1>1, <2>1, <3>1
    <3> QED BY <1>2, <2>1, <3>1, <3>2
  <2>2. CASE j \notin 1..Len(wire)
    <3>1. PICK k \in 1..n : j = Len(wire) + k
      <4>1. j - Len(wire) \in 1..n /\ j = Len(wire) + (j - Len(wire))
        BY <1>1, <1>2, <2>2
      <4> QED BY <4>1
    <3>2. Len(wire) + k > 1 /\ wire'[Len(wire) + k - 1] = <<wire'[Len(wire) + k][1], 1>>
      BY <1>3, <1>4, <3>1
    <3> QED BY <3>1, <3>2
  <2> QED BY <2>1, <2>2
<1>5. ASSUME offset' = 1
      PROVE  pending' # <<>> /\ wire' # <<>> /\ wire'[Len(wire')] = <<pending'[1], 1>>
  <2>1. ~failed /\ (offset + n) % 2 = 1 /\ pending' = rest
    BY <1>5, <1>1 DEF Flush, OffsetAfter
  <2>2. done \in Nat /\ done < Len(pending)
    BY <1>1, <2>1
  <2>3. pending' # <<>> /\ pending'[1] = pending[done + 1]
    <3> HIDE DEF done
    <3>1. Len(rest) = Len(pending) - done
          /\ \A i \in 1..(Len(pending) - done) : rest[i] = pending[done + i]
      BY <1>1, <2>2, QueueRest
    <3>2. 1 \in 1..(Len(pending) - done) /\ Len(pending) - done # 0
      BY <1>1, <2>2
    <3> HIDE DEF rest
    <3>3. Len(rest) # 0 => rest # <<>>
      OBVIOUS
    <3> QED BY <2>1, <3>1, <3>2, <3>3
  <2>4. CASE n = 0
    <3>1. offset = 1 /\ done = 0 /\ Len(wire') = Len(wire)
      BY <1>1, <1>2, <2>1, <2>4
    <3>2. wire # <<>> /\ wire[Len(wire)] = <<pending[1], 1>>
      BY <3>1 DEF WireInv
    <3>3. Len(wire) \in 1..Len(wire) /\ wire' # <<>>
      <4>1. Len(wire) # 0
        BY <3>2 DEF TypeOK
      <4> QED BY <1>1, <3>1, <4>1
    <3> QED BY <1>2, <2>3, <3>1, <3>2, <3>3
  <2>5. CASE n > 0
    <3>1. n \in 1..n /\ Len(wire') # 0 /\ wire'[Len(wire')] = UnitAt(offset + n)
      BY <1>1, <1>2, <2>5
    <3>2. UnitAt(offset + n) = <<pending[done + 1], 1>>
      BY <1>1, <2>1, UnitsPair
    <3> QED BY <2>3, <3>1, <3>2
  <2> QED BY <1>1, <2>4, <2>5
<1> QED BY <1>4, <1>5 DEF WireInv

LEMMA WireActor == TypeOK /\ WireInv /\ Actor => WireInv'
<1> SUFFICES ASSUME TypeOK, WireInv PROVE Actor => WireInv'
  OBVIOUS
<1> USE DEF TakeCommand, writeVars
<1>1. ASSUME NEW queue \in Seq(Item), pending # <<>>
      PROVE  (pending \o queue) # <<>> /\ (pending \o queue)[1] = pending[1]
  BY <1>1 DEF TypeOK
<1>2. ASSUME NEW queue \in Seq(Item), queue # <<>>, NEW item \in Item
      PROVE  Append(queue, item) # <<>> /\ Append(queue, item)[1] = queue[1]
  BY <1>2
<1>3. ASSUME NEW queue \in Seq(Item), ApplyControls(queue), queue # <<>>
      PROVE  pending' # <<>> /\ pending'[1] = queue[1]
  <2>1. Response(0) \in Item
    BY DEF Response, Item
  <2>2. pending' \in {queue, Append(queue, Response(0))}
    BY <1>3 DEF ApplyControls
  <2> QED BY <1>2, <1>3, <2>1, <2>2
<1>4. ASSUME HandleBegin PROVE WireInv'
  <2>1. ApplyControls(Backlog) /\ UNCHANGED <<wire, offset>> /\ Alive
    BY <1>4 DEF HandleBegin
  <2>2. dataQ \in Seq(Item) /\ pending \in Seq(Item)
    BY DEF TypeOK, Item
  <2>3. Backlog \in Seq(Item) /\ (pending # <<>> => Backlog # <<>> /\ Backlog[1] = pending[1])
    BY <1>1, <2>2 DEF Backlog
  <2> QED BY <1>3, <2>1, <2>3, WireQuiet
<1>5. ASSUME DataDrained PROVE WireInv'
  <2>1. ApplyControls(pending) /\ UNCHANGED <<wire, offset>> /\ Alive
    BY <1>5 DEF DataDrained
  <2>2. pending \in Seq(Item)
    BY DEF TypeOK
  <2> QED BY <1>3, <2>1, <2>2, WireQuiet
<1>6. ASSUME HandleData PROVE WireInv'
  <2>1. Head(dataQ) \in Item /\ pending \in Seq(Item)
    BY <1>6, QueueTail, QueueElement DEF HandleData, TypeOK, Item
  <2>2. pending' \in {pending, Append(pending, Head(dataQ))} /\ UNCHANGED <<wire, offset>> /\ Alive
    BY <1>6 DEF HandleData
  <2> QED BY <1>2, <2>1, <2>2, WireQuiet
<1>7. ASSUME PollRead PROVE WireInv'
  <2>1. <<>> \in Seq(Item) /\ <<Response(reads + 1)>> \in Seq(Item)
    BY DEF TypeOK, Response, Item
  <2>2. PICK responses \in {<<>>, <<Response(reads + 1)>>} : pending' = pending \o responses
    BY <1>7 DEF PollRead
  <2>3. UNCHANGED <<wire, offset>> /\ Alive
    BY <1>7 DEF PollRead
  <2> QED BY <1>1, <2>1, <2>2, <2>3, WireQuiet
<1>8. DrainFlush \/ FlushBeforePoll \/ PollWrite => WireInv'
  BY WireFlushed DEF DrainFlush, FlushBeforePoll, PollWrite, FlushStep
<1>9. HandleRelease => WireInv'
  BY WireQuiet DEF HandleRelease
<1>10. DrainTimeout \/ DrainDone \/ HandleDuplicate \/ HandleRollback \/ HandleShutdown
         \/ ControlDrained \/ PollDone \/ RunnerDropped => WireInv'
  BY WireQuiet DEF DrainTimeout, DrainDone, HandleDuplicate, HandleRollback, HandleShutdown,
                   ControlDrained, PollDone, RunnerDropped
<1> QED BY <1>4, <1>5, <1>6, <1>7, <1>8, <1>9, <1>10 DEF Actor, Loop

LEMMA WireStep == TypeOK /\ WireInv /\ [Next]_vars => WireInv'
<1> SUFFICES ASSUME TypeOK, WireInv, [Next]_vars PROVE WireInv'
  OBVIOUS
<1>1. Writer \/ Controller \/ UNCHANGED vars => UNCHANGED <<wire, offset, pending, pc>>
  BY DEF Writer, TryWrite, CheckGate, Reserve, SendPermit, WriterFrame, writeVars,
         Controller, Resize, Nudge, BeginCall, DuplicateCall, RollbackCall, ReleaseCall,
         ShutdownCall, BeginReturns, DuplicateReturns, RollbackReturns, ReleaseReturns,
         RollbackAfterBegin, Issue, ReturnFrame, ControllerFrame, vars
<1>2. UNCHANGED <<wire, offset, pending, pc>> => WireInv'
  BY WireQuiet
<1> QED BY <1>1, <1>2, WireActor DEF Next

\* However writes are cut short, fail, or are drained by a handoff, no half of an item is
\* separated from the other on the wire (current_write_offset, flush_pending_writes_once).
THEOREM ItemsWhole == Spec => []WireIntact
<1>1. Init => WireInv
  BY DEF Init, WireInv
<1>2. TypeOK /\ WireInv /\ [Next]_vars => WireInv'
  BY WireStep
<1>3. TypeOK /\ WireInv => WireIntact
  <2> SUFFICES ASSUME TypeOK, WireInv PROVE WireIntact
    OBVIOUS
  <2>1. DOMAIN wire = 1..Len(wire)
    BY DEF TypeOK
  <2> QED BY <2>1 DEF WireInv, WireIntact
<1> QED BY <1>1, <1>2, <1>3, TypesHold, PTL DEF Spec

-----------------------------------------------------------------------------
(* The master while the successor holds a duplicate. *)

HandInv ==
  /\ call = "duplicate" => view = "paused"
  /\ handed => view \in {"paused", "released", "dropped"} /\ call \notin {"begin", "rollback"}
  /\ handed /\ Alive =>
       /\ state = "Quiesced" /\ pc # "draining"
       /\ \A i \in 1..Len(ctlQ) : ctlQ[i].op \in {"duplicate", "release", "shutdown"}

LEMMA HandController == IInv /\ HandInv /\ Controller => HandInv'
<1> SUFFICES ASSUME IInv, HandInv PROVE Controller => HandInv'
  OBVIOUS
<1> USE DEF ControllerFrame
<1>1. ASSUME NEW size, NEW resp, Resize(size, resp) \/ Nudge PROVE HandInv'
  BY <1>1 DEF Resize, Nudge, callVars, HandInv
<1>2. ASSUME NEW op \in Ops, NEW waiting \in Call, Issue(op, waiting),
             waiting = "duplicate" => view' = "paused",
             handed' => /\ handed /\ op \in {"duplicate", "release", "shutdown"}
                        /\ waiting \notin {"begin", "rollback"}
                        /\ view' \in {"paused", "released", "dropped"}
      PROVE HandInv'
  <2>1. UNCHANGED <<pc, state>>
    BY <1>2 DEF Issue
  <2>2. ctlQ \in Seq(Command) /\ [op |-> op, id |-> calls + 1] \in Command
    BY DEF IInv, TypeOK, Command
  <2>3. \/ ctlQ' = Append(ctlQ, [op |-> op, id |-> calls + 1]) /\ call' = waiting
        \/ ctlQ' = ctlQ /\ call' = "idle"
    BY <1>2, Zenon DEF Issue
  <2>4. /\ op \in {"duplicate", "release", "shutdown"}
        /\ \A i \in 1..Len(ctlQ) : ctlQ[i].op \in {"duplicate", "release", "shutdown"}
        => \A i \in 1..Len(ctlQ') : ctlQ'[i].op \in {"duplicate", "release", "shutdown"}
    BY <2>2, <2>3, QueueAppend
  <2> QED BY <1>2, <2>1, <2>3, <2>4 DEF HandInv
<1>3. BeginCall => HandInv'
  BY <1>2 DEF BeginCall, HandInv
<1>4. DuplicateCall => HandInv'
  BY <1>2 DEF DuplicateCall
<1>5. RollbackCall => HandInv'
  BY <1>2 DEF RollbackCall
<1>6. ReleaseCall => HandInv'
  BY <1>2 DEF ReleaseCall
<1>7. ShutdownCall => HandInv'
  BY <1>2 DEF ShutdownCall
<1>8. BeginReturns => HandInv'
  <2>1. call = "begin" => ~handed
    BY DEF HandInv
  <2>2. RollbackAfterBegin /\ call = "begin" => HandInv'
    BY <1>2, <2>1 DEF RollbackAfterBegin
  <2> QED BY <2>1, <2>2 DEF BeginReturns, Returned, TimedOut, ReturnFrame, HandInv
<1>9. ASSUME DuplicateReturns PROVE HandInv'
  <2>1. call = "duplicate" /\ call' = "idle" /\ UNCHANGED <<view, pc, state, ctlQ>>
    BY <1>9 DEF DuplicateReturns, ReturnFrame
  <2>2. view = "paused"
    BY <2>1 DEF HandInv
  <2> QED BY <2>1, <2>2 DEF IInv, DrainInv, HandInv
<1>10. RollbackReturns => HandInv'
  BY DEF RollbackReturns, ReturnFrame, HandInv
<1>11. ReleaseReturns => HandInv'
  BY DEF ReleaseReturns, ReturnFrame, HandInv
<1> QED
  BY <1>1, <1>3, <1>4, <1>5, <1>6, <1>7, <1>8, <1>9, <1>10, <1>11 DEF Controller

\* Nothing the actor does quiesced, and nothing it is still told, wakes it up.
LEMMA HandActor == IInv /\ HandInv /\ Actor => HandInv'
<1> SUFFICES ASSUME IInv, HandInv, Actor PROVE HandInv'
  OBVIOUS
<1> USE DEF ActorFrame
<1>1. UNCHANGED <<call, view, handed>>
  BY DEF Actor, Loop, HandleBegin, DrainTimeout, DrainDone, HandleDuplicate, HandleRollback,
         HandleRelease, HandleShutdown, ControlDrained, HandleData, DataDrained,
         FlushBeforePoll, PollWrite, FlushStep, PollRead, PollDone, RunnerDropped, DrainFlush
<1>2. ASSUME handed, Alive, ctlQ # <<>>
      PROVE  /\ NextCommand.op \in {"duplicate", "release", "shutdown"}
             /\ \A i \in 1..Len(Tail(ctlQ)) :
                  Tail(ctlQ)[i].op \in {"duplicate", "release", "shutdown"}
  <2>1. ctlQ \in Seq(Command)
    BY DEF IInv, TypeOK
  <2> QED BY <1>2, <2>1, QueueTail DEF HandInv, NextCommand
<1>3. ASSUME handed, Alive'
      PROVE  /\ state' = "Quiesced" /\ pc' # "draining"
             /\ \A i \in 1..Len(ctlQ') : ctlQ'[i].op \in {"duplicate", "release", "shutdown"}
  <2>1. Alive => state = "Quiesced" /\ pc # "draining"
                 /\ \A i \in 1..Len(ctlQ) : ctlQ[i].op \in {"duplicate", "release", "shutdown"}
    BY <1>3 DEF HandInv
  <2>2. Alive
    BY <1>3 DEF Actor, Loop, HandleBegin, DrainTimeout, DrainDone, HandleDuplicate, HandleRollback,
         HandleRelease, HandleShutdown, ControlDrained, HandleData, DataDrained, TakeCommand,
         FlushBeforePoll, PollWrite, FlushStep, PollRead, PollDone, RunnerDropped, DrainFlush
  <2>3. CASE HandleBegin \/ HandleRollback
    BY <1>2, <1>3, <2>2, <2>3 DEF HandleBegin, HandleRollback, TakeCommand
  <2>4. CASE HandleDuplicate
    BY <1>2, <1>3, <2>1, <2>2, <2>4 DEF HandleDuplicate, TakeCommand
  <2>5. CASE ~(HandleBegin \/ HandleRollback \/ HandleDuplicate)
    BY <1>3, <2>1, <2>2, <2>5
       DEF Actor, Loop, DrainTimeout, DrainDone, HandleRelease, HandleShutdown, ControlDrained,
           HandleData, DataDrained, FlushBeforePoll, PollWrite, FlushStep, PollRead, PollDone,
           RunnerDropped, DrainFlush
  <2> QED BY <2>3, <2>4, <2>5
<1> QED BY <1>1, <1>3 DEF HandInv

LEMMA HandStep == IInv /\ HandInv /\ [Next]_vars => HandInv'
<1> SUFFICES ASSUME IInv, HandInv, [Next]_vars PROVE HandInv'
  OBVIOUS
<1>1. Writer \/ UNCHANGED vars => UNCHANGED <<call, view, handed, pc, state, ctlQ>>
  BY DEF Writer, TryWrite, CheckGate, Reserve, SendPermit, WriterFrame, callVars, vars
<1>2. UNCHANGED <<call, view, handed, pc, state, ctlQ>> => HandInv'
  BY DEF HandInv
<1> QED BY <1>1, <1>2, HandController, HandActor DEF Next

\* What HandedMasterLeftAlone says of one step.
LeftAlone ==
  handed /\ handed' =>
    /\ reads' = reads
    /\ \A k \in (DOMAIN wire') \ DOMAIN wire : ~IsUser(wire'[k][1])

LEMMA HandLeavesAlone == IInv /\ HandInv /\ [Next]_vars => LeftAlone
<1> SUFFICES ASSUME IInv, HandInv, [Next]_vars, handed
             PROVE  /\ reads' = reads
                    /\ \A k \in (DOMAIN wire') \ DOMAIN wire : ~IsUser(wire'[k][1])
  BY DEF LeftAlone
<1>1. Alive => state = "Quiesced" /\ pc # "draining" /\ NoUser(pending)
  BY DEF HandInv, IInv, DrainInv
<1>2. ~PollRead /\ ~DrainFlush
  BY <1>1 DEF PollRead, ReadInterest, DrainFlush
<1>3. CASE ~(FlushBeforePoll \/ PollWrite)
  <2>1. reads' = reads /\ wire' = wire
    BY <1>2, <1>3
       DEF Next, Writer, TryWrite, CheckGate, Reserve, SendPermit, WriterFrame, writeVars,
         Controller, Resize, Nudge, BeginCall, DuplicateCall, RollbackCall, ReleaseCall,
         ShutdownCall, BeginReturns, DuplicateReturns, RollbackReturns, ReleaseReturns,
         RollbackAfterBegin, Issue, ReturnFrame, ControllerFrame, vars,
         Actor, Loop, HandleBegin, DrainTimeout, DrainDone, HandleDuplicate, HandleRollback,
         HandleRelease, HandleShutdown, ControlDrained, HandleData, DataDrained, PollDone,
         RunnerDropped
  <2> QED BY <2>1
<1>4. CASE FlushBeforePoll \/ PollWrite
  <2>1. reads' = reads /\ Alive
    BY <1>4 DEF FlushBeforePoll, PollWrite, FlushStep
  <2>2. PICK n \in 0..Owed, failed \in BOOLEAN : Flush(n, failed)
    BY <1>4 DEF FlushBeforePoll, PollWrite, FlushStep
  <2>3. TypeOK /\ Len(wire) \in Nat /\ DOMAIN wire = 1..Len(wire)
    BY DEF IInv, TypeOK
  <2>4. /\ Len(wire') = Len(wire) + n
        /\ \A k \in 1..n : wire'[Len(wire) + k] = UnitAt(offset + k)
    BY <2>2, <2>3, WrittenUnits
  <2>5. wire' \in Seq(Unit) /\ DOMAIN wire' = 1..Len(wire')
    BY <2>2, <2>3, TypeFlush
  <2>6. ASSUME NEW j \in (DOMAIN wire') \ DOMAIN wire PROVE ~IsUser(wire'[j][1])
    <3>1. n \in Nat /\ offset \in 0..1 /\ Len(pending) \in Nat /\ offset + n <= 2 * Len(pending)
      BY <2>2, <2>3 DEF Owed, TypeOK
    <3>2. PICK k \in 1..n : j = Len(wire) + k
      <4>1. j - Len(wire) \in 1..n /\ j = Len(wire) + (j - Len(wire))
        BY <2>3, <2>4, <2>5, <2>6, <3>1
      <4> QED BY <4>1
    <3>3. wire'[j][1] = pending[(offset + k + 1) \div 2]
      BY <2>4, <3>2 DEF UnitAt
    <3>4. (offset + k + 1) \div 2 \in 1..Len(pending)
      BY <3>1, <3>2
    <3> QED BY <1>1, <2>1, <3>3, <3>4 DEF NoUser
  <2> QED BY <2>1, <2>6
<1> QED BY <1>3, <1>4

\* While the successor may hold a duplicate of the master, this process neither reads the
\* PTY nor types into it, whatever is still waiting in its queues (begin_handoff, read
\* interest, duplicate_master).
THEOREM MasterLeftAlone == Spec => HandedMasterLeftAlone
<1>1. Init => IInv /\ HandInv
  BY InvInit DEF Init, HandInv
<1>2. IInv /\ HandInv /\ [Next]_vars => (IInv /\ HandInv)'
  BY InvStep, HandStep
<1>3. IInv /\ HandInv /\ [Next]_vars => [LeftAlone]_vars
  BY HandLeavesAlone
<1> QED BY <1>1, <1>2, <1>3, PTL DEF Spec, HandedMasterLeftAlone, LeftAlone

-----------------------------------------------------------------------------
(* The line of accepted input. *)

\* Item numbers are not used twice, a loss is of something accepted, and an actor that does
\* not run has nothing queued that it would throw away.
KeptInv ==
  /\ \A i \in DOMAIN accepted : accepted[i][2] <= sent[accepted[i][1]]
  /\ \A w \in Writers : wpc[w] # "idle" => <<w, sent[w]>> \notin Elems(accepted)
  /\ lost \subseteq Elems(accepted)
  /\ state = "Released" => ~Alive
  /\ AcceptedConserved

\* The parts of a line and where they are.
LineFrom(W, P, D) == [k \in DOMAIN W |-> W[k][1]] \o P \o D

LEMMA LineParts ==
  ASSUME NEW W \in Seq(Unit), NEW P \in Seq(Item), NEW D \in Seq(Item)
  PROVE  /\ Len(W) \in Nat /\ Len(P) \in Nat /\ Len(D) \in Nat /\ DOMAIN W = 1..Len(W)
         /\ DOMAIN LineFrom(W, P, D) = 1..(Len(W) + Len(P) + Len(D))
         /\ \A k \in 1..Len(W) : LineFrom(W, P, D)[k] = W[k][1]
         /\ \A k \in 1..Len(P) : LineFrom(W, P, D)[Len(W) + k] = P[k]
         /\ \A k \in 1..Len(D) : LineFrom(W, P, D)[Len(W) + Len(P) + k] = D[k]
<1> DEFINE V == [k \in DOMAIN W |-> W[k][1]]
<1>0. ASSUME NEW A \in Seq(Item), NEW B \in Seq(Item)
      PROVE  /\ A \o B \in Seq(Item) /\ Len(A \o B) = Len(A) + Len(B)
             /\ DOMAIN (A \o B) = 1..(Len(A) + Len(B))
             /\ \A k \in 1..Len(A) : (A \o B)[k] = A[k]
             /\ \A k \in 1..Len(B) : (A \o B)[Len(A) + k] = B[k]
  OBVIOUS
<1>1. V \in Seq(Item) /\ Len(V) = Len(W) /\ \A k \in 1..Len(W) : V[k] = W[k][1]
  <2>1. DOMAIN W = 1..Len(W) /\ Len(W) \in Nat
    OBVIOUS
  <2>2. \A k \in 1..Len(W) : W[k][1] \in Item
    BY QueueElement DEF Unit
  <2> QED BY <2>1, <2>2
<1> HIDE DEF V
<1>2. /\ V \o P \in Seq(Item) /\ Len(V \o P) = Len(W) + Len(P)
      /\ \A k \in 1..Len(W) : (V \o P)[k] = V[k]
      /\ \A k \in 1..Len(P) : (V \o P)[Len(W) + k] = P[k]
  <2>1. /\ V \o P \in Seq(Item) /\ Len(V \o P) = Len(V) + Len(P)
        /\ \A k \in 1..Len(V) : (V \o P)[k] = V[k]
        /\ \A k \in 1..Len(P) : (V \o P)[Len(V) + k] = P[k]
    BY <1>0, <1>1
  <2> QED BY <1>1, <2>1
<1>3. Len(W) \in Nat /\ Len(P) \in Nat /\ Len(D) \in Nat /\ DOMAIN W = 1..Len(W)
  OBVIOUS
<1>4. /\ DOMAIN (V \o P \o D) = 1..(Len(W) + Len(P) + Len(D))
      /\ \A k \in 1..(Len(W) + Len(P)) : (V \o P \o D)[k] = (V \o P)[k]
      /\ \A k \in 1..Len(D) : (V \o P \o D)[Len(W) + Len(P) + k] = D[k]
  <2>1. /\ DOMAIN (V \o P \o D) = 1..(Len(V \o P) + Len(D))
        /\ \A k \in 1..Len(V \o P) : (V \o P \o D)[k] = (V \o P)[k]
        /\ \A k \in 1..Len(D) : (V \o P \o D)[Len(V \o P) + k] = D[k]
    BY <1>0, <1>2
  <2> QED BY <1>2, <2>1
<1>5. \A k \in 1..Len(W) : (V \o P \o D)[k] = W[k][1]
  BY <1>1, <1>2, <1>3, <1>4
<1>6. \A k \in 1..Len(P) : (V \o P \o D)[Len(W) + k] = P[k]
  BY <1>2, <1>3, <1>4
<1> QED BY <1>3, <1>4, <1>5, <1>6 DEF LineFrom, V

LEMMA LineHere ==
  TypeOK => /\ wire \in Seq(Unit) /\ pending \in Seq(Item) /\ dataQ \in Seq(Item)
            /\ accepted \in Seq(Item)
            /\ Line = LineFrom(wire, pending, dataQ)
            /\ Places \subseteq Nat
<1> SUFFICES ASSUME TypeOK
             PROVE  /\ wire \in Seq(Unit) /\ pending \in Seq(Item) /\ dataQ \in Seq(Item)
                    /\ accepted \in Seq(Item)
                    /\ Line = LineFrom(wire, pending, dataQ)
                    /\ Places \subseteq Nat
  OBVIOUS
<1>1. wire \in Seq(Unit) /\ pending \in Seq(Item) /\ dataQ \in Seq(Item) /\ accepted \in Seq(Item)
  BY DEF TypeOK, Item
<1>2. Line = LineFrom(wire, pending, dataQ)
  BY DEF Line, LineFrom
<1>3. DOMAIN Line \subseteq Nat
  BY <1>1, <1>2, LineParts
<1> QED BY <1>1, <1>2, <1>3 DEF Places

LEMMA LineSpots ==
  ASSUME TypeOK
  PROVE  /\ DOMAIN Line = 1..(Len(wire) + Len(pending) + Len(dataQ))
         /\ \A k \in 1..Len(wire) : Line[k] = wire[k][1]
         /\ \A k \in 1..Len(pending) : Line[Len(wire) + k] = pending[k]
         /\ \A k \in 1..Len(dataQ) : Line[Len(wire) + Len(pending) + k] = dataQ[k]
<1>1. /\ wire \in Seq(Unit) /\ pending \in Seq(Item) /\ dataQ \in Seq(Item)
      /\ Line = LineFrom(wire, pending, dataQ)
  BY LineHere
<1>2. /\ DOMAIN LineFrom(wire, pending, dataQ) = 1..(Len(wire) + Len(pending) + Len(dataQ))
      /\ \A k \in 1..Len(wire) : LineFrom(wire, pending, dataQ)[k] = wire[k][1]
      /\ \A k \in 1..Len(pending) : LineFrom(wire, pending, dataQ)[Len(wire) + k] = pending[k]
      /\ \A k \in 1..Len(dataQ) :
            LineFrom(wire, pending, dataQ)[Len(wire) + Len(pending) + k] = dataQ[k]
  BY <1>1, LineParts
<1> QED BY <1>1, <1>2

LEMMA LineSpotsAfter ==
  ASSUME TypeOK'
  PROVE  /\ Len(wire') \in Nat /\ Len(pending') \in Nat /\ Len(dataQ') \in Nat
         /\ DOMAIN Line' = 1..(Len(wire') + Len(pending') + Len(dataQ'))
         /\ \A k \in 1..Len(wire') : Line'[k] = wire'[k][1]
         /\ \A k \in 1..Len(pending') : Line'[Len(wire') + k] = pending'[k]
         /\ \A k \in 1..Len(dataQ') : Line'[Len(wire') + Len(pending') + k] = dataQ'[k]
<1>1. wire' \in Seq(Unit) /\ pending' \in Seq(Item) /\ dataQ' \in Seq(Item)
  BY DEF TypeOK, Item
<1>2. Line' = LineFrom(wire', pending', dataQ')
  BY DEF Line, LineFrom
<1>3. /\ DOMAIN LineFrom(wire', pending', dataQ') = 1..(Len(wire') + Len(pending') + Len(dataQ'))
      /\ \A k \in 1..Len(wire') : LineFrom(wire', pending', dataQ')[k] = wire'[k][1]
      /\ \A k \in 1..Len(pending') :
            LineFrom(wire', pending', dataQ')[Len(wire') + k] = pending'[k]
      /\ \A k \in 1..Len(dataQ') :
            LineFrom(wire', pending', dataQ')[Len(wire') + Len(pending') + k] = dataQ'[k]
  BY <1>1, LineParts
<1>4. Len(wire') \in Nat /\ Len(pending') \in Nat /\ Len(dataQ') \in Nat
  BY <1>1
<1> QED BY <1>2, <1>3, <1>4

\* Nothing in the line moves: taking an item from the queue to the backlog, or adding what
\* is nobody's input at the end, leaves every place as it was.
LEMMA LineStays ==
  ASSUME AcceptedConserved, Alive' => Alive, UNCHANGED <<accepted, lost>>,
         Alive' => Places' = Places /\ \A k \in Places : Line'[k] = Line[k]
  PROVE  AcceptedConserved'
  BY DEF AcceptedConserved, Elems

\* One item is in one place.
LEMMA PlacesApart ==
  ASSUME TypeOK, AcceptedConserved, Alive, NEW m \in Places, NEW n \in Places, Line[m] = Line[n]
  PROVE  m = n /\ Line[m] \notin lost /\ Line[m] \in Elems(accepted)
<1>1. Line[m] \in Elems(accepted) \ lost
  BY DEF AcceptedConserved
<1>2. PICK i \in DOMAIN accepted : Line[m] = accepted[i]
  BY <1>1 DEF Elems
<1>3. i \in Nat /\ m \in Nat /\ n \in Nat
  <2>1. DOMAIN accepted \subseteq Nat
    BY DEF TypeOK
  <2> QED BY <2>1, LineHere
<1>4. (m < n <=> i < i) /\ (n < m <=> i < i)
  BY <1>2 DEF AcceptedConserved
<1> QED BY <1>1, <1>3, <1>4

\* The line moves: every place is one of before, in the same order, and what has lost its
\* place has been lost.
LEMMA LineCarried ==
  ASSUME AcceptedConserved, Alive, UNCHANGED accepted, lost \subseteq lost',
         NEW f,
         \A k \in Places' : f[k] \in Places /\ Line'[k] = Line[f[k]] /\ Line[f[k]] \notin lost',
         \A m, n \in Places' : m < n <=> f[m] < f[n],
         \A m \in Places : Line[m] \in lost' \/ \E k \in Places' : f[k] = m
  PROVE  AcceptedConserved'
<1>1. ASSUME NEW x
      PROVE  x \in {Line'[k] : k \in Places'} <=> x \in Elems(accepted) \ lost'
  <2>1. {Line[m] : m \in Places} = Elems(accepted) \ lost
    BY DEF AcceptedConserved
  <2>2. ASSUME NEW k \in Places', x = Line'[k]
        PROVE  x \in Elems(accepted) \ lost'
    BY <2>1, <2>2
  <2>3. ASSUME x \in Elems(accepted) \ lost'
        PROVE  \E k \in Places' : x = Line'[k]
    <3>1. PICK m \in Places : x = Line[m]
      BY <2>1, <2>3
    <3> QED BY <2>3, <3>1
  <2> QED BY <2>2, <2>3
<1>2. {Line'[k] : k \in Places'} = Elems(accepted') \ lost'
  BY <1>1 DEF Elems
<1>3. ASSUME NEW m \in Places', NEW n \in Places', NEW i \in DOMAIN accepted,
             NEW j \in DOMAIN accepted, Line'[m] = accepted[i], Line'[n] = accepted[j]
      PROVE  m < n <=> i < j
  BY <1>3 DEF AcceptedConserved
<1> QED BY <1>2, <1>3 DEF AcceptedConserved

\* A writer's item goes to the end of the line.
LEMMA LinePush ==
  ASSUME TypeOK, TypeOK', AcceptedConserved, lost \subseteq Elems(accepted), NEW w \in Writers,
         Push(w), <<w, sent'[w]>> \notin Elems(accepted),
         UNCHANGED <<wire, pending, lost, pc>>
  PROVE  AcceptedConserved'
<1> DEFINE x == <<w, sent'[w]>>
           end == Len(wire) + Len(pending) + Len(dataQ) + 1
<1>1. x \in Item /\ IsUser(x) /\ x \in Writers \X Nat
  BY DEF TypeOK, Item, IsUser
<1>2. /\ dataQ \in Seq(Item) /\ dataQ' = Append(dataQ, x) /\ Len(dataQ') = Len(dataQ) + 1
      /\ \A k \in 1..Len(dataQ) : dataQ'[k] = dataQ[k]
      /\ dataQ'[Len(dataQ) + 1] = x
  BY <1>1, QueueAppend, LineHere DEF Push
<1>3. /\ accepted \in Seq(Item) /\ accepted' = Append(accepted, x)
      /\ Len(accepted') = Len(accepted) + 1
      /\ \A k \in 1..Len(accepted) : accepted'[k] = accepted[k]
      /\ accepted'[Len(accepted) + 1] = x
      /\ DOMAIN accepted = 1..Len(accepted) /\ DOMAIN accepted' = 1..(Len(accepted) + 1)
  BY <1>1, QueueAppend, LineHere DEF Push
<1>4. Line = LineFrom(wire, pending, dataQ) /\ Line' = LineFrom(wire, pending, dataQ')
  BY LineHere DEF Line, LineFrom
<1>5. /\ Len(wire) \in Nat /\ Len(pending) \in Nat /\ Len(dataQ) \in Nat /\ Len(accepted) \in Nat
      /\ DOMAIN Line = 1..(end - 1) /\ DOMAIN Line' = 1..end
      /\ Line'[end] = x
      /\ \A k \in 1..(end - 1) : Line'[k] = Line[k]
  <2>1. /\ Len(wire) \in Nat /\ Len(pending) \in Nat /\ Len(dataQ) \in Nat
        /\ Len(accepted) \in Nat
    BY LineHere
  <2>2. /\ DOMAIN Line = 1..(Len(wire) + Len(pending) + Len(dataQ))
        /\ \A k \in 1..Len(wire) : Line[k] = wire[k][1]
        /\ \A k \in 1..Len(pending) : Line[Len(wire) + k] = pending[k]
        /\ \A k \in 1..Len(dataQ) : Line[Len(wire) + Len(pending) + k] = dataQ[k]
    BY LineSpots
  <2>3. /\ DOMAIN Line' = 1..(Len(wire) + Len(pending) + Len(dataQ'))
        /\ \A k \in 1..Len(wire) : Line'[k] = wire[k][1]
        /\ \A k \in 1..Len(pending) : Line'[Len(wire) + k] = pending[k]
        /\ \A k \in 1..Len(dataQ') : Line'[Len(wire) + Len(pending) + k] = dataQ'[k]
    BY LineSpotsAfter
  <2>4. Line'[end] = x
    <3>1. Len(dataQ) + 1 \in 1..Len(dataQ')
      BY <1>2, <2>1
    <3>2. Len(wire) + Len(pending) + (Len(dataQ) + 1) = end
      BY <2>1
    <3> QED BY <1>2, <2>3, <3>1, <3>2
  <2>5. ASSUME NEW k \in 1..(end - 1)
        PROVE  Line'[k] = Line[k]
    <3>1. CASE k <= Len(wire)
      BY <2>1, <2>2, <2>3, <3>1
    <3>2. CASE k > Len(wire) /\ k <= Len(wire) + Len(pending)
      <4>1. PICK j \in 1..Len(pending) : Len(wire) + j = k
        <5>1. k - Len(wire) \in 1..Len(pending) /\ Len(wire) + (k - Len(wire)) = k
          BY <2>1, <3>2
        <5> QED BY <5>1
      <4> QED BY <2>2, <2>3, <4>1
    <3>3. CASE k > Len(wire) + Len(pending)
      <4>1. PICK j \in 1..Len(dataQ) : Len(wire) + Len(pending) + j = k
        <5>1. k - (Len(wire) + Len(pending)) \in 1..Len(dataQ)
              /\ Len(wire) + Len(pending) + (k - (Len(wire) + Len(pending))) = k
          BY <2>1, <3>3
        <5> QED BY <5>1
      <4>2. j \in 1..Len(dataQ')
        BY <1>2, <2>1
      <4> QED BY <1>2, <2>2, <2>3, <4>1, <4>2
    <3> QED BY <2>1, <3>1, <3>2, <3>3
  <2> QED BY <1>2, <2>1, <2>2, <2>3, <2>4, <2>5
<1>6. end \in Nat /\ end \notin Places /\ Places \subseteq 1..(end - 1)
  BY <1>5 DEF Places
<1>7. Places' = Places \cup {end}
  <2>1. wire' = wire /\ end > Len(wire)
    BY <1>5
  <2>2. DOMAIN Line' = DOMAIN Line \cup {end}
    BY <1>5
  <2>3. \A k \in DOMAIN Line : Line'[k] = Line[k]
    BY <1>5
  <2>4. Line'[end] = x /\ IsUser(x) /\ ~(end <= Len(wire))
    BY <1>1, <1>5
  <2> HIDE DEF end, x
  <2> QED BY <2>1, <2>2, <2>3, <2>4 DEF Places
<1> HIDE DEF end, x
<1>8. Elems(accepted') = Elems(accepted) \cup {x}
  BY <1>3, <1>5 DEF Elems
<1>9. x \notin lost /\ x \notin Elems(accepted)
  BY DEF x
<1>10. ASSUME Alive'
       PROVE  {Line'[k] : k \in Places'} = Elems(accepted') \ lost'
  <2>1. {Line[k] : k \in Places} = Elems(accepted) \ lost
    BY <1>10 DEF AcceptedConserved
  <2>2. {Line'[k] : k \in Places'} = {Line[k] : k \in Places} \cup {x}
    BY <1>5, <1>6, <1>7
  <2> QED BY <1>8, <1>9, <2>1, <2>2
<1>11. ASSUME Alive', NEW m \in Places', NEW n \in Places', NEW i \in DOMAIN accepted',
              NEW j \in DOMAIN accepted', Line'[m] = accepted'[i], Line'[n] = accepted'[j]
       PROVE  m < n <=> i < j
  <2>1. {Line[k] : k \in Places} = Elems(accepted) \ lost
    BY <1>11 DEF AcceptedConserved
  <2>2. \A k \in Places : Line'[k] = Line[k] /\ Line[k] # x /\ k < end
    BY <1>5, <1>6, <1>9, <2>1
  <2>3. \A k \in DOMAIN accepted : accepted'[k] = accepted[k] /\ accepted[k] # x
    BY <1>3, <1>9 DEF Elems
  <2>8. ASSUME NEW p \in Places', NEW h \in DOMAIN accepted', Line'[p] = accepted'[h]
        PROVE  (p \in Places /\ h \in DOMAIN accepted) \/ (p = end /\ h = Len(accepted) + 1)
    <3>1. p \in Places \/ p = end
      BY <1>7
    <3>2. h \in DOMAIN accepted \/ h = Len(accepted) + 1
      BY <1>3, <1>5
    <3>3. Line'[end] = x /\ accepted'[Len(accepted) + 1] = x
      BY <1>3, <1>5
    <3>4. p \in Places => accepted'[h] # x
      BY <2>2, <2>8
    <3>5. h \in DOMAIN accepted => Line'[p] # x
      BY <2>3, <2>8
    <3> QED BY <3>1, <3>2, <3>3, <3>4, <3>5
  <2>4. (m \in Places /\ i \in DOMAIN accepted) \/ (m = end /\ i = Len(accepted) + 1)
    BY <1>11, <2>8
  <2>5. (n \in Places /\ j \in DOMAIN accepted) \/ (n = end /\ j = Len(accepted) + 1)
    BY <1>11, <2>8
  <2>6. CASE m \in Places /\ i \in DOMAIN accepted /\ n \in Places /\ j \in DOMAIN accepted
    BY <1>11, <2>2, <2>3, <2>6 DEF AcceptedConserved
  <2>7. i \in Nat /\ j \in Nat /\ m \in Nat /\ n \in Nat
    BY <1>3, <1>5, <1>6, <1>7
  <2> QED BY <1>3, <1>5, <1>6, <2>2, <2>4, <2>5, <2>6, <2>7
<1> QED BY <1>10, <1>11 DEF AcceptedConserved

\* A flush moves items from the backlog to the wire, and a failed one drops the rest.
LEMMA LineFlushed ==
  ASSUME TypeOK, TypeOK', AcceptedConserved, Alive, NEW n \in 0..Owed, NEW failed \in BOOLEAN,
         Flush(n, failed), UNCHANGED <<dataQ, accepted>>
  PROVE  AcceptedConserved'
<1> DEFINE L == Len(wire)
           P == Len(pending)
           Q == Len(dataQ)
           done == (offset + n) \div 2
           rest == SubSeq(pending, done + 1, P)
           gone == IF failed THEN P ELSE done
<1>1. /\ pending \in Seq(Item) /\ P \in Nat /\ L \in Nat /\ Q \in Nat
      /\ offset \in 0..1 /\ n \in Nat /\ offset + n <= 2 * P
      /\ done \in Nat /\ gone \in Nat /\ done <= gone /\ gone <= P
      /\ 2 * done <= offset + n /\ offset + n <= 2 * done + 1
  <2>1. /\ pending \in Seq(Item) /\ P \in Nat /\ L \in Nat /\ Q \in Nat
        /\ offset \in 0..1 /\ n \in Nat /\ offset + n <= 2 * P
    BY LineHere DEF TypeOK, Owed
  <2>2. /\ done \in Nat /\ done <= P
        /\ 2 * done <= offset + n /\ offset + n <= 2 * done + 1
    BY <2>1
  <2> HIDE DEF done
  <2> QED BY <2>1, <2>2
<1>2. /\ Len(wire') = L + n
      /\ \A k \in 1..L : wire'[k] = wire[k]
      /\ \A k \in 1..n : wire'[L + k] = UnitAt(offset + k)
  BY WrittenUnits
<1>3. /\ Len(rest) = P - done
      /\ \A i \in 1..(P - done) : done + i \in 1..P /\ rest[i] = pending[done + i]
  <2> HIDE DEF done
  <2> QED BY <1>1, QueueRest
<1>4. /\ Len(pending') = P - gone
      /\ \A i \in 1..(P - gone) : pending'[i] = pending[gone + i]
  <2>1. pending' = IF failed THEN <<>> ELSE rest
    BY DEF Flush
  <2> HIDE DEF rest, done
  <2>2. CASE failed
    BY <1>1, <2>1, <2>2
  <2>3. CASE ~failed
    BY <1>1, <1>3, <2>1, <2>3
  <2> QED BY <2>2, <2>3
<1>5. /\ ~failed => lost' = lost
      /\ failed => lost' = lost \cup {item \in Elems(rest) : IsUser(item)}
  BY DEF Flush
<1>6. /\ DOMAIN Line = 1..(L + P + Q)
      /\ \A k \in 1..L : Line[k] = wire[k][1]
      /\ \A k \in 1..P : Line[L + k] = pending[k]
      /\ \A k \in 1..Q : Line[L + P + k] = dataQ[k]
  BY LineSpots
<1>7. /\ DOMAIN Line' = 1..(L + n + (P - gone) + Q)
      /\ \A k \in 1..(L + n) : Line'[k] = wire'[k][1]
      /\ \A k \in 1..(P - gone) : Line'[L + n + k] = pending'[k]
      /\ \A k \in 1..Q : Line'[L + n + (P - gone) + k] = dataQ[k]
  BY <1>2, <1>4, LineSpotsAfter
<1> HIDE DEF L, P, Q, done, rest, gone
(* Where each place was: on the wire, in the backlog, or in the queue.      *)
<1> DEFINE from(k) == IF k <= L THEN k
                      ELSE IF k <= L + n THEN L + (offset + (k - L)) \div 2
                      ELSE k - n + gone
           f == [k \in Places' |-> from(k)]
<1>8. ASSUME NEW i \in 1..n
      PROVE  /\ wire'[L + i][2] = 2 <=> (offset + i) % 2 = 0
             /\ (offset + i) % 2 = 0 =>
                   /\ (offset + i) \div 2 \in 1..done
                   /\ wire'[L + i][1] = pending[(offset + i) \div 2]
  <2>1. PICK m \in Nat : m = offset + i /\ m > 0 /\ m % 2 \in {0, 1} /\ m <= offset + n
    BY <1>1
  <2>2. wire'[L + i] = UnitAt(m)
    BY <1>2, <2>1
  <2>3. CASE m % 2 = 0
    <3>1. UnitAt(m)[2] = 2 /\ UnitAt(m)[1] = pending[m \div 2]
      BY <2>3, UnitsPair
    <3>2. m \div 2 \in 1..done
      BY <1>1, <2>1, <2>3
    <3> QED BY <2>1, <2>2, <2>3, <3>1, <3>2
  <2>4. CASE m % 2 = 1
    <3>1. UnitAt(m)[2] = 1
      BY <2>4, UnitsPair
    <3> QED BY <2>1, <2>2, <2>4, <3>1
  <2> QED BY <2>1, <2>3, <2>4
(* A place on the wire stays; one in the backlog that was written is on the *)
(* wire behind them.                                                       *)
<1>9. ASSUME NEW k \in Places'
      PROVE  \/ k \in 1..L /\ k \in Places /\ Line'[k] = Line[k] /\ from(k) = k
             \/ \E i \in 1..n : /\ k = L + i /\ (offset + i) % 2 = 0
                                /\ from(k) = L + (offset + i) \div 2
                                /\ from(k) \in Places /\ Line'[k] = Line[from(k)]
             \/ /\ k > L + n /\ from(k) = k - n + gone
                /\ from(k) \in Places /\ Line'[k] = Line[from(k)]
  <2>1. k \in DOMAIN Line' /\ IsUser(Line'[k]) /\ (k <= Len(wire') => wire'[k][2] = 2)
    BY <1>9 DEF Places
  <2>2. k \in 1..(L + n + (P - gone) + Q)
    BY <1>7, <2>1
  <2>3. CASE k <= L
    <3>1. k \in 1..L /\ wire'[k] = wire[k] /\ wire[k][2] = 2
      <4>1. k \in 1..L /\ k <= L + n
        BY <1>1, <2>2, <2>3
      <4> QED BY <1>2, <2>1, <4>1
    <3>2. k \in DOMAIN Line /\ k \in 1..(L + n)
      BY <1>1, <1>6, <3>1
    <3>3. Line'[k] = Line[k]
      BY <1>6, <1>7, <3>1, <3>2
    <3>4. k \in Places
      BY <2>1, <3>1, <3>2, <3>3 DEF Places
    <3> QED BY <2>3, <3>1, <3>3, <3>4
  <2>4. CASE k > L /\ k <= L + n
    <3>1. PICK i \in 1..n : k = L + i /\ k - L = i
      <4>1. k - L \in 1..n /\ k = L + (k - L)
        BY <1>1, <2>2, <2>4
      <4> QED BY <4>1
    <3>2. (offset + i) % 2 = 0
      BY <1>2, <1>8, <2>1, <2>4, <3>1
    <3>3. PICK j \in 1..done : j = (offset + i) \div 2 /\ wire'[k][1] = pending[j]
      BY <1>8, <3>1, <3>2
    <3>4. from(k) = L + j
      BY <1>1, <2>4, <3>1, <3>3
    <3>5. Line'[k] = pending[j]
      BY <1>7, <2>2, <2>4, <3>3
    <3>6. j \in 1..P /\ L + j \in DOMAIN Line /\ ~(L + j <= L)
      BY <1>1, <1>6, <3>3
    <3>7. Line[L + j] = Line'[k]
      BY <1>6, <3>5, <3>6
    <3>8. L + j \in Places
      BY <2>1, <3>6, <3>7 DEF Places, L
    <3> HIDE DEF from
    <3> QED BY <3>1, <3>2, <3>3, <3>4, <3>7, <3>8
  <2>5. CASE k > L + n
    <3>1. from(k) = k - n + gone
      BY <1>1, <2>2, <2>5
    <3>2. from(k) \in DOMAIN Line /\ ~(from(k) <= L) /\ Line'[k] = Line[from(k)]
      <4>1. CASE k <= L + n + (P - gone)
        <5>1. PICK j \in 1..(P - gone) : k = L + n + j
          <6>1. k - (L + n) \in 1..(P - gone) /\ k = L + n + (k - (L + n))
            BY <1>1, <2>2, <2>5, <4>1
          <6> QED BY <6>1
        <5>2. from(k) = L + (gone + j) /\ gone + j \in 1..P
          BY <1>1, <3>1, <5>1
        <5>3. Line'[k] = pending[gone + j]
          BY <1>4, <1>7, <5>1
        <5>4. PICK i \in 1..P : from(k) = L + i /\ i = gone + j
          BY <5>2
        <5>5. L + i \in DOMAIN Line /\ ~(L + i <= L)
          BY <1>1, <1>6
        <5> HIDE DEF from
        <5> QED BY <1>6, <5>3, <5>4, <5>5
      <4>2. CASE k > L + n + (P - gone)
        <5>1. PICK j \in 1..Q : k = L + n + (P - gone) + j
          <6>1. k - (L + n + (P - gone)) \in 1..Q
                /\ k = L + n + (P - gone) + (k - (L + n + (P - gone)))
            BY <1>1, <2>2, <4>2
          <6> QED BY <6>1
        <5>2. from(k) = L + P + j
          BY <1>1, <3>1, <5>1
        <5>3. Line'[k] = dataQ[j]
          BY <1>7, <5>1
        <5>4. L + P + j \in DOMAIN Line /\ ~(L + P + j <= L)
          BY <1>1, <1>6
        <5> HIDE DEF from
        <5> QED BY <1>6, <5>2, <5>3, <5>4
      <4> QED BY <1>1, <2>2, <4>1, <4>2
    <3> HIDE DEF from
    <3>3. from(k) \in Places
      BY <2>1, <3>2 DEF Places, L
    <3> QED BY <2>5, <3>1, <3>2, <3>3
  <2> QED BY <1>1, <2>2, <2>3, <2>4, <2>5
<1>10. \A k \in Places' : k \in Nat
  BY <1>1, <1>7 DEF Places
<1>11. ASSUME NEW k \in Places', NEW h \in Places'
       PROVE  k < h <=> from(k) < from(h)
  <2> HIDE DEF from
  <2>1. ASSUME NEW x \in Places', NEW y \in Places', x < y
        PROVE  from(x) < from(y)
    <3>1. CASE x > L + n
      BY <1>1, <1>9, <1>10, <2>1, <3>1
    <3>2. CASE x <= L
      BY <1>1, <1>9, <1>10, <2>1, <3>2
    <3>3. CASE x > L /\ x <= L + n
      <4>1. PICK i \in 1..n : x = L + i /\ (offset + i) % 2 = 0
                              /\ from(x) = L + (offset + i) \div 2
        <5>1. x \notin 1..L /\ ~(x > L + n)
          BY <1>1, <1>10, <3>3
        <5> QED BY <1>9, <5>1
      <4>2. (offset + i) \div 2 \in 1..done
        BY <1>8, <4>1
      <4>3. CASE y > L + n
        BY <1>1, <1>9, <1>10, <4>1, <4>2, <4>3
      <4>4. CASE y <= L + n
        <5>1. PICK j \in 1..n : y = L + j /\ (offset + j) % 2 = 0
                                /\ from(y) = L + (offset + j) \div 2
          <6>1. y \notin 1..L /\ ~(y > L + n)
            BY <1>1, <1>10, <2>1, <3>3, <4>4
          <6> QED BY <1>9, <6>1
        <5>2. i < j
          BY <1>1, <2>1, <4>1, <5>1
        <5>3. (offset + i) \div 2 < (offset + j) \div 2
          BY <1>1, <4>1, <5>1, <5>2
        <5>4. (offset + i) \div 2 \in Nat /\ (offset + j) \div 2 \in Nat
          BY <1>1
        <5> QED BY <1>1, <4>1, <5>1, <5>3, <5>4
      <4> QED BY <1>1, <1>10, <4>3, <4>4
    <3> QED BY <1>1, <1>10, <3>1, <3>2, <3>3
  <2>2. k \in Nat /\ h \in Nat /\ from(k) \in Nat /\ from(h) \in Nat
    BY <1>9, <1>10, LineHere
  <2> QED BY <2>1, <2>2
(* What has no place any more is what a failed write dropped.              *)
<1>12. ASSUME NEW m \in Places
       PROVE  \/ \E k \in Places' : from(k) = m
              \/ failed /\ \E i \in 1..P : m = L + i /\ i > done
  <2>1. /\ m \in 1..(L + P + Q) /\ IsUser(Line[m]) /\ (m <= L => wire[m][2] = 2)
    BY <1>6 DEF Places, L
  <2>2. CASE m <= L
    <3>1. m \in 1..L /\ m \in 1..(L + n) /\ wire'[m] = wire[m]
      BY <1>1, <1>2, <2>1, <2>2
    <3>2. m \in DOMAIN Line' /\ Line'[m] = Line[m]
      <4>1. m \in DOMAIN Line'
        BY <1>1, <1>7, <3>1
      <4>2. Line'[m] = wire'[m][1] /\ Line[m] = wire[m][1]
        BY <1>6, <1>7, <3>1
      <4> QED BY <3>1, <4>1, <4>2
    <3>3. m \in Places'
      BY <2>1, <2>2, <3>1, <3>2 DEF Places
    <3> QED BY <2>2, <3>3
  <2>3. CASE m > L /\ m <= L + P
    <3>1. PICK i \in 1..P : m = L + i
      <4>1. m - L \in 1..P /\ m = L + (m - L)
        BY <1>1, <2>1, <2>3
      <4> QED BY <4>1
    <3>2. Line[m] = pending[i]
      BY <1>6, <3>1
    <3>3. CASE i <= done
      <4>1. PICK h \in 1..n : h = 2 * i - offset /\ offset + h = 2 * i
        <5>1. 2 * i - offset \in 1..n /\ offset + (2 * i - offset) = 2 * i
          BY <1>1, <3>3
        <5> QED BY <5>1
      <4>2. (offset + h) % 2 = 0 /\ (offset + h) \div 2 = i
        BY <4>1
      <4>3. wire'[L + h][2] = 2 /\ wire'[L + h][1] = pending[i]
        BY <1>8, <4>2
      <4>4. L + h \in 1..(L + n) /\ L + h \in DOMAIN Line'
        BY <1>1, <1>7
      <4>5. Line'[L + h] = Line[m]
        BY <1>7, <3>2, <4>3, <4>4
      <4>6. L + h \in Places'
        BY <2>1, <4>3, <4>4, <4>5 DEF Places
      <4>7. from(L + h) = m
        BY <1>1, <3>1, <4>2
      <4> QED BY <4>6, <4>7
    <3>4. CASE i > done /\ ~failed
      <4>1. gone = done
        BY <3>4 DEF gone
      <4>2. PICK j \in 1..(P - gone) : i = gone + j
        <5>1. i - gone \in 1..(P - gone) /\ i = gone + (i - gone)
          BY <1>1, <3>4, <4>1
        <5> QED BY <5>1
      <4>3. Line'[L + n + j] = Line[m]
        BY <1>4, <1>7, <3>2, <4>2
      <4>4. L + n + j \in DOMAIN Line' /\ ~(L + n + j <= L + n) /\ ~(L + n + j <= L)
        BY <1>1, <1>7
      <4>5. L + n + j \in Places'
        BY <1>2, <2>1, <4>3, <4>4 DEF Places
      <4>6. from(L + n + j) = m
        BY <1>1, <3>1, <4>2, <4>4
      <4> QED BY <4>5, <4>6
    <3> QED BY <1>1, <3>1, <3>3, <3>4
  <2>4. CASE m > L + P
    <3>1. PICK j \in 1..Q : m = L + P + j
      <4>1. m - (L + P) \in 1..Q /\ m = L + P + (m - (L + P))
        BY <1>1, <2>1, <2>4
      <4> QED BY <4>1
    <3> DEFINE k == L + n + (P - gone) + j
    <3>2. Line'[k] = Line[m]
      BY <1>6, <1>7, <3>1
    <3>3. k \in DOMAIN Line' /\ ~(k <= L + n) /\ ~(k <= L)
      BY <1>1, <1>7
    <3>4. from(k) = m
      BY <1>1, <3>1, <3>3
    <3> HIDE DEF k
    <3>5. k \in Places'
      BY <1>2, <2>1, <3>2, <3>3 DEF Places
    <3> QED BY <3>4, <3>5
  <2> QED BY <1>1, <2>1, <2>2, <2>3, <2>4
<1>13. ASSUME NEW i \in 1..P, i > done, failed, L + i \in Places
       PROVE  Line[L + i] \in lost'
  <2>1. i - done \in 1..(P - done) /\ done + (i - done) = i
    BY <1>1, <1>13
  <2>2. rest[i - done] = pending[i] /\ i - done \in DOMAIN rest
    <3>1. rest[i - done] = pending[i]
      BY <1>3, <2>1
    <3>2. DOMAIN rest = 1..Len(rest)
      BY <1>1 DEF rest
    <3> QED BY <1>3, <2>1, <3>1, <3>2
  <2>3. pending[i] \in Elems(rest) /\ IsUser(Line[L + i]) /\ Line[L + i] = pending[i]
    BY <1>6, <1>13, <2>2 DEF Elems, Places
  <2> QED BY <1>5, <1>13, <2>3
<1>14. ASSUME NEW k \in Places'
       PROVE  from(k) \in Places /\ Line'[k] = Line[from(k)] /\ Line[from(k)] \notin lost'
  <2> HIDE DEF from
  <2>1. from(k) \in Places /\ Line'[k] = Line[from(k)]
    BY <1>9
  <2>2. Line[from(k)] \notin lost
    BY <2>1, PlacesApart
  <2>3. CASE ~failed
    BY <1>5, <2>1, <2>2, <2>3
  <2>4. CASE failed
    <3>1. ASSUME Line[from(k)] \in lost'
          PROVE  FALSE
      <4>1. Line[from(k)] \in Elems(rest) /\ IsUser(Line[from(k)])
        BY <1>5, <2>2, <2>4, <3>1
      <4>2. PICK j \in 1..(P - done) : Line[from(k)] = rest[j]
        <5>1. DOMAIN rest = 1..(P - done)
          BY <1>1, <1>3 DEF rest
        <5> QED BY <4>1, <5>1 DEF Elems
      <4>3. /\ done + j \in 1..P /\ Line[L + (done + j)] = Line[from(k)]
            /\ L + (done + j) \in DOMAIN Line /\ ~(L + (done + j) <= L)
        <5>1. done + j \in 1..P /\ rest[j] = pending[done + j]
          BY <1>3
        <5>2. Line[L + (done + j)] = pending[done + j]
          BY <1>6, <5>1
        <5> QED BY <1>1, <1>6, <4>2, <5>1, <5>2
      <4>4. L + (done + j) \in Places
        BY <4>1, <4>3 DEF Places, L
      <4>5. from(k) = L + (done + j)
        BY <2>1, <4>3, <4>4, PlacesApart
      <4>6. gone = P
        BY <2>4 DEF gone
      <4>7. from(k) > L /\ from(k) <= L + P
        BY <1>1, <4>3, <4>5
      <4>8. CASE k \in 1..L /\ from(k) = k
        BY <1>1, <4>7, <4>8
      <4>9. CASE \E i \in 1..n : (offset + i) % 2 = 0 /\ from(k) = L + (offset + i) \div 2
        <5>1. PICK i \in 1..n : (offset + i) % 2 = 0 /\ from(k) = L + (offset + i) \div 2
          BY <4>9
        <5>2. (offset + i) \div 2 \in 1..done
          BY <1>8, <5>1
        <5> QED BY <1>1, <4>2, <4>5, <5>1, <5>2
      <4>10. CASE k > L + n /\ from(k) = k - n + gone
        BY <1>1, <1>10, <4>6, <4>7, <4>10
      <4> QED BY <1>9, <4>8, <4>9, <4>10
    <3> QED BY <2>1, <3>1
  <2> QED BY <2>3, <2>4
<1>15. \A k \in Places' : f[k] = from(k)
  OBVIOUS
<1> HIDE DEF f, from
<1>16. lost \subseteq lost'
  BY <1>5
<1>17. \A k \in Places' : f[k] \in Places /\ Line'[k] = Line[f[k]] /\ Line[f[k]] \notin lost'
  BY <1>14, <1>15
<1>18. \A k, h \in Places' : k < h <=> f[k] < f[h]
  BY <1>11, <1>15
<1>19. \A m \in Places : Line[m] \in lost' \/ \E k \in Places' : f[k] = m
  BY <1>12, <1>13, <1>15
<1> QED BY <1>16, <1>17, <1>18, <1>19, LineCarried

\* Two places in the backlog or the queue are the same when both lines are.
LEMMA SameLine ==
  ASSUME TypeOK, TypeOK', UNCHANGED wire,
         Len(pending') + Len(dataQ') >= Len(pending) + Len(dataQ),
         \A k \in 1..(Len(pending) + Len(dataQ)) :
            Line'[Len(wire) + k] = Line[Len(wire) + k],
         \A k \in 1..(Len(pending') + Len(dataQ')) :
            k > Len(pending) + Len(dataQ) => ~IsUser(Line'[Len(wire) + k])
  PROVE  Places' = Places /\ \A k \in Places : Line'[k] = Line[k]
<1> DEFINE L == Len(wire)
           R == Len(pending) + Len(dataQ)
           S == Len(pending') + Len(dataQ')
<1>1. L \in Nat /\ R \in Nat /\ S \in Nat /\ S >= R
  BY DEF TypeOK
<1>2. DOMAIN Line = 1..(L + R) /\ \A k \in 1..L : Line[k] = wire[k][1]
  BY LineSpots
<1>3. DOMAIN Line' = 1..(L + S) /\ \A k \in 1..L : Line'[k] = wire[k][1]
  <2>1. L + S = Len(wire) + Len(pending') + Len(dataQ')
    BY LineSpotsAfter, LineHere
  <2> QED BY <2>1, LineSpotsAfter
<1> HIDE DEF L, R, S
<1>4. ASSUME NEW k \in 1..(L + R)
      PROVE  Line'[k] = Line[k]
  <2>1. CASE k <= L
    BY <1>1, <1>2, <1>3, <2>1
  <2>2. CASE k > L
    <3>1. k - L \in 1..R /\ L + (k - L) = k
      BY <1>1, <2>2
    <3> QED BY <3>1 DEF L, R
  <2> QED BY <1>1, <2>1, <2>2
<1>5. ASSUME NEW k \in 1..(L + S), k > L + R
      PROVE  ~IsUser(Line'[k])
  <2>1. k - L \in 1..S /\ L + (k - L) = k /\ k - L > R
    BY <1>1, <1>5
  <2> QED BY <2>1 DEF L, R, S
<1>6. 1..(L + R) \subseteq 1..(L + S)
  BY <1>1
<1>7. \A k \in 1..(L + S) : k \in 1..(L + R) \/ k > L + R
  BY <1>1
<1>8. ASSUME NEW k
      PROVE  k \in Places' <=> k \in Places
  <2>1. k \in Places <=> k \in 1..(L + R) /\ IsUser(Line[k]) /\ (k <= Len(wire) => wire[k][2] = 2)
    BY <1>2 DEF Places
  <2>2. k \in Places' <=> k \in 1..(L + S) /\ IsUser(Line'[k]) /\ (k <= Len(wire) => wire[k][2] = 2)
    BY <1>3 DEF Places
  <2> QED BY <1>4, <1>5, <1>6, <1>7, <2>1, <2>2
<1>9. \A k \in Places : k \in 1..(L + R)
  BY <1>2 DEF Places
<1> QED BY <1>4, <1>8, <1>9

\* The answers to a resize and what a read brings are put behind the backlog.
LEMMA LineApplied ==
  ASSUME TypeOK, TypeOK', AcceptedConserved, Alive, UNCHANGED <<wire, accepted, lost>>,
         ApplyControls(pending \o dataQ), dataQ' = <<>>
  PROVE  AcceptedConserved'
<1> DEFINE queue == pending \o dataQ
           P == Len(pending)
           Q == Len(dataQ)
<1>1. pending \in Seq(Item) /\ dataQ \in Seq(Item) /\ P \in Nat /\ Q \in Nat
  BY LineHere
<1>2. /\ queue \in Seq(Item) /\ Len(queue) = P + Q
      /\ \A k \in 1..P : queue[k] = pending[k]
      /\ \A k \in 1..Q : queue[P + k] = dataQ[k]
  BY <1>1, QueueConcat
<1> HIDE DEF queue
<1>3. Response(0) \in Item /\ ~IsUser(Response(0))
  BY ConstantsAssumption DEF Response, Item, IsUser
<1>4. pending' = queue \/ pending' = Append(queue, Response(0))
  BY DEF ApplyControls, queue
<1>5. /\ Len(pending') \in {P + Q, P + Q + 1}
      /\ \A k \in 1..(P + Q) : pending'[k] = queue[k]
      /\ Len(pending') = P + Q + 1 => ~IsUser(pending'[P + Q + 1])
  <2>1. /\ Len(Append(queue, Response(0))) = P + Q + 1
        /\ \A k \in 1..(P + Q) : Append(queue, Response(0))[k] = queue[k]
        /\ Append(queue, Response(0))[P + Q + 1] = Response(0)
    BY <1>2, <1>3, QueueAppend
  <2>2. CASE pending' = queue
    BY <1>1, <1>2, <2>2
  <2>3. CASE pending' = Append(queue, Response(0))
    BY <1>3, <2>1, <2>3
  <2> QED BY <1>4, <2>2, <2>3
<1>6. /\ \A k \in 1..P : Line[Len(wire) + k] = pending[k]
      /\ \A k \in 1..Q : Line[Len(wire) + P + k] = dataQ[k]
  BY LineSpots
<1>7. \A k \in 1..Len(pending') : Line'[Len(wire) + k] = pending'[k]
  BY LineSpotsAfter
<1>8. ASSUME NEW k \in 1..(P + Q)
      PROVE  Line'[Len(wire) + k] = Line[Len(wire) + k]
  <2>1. Line'[Len(wire) + k] = queue[k]
    BY <1>1, <1>5, <1>7
  <2>2. CASE k <= P
    <3>1. k \in 1..P
      BY <1>1, <2>2
    <3> QED BY <1>2, <1>6, <2>1, <3>1
  <2>3. CASE k > P
    <3>1. PICK j \in 1..Q : k = P + j
      <4>1. k - P \in 1..Q /\ k = P + (k - P)
        BY <1>1, <2>3
      <4> QED BY <4>1
    <3>2. Len(wire) + k = Len(wire) + P + j
      BY <1>1, <3>1 DEF TypeOK
    <3> QED BY <1>2, <1>6, <2>1, <3>1, <3>2
  <2> QED BY <1>1, <2>2, <2>3
<1>9. \A k \in 1..(Len(pending') + Len(dataQ')) :
          k > P + Q => ~IsUser(Line'[Len(wire) + k])
  <2>1. Len(dataQ') = 0
    OBVIOUS
  <2>2. \A k \in 1..Len(pending') : k > P + Q => k = P + Q + 1 /\ Len(pending') = P + Q + 1
    BY <1>1, <1>5
  <2>3. Len(pending') + Len(dataQ') = Len(pending')
    BY <1>1, <1>5, <2>1
  <2> QED BY <1>5, <1>7, <2>2, <2>3
<1>10. Len(pending') + Len(dataQ') >= P + Q
  BY <1>1, <1>5
<1> QED BY <1>8, <1>9, <1>10, SameLine, LineStays

\* An item goes from the queue's front to the backlog's end.
LEMMA LineTaken ==
  ASSUME TypeOK, TypeOK', AcceptedConserved, Alive, UNCHANGED <<wire, accepted, lost>>,
         dataQ # <<>>, dataQ' = Tail(dataQ), pending' = Append(pending, Head(dataQ))
  PROVE  AcceptedConserved'
<1> DEFINE P == Len(pending)
           Q == Len(dataQ)
<1>1. pending \in Seq(Item) /\ dataQ \in Seq(Item) /\ P \in Nat /\ Q \in Nat /\ Len(wire) \in Nat
  BY LineHere
<1>2. /\ Q >= 1 /\ Head(dataQ) = dataQ[1] /\ dataQ[1] \in Item
      /\ Len(dataQ') = Q - 1 /\ \A k \in 1..(Q - 1) : dataQ'[k] = dataQ[k + 1]
  BY <1>1, QueueTail, QueueElement
<1>3. /\ Len(pending') = P + 1 /\ pending'[P + 1] = dataQ[1]
      /\ \A k \in 1..P : pending'[k] = pending[k]
  BY <1>1, <1>2, QueueAppend
<1>4. /\ \A k \in 1..P : Line[Len(wire) + k] = pending[k]
      /\ \A k \in 1..Q : Line[Len(wire) + P + k] = dataQ[k]
  BY LineSpots
<1>5. /\ \A k \in 1..(P + 1) : Line'[Len(wire) + k] = pending'[k]
      /\ \A k \in 1..(Q - 1) : Line'[Len(wire) + (P + 1) + k] = dataQ'[k]
  BY <1>2, <1>3, LineSpotsAfter
<1>6. ASSUME NEW k \in 1..(P + Q)
      PROVE  Line'[Len(wire) + k] = Line[Len(wire) + k]
  <2>1. CASE k <= P
    <3>1. k \in 1..P /\ k \in 1..(P + 1)
      BY <1>1, <2>1
    <3> QED BY <1>3, <1>4, <1>5, <3>1
  <2>2. CASE k = P + 1
    <3>1. 1 \in 1..Q /\ Len(wire) + P + 1 = Len(wire) + k
      BY <1>1, <1>2, <2>2
    <3>2. Line[Len(wire) + k] = dataQ[1]
      BY <1>4, <3>1
    <3>3. Line'[Len(wire) + k] = pending'[P + 1]
      <4>1. k \in 1..(P + 1)
        BY <1>1, <2>2
      <4> QED BY <1>5, <2>2, <4>1
    <3> QED BY <1>3, <3>2, <3>3
  <2>3. CASE k > P + 1
    <3>1. PICK j \in 1..(Q - 1) : /\ k = P + 1 + j /\ j + 1 \in 1..Q
                                  /\ Len(wire) + (P + 1) + j = Len(wire) + k
                                  /\ Len(wire) + P + (j + 1) = Len(wire) + k
      <4>1. /\ k - (P + 1) \in 1..(Q - 1) /\ k = P + 1 + (k - (P + 1))
            /\ (k - (P + 1)) + 1 \in 1..Q
            /\ Len(wire) + (P + 1) + (k - (P + 1)) = Len(wire) + k
            /\ Len(wire) + P + ((k - (P + 1)) + 1) = Len(wire) + k
        BY <1>1, <2>3
      <4> QED BY <4>1
    <3>2. Line'[Len(wire) + k] = dataQ'[j]
      BY <1>5, <3>1
    <3>3. Line[Len(wire) + k] = dataQ[j + 1]
      BY <1>4, <3>1
    <3> QED BY <1>2, <3>1, <3>2, <3>3
  <2> QED BY <1>1, <2>1, <2>2, <2>3
<1>7. Len(pending') + Len(dataQ') = P + Q
  BY <1>1, <1>2, <1>3
<1>8. \A k \in 1..(P + Q) : ~(k > P + Q)
  BY <1>1
<1> QED BY <1>1, <1>6, <1>7, <1>8, SameLine, LineStays

\* What a read brings goes behind the backlog, and the queue moves back by as much.
LEMMA LineRead ==
  ASSUME TypeOK, TypeOK', AcceptedConserved, Alive, UNCHANGED <<wire, dataQ, accepted, lost>>,
         NEW e \in Item, ~IsUser(e), pending' = Append(pending, e)
  PROVE  AcceptedConserved'
<1> DEFINE M == Len(wire) + Len(pending)
           Q == Len(dataQ)
           from(k) == IF k <= M THEN k ELSE k - 1
           f == [k \in Places' |-> from(k)]
<1>1. /\ pending \in Seq(Item) /\ dataQ \in Seq(Item) /\ Len(pending) \in Nat /\ Q \in Nat
      /\ Len(wire) \in Nat /\ M \in Nat /\ Len(wire) <= M
  BY LineHere
<1>2. /\ Len(pending') = Len(pending) + 1 /\ pending'[Len(pending) + 1] = e
      /\ \A k \in 1..Len(pending) : pending'[k] = pending[k]
  BY <1>1, QueueAppend
<1>3. /\ DOMAIN Line = 1..(M + Q)
      /\ \A k \in 1..Len(wire) : Line[k] = wire[k][1]
      /\ \A k \in 1..Len(pending) : Line[Len(wire) + k] = pending[k]
      /\ \A k \in 1..Q : Line[M + k] = dataQ[k]
  BY LineSpots
<1>4. /\ DOMAIN Line' = 1..(M + 1 + Q)
      /\ \A k \in 1..Len(wire) : Line'[k] = wire[k][1]
      /\ \A k \in 1..(Len(pending) + 1) : Line'[Len(wire) + k] = pending'[k]
      /\ \A k \in 1..Q : Line'[M + 1 + k] = dataQ[k]
  <2>1. Len(wire') + Len(pending') = M + 1 /\ wire' = wire /\ dataQ' = dataQ
    BY <1>1, <1>2
  <2> HIDE DEF M
  <2> QED BY <1>2, <2>1, LineSpotsAfter
<1>5. ASSUME NEW k \in 1..M
      PROVE  Line'[k] = Line[k]
  <2>1. CASE k <= Len(wire)
    BY <1>1, <1>3, <1>4, <2>1
  <2>2. CASE k > Len(wire)
    <3>1. PICK j \in 1..Len(pending) : k = Len(wire) + j
      <4>1. k - Len(wire) \in 1..Len(pending) /\ k = Len(wire) + (k - Len(wire))
        BY <1>1, <2>2
      <4> QED BY <4>1
    <3>2. j \in 1..(Len(pending) + 1)
      BY <1>1
    <3> QED BY <1>2, <1>3, <1>4, <3>1, <3>2
  <2> QED BY <1>1, <2>1, <2>2
<1>6. ~IsUser(Line'[M + 1])
  <2>1. Len(pending) + 1 \in 1..(Len(pending) + 1) /\ Len(wire) + (Len(pending) + 1) = M + 1
    BY <1>1
  <2> QED BY <1>2, <1>4, <2>1
<1>7. ASSUME NEW k \in (M + 1)..(M + Q)
      PROVE  Line'[k + 1] = Line[k]
  <2>1. PICK j \in 1..Q : k = M + j /\ k + 1 = M + 1 + j
    <3>1. k - M \in 1..Q /\ k = M + (k - M) /\ k + 1 = M + 1 + (k - M)
      BY <1>1
    <3> QED BY <3>1
  <2> QED BY <1>3, <1>4, <2>1
<1>8. DOMAIN Line = 1..(M + Q) /\ DOMAIN Line' = 1..(M + 1 + Q)
  BY <1>3, <1>4
<1> HIDE DEF M, Q
<1>9. ASSUME NEW k \in Places'
      PROVE  from(k) \in Places /\ Line'[k] = Line[from(k)] /\ k # M + 1 /\ k \in Nat
  <2>1. k \in 1..(M + 1 + Q) /\ IsUser(Line'[k]) /\ (k <= Len(wire) => wire[k][2] = 2)
    BY <1>8 DEF Places
  <2>2. k # M + 1
    BY <1>6, <2>1
  <2>3. CASE k <= M
    <3>1. k \in 1..M /\ k \in 1..(M + Q)
      BY <1>1, <2>1, <2>3
    <3>2. Line'[k] = Line[k]
      BY <1>5, <3>1
    <3> QED BY <1>8, <2>1, <2>2, <2>3, <3>1, <3>2 DEF Places
  <2>4. CASE k > M
    <3>1. PICK h \in (M + 1)..(M + Q) : k = h + 1 /\ h = k - 1
      <4>1. k - 1 \in (M + 1)..(M + Q) /\ k = (k - 1) + 1
        BY <1>1, <2>1, <2>2, <2>4
      <4> QED BY <4>1
    <3>2. Line'[k] = Line[h] /\ from(k) = h
      BY <1>1, <1>7, <2>1, <2>4, <3>1
    <3>3. h \in DOMAIN Line /\ ~(h <= Len(wire))
      BY <1>1, <1>8
    <3> HIDE DEF from
    <3>4. h \in Places
      BY <2>1, <3>2, <3>3 DEF Places
    <3> QED BY <2>1, <2>2, <3>2, <3>4
  <2> QED BY <1>1, <2>1, <2>3, <2>4
<1>10. ASSUME NEW m \in Places
       PROVE  \E k \in Places' : from(k) = m
  <2>1. m \in 1..(M + Q) /\ IsUser(Line[m]) /\ (m <= Len(wire) => wire[m][2] = 2)
    BY <1>8 DEF Places
  <2>2. CASE m <= M
    <3>1. m \in 1..M /\ m \in DOMAIN Line'
      BY <1>1, <1>8, <2>1, <2>2
    <3>2. Line'[m] = Line[m]
      BY <1>5, <3>1
    <3>3. m \in Places'
      BY <2>1, <3>1, <3>2 DEF Places
    <3> QED BY <2>2, <3>3
  <2>3. CASE m > M
    <3>1. m \in (M + 1)..(M + Q) /\ m + 1 \in DOMAIN Line' /\ ~(m + 1 <= Len(wire))
          /\ from(m + 1) = m
      BY <1>1, <1>8, <2>1, <2>3
    <3>2. Line'[m + 1] = Line[m]
      BY <1>7, <3>1
    <3>3. m + 1 \in Places'
      BY <2>1, <3>1, <3>2 DEF Places
    <3> QED BY <3>1, <3>3
  <2> QED BY <1>1, <2>1, <2>2, <2>3
<1>11. \A k, h \in Places' : k < h <=> from(k) < from(h)
  BY <1>1, <1>9
<1>12. \A k \in Places' : f[k] = from(k)
  OBVIOUS
<1> HIDE DEF f, from
<1>13. \A k \in Places' : f[k] \in Places /\ Line'[k] = Line[f[k]] /\ Line[f[k]] \notin lost'
  BY <1>9, <1>12, PlacesApart
<1>14. \A k, h \in Places' : k < h <=> f[k] < f[h]
  BY <1>11, <1>12
<1>15. \A m \in Places : \E k \in Places' : f[k] = m
  BY <1>10, <1>12
<1> QED BY <1>13, <1>14, <1>15, LineCarried

\* Numbers in use: what a push adds, and what it needs.
LEMMA KeptPush ==
  ASSUME TypeOK, TypeOK', KeptInv, NEW w \in Writers, Push(w),
         <<w, sent'[w]>> \notin Elems(accepted), wpc'[w] = "idle",
         \A v \in Writers : sent'[v] >= sent[v],
         \A v \in Writers \ {w} : sent'[v] = sent[v] /\ wpc'[v] = wpc[v],
         UNCHANGED <<wire, pending, lost, pc, state>>
  PROVE  KeptInv'
<1>1. lost \subseteq Elems(accepted)
  BY DEF KeptInv
<1>2. AcceptedConserved'
  BY <1>1, LinePush DEF KeptInv
<1>3. /\ Len(accepted) \in Nat /\ DOMAIN accepted = 1..Len(accepted)
      /\ DOMAIN accepted' = 1..(Len(accepted) + 1)
      /\ \A i \in DOMAIN accepted : accepted'[i] = accepted[i]
      /\ accepted'[Len(accepted) + 1] = <<w, sent'[w]>>
  <2>1. accepted \in Seq(Writers \X Nat) /\ <<w, sent'[w]>> \in Writers \X Nat
    BY DEF TypeOK
  <2> QED BY <2>1, QueueAppend DEF Push
<1>4. Elems(accepted') = Elems(accepted) \cup {<<w, sent'[w]>>}
  <2> DEFINE x == <<w, sent'[w]>>
             last == Len(accepted) + 1
  <2>1. /\ DOMAIN accepted' = DOMAIN accepted \cup {last}
        /\ \A i \in DOMAIN accepted : accepted'[i] = accepted[i]
        /\ accepted'[last] = x
    BY <1>3
  <2> HIDE DEF x, last
  <2>2. Elems(accepted') = Elems(accepted) \cup {x}
    BY <2>1 DEF Elems
  <2> QED BY <2>2 DEF x
<1>5. \A i \in DOMAIN accepted' : accepted'[i][2] <= sent'[accepted'[i][1]]
  <2>1. ASSUME NEW i \in DOMAIN accepted
        PROVE  accepted[i][2] <= sent'[accepted[i][1]]
    <3>1. accepted[i] \in Writers \X Nat
      BY DEF TypeOK
    <3>2. sent[accepted[i][1]] \in Nat /\ sent'[accepted[i][1]] \in Nat
      BY <3>1 DEF TypeOK
    <3> QED BY <3>1, <3>2 DEF KeptInv
  <2>2. sent'[w] \in Nat
    BY DEF TypeOK
  <2>3. ASSUME NEW i \in DOMAIN accepted'
        PROVE  accepted'[i][2] <= sent'[accepted'[i][1]]
    <3>1. i \in DOMAIN accepted \/ i = Len(accepted) + 1
      BY <1>3
    <3> QED BY <1>3, <2>1, <2>2, <3>1
  <2> QED BY <2>3
<1>6. \A v \in Writers : wpc'[v] # "idle" => <<v, sent'[v]>> \notin Elems(accepted')
  BY <1>4 DEF KeptInv
<1>7. lost' \subseteq Elems(accepted')
  BY <1>1, <1>4
<1> QED BY <1>2, <1>5, <1>6, <1>7 DEF KeptInv

LEMMA FreshNumber ==
  ASSUME TypeOK, KeptInv, NEW w \in Writers
  PROVE  <<w, sent[w] + 1>> \notin Elems(accepted)
<1> SUFFICES ASSUME NEW i \in DOMAIN accepted, accepted[i] = <<w, sent[w] + 1>>
             PROVE  FALSE
  BY DEF Elems
<1>1. sent[w] + 1 <= sent[w]
  BY DEF KeptInv
<1> QED BY <1>1 DEF TypeOK

\* The line is not touched; numbers may be taken, but none is used.
LEMMA KeptNumber ==
  ASSUME TypeOK, TypeOK', KeptInv, UNCHANGED <<accepted, lost, wire, pending, dataQ, pc, state>>,
         \A v \in Writers :
            /\ sent'[v] >= sent[v]
            /\ wpc'[v] # "idle" => <<v, sent'[v]>> \notin Elems(accepted)
  PROVE  KeptInv'
<1>1. Line' = Line /\ Places' = Places
  BY DEF Line, Places
<1>2. AcceptedConserved'
  BY <1>1 DEF KeptInv, AcceptedConserved
<1>3. ASSUME NEW i \in DOMAIN accepted
      PROVE  accepted[i][2] <= sent'[accepted[i][1]]
  <2>1. accepted[i] \in Writers \X Nat
    BY DEF TypeOK
  <2>2. sent[accepted[i][1]] \in Nat /\ sent'[accepted[i][1]] \in Nat
    BY <2>1 DEF TypeOK
  <2>3. accepted[i][2] <= sent[accepted[i][1]] /\ sent'[accepted[i][1]] >= sent[accepted[i][1]]
    BY <2>1 DEF KeptInv
  <2>4. accepted[i][2] \in Nat
    BY <2>1
  <2> QED BY <2>2, <2>3, <2>4
<1> QED BY <1>2, <1>3 DEF KeptInv, Elems

LEMMA KeptWriter == TypeOK /\ TypeOK' /\ KeptInv /\ Writer => KeptInv'
<1> SUFFICES ASSUME TypeOK, TypeOK', KeptInv, NEW w \in Writers,
                    TryWrite(w) \/ CheckGate(w) \/ Reserve(w) \/ SendPermit(w)
             PROVE  KeptInv'
  BY DEF Writer
<1>1. UNCHANGED <<wire, pending, lost, pc, state>>
  BY DEF TryWrite, CheckGate, Reserve, SendPermit, WriterFrame, writeVars
<1>2. sent \in [Writers -> Nat] /\ wpc \in [Writers -> {"idle", "reserving", "permit"}]
  BY DEF TypeOK
<1>3. CASE TryWrite(w)
  <2>1. /\ wpc' = wpc /\ wpc[w] = "idle" /\ sent' = [sent EXCEPT ![w] = @ + 1]
        /\ Push(w) \/ UNCHANGED <<dataQ, accepted>>
    BY <1>3 DEF TryWrite
  <2>2. /\ sent'[w] = sent[w] + 1 /\ \A v \in Writers : sent'[v] >= sent[v]
        /\ \A v \in Writers \ {w} : sent'[v] = sent[v]
    BY <1>2, <2>1
  <2>3. CASE Push(w)
    <3>1. <<w, sent'[w]>> \notin Elems(accepted)
      BY <2>2, FreshNumber
    <3> QED BY <1>1, <2>1, <2>2, <2>3, <3>1, KeptPush
  <2>4. CASE UNCHANGED <<dataQ, accepted>>
    <3>1. \A v \in Writers : wpc'[v] # "idle" => <<v, sent'[v]>> \notin Elems(accepted)
      BY <2>1, <2>2 DEF KeptInv
    <3> QED BY <1>1, <2>2, <2>4, <3>1, KeptNumber
  <2> QED BY <2>1, <2>3, <2>4
<1>4. CASE CheckGate(w)
  <2>1. /\ \A v \in Writers \ {w} : wpc'[v] = wpc[v]
        /\ sent' = [sent EXCEPT ![w] = @ + 1] /\ UNCHANGED <<dataQ, accepted>>
    BY <1>2, <1>4 DEF CheckGate
  <2>2. /\ sent'[w] = sent[w] + 1 /\ \A v \in Writers : sent'[v] >= sent[v]
        /\ \A v \in Writers \ {w} : sent'[v] = sent[v]
    BY <1>2, <2>1
  <2>3. <<w, sent'[w]>> \notin Elems(accepted)
    BY <2>2, FreshNumber
  <2>4. \A v \in Writers : wpc'[v] # "idle" => <<v, sent'[v]>> \notin Elems(accepted)
    BY <2>1, <2>2, <2>3 DEF KeptInv
  <2> QED BY <1>1, <2>1, <2>2, <2>4, KeptNumber
<1>5. CASE Reserve(w)
  <2>1. /\ \A v \in Writers \ {w} : wpc'[v] = wpc[v]
        /\ wpc[w] # "idle" /\ sent' = sent /\ UNCHANGED <<dataQ, accepted>>
    BY <1>2, <1>5 DEF Reserve
  <2>2. \A v \in Writers : wpc'[v] # "idle" => <<v, sent'[v]>> \notin Elems(accepted)
    BY <2>1 DEF KeptInv
  <2> QED BY <1>1, <1>2, <2>1, <2>2, KeptNumber
<1>6. CASE SendPermit(w)
  <2>1. /\ \A v \in Writers \ {w} : wpc'[v] = wpc[v]
        /\ wpc[w] # "idle" /\ wpc'[w] = "idle" /\ sent' = sent
        /\ Push(w) \/ UNCHANGED <<dataQ, accepted>>
    BY <1>2, <1>6 DEF SendPermit
  <2>2. <<w, sent'[w]>> \notin Elems(accepted) /\ \A v \in Writers : sent'[v] >= sent[v]
    BY <1>2, <2>1 DEF KeptInv
  <2>3. CASE Push(w)
    BY <1>1, <2>1, <2>2, <2>3, KeptPush
  <2>4. CASE UNCHANGED <<dataQ, accepted>>
    <3>1. \A v \in Writers : wpc'[v] # "idle" => <<v, sent'[v]>> \notin Elems(accepted)
      BY <2>1 DEF KeptInv
    <3> QED BY <1>1, <2>2, <2>4, <3>1, KeptNumber
  <2> QED BY <2>1, <2>3, <2>4
<1> QED BY <1>3, <1>4, <1>5, <1>6

\* What a failed write drops was in the backlog, so it had been accepted.
LEMMA LostWasAccepted ==
  ASSUME TypeOK, AcceptedConserved, Alive, NEW n \in 0..Owed, NEW failed \in BOOLEAN,
         Flush(n, failed), lost \subseteq Elems(accepted)
  PROVE  lost' \subseteq Elems(accepted)
<1> DEFINE done == (offset + n) \div 2
           rest == SubSeq(pending, done + 1, Len(pending))
<1>1. pending \in Seq(Item) /\ Len(pending) \in Nat /\ done \in Nat /\ done <= Len(pending)
      /\ Len(wire) \in Nat /\ Len(dataQ) \in Nat
  BY DEF TypeOK, Owed
<1>2. lost' = lost \/ lost' = lost \cup {item \in Elems(rest) : IsUser(item)}
  BY DEF Flush
<1> HIDE DEF done
<1>3. Len(rest) = Len(pending) - done
      /\ \A j \in 1..(Len(pending) - done) : done + j \in 1..Len(pending) /\ rest[j] = pending[done + j]
  BY <1>1, QueueRest
<1>4. DOMAIN rest = 1..(Len(pending) - done)
  BY <1>1, <1>3
<1> HIDE DEF rest
<1>5. ASSUME NEW item \in Elems(rest), IsUser(item)
      PROVE  item \in Elems(accepted)
  <2>1. PICK j \in 1..(Len(pending) - done) : item = rest[j]
    BY <1>4 DEF Elems
  <2>2. PICK i \in 1..Len(pending) : item = pending[i]
    BY <1>3, <2>1
  <2>3. Line[Len(wire) + i] = item
    BY <2>2, LineSpots
  <2>4. Len(wire) + i \in DOMAIN Line /\ ~(Len(wire) + i <= Len(wire))
    BY <1>1, LineSpots
  <2>5. Len(wire) + i \in Places
    BY <1>5, <2>3, <2>4 DEF Places
  <2> QED BY <2>3, <2>5 DEF AcceptedConserved
<1> QED BY <1>2, <1>5

\* A step of the actor that leaves the writers alone, from its line.
LEMMA KeptRest ==
  ASSUME KeptInv, UNCHANGED userVars, lost' \subseteq Elems(accepted),
         state' = "Released" => ~Alive', AcceptedConserved'
  PROVE  KeptInv'
  BY DEF KeptInv, userVars, Elems

LEMMA KeptActor == IInv /\ TypeOK' /\ KeptInv /\ Actor => KeptInv'
<1> SUFFICES ASSUME IInv, TypeOK', KeptInv, Actor
             PROVE  KeptInv'
  OBVIOUS
<1> USE DEF ActorFrame
<1>1. TypeOK /\ AcceptedConserved /\ lost \subseteq Elems(accepted)
      /\ (state = "Released" => ~Alive)
  BY DEF IInv, KeptInv
<1>2. ASSUME UNCHANGED <<wire, pending, dataQ, lost, userVars>>, Alive' => Alive,
             state' = "Released" => ~Alive'
      PROVE  KeptInv'
  <2>1. Line' = Line /\ Places' = Places /\ accepted' = accepted
    BY <1>2 DEF Line, Places, userVars
  <2>2. AcceptedConserved'
    BY <1>1, <1>2, <2>1 DEF AcceptedConserved
  <2> QED BY <1>1, <1>2, <2>2, KeptRest
<1>3. ASSUME UNCHANGED userVars, ~Alive', lost' = lost
      PROVE  KeptInv'
  BY <1>1, <1>3, KeptRest DEF AcceptedConserved
<1>4. ASSUME HandleBegin PROVE KeptInv'
  <2>1. /\ UNCHANGED <<wire, lost, userVars, state>> /\ dataQ' = <<>> /\ Alive
        /\ ApplyControls(Backlog)
    BY <1>4 DEF HandleBegin, TakeCommand
  <2>2. Backlog = pending \o dataQ
    BY <1>1, <2>1 DEF Backlog
  <2>3. AcceptedConserved'
    BY <1>1, <2>1, <2>2, LineApplied DEF userVars
  <2>4. state' = "Released" => ~Alive'
    BY <1>1, <2>1
  <2> QED BY <1>1, <2>1, <2>3, <2>4, KeptRest
<1>5. ASSUME DataDrained PROVE KeptInv'
  <2>1. /\ UNCHANGED <<wire, lost, userVars, state>> /\ dataQ' = <<>> /\ dataQ = <<>> /\ Alive
        /\ ApplyControls(pending)
    BY <1>5 DEF DataDrained
  <2>2. pending \o dataQ = pending
    BY <1>1, <2>1 DEF TypeOK
  <2>3. AcceptedConserved'
    BY <1>1, <2>1, <2>2, LineApplied DEF userVars
  <2> QED BY <1>1, <2>1, <2>3, KeptRest
<1>6. ASSUME NEW n \in 0..Owed, NEW failed \in BOOLEAN, Flush(n, failed), Alive,
             UNCHANGED <<dataQ, state, userVars>>
      PROVE  KeptInv'
  <2>1. AcceptedConserved'
    BY <1>1, <1>6, LineFlushed DEF userVars
  <2>2. lost' \subseteq Elems(accepted)
    BY <1>1, <1>6, LostWasAccepted
  <2> QED BY <1>1, <1>6, <2>1, <2>2, KeptRest
<1>7. ASSUME DrainFlush \/ FlushBeforePoll \/ PollWrite PROVE KeptInv'
  <2>1. PICK n \in 0..Owed, failed \in BOOLEAN : Flush(n, failed)
    BY <1>7 DEF DrainFlush, FlushBeforePoll, PollWrite, FlushStep
  <2>2. Alive /\ UNCHANGED <<dataQ, state, userVars>>
    BY <1>7 DEF DrainFlush, FlushBeforePoll, PollWrite, FlushStep
  <2> QED BY <1>6, <2>1, <2>2
<1>8. ASSUME HandleData PROVE KeptInv'
  <2>1. /\ UNCHANGED <<wire, lost, userVars, state>> /\ dataQ # <<>> /\ dataQ' = Tail(dataQ)
        /\ Alive
        /\ pending' = IF state = "Running" THEN Append(pending, Head(dataQ)) ELSE pending
    BY <1>8 DEF HandleData
  <2>2. state = "Running"
    <3>1. state \in {"Running", "Quiesced", "Released"}
      BY <1>1 DEF TypeOK
    <3> QED BY <1>1, <2>1, <3>1 DEF IInv, DrainInv
  <2>3. AcceptedConserved'
    BY <1>1, <2>1, <2>2, LineTaken DEF userVars
  <2> QED BY <1>1, <2>1, <2>3, KeptRest
<1>9. ASSUME PollRead PROVE KeptInv'
  <2>1. /\ UNCHANGED <<wire, dataQ, lost, userVars, state>> /\ Alive
        /\ \E responses \in {<<>>, <<Response(reads + 1)>>} : pending' = pending \o responses
    BY <1>9 DEF PollRead
  <2>2. Response(reads + 1) \in Item /\ ~IsUser(Response(reads + 1))
    <3>1. reads + 1 \in Nat
      BY <1>1 DEF TypeOK
    <3> QED BY <3>1, ConstantsAssumption DEF Response, Item, IsUser
  <2>3. pending' = pending \/ pending' = Append(pending, Response(reads + 1))
    <3> DEFINE e == Response(reads + 1)
    <3>1. pending \in Seq(Item) /\ e \in Item
      BY <1>1, <2>2 DEF TypeOK
    <3>2. pending' = pending \o <<>> \/ pending' = pending \o <<e>>
      BY <2>1
    <3> HIDE DEF e
    <3>3. pending \o <<>> = pending /\ pending \o <<e>> = Append(pending, e)
      BY <3>1
    <3>4. pending' = pending \/ pending' = Append(pending, e)
      BY <3>2, <3>3
    <3> QED BY <3>4 DEF e
  <2>4. CASE pending' = pending
    BY <1>1, <1>2, <2>1, <2>4
  <2>5. CASE pending' = Append(pending, Response(reads + 1))
    <3>1. AcceptedConserved'
      BY <1>1, <2>1, <2>2, <2>5, LineRead DEF userVars
    <3> QED BY <1>1, <2>1, <3>1, KeptRest
  <2> QED BY <2>3, <2>4, <2>5
<1>10. ASSUME HandleRelease \/ HandleShutdown \/ RunnerDropped PROVE KeptInv'
  BY <1>3, <1>10 DEF HandleRelease, HandleShutdown, RunnerDropped, writeVars
<1>11. ASSUME DrainTimeout \/ DrainDone \/ HandleDuplicate \/ HandleRollback \/ ControlDrained
              \/ PollDone
       PROVE KeptInv'
  <2>1. UNCHANGED <<wire, pending, dataQ, lost, userVars>> /\ Alive
    BY <1>11 DEF DrainTimeout, DrainDone, HandleDuplicate, HandleRollback, ControlDrained,
                 PollDone, TakeCommand, writeVars
  <2>2. state' = state \/ state' # "Released"
    BY <1>11 DEF DrainTimeout, DrainDone, HandleDuplicate, HandleRollback, ControlDrained,
                 PollDone
  <2> QED BY <1>1, <1>2, <2>1, <2>2
<1> QED BY <1>4, <1>5, <1>7, <1>8, <1>9, <1>10, <1>11 DEF Actor, Loop

LEMMA KeptStep == IInv /\ KeptInv /\ [Next]_vars => KeptInv'
<1> SUFFICES ASSUME IInv, KeptInv, [Next]_vars PROVE KeptInv'
  OBVIOUS
<1>1. TypeOK /\ TypeOK'
  BY TypeStep DEF IInv
<1>2. CASE Controller \/ UNCHANGED vars
  <2>1. UNCHANGED <<wire, pending, dataQ, lost, userVars, pc, state>>
    BY <1>2 DEF Controller, Resize, Nudge, BeginCall, DuplicateCall, RollbackCall, ReleaseCall,
         ShutdownCall, BeginReturns, DuplicateReturns, RollbackReturns, ReleaseReturns,
         RollbackAfterBegin, Issue, ReturnFrame, ControllerFrame, vars, writeVars
  <2>2. UNCHANGED <<wire, pending, dataQ, lost, pc, state, accepted, sent, wpc>>
    BY <2>1 DEF userVars
  <2>3. \A v \in Writers : /\ sent'[v] >= sent[v]
                           /\ wpc'[v] # "idle" => <<v, sent'[v]>> \notin Elems(accepted)
    BY <1>1, <2>2 DEF KeptInv, TypeOK
  <2> QED BY <1>1, <2>2, <2>3, KeptNumber
<1> QED BY <1>1, <1>2, KeptWriter, KeptActor DEF Next

\* Accepted input reaches the PTY once and in the order it was accepted in, whatever writers,
\* handoffs that fail or are rolled back, and short writes do: only a failed write or the
\* actor's end loses any (write_user_input, handle_data_command, begin_handoff).
THEOREM AcceptedIsKept == Spec => []AcceptedConserved
<1>1. Init => KeptInv
  <2> SUFFICES ASSUME Init PROVE KeptInv
    OBVIOUS
  <2>1. /\ wire = <<>> /\ pending = <<>> /\ dataQ = <<>> /\ accepted = <<>> /\ lost = {}
        /\ state # "Released" /\ wpc = [w \in Writers |-> "idle"]
    BY DEF Init
  <2>2. Elems(accepted) = {} /\ DOMAIN accepted = {}
    BY <2>1 DEF Elems
  <2>3. Places = {}
    <3>1. TypeOK
      BY TypeInit
    <3>2. DOMAIN Line = 1..0
      BY <2>1, <3>1, LineSpots
    <3> QED BY <3>2 DEF Places
  <2>4. AcceptedConserved
    BY <2>1, <2>2, <2>3 DEF AcceptedConserved
  <2> QED BY <2>1, <2>2, <2>4 DEF KeptInv
<1>2. IInv /\ KeptInv /\ [Next]_vars => KeptInv'
  BY KeptStep
<1>3. KeptInv => AcceptedConserved
  BY DEF KeptInv
<1> QED BY <1>1, <1>2, <1>3, InvInit, InvStep, PTL DEF Spec

=============================================================================
