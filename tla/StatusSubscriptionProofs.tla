--------------------- MODULE StatusSubscriptionProofs ---------------------
(***************************************************************************)
(* For any values, ring size and numbers of changes and pushes, what a     *)
(* subscription tells follows StatusFeed, it passes over no event that     *)
(* the ring still had, and a wait does not time out on what stands.        *)
(***************************************************************************)
EXTENDS StatusSubscription, WellFoundedInduction, TLAPS

Status(i) == log[i].kind = "status"

Typed ==
    /\ values \in Seq(Values) /\ values # << >>
    /\ log \in Seq([kind : {"status", "other"}, version : Nat])
    /\ emitting \in BOOLEAN
    /\ last \in Nat
    /\ told \in Nat /\ initial \in Nat /\ answer \in Nat
    /\ told <= Version /\ initial <= Version /\ answer <= Version
    /\ pc \in {"start", "probe", "poll", "check", "ask", "compare", "pause", "done"}
    /\ answer # 0 <=> pc = "compare"

(* The events of the pane tell of versions in their order; while the loop  *)
(* has one to push, nobody has heard of the present version.               *)
LogOrdered ==
    /\ \A i \in DOMAIN log :
          /\ Status(i) => log[i].version \in 1..Version
          /\ ~Status(i) => log[i].version = 0
    /\ \A i, j \in DOMAIN log :
          Status(i) /\ Status(j) /\ i < j => log[i].version < log[j].version
    /\ emitting =>
          /\ \A i \in DOMAIN log : Status(i) => log[i].version < Version
          /\ told < Version /\ initial < Version /\ answer < Version

(* What was told is older than the events not yet read, and a status that  *)
(* is still present is the one sampled.                                    *)
ToldInOrder ==
    /\ sub.kind = "event" => told = 0 /\ pc \notin {"probe", "check", "ask", "compare"}
    /\ sub.kind = "status" =>
          \A i \in DOMAIN log : i > last /\ Status(i) => told < log[i].version
    /\ told = Version => sampled = Current

(* The initial status waits to be told until something else is.            *)
InitialFirst ==
    /\ initial # 0 =>
          /\ told = 0 /\ sub.kind = "status"
          /\ sampled = values[initial]
          /\ pc \notin {"ask", "compare"}
    /\ pc \in {"start", "probe"} => told = 0 /\ initial = 0

(* The snapshot in hand is not older than what was told.                   *)
SnapshotNotOlder ==
    pc = "compare" =>
        /\ told <= answer
        /\ told = answer => sampled = values[answer]

Inv == Typed /\ LogOrdered /\ ToldInOrder /\ InitialFirst /\ SnapshotNotOlder

-----------------------------------------------------------------------------
LEMMA Appended ==
    ASSUME NEW S, NEW s \in Seq(S), NEW e \in S
    PROVE  /\ Append(s, e) \in Seq(S) /\ Append(s, e) # << >>
           /\ Len(Append(s, e)) = Len(s) + 1
           /\ DOMAIN Append(s, e) = 1..(Len(s) + 1) /\ DOMAIN s = 1..Len(s)
           /\ \A i \in DOMAIN s : Append(s, e)[i] = s[i]
           /\ Append(s, e)[Len(s) + 1] = e
OBVIOUS

LEMMA Element ==
    ASSUME NEW S, NEW s \in Seq(S), NEW i \in DOMAIN s
    PROVE  s[i] \in S
OBVIOUS

LEMMA Versions ==
    ASSUME Typed
    PROVE  Version \in Nat \ {0} /\ DOMAIN values = 1..Version /\ DOMAIN log = 1..Len(log)
           /\ Len(log) \in Nat /\ \A i \in DOMAIN log : log[i].version \in Nat
<1>1. Version \in Nat /\ Version # 0
  BY DEF Typed, Version
<1>2. DOMAIN values = 1..Version /\ DOMAIN log = 1..Len(log) /\ Len(log) \in Nat
  BY DEF Typed, Version
<1>3. \A i \in DOMAIN log : log[i] \in [kind : {"status", "other"}, version : Nat]
  BY Element DEF Typed
<1> QED BY <1>1, <1>2, <1>3

LEMMA InitInv ==
    ASSUME Init
    PROVE  Inv
<1>1. PICK v \in Values : values = <<v>>
  BY DEF Init
<1>2. values \in Seq(Values) /\ values # << >> /\ Len(values) = 1
  BY <1>1
<1>3. Typed
  <2>1. log \in Seq([kind : {"status", "other"}, version : Nat]) /\ emitting = FALSE
    BY DEF Init
  <2>2. last = 0 /\ told = 0 /\ initial = 0 /\ answer = 0 /\ pc = "start"
    BY DEF Init
  <2>3. Version = 1
    BY <1>2 DEF Version
  <2>4. told <= Version /\ initial <= Version /\ answer <= Version
    BY <2>2, <2>3
  <2>5. answer # 0 <=> pc = "compare"
    BY <2>2
  <2> QED BY <1>2, <2>1, <2>2, <2>4, <2>5 DEF Typed
<1>4. LogOrdered
  BY DEF Init, LogOrdered
<1>5. ToldInOrder
  BY <1>2 DEF Init, ToldInOrder, Version
<1>6. InitialFirst /\ SnapshotNotOlder
  BY DEF Init, InitialFirst, SnapshotNotOlder
<1> QED BY <1>3, <1>4, <1>5, <1>6 DEF Inv

(* The watched thing changes, with an event to push or without.            *)
LEMMA ChangeInv ==
    ASSUME Inv, NEW v \in Values, ~emitting, values' = Append(values, v),
           emitting' \in BOOLEAN, UNCHANGED <<log, sub, pc, thread, told>>
    PROVE  Inv'
<1> USE DEF thread
<1>1. /\ values' \in Seq(Values) /\ values' # << >> /\ Version' = Version + 1
      /\ \A i \in 1..Version : values'[i] = values[i]
  BY Appended, Versions DEF Inv, Typed, Version
<1>2. Version \in Nat \ {0} /\ told \in 0..Version /\ initial \in 0..Version
      /\ answer \in 0..Version
  BY Versions DEF Inv, Typed
<1>3. Typed'
  BY <1>1, <1>2 DEF Inv, Typed
<1>4. LogOrdered'
  BY <1>1, <1>2 DEF Inv, LogOrdered, Status
<1>5. ToldInOrder'
  BY <1>1, <1>2 DEF Inv, ToldInOrder, Status
<1>6. InitialFirst'
  <2>1. ASSUME initial # 0
        PROVE  values'[initial] = values[initial]
    <3>1. initial \in 1..Version
      BY <1>2, <2>1
    <3> QED BY <1>1, <3>1
  <2> QED BY <2>1 DEF Inv, InitialFirst
<1>7. SnapshotNotOlder'
  <2>1. ASSUME answer # 0
        PROVE  values'[answer] = values[answer]
    <3>1. answer \in 1..Version
      BY <1>2, <2>1
    <3> QED BY <1>1, <3>1
  <2>2. pc = "compare" => answer # 0
    BY DEF Inv, Typed
  <2> QED BY <2>1, <2>2 DEF Inv, SnapshotNotOlder
<1> QED BY <1>3, <1>4, <1>5, <1>6, <1>7 DEF Inv

(* An event is pushed: the present version, or something else.             *)
LEMMA PushInv ==
    ASSUME Inv, NEW e \in [kind : {"status", "other"}, version : Nat],
           log' = Append(log, e),
           \/ e.kind = "status" /\ e.version = Version /\ emitting /\ ~emitting'
           \/ e.kind = "other" /\ e.version = 0 /\ emitting' = emitting,
           UNCHANGED <<values, sub, pc, thread, told>>, emitting' \in BOOLEAN
    PROVE  Inv'
<1> USE DEF thread
<1>1. /\ log' \in Seq([kind : {"status", "other"}, version : Nat])
      /\ DOMAIN log' = 1..(Len(log) + 1) /\ DOMAIN log = 1..Len(log)
      /\ \A i \in DOMAIN log : log'[i] = log[i]
      /\ log'[Len(log) + 1] = e
  BY Appended DEF Inv, Typed
<1>2. Version' = Version /\ Version \in Nat \ {0} /\ Len(log) \in Nat
  BY Versions DEF Inv, Version
<1>3. Typed'
  BY <1>1, <1>2 DEF Inv, Typed
<1>4. LogOrdered'
  BY <1>1, <1>2 DEF Inv, LogOrdered, Status
<1>5. ToldInOrder'
  BY <1>1, <1>2 DEF Inv, Typed, LogOrdered, ToldInOrder, Status, Current
<1>6. InitialFirst' /\ SnapshotNotOlder'
  BY DEF Inv, InitialFirst, SnapshotNotOlder
<1> QED BY <1>3, <1>4, <1>5, <1>6 DEF Inv

LEMMA BeginInv ==
    ASSUME Inv, Begin
    PROVE  Inv'
<1> USE DEF loop, thread, past, Begin
<1>0. Version' = Version /\ Version \in Nat \ {0} /\ Current' = Current
      /\ Len(log) \in Nat /\ Len(log)' = Len(log) /\ DOMAIN log = 1..Len(log)
  BY Versions DEF Inv, Version, Current
<1>1. Typed'
  BY <1>0, Versions DEF Inv, Typed, LogOrdered, Status
<1>2. LogOrdered'
  BY <1>0 DEF Inv, LogOrdered, InitialFirst, Status
<1>3. ToldInOrder'
  BY <1>0, Versions DEF Inv, Typed, LogOrdered, ToldInOrder, InitialFirst, SnapshotNotOlder,
     Status
<1>4. InitialFirst'
  BY <1>0 DEF Inv, Typed, InitialFirst
<1>5. SnapshotNotOlder'
  BY <1>0 DEF Inv, Typed, ToldInOrder, SnapshotNotOlder
<1> QED BY <1>1, <1>2, <1>3, <1>4, <1>5 DEF Inv

LEMMA ProbeInv ==
    ASSUME Inv, Probe
    PROVE  Inv'
<1> USE DEF loop, thread, past, Probe, InitialEvent, Current
<1>0. Version' = Version /\ Version \in Nat \ {0} /\ Current' = Current
      /\ Len(log) \in Nat /\ Len(log)' = Len(log) /\ DOMAIN log = 1..Len(log)
  BY Versions DEF Inv, Version, Current
<1>1. Typed'
  BY <1>0, Versions DEF Inv, Typed, LogOrdered, Status
<1>2. LogOrdered'
  BY <1>0 DEF Inv, LogOrdered, InitialFirst, Status
<1>3. ToldInOrder'
  BY <1>0, Versions DEF Inv, Typed, LogOrdered, ToldInOrder, InitialFirst, SnapshotNotOlder,
     Status
<1>4. InitialFirst'
  BY <1>0 DEF Inv, Typed, InitialFirst
<1>5. SnapshotNotOlder'
  BY <1>0 DEF Inv, Typed, ToldInOrder, SnapshotNotOlder
<1> QED BY <1>1, <1>2, <1>3, <1>4, <1>5 DEF Inv

LEMMA ReadMatchInv ==
    ASSUME Inv, ReadMatch
    PROVE  Inv'
<1>1. /\ values' = values /\ log' = log /\ emitting' = emitting /\ sub' = sub
      /\ answer' = answer /\ pc = "poll" /\ pc' \in {"done", "pause"}
      /\ sub.kind \in {"status", "event"}
  BY DEF ReadMatch, EventPoll, Deliver, loop
<1>2. PICK i \in DOMAIN log :
          /\ i > last /\ Concerns(i) /\ last' = i
          /\ told' = (IF log[i].version = 0 THEN told ELSE log[i].version)
          /\ IF sub.kind = "event" THEN UNCHANGED <<sampled, initial>>
             ELSE sampled' = values[log[i].version] /\ initial' = 0
  <2>1. PICK i \in {j \in After(last) : Matches(j) /\ First(j)} :
          /\ last' = i
          /\ told' = (IF log[i].version = 0 THEN told ELSE log[i].version)
          /\ IF sub.kind = "event" THEN UNCHANGED <<sampled, initial>>
             ELSE sampled' = values[log[i].version] /\ initial' = 0
    BY DEF ReadMatch, Deliver
  <2>2. i \in DOMAIN log /\ i > last
    BY DEF After
  <2>3. Concerns(i)
    BY DEF Matches
  <2> QED BY <2>1, <2>2, <2>3
<1>3. Version' = Version /\ Version \in Nat \ {0} /\ Current' = Current
      /\ Len(log) \in Nat /\ DOMAIN log = 1..Len(log)
  BY <1>1, Versions DEF Inv, Version, Current
<1>4. /\ sub.kind = "event" => told' = 0 /\ UNCHANGED <<sampled, initial>>
      /\ sub.kind = "status" =>
            /\ Status(i) /\ log[i].version \in 1..Version
            /\ told' = log[i].version /\ sampled' = values[told'] /\ initial' = 0
  <2>1. CASE sub.kind = "event"
    <3>1. ~Status(i)
      BY <1>2, <2>1 DEF Concerns, Status
    <3> QED BY <1>2, <2>1, <3>1 DEF Inv, LogOrdered, ToldInOrder
  <2>2. CASE sub.kind = "status"
    <3>1. Status(i)
      BY <1>2, <2>2 DEF Concerns, Status
    <3>2. log[i].version \in 1..Version
      BY <1>2, <3>1 DEF Inv, LogOrdered
    <3>3. log[i].version # 0
      BY <3>2
    <3> QED BY <1>2, <2>2, <3>1, <3>2, <3>3
  <2> QED BY <1>1, <2>1, <2>2
<1>5. told' \in Nat /\ told' <= Version /\ initial' \in Nat /\ initial' <= Version /\ i \in Nat
  BY <1>1, <1>3, <1>4 DEF Inv, Typed
<1>6. Typed'
  BY <1>1, <1>2, <1>3, <1>5 DEF Inv, Typed
<1>7. LogOrdered'
  <2>1. emitting => told' < Version /\ initial' < Version
    BY <1>1, <1>3, <1>4 DEF Inv, LogOrdered
  <2> QED BY <1>1, <1>3, <2>1 DEF Inv, LogOrdered, Status
<1>8. ToldInOrder'
  <2>1. sub.kind = "status" =>
          \A j \in DOMAIN log : j > i /\ Status(j) => told' < log[j].version
    BY <1>4 DEF Inv, LogOrdered
  <2>2. told' = Version => sampled' = Current
    BY <1>1, <1>3, <1>4 DEF Current
  <2> QED BY <1>1, <1>2, <1>3, <1>4, <2>1, <2>2 DEF ToldInOrder, Status
<1>9. InitialFirst' /\ SnapshotNotOlder'
  BY <1>1, <1>4 DEF Inv, InitialFirst, SnapshotNotOlder
<1> QED BY <1>6, <1>7, <1>8, <1>9 DEF Inv

LEMMA ReadAllInv ==
    ASSUME Inv, ReadAll
    PROVE  Inv'
<1> USE DEF loop, thread, past, ReadAll, EventPoll, After, Concerns
<1>0. Version' = Version /\ Version \in Nat \ {0} /\ Current' = Current
      /\ Len(log) \in Nat /\ Len(log)' = Len(log) /\ DOMAIN log = 1..Len(log)
  BY Versions DEF Inv, Version, Current
<1>1. Typed'
  BY <1>0, Versions DEF Inv, Typed, LogOrdered, Status
<1>2. LogOrdered'
  BY <1>0 DEF Inv, LogOrdered, InitialFirst, Status
<1>3. ToldInOrder'
  BY <1>0, Versions DEF Inv, Typed, LogOrdered, ToldInOrder, InitialFirst, SnapshotNotOlder,
     Status
<1>4. InitialFirst'
  BY <1>0 DEF Inv, Typed, InitialFirst
<1>5. SnapshotNotOlder'
  BY <1>0 DEF Inv, Typed, ToldInOrder, SnapshotNotOlder
<1> QED BY <1>1, <1>2, <1>3, <1>4, <1>5 DEF Inv

LEMMA CheckSequenceInv ==
    ASSUME Inv, CheckSequence
    PROVE  Inv'
<1> USE DEF loop, thread, past, CheckSequence, Deliver
<1>0. Version' = Version /\ Version \in Nat \ {0} /\ Current' = Current
      /\ Len(log) \in Nat /\ Len(log)' = Len(log) /\ DOMAIN log = 1..Len(log)
  BY Versions DEF Inv, Version, Current
<1>1. Typed'
  BY <1>0, Versions DEF Inv, Typed, LogOrdered, Status
<1>2. LogOrdered'
  BY <1>0 DEF Inv, LogOrdered, InitialFirst, Status
<1>3. ToldInOrder'
  <2>1. CASE told' = told
    BY <1>0, <2>1 DEF Inv, ToldInOrder, Status
  <2>2. CASE initial # 0 /\ Len(log) = last /\ told' = initial
    BY <1>0, <2>2 DEF Inv, Typed, ToldInOrder, InitialFirst, Status, Current
  <2> QED BY <2>1, <2>2
<1>4. InitialFirst'
  BY <1>0 DEF Inv, Typed, InitialFirst
<1>5. SnapshotNotOlder'
  BY <1>0 DEF Inv, Typed, ToldInOrder, SnapshotNotOlder
<1> QED BY <1>1, <1>2, <1>3, <1>4, <1>5 DEF Inv

LEMMA SnapshotInv ==
    ASSUME Inv, Snapshot
    PROVE  Inv'
<1> USE DEF loop, thread, past, Snapshot, Current
<1>0. Version' = Version /\ Version \in Nat \ {0} /\ Current' = Current
      /\ Len(log) \in Nat /\ Len(log)' = Len(log) /\ DOMAIN log = 1..Len(log)
  BY Versions DEF Inv, Version, Current
<1>1. Typed'
  BY <1>0, Versions DEF Inv, Typed, LogOrdered, Status
<1>2. LogOrdered'
  BY <1>0 DEF Inv, LogOrdered, InitialFirst, Status
<1>3. ToldInOrder'
  BY <1>0, Versions DEF Inv, Typed, LogOrdered, ToldInOrder, InitialFirst, SnapshotNotOlder,
     Status
<1>4. InitialFirst'
  BY <1>0 DEF Inv, Typed, InitialFirst
<1>5. SnapshotNotOlder'
  BY <1>0 DEF Inv, Typed, ToldInOrder, SnapshotNotOlder
<1> QED BY <1>1, <1>2, <1>3, <1>4, <1>5 DEF Inv

LEMMA CompareSnapshotInv ==
    ASSUME Inv, CompareSnapshot
    PROVE  Inv'
<1>1. /\ values' = values /\ log' = log /\ emitting' = emitting /\ sub' = sub
      /\ last' = last /\ initial' = initial /\ answer' = 0
      /\ pc = "compare" /\ pc' \in {"done", "pause"}
  BY DEF CompareSnapshot, Deliver, loop
<1>2. answer \in 1..Version /\ told \in 0..answer /\ sub.kind # "event"
  BY <1>1 DEF Inv, Typed, ToldInOrder, SnapshotNotOlder
<1>3. \/ UNCHANGED <<told, sampled>>
      \/ Trusted /\ told' \in {told, answer} /\ sampled' = values[answer]
  BY <1>2 DEF CompareSnapshot, Deliver
<1>4. Version' = Version /\ Version \in Nat \ {0} /\ Current' = Current
      /\ Len(log) \in Nat /\ DOMAIN log = 1..Len(log)
  BY <1>1, Versions DEF Inv, Version, Current
<1>5. told' \in Nat /\ told' <= Version
  BY <1>2, <1>3, <1>4
<1>6. Typed'
  BY <1>1, <1>4, <1>5 DEF Inv, Typed
<1>7. LogOrdered'
  BY <1>1, <1>3, <1>4 DEF Inv, LogOrdered, Status
<1>8. ToldInOrder'
  <2>1. CASE UNCHANGED <<told, sampled>>
    BY <1>1, <1>2, <1>4, <2>1 DEF Inv, ToldInOrder, Status
  <2>2. CASE Trusted /\ told' \in {told, answer} /\ sampled' = values[answer]
    <3>1. told' = Version => answer = Version
      BY <1>2, <1>4, <2>2
    <3>2. sub.kind = "status" => \A i \in DOMAIN log : ~(i > last)
      BY <1>4, <2>2 DEF Trusted
    <3> QED BY <1>1, <1>2, <1>4, <2>2, <3>1, <3>2 DEF ToldInOrder, Current, Status
  <2> QED BY <1>3, <2>1, <2>2
<1>9. InitialFirst' /\ SnapshotNotOlder'
  BY <1>1 DEF Inv, InitialFirst, SnapshotNotOlder
<1> QED BY <1>6, <1>7, <1>8, <1>9 DEF Inv

(* The other steps of the thread only move it on.                          *)
LEMMA MoveInv ==
    ASSUME Inv, UNCHANGED <<loop, sub, thread, told>>,
           \/ UNCHANGED pc
           \/ pc # "compare" /\ pc' \in {"poll", "pause", "done"}
           \/ pc = "poll" /\ pc' = "ask" /\ initial = 0 /\ sub.kind # "event"
    PROVE  Inv'
<1>1. /\ values' = values /\ log' = log /\ emitting' = emitting /\ sub' = sub /\ told' = told
      /\ last' = last /\ sampled' = sampled /\ initial' = initial /\ answer' = answer
  BY DEF loop, thread
<1>2. Version' = Version /\ Current' = Current
  BY <1>1 DEF Version, Current
<1>3. Typed'
  BY <1>1, <1>2 DEF Inv, Typed
<1>4. LogOrdered'
  BY <1>1, <1>2 DEF Inv, LogOrdered, Status
<1>5. ToldInOrder'
  BY <1>1, <1>2 DEF Inv, ToldInOrder, Status
<1>6. InitialFirst' /\ SnapshotNotOlder'
  BY <1>1 DEF Inv, InitialFirst, SnapshotNotOlder
<1> QED BY <1>3, <1>4, <1>5, <1>6 DEF Inv

LEMMA NextInv ==
    ASSUME Inv, [Next]_vars
    PROVE  Inv'
<1>1. CASE ChangeStatus \/ ChangeSilently
  <2>1. PICK v \in Values : Change(v)
    BY <1>1 DEF ChangeStatus, ChangeSilently
  <2>2. UNCHANGED <<log, sub, pc, thread, told>> /\ emitting' \in BOOLEAN
    BY <1>1 DEF ChangeStatus, ChangeSilently, past, Inv, Typed
  <2> QED BY <2>1, <2>2, ChangeInv DEF Change
<1>2. CASE PushStatus
  <2>1. [kind |-> "status", version |-> Version] \in [kind : {"status", "other"}, version : Nat]
    BY Versions DEF Inv
  <2>2. emitting /\ emitting' = FALSE /\ UNCHANGED <<values, sub, pc, thread, told>>
        /\ log' = Append(log, [kind |-> "status", version |-> Version])
    BY <1>2 DEF PushStatus, Push, past
  <2> QED BY <2>1, <2>2, PushInv
<1>3. CASE PushOther
  <2>1. [kind |-> "other", version |-> 0] \in [kind : {"status", "other"}, version : Nat]
    OBVIOUS
  <2>2. emitting' = emitting /\ UNCHANGED <<values, sub, pc, thread, told>>
        /\ log' = Append(log, [kind |-> "other", version |-> 0])
    BY <1>3 DEF PushOther, Push, past
  <2>3. emitting' \in BOOLEAN
    BY <2>2 DEF Inv, Typed
  <2> QED BY <2>1, <2>2, <2>3, PushInv
<1>4. CASE Begin \/ Probe \/ ReadMatch \/ ReadAll
  BY <1>4, BeginInv, ProbeInv, ReadMatchInv, ReadAllInv
<1>5. CASE CheckSequence \/ Snapshot \/ CompareSnapshot
  BY <1>5, CheckSequenceInv, SnapshotInv, CompareSnapshotInv
<1>6. CASE Sample
  <2>1. UNCHANGED <<loop, sub, thread, told>> /\ pc = "poll" /\ pc' = "ask"
        /\ sub.kind \notin {"event", "status"}
    BY <1>6 DEF Sample, past
  <2>2. initial = 0
    BY <2>1 DEF Inv, InitialFirst
  <2> QED BY <2>1, <2>2, MoveInv
<1>7. CASE Unanswered \/ PollAgain \/ TimesOut \/ PeerCloses
  <2>1. UNCHANGED <<loop, sub, thread, told>> /\ pc # "compare"
        /\ pc' \in {"poll", "pause", "done"}
    BY <1>7 DEF Unanswered, PollAgain, TimesOut, PeerCloses, past
  <2> QED BY <2>1, MoveInv
<1>8. CASE UNCHANGED vars
  BY <1>8, MoveInv DEF vars, loop, thread
<1> QED BY <1>1, <1>2, <1>3, <1>4, <1>5, <1>6, <1>7, <1>8 DEF Next

THEOREM Invariance == Spec => []Inv
<1>1. Init => Inv
  BY InitInv
<1>2. Inv /\ [Next]_vars => Inv'
  BY NextInv
<1> QED BY <1>1, <1>2, PTL DEF Spec

-----------------------------------------------------------------------------
(* The subscription follows the feed.                                      *)
LEMMA StepFollows ==
    ASSUME Inv, Inv', [Next]_vars
    PROVE  Feed!Next \/ UNCHANGED <<values, told>>
<1>1. CASE ChangeStatus \/ ChangeSilently
  <2>1. PICK v \in Values : values' = Append(values, v)
    BY <1>1 DEF ChangeStatus, ChangeSilently, Change
  <2>2. told' = told
    BY <1>1 DEF ChangeStatus, ChangeSilently, past
  <2> QED BY <2>1, <2>2 DEF Feed!Next, Feed!Change
<1>2. CASE ReadMatch \/ CheckSequence \/ CompareSnapshot
  <2>1. values' = values
    BY <1>2 DEF ReadMatch, EventPoll, CheckSequence, CompareSnapshot, loop
  <2>2. told' # told => told' > told
    <3>1. CASE ReadMatch
      <4>1. PICK i \in After(last) : Concerns(i)
                /\ told' = (IF log[i].version = 0 THEN told ELSE log[i].version)
        BY <3>1 DEF ReadMatch, Deliver, Matches
      <4>2. i \in DOMAIN log /\ i > last /\ sub.kind \in {"status", "event"}
        BY <3>1, <4>1 DEF After, ReadMatch, EventPoll
      <4>3. ~Status(i) => told' = told
        BY <4>1, <4>2 DEF Inv, LogOrdered
      <4>4. Status(i) => told < log[i].version
        <5>1. Status(i) => sub.kind = "status"
          BY <4>1, <4>2 DEF Concerns, Status
        <5> QED BY <4>2, <5>1 DEF Inv, ToldInOrder
      <4> QED BY <4>1, <4>2, <4>3, <4>4, Versions DEF Inv, Typed
    <3>2. CASE CheckSequence
      BY <3>2 DEF CheckSequence, Deliver, Inv, Typed, InitialFirst
    <3>3. CASE CompareSnapshot
      <4>1. told' # told => told' = answer /\ sampled # values[answer] /\ pc = "compare"
        BY <3>3 DEF CompareSnapshot, Deliver
      <4> QED BY <4>1 DEF Inv, Typed, SnapshotNotOlder
    <3> QED BY <1>2, <3>1, <3>2, <3>3
  <2>3. told' \in Nat /\ told \in Nat /\ told' <= Len(values)
    BY <2>1 DEF Inv, Typed, Version
  <2>4. Len(values) \in Nat
    BY Versions DEF Inv, Version
  <2> QED BY <2>1, <2>2, <2>3, <2>4 DEF Feed!Next, Feed!Tell
<1>3. CASE PushStatus \/ PushOther \/ Begin \/ Probe \/ ReadAll \/ Sample \/ Snapshot
           \/ Unanswered \/ PollAgain \/ TimesOut \/ PeerCloses \/ UNCHANGED vars
  BY <1>3 DEF PushStatus, PushOther, Begin, Probe, ReadAll, EventPoll, Sample, Snapshot,
     Unanswered, PollAgain, TimesOut, PeerCloses, vars, loop, past
<1> QED BY <1>1, <1>2, <1>3 DEF Next

(* No status is told after a newer one or twice, whatever order events and *)
(* snapshots come in (ActiveAgentStatusChangedSubscription::poll).         *)
THEOREM SubscriptionFollowsFeed == Spec => FollowsFeed
<1>1. Init => Feed!Init
  BY DEF Init, Feed!Init
<1>2. Inv /\ Inv' /\ [Next]_vars => [Feed!Next]_<<values, told>>
  BY StepFollows
<1> QED BY <1>1, <1>2, Invariance, PTL DEF Spec, FollowsFeed, Feed!Spec

-----------------------------------------------------------------------------
(* No event asked for is passed over.                                      *)
Reading ==
    /\ start \in Nat /\ last <= Len(log)
    /\ pc = "probe" => last = start
    /\ EveryEventDelivered

(* Whether an event matches does not change once it is in the log.         *)
LEMMA MatchStable ==
    ASSUME Inv, NEW i \in DOMAIN log, sub' = sub, log'[i] = log[i],
           sub.kind \in {"status", "event"},
           \A n \in 1..Version : values'[n] = values[n]
    PROVE  Matches(i)' <=> Matches(i)
<1>1. Concerns(i)' <=> Concerns(i)
  BY DEF Concerns
<1>2. CASE sub.kind = "event"
  BY <1>1, <1>2 DEF Matches
<1>3. CASE sub.kind = "status" /\ ~Status(i)
  BY <1>1, <1>3 DEF Matches, Concerns, Status
<1>4. CASE Status(i)
  <2>1. values'[log'[i].version] = values[log[i].version]
    BY <1>4 DEF Inv, LogOrdered
  <2> QED BY <1>1, <2>1 DEF Matches
<1> QED BY <1>2, <1>3, <1>4

(* A step that reads nothing keeps what was delivered.                     *)
LEMMA KeepsReading ==
    ASSUME Inv, Reading, sub' = sub, last' = last, start' = start,
           Len(log') \in Nat, Len(log') >= Len(log),
           \A i \in DOMAIN log : log'[i] = log[i],
           \A n \in 1..Version : values'[n] = values[n],
           delivered \subseteq delivered', dropped' = dropped,
           pc' = pc \/ (pc \notin {"start", "probe"} /\ pc' # "probe") \/ last = start
    PROVE  Reading'
<1>1. last \in Nat /\ start \in Nat /\ last <= Len(log) /\ Len(log) \in Nat
      /\ DOMAIN log = 1..Len(log)
  BY Versions DEF Inv, Typed, Reading
<1>2. start' \in Nat /\ last' <= Len(log')
  BY <1>1
<1>3. pc' = "probe" => last' = start'
  BY DEF Reading
<1>4. ASSUME sub.kind \in {"status", "event"}, pc' \notin {"start", "probe"},
             NEW i \in (start + 1)..last, Matches(i)'
      PROVE  i \in delivered' \cup dropped'
  <2>1. i \in DOMAIN log /\ last # start
    BY <1>1
  <2>2. Matches(i)
    BY <1>4, <2>1, MatchStable
  <2>3. pc \notin {"start", "probe"}
    BY <1>4, <2>1
  <2> QED BY <1>4, <2>2, <2>3 DEF Reading, EveryEventDelivered
<1>5. EveryEventDelivered'
  BY <1>4 DEF EveryEventDelivered
<1> QED BY <1>2, <1>3, <1>5 DEF Reading

(* A poll reads up to the first match, or to the end.                      *)
LEMMA PollReading ==
    ASSUME Inv, Reading, ReadMatch \/ ReadAll
    PROVE  Reading'
<1>1. /\ values' = values /\ log' = log /\ sub' = sub /\ start' = start /\ pc = "poll"
      /\ dropped' = dropped \cup ((last + 1)..(Len(log) - Capacity))
      /\ delivered \subseteq delivered'
      /\ sub.kind \in {"status", "event"}
  BY DEF ReadMatch, ReadAll, EventPoll, Deliver, loop
<1>2. /\ last \in Nat /\ start \in Nat /\ last <= Len(log) /\ Len(log) \in Nat
      /\ DOMAIN log = 1..Len(log) /\ Capacity \in Nat
  BY Versions, SubscriptionConstants DEF Inv, Typed, Reading
<1>3. /\ last' \in Nat /\ last' <= Len(log)
      /\ \A j \in After(last) : j < last' => ~Matches(j)
      /\ last' \in After(last) /\ Matches(last') => last' \in delivered'
  <2>1. CASE ReadMatch
    <3>1. PICK i \in {j \in After(last) : Matches(j) /\ First(j)} :
              last' = i /\ delivered' = delivered \cup {i}
      BY <2>1 DEF ReadMatch, Deliver
    <3>2. i \in DOMAIN log /\ \A j \in After(last) : j < i => ~Matches(j)
      BY <3>1 DEF After, First
    <3> QED BY <1>2, <3>1, <3>2
  <2>2. CASE ReadAll
    BY <1>2, <2>2 DEF ReadAll
  <2> QED BY <2>1, <2>2
<1>4. ASSUME NEW i \in (start + 1)..last', Matches(i)
      PROVE  i \in delivered' \cup dropped'
  <2>1. CASE i <= last
    BY <1>1, <1>2, <1>4, <2>1 DEF Reading, EveryEventDelivered
  <2>2. CASE i > last
    <3>1. i \in DOMAIN log
      BY <1>2, <1>3
    <3>2. CASE i \in After(last)
      BY <1>2, <1>3, <1>4, <3>2
    <3>3. CASE i \notin After(last)
      BY <1>1, <1>2, <2>2, <3>1, <3>3 DEF After
    <3> QED BY <3>2, <3>3
  <2> QED BY <1>2, <1>3, <2>1, <2>2
<1>5. \A i : Matches(i)' <=> Matches(i)
  BY <1>1 DEF Matches, Concerns
<1>6. EveryEventDelivered'
  BY <1>1, <1>4, <1>5 DEF EveryEventDelivered
<1>7. pc' # "probe"
  BY DEF ReadMatch, ReadAll, Deliver
<1> QED BY <1>1, <1>2, <1>3, <1>6, <1>7 DEF Reading

LEMMA NextReading ==
    ASSUME Inv, Reading, [Next]_vars
    PROVE  Reading'
<1>0. Len(log) \in Nat
  BY Versions DEF Inv
<1>1. CASE ChangeStatus \/ ChangeSilently
  <2>1. PICK v \in Values : values' = Append(values, v)
    BY <1>1 DEF ChangeStatus, ChangeSilently, Change
  <2>2. \A n \in 1..Version : values'[n] = values[n]
    BY <2>1, Appended DEF Inv, Typed, Version
  <2>3. log' = log /\ sub' = sub /\ pc' = pc /\ last' = last /\ start' = start
        /\ delivered' = delivered /\ dropped' = dropped
    BY <1>1 DEF ChangeStatus, ChangeSilently, thread, past
  <2> QED BY <1>0, <2>2, <2>3, KeepsReading
<1>2. CASE PushStatus \/ PushOther
  <2>1. PICK e \in [kind : {"status", "other"}, version : Nat] : log' = Append(log, e)
    <3>1. [kind |-> "status", version |-> Version] \in [kind : {"status", "other"}, version : Nat]
      BY Versions DEF Inv
    <3>2. [kind |-> "other", version |-> 0] \in [kind : {"status", "other"}, version : Nat]
      OBVIOUS
    <3> QED BY <1>2, <3>1, <3>2 DEF PushStatus, PushOther, Push
  <2>2. Len(log') = Len(log) + 1 /\ \A i \in DOMAIN log : log'[i] = log[i]
    BY <2>1, Appended DEF Inv, Typed
  <2>3. values' = values /\ sub' = sub /\ pc' = pc /\ last' = last /\ start' = start
        /\ delivered' = delivered /\ dropped' = dropped
    BY <1>2 DEF PushStatus, PushOther, thread, past
  <2> QED BY <1>0, <2>2, <2>3, KeepsReading
<1>3. CASE Begin
  <2>1. log' = log /\ last' = start' /\ last' \in {0, Len(log)}
    BY <1>3 DEF Begin, loop
  <2>2. EveryEventDelivered'
    <3>0. last' \in Nat /\ start' = last'
      BY <1>0, <2>1
    <3>1. \A n \in Nat : (n + 1)..n = {}
      OBVIOUS
    <3>2. (start' + 1)..last' = {}
      BY <3>0, <3>1
    <3> QED BY <3>2 DEF EveryEventDelivered
  <2> QED BY <1>0, <2>1, <2>2 DEF Reading
<1>4. CASE ReadMatch \/ ReadAll
  BY <1>4, PollReading
<1>5. CASE Probe \/ Unanswered
  <2>1. values' = values /\ log' = log /\ sub' = sub /\ last' = last /\ start' = start
        /\ delivered' = delivered /\ dropped' = dropped
    BY <1>5 DEF Probe, Unanswered, loop, thread, past
  <2>2. pc = "probe" \/ (pc = "ask" /\ pc' = "pause")
    <3>1. CASE Probe
      BY <3>1 DEF Probe
    <3>2. CASE Unanswered
      BY <3>2 DEF Unanswered
    <3> QED BY <1>5, <3>1, <3>2
  <2>3. pc = "probe" => last = start
    BY DEF Reading
  <2> QED BY <1>0, <2>1, <2>2, <2>3, KeepsReading
<1>6. CASE CheckSequence \/ Sample \/ Snapshot \/ CompareSnapshot \/ PollAgain \/ TimesOut
           \/ PeerCloses
  <2>1. values' = values /\ log' = log /\ sub' = sub /\ last' = last /\ start' = start
        /\ dropped' = dropped /\ delivered \subseteq delivered'
    BY <1>6 DEF CheckSequence, Sample, Snapshot, CompareSnapshot, PollAgain, TimesOut,
       PeerCloses, Deliver, loop, thread, past
  <2>2. pc \notin {"start", "probe"} /\ pc' # "probe"
    BY <1>6 DEF CheckSequence, Sample, Snapshot, CompareSnapshot, PollAgain, TimesOut,
       PeerCloses, Deliver
  <2> QED BY <1>0, <2>1, <2>2, KeepsReading
<1>7. CASE UNCHANGED vars
  BY <1>7 DEF vars, Reading, EveryEventDelivered, Matches, Concerns
<1> QED BY <1>1, <1>2, <1>3, <1>4, <1>5, <1>6, <1>7 DEF Next

(* Of the events asked for, those the ring still had when it was polled    *)
(* are delivered before last_sequence passes them, however polls that end  *)
(* early, filters and snapshots interleave (events_after, poll).           *)
THEOREM NoEventPassedOver == Spec => []EveryEventDelivered
<1>1. Init => Reading
  BY DEF Init, Reading, EveryEventDelivered
<1>2. Inv /\ Reading /\ [Next]_vars => Reading'
  BY NextReading
<1>3. Reading => EveryEventDelivered
  BY DEF Reading
<1> QED BY <1>1, <1>2, <1>3, Invariance, PTL DEF Spec

-----------------------------------------------------------------------------
(* What is sampled and waited for, and when a wait may end with nothing.   *)
Sampling ==
    /\ sub \in [kind : Kinds, filter : Values \cup {None}, wait : BOOLEAN]
    /\ sub.wait => sub.filter # None /\ sub.kind \in {"status", "output"}
    /\ sampled \in Values \cup {None}
    /\ delivered \subseteq 1..Len(log)
    /\ initial # 0 => sub.filter = values[initial]
    /\ sub.kind \in {"scroll", "output"} => pc # "check"

(* A wait that has sampled what it waits for has told it, or holds it as   *)
(* the initial status and will tell it first.                              *)
Unheard ==
    /\ pc \in {"start", "probe"} => sampled = None
    /\ sub.wait /\ told = 0 /\ sampled = sub.filter => initial # 0

(* If the watched thing stands since the poll began, a wait has yet to ask *)
(* for it, or has it in the answer, and the hub is where the poll left it. *)
Heard ==
    sub.wait /\ told = 0 /\ standing =>
        /\ pc \in {"check", "ask", "compare"}
        /\ Current = sub.filter
        /\ sub.kind = "status" => ~emitting /\ Len(log) = last
        /\ pc = "compare" => answer = Version

Waiting == Sampling /\ Unheard /\ Heard

LEMMA InitWaiting ==
    ASSUME Init
    PROVE  Waiting
<1>1. sub \in [kind : Kinds, filter : Values \cup {None}, wait : BOOLEAN]
      /\ (sub.kind \in {"event", "scroll"} => sub.filter = None /\ ~sub.wait)
      /\ (sub.kind = "output" \/ sub.wait => sub.filter # None)
      /\ sampled = None /\ initial = 0 /\ delivered = {} /\ standing = FALSE /\ pc = "start"
  BY DEF Init
<1>2. Sampling
  BY <1>1 DEF Sampling, Kinds
<1>3. Unheard /\ Heard
  BY <1>1 DEF Unheard, Heard
<1> QED BY <1>2, <1>3 DEF Waiting

LEMMA ValueOfStatus ==
    ASSUME Inv, NEW i \in DOMAIN log, Status(i)
    PROVE  values[log[i].version] \in Values /\ log[i].version # 0
<1>1. log[i].version \in DOMAIN values /\ log[i].version # 0
  BY Versions DEF Inv, LogOrdered
<1> QED BY <1>1, Element DEF Inv, Typed

(* The loop's steps end a standing, and disturb nothing else.              *)
LEMMA LoopWaiting ==
    ASSUME Inv, Waiting, ChangeStatus \/ ChangeSilently \/ PushStatus \/ PushOther
    PROVE  Waiting'
<1>1. /\ sub' = sub /\ pc' = pc /\ sampled' = sampled /\ initial' = initial /\ told' = told
      /\ delivered' = delivered /\ standing' = FALSE
  BY DEF ChangeStatus, ChangeSilently, PushStatus, PushOther, Change, Push, thread, past
<1>2. \A n \in 1..Version : values'[n] = values[n]
  <2>1. CASE values' = values
    BY <2>1
  <2>2. CASE \E v \in Values : values' = Append(values, v)
    BY <2>2, Appended DEF Inv, Typed, Version
  <2> QED BY <2>1, <2>2
        DEF ChangeStatus, ChangeSilently, PushStatus, PushOther, Change
<1>3. Len(log) \in Nat /\ Len(log') \in Nat /\ Len(log) <= Len(log')
  <2>1. CASE log' = log
    BY <2>1, Versions DEF Inv
  <2>2. CASE \E e \in [kind : {"status", "other"}, version : Nat] : log' = Append(log, e)
    BY <2>2, Versions, Appended DEF Inv, Typed
  <2>3. /\ [kind |-> "status", version |-> Version]
               \in [kind : {"status", "other"}, version : Nat]
        /\ [kind |-> "other", version |-> 0] \in [kind : {"status", "other"}, version : Nat]
    BY Versions DEF Inv
  <2> QED BY <2>1, <2>2, <2>3
        DEF ChangeStatus, ChangeSilently, PushStatus, PushOther, Push
<1>4. initial \in 0..Version
  BY Versions DEF Inv, Typed
<1>5. Sampling'
  BY <1>1, <1>2, <1>3, <1>4 DEF Waiting, Sampling
<1>6. Unheard' /\ Heard'
  BY <1>1 DEF Waiting, Unheard, Heard
<1> QED BY <1>5, <1>6 DEF Waiting

LEMMA ProbeWaiting ==
    ASSUME Inv, Waiting, Probe
    PROVE  Waiting'
<1>1. /\ values' = values /\ log' = log /\ sub' = sub /\ told' = told
      /\ delivered' = delivered /\ standing' = standing
      /\ pc = "probe" /\ pc' = "poll"
      /\ sampled' = (IF sub.kind = "output" THEN None ELSE Current)
      /\ initial' = InitialEvent
  BY DEF Probe, loop
<1>2. Current \in Values /\ Version # 0
  <2>1. Version \in DOMAIN values
    BY Versions DEF Inv
  <2> QED BY <2>1, Element, Versions DEF Inv, Typed, Current
<1>3. Sampling'
  BY <1>1, <1>2 DEF Waiting, Sampling, InitialEvent, Current
<1>4. Unheard'
  BY <1>1, <1>2, SubscriptionConstants DEF Waiting, Sampling, Unheard, InitialEvent
<1>5. Heard'
  BY <1>1 DEF Waiting, Heard
<1> QED BY <1>3, <1>4, <1>5 DEF Waiting

LEMMA ReadMatchWaiting ==
    ASSUME Inv, Waiting, ReadMatch
    PROVE  Waiting'
<1>1. /\ values' = values /\ log' = log /\ sub' = sub /\ pc' \in {"done", "pause"}
  BY DEF ReadMatch, EventPoll, Deliver, loop
<1>2. PICK i \in DOMAIN log :
          /\ Concerns(i)
          /\ told' = (IF log[i].version = 0 THEN told ELSE log[i].version)
          /\ delivered' = delivered \cup {i}
          /\ IF sub.kind = "event" THEN UNCHANGED <<sampled, initial>>
             ELSE sampled' = values[log[i].version] /\ initial' = 0
  BY DEF ReadMatch, Deliver, After, Matches
<1>3. sub.kind = "status" => Status(i)
  BY <1>2 DEF Concerns, Status
<1>4. sub.kind \in {"status", "event"}
  BY DEF ReadMatch, EventPoll
<1>5. i \in 1..Len(log)
  BY Versions DEF Inv
<1>6. Sampling'
  <2>1. sampled' \in Values \cup {None}
    BY <1>2, <1>3, <1>4, ValueOfStatus DEF Waiting, Sampling
  <2>2. initial' = initial \/ initial' = 0
    BY <1>2
  <2> QED BY <1>1, <1>2, <1>5, <2>1, <2>2 DEF Waiting, Sampling
<1>7. sub.wait => told' # 0
  BY <1>2, <1>3, ValueOfStatus, <1>4 DEF Waiting, Sampling
<1>8. Unheard' /\ Heard'
  BY <1>1, <1>7 DEF Unheard, Heard
<1> QED BY <1>6, <1>8 DEF Waiting

(* A set of sequence numbers that are in the log has a greatest member.    *)
LEMMA GreatestInLog ==
    ASSUME NEW n \in Nat, NEW S \in SUBSET (1..n), S # {}
    PROVE  Max(S) \in S
<1> DEFINE R == OpToRel(<, Nat)
           distances == {n - x : x \in S}
<1>1. PICK d \in distances : \A e \in distances : ~(<<e, d>> \in R)
  <2>1. distances \subseteq Nat /\ distances # {}
    OBVIOUS
  <2> HIDE DEF R, distances
  <2>2. IsWellFoundedOn(R, Nat)
    BY NatLessThanWellFounded DEF R
  <2> QED BY <2>1, <2>2, WFMin
<1>2. PICK x \in S : d = n - x
  OBVIOUS
<1>3. \A y \in S : x >= y
  <2>1. ASSUME NEW y \in S
        PROVE  ~(n - y < n - x)
    <3>1. n - y \in distances /\ n - y \in Nat /\ n - x \in Nat
      OBVIOUS
    <3>2. <<n - y, n - x>> \notin R
      BY <1>1, <1>2, <3>1
    <3> QED BY <3>1, <3>2 DEF OpToRel
  <2> QED BY <2>1
<1> QED BY <1>3 DEF Max

LEMMA ReadAllWaiting ==
    ASSUME Inv, Waiting, ReadAll
    PROVE  Waiting'
<1>1. /\ values' = values /\ log' = log /\ emitting' = emitting /\ sub' = sub
      /\ told' = told /\ delivered' = delivered /\ last' = Len(log)
      /\ standing' = (~emitting /\ Current = sub.filter)
      /\ sub.kind \in {"status", "event"}
      /\ pc' \in {"pause", "check", "ask"}
      /\ pc' = "pause" => sub.kind = "event"
  BY DEF ReadAll, EventPoll, loop
<1>2. \/ UNCHANGED <<sampled, initial>>
      \/ /\ sub.kind = "status" /\ initial' = 0 /\ sampled' \in Values
         /\ sub.filter # None => sampled' # sub.filter
  <2> DEFINE saw == {i \in After(last) : sub.kind = "status" /\ Concerns(i)}
  <2>1. CASE saw = {}
    BY <2>1 DEF ReadAll
  <2>2. CASE saw # {}
    <3>1. sampled' = values[log[Max(saw)].version] /\ initial' = 0
      BY <2>2 DEF ReadAll
    <3>2. Max(saw) \in saw
      <4>1. saw \subseteq 1..Len(log) /\ Len(log) \in Nat
        BY Versions DEF Inv, After
      <4> QED BY <2>2, <4>1, GreatestInLog
    <3>3. /\ Max(saw) \in DOMAIN log /\ Max(saw) \in After(last) /\ Concerns(Max(saw))
          /\ sub.kind = "status"
      BY <3>2 DEF After
    <3>4. Status(Max(saw)) /\ ~Matches(Max(saw))
      BY <3>3 DEF ReadAll, Concerns, Status
    <3>5. sampled' \in Values
      BY <3>1, <3>3, <3>4, ValueOfStatus
    <3> QED BY <3>1, <3>3, <3>4, <3>5 DEF Matches
  <2> QED BY <2>1, <2>2
<1>3. Sampling'
  BY <1>1, <1>2 DEF Waiting, Sampling
<1>4. Unheard'
  BY <1>1, <1>2 DEF Waiting, Sampling, Unheard
<1>5. Heard'
  BY <1>1 DEF Waiting, Sampling, Heard, Current, Version
<1> QED BY <1>3, <1>4, <1>5 DEF Waiting

LEMMA CheckSequenceWaiting ==
    ASSUME Inv, Waiting, CheckSequence
    PROVE  Waiting'
<1>1. /\ values' = values /\ log' = log /\ emitting' = emitting /\ sub' = sub
      /\ last' = last /\ sampled' = sampled /\ answer' = answer /\ standing' = standing
      /\ pc = "check"
      /\ delivered' = delivered
      /\ \/ Len(log) # last /\ UNCHANGED <<initial, told>> /\ pc' = "pause"
         \/ /\ initial # 0 /\ initial' = 0 /\ told' = initial
            /\ pc' \in {"done", "pause"}
         \/ Len(log) = last /\ UNCHANGED <<initial, told>> /\ pc' = "ask"
  BY DEF CheckSequence, Deliver, loop
<1>2. Sampling'
  BY <1>1 DEF Waiting, Sampling
<1>3. Unheard'
  BY <1>1 DEF Waiting, Unheard
<1>4. Heard'
  BY <1>1 DEF Waiting, Sampling, Heard, Current, Version
<1> QED BY <1>2, <1>3, <1>4 DEF Waiting

LEMMA CompareSnapshotWaiting ==
    ASSUME Inv, Waiting, CompareSnapshot
    PROVE  Waiting'
<1>1. /\ values' = values /\ log' = log /\ emitting' = emitting /\ sub' = sub
      /\ last' = last /\ initial' = initial /\ standing' = standing
      /\ pc = "compare" /\ pc' \in {"done", "pause"}
      /\ delivered' = delivered
  BY DEF CompareSnapshot, Deliver, loop
<1>2. answer \in DOMAIN values /\ answer # 0 /\ initial = 0
  BY <1>1, Versions DEF Inv, Typed, InitialFirst
<1>3. \/ UNCHANGED <<told, sampled>> /\ ~Trusted
      \/ sampled' = values[answer] /\ told' = answer
      \/ /\ sampled' = values[answer] /\ told' = told
         /\ ~(sampled # values[answer] /\ sub.filter \in {None, values[answer]})
  BY <1>2 DEF CompareSnapshot, Deliver
<1>4. values[answer] \in Values
  BY <1>2, Element DEF Inv, Typed
<1>5. Sampling'
  BY <1>1, <1>3, <1>4 DEF Waiting, Sampling
<1>6. Unheard'
  BY <1>1, <1>2, <1>3 DEF Waiting, Unheard
<1>7. sub.wait /\ standing => told' # 0
  <2>1. ASSUME sub.wait, standing, told = 0
        PROVE  told' # 0
    <3>1. values[answer] = sub.filter /\ Trusted
      BY <1>1, <2>1 DEF Waiting, Heard, Sampling, Current, Trusted
    <3>2. sampled # sub.filter
      BY <1>2, <2>1 DEF Waiting, Unheard
    <3> QED BY <1>2, <1>3, <3>1, <3>2
  <2>2. told # 0 => told' # 0
    BY <1>2, <1>3
  <2> QED BY <2>1, <2>2
<1>8. Heard'
  BY <1>1, <1>7 DEF Heard
<1> QED BY <1>5, <1>6, <1>8 DEF Waiting

(* The steps that only move the thread on, or take the snapshot.           *)
LEMMA MoveWaiting ==
    ASSUME Inv, Waiting,
           Begin \/ Sample \/ Snapshot \/ Unanswered \/ PollAgain \/ TimesOut \/ PeerCloses
    PROVE  Waiting'
<1>1. /\ values' = values /\ log' = log /\ emitting' = emitting /\ sub' = sub
      /\ sampled' = sampled /\ initial' = initial /\ told' = told /\ delivered' = delivered
      /\ pc' # "check" /\ pc' # "start"
      /\ pc' = "probe" => pc = "start"
  BY DEF Begin, Sample, Snapshot, Unanswered, PollAgain, TimesOut, PeerCloses, loop, thread,
     past
<1>2. Sampling'
  BY <1>1 DEF Waiting, Sampling
<1>3. Unheard'
  BY <1>1 DEF Waiting, Unheard
<1>4. Heard'
  <2>1. CASE Sample
    BY <1>1, <2>1 DEF Sample, Heard, Current, Version
  <2>2. CASE Snapshot
    BY <1>1, <2>2 DEF Snapshot, Waiting, Heard, Current, Version
  <2>3. CASE Unanswered \/ PeerCloses
    BY <2>3 DEF Unanswered, PeerCloses, Heard
  <2>4. CASE Begin \/ PollAgain \/ TimesOut
    <3>1. standing' = standing /\ pc \in {"start", "pause"}
      BY <2>4 DEF Begin, PollAgain, TimesOut
    <3> QED BY <1>1, <3>1 DEF Waiting, Heard
  <2> QED BY <2>1, <2>2, <2>3, <2>4
<1> QED BY <1>2, <1>3, <1>4 DEF Waiting

LEMMA NextWaiting ==
    ASSUME Inv, Waiting, [Next]_vars
    PROVE  Waiting'
<1>1. CASE UNCHANGED vars
  BY <1>1 DEF vars, Waiting, Sampling, Unheard, Heard, Current, Version
<1> QED BY <1>1, LoopWaiting, ProbeWaiting, ReadMatchWaiting, ReadAllWaiting,
        CheckSequenceWaiting, CompareSnapshotWaiting, MoveWaiting DEF Next

THEOREM WaitingHolds == Spec => []Waiting
<1>1. Inv /\ Waiting /\ [Next]_vars => Waiting'
  BY NextWaiting
<1> QED BY <1>1, InitWaiting, Invariance, PTL DEF Spec

(* What the hub, the subscription and the connection's thread hold.        *)
THEOREM TypesHold == Spec => []TypeOK
<1>1. Inv /\ Reading /\ Waiting => TypeOK
  <2> SUFFICES ASSUME Inv, Reading, Waiting
               PROVE  TypeOK
    OBVIOUS
  <2>1. Len(log) \in Nat /\ Version \in Nat
    BY Versions DEF Inv
  <2>2. last \in 0..Len(log) /\ initial \in 0..Version /\ answer \in 0..Version
    BY <2>1 DEF Inv, Typed, Reading
  <2>3. (pc = "compare") = (answer # 0)
    BY DEF Inv, Typed
  <2> QED BY <2>2, <2>3 DEF TypeOK, Inv, Typed, InitialFirst, Waiting, Sampling
<1>2. Init => Reading
  BY DEF Init, Reading, EveryEventDelivered
<1>3. Inv /\ Reading /\ [Next]_vars => Reading'
  BY NextReading
<1> QED BY <1>1, <1>2, <1>3, Invariance, WaitingHolds, PTL DEF Spec

(* A wait that timed out was not passed by: since its last poll began, the *)
(* watched thing was not what it waits for, or the hub moved, or the loop  *)
(* did not answer (wait_for_event, wait_for_output).                       *)
THEOREM TimeoutsHonest == Spec => []TimeoutHonest
<1>1. Waiting => TimeoutHonest
  BY DEF Waiting, Heard, TimeoutHonest
<1> QED BY <1>1, WaitingHolds, PTL

=============================================================================
