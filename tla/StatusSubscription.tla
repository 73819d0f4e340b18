------------------------- MODULE StatusSubscription -------------------------
(***************************************************************************)
(* A connection that subscribes to events or waits for one (src/api).  The *)
(* application loop changes a pane and pushes events to the event hub, a   *)
(* ring of bounded length; the connection's thread polls the hub and, for  *)
(* what the hub does not announce, asks the loop for a snapshot.  The two  *)
(* are told apart only by the hub's sequence number, read around the       *)
(* snapshot.                                                               *)
(*                                                                         *)
(* Connections share nothing but the hub and the loop: one is modelled.    *)
(***************************************************************************)
EXTENDS Naturals, Sequences, FiniteSetsExt

CONSTANTS
    Values,      \* what the watched thing can be: an agent status, a scroll
                 \* position, whether the output matches
    Unannounced, \* <<from, to>>: status changes that push no event (seen)
    None,        \* no filter; no value sampled yet
    Capacity,    \* MAX_EVENTS
    MaxChanges,  \* bound: changes of the watched thing
    MaxPushes    \* bound: events pushed

ASSUME SubscriptionConstants ==
    /\ None \notin Values
    /\ Capacity \in Nat \ {0}

Kinds == {"status", "event", "scroll", "output"}

VARIABLES
    values,    \* the versions of the watched thing, the last one current
    emitting,  \* the loop has changed the status, and has yet to push it
    log,       \* the events pushed; the hub keeps the last Capacity of them
    sub,       \* what is subscribed to: kind, filter, and whether to wait
    pc,        \* where the connection's thread is
    last,      \* last_sequence
    sampled,   \* last_status, last_scroll or currently_matching
    initial,   \* the version in initial_event, 0 for none
    answer,    \* the version in the loop's answer
    told,      \* history: the version told last
    probed,    \* history: the version probed at the start
    start,     \* history: last_sequence at the start
    delivered, \* history: sequence numbers of the events delivered
    dropped,   \* history: of those gone from the hub before they were read
    standing   \* history: since this poll began, the watched thing has been
               \* what is waited for, and nothing came in between

vars == <<values, emitting, log, sub, pc, last, sampled, initial, answer, told,
          probed, start, delivered, dropped, standing>>
loop == <<values, emitting, log>>
thread == <<last, sampled, initial, answer>>
past == <<told, probed, start, delivered, dropped>>

Version == Len(values)
Current == values[Version]

TypeOK ==
    /\ emitting \in BOOLEAN
    /\ sub \in [kind : Kinds, filter : Values \cup {None}, wait : BOOLEAN]
    /\ pc \in {"start", "probe", "poll", "check", "ask", "compare", "pause", "done"}
    /\ last \in 0..Len(log)
    /\ sampled \in Values \cup {None}
    /\ initial \in 0..Version
    /\ answer \in 0..Version
    /\ (pc = "compare") = (answer # 0)
    /\ delivered \subseteq 1..Len(log)
    /\ initial # 0 => sub.filter = values[initial] /\ sampled = sub.filter

Init ==
    /\ \E v \in Values : values = <<v>>
    /\ emitting = FALSE /\ log = << >>
    /\ sub \in [kind : Kinds, filter : Values \cup {None}, wait : BOOLEAN]
    /\ sub.kind \in {"event", "scroll"} => sub.filter = None /\ ~sub.wait
    /\ sub.kind = "output" \/ sub.wait => sub.filter # None
    /\ pc = "start" /\ last = 0 /\ sampled = None /\ initial = 0 /\ answer = 0
    /\ told = 0 /\ probed = 1 /\ start = 0 /\ delivered = {} /\ dropped = {}
    /\ standing = FALSE

-----------------------------------------------------------------------------
(* The application loop.                                                   *)

Push(event) ==
    /\ Len(log) < MaxPushes
    /\ log' = Append(log, event)
    /\ standing' = FALSE

Change(v) ==
    /\ ~emitting /\ Version <= MaxChanges
    /\ v # Current
    /\ values' = Append(values, v)
    /\ standing' = FALSE

\* The loop changes the status of the pane's agent, and pushes the event in
\* the same turn: others may read the hub in between, but get no snapshot.
ChangeStatus ==
    /\ sub.kind \in {"status", "event"}
    /\ Len(log) < MaxPushes
    /\ \E v \in Values : Change(v)
    /\ emitting' = TRUE
    /\ UNCHANGED <<log, sub, pc, thread, past>>

PushStatus ==
    /\ emitting
    /\ Push([kind |-> "status", version |-> Version])
    /\ emitting' = FALSE
    /\ UNCHANGED <<values, sub, pc, thread, past>>

\* An event of another kind, or of another pane.  Room is left for the status.
PushOther ==
    /\ emitting => Len(log) + 1 < MaxPushes
    /\ Push([kind |-> "other", version |-> 0])
    /\ UNCHANGED <<values, emitting, sub, pc, thread, past>>

\* The user looks at the pane, scrolls it, or it prints: no event tells.
ChangeSilently ==
    /\ \E v \in Values :
          /\ sub.kind \in {"scroll", "output"} \/ <<Current, v>> \in Unannounced
          /\ Change(v)
    /\ UNCHANGED <<emitting, log, sub, pc, thread, past>>

-----------------------------------------------------------------------------
(* The connection's thread.                                                *)

\* What is told is written to the peer; it ends a wait.
Deliver(version, sequences) ==
    /\ told' = (IF version = 0 THEN told ELSE version)
    /\ delivered' = delivered \cup sequences
    /\ pc' = IF sub.wait THEN "done" ELSE "pause"

\* A subscription to events begins with the oldest the hub still has.
Begin ==
    /\ pc = "start"
    /\ pc' = IF sub.kind = "event" THEN "poll" ELSE "probe"
    /\ last' = IF sub.kind = "status" THEN Len(log) ELSE 0
    /\ start' = last'
    /\ UNCHANGED <<loop, sub, sampled, initial, answer, told, probed, delivered,
                   dropped, standing>>

\* Mutants.
InitialEvent_AnyStatus == IF sub.kind = "status" THEN Version ELSE 0
InitialEvent_Never == 0

\* The status already there is told only to who asked for that status.
InitialEvent ==
    IF sub.kind = "status" /\ sub.filter = Current THEN Version ELSE 0

Probe ==
    /\ pc = "probe" /\ ~emitting
    /\ pc' = "poll"
    /\ sampled' = IF sub.kind = "output" THEN None ELSE Current
    /\ initial' = InitialEvent
    /\ probed' = Version
    /\ UNCHANGED <<loop, sub, last, answer, told, start, delivered, dropped, standing>>

After(sequence) ==
    {i \in DOMAIN log : i > sequence /\ i + Capacity > Len(log)}

\* Is event i for this subscription, and should it be told?
Concerns(i) ==
    log[i].kind = (IF sub.kind = "event" THEN "other" ELSE sub.kind)
Matches(i) ==
    /\ Concerns(i)
    /\ sub.kind = "event" \/ sub.filter \in {None, values[log[i].version]}

\* Mutant: the newest match is told, and those before it are passed over.
First_Newest(i) == \A j \in After(last) : j > i => ~Matches(j)

First(i) == \A j \in After(last) : j < i => ~Matches(j)

\* A poll begins with the events after the last one read.
EventPoll ==
    /\ pc = "poll" /\ sub.kind \in {"status", "event"}
    /\ dropped' = dropped \cup ((last + 1)..(Len(log) - Capacity))
    /\ standing' = (~emitting /\ Current = sub.filter)
    /\ UNCHANGED <<loop, sub, answer, probed, start>>

\* It ends with the first event that matches...
ReadMatch ==
    /\ EventPoll
    /\ \E i \in {j \in After(last) : Matches(j) /\ First(j)} :
          /\ last' = i
          /\ IF sub.kind = "event" THEN UNCHANGED <<sampled, initial>>
             ELSE sampled' = values[log[i].version] /\ initial' = 0
          /\ Deliver(log[i].version, {i})

\* ... or reads them all, and takes the status from the last of its pane's.
ReadAll ==
    /\ EventPoll
    /\ \A i \in After(last) : ~Matches(i)
    /\ last' = Len(log)
    /\ LET saw == {i \in After(last) : sub.kind = "status" /\ Concerns(i)}
       IN  IF saw = {}
           THEN /\ pc' = IF sub.kind = "event" THEN "pause" ELSE "check"
                /\ UNCHANGED <<sampled, initial>>
           ELSE /\ pc' = "ask"
                /\ sampled' = values[log[Max(saw)].version] /\ initial' = 0
    /\ UNCHANGED <<told, delivered>>

\* With no event for the pane, and none since: the initial status stands.
CheckSequence ==
    /\ pc = "check"
    /\ \/ /\ Len(log) # last
          /\ pc' = "pause"
          /\ UNCHANGED <<initial, told, delivered>>
       \/ /\ Len(log) = last /\ initial # 0
          /\ Deliver(initial, {})
          /\ initial' = 0
       \/ /\ Len(log) = last /\ initial = 0
          /\ pc' = "ask"
          /\ UNCHANGED <<initial, told, delivered>>
    /\ UNCHANGED <<loop, sub, last, sampled, answer, probed, start, dropped, standing>>

\* The subscriptions that know no events begin a poll with the snapshot.
Sample ==
    /\ pc = "poll" /\ sub.kind \in {"scroll", "output"}
    /\ pc' = "ask"
    /\ standing' = (Current = sub.filter)
    /\ UNCHANGED <<loop, sub, thread, past>>

Snapshot ==
    /\ pc = "ask" /\ ~emitting
    /\ pc' = "compare" /\ answer' = Version
    /\ UNCHANGED <<loop, sub, last, sampled, initial, past, standing>>

\* The loop did not answer in time, or no longer has the pane.
Unanswered ==
    /\ pc \in {"probe", "ask"}
    /\ pc' = IF pc = "probe" THEN "done" ELSE "pause"
    /\ standing' = FALSE
    /\ UNCHANGED <<loop, sub, thread, past>>

\* Mutants.
Trusted_Always == TRUE
Trusted_SinceStart == sub.kind # "status" \/ Len(log) = start

\* Is the snapshot as recent as the last event read?
Trusted == sub.kind # "status" \/ Len(log) = last

CompareSnapshot ==
    /\ pc = "compare"
    /\ answer' = 0
    /\ LET value == values[answer]
       IN  IF ~Trusted
           THEN pc' = "pause" /\ UNCHANGED <<sampled, told, delivered>>
           ELSE /\ sampled' = value
                /\ IF sampled # value /\ sub.filter \in {None, value}
                   THEN Deliver(answer, {})
                   ELSE pc' = "pause" /\ UNCHANGED <<told, delivered>>
    /\ UNCHANGED <<loop, sub, last, initial, probed, start, dropped, standing>>

PollAgain ==
    /\ pc = "pause"
    /\ pc' = "poll"
    /\ UNCHANGED <<loop, sub, thread, past, standing>>

\* The wait's deadline has passed when a poll came back with nothing.
TimesOut ==
    /\ pc = "pause" /\ sub.wait
    /\ pc' = "done"
    /\ UNCHANGED <<loop, sub, thread, past, standing>>

PeerCloses ==
    /\ pc = "poll"
    /\ pc' = "done" /\ standing' = FALSE
    /\ UNCHANGED <<loop, sub, thread, past>>

-----------------------------------------------------------------------------
Thread == Begin \/ ReadMatch \/ ReadAll \/ CheckSequence \/ Sample \/ CompareSnapshot \/ PollAgain
Answered == Probe \/ Snapshot

Next ==
    \/ ChangeStatus \/ PushStatus \/ PushOther \/ ChangeSilently
    \/ Begin \/ Probe \/ ReadMatch \/ ReadAll \/ CheckSequence \/ Sample
    \/ Snapshot \/ Unanswered \/ CompareSnapshot \/ PollAgain \/ TimesOut \/ PeerCloses

\* The thread runs, the loop ends its turns, and it does not answer too late
\* for ever.
Fairness == WF_vars(Thread) /\ WF_vars(PushStatus) /\ SF_vars(Answered)

Spec == Init /\ [][Next]_vars /\ Fairness

-----------------------------------------------------------------------------
(* Properties.                                                             *)

\* A status, snapshot or event, is never told after a newer one, nor twice:
\* ActiveAgentStatusChangedSubscription::poll takes a snapshot only if the
\* hub has not moved since the last event read.
Feed == INSTANCE StatusFeed
FollowsFeed == Feed!Spec

\* Every event a subscription asked for was delivered before last_sequence
\* passed it, unless the ring had dropped it: reading one event per poll,
\* filtering, and accepting a snapshot skip none.
EveryEventDelivered ==
    sub.kind \in {"status", "event"} /\ pc \notin {"start", "probe"} =>
        \A i \in (start + 1)..last : Matches(i) => i \in delivered \cup dropped

\* wait_for_event and wait_for_output time out only if, since their last poll
\* began, the watched thing was not what they wait for, or the hub moved, or
\* the loop did not answer.
TimeoutHonest == (pc = "done" /\ sub.wait /\ told = 0) => ~standing

\* What the connection's peer may conclude is right.
UpToDate ==
    CASE sub.kind = "event" -> last = Len(log)
      [] sub.filter # None -> Current = sub.filter => told # 0
      [] OTHER -> Current = values[IF told = 0 THEN probed ELSE told]

\* Once the loop comes to rest, a live connection has been told what is the
\* case, also if it fell behind the ring and lost the event that said so.
Converges == <>[](pc = "done" \/ UpToDate)
=============================================================================
