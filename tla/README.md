# ORK3 in TLA+

ORK3 is a terminal workspace manager: a headless server owns the panes (a PTY and a
terminal emulator each), thin clients attach to it over a Unix socket, tools drive it
through a JSON API socket, and the whole server can be replaced by a newer one while the
programs in the panes go on. This directory models the parts of it where several actors
meet, checks them with TLC and proves the most important properties with TLAPS. Paths are
relative to the repository; the Rust code is under `src/src/`, called `src/` below.

Contents: [inventory](#inventory) · [modules](#modules) · [runs](#runs-and-what-they-show) ·
[findings](#findings) · [proofs](#proofs) · [what is not modelled](#what-is-not-modelled) ·
[plan](#plan) · [running it](#running-it)

## Inventory

Everything of the application (workspaces, tabs, panes, configuration, clients) is changed
by one thread, the server's event loop (`server/headless.rs`, `run`). What makes the system
hard is what runs beside it:

| beside the loop | talks to the loop through |
|---|---|
| one actor thread per PTY (`pty/actor/unix.rs`) | a bounded data channel, an unbounded control channel, two overwritable slots, a gate behind a mutex |
| a reader and a writer thread per client (`server/client_transport.rs`) | server events; a queue with one render slot |
| a thread per API connection (`api/server.rs`) | requests with a reply channel; the event hub |
| the other server during a handoff (`server/handoff.rs`) | lines and descriptors on a private socket; the public socket paths |
| save, git, plugin, scan and classifier threads | one event when done; files; the catalog's writer thread |

| component | state | operations | hard behaviour | what makes it correct |
|---|---|---|---|---|
| **PTY I/O actor** `pty/actor/unix.rs` | gate, queues, slots, write backlog, Running/Quiesced/Released | write input, respond, resize, nudge, begin/duplicate/rollback/release a handoff, shut down | a gate read before a wait for capacity; callers that time out while the actor goes on; partial and failed writes | accepted input reaches the PTY once and in order; a PTY being handed over is left alone; the last size wins |
| **Client registry** `server/headless.rs`, `clients.rs` | map of clients, foreground, activity order, direct owners, resize locks, sizes | connect, attach, observe, take over, resize, input, detach, removal, pane exit, render | handlers that remove clients midway; events of clients already removed; decisions taken before a change and used after it | one owner per terminal; no lock without owner; owned PTYs keep their owner's size, others follow the foreground's |
| **Live handoff** `server/headless.rs`, `server/handoff.rs` | step of either server, paused panes, duplicates, socket files and listeners | pause, spawn, send, import, restore, withdraw and bind sockets, commit, acknowledge, roll back | two processes, timeouts at every wait, crashes of either, a third server spawned meanwhile | every PTY has one keeper, only it reads; nothing is lost while it lives; the sockets lead to it |
| **Agent state of a terminal** `terminal/state.rs`, the detector task in `pane.rs` | detected state, hook authority, suppressed reports, report sequences, session references | screen detection, hook reports, release, process exit | late and reordered reports over several agents in one terminal | a report of an agent that is gone changes nothing; a newer report is never undone by an older |
| **Event hub, subscriptions, waits** `api/` | ring of 512 events, a position per subscriber | push, poll, snapshot | eviction; a snapshot racing pushed events | a status subscriber ends on the present status; none goes back |
| **Render delivery** `server/client_transport.rs`, `clients.rs`, `render_stream.rs`, `headless.rs` | what each pane shows and which rows are dirty, a render flag, per client a render slot, the frame sent last and a deferred render | draw whole frames or patch dirty rows, send differences, defer, drain | slow and departing writers; a slot freed before its frame is written; dirty rows shared by several clients | a difference is drawn over the frame it was made from; no change is forgotten; who goes on reading sees the last frame |
| **Session persistence** `app/session.rs`, `persist/` | dirty flag, deadline, save thread, two files | debounce, background save, final save, load | crash between two files; two servers; failed saves; a save that outlasts the next deadline or the exit | what is loaded is one saved state; the last change is saved |
| Server start `ipc.rs`, `server/autodetect.rs` | socket files, listeners | probe, remove, bind, spawn, wait | two servers starting at once | one server answers at both paths |
| Projects `projects/`, `app/project_runtime.rs` | catalog (SQLite), scan cache, leases | scan, classify, lock, map to panes | classifications written back late; generations | a user's lock wins; leases do not clear each other |
| Worktrees `app/worktrees.rs`, `app/api/worktrees/` | pending operations by checkout | add, open, remove | git on a thread of its own; two records of what is pending | one operation per checkout; nothing stopped for an operation that fails |
| Workspaces, tabs, panes, layout, popups `app/`, `workspace.rs`, `layout.rs` | the tree of panes | split, close, move, focus | much, but sequential | no pane lost or in two places |
| Emulation, protocol, input, interface, configuration, plugins, integrations, CLI, update, remote, platform | mostly data | conversions and I/O | little control | see `PROJECT.json` |

Interactions: the loop calls `PaneRuntime`, which calls the actor's handle
(ClientRegistry's PTY sizes become PtyActor's resizes; LiveHandoff's pausing is PtyActor's
`begin_handoff`). A pane's exit reaches the registry as an event. A handoff empties the
registry, withdraws the sockets, and is undone through the actors' rollback. What changes
the agent of a terminal pushes an event, which a connection's thread reads from the hub,
and marks the session dirty, which in time starts a save. A committed handoff takes the
state, but not a save still due, to the other process.

`PROJECT.json` lists every component with its sources and, under `hazards`, each place in
the code that is hard to test with the properties that watch it or the reason none does yet.

## Modules

| module | models | extends / uses |
|---|---|---|
| `PtyActor` | one pane's actor thread, its writers and its controller | – |
| `ClientRegistry` | the server's clients, foreground, direct attach and PTY sizes | – |
| `LiveHandoff` | both servers, their lines, the actors as seen from them, the public sockets, a visitor | refines `PaneCustody` |
| `PaneCustody` | abstract: who keeps and who reads each PTY | – |
| `TerminalAgent` | the agent record of one terminal: every operation as a function of the record | – |
| `AgentAuthority` | one pane: programs, their reports, the detector task, the loop that applies both | `TerminalAgent` |
| `StatusSubscription` | the event hub and one connection of any kind | refines `StatusFeed` |
| `StatusFeed` | abstract: a feed of the versions of a thing | – |
| `SessionSave` | dirty flag, deadline, save thread, exit, the two files, crashes and handoffs | – |
| `RenderDelivery` | the panes' readers, the loop's rendering, the clients' render slots and writers | – |
| `PtyActorProofs`, `ClientRegistryProofs`, `LiveHandoffProofs`, `AgentAuthorityProofs`, `StatusSubscriptionProofs`, `SessionSaveProofs`, `RenderDeliveryProofs` | theorems | the module each is named after |
| `ClientRegistryStepProofs` | further theorems of ClientRegistry | `ClientRegistryProofs` |
| `MC...` | constants for TLC | the module each is named after |

Operators named `X_Something` beside an `X` are plausible faults of `X`; `PROJECT.json`
(`mutants`) says which property each one breaks. `map` gives the source lines of every
definition.

### PtyActor

The actor thread is cut where another thread can see a difference: one action per command
handled, per flush of the write backlog, per phase of `run` (control commands, data
commands, flush, poll, read). `pc` is its place. Writers take `write_user_input` in the
code's three steps: look at the gate, wait for capacity (`HasRoom`), look again and send
under the lock (`SendPermit`). The controller is the server thread: each call posts a
command and waits, may give up at any moment (`call`, `reply`), and a reply to a call it
no longer waits for is lost; `calls` numbers them so that a late reply is recognised.
`resizeSlot` and `nudgeSlot` are overwritten, not queued. `want` is the size that
`PaneRuntime::resize` believes it has set and that suppresses equal requests.

An item of input is a pair (writer, number) of two units, so that a short write can end
inside it; `sent` numbers a writer's items, refused ones included, so that no two are the same;
`wire`, `accepted`, `lost`, `reads`, `handed` and `raced` are history. A spawned
actor starts Running, an imported one Quiesced.

Left out: what is read from the PTY, the process group signal of a release, descriptors
(the duplicate of a reply nobody waits for is not counted), several controllers (all calls
come from the server loop).

### ClientRegistry

The registry is one record, `srv`, and every method of the code is an operator from record
to record (`Promote`, `Remove`, `SharedResize`, ...), composed by the handlers as the code
composes them. A handler is one step, since the loop runs it to its end; the three loops
that remove several clients in hash-map order take one step per client (`todo`, `why`), with
no other event in between. Around the loop, clients send, leave, and have their writer die
at any time (`link`, `writer`): events of a client already removed still arrive.

Activity stamps are kept as an order (`older`), so they need no bound. A PTY's size is
recorded with its author (`"shared"` or `"direct"`). Clients follow the shipped client's
order: a direct client's attach or observe is its first message (`client/mod.rs:854`, 873,
1181). `alive` is the set of terminals the application knows; both the child's exit
(`PaneDied`) and a close from the interface (`PaneClosed`) remove from it.

Left out: the retained-PTY and graphics render path, themes, keybindings, focus and mouse
mode, clipboard images, a render with no targets, tabs not shown, the final shutdown
broadcast, panes that survive their PaneDied event, agent resumes that are still pending,
and the lock removal of popups.

### LiveHandoff and PaneCustody

The old server's steps are those of `perform_live_handoff` (pause every pane in a tab, spawn
the import, duplicate the masters, accept, validate, send manifest and descriptors, wait
for the restore, withdraw the public sockets, wait for ready, commit, drain, wait for the
acknowledgement, close), the import's those of `run_handoff_import_server`. Lines travel in
order; every wait may end in a timeout or because the peer is gone. A failing step takes the
code's rollback: kill and reap the import, restore the sockets, resume the paused panes. An
import that fails unwinds and drops its runtimes (`failing`), one that crashes or is killed
drops nothing; the old server may crash at every step. `resume` holds the rollback commands
that an actor has not yet handled, the seam to PtyActor. The sockets are files with an owner
and a set of listeners, so that removing a file by path, by recorded identity, or in a
handle's Drop are different things. The visitor is the server that `auto_detect_launch`
spawns when nobody answers.

`PaneCustody` is the promise without lines and sockets: `keeper`, `reader`, `up`, and the
steps Pause, Resume, Start, HandOver, End. The mapping (`Custody` in `LiveHandoff`): a PTY
belongs to nobody when no actor, duplicate, message or import holds its master, else to the
new server once "committed" was written, before that to the old one; its readers are the
servers whose actor runs.

Left out: probe and bind of a socket are one step here (the race between them is that of
ServerStartup below), errors of bind other than a busy path, more than 64 panes (the batch
of descriptors), what a quiesced actor still does with resizes, and late duplicates.

### TerminalAgent and AgentAuthority

`TerminalAgent` has the record of `TerminalState` as far as it decides who speaks for the
agent: the detected agent, the hook authority, the persisted session, and per source the
last sequence number, the suppression and the stale sessions. `HookReport`, `SessionStart`,
`Release`, `ClearAuthority` and `Detected` are the methods of the same purpose, each a
function from the record before to the record after, in the order of the code's conditions.
The content of a report (state, message) is named by its sequence number.

`AgentAuthority` puts the record between its two sources. Programs start in the pane's
foreground, send state, session and release reports, switch sessions and quit; a report is
in `reports` until it is handled, in any order, or lost. The detector task probes the
foreground at times of its own (`Turn`): a shell after an agent is first reported as an
exit, then forgotten; an agent that released the pane is not seen until the release expires
or another program is there; while an agent with a full lifecycle has the authority it
pauses. `Settle` is what the loop does after each operation: it sets the pause and reset
flags and marks the observations still queued, which `late` and `unseen` stand for (the code
compares the time of the authority and of the suppression with that of the observation).
Two variables are history. `withdrawn` has the sessions that lost the authority and neither
got it back nor were begun anew. `ended` has, for each agent with a full lifecycle, the number
below which its reports come from programs known to have ended: all numbers (`Forever`) from
the exit that took its authority until the detector sees a process of it start, or, once a
release is handled in between, those below the release (`EndedByReport`, `EndedByEvent`).

A full queue blocks the detector's whole turn. Left out: what the screen says (states,
blockers, start-up grace), metadata reports, sources that are not official, and a launch
pane that respawns its shell after a handoff (which clears the suppression).

### StatusSubscription and StatusFeed

The watched thing is a sequence of versions (`values`); the loop changes it and, in the same
turn, pushes an event about it (`emitting` holds the moment in between, when the hub can be
read but no snapshot is answered), or changes it without an event: a status that is merely
seen, a scroll position, output. The hub keeps the last `Capacity` events. The connection's
thread takes a poll in the steps in which others can come between: read events up to the
first that matches (`ReadMatch`, `ReadAll`), look whether the hub has moved
(`CheckSequence`), ask the loop (`Snapshot`, `Unanswered`), compare the answer
(`CompareSnapshot`, trusted only if the hub is where the last event was read). `sub` ranges
over all kinds of subscription, with and without a filter, streaming or waiting.

`StatusFeed` is the promise: versions are told in their order, each at most once, and some
may be skipped.

A snapshot the loop does not answer (`Unanswered`) leaves the thread polling. In the code
`pane.wait_for_output` ends with an error then (`api/wait.rs:69`); the model's wait goes on,
and so has more to answer for.

Left out: matching of text, encoding, the name of the pane (events of other panes are
`PushOther`), a scroll position of none.

### SessionSave

A change gives the state a new version and a snapshot is its version. The loop turns the
dirty flag into a deadline (`SyncSchedule`), puts a due save off while the thread of an
earlier one runs (`Postpone`), or starts it (`Due`, in the loop itself when no thread can be
started). `Write` is the four file steps (create the temporary file, fill it, rename,
remove), first for the session, then for the history; each may fail, and then the rest is
left undone. `Stop`, `SaveNow` and `Exit` are the end of the loop with the final save,
`Crash` may come between any two steps, `Start` reads what is there, or finds it unreadable
and starts empty. `Handoff` puts another process in place that knows the state but not that
a save was due. `lost` and `cut` are history: the last version whose save failed or was
dropped, and whether the last save came to its end.

Left out: the contents of the files, a power failure (nothing is synced to the device), and
the old and the new process of a handoff saving at once: the old one leaves at most about
0.6 seconds after the commit (`OWNED_ACK_TIMEOUT` and the shutdown of its runtime), and the
new one's first save waits five seconds. Only a new server that is stopped within that time,
and so saves at once, could overlap a save still under way in the old one; they would share
the temporary names.

### RenderDelivery

A screen is a version per part: each pane, and the rest of the interface (`Chrome`). A pane's
reader applies bytes, which marks its rows dirty, and then raises the flag (`RequestRender`),
unless the bytes are within a synchronized update. A turn of the loop first handles events,
then renders if asked to: it lowers the flag and, for a single client to whom nothing is
owed, patches the dirty rows into the frame sent last (`RetainedPatch`), or else, and
whenever that does not work out (`RetainedFallback`), draws every client in turn
(`RenderClient`, `RenderDone`). `Outcome` is what becomes of a frame: it is the one sent last;
the writer is dead; the slot is occupied, so the render is deferred (`pending`); or it is
queued, as a difference for a client that takes differences, and becomes the baseline
(`Deliver`). The writer empties the slot, announces it free, and only then writes (`Take`,
`Announce`, `Write`). Reading and drawing interleave freely, also between the clients of one
render. Input and resizes ask for renders and drop baselines as the handlers do.

Left out: graphics (off unless configured), the cursor, control messages, frames above
`MAX_FRAME_SIZE`, a detach by key (a departure like any other here), handoff and shutdown,
panes that are not visible, and rows: a pane has one.

## Runs and what they show

| run | bounds | distinct states | shows |
|---|---|---|---|
| `pty_input` | 2 writers × 1 item, queue of 1, 3 control calls, 1 read | 618,072 | `AcceptedConserved`, `GateOpenOnlyWhenRunning`, `PausedIsDrained`, `HandedMasterLeftAlone`, `TypeOK` |
| `pty_controls` | 1 writer × 1 item, 2 calls, 1 resize, 1 nudge, 2 sizes | 238,082 | `WireIntact`, `LatestSizeUnlessRaced`; liveness `RequestsEventuallyHandled` |
| `pty_nudge_race` | 1 resize, 1 nudge | violation | `LatestSizeWins` fails |
| `pty_gate_stuck` | 2 calls | violation | `RolledBackAccepts` fails |
| `client_registry` | 3 clients, 1 terminal, 2 sizes, clients symmetric | 537,520 | ownership, locks, foreground, sizes, farewell messages, emptiness after a handoff, no client left on a terminal that is gone |
| `live_handoff` | 2 panes, 1 popup, 2 handoffs, a visitor | 1,704 | `KeepsCustody` (refinement), `OnlyPopupsKilled`, `NoStrayImport`, `OldReachable`, `NewReachable`; liveness `EveryPaneReadAgain` |
| `handoff_sockets_taken` | 1 pane, 1 popup, 1 handoff, a visitor | violation | `FailedHandoffReachable` fails |
| `agent_reports` | 2 agents (one with a full lifecycle), 2 programs, 2 sessions, 3 reports of which 2 in flight, queue of 1 | 646,095 | `WithdrawnSessionRefused`, `NewestReportWins`, `ExitedStaysOut` |
| `agent_renumbered` | the same | violation | `StaleReportIgnored` fails |
| `status_subscription` | 3 statuses, ring of 2, 2 changes, 4 pushes | 385,568 | `FollowsFeed` (refinement), `EveryEventDelivered`, `TimeoutHonest`, `TypeOK`; liveness `Converges` |
| `session_save` | 3 changes | 96,445 | `Restorable`, `CleanExit`, `NeverOlder`; liveness `ChangeReachesDisk` |
| `render_delivery` | 2 clients, one on the interface and one, which may stall or leave, on a pane; 2 changes, inputs or departures; event channel of 1 | 590,804 | `BaselineIsShown`, `NothingForgotten`; liveness `LatestFrameShown` |

`QueueBounded` and the types of AgentAuthority, SessionSave and RenderDelivery are proved, so
no run checks them.

**Bounds.** *PtyActor:* a queue of one makes every second writer wait for capacity, which is
where the gate and the send come apart; three calls are what begin, a rollback after its
timeout, and another begin take, two when slots are in play; two sizes tell the latest request
from an older. Items are opaque, so one per writer with two units suffices for every
interleaving of two writers, terminal responses and short writes; that one writer's several
items keep their order is left to the theorem. *ClientRegistry:* three
clients let one be evicted by a second while a third is in the foreground; terminals meet only
in the loops over stream clients, and the theorems hold for any number of them. Only clients are
symmetric, and the run has no liveness property. *LiveHandoff:* two panes give a failure half
way through the pausing; two handoffs let the second start from the sockets and actors that the
rollback of the first left behind. *AgentAuthority:* two programs and two sessions are an exit
and a restart, or a session replaced within a program; three reports are one before, one after
and a late one. Agents that name sessions by path, or adopt a restored one, are absent from the
run's constants and present in the theorems. *StatusSubscription:* a ring of two and four pushes
let a subscriber fall behind it; three versions are one told, one skipped, one current.
*SessionSave:* three changes put a change before, during and after a save. *RenderDelivery:*
after the first frame, two happenings put one frame in the writer's hand, one in the slot and
leave a third for later; an event channel of one makes every post wait for the loop. One client
has the whole interface, so the loop patches rows for it while it is alone, and shares a pane
with the other. Deadlock checking is off where the system may really stop: an actor that has
exited, a server that stopped after its handoff or crashed, a pane or a connection to which
nothing happens any more.

**Fairness.** *PtyActor:* the thread runs, so the actions of its loop are weakly fair as a
whole; the flush inside a drain is not among them, since a child need not read its input.
Callers are not fair: nothing relies on their going on. *LiveHandoff:* both processes run
straight-line code in which every wait has a timeout or ends with the peer, and actors handle
their commands; crashes, timeouts chosen over a line that is there, and the visitor are not
fair. *StatusSubscription:* the connection's thread runs and the loop ends its turns (weak
fairness); the loop does not answer too late for ever (strong fairness of the answers, since a
late one is a step of its own). Nobody has to change anything. *SessionSave:* the loop runs and
deadlines pass, file operations return, successfully or not; nobody has to start, change, stop
or replace the server. That a due save is not put off for ever follows from the thread's file
operations returning. *RenderDelivery:* a reader that has applied bytes raises the flag,
connection threads end, writers take and announce, the loop runs and time passes between two
renders; only the writes of clients that are not `Fickle` return for sure.

## Findings

1. `pty_nudge_race` – a nudge remembers the size at the time it was posted
   (`pane.rs:2418`), and the actor applies the waiting resize first
   (`pty/actor/unix.rs:622`): a resize posted behind a waiting nudge is undone, and
   `PaneRuntime::resize` will not repeat it.
2. `pty_gate_stuck` – `rollback_handoff` opens the gate only if the reply arrives within one
   second; after a later one the actor is Running behind a gate that stays closed: output,
   but no input.
3. `handoff_sockets_taken` – between withdrawing the public sockets and their restoration a
   launching client spawns a server of its own; the old server then keeps all the panes and
   can be reached by nobody.
4. `agent_renumbered` – once one session of an agent is stale (after the first `/new` or
   `/clear`), every report of the current session counts as the first of a fresh one and
   resets the numbering (`terminal/state.rs:461`), so an older report may undo a newer.

Some other behaviours of the models that a maintainer may want to know:

- *Agents.* A state report without a session takes the session from the authority, as the test
  at `terminal/state.rs:3504` expects; the plugin at
  `integration/assets/opencode/herdr-agent-state.js:138` sends such reports "so the pane keeps
  the root session". A detector that is reset, or told of the authority only after the program
  quit, forgets the agent without reporting its exit, and the authority stays. A release
  handled after the exit replaces the exit's suppression by one that names no session
  (`terminal/state.rs:1233`; `Excused`, `EndedByReport`), which the next report that names one
  ends without any new process. What keeps out the reports older than the release is then their
  number alone (`ExitedStaysOut`), and once a session of the agent is stale not even that: as
  in finding 4, the report counts as the first of a fresh session, and a program that has ended
  is shown as running. With four reports TLC finds this when the property is asked without its
  last condition: exit, release, and then a state report sent before the release. An agent that
  is started again before the next tick never ends the suppression. Session reports are not
  protected against coming late, only against coming out of order.
- *Subscriptions.* A subscription to events begins with up to 512 older ones. A wait may
  time out although its status stands if other events move the hub during its last poll.
  While the hub keeps moving no snapshot is trusted.
- *Rendering.* A frame above the size limit is dropped after the panes' dirty rows were
  cleared, and nothing is deferred (`server/headless.rs:3763`). When a client is removed for
  its dead writer at the end of a render, the panes are laid out anew but not drawn until the
  event of its end comes (`EndComing`).
- *Session.* The debounce restarts at every change (`app/session.rs:16`), so changes less
  than five seconds apart put off saving for as long as they go on. A handoff drops a save
  that is due. A session file that cannot be read is ignored on start and replaced at the
  next save. Turning the pane history off while a save that holds it is under way leaves the
  file behind until the next save (`app/mod.rs:1509`).

## Proofs

TLAPS proves the theorems below for all values of the constants that satisfy each
module's assumption (`ConstantsAssumption`, `AgentConstants`, `SubscriptionConstants`,
`SessionSaveConstants`: bounds are numbers, absent values are no values): any number of
clients, terminals, writers, panes, calls, attempts, agents, sessions, reports, events and
changes. Nothing else is assumed. Each follows from an inductive invariant (`IInv` or `Inv`)
of its module, by `Init => Inv`, one lemma per action or group of actions for the step, and
PTL.

**PtyActorProofs** (2922 obligations): `TypesHold`, `GateIsSafe`, `PausedIsClean`,
`ChannelBounded` (`QueueBounded`), `SizeFollows` (`LatestSizeUnlessRaced`), `ItemsWhole`
(`WireIntact`), `MasterLeftAlone` (`HandedMasterLeftAlone`), `AcceptedIsKept`
(`AcceptedConserved`).
`IInv == TypeOK /\ GateInv /\ DrainInv`. That the gate is open only while Running is not
inductive: a rollback that answers after its caller moved on, or a begin still in the queue,
could open it for an actor about to quiesce. `GateInv` therefore
numbers the commands (handled in the order they were sent), says that an answered call has
nothing left in the queue, that what an answer says of the actor stays true until the caller
has read it, and that behind an open gate no quiesce is under way or waiting. `DrainInv` adds
that a Quiesced actor's backlog has no user input and that, once begin has succeeded, only
duplicates follow until a rollback. The other five theorems add one conjunct each: `CapInv`,
the bound with the finiteness of the set of permits, which is itself an invariant, so that
nothing is assumed of the number of writers; `SizeInv`, whatever waits in a slot is what the
pane wants; `WireInv`, a half-written item is at the front of the backlog with its head last
on the wire; `HandInv`, while a duplicate is out the actor is Quiesced and what waits in its
control queue neither resumes it nor drains it again; and `KeptInv`, that an item about to be
sent has a number no accepted one has, and that nothing is lost that was not accepted.

`AcceptedConserved` speaks of sequences, and is stated by places so that no step is an
induction over one. What was accepted stands in one line: what is on the wire, what is to be
written, what is queued (`Line`); an item counts where its last unit is (`Places`). The places
hold exactly what was accepted and not lost, in the order of acceptance, which also means once
each. `LineCarried` is the whole argument for the actor's steps: if the places after a step are
those of before, moved by a map that keeps their order, perhaps without some items that are now
lost, the property carries over. `LineFlushed` gives that map for a write and `LineRead` for a
terminal's answer, which comes to stand before the queue; taking an item off the queue and
draining it move nothing (`SameLine`), and `LinePush` adds the new last place.

**ClientRegistryProofs** (872 obligations): `TypesHold`, `OwnersHold`, `LocksHold`,
`DirectSizesHold`, `EffectiveSizeHolds`. `IInv == Rest /\ Good(srv) /\ Fresh`. `Good` is a
predicate of registry records, and the lemmas say which operators keep it, so that a
handler's proof follows its composition. It is `Core` (shape, owners, locks, direct sizes),
which every operator preserves even in the middle of a handler, and `Front` (the foreground
is an app client with the effective size, or nobody), which removals disturb until the
foreground is chosen anew. `Fresh` says that a connection not yet made is in
no part of the record; without it a connect could replace an owner.

**ClientRegistryStepProofs** (1877 obligations): `LayoutSettles`, `HandedOverIsEmpty`,
`RemovalsAnnounced`, `ForegroundHolds`, `StreamsSettle`. Added to `IInv` are `SettledInv` (but
during a handoff, which lays out at its end, what is not to be rendered is laid out),
`HandoffInv` (a handoff's loop still has to remove everybody present; afterwards nobody enters)
and `ToldInv` (whom a loop removes without a word was told or cannot be). What an operator may
do to the clients, `Farewells`, is transitive, so a handler's proof follows its composition
again. For the foreground, activity must order the clients: `Ranked` says that every set of
present clients has a newest one. Stated so, the invariant itself provides what would otherwise
need an induction over finite sets, and touching a client makes it the newest of every set it is
in. For the streams, `StreamInv`: a render finds a client of a missing terminal by its writer,
so no step may take the writer of a stream client and keep the client (`Listens`); and whoever
is left behind when nothing is to be rendered is in the list of the loop that is running.

**LiveHandoffProofs** (2759 obligations): `TypesHold`, `ProcessesKept` (`OnlyPopupsKilled`),
`ImportReaped` (`NoStrayImport`), and `CustodyKept`: `Spec => KeepsCustody`, the refinement of
PaneCustody. The invariant:

| conjunct | says | needed because |
|---|---|---|
| `AloneInv` | in the steps where the old server is alone no import runs, and no line of one is left when it spawns the next | otherwise a line of an earlier import could be taken for the new one's |
| `PausedInv` | paused panes do not run and have no rollback pending; from spawning to draining all are paused, when serving none is | HandOver needs that nobody reads at the commit |
| `HoldInv` | a running, uncommitted old server still has all its actors | a keeper that is up has lost nothing |
| `CommitInv` | committed exactly when the old server is past the commit; until then the new one reads nothing, from then on the old one reads nothing | only the keeper reads |
| `ImportInv` | an import that has reported ready has built its runtimes | it can keep what the commit gives it |
| `ChildInv` | until the import runs it either has no runtimes or preserves their processes | an import that fails kills nothing |

The steps map thus: pausing a pane to Pause, an actor's resumption to Resume, the spawn to
Start, the commit to HandOver, and every other step to End of the servers that stop, with the
PTYs that nobody holds any more, often none of either, which is a stutter. `KeeperHolds` (a
keeper that is up holds its PTYs), `NothingGained` (a lost PTY stays lost) and `QuietMaps`
(what changes neither holders nor readers stutters) carry the argument.

`OldServerFound` (`OldReachable`), `NewServerFound` (`NewReachable`) are in the last part of
that module. `SocketInv`, added to `IInv`: the recorded identities are those of one bind, before
the attempt under way (`RecordedInv`), and the old server listens behind them (`ListenInv`); its
files are in place unless it has removed or lost them (`OwnInv`), and what it has removed does
not come back (`LostInv`), which is what makes the ownership test before a rebind mean
something; the rest follows a rebind of either server (`ReboundInv`, `TakenInv`, `OutcomeInv`).
That no two binds have the same identity (`IdentitiesDiffer`) is needed throughout.

**AgentAuthorityProofs** (2365 obligations): `TypesHold`, `WithdrawnStayOut`
(`WithdrawnSessionRefused`), `NewestReportStands` (`NewestReportWins`), `ExitedStayOut`
(`ExitedStaysOut`). The properties are about steps, and one lemma per operation of
`TerminalAgent` says what such a step may do: `StillBarred` (a session that reports were
refused for, or whose authority the step takes, is refused afterwards), `NotOlder`, and
`Spares` (the suppression of an agent stands and its numbering went on: every operation but the
agent's own accepted report, its release and the sight of its new process). All that takes the
authority away does so through `Suppress` or `RememberStale`; `Withdraws` states once what both
achieve. They need of the record before the step:

| conjunct | says | needed because |
|---|---|---|
| `Sound` | the agent in charge is not suppressed, and its source has counted the report it is in charge by | suppressing it would otherwise overwrite, and forget, an older suppression; an order of numbers is an order of reports only then |
| `Owned` | sessions named by record, reports and foreground belong to the agent they are named for | a report is matched against the suppression of its own source |
| `WithdrawnBarred` | each withdrawn session is stale or suppressed for its owner | the property itself, made inductive |
| `EndedBarred` | an agent that counts as ended is suppressed, by the exit or, once a release came, by an entry without a session and a number at least the release's | either way its older reports fail the test of `set_hook_authority_at` |

**StatusSubscriptionProofs** (948 obligations): `SubscriptionFollowsFeed` (`Spec =>
FollowsFeed`, the refinement of `StatusFeed`), `NoEventPassedOver` (`EveryEventDelivered`),
`TypesHold` and `TimeoutsHonest` (`TimeoutHonest`). For the first, the invariant says that the
events of a log are in the order of their versions, that what was told is older than every event
not yet read, that an initial event is told before anything else, and that a snapshot in hand is
not older than what was told unless the hub has moved, in which case it is not trusted. For the
second, `Reading` says that what lies between the start and the last sequence read was
delivered, dropped by the ring, or did not match. For timeouts, `Waiting`: a wait that has
sampled what it waits for has told it or holds it as the initial status (`Unheard`), and as long
as the thing stands since the poll began the wait has yet to ask for it or has it in the answer,
and the hub is where the poll left it (`Heard`), so that the comparison must tell it. That the
newest matching event is what a poll goes by (`GreatestInLog`) is the one place that needs a
least counterexample; the library has it in first-order form (`WFMin`).

**SessionSaveProofs** (475 obligations): `TypeCorrect`, `AlwaysRestorable`, `ExitIsClean`,
`DiskNeverOlder` (`NeverOlder`). `KnownVersions` bounds every version by the changes made;
`OneWriter` says that never two jobs write and that the final save waits for the thread;
`Progress` says of a job what its step has already put on disk; `Paired` that the history on
disk is not newer than the session; `LastSave` that the final job is of the final state. For
`NeverOlder`, `Newest`: what is being saved, and the state that will be, is not older than the
session on disk.

**RenderDeliveryProofs** (1690 obligations): `TypesHold`, `BaselineHolds` (`BaselineIsShown`),
`NothingIsForgotten` (`NothingForgotten`), `ScreensGoForward`. The baseline needs little: the
writer holds a frame exactly from taking it to having written it, and what is sent leads to the
baseline also for clients the loop does not know. That nothing is forgotten needs what the loop
owes to each client whose turn in the present render is past (`OwedInv`):

| conjunct | says | needed because |
|---|---|---|
| `Waits` | a frame left for later waits for a drain, or a render is due | the slot may be emptied before the loop looks |
| `Fresh` | otherwise what is on its way is what there is, or the flag is up, or a reader is yet to raise it | the property itself, at every step of a render |
| `Patchable` | what differs from the baseline of a single client is dirty | a retained patch draws nothing else, and rows are cleaned when drawn for any client |
| `EndInv` | the end of a connection that is known, or to be known, is still to be told | a client removed for its dead writer leaves panes laid out anew, which are drawn when its end comes |

`ScreensGoForward` (no part of a screen goes back to an older state, which no run states) needs
the baseline: `Forward` orders what a client shows, what it will show once its writer is done,
what it will show once the slot is written, and what there is. A patched frame takes its clean
rows from the baseline, and only because the baseline is what is on its way are they not older
than that.

**Only model-checked:** all liveness (`RequestsEventuallyHandled`, `EveryPaneReadAgain`,
`Converges`, `ChangeReachesDisk`, `LatestFrameShown`), which together with ENABLED is outside
this prover's reach. Every invariant, action property and refinement of a passing run is
proved. The provers here cannot instantiate an induction theorem; where the data needed one, a
least counterexample did. No module has a recursive definition.

## What is not modelled

`PROJECT.json` gives the reason per component. In short: data conversions (emulation, wire
encoding, input parsing, layout of text, configuration), fire-and-forget I/O (clipboard,
sounds, integrations, updates, SSH) and sequential application commands are left to the
code's unit tests; the concurrent components that remain are in the plan. The Windows
versions of the PTY actor and the sockets are not modelled.

## Plan

In order of what matters most to a user's running programs and input:

1. **PtyActor** – done; eight theorems, every safety property the runs check.
2. **ClientRegistry** – done; ten theorems, every safety property the runs check.
3. **LiveHandoff** refining **PaneCustody** – done; six theorems, every safety property the
   runs check.
4. **TerminalAgent**, **AgentAuthority** – done; four theorems. *Next:* the screen's states
   and blockers, and what a handed-over launch pane does.
5. **StatusSubscription** refining **StatusFeed** – done; four theorems, every safety property
   the run checks.
6. **SessionSave** – done; four theorems. *Next:* two processes that save at once.
7. **RenderDelivery** – done; four theorems, every safety property the runs check. *Next:*
   graphics.
8. **ServerStartup** (`ipc.rs`, `server/autodetect.rs`): the probe, removal and bind as
   separate steps for two starting servers.
9. Later candidates: worktree operations, the projects catalog, the layout tree as recursive
   functions (in a module without theorems).

Modules are written so that they can be proved about: parameters are CONSTANTS with one named
assumption, an action per operation, invariants as conjunctions of named parts, and no
recursive operators.

## Running it

    tlc -workers 2 -config PtyActor_input.cfg MCPtyActor.tla
    tlc -workers 2 -config LiveHandoff_all.cfg MCLiveHandoff.tla
    tlapm LiveHandoffProofs.tla

and likewise for the other rows of `runs` in `PROJECT.json`. The longest run takes about
two minutes, the longest proof about two minutes.
