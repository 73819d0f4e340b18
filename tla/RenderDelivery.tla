--------------------------- MODULE RenderDelivery ---------------------------
(***************************************************************************)
(* How what the panes show reaches the clients (server/headless.rs,        *)
(* client_transport.rs, clients.rs, render_stream.rs).  PTY readers change *)
(* the terminals and raise a flag.  The server loop draws a frame for each *)
(* client, or, for a single client, patches the rows that are dirty into   *)
(* the frame it sent last, and puts what changed since that frame into the *)
(* one render slot of the client.  A writer thread per client takes it out *)
(* and writes it.  When the slot is occupied the loop leaves the frame for *)
(* later, until the writer says that the slot is free.                     *)
(*                                                                         *)
(* A screen is a version per part: each pane, and the rest of the          *)
(* interface.  A pane has one row here, so that being dirty belongs to the *)
(* pane.  Reading several panes is one step: each is read under its own    *)
(* lock, and a reader that comes in between touches one pane only.  Panes  *)
(* are those the interface shows.  Left out are graphics, which are off    *)
(* unless configured, the cursor, the control messages, on which no frame  *)
(* depends, and frames above MAX_FRAME_SIZE, which are dropped.            *)
(***************************************************************************)
EXTENDS Naturals, Sequences, FiniteSets

CONSTANTS
    Clients,
    Panes,
    Chrome,     \* the rest of the interface
    None,
    Ansi,       \* the clients that are sent differences (TerminalAnsi)
    Stream,     \* the pane a client attached to or observes, or None: the whole interface
    Fickle,     \* bound: the clients that may stop reading or leave
    MaxVersion, \* bound: changes of a part
    MaxHappenings, \* bound: changes, inputs and departures
    QueueCap    \* capacity of the server's event channel

Parts == Panes \cup {Chrome}
Versions == 0..MaxVersion
PartsOf(c) == IF Stream[c] = None THEN Parts ELSE {Stream[c]}
Frames(c) == [PartsOf(c) -> Versions]
Messages(c) == UNION {[changed -> Versions] : changed \in SUBSET PartsOf(c)}
InputKinds == {"focus", "key", "other", "resize"}
Kinds == {"connected", "disconnected", "drained"} \cup InputKinds

Blank(c) == [x \in PartsOf(c) |-> 0]

ASSUME RenderConstants ==
    /\ Chrome \notin Panes /\ None \notin Panes
    /\ Ansi \subseteq Clients
    /\ Stream \in [Clients -> Panes \cup {None}]
    /\ MaxVersion \in Nat \ {0} /\ MaxHappenings \in Nat /\ QueueCap \in Nat \ {0}
    /\ \A c \in Clients : None \notin Frames(c) \cup Messages(c)

VARIABLES
    content,     \* what each part shows now
    dirty,       \* each pane's rows, since somebody last drew it
    reader,      \* its reader: "idle", "notify" between applying bytes and the flag,
                 \* "sync" within a synchronized update
    renderDirty, \* the flag
    conn,        \* each client: "new", "open", "closed", "ended"
    shown,       \* what it shows
    writer,      \* its writer: "wait", "announce", "write", "dead"
    hand,        \* what the writer has taken
    slot,        \* the render slot
    events,      \* the server's event channel
    pc,          \* the loop: "turn", "retained", "full"
    needsRender, needsFull,
    todo,        \* clients not yet drawn in this turn
    broken,      \* clients whose writer was found dead in this turn
    clients,     \* the clients the loop knows
    base,        \* the frame each was sent last
    pending,     \* render_pending
    happened     \* changes, inputs and departures so far

termVars == <<content, dirty, reader>>
connVars == <<conn, shown, writer, hand>>
loopVars == <<needsRender, needsFull, todo, broken>>
recVars == <<clients, base, pending>>
vars == <<termVars, renderDirty, connVars, slot, events, pc, loopVars, recVars, happened>>

TypeOK ==
    /\ content \in [Parts -> Versions]
    /\ dirty \in [Panes -> {"clean", "partial", "full"}]
    /\ reader \in [Panes -> {"idle", "notify", "sync"}]
    /\ renderDirty \in BOOLEAN
    /\ conn \in [Clients -> {"new", "open", "closed", "ended"}]
    /\ writer \in [Clients -> {"wait", "announce", "write", "dead"}]
    /\ \A c \in Clients :
         /\ shown[c] \in Frames(c)
         /\ hand[c] \in Messages(c) \cup {None}
         /\ slot[c] \in Messages(c) \cup {None}
         /\ base[c] \in Frames(c) \cup {None}
    /\ events \in Seq([kind : Kinds, client : Clients])
    /\ pc \in {"turn", "retained", "full"}
    /\ needsRender \in BOOLEAN /\ needsFull \in BOOLEAN
    /\ todo \subseteq Clients /\ broken \subseteq Clients /\ clients \subseteq Clients
    /\ pending \in [Clients -> BOOLEAN]
    /\ happened \in 0..MaxHappenings

Init ==
    /\ content = [x \in Parts |-> 1]
    /\ dirty = [p \in Panes |-> "full"]
    /\ reader = [p \in Panes |-> "idle"]
    /\ renderDirty = FALSE
    /\ conn = [c \in Clients |-> "new"]
    /\ shown = [c \in Clients |-> Blank(c)]
    /\ writer = [c \in Clients |-> "wait"]
    /\ hand = [c \in Clients |-> None]
    /\ slot = [c \in Clients |-> None]
    /\ events = <<>>
    /\ pc = "turn"
    /\ needsRender = TRUE /\ needsFull = TRUE
    /\ todo = {} /\ broken = {} /\ clients = {}
    /\ base = [c \in Clients |-> None]
    /\ pending = [c \in Clients |-> FALSE]
    /\ happened = 0

(* Something of which MaxHappenings may happen.                            *)
Happens ==
    /\ happened < MaxHappenings
    /\ happened' = happened + 1

-----------------------------------------------------------------------------
(* PTY readers.                                                            *)

Reader == UNCHANGED <<connVars, slot, events, pc, loopVars, recVars>>

(* A read is applied to the terminal; within a synchronized update it asks *)
(* for no render.                                                          *)
Output(p) ==
    /\ reader[p] # "notify"
    /\ content[p] < MaxVersion
    /\ content' = [content EXCEPT ![p] = @ + 1]
    /\ \E rows \in {"partial", "full"} :
         dirty' = [dirty EXCEPT ![p] = IF @ = "full" THEN "full" ELSE rows]
    /\ \E then \in {"notify", "sync"} : reader' = [reader EXCEPT ![p] = then]
    /\ Happens
    /\ UNCHANGED renderDirty /\ Reader

RequestRender(p) ==
    /\ reader[p] = "notify"
    /\ renderDirty' = TRUE
    /\ reader' = [reader EXCEPT ![p] = "idle"]
    /\ UNCHANGED <<content, dirty, happened>> /\ Reader

-----------------------------------------------------------------------------
(* A client, its connection's thread and its writer.                       *)

Thread == UNCHANGED <<termVars, renderDirty, pc, loopVars, recVars>>

Post(kind, c) ==
    /\ Len(events) < QueueCap
    /\ events' = Append(events, [kind |-> kind, client |-> c])

Join(c) ==
    /\ conn[c] = "new"
    /\ conn' = [conn EXCEPT ![c] = "open"]
    /\ Post("connected", c)
    /\ UNCHANGED <<shown, writer, hand, slot, happened>> /\ Thread

(* What the client sent: it may be gone since.                             *)
Input(c, kind) ==
    /\ conn[c] \in {"open", "closed"}
    /\ Stream[c] = None \/ kind \in {"key", "resize"}
    /\ Happens
    /\ Post(kind, c)
    /\ UNCHANGED <<connVars, slot>> /\ Thread

(* It is gone.                                                             *)
Leave(c) ==
    /\ c \in Fickle
    /\ conn[c] = "open"
    /\ conn' = [conn EXCEPT ![c] = "closed"]
    /\ shown' = [shown EXCEPT ![c] = Blank(c)]
    /\ Happens
    /\ UNCHANGED <<writer, hand, slot, events>> /\ Thread

(* client_read_loop ends.                                                  *)
End(c) ==
    /\ conn[c] = "closed"
    /\ conn' = [conn EXCEPT ![c] = "ended"]
    /\ Post("disconnected", c)
    /\ UNCHANGED <<shown, writer, hand, slot, happened>> /\ Thread

(* client_writer_loop: the slot is emptied, then announced as free, and    *)
(* then the frame is written.                                              *)
Take(c) ==
    /\ writer[c] = "wait"
    /\ slot[c] # None
    /\ hand' = [hand EXCEPT ![c] = slot[c]]
    /\ slot' = [slot EXCEPT ![c] = None]
    /\ writer' = [writer EXCEPT ![c] = "announce"]
    /\ UNCHANGED <<conn, shown, events, happened>> /\ Thread

Announce(c) ==
    /\ writer[c] = "announce"
    /\ Post("drained", c)
    /\ writer' = [writer EXCEPT ![c] = "write"]
    /\ UNCHANGED <<conn, shown, hand, slot, happened>> /\ Thread

(* What a message makes of what is shown.                                  *)
Drawn(message, frame) ==
    [x \in DOMAIN frame |-> IF x \in DOMAIN message THEN message[x] ELSE frame[x]]

Write(c) ==
    /\ writer[c] = "write"
    /\ conn[c] = "open"
    /\ shown' = [shown EXCEPT ![c] = Drawn(hand[c], @)]
    /\ hand' = [hand EXCEPT ![c] = None]
    /\ writer' = [writer EXCEPT ![c] = "wait"]
    /\ UNCHANGED <<conn, slot, events, happened>> /\ Thread

(* close_writer: what is left in the slot is never read.                   *)
WriteFails(c) ==
    /\ writer[c] = "write"
    /\ conn[c] \in {"closed", "ended"}
    /\ hand' = [hand EXCEPT ![c] = None]
    /\ writer' = [writer EXCEPT ![c] = "dead"]
    /\ slot' = [slot EXCEPT ![c] = None]
    /\ UNCHANGED <<conn, shown, events, happened>> /\ Thread

-----------------------------------------------------------------------------
(* The loop: events.                                                       *)

LoopFrame == UNCHANGED <<reader, connVars>>

FullRender == needsRender' = TRUE /\ needsFull' = TRUE

(* A command, an API request, an application event or a timer changes what *)
(* the interface shows.                                                    *)
Change ==
    /\ pc = "turn"
    /\ content[Chrome] < MaxVersion
    /\ content' = [content EXCEPT ![Chrome] = @ + 1]
    /\ FullRender
    /\ Happens
    /\ UNCHANGED <<dirty, reader, renderDirty, connVars, slot, events, pc, todo, broken, recVars>>

(* A new size may change what a pane shows.                                *)
Resize(panes) ==
    \/ /\ \A p \in panes : content[p] < MaxVersion
       /\ content' = [x \in Parts |-> IF x \in panes THEN content[x] + 1 ELSE content[x]]
       /\ dirty' = [p \in Panes |-> IF p \in panes THEN "full" ELSE dirty[p]]
       /\ Happens
    \/ UNCHANGED <<content, dirty, happened>>

KeepsLayout(present) ==
    /\ base' = [c \in Clients |-> IF c \in present THEN base[c] ELSE None]
    /\ UNCHANGED <<content, dirty, happened>>

(* resize_shared_runtime_to_effective_size: the panes are laid out for the *)
(* client in front, if any, and every client is owed a whole frame.        *)
Relayout(present) ==
    IF \E c \in present : Stream[c] = None
    THEN base' = [c \in Clients |-> None] /\ Resize(Panes)
    ELSE KeepsLayout(present)

(* The record of a client goes with it.                                    *)
Forget(present) ==
    pending' = [c \in Clients |-> c \in present /\ pending[c]]

(* The next event, off the channel.                                        *)
Received(kind, c) ==
    /\ pc = "turn"
    /\ events # <<>>
    /\ Head(events) = [kind |-> kind, client |-> c]
    /\ events' = Tail(events)
    /\ UNCHANGED <<renderDirty, slot, pc, todo, broken>>
    /\ LoopFrame

(* The client is one of the targets from now on: for one that attaches to  *)
(* a pane, once it has said to which.                                      *)
Connected(c) ==
    /\ Received("connected", c)
    /\ clients' = clients \cup {c}
    /\ Relayout(clients')
    /\ FullRender
    /\ Forget(clients)

Disconnected(c) ==
    /\ Received("disconnected", c)
    /\ clients' = clients \ {c}
    /\ (c \in clients /\ Relayout(clients')) \/ KeepsLayout(clients')
    /\ FullRender
    /\ Forget(clients')

(* The frame left for later, if any, is drawn again.                       *)
WriterDrained_NoRender(c) ==
    /\ Received("drained", c)
    /\ pending' = [pending EXCEPT ![c] = FALSE]
    /\ UNCHANGED <<happened, content, dirty, needsRender, needsFull, clients, base>>

WriterDrained(c) ==
    /\ Received("drained", c)
    /\ IF c \in clients /\ pending[c]
       THEN pending' = [pending EXCEPT ![c] = FALSE] /\ FullRender
       ELSE UNCHANGED <<pending, needsRender, needsFull>>
    /\ UNCHANGED <<happened, content, dirty, clients, base>>

(* handle_client_input_events.  A client whose focus comes back is owed a  *)
(* whole frame, if so configured; otherwise one that is sent whole frames  *)
(* is.  An interaction may put the client in front.                        *)
Interaction(c) ==
    /\ Received("focus", c) \/ Received("key", c)
    /\ c \in clients /\ Stream[c] = None
    /\ LET focus == Head(events).kind = "focus" IN
         /\ pending' = [pending EXCEPT ![c] = @ \/ focus]
         /\ \/ Relayout(clients)
            \/ /\ base' = [base EXCEPT ![c] = IF focus \/ c \notin Ansi THEN None ELSE @]
               /\ UNCHANGED <<happened, content, dirty>>
    /\ FullRender
    /\ UNCHANGED clients

(* Typed into the pane the client is attached to; an observer's keys go    *)
(* nowhere.                                                                *)
Typed(c) ==
    /\ Received("key", c)
    /\ c \in clients /\ Stream[c] # None
    /\ FullRender \/ UNCHANGED <<needsRender, needsFull>>
    /\ UNCHANGED <<happened, content, dirty, recVars>>

(* Input that is no interaction, such as an answer of the host terminal,   *)
(* which may change the theme.                                             *)
OtherInput(c) ==
    /\ Received("other", c)
    /\ c \in clients
    /\ base' = [base EXCEPT ![c] = IF c \in Ansi THEN @ ELSE None]
    /\ FullRender \/ UNCHANGED <<needsRender, needsFull>>
    /\ UNCHANGED <<happened, content, dirty, clients, pending>>

(* The panes are laid out anew even when the client is known no more.      *)
Resized(c) ==
    /\ Received("resize", c)
    /\ IF c \in clients /\ Stream[c] # None
       THEN base' = [base EXCEPT ![c] = None] /\ Resize({Stream[c]})
       ELSE Relayout(clients)
    /\ FullRender
    /\ UNCHANGED <<clients, pending>>

(* Other input of a client that has been removed meanwhile.                *)
FromNobody(c) ==
    /\ \E kind \in InputKinds \ {"resize"} : Received(kind, c)
    /\ c \notin clients
    /\ UNCHANGED <<happened, content, dirty, needsRender, needsFull, recVars>>

HandleEvent ==
    \E c \in Clients :
        \/ Connected(c) \/ Disconnected(c) \/ WriterDrained(c)
        \/ Interaction(c) \/ Typed(c) \/ OtherInput(c) \/ Resized(c) \/ FromNobody(c)

-----------------------------------------------------------------------------
(* The loop: rendering.                                                    *)

(* No event is left and nothing is to be drawn, or it is less than         *)
(* MIN_RENDER_INTERVAL since the last time: the loop waits for an event,   *)
(* the flag or its timer, and reads the flag in its next turn.             *)
NextTurn ==
    /\ pc = "turn"
    /\ events = <<>>
    /\ needsRender' = (needsRender \/ renderDirty)
    /\ UNCHANGED <<happened, content, dirty, renderDirty, slot, events, pc, needsFull, todo, broken, recVars>>
    /\ LoopFrame

(* The flag is lowered before any row is read.                             *)
Render ==
    /\ pc = "turn"
    /\ events = <<>>
    /\ needsRender
    /\ renderDirty' = FALSE
    /\ IF renderDirty /\ ~needsFull
       THEN pc' = "retained" /\ UNCHANGED todo
       ELSE pc' = "full" /\ todo' = clients
    /\ UNCHANGED <<happened, content, dirty, slot, events, needsRender, needsFull, broken, recVars>>
    /\ LoopFrame

(* prepare_frame: a client that takes differences is sent the parts that   *)
(* are not as in the frame sent last.                                      *)
Message(c, frame) ==
    LET changed == IF c \in Ansi /\ base[c] # None
                   THEN {x \in PartsOf(c) : frame[x] # base[c][x]}
                   ELSE PartsOf(c)
    IN  [x \in changed |-> frame[x]]

(* What becomes of a frame for c.                                          *)
Outcome(c, frame) ==
    CASE frame = base[c]  -> "current"
      [] frame # base[c] /\ writer[c] = "dead" -> "broken"
      [] frame # base[c] /\ writer[c] # "dead" /\ slot[c] # None -> "occupied"
      [] OTHER -> "queued"

(* The frame becomes the baseline once it is in the slot.                  *)
Deliver_CommitAlways(c, frame, outcome) ==
    /\ slot' = IF outcome = "queued" THEN [slot EXCEPT ![c] = Message(c, frame)] ELSE slot
    /\ base' = IF outcome \in {"queued", "occupied"} THEN [base EXCEPT ![c] = frame] ELSE base
    /\ pending' = [pending EXCEPT ![c] = CASE outcome \in {"current", "queued"} -> FALSE
                                           [] outcome = "occupied" -> TRUE
                                           [] OTHER -> @]

Deliver(c, frame, outcome) ==
    /\ slot' = IF outcome = "queued" THEN [slot EXCEPT ![c] = Message(c, frame)] ELSE slot
    /\ base' = IF outcome = "queued" THEN [base EXCEPT ![c] = frame] ELSE base
    /\ pending' = [pending EXCEPT ![c] = CASE outcome \in {"current", "queued"} -> FALSE
                                           [] outcome = "occupied" -> TRUE
                                           [] OTHER -> @]

(* render_retained_pty_update_and_stream: the single client, which is      *)
(* shown everything, has nothing owed to it.                               *)
Retains_Deferred(c) ==
    /\ clients = {c}
    /\ Stream[c] = None
    /\ base[c] # None

Retains(c) ==
    /\ clients = {c}
    /\ Stream[c] = None
    /\ ~pending[c]
    /\ base[c] # None

ToFull ==
    /\ pc' = "full"
    /\ todo' = clients'
    /\ UNCHANGED <<needsRender, needsFull>>

Finish ==
    /\ pc' = "turn"
    /\ needsRender' = FALSE /\ needsFull' = FALSE
    /\ UNCHANGED todo

(* Popups, selections, hyperlinks, or a pane that is dirty as a whole:     *)
(* everything is drawn, although some panes' rows have been taken already. *)
RetainedFallback ==
    /\ pc = "retained"
    /\ \E taken \in SUBSET {p \in Panes : dirty[p] = "partial"} :
         /\ taken # {} => \E c \in clients : Retains(c)
         /\ dirty' = [p \in Panes |-> IF p \in taken THEN "clean" ELSE dirty[p]]
    /\ UNCHANGED <<happened, content, renderDirty, slot, events, broken, recVars>>
    /\ ToFull
    /\ LoopFrame

(* The dirty rows are patched into the frame sent last.                    *)
Patched(c) ==
    [x \in Parts |-> IF x \in Panes /\ dirty[x] # "clean" THEN content[x] ELSE base[c][x]]

RetainedPatch ==
    /\ pc = "retained"
    /\ \A p \in Panes : dirty[p] # "full"
    /\ dirty' = [p \in Panes |-> "clean"]
    /\ \E c \in clients :
         LET outcome == Outcome(c, Patched(c)) IN
         /\ Retains(c)
         /\ Deliver(c, Patched(c), outcome)
         /\ clients' = IF outcome = "broken" THEN {} ELSE clients
         /\ IF outcome \in {"current", "queued"} THEN Finish ELSE ToFull
    /\ UNCHANGED <<happened, content, renderDirty, events, broken>>
    /\ LoopFrame

Screen(c) == [x \in PartsOf(c) |-> content[x]]

(* render_and_stream, one client at a time: its panes are drawn, and are   *)
(* no longer dirty for anybody.                                            *)
RenderClient(c) ==
    /\ pc = "full"
    /\ c \in todo
    /\ todo' = todo \ {c}
    /\ dirty' = [p \in Panes |-> IF p \in PartsOf(c) THEN "clean" ELSE dirty[p]]
    /\ LET outcome == Outcome(c, Screen(c)) IN
         /\ Deliver(c, Screen(c), outcome)
         /\ broken' = IF outcome = "broken" THEN broken \cup {c} ELSE broken
    /\ UNCHANGED <<happened, content, renderDirty, events, pc, needsRender, needsFull, clients>>
    /\ LoopFrame

(* With no client the panes are drawn for nobody.                          *)
DrawnForNobody ==
    /\ pc = "full"
    /\ clients = {}
    /\ dirty' = [p \in Panes |-> "clean"]
    /\ Finish
    /\ UNCHANGED <<happened, content, renderDirty, slot, events, broken, recVars>>
    /\ LoopFrame

(* All are drawn: those whose writer is gone are removed.                  *)
RenderDone ==
    /\ pc = "full"
    /\ todo = {}
    /\ clients # {}
    /\ clients' = clients \ broken
    /\ broken' = {}
    /\ (broken # {} /\ Relayout(clients')) \/ KeepsLayout(clients')
    /\ Finish
    /\ Forget(clients')
    /\ UNCHANGED <<renderDirty, slot, events>>
    /\ LoopFrame

-----------------------------------------------------------------------------
Loop ==
    \/ HandleEvent \/ NextTurn \/ Render
    \/ RetainedFallback \/ RetainedPatch
    \/ \E c \in Clients : RenderClient(c)
    \/ DrawnForNobody \/ RenderDone

Next ==
    \/ \E p \in Panes : Output(p) \/ RequestRender(p)
    \/ \E c \in Clients :
         \/ Join(c) \/ Leave(c) \/ End(c)
         \/ \E kind \in InputKinds : Input(c, kind)
         \/ Take(c) \/ Announce(c) \/ Write(c) \/ WriteFails(c)
    \/ Change \/ Loop

(* Threads run, and time passes between two renders.                       *)
Fairness ==
    /\ \A p \in Panes : WF_vars(RequestRender(p))
    /\ \A c \in Clients : /\ WF_vars(End(c))
                          /\ WF_vars(Take(c)) /\ WF_vars(Announce(c))
                          /\ WF_vars(WriteFails(c))
    /\ \A c \in Clients \ Fickle : WF_vars(Write(c))
    /\ WF_vars(Loop)

Spec == Init /\ [][Next]_vars /\ Fairness

-----------------------------------------------------------------------------
(* What c will show once its writer has written what it holds and what is  *)
(* in the slot.                                                            *)
InHand(c) == IF hand[c] = None THEN shown[c] ELSE Drawn(hand[c], shown[c])
ToBeShown(c) == IF slot[c] = None THEN InHand(c) ELSE Drawn(slot[c], InHand(c))

(* The client still has a screen to be drawn on.                           *)
Shows(c) == conn[c] = "open" /\ writer[c] # "dead"

(* What a client shows, when everything sent has been written, is the frame *)
(* the server takes it to show: however slow the client is, and whatever   *)
(* frames were left for later, each difference is drawn over the frame it  *)
(* was made from (commit_sent_frame only after try_send).                  *)
BaselineIsShown ==
    \A c \in clients : Shows(c) /\ base[c] # None => ToBeShown(c) = base[c]

(* The part is as the program left it, and its reader has said so.         *)
Steady(x) == x = Chrome \/ reader[x] = "idle"

Queued(kind, c) ==
    \E k \in 1..Len(events) : events[k] = [kind |-> kind, client |-> c]

(* The writer is yet to say that the slot is free.                         *)
DrainComing(c) ==
    slot[c] # None \/ writer[c] = "announce" \/ Queued("drained", c)

(* A client was removed for its dead writer, and its end is still to come. *)
EndComing ==
    \E c \in Clients \ clients : conn[c] = "closed" \/ Queued("disconnected", c)

(* When nothing asks the loop to render, every client is about to show what *)
(* there is, or its frame waits for a drain that will come: no change is   *)
(* lost between the flag and the dirty rows, in a frame left for later, in *)
(* a patched frame, or in drawing for another client.                      *)
NothingForgotten ==
    pc = "turn" /\ ~needsRender /\ ~renderDirty /\ ~EndComing =>
        \A c \in clients :
            \/ ~Shows(c)
            \/ pending[c] /\ DrainComing(c)
            \/ \A x \in PartsOf(c) : Steady(x) => ToBeShown(c)[x] = content[x]

(* A client that goes on reading comes to show what there is, whatever the *)
(* others do.                                                              *)
Current(c) == \A x \in PartsOf(c) : Steady(x) => shown[c][x] = content[x]

LatestFrameShown ==
    \A c \in Clients \ Fickle : []<>(conn[c] # "open" \/ Current(c))
=============================================================================
