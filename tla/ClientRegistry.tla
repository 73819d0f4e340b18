--------------------------- MODULE ClientRegistry ---------------------------
(***************************************************************************)
(* The headless server's registry of connected clients                     *)
(* (src/src/server/headless.rs, clients.rs): who is in the foreground, who  *)
(* owns a terminal directly, and which size every PTY has been given.       *)
(*                                                                         *)
(* All handlers run on the server's one event loop.  A handler is a step    *)
(* from one registry record to the next, composed of the operators below    *)
(* as the code composes its methods; a loop that removes several clients,   *)
(* in hash-map order, takes one step per client.  Around the loop run the   *)
(* clients, whose events may still arrive after the server dropped them,    *)
(* and their writer threads, which die when a write fails.                  *)
(***************************************************************************)
EXTENDS Integers, FiniteSets

CONSTANTS
  Clients,      \* client ids; one connection each, ids are never reused
  Terminals,    \* terminals with a running PTY
  Sizes,        \* sizes clients report
  MinSize,      \* MIN_COLS x MIN_ROWS
  NoClient,     \* Option::None for a client id
  NoTerm        \* Option::None for a terminal id

ASSUME ConstantsAssumption ==
  /\ NoClient \notin Clients
  /\ NoTerm \notin Terminals
  /\ Sizes # {}

VARIABLES
  srv,          \* the registry: a record, see Registry
  link,         \* each client's connection: its events may arrive while open
  alive,        \* terminals the application still knows
  dirty,        \* needs_full_render
  todo,         \* clients the running loop still has to remove
  why,          \* the loop that is running, or "idle"
  handoff       \* handoff_in_progress

vars == <<srv, link, alive, dirty, todo, why, handoff>>

\* A client that is not in the map is "absent"; "pending" is an App client
\* with pending_terminal_attach set.
Modes   == {"absent", "pending", "app", "attach", "observe"}
Streams == {"attach", "observe"}

\* The size a PTY was last given, and by whom: laid out for the shared size,
\* or set by its direct owner.
PtySize == {"shared", "direct"} \X (Sizes \cup {MinSize})

Registry ==
  [mode   : [Clients -> Modes],
   term   : [Clients -> Terminals \cup {NoTerm}],   \* the mode's terminal
   size   : [Clients -> Sizes],                     \* terminal_size
   writer : [Clients -> {"live", "dead", "none"}],  \* writer thread, or None
   told   : [Clients -> BOOLEAN],                   \* ServerShutdown queued
   older  : [Clients -> SUBSET Clients],            \* order of last_activity
   fg     : Clients \cup {NoClient},                \* foreground_client_id
   eff    : Sizes \cup {MinSize},                   \* effective_size
   owner  : [Terminals -> Clients \cup {NoClient}], \* terminal_attach_owners
   locks  : SUBSET Terminals,                       \* direct_attach_resize_locks
   pty    : [Terminals -> PtySize]]

Present(S) == {c \in Clients : S.mode[c] # "absent"}
Apps(S)    == {c \in Clients : S.mode[c] = "app"}    \* is_full_app_client

-----------------------------------------------------------------------------
(* The methods of the registry. *)

\* A fresh activity stamp: c becomes newer than every other client.
Touch(S, c) ==
  [S EXCEPT !.older = [d \in Clients |-> IF d = c THEN Clients \ {c} ELSE @[d] \ {c}]]

Candidates_AnyApp(S) == {c \in Clients : S.mode[c] \in {"app", "pending"}}
Candidates(S) == Apps(S)

Newest(S, c) == c \in Candidates(S) /\ Candidates(S) \ {c} \subseteq S.older[c]

\* latest_app_client
Latest(S) == IF \E c \in Clients : Newest(S, c)
               THEN CHOOSE c \in Clients : Newest(S, c)
               ELSE NoClient

\* sync_foreground_client_state, after foreground_client_id = c.
Foreground(S, c) ==
  IF c \in Present(S) THEN [S EXCEPT !.fg = c, !.eff = S.size[c]]
                      ELSE [S EXCEPT !.fg = NoClient, !.eff = MinSize]

Promote(S, c) == IF c \in Present(S) THEN Foreground(Touch(S, c), c) ELSE S

PromoteLatest(S) == Foreground(S, Latest(S))

\* Lay the visible panes out for size s; a lock leaves its PTY alone.
Unlocked_All(S) == alive
Unlocked(S) == alive \ S.locks

LayOut(S, s) ==
  [S EXCEPT !.pty = [t \in Terminals |-> IF t \in Unlocked(S) THEN <<"shared", s>> ELSE @[t]]]

SharedResize(S) == IF S.fg \in Present(S) THEN LayOut(S, S.eff) ELSE S

\* Take c out of the map with its attach ownership and resize lock; dropping
\* its entry drops its writer.  The lock of a closed terminal stays.
FreedLocks_KeptIfOwned(S, c) == {}
FreedLocks(S, c) == IF S.mode[c] = "attach" THEN {S.term[c]} \cap alive ELSE {}

FreeOwner(S, c) ==
  [t \in Terminals |-> IF S.mode[c] = "attach" /\ S.term[c] = t THEN NoClient ELSE S.owner[t]]

Unmap_WriterKept(S, c) == [S EXCEPT !.mode[c] = "absent", !.term[c] = NoTerm]
Unmap(S, c) == [S EXCEPT !.mode[c] = "absent", !.term[c] = NoTerm, !.writer[c] = "none"]

Drop(S, c) ==
  [Unmap(S, c) EXCEPT !.owner = FreeOwner(S, c), !.locks = @ \ FreedLocks(S, c)]

AfterDrop_Unsynced(S, c) == IF S.fg = c THEN [S EXCEPT !.fg = Latest(S)] ELSE S
AfterDrop(S, c) == IF S.fg = c THEN PromoteLatest(S) ELSE S

Remove(S, c) == AfterDrop(Drop(S, c), c)

NeedsResize_ForegroundOnly(S, c) == S.fg = c
NeedsResize(S, c) == S.fg = c \/ (S.mode[c] \in Streams /\ S.fg # NoClient)

RemoveAndResize(S, c) ==
  IF NeedsResize(S, c) THEN SharedResize(Remove(S, c)) ELSE Remove(S, c)

\* send_to_client: a client whose writer thread is gone is removed; one
\* without a writer gets nothing.
Send(S, c) == IF S.writer[c] = "dead" THEN RemoveAndResize(S, c) ELSE S

\* send_to_client(ServerShutdown)
Told(S, c) == [S.told EXCEPT ![c] = @ \/ S.writer[c] = "live"]

Tell(S, c) == Send([S EXCEPT !.told = Told(S, c)], c)

TellAndRemove(S, c) == RemoveAndResize(Tell(S, c), c)

-----------------------------------------------------------------------------
Init ==
  /\ srv = [mode   |-> [c \in Clients |-> "absent"],
            term   |-> [c \in Clients |-> NoTerm],
            size   |-> [c \in Clients |-> CHOOSE s \in Sizes : TRUE],
            writer |-> [c \in Clients |-> "none"],
            told   |-> [c \in Clients |-> FALSE],
            older  |-> [c \in Clients |-> {}],
            fg     |-> NoClient,
            eff    |-> MinSize,
            owner  |-> [t \in Terminals |-> NoClient],
            locks  |-> {},
            pty    |-> [t \in Terminals |-> <<"shared", MinSize>>]]
  /\ link = [c \in Clients |-> "new"]
  /\ alive = Terminals
  /\ dirty = TRUE                    \* run: needs_full_render starts true
  /\ todo = {} /\ why = "idle"
  /\ handoff = FALSE

Idle == why = "idle"

Arrives(c) == Idle /\ link[c] = "open"

\* The common frame of a client event that is ignored after a handoff.
Event(c) == Arrives(c) /\ UNCHANGED <<link, alive, todo, why, handoff>>

-----------------------------------------------------------------------------
(* Client events. *)

Refuses_Never == FALSE
Refuses == handoff

Join(S, c, s, direct) ==
  LET T == Touch([S EXCEPT !.mode[c] = IF direct THEN "pending" ELSE "app",
                           !.size[c] = s, !.writer[c] = "live"], c)
  IN  SharedResize(Foreground(T, IF direct THEN T.fg ELSE c))

Connected(c, s, direct) ==
  /\ Idle /\ link[c] = "new"
  /\ link' = [link EXCEPT ![c] = "open"]
  /\ IF Refuses
       THEN srv' = [srv EXCEPT !.told[c] = TRUE] /\ UNCHANGED dirty
       ELSE srv' = Join(srv, c, s, direct) /\ dirty' = TRUE
  /\ UNCHANGED <<alive, todo, why, handoff>>

\* Point a pending client at its terminal; a foreground one hands over.
Enter(S, c, mode, t) ==
  LET T == Touch([S EXCEPT !.mode[c] = mode, !.term[c] = t], c)
  IN  IF T.fg = c THEN PromoteLatest(T) ELSE T

Evict_OnlyTold(S, c) == IF c = NoClient THEN S ELSE Tell(S, c)
Evict(S, c) == IF c = NoClient THEN S ELSE TellAndRemove(S, c)

Own(S, c, t) ==
  [S EXCEPT !.owner[t] = c, !.locks = @ \cup {t}, !.pty[t] = <<"direct", S.size[c]>>]

\* attach_terminal_client and control_terminal_client.  Shipped clients send
\* this first, so its sender is pending unless the server has dropped it.
Attach(c, t, takeover) ==
  /\ Event(c) /\ ~handoff
  /\ srv.mode[c] \in {"pending", "absent"}
  /\ IF srv.mode[c] # "pending" \/ t \notin alive \/ (srv.owner[t] # NoClient /\ ~takeover)
       THEN srv' = TellAndRemove(srv, c) /\ UNCHANGED dirty
       ELSE srv' = Own(Enter(Evict(srv, srv.owner[t]), c, "attach", t), c, t) /\ dirty' = TRUE

Observe(c, t) ==
  /\ Event(c) /\ ~handoff
  /\ srv.mode[c] \in {"pending", "absent"}
  /\ IF srv.mode[c] # "pending" \/ t \notin alive
       THEN srv' = TellAndRemove(srv, c) /\ UNCHANGED dirty
       ELSE srv' = Enter(srv, c, "observe", t) /\ dirty' = TRUE

\* Input that counts as an interaction.  Bytes of a direct owner go to its
\* PTY, an observer's nowhere, an unknown client's yield no event.
Input(c) ==
  /\ Event(c) /\ ~handoff
  /\ srv.mode[c] \notin {"pending", "observe"}
  /\ IF srv.mode[c] # "app"
       THEN UNCHANGED srv
       ELSE LET S == Promote(srv, c) IN srv' = IF S.fg # srv.fg THEN SharedResize(S) ELSE S
  /\ dirty' = (dirty \/ srv.mode[c] # "absent")

\* The same, and the key is the detach binding: the client is told and loses
\* its writer, but stays in the map until its connection ends.
DetachKey(c) ==
  /\ Event(c) /\ ~handoff
  /\ srv.mode[c] = "app"
  /\ LET P == Promote(srv, c)
         R == IF P.fg # srv.fg THEN SharedResize(P) ELSE P
         S == Tell(R, c)
     IN  srv' = IF c \in Present(S) THEN [S EXCEPT !.writer[c] = "none"] ELSE S
  /\ UNCHANGED dirty

OwnPty(S, c) ==
  IF S.term[c] \in alive THEN [S EXCEPT !.pty[S.term[c]] = <<"direct", S.size[c]>>] ELSE S

\* An unknown sender still causes a shared resize.
Resize(c, s) ==
  /\ Event(c) /\ ~handoff
  /\ srv.mode[c] # "pending"
  /\ LET S == IF c \in Present(srv) THEN [srv EXCEPT !.size[c] = s] ELSE srv
     IN  srv' = CASE S.mode[c] = "attach"  -> OwnPty(S, c)
                  [] S.mode[c] = "observe" -> S
                  [] OTHER                 -> SharedResize(Promote(S, c))
  /\ dirty' = TRUE

Detach(c) ==
  /\ Event(c) /\ ~handoff
  /\ srv' = RemoveAndResize(IF srv.mode[c] \in Streams THEN Tell(srv, c) ELSE srv, c)
  /\ dirty' = TRUE

\* Client events other than connects and disconnects are dropped once a
\* handoff has succeeded.
IgnoredAfterHandoff(c) == Event(c) /\ handoff /\ UNCHANGED <<srv, dirty>>

Disconnected(c) ==
  /\ Arrives(c)
  /\ link' = [link EXCEPT ![c] = "closed"]
  /\ srv' = RemoveAndResize(srv, c)
  /\ dirty' = TRUE
  /\ UNCHANGED <<alive, todo, why, handoff>>

\* A write to the client failed: close_writer.
WriterDies(c) ==
  /\ srv.writer[c] = "live"
  /\ srv' = [srv EXCEPT !.writer[c] = "dead"]
  /\ UNCHANGED <<link, alive, dirty, todo, why, handoff>>

-----------------------------------------------------------------------------
(* Loops that remove clients. *)

StartLoop(set, reason) ==
  /\ todo' = set
  /\ why' = IF set = {} THEN "idle" ELSE reason

Reap(c) ==
  /\ c \in todo /\ why \in {"broken", "exited"}
  /\ srv' = IF why = "exited" THEN TellAndRemove(srv, c) ELSE RemoveAndResize(srv, c)
  /\ StartLoop(todo \ {c}, why)
  /\ UNCHANGED <<link, alive, dirty, handoff>>

StreamsOn(t) == {c \in Clients : srv.mode[c] \in Streams /\ srv.term[c] = t}

\* The child of t exits; its clients are shut down after the pane is gone.
PaneDied(t) ==
  /\ Idle /\ t \in alive
  /\ alive' = alive \ {t}
  /\ dirty' = TRUE
  /\ StartLoop(StreamsOn(t), "exited")
  /\ UNCHANGED <<srv, link, handoff>>

\* A pane closed from the interface or the API: no client is told here.
PaneClosed(t) ==
  /\ Idle /\ t \in alive
  /\ alive' = alive \ {t}
  /\ dirty' = TRUE
  /\ UNCHANGED <<srv, link, todo, why, handoff>>

\* send_to_all_clients: a toast, the mouse mode, a config notice.
Broadcast ==
  /\ Idle
  /\ StartLoop({c \in Clients : srv.writer[c] = "dead"}, "broken")
  /\ UNCHANGED <<srv, link, alive, dirty, handoff>>

\* send_to_foreground_client: clipboard, window title.
SendToForeground ==
  /\ Idle /\ srv.fg # NoClient
  /\ srv' = Send(srv, srv.fg)
  /\ UNCHANGED <<link, alive, dirty, todo, why, handoff>>

RenderTargets == {c \in Clients : srv.writer[c] # "none" /\ srv.mode[c] \in Streams \cup {"app"}}

Gone_Ignored == {}
Gone == {c \in RenderTargets : srv.mode[c] \in Streams /\ srv.term[c] \notin alive}

\* render_and_stream: only the foreground's frame resizes panes, a client of
\* a missing terminal is told and dropped, a failed send marks a client broken
\* (an unchanged frame is not sent, so a dead writer may go unnoticed).
Render ==
  /\ Idle /\ dirty
  /\ dirty' = FALSE
  /\ LET S == IF srv.fg \in RenderTargets \cap Apps(srv)
                THEN LayOut(srv, srv.size[srv.fg]) ELSE srv
     IN  srv' = [S EXCEPT !.told = [c \in Clients |-> @[c] \/ (c \in Gone /\ S.writer[c] = "live")]]
  /\ \E broken \in SUBSET {c \in RenderTargets : srv.writer[c] = "dead"} :
       StartLoop(Gone \cup broken, "broken")
  /\ UNCHANGED <<link, alive, handoff>>

\* perform_live_handoff runs inside one call: every client is disconnected
\* first; a failed handoff clears the flag, a successful one exits the server.
HandoffStarts ==
  /\ Idle /\ ~handoff
  /\ handoff' = TRUE
  /\ todo' = Present(srv) /\ why' = "handoff"
  /\ UNCHANGED <<srv, link, alive, dirty>>

Farewell_WriterFirst(S, c) == Tell([S EXCEPT !.writer[c] = "none"], c)
Farewell(S, c) == Tell(S, c)

HandoffDrops(c) ==
  /\ c \in todo /\ why = "handoff"
  /\ LET S == Farewell(srv, c)
     IN  srv' = Remove([S EXCEPT !.writer[c] = "none"], c)
  /\ todo' = todo \ {c}
  /\ UNCHANGED <<link, alive, dirty, why, handoff>>

HandoffEnds(success) ==
  /\ why = "handoff" /\ todo = {}
  /\ srv' = SharedResize(Foreground(srv, NoClient))
  /\ handoff' = success
  /\ why' = "idle" /\ dirty' = TRUE
  /\ UNCHANGED <<link, alive, todo>>

ClientEvent(c) ==
  \/ \E s \in Sizes : Resize(c, s) \/ \E direct \in BOOLEAN : Connected(c, s, direct)
  \/ \E t \in Terminals : Observe(c, t) \/ \E takeover \in BOOLEAN : Attach(c, t, takeover)
  \/ Input(c) \/ DetachKey(c) \/ Detach(c) \/ IgnoredAfterHandoff(c)
  \/ Disconnected(c) \/ WriterDies(c)

Loop == \E c \in Clients : Reap(c) \/ HandoffDrops(c)

Next ==
  \/ \E c \in Clients : ClientEvent(c)
  \/ \E t \in Terminals : PaneDied(t) \/ PaneClosed(t)
  \/ Broadcast \/ SendToForeground \/ Render
  \/ HandoffStarts \/ (\E success \in BOOLEAN : HandoffEnds(success))
  \/ Loop

Spec == Init /\ [][Next]_vars

-----------------------------------------------------------------------------
(* Properties. *)

\* The registry's shape: exactly the stream clients point at a terminal, and
\* no dropped client keeps a writer, so that its thread ends.
TypeOK ==
  /\ srv \in Registry
  /\ link \in [Clients -> {"new", "open", "closed"}]
  /\ alive \subseteq Terminals
  /\ dirty \in BOOLEAN /\ handoff \in BOOLEAN
  /\ todo \subseteq Clients
  /\ why \in {"idle", "broken", "exited", "handoff"}
  /\ \A c \in Clients : /\ srv.term[c] # NoTerm <=> srv.mode[c] \in Streams
                        /\ c \notin Present(srv) => srv.writer[c] = "none"

\* terminal_attach_owners names exactly the attached client of each terminal:
\* no two clients ever hold one terminal, whatever takeovers, refusals,
\* removals and late events there were.
OwnerIsAttached ==
  \A t \in Terminals, c \in Clients :
    srv.owner[t] = c <=> (srv.mode[c] = "attach" /\ srv.term[c] = t)

\* A known terminal is exempt from the shared layout exactly while a client
\* owns it: no lock outlives its owner and none is missing.
LockedIffOwned ==
  \A t \in alive : t \in srv.locks <=> srv.owner[t] # NoClient

\* The foreground is the most recently active app client, and there is one
\* whenever there is an app client (the comment on next_activity_stamp).
ForegroundIsLatest ==
  /\ Apps(srv) = {} => srv.fg = NoClient
  /\ Apps(srv) # {} => srv.fg \in Apps(srv) /\ Apps(srv) \ {srv.fg} \subseteq srv.older[srv.fg]

\* effective_size is the foreground's size, or the minimum without one.
EffectiveSizeFollows ==
  srv.eff = IF srv.fg = NoClient THEN MinSize ELSE srv.size[srv.fg]

\* While a client owns a terminal its PTY has that client's own size: no
\* shared layout, render, other client or late event of a former owner
\* changes it.
DirectSizeKept ==
  \A t \in alive : srv.owner[t] # NoClient => srv.pty[t] = <<"direct", srv.size[srv.owner[t]]>>

\* Once nothing is left to render, every terminal without a direct owner is
\* laid out for the foreground's size; in particular one just released.  A
\* foreground that detached by key is exempt until its connection ends.
LayoutSettled ==
  (Idle /\ ~dirty /\ srv.fg # NoClient /\ srv.writer[srv.fg] # "none")
    => \A t \in Unlocked(srv) : srv.pty[t] = <<"shared", srv.eff>>

\* A client the server drops on its own account was sent the reason: whoever
\* leaves the map, was reachable, and did not detach or disconnect itself, has
\* a shutdown message queued.
NoSilentRemoval ==
  [][\A c \in Clients :
       (/\ srv.mode[c] # "absent" /\ srv'.mode[c] = "absent"
        /\ srv.writer[c] = "live" /\ link'[c] = "open"
        /\ ~Detach(c))
       => srv'.told[c]]_vars

\* After a successful handoff the old server holds no client: none can type
\* into a PTY that now belongs to the new one.
NoClientAfterHandoff == handoff /\ Idle => Present(srv) = {}

\* Once nothing is left to render, no client is left on a terminal that is
\* gone, whether the child exited or the pane was closed without a word, and
\* whoever attached, observed or took over meanwhile.
StreamsSettled ==
  Idle /\ ~dirty =>
    \A c \in Clients : srv.mode[c] \in Streams => srv.term[c] \in alive
=============================================================================
