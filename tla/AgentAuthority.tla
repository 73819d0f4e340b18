--------------------------- MODULE AgentAuthority ---------------------------
(***************************************************************************)
(* Who speaks for the agent in a pane.  Agents run in the pane's foreground *)
(* and report over connections of their own, so reports are handled in any *)
(* order, late or not at all.  A detector task per pane                    *)
(* (src/pane.rs) probes the foreground process and queues what it saw; the *)
(* application loop (src/app/api.rs, src/app/actions.rs) applies both to   *)
(* the terminal's record and tells the detector, through shared flags, to  *)
(* pause, to forget what it knows, or to ignore an agent that released     *)
(* the pane.                                                               *)
(***************************************************************************)
EXTENDS TerminalAgent, Sequences, FiniteSets

CONSTANTS
    Restored,     \* sessions a terminal may be restored with, None included
    Announcing,   \* <<agent, start>>: how integrations name a running session
    MissLimit,    \* AGENT_MISS_CONFIRMATION_ATTEMPTS
    MaxRun,       \* bound: programs started in the pane
    MaxSession,   \* bound: sessions the agents create
    MaxSeq,       \* bound: reports sent
    MaxReports,   \* bound: reports in flight
    MaxEvents     \* capacity of the detector's channel

ASSUME AgentConstants ==
    /\ None \notin Agents
    /\ None \notin [agent : Agents, ref : Nat]
    /\ None \notin [agent : Full, ref : Nat, by : Nat]
    /\ None \notin [ref : Nat, reason : {"exit", "clear"}]
    /\ \A naming \in Announcing : naming[1] \in Agents
    /\ Restored \subseteq [agent : Agents, ref : {1}] \cup {None}
    /\ MissLimit \in Nat \ {0} /\ MaxSession \in Nat \ {0}
    /\ MaxRun \in Nat /\ MaxSeq \in Nat /\ MaxEvents \in Nat

VARIABLES
    terminal,    \* the terminal's record (TerminalAgent)
    active,      \* full_lifecycle_authority_active
    release,     \* pending_release: the agent whose exit is awaited, or None
    reset,       \* detect_reset_notify holds a permit
    det,         \* the detector task's locals
    events,      \* StateChanged events the application has not handled
    foreground,  \* the program in the foreground; run 0 is the pane's shell
    reports,     \* reports on their way to the application
    clock,       \* sequence numbers given out: integrations take them from time
    owners,      \* owners[s]: the agent that created session s
    runs,        \* programs started so far
    withdrawn,   \* history: sessions that lost the authority and did not
                 \* get it back, nor were begun anew
    ended        \* history: reports of a numbered below ended[a] come from
                 \* programs that ended before the detector saw a new one

vars == <<terminal, active, release, reset, det, events, foreground, reports,
          clock, owners, runs, withdrawn, ended>>
app == <<terminal, active, release, reset, events>>

Sessions == 1..MaxSession
Shell == [agent |-> None, run |-> 0, ref |-> NoRef]
NoRun == MaxRun + 1
Forever == MaxSeq + 1   \* above every sequence number

\* The detector after a reset; it also starts this way.
FreshDetector ==
    [presence |-> None, misses |-> 0, last |-> NoRun, probed |-> FALSE,
     clearing |-> FALSE, told |-> FALSE, releasing |-> FALSE]

TypeOK ==
    /\ terminal.detected \in Agents \cup {None}
    /\ terminal.authority \in
          [agent : Full, ref : Sessions \cup {NoRef}, by : 0..MaxSeq] \cup {None}
    /\ terminal.persisted \in [agent : Agents, ref : Sessions] \cup {None}
    /\ terminal.seqs \in [Agents -> 0..MaxSeq]
    /\ terminal.suppressed \in [Agents ->
          [ref : Sessions \cup {NoRef}, reason : {"exit", "clear"}] \cup {None}]
    /\ terminal.stale \in [Agents -> SUBSET Sessions]
    /\ terminal.stamped = {}
    /\ active \in BOOLEAN /\ reset \in BOOLEAN
    /\ release \in Full \cup {None}
    /\ det \in [presence : Agents \cup {None}, misses : 0..(MissLimit - 1),
                last : 0..NoRun, probed : BOOLEAN, clearing : BOOLEAN,
                told : BOOLEAN, releasing : BOOLEAN]
    /\ Len(events) <= MaxEvents
    /\ withdrawn \subseteq Sessions
    /\ ended \in [Full -> 0..Forever]

Init ==
    /\ \E session \in Restored :
          /\ terminal = NewTerminal(session)
          /\ owners = IF session = None THEN << >> ELSE <<session.agent>>
    /\ active = FALSE /\ release = None /\ reset = FALSE
    /\ det = FreshDetector
    /\ events = << >>
    /\ foreground = Shell
    /\ reports = {} /\ clock = 0
    /\ runs = 0 /\ withdrawn = {} /\ ended = [a \in Full |-> 0]

-----------------------------------------------------------------------------
(* The pane: the user starts and quits programs, and agents report.        *)

\* Agent a starts a session of its own, or resumes one.  a = None is a
\* program herdr does not know.
RunProgram(a, ref) ==
    /\ foreground = Shell /\ runs < MaxRun
    /\ runs' = runs + 1
    /\ foreground' = [agent |-> a, run |-> runs + 1, ref |-> ref]
    /\ \/ a = None /\ ref = NoRef /\ owners' = owners
       \/ a # None /\ ref \in DOMAIN owners /\ owners[ref] = a /\ owners' = owners
       \/ a # None /\ ref = Len(owners) + 1 /\ owners' = Append(owners, a)
    /\ UNCHANGED <<app, det, reports, clock, withdrawn, ended>>

Send(kind, ref, start) ==
    /\ clock < MaxSeq /\ Cardinality(reports) < MaxReports
    /\ clock' = clock + 1
    /\ reports' = reports \cup
         {[kind |-> kind, agent |-> foreground.agent, ref |-> ref,
           start |-> start, seq |-> clock + 1]}

\* A state report names the session, or leaves it out (a subagent's report).
ReportState ==
    /\ foreground.agent \in Full
    /\ \E ref \in {foreground.ref, NoRef} : Send("state", ref, NoStart)
    /\ UNCHANGED <<app, det, foreground, owners, runs, withdrawn, ended>>

ReportSession ==
    /\ \E start \in {NoStart, "startup"} :
          /\ <<foreground.agent, start>> \in Announcing
          /\ Send("session", foreground.ref, start)
    /\ UNCHANGED <<app, det, foreground, owners, runs, withdrawn, ended>>

\* The user begins another session in the running agent (/new, /clear).
SwitchSession ==
    /\ foreground.agent # None /\ Len(owners) < MaxSession
    /\ foreground' = [foreground EXCEPT !.ref = Len(owners) + 1]
    /\ owners' = Append(owners, foreground.agent)
    /\ \E replacing \in Replacing :
          /\ replacing[1] = foreground.agent
          /\ Send("session", Len(owners) + 1, replacing[2])
    /\ UNCHANGED <<app, det, runs, withdrawn, ended>>

\* The program ends; some integrations release the pane with their last report.
Quit ==
    /\ foreground # Shell
    /\ foreground' = Shell
    /\ \/ UNCHANGED <<reports, clock>>
       \/ foreground.agent \in Full /\ Send("release", NoRef, NoStart)
    /\ UNCHANGED <<app, det, owners, runs, withdrawn, ended>>

LoseReport ==
    /\ \E r \in reports : reports' = reports \ {r}
    /\ UNCHANGED <<app, det, foreground, clock, owners, runs, withdrawn, ended>>

-----------------------------------------------------------------------------
(* The application loop.                                                   *)

Named(authority) == IF authority = None THEN {} ELSE {authority.ref} \ {NoRef}

Owner(t) == IF t.authority = None THEN None ELSE t.authority.agent

\* Leave the terminal as `next`: stamp the observations still queued, then
\* bring the detector's flags in line.  released is the agent that let go of
\* the pane, again the sessions that may report from now on.
Settle(next, queue, released, again) ==
    /\ terminal' = [next EXCEPT !.stamped = {}]
    /\ active' = Live(next)
    /\ release' = IF released # None THEN released ELSE release
    /\ reset' = (reset \/ released # None \/ (Live(next) /\ ~active))
    /\ events' = [i \in DOMAIN queue |->
                    [queue[i] EXCEPT
                       !.late = @ \/ next.authority \notin {None, terminal.authority},
                       !.unseen = @ \cup next.stamped]]
    /\ withdrawn' =
         (withdrawn \cup (IF Owner(next) # Owner(terminal)
                          THEN Named(terminal.authority) ELSE {}))
            \ (Named(next.authority) \cup again)

\* handle_app_event for a report; a native agent's state report only names
\* its session, and its release is ignored.
Applied(r) ==
    CASE r.kind = "state" /\ r.agent \in Full -> HookReport(terminal, r)
      [] r.kind = "release" -> Release(terminal, r.agent, r.seq)
      [] OTHER -> SessionStart(terminal, r)

\* A session that was begun anew may report again.  So may, by accident, the
\* session suppressed at an exit when the release is handled after the exit:
\* it overwrites the suppression and names no session.
Excused(r, next) ==
    CASE r.kind = "session" /\ next.persisted = [agent |-> r.agent, ref |-> r.ref]
           -> {r.ref}
      [] r.kind = "release" /\ terminal.suppressed[r.agent] # None
           -> {terminal.suppressed[r.agent].ref}
      [] OTHER -> {}

\* A release handled after the exit renews the bar, against older reports
\* only: it leaves the agent free to report with a newer session.
EndedByReport(r, next) ==
    [a \in Full |->
       CASE Owner(next) = a -> 0
         [] /\ Owner(next) # a
            /\ r.kind = "release" /\ r.agent = a /\ ended[a] # 0
            /\ next.suppressed[a] # terminal.suppressed[a] -> r.seq
         [] OTHER -> ended[a]]

\* An exit that takes the authority ends the agent's programs; a process of it
\* that the detector had not seen before is a new one.
EndedByEvent(e, next) ==
    [a \in Full |->
       CASE a = e.agent /\ e.exited /\ Owner(terminal) = a /\ Owner(next) # a
              -> Forever
         [] a = e.agent /\ ~e.exited /\ next.detected = a /\ terminal.detected # a
              -> 0
         [] OTHER -> ended[a]]

HandleReport ==
    /\ \E r \in reports :
         LET next == Applied(r)
         IN  /\ reports' = reports \ {r}
             /\ Settle(next, events,
                       IF /\ r.kind = "release"
                          /\ EffectiveAgent(next) # EffectiveAgent(terminal)
                       THEN r.agent ELSE None,
                       Excused(r, next))
             /\ ended' = EndedByReport(r, next)
    /\ UNCHANGED <<det, foreground, clock, owners, runs>>

HandleEvent ==
    /\ events # << >>
    /\ LET next == Detected(terminal, Head(events))
       IN  /\ Settle(next, Tail(events), None, {})
           /\ ended' = EndedByEvent(Head(events), next)
    /\ UNCHANGED <<det, foreground, reports, clock, owners, runs>>

\* pane.clear_agent_authority, with a sequence number or without one.
ClearByRequest ==
    /\ terminal.authority # None
    /\ \E source \in {None, terminal.authority.agent}, seq \in {NoSeq, clock + 1} :
          /\ seq <= MaxSeq
          /\ clock' = clock + (IF seq = NoSeq THEN 0 ELSE 1)
          /\ Settle(ClearAuthority(terminal, source, seq), events, None, {})
    /\ UNCHANGED <<det, foreground, reports, owners, runs, ended>>

\* AgentDetectionManifestsUpdated resets every detector whose agent it names.
ManifestsUpdated ==
    /\ EffectiveAgent(terminal) # None
    /\ reset' = TRUE
    /\ UNCHANGED <<terminal, active, release, events, det, foreground, reports,
                   clock, owners, runs, withdrawn, ended>>

\* RELEASE_REACQUIRE_SUPPRESSION has passed.
ReleaseExpires ==
    /\ release # None
    /\ release' = None
    /\ UNCHANGED <<terminal, active, reset, events, det, foreground, reports,
                   clock, owners, runs, withdrawn, ended>>

-----------------------------------------------------------------------------
(* The detector task.                                                      *)

\* A probe of the foreground, given the locals it starts from: an agent that
\* released the pane is not seen, and one that left it for the shell is first
\* reported as exited and forgotten at the next probe.
Probed(d) ==
    LET seen == IF foreground.agent = release THEN None ELSE foreground.agent
        here == [d EXCEPT !.probed = TRUE, !.last = foreground.run]
        lost == IF d.misses + 1 < MissLimit
                THEN [here EXCEPT !.misses = @ + 1, !.clearing = FALSE, !.told = FALSE]
                ELSE [here EXCEPT !.misses = 0, !.presence = None,
                                  !.clearing = FALSE, !.told = FALSE]
    IN  CASE seen # None \/ d.presence = None ->
               [here EXCEPT !.presence = seen, !.misses = 0,
                            !.clearing = FALSE, !.told = FALSE]
          [] seen = None /\ d.presence # None /\ d.told ->
               [here EXCEPT !.presence = None, !.misses = 0,
                            !.clearing = FALSE, !.told = FALSE]
          [] seen = None /\ d.presence # None /\ ~d.told ->
               IF foreground = Shell THEN [here EXCEPT !.clearing = TRUE]
               ELSE lost

Observe(agent, exited) ==
    /\ Len(events) < MaxEvents
    /\ events' = Append(events, [agent |-> agent, exited |-> exited,
                                 late |-> FALSE, unseen |-> {}])

\* One turn of the loop, from the locals d: probe if a probe is due or a timer
\* asks for one, then publish what changed.
Turn(d) ==
    LET changed == foreground.run # d.last
        start   == [d EXCEPT !.probed = @ /\ ~(release = None /\ d.releasing),
                             !.releasing = (release # None)]
        paused  == /\ active /\ ~start.clearing /\ release = None
                   /\ start.probed /\ ~changed
        due     == \/ start.clearing
                   \/ changed
                   \/ ~start.probed /\ (release # None \/ start.presence = None)
    IN  \E probe \in BOOLEAN :
          LET next   == IF probe THEN Probed(start) ELSE start
              exited == next.clearing /\ next.presence # None /\ ~next.told
          IN  /\ IF probe THEN ~paused /\ (due \/ release = None)
                 ELSE paused \/ ~due
              /\ det' = [next EXCEPT !.told = @ \/ exited]
              /\ release' = IF probe /\ foreground.agent # release
                            THEN None ELSE release
              /\ \/ /\ next.presence \notin {None, start.presence}
                    /\ Observe(next.presence, FALSE)
                 \/ /\ next.presence \in {None, start.presence}
                    /\ exited
                    /\ Observe(next.presence, TRUE)
                 \/ /\ next.presence = None /\ start.presence # None /\ ~active
                    /\ Observe(None, FALSE)
                 \/ \* the agent's screen shows another state
                    /\ next.presence # None /\ next.presence = start.presence
                    /\ ~exited /\ ~active
                    /\ Observe(next.presence, FALSE)
                 \/ /\ next.presence \in {None, start.presence} /\ ~exited
                    /\ next.presence = start.presence \/ active
                    /\ events' = events

DetectorTick ==
    /\ Turn(det)
    /\ UNCHANGED <<terminal, active, reset, foreground, reports, clock, owners,
                   runs, withdrawn, ended>>

DetectorReset ==
    /\ reset
    /\ reset' = FALSE
    /\ Turn(FreshDetector)
    /\ UNCHANGED <<terminal, active, foreground, reports, clock, owners, runs,
                   withdrawn, ended>>

-----------------------------------------------------------------------------
Next ==
    \/ \E a \in Agents \cup {None}, ref \in Sessions \cup {NoRef} :
          RunProgram(a, ref)
    \/ ReportState \/ ReportSession \/ SwitchSession \/ Quit \/ LoseReport
    \/ HandleReport \/ HandleEvent \/ ClearByRequest
    \/ ManifestsUpdated \/ ReleaseExpires
    \/ DetectorTick \/ DetectorReset

Spec == Init /\ [][Next]_vars

-----------------------------------------------------------------------------
(* Properties.                                                             *)

\* The step leaves the authority with the agent and the session that had it.
OneSession ==
    /\ None \notin {terminal.authority, terminal'.authority}
    /\ terminal.authority.agent = terminal'.authority.agent
    /\ terminal.authority.ref = terminal'.authority.ref

\* A session from which the authority was taken, by exit, release, another
\* agent or a request, does not get it back through a report that was still
\* on its way: full_lifecycle_hook_report_is_suppressed and
\* ..._matches_stale_session together refuse it, also after its suppression
\* was renewed or turned into a stale entry.  A release handled after the
\* suppression excuses the session: ExitedStaysOut says what an exit leaves.
WithdrawnSessionRefused ==
    [][\A r \in reports \ reports' :
          (r.kind = "state" /\ r.agent \in Full /\ r.ref \in withdrawn \ {foreground.ref})
             => terminal'.authority = terminal.authority]_vars

\* Within one session the newest report wins: reports come over connections of
\* their own, and accept_hook_report must not let an older one undo a newer.
\* Restricted to agents with no stale session in the pane: see the next one.
NewestReportWins ==
    [][(OneSession /\ terminal.stale[terminal.authority.agent] = {})
          => terminal'.authority.by >= terminal.authority.by]_vars

\* The same for every agent, as the tests state it
\* (stale_hook_report_sequence_is_ignored_for_same_source).  Not so once a
\* session of the agent is stale: each report of the current session then
\* counts as the first of a fresh one and starts the numbering again.
StaleReportIgnored ==
    [][OneSession => terminal'.authority.by >= terminal.authority.by]_vars

\* Once an exit took the authority from an agent, no report brings it back
\* until the detector saw a process of that agent start: whatever session it
\* names, and however requests and session starts were handled in between.
\* A release handled after the exit replaces the exit's suppression
\* (release_agent_with_mutation) by one that names no session and that a named
\* session ends; from then on only the numbering keeps out what is older than
\* the release, and, once a session of the agent is stale, nothing does.
ExitedStaysOut ==
    [][\A r \in reports \ reports' :
          (/\ r.kind = "state" /\ r.agent \in Full
           /\ r.seq < ended[r.agent]
           /\ ended[r.agent] = Forever \/ terminal.stale[r.agent] = {})
             => terminal'.authority = terminal.authority]_vars
=============================================================================
