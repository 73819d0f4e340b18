--------------------------- MODULE TerminalAgent ---------------------------
(***************************************************************************)
(* The agent record of one terminal (src/terminal/state.rs): the agent the *)
(* detector saw, the authority a hook report gained over it, the session   *)
(* to resume, and the bookkeeping that tells late reports from live ones.  *)
(* Every operation is a function from a record to the record it leaves.    *)
(*                                                                         *)
(* A source is named by its agent: only official sources are modelled,     *)
(* and each official source reports exactly one agent.  A report's state   *)
(* and message are named by its sequence number.                           *)
(***************************************************************************)
EXTENDS Naturals

CONSTANTS
    None,      \* the absent option
    Full,      \* agents whose hooks own the whole lifecycle (pi, opencode, ...)
    Native,    \* agents whose hooks report the session only (claude, codex, ...)
    ByPath,    \* agents that name a session by its path (pi, omp)
    Adopting,  \* agents whose report replaces a restored session (mastracode)
    Replacing  \* <<agent, start>>: session starts that replace the session

Agents == Full \cup Native

NoRef == 0     \* a report, or an authority, without a session
NoSeq == 0     \* no sequence number seen, or a report without one
NoStart == "none"

\* A terminal as TerminalState::new leaves it, or restored with a session.
NewTerminal(session) ==
    [detected   |-> None,
     authority  |-> None,
     persisted  |-> session,
     seqs       |-> [a \in Agents |-> NoSeq],
     suppressed |-> [a \in Agents |-> None],
     stale      |-> [a \in Agents |-> {}],
     stamped    |-> {}]

Live(t) == t.authority # None /\ t.authority.agent \in Full

EffectiveAgent(t) ==
    IF t.authority # None THEN t.authority.agent ELSE t.detected

\* The session a snapshot of the terminal would resume.
SessionIdentity(t) ==
    IF t.authority # None /\ t.authority.ref # NoRef
    THEN [agent |-> t.authority.agent, ref |-> t.authority.ref]
    ELSE t.persisted

OwnerConflicts(t, a) ==
    SessionIdentity(t) # None /\ SessionIdentity(t).agent # a

ConflictsWithDetected(t, a) == t.detected # None /\ t.detected # a

\* Another session of the same owner is current, and only ids are compared.
SameOwnerConflict(t, a, ref, start) ==
    /\ SessionIdentity(t) # None
    /\ SessionIdentity(t).agent = a
    /\ a \notin ByPath
    /\ SessionIdentity(t).ref # ref
    /\ <<a, start>> \notin Replacing

AdoptsRestored(t, a, ref) ==
    /\ t.authority = None
    /\ a \in Adopting
    /\ SameOwnerConflict(t, a, ref, NoStart)

\* Withdraw the current authority's right to report.
Suppress(t, reason) ==
    IF Live(t)
    THEN [t EXCEPT !.suppressed[t.authority.agent] =
                        [ref |-> t.authority.ref, reason |-> reason],
                   !.stamped = @ \cup {t.authority.agent}]
    ELSE t

\* Mutant.
RememberStale_Not(t, a, ref) == t

RememberStale(t, a, ref) ==
    [t EXCEPT !.stale[a] = @ \cup ({ref} \ {NoRef})]

\* Mutant: an exit bars the session that had the authority, and no other.
IsSuppressed_ThatSession(t, a, ref) ==
    t.suppressed[a] # None /\ t.suppressed[a].ref \in {NoRef, ref}

IsSuppressed(t, a, ref) ==
    /\ t.suppressed[a] # None
    /\ \/ t.suppressed[a].reason = "exit"
       \/ t.suppressed[a].ref # NoRef /\ ref \in {NoRef, t.suppressed[a].ref}
       \/ t.suppressed[a].ref = NoRef /\ ref = NoRef

IsStale(t, a, ref) == ref \in t.stale[a]

FreshAfterSuppression(t, a, ref) ==
    /\ t.suppressed[a] # None
    /\ t.suppressed[a].reason = "clear"
    /\ ref # NoRef
    /\ t.suppressed[a].ref \notin {NoRef, ref}

FreshAfterStale(t, a, ref) ==
    ref # NoRef /\ t.stale[a] # {} /\ ref \notin t.stale[a]

\* Mutant: only repeated reports are refused.
Accepts_Unordered(t, a, seq) == seq # t.seqs[a]

Accepts(t, a, seq) ==
    IF seq = NoSeq THEN t.seqs[a] = NoSeq ELSE seq > t.seqs[a]

Accepted(t, a, seq) == [t EXCEPT !.seqs[a] = seq]

-----------------------------------------------------------------------------
\* set_hook_authority_at
HookReport(t, r) ==
    LET a        == r.agent
        takeover == OwnerConflicts(t, a) /\ r.ref # NoRef /\ t.detected = a
        \* a report of another session of the owner speaks for the current one
        ref      == IF /\ r.ref # NoRef
                       /\ SameOwnerConflict(t, a, r.ref, NoStart)
                       /\ ~AdoptsRestored(t, a, r.ref)
                    THEN SessionIdentity(t).ref ELSE r.ref
        refused  == \/ IsSuppressed(t, a, r.ref)
                    \/ IsStale(t, a, r.ref)
                    \/ ConflictsWithDetected(t, a)
                    \/ OwnerConflicts(t, a) /\ ~takeover
                    \/ /\ Live(t) /\ t.authority.agent = a
                       /\ NoRef \notin {t.authority.ref, ref}
                       /\ t.authority.ref # ref
        anchored == IF \/ FreshAfterSuppression(t, a, r.ref)
                       \/ FreshAfterStale(t, a, r.ref)
                    THEN [t EXCEPT !.seqs[a] = NoSeq] ELSE t
        heard    == Accepted(anchored, a, r.seq)
        taken    == IF takeover THEN Suppress(heard, "clear") ELSE heard
        freed    == IF ref # NoRef /\ taken.suppressed[a] # None
                    THEN [RememberStale(taken, a, taken.suppressed[a].ref)
                            EXCEPT !.suppressed[a] = None]
                    ELSE taken
    IN  IF refused \/ ~Accepts(anchored, a, r.seq)
        THEN t
        ELSE [freed EXCEPT !.persisted = None,
                           !.authority = [agent |-> a, ref |-> ref, by |-> r.seq]]

\* set_agent_session_ref_for_session_start: the sequence number is consumed
\* even when the session is then refused.
SessionStart(t, r) ==
    LET a        == r.agent
        allowed  == <<a, r.start>> \in Replacing
        takeover == OwnerConflicts(t, a) /\ r.start # NoStart /\ t.detected = a
        replaced == /\ Live(t) /\ t.authority.agent = a
                    /\ t.authority.ref \notin {NoRef, r.ref}
        heard    == Accepted(t, a, r.seq)
        refused  == \/ ConflictsWithDetected(t, a)
                    \/ OwnerConflicts(t, a) /\ ~takeover
                    \/ SameOwnerConflict(t, a, r.ref, r.start)
                    \/ replaced /\ ~allowed
        revived  == IF allowed \/ takeover
                    THEN [heard EXCEPT !.stale[a] = @ \ {r.ref}] ELSE heard
        moved    == IF replaced
                    THEN [RememberStale(revived, a, t.authority.ref)
                            EXCEPT !.authority = None]
                    ELSE IF takeover
                    THEN [Suppress(revived, "clear") EXCEPT !.authority = None]
                    ELSE revived
    IN  IF r.ref = NoRef \/ ~Accepts(t, a, r.seq) THEN t
        ELSE IF refused THEN heard
        ELSE [moved EXCEPT !.persisted = [agent |-> a, ref |-> r.ref]]

\* release_agent_with_mutation
Release(t, a, seq) ==
    LET heard   == Accepted(t, a, seq)
        foreign == t.authority # None /\ t.authority.agent # a
        owned   == t.persisted # None /\ t.persisted.agent = a
    IN  IF ~Accepts(t, a, seq) THEN t
        ELSE IF foreign \/ ~(EffectiveAgent(t) = a \/ owned) THEN heard
        ELSE [heard EXCEPT
                !.suppressed[a] =
                    [ref    |-> IF t.authority = None THEN NoRef
                                ELSE t.authority.ref,
                     reason |-> "clear"],
                !.stamped = @ \cup {a},
                !.detected = None,
                !.authority = None,
                !.persisted = IF owned THEN None ELSE @]

\* clear_hook_authority_with_mutation; source None stands for "whoever has it".
ClearAuthority(t, source, seq) ==
    LET counted == IF source # None THEN source
                   ELSE IF t.authority # None THEN t.authority.agent ELSE None
        heard   == IF counted = None THEN t ELSE Accepted(t, counted, seq)
    IN  IF counted # None /\ ~Accepts(t, counted, seq) THEN t
        ELSE IF t.authority = None \/ source \notin {None, t.authority.agent}
        THEN heard
        ELSE [Suppress(heard, "clear") EXCEPT !.authority = None,
                                              !.persisted = None]

\* clear_full_lifecycle_hook_suppression_for_detected_agent: a fresh process
\* ends the suppression of its agent, and makes the old session stale.
FreshProcess(t, a) ==
    IF a \notin Full THEN t
    ELSE [(IF t.suppressed[a] = None THEN t
           ELSE RememberStale(t, a, t.suppressed[a].ref))
            EXCEPT !.suppressed[a] = None, !.seqs[a] = NoSeq]

\* set_detected_state_with_screen_signals_at.  e.late: the authority was
\* reported after the observation; e.unseen: the agents suppressed since.
Detected(t, e) ==
    LET a         == e.agent
        against   == a # None /\ t.authority # None /\ t.authority.agent # a
        seen      == [t EXCEPT !.detected = a]
        fresh     == IF ~e.exited /\ a # None /\ t.detected # a
                     THEN FreshProcess(seen, a) ELSE seen
        gone      == IF /\ e.exited /\ ~e.late
                        /\ t.authority # None /\ t.authority.agent = a
                     THEN [Suppress(fresh, "exit") EXCEPT !.seqs[a] = NoSeq,
                                                          !.authority = None]
                     ELSE fresh
        forgot    == IF e.exited /\ t.persisted # None /\ t.persisted.agent = a
                     THEN [gone EXCEPT !.persisted = None] ELSE gone
        displaced == /\ forgot.authority # None /\ ~e.late
                     /\ \/ against
                        \/ /\ t.detected \notin {None, a}
                           /\ t.authority.agent = t.detected
    IN  IF Live(t) /\ ~e.exited /\ ~against
        THEN [t EXCEPT !.detected = IF t.authority.agent = a THEN a ELSE @]
        ELSE IF /\ ~e.exited /\ a # None
                /\ t.suppressed[a] # None /\ a \in e.unseen
        THEN t
        ELSE IF displaced
        THEN [Suppress(forgot, "clear") EXCEPT
                !.authority = None,
                !.persisted = IF t.authority.ref = NoRef THEN None
                              ELSE SessionIdentity(t)]
        ELSE forgot
=============================================================================
