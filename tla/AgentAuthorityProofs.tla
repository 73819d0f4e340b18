------------------------ MODULE AgentAuthorityProofs ------------------------
(***************************************************************************)
(* What holds of the authority over a pane for any number of agents,       *)
(* sessions, programs and reports: TypeOK, and that a withdrawn session    *)
(* stays out, the newest report wins, and an agent that exited needs a new *)
(* process.                                                                *)
(***************************************************************************)
EXTENDS AgentAuthority, TLAPS

Authority == [agent : Full, ref : 0..MaxSession, by : 0..MaxSeq]
Session == [agent : Agents, ref : Sessions]
Suppression == [ref : 0..MaxSession, reason : {"exit", "clear"}]

TerminalRecord ==
    [detected   : Agents \cup {None},
     authority  : Authority \cup {None},
     persisted  : Session \cup {None},
     seqs       : [Agents -> 0..MaxSeq],
     suppressed : [Agents -> Suppression \cup {None}],
     stale      : [Agents -> SUBSET Sessions],
     stamped    : SUBSET Agents]

Observation ==
    [agent : Agents \cup {None}, exited : BOOLEAN, late : BOOLEAN,
     unseen : SUBSET Agents]

Detector ==
    [presence : Agents \cup {None}, misses : 0..(MissLimit - 1),
     last : 0..NoRun, probed : BOOLEAN, clearing : BOOLEAN,
     told : BOOLEAN, releasing : BOOLEAN]

(* Session ref, when there is one, was created by agent a.                 *)
Made(a, ref) == ref # NoRef => ref \in DOMAIN owners /\ owners[ref] = a

Reported(r) ==
    /\ r.kind \in {"state", "session", "release"}
    /\ r.agent \in Agents /\ (r.kind \in {"state", "release"} => r.agent \in Full)
    /\ r.ref \in 0..MaxSession /\ Made(r.agent, r.ref)
    /\ r.seq \in 1..MaxSeq

Typed ==
    /\ terminal \in TerminalRecord /\ terminal.stamped = {}
    /\ active \in BOOLEAN /\ reset \in BOOLEAN
    /\ release \in Full \cup {None}
    /\ det \in Detector
    /\ events \in Seq(Observation) /\ Len(events) <= MaxEvents
    /\ foreground \in [agent : Agents \cup {None}, run : 0..MaxRun, ref : 0..MaxSession]
    /\ Made(foreground.agent, foreground.ref)
    /\ \A r \in reports : Reported(r)
    /\ clock \in 0..MaxSeq /\ runs \in 0..MaxRun
    /\ owners \in Seq(Agents) /\ Len(owners) <= MaxSession

(* An agent with the authority is not suppressed, and its source has seen  *)
(* the report that holds the authority.                                    *)
Sound(t) ==
    t.authority # None =>
        /\ t.suppressed[t.authority.agent] = None
        /\ t.seqs[t.authority.agent] >= t.authority.by

(* The sessions a record names belong to the agents it names them for.     *)
Owned(t) ==
    /\ t.authority # None => Made(t.authority.agent, t.authority.ref)
    /\ t.persisted # None => Made(t.persisted.agent, t.persisted.ref)

(* A report of agent a that names session s is refused.                    *)
Bars(t, a, s) ==
    \/ s \in t.stale[a]
    \/ t.suppressed[a] # None /\ t.suppressed[a].ref = s

WithdrawnBarred ==
    \A s \in withdrawn :
        /\ s \in DOMAIN owners /\ s # NoRef
        /\ Bars(terminal, owners[s], s)

Inv == Typed /\ Sound(terminal) /\ Owned(terminal) /\ WithdrawnBarred

(* While the programs of an agent count as ended, its suppression stands:  *)
(* the exit's own, or that of a release whose number was the last to count. *)
EndedBarred ==
    /\ ended \in [Full -> 0..Forever]
    /\ \A a \in Full : ended[a] # 0 =>
         /\ terminal.suppressed[a] # None
         /\ ended[a] = Forever => terminal.suppressed[a].reason = "exit"
         /\ ended[a] # Forever =>
              /\ terminal.suppressed[a] = [ref |-> NoRef, reason |-> "clear"]
              /\ terminal.seqs[a] >= ended[a]
-----------------------------------------------------------------------------
(* What an operation on the record may do.  Sessions in `again` may report *)
(* from now on.                                                            *)
StillBarred(t, n, again) ==
    \A a \in Agents, s \in Sessions \ again :
        \/ Bars(t, a, s)
        \/ Owner(t) = a /\ t.authority.ref = s /\ Owner(n) # a
        => Bars(n, a, s)

(* Agent c is as suppressed as before, and its numbering went on.          *)
Spares(t, n, c) ==
    n.suppressed[c] = t.suppressed[c] /\ n.seqs[c] >= t.seqs[c]

NotOlder(t, n) ==
    /\ None \notin {t.authority, n.authority}
    /\ t.authority.agent = n.authority.agent /\ t.authority.ref = n.authority.ref
    /\ t.stale[t.authority.agent] = {}
    => n.authority.by >= t.authority.by

Wellformed(t) == t \in TerminalRecord /\ Sound(t) /\ Owned(t)

LEMMA Constants ==
    /\ None \notin Agents /\ None \notin Full
    /\ None \notin Session /\ None \notin Authority /\ None \notin Suppression
    /\ Full \subseteq Agents /\ MaxSession \in Nat \ {0} /\ MaxSeq \in Nat
    /\ MaxRun \in Nat
<1>1. Full \subseteq Agents
  BY DEF Agents
<1>2. Session \subseteq [agent : Agents, ref : Nat]
  BY AgentConstants DEF Session, Sessions
<1>3. Authority \subseteq [agent : Full, ref : Nat, by : Nat]
  BY AgentConstants DEF Authority
<1>4. Suppression \subseteq [ref : Nat, reason : {"exit", "clear"}]
  BY AgentConstants DEF Suppression
<1> QED BY <1>1, <1>2, <1>3, <1>4, AgentConstants

LEMMA LiveIsOwned ==
    ASSUME NEW t \in TerminalRecord
    PROVE  Live(t) <=> t.authority # None
<1>1. t.authority # None => t.authority \in Authority
  BY DEF TerminalRecord
<1> QED BY <1>1 DEF Live, Authority

(* Suppress changes the suppression of the agent in charge, if there is    *)
(* one, and marks it.                                                      *)
LEMMA SuppressDoes ==
    ASSUME NEW t \in TerminalRecord, NEW reason \in {"exit", "clear"}
    PROVE  LET n == Suppress(t, reason)
           IN  /\ n \in TerminalRecord
               /\ n.detected = t.detected /\ n.authority = t.authority
               /\ n.persisted = t.persisted /\ n.seqs = t.seqs /\ n.stale = t.stale
               /\ t.authority = None => n = t
               /\ t.authority # None =>
                    n.suppressed = [t.suppressed EXCEPT ![t.authority.agent] =
                                      [ref |-> t.authority.ref, reason |-> reason]]
<1>1. CASE t.authority = None
  BY <1>1, LiveIsOwned DEF Suppress
<1>2. CASE t.authority # None
  <2>1. t.authority \in Authority
    BY <1>2 DEF TerminalRecord
  <2>2. t.authority.agent \in Agents /\ t.authority.ref \in 0..MaxSession
    BY <2>1, Constants DEF Authority
  <2>3. [ref |-> t.authority.ref, reason |-> reason] \in Suppression
    BY <2>2 DEF Suppression
  <2>4. Suppress(t, reason) =
          [t EXCEPT !.suppressed[t.authority.agent] =
                       [ref |-> t.authority.ref, reason |-> reason],
                    !.stamped = @ \cup {t.authority.agent}]
    BY <1>2, LiveIsOwned DEF Suppress
  <2>5. [t.suppressed EXCEPT ![t.authority.agent] =
            [ref |-> t.authority.ref, reason |-> reason]]
          \in [Agents -> Suppression \cup {None}]
    BY <2>2, <2>3 DEF TerminalRecord
  <2>6. t.stamped \cup {t.authority.agent} \in SUBSET Agents
    BY <2>2 DEF TerminalRecord
  <2>7. Suppress(t, reason) =
          [t EXCEPT !.suppressed = [t.suppressed EXCEPT ![t.authority.agent] =
                       [ref |-> t.authority.ref, reason |-> reason]],
                    !.stamped = t.stamped \cup {t.authority.agent}]
    BY <2>4 DEF TerminalRecord
  <2> HIDE DEF Suppress
  <2> QED BY <1>2, <2>5, <2>6, <2>7 DEF TerminalRecord
<1> QED BY <1>1, <1>2

LEMMA RememberStaleDoes ==
    ASSUME NEW t \in TerminalRecord, NEW a \in Agents, NEW ref \in 0..MaxSession
    PROVE  LET n == RememberStale(t, a, ref)
           IN  /\ n \in TerminalRecord
               /\ n.detected = t.detected /\ n.authority = t.authority
               /\ n.persisted = t.persisted /\ n.seqs = t.seqs
               /\ n.suppressed = t.suppressed
               /\ n.stale = [t.stale EXCEPT ![a] = @ \cup ({ref} \ {NoRef})]
<1>1. {ref} \ {NoRef} \subseteq Sessions
  BY Constants DEF Sessions, NoRef
<1>2. [t.stale EXCEPT ![a] = @ \cup ({ref} \ {NoRef})] \in [Agents -> SUBSET Sessions]
  BY <1>1 DEF TerminalRecord
<1>3. RememberStale(t, a, ref) =
        [t EXCEPT !.stale = [t.stale EXCEPT ![a] = @ \cup ({ref} \ {NoRef})]]
  BY DEF RememberStale, TerminalRecord
<1> QED BY <1>2, <1>3 DEF TerminalRecord

LEMMA FreshProcessDoes ==
    ASSUME NEW t \in TerminalRecord, NEW a \in Full
    PROVE  LET n == FreshProcess(t, a)
           IN  /\ n \in TerminalRecord
               /\ n.detected = t.detected /\ n.authority = t.authority
               /\ n.persisted = t.persisted
               /\ n.seqs = [t.seqs EXCEPT ![a] = NoSeq]
               /\ n.suppressed = [t.suppressed EXCEPT ![a] = None]
               /\ n.stale = IF t.suppressed[a] = None THEN t.stale
                            ELSE [t.stale EXCEPT ![a] =
                                    @ \cup ({t.suppressed[a].ref} \ {NoRef})]
<1> DEFINE u == IF t.suppressed[a] = None THEN t
                ELSE RememberStale(t, a, t.suppressed[a].ref)
<1>1. a \in Agents
  BY Constants
<1>2. t.suppressed[a] # None => t.suppressed[a].ref \in 0..MaxSession
  BY <1>1 DEF TerminalRecord, Suppression
<1>3. /\ u \in TerminalRecord
      /\ u.detected = t.detected /\ u.authority = t.authority
      /\ u.persisted = t.persisted /\ u.seqs = t.seqs /\ u.suppressed = t.suppressed
      /\ u.stale = IF t.suppressed[a] = None THEN t.stale
                   ELSE [t.stale EXCEPT ![a] = @ \cup ({t.suppressed[a].ref} \ {NoRef})]
  <2>1. CASE t.suppressed[a] = None
    BY <2>1
  <2>2. CASE t.suppressed[a] # None
    BY <1>1, <1>2, <2>2, RememberStaleDoes
  <2> QED BY <2>1, <2>2
<1>4. FreshProcess(t, a) = [u EXCEPT !.suppressed[a] = None, !.seqs[a] = NoSeq]
  BY DEF FreshProcess
<1> HIDE DEF u
<1>5. FreshProcess(t, a) = [u EXCEPT !.suppressed = [t.suppressed EXCEPT ![a] = None],
                                     !.seqs = [t.seqs EXCEPT ![a] = NoSeq]]
  BY <1>3, <1>4 DEF TerminalRecord
<1>6. /\ [t.suppressed EXCEPT ![a] = None] \in [Agents -> Suppression \cup {None}]
      /\ [t.seqs EXCEPT ![a] = NoSeq] \in [Agents -> 0..MaxSeq]
  BY <1>1, Constants DEF TerminalRecord, NoSeq
<1> QED BY <1>3, <1>5, <1>6 DEF TerminalRecord
-----------------------------------------------------------------------------
(* A state report.                                                         *)

\* What a report that is not refused leaves behind, before the authority.
Freed(t, r, ref) ==
    LET heard == Accepted(t, r.agent, r.seq)
        taken == IF OwnerConflicts(t, r.agent) THEN Suppress(heard, "clear") ELSE heard
    IN  IF ref # NoRef /\ taken.suppressed[r.agent] # None
        THEN [RememberStale(taken, r.agent, taken.suppressed[r.agent].ref)
                EXCEPT !.suppressed[r.agent] = None]
        ELSE taken

\* The session a report speaks for.
SpokenFor(t, r) ==
    IF /\ r.ref # NoRef
       /\ SameOwnerConflict(t, r.agent, r.ref, NoStart)
       /\ ~AdoptsRestored(t, r.agent, r.ref)
    THEN SessionIdentity(t).ref ELSE r.ref

LEMMA IdentityIsTyped ==
    ASSUME NEW t, Wellformed(t), SessionIdentity(t) # None
    PROVE  /\ SessionIdentity(t).agent \in Agents
           /\ SessionIdentity(t).ref \in Sessions
           /\ Made(SessionIdentity(t).agent, SessionIdentity(t).ref)
<1>1. CASE t.authority # None /\ t.authority.ref # NoRef
  <2>1. t.authority \in Authority
    BY <1>1 DEF Wellformed, TerminalRecord
  <2>2. t.authority.agent \in Agents /\ t.authority.ref \in Sessions
    BY <1>1, <2>1, Constants DEF Authority, Sessions, NoRef
  <2>3. /\ SessionIdentity(t).agent = t.authority.agent
        /\ SessionIdentity(t).ref = t.authority.ref
    BY <1>1 DEF SessionIdentity
  <2> QED BY <1>1, <2>2, <2>3 DEF Wellformed, Owned
<1>2. CASE ~(t.authority # None /\ t.authority.ref # NoRef)
  <2>1. SessionIdentity(t) = t.persisted
    BY <1>2 DEF SessionIdentity
  <2>2. t.persisted \in Session
    BY <2>1 DEF Wellformed, TerminalRecord
  <2> QED BY <2>1, <2>2 DEF Wellformed, Owned, Session
<1> QED BY <1>1, <1>2

LEMMA SpokenForIsTyped ==
    ASSUME NEW t, Wellformed(t), NEW r, Reported(r)
    PROVE  /\ SpokenFor(t, r) \in 0..MaxSession
           /\ Made(r.agent, SpokenFor(t, r))
           /\ SpokenFor(t, r) = NoRef => r.ref = NoRef
<1>1. CASE /\ r.ref # NoRef
           /\ SameOwnerConflict(t, r.agent, r.ref, NoStart)
           /\ ~AdoptsRestored(t, r.agent, r.ref)
  <2>1. SessionIdentity(t) # None /\ SessionIdentity(t).agent = r.agent
    BY <1>1 DEF SameOwnerConflict
  <2>2. SpokenFor(t, r) = SessionIdentity(t).ref
    BY <1>1 DEF SpokenFor
  <2> QED BY <2>1, <2>2, IdentityIsTyped, Constants DEF Sessions, NoRef
<1>2. CASE ~(/\ r.ref # NoRef
             /\ SameOwnerConflict(t, r.agent, r.ref, NoStart)
             /\ ~AdoptsRestored(t, r.agent, r.ref))
  <2>1. SpokenFor(t, r) = r.ref
    BY <1>2 DEF SpokenFor
  <2> QED BY <2>1 DEF Reported
<1> QED BY <1>1, <1>2

LEMMA HeardIsHeard ==
    ASSUME NEW t \in TerminalRecord, NEW a \in Agents, NEW seq \in 0..MaxSeq
    PROVE  /\ Accepted(t, a, seq) = [t EXCEPT !.seqs = [t.seqs EXCEPT ![a] = seq]]
           /\ Accepted(t, a, seq) \in TerminalRecord
<1>1. [t.seqs EXCEPT ![a] = seq] \in [Agents -> 0..MaxSeq]
  BY DEF TerminalRecord
<1>2. Accepted(t, a, seq) = [t EXCEPT !.seqs = [t.seqs EXCEPT ![a] = seq]]
  BY DEF Accepted, TerminalRecord
<1> QED BY <1>1, <1>2 DEF TerminalRecord

(* The number counts the same when the numbering was started anew before.  *)
LEMMA HeardAnew ==
    ASSUME NEW t \in TerminalRecord, NEW a \in Agents, NEW seq \in 0..MaxSeq
    PROVE  Accepted([t EXCEPT !.seqs[a] = NoSeq], a, seq) = Accepted(t, a, seq)
<1>1. [[t.seqs EXCEPT ![a] = NoSeq] EXCEPT ![a] = seq] = [t.seqs EXCEPT ![a] = seq]
  BY DEF TerminalRecord
<1>2. Accepted([t EXCEPT !.seqs[a] = NoSeq], a, seq)
        = [t EXCEPT !.seqs = [[t.seqs EXCEPT ![a] = NoSeq] EXCEPT ![a] = seq]]
  BY DEF Accepted, TerminalRecord
<1> QED BY <1>1, <1>2, HeardIsHeard

(* When a state report has an effect, and which.                           *)
LEMMA HookReportForm ==
    ASSUME NEW t, Wellformed(t), NEW r, Reported(r), r.agent \in Full,
           HookReport(t, r) # t
    PROVE  LET a == r.agent
               ref == SpokenFor(t, r)
           IN  /\ ~IsSuppressed(t, a, r.ref) /\ ~IsStale(t, a, r.ref)
               /\ OwnerConflicts(t, a) => r.ref # NoRef
               /\ Live(t) /\ t.authority.agent = a =>
                    NoRef \in {t.authority.ref, ref} \/ t.authority.ref = ref
               /\ \/ FreshAfterSuppression(t, a, r.ref)
                  \/ FreshAfterStale(t, a, r.ref)
                  \/ Accepts(t, a, r.seq)
               /\ HookReport(t, r) =
                    [Freed(t, r, ref) EXCEPT
                       !.persisted = None,
                       !.authority = [agent |-> a, ref |-> ref, by |-> r.seq]]
<1> DEFINE a == r.agent
           ref == SpokenFor(t, r)
           takeover == OwnerConflicts(t, a) /\ r.ref # NoRef /\ t.detected = a
           refused  == \/ IsSuppressed(t, a, r.ref)
                       \/ IsStale(t, a, r.ref)
                       \/ ConflictsWithDetected(t, a)
                       \/ OwnerConflicts(t, a) /\ ~takeover
                       \/ /\ Live(t) /\ t.authority.agent = a
                          /\ NoRef \notin {t.authority.ref, ref}
                          /\ t.authority.ref # ref
           anchored == IF \/ FreshAfterSuppression(t, a, r.ref)
                          \/ FreshAfterStale(t, a, r.ref)
                       THEN [t EXCEPT !.seqs[a] = NoSeq] ELSE t
           heard    == Accepted(anchored, a, r.seq)
           taken    == IF takeover THEN Suppress(heard, "clear") ELSE heard
           freed    == IF ref # NoRef /\ taken.suppressed[a] # None
                       THEN [RememberStale(taken, a, taken.suppressed[a].ref)
                               EXCEPT !.suppressed[a] = None]
                       ELSE taken
<1>1. HookReport(t, r) =
        IF refused \/ ~Accepts(anchored, a, r.seq)
        THEN t
        ELSE [freed EXCEPT !.persisted = None,
                           !.authority = [agent |-> a, ref |-> ref, by |-> r.seq]]
  BY DEF HookReport, SpokenFor
<1>2. ~refused /\ Accepts(anchored, a, r.seq)
  BY <1>1
<1>3. takeover <=> OwnerConflicts(t, a)
  BY <1>2
<1>4. heard = Accepted(t, a, r.seq)
  BY HeardAnew DEF Reported, Wellformed
<1>5. freed = Freed(t, r, ref)
  BY <1>3, <1>4 DEF Freed
<1> QED BY <1>1, <1>2, <1>5

LEMMA FreedDoes ==
    ASSUME NEW t, Wellformed(t), NEW r, Reported(r), r.agent \in Full,
           NEW ref \in 0..MaxSession
    PROVE  LET n == Freed(t, r, ref)
               a == r.agent
               b == Owner(t)
               taken == OwnerConflicts(t, a) /\ t.authority # None
           IN  /\ n \in TerminalRecord
               /\ n.detected = t.detected
               /\ n.seqs = [t.seqs EXCEPT ![a] = r.seq]
               /\ ref # NoRef => n.suppressed[a] = None
               /\ ref = NoRef /\ ~taken => n.suppressed[a] = t.suppressed[a]
               /\ \A c \in Agents \ {a} :
                    /\ n.stale[c] = t.stale[c]
                    /\ n.suppressed[c] =
                         IF taken /\ c = b
                         THEN [ref |-> t.authority.ref, reason |-> "clear"]
                         ELSE t.suppressed[c]
               /\ t.stale[a] \subseteq n.stale[a]
               /\ ~(taken /\ a = b) => \A s \in Sessions : Bars(t, a, s) => Bars(n, a, s)
<1> DEFINE a == r.agent
           heard == Accepted(t, a, r.seq)
           taken == IF OwnerConflicts(t, a) THEN Suppress(heard, "clear") ELSE heard
           n == Freed(t, r, ref)
<1>1. a \in Agents /\ r.seq \in 0..MaxSeq /\ t \in TerminalRecord
  BY Constants DEF Reported, Wellformed
<1>2. /\ heard \in TerminalRecord
      /\ heard = [t EXCEPT !.seqs = [t.seqs EXCEPT ![a] = r.seq]]
  BY <1>1, HeardIsHeard
<1>3. /\ heard.detected = t.detected /\ heard.authority = t.authority
      /\ heard.persisted = t.persisted /\ heard.seqs = [t.seqs EXCEPT ![a] = r.seq]
      /\ heard.suppressed = t.suppressed /\ heard.stale = t.stale
  BY <1>1, <1>2 DEF TerminalRecord
<1> HIDE DEF heard
<1>4. /\ taken \in TerminalRecord
      /\ taken.detected = t.detected /\ taken.authority = t.authority
      /\ taken.seqs = [t.seqs EXCEPT ![a] = r.seq] /\ taken.stale = t.stale
      /\ taken.suppressed =
           IF OwnerConflicts(t, a) /\ t.authority # None
           THEN [t.suppressed EXCEPT ![t.authority.agent] =
                   [ref |-> t.authority.ref, reason |-> "clear"]]
           ELSE t.suppressed
  BY <1>2, <1>3, SuppressDoes
<1>5. n = IF ref # NoRef /\ taken.suppressed[a] # None
          THEN [RememberStale(taken, a, taken.suppressed[a].ref)
                  EXCEPT !.suppressed[a] = None]
          ELSE taken
  BY DEF Freed, heard
<1>6. taken.suppressed[a] # None => taken.suppressed[a].ref \in 0..MaxSession
  BY <1>1, <1>4 DEF TerminalRecord, Suppression
<1> HIDE DEF taken, n
<1>7. /\ n \in TerminalRecord
      /\ n.detected = t.detected /\ n.seqs = [t.seqs EXCEPT ![a] = r.seq]
      /\ n.suppressed = IF ref # NoRef THEN [taken.suppressed EXCEPT ![a] = None]
                        ELSE taken.suppressed
      /\ n.stale = IF ref # NoRef /\ taken.suppressed[a] # None
                   THEN [t.stale EXCEPT ![a] =
                           @ \cup ({taken.suppressed[a].ref} \ {NoRef})]
                   ELSE t.stale
  <2>1. CASE ref # NoRef /\ taken.suppressed[a] # None
    <3> DEFINE u == RememberStale(taken, a, taken.suppressed[a].ref)
    <3>1. /\ u \in TerminalRecord
          /\ u.detected = t.detected /\ u.seqs = [t.seqs EXCEPT ![a] = r.seq]
          /\ u.suppressed = taken.suppressed
          /\ u.stale = [t.stale EXCEPT ![a] =
                           @ \cup ({taken.suppressed[a].ref} \ {NoRef})]
      BY <1>1, <1>4, <1>6, <2>1, RememberStaleDoes
    <3>2. n = [u EXCEPT !.suppressed[a] = None]
      BY <1>5, <2>1
    <3> HIDE DEF u
    <3>3. n = [u EXCEPT !.suppressed = [taken.suppressed EXCEPT ![a] = None]]
      BY <3>1, <3>2 DEF TerminalRecord
    <3>4. [taken.suppressed EXCEPT ![a] = None] \in [Agents -> Suppression \cup {None}]
      BY <1>4 DEF TerminalRecord
    <3> QED BY <2>1, <3>1, <3>3, <3>4 DEF TerminalRecord
  <2>2. CASE ref # NoRef /\ taken.suppressed[a] = None
    <3>1. [taken.suppressed EXCEPT ![a] = None] = taken.suppressed
      BY <1>1, <1>4, <2>2 DEF TerminalRecord
    <3> QED BY <1>4, <1>5, <2>2, <3>1
  <2>3. CASE ref = NoRef
    BY <1>4, <1>5, <2>3
  <2> QED BY <2>1, <2>2, <2>3
<1>8. t.authority # None => t.authority.agent \in Agents
  BY <1>1, Constants DEF TerminalRecord, Authority
<1>9. /\ t.suppressed \in [Agents -> Suppression \cup {None}]
      /\ t.stale \in [Agents -> SUBSET Sessions]
  BY <1>1 DEF TerminalRecord
<1>a. ref # NoRef => n.suppressed[a] = None
  BY <1>1, <1>4, <1>7, <1>8, <1>9
<1>b. ref = NoRef /\ ~(OwnerConflicts(t, a) /\ t.authority # None)
        => n.suppressed[a] = t.suppressed[a]
  BY <1>4, <1>7
<1>c. ASSUME NEW c \in Agents \ {a}
      PROVE  /\ n.stale[c] = t.stale[c]
             /\ n.suppressed[c] =
                  IF OwnerConflicts(t, a) /\ t.authority # None /\ c = Owner(t)
                  THEN [ref |-> t.authority.ref, reason |-> "clear"]
                  ELSE t.suppressed[c]
  BY <1>1, <1>4, <1>7, <1>8, <1>9 DEF Owner
<1>d. t.stale[a] \subseteq n.stale[a]
  BY <1>1, <1>7, <1>9
<1>e. ASSUME ~(OwnerConflicts(t, a) /\ t.authority # None /\ a = Owner(t)),
             NEW s \in Sessions, Bars(t, a, s)
      PROVE  Bars(n, a, s)
  <2>1. taken.suppressed[a] = t.suppressed[a]
    BY <1>1, <1>4, <1>8, <1>9, <1>e DEF Owner
  <2>2. s # NoRef
    BY Constants DEF Sessions, NoRef
  <2> QED BY <1>1, <1>7, <1>9, <1>d, <1>e, <2>1, <2>2 DEF Bars
<1> QED BY <1>7, <1>a, <1>b, <1>c, <1>d, <1>e DEF n

LEMMA HookReportIsSafe ==
    ASSUME NEW t, Wellformed(t), NEW r, Reported(r), r.agent \in Full
    PROVE  LET n == HookReport(t, r)
           IN  /\ Wellformed(n) /\ StillBarred(t, n, {})
               /\ NotOlder(t, n)
               /\ \A c \in Full : t.suppressed[c] # None /\ Owner(n) # c
                                  => Spares(t, n, c)
               /\ r.ref # NoRef /\ Bars(t, r.agent, r.ref) => n = t
<1> DEFINE n == HookReport(t, r)
           a == r.agent
           ref == SpokenFor(t, r)
           f == Freed(t, r, ref)
           taken == OwnerConflicts(t, a) /\ t.authority # None
<1>0. t \in TerminalRecord /\ a \in Agents /\ r.seq \in 1..MaxSeq
  BY DEF Wellformed, Reported
<1>1. CASE n = t
  <2>1. StillBarred(t, t, {}) /\ \A c \in Full : Spares(t, t, c)
    BY <1>0, Constants DEF StillBarred, Spares, TerminalRecord
  <2>2. NotOlder(t, t)
    BY <1>0, Constants DEF NotOlder, TerminalRecord, Authority
  <2> QED BY <1>1, <2>1, <2>2
<1>2. CASE n # t
  <2> DEFINE auth == [agent |-> a, ref |-> ref, by |-> r.seq]
  <2>1. /\ ~IsSuppressed(t, a, r.ref) /\ ~IsStale(t, a, r.ref)
        /\ OwnerConflicts(t, a) => r.ref # NoRef
        /\ \/ FreshAfterSuppression(t, a, r.ref)
           \/ FreshAfterStale(t, a, r.ref)
           \/ Accepts(t, a, r.seq)
        /\ n = [f EXCEPT !.persisted = None, !.authority = auth]
    BY <1>2, HookReportForm
  <2>2. ref \in 0..MaxSession /\ Made(a, ref) /\ (ref = NoRef => r.ref = NoRef)
    BY SpokenForIsTyped
  <2>3. /\ f \in TerminalRecord
        /\ f.seqs = [t.seqs EXCEPT ![a] = r.seq]
        /\ ref # NoRef => f.suppressed[a] = None
        /\ ref = NoRef /\ ~taken => f.suppressed[a] = t.suppressed[a]
        /\ \A c \in Agents \ {a} :
             /\ f.stale[c] = t.stale[c]
             /\ f.suppressed[c] =
                  IF taken /\ c = Owner(t)
                  THEN [ref |-> t.authority.ref, reason |-> "clear"]
                  ELSE t.suppressed[c]
        /\ t.stale[a] \subseteq f.stale[a]
        /\ ~(taken /\ a = Owner(t)) => \A s \in Sessions : Bars(t, a, s) => Bars(f, a, s)
    BY <2>2, FreedDoes
  <2>4. auth \in Authority
    BY <1>0, <2>2 DEF Authority
  <2> HIDE DEF f, n, ref
  <2>5. /\ n \in TerminalRecord
        /\ n.authority = auth /\ n.persisted = None /\ n.seqs = f.seqs
        /\ n.suppressed = f.suppressed /\ n.stale = f.stale
    <3> HIDE DEF auth
    <3> QED BY <2>1, <2>3, <2>4 DEF TerminalRecord
  <2>6. auth # None /\ Owner(n) = a /\ a # None
    BY <1>0, <2>4, <2>5, Constants DEF Owner
  <2>7. n.suppressed[a] = None
    <3>1. CASE ref # NoRef
      BY <2>3, <2>5, <3>1
    <3>2. CASE ref = NoRef
      <4>1. r.ref = NoRef /\ ~taken
        BY <2>1, <2>2, <3>2
      <4>2. t.suppressed[a] = None
        BY <2>1, <4>1 DEF IsSuppressed
      <4> QED BY <2>3, <2>5, <3>2, <4>1, <4>2
    <3> QED BY <3>1, <3>2
  <2>8. n.seqs[a] = r.seq
    BY <1>0, <2>3, <2>5 DEF TerminalRecord
  <2>9. Wellformed(n)
    BY <1>0, <2>2, <2>5, <2>6, <2>7, <2>8, Constants DEF Wellformed, Sound, Owned
  <2>10. t.authority # None =>
           /\ Owner(t) = t.authority.agent /\ t.authority.agent \in Agents
           /\ t.suppressed[t.authority.agent] = None
           /\ t.authority.by \in Nat
           /\ t.seqs[t.authority.agent] >= t.authority.by
           /\ t.seqs[t.authority.agent] \in Nat
    BY Constants DEF Wellformed, Sound, Owner, TerminalRecord, Authority
  <2>11. ASSUME NEW c \in Agents, NEW s \in Sessions, Bars(t, c, s)
         PROVE  Bars(n, c, s)
    <3>1. CASE c = a
      <4>1. CASE taken /\ a = Owner(t)
        <5>1. s \in t.stale[a]
          BY <2>10, <2>11, <3>1, <4>1 DEF Bars
        <5> QED BY <2>3, <2>5, <3>1, <5>1 DEF Bars
      <4>2. CASE ~(taken /\ a = Owner(t))
        BY <2>3, <2>5, <2>11, <3>1, <4>2 DEF Bars
      <4> QED BY <4>1, <4>2
    <3>2. CASE c # a
      <4>1. CASE taken /\ c = Owner(t)
        BY <2>3, <2>5, <2>10, <2>11, <3>2, <4>1 DEF Bars
      <4>2. CASE ~(taken /\ c = Owner(t))
        BY <2>3, <2>5, <2>11, <3>2, <4>2 DEF Bars
      <4> QED BY <4>1, <4>2
    <3> QED BY <3>1, <3>2
  <2>12. ASSUME NEW c \in Agents, NEW s \in Sessions,
                Owner(t) = c, t.authority.ref = s, Owner(n) # c
         PROVE  Bars(n, c, s)
    <3>1. t.authority # None /\ t.authority.agent = c
      BY <2>12, Constants DEF Owner
    <3>2. s # NoRef /\ s \in 0..MaxSession
      BY Constants DEF Sessions, NoRef
    <3>3. SessionIdentity(t) = [agent |-> c, ref |-> s]
      BY <2>12, <3>1, <3>2 DEF SessionIdentity
    <3>4. [agent |-> c, ref |-> s] \in Session
      BY <2>12 DEF Session
    <3>5. taken /\ c # a
      BY <2>6, <2>12, <3>1, <3>3, <3>4, Constants DEF OwnerConflicts
    <3>6. n.suppressed[c] = [ref |-> s, reason |-> "clear"]
      BY <2>3, <2>5, <2>12, <3>5
    <3>7. [ref |-> s, reason |-> "clear"] \in Suppression
      BY <3>2 DEF Suppression
    <3> QED BY <3>6, <3>7, Constants DEF Bars
  <2>13. StillBarred(t, n, {})
    BY <2>11, <2>12 DEF StillBarred
  <2>14. ASSUME NEW c \in Full, t.suppressed[c] # None, Owner(n) # c
         PROVE  Spares(t, n, c)
    <3>1. c # a /\ c \in Agents
      BY <2>6, <2>14, Constants
    <3>2. ~(taken /\ c = Owner(t))
      BY <2>10, <2>14
    <3>3. n.suppressed[c] = t.suppressed[c]
      BY <2>3, <2>5, <3>1, <3>2
    <3>4. n.seqs[c] = t.seqs[c] /\ t.seqs[c] \in Nat
      BY <1>0, <2>3, <2>5, <3>1, Constants DEF TerminalRecord
    <3> QED BY <3>3, <3>4 DEF Spares
  <2>15. NotOlder(t, n)
    <3> SUFFICES ASSUME t.authority # None, t.authority.agent = a, t.stale[a] = {}
                 PROVE  r.seq >= t.authority.by
      BY <2>5 DEF NotOlder
    <3>1. ~FreshAfterSuppression(t, a, r.ref) /\ ~FreshAfterStale(t, a, r.ref)
      BY <2>10 DEF FreshAfterSuppression, FreshAfterStale
    <3>2. r.seq > t.seqs[a]
      BY <1>0, <2>1, <3>1 DEF Accepts, NoSeq
    <3> QED BY <1>0, <2>10, <3>2
  <2>16. r.ref # NoRef => ~Bars(t, a, r.ref)
    BY <2>1 DEF Bars, IsSuppressed, IsStale
  <2> QED BY <2>9, <2>13, <2>14, <2>15, <2>16 DEF n
<1> QED BY <1>1, <1>2
-----------------------------------------------------------------------------
(* The other reports.                                                      *)

(* A report whose number is accepted leaves the record sound.              *)
LEMMA HeardIsSafe ==
    ASSUME NEW t, Wellformed(t), NEW a \in Agents, NEW seq \in 0..MaxSeq,
           Accepts(t, a, seq)
    PROVE  LET n == Accepted(t, a, seq)
           IN  /\ Wellformed(n)
               /\ n.detected = t.detected /\ n.authority = t.authority
               /\ n.persisted = t.persisted /\ n.suppressed = t.suppressed
               /\ n.stale = t.stale
<1> DEFINE n == Accepted(t, a, seq)
<1>1. t \in TerminalRecord
  BY DEF Wellformed
<1>2. n \in TerminalRecord /\ n = [t EXCEPT !.seqs = [t.seqs EXCEPT ![a] = seq]]
  BY <1>1, HeardIsHeard
<1> HIDE DEF n
<1>3. /\ n.detected = t.detected /\ n.authority = t.authority
      /\ n.persisted = t.persisted /\ n.suppressed = t.suppressed
      /\ n.stale = t.stale /\ n.seqs = [t.seqs EXCEPT ![a] = seq]
  BY <1>1, <1>2 DEF TerminalRecord
<1>4. Sound(n)
  <2> SUFFICES ASSUME t.authority # None
               PROVE  n.seqs[t.authority.agent] >= t.authority.by
    BY <1>3 DEF Sound, Wellformed
  <2>1. /\ t.authority.agent \in Agents /\ t.authority.by \in Nat
        /\ t.seqs \in [Agents -> 0..MaxSeq]
        /\ t.seqs[t.authority.agent] >= t.authority.by
    BY <1>1, Constants DEF TerminalRecord, Authority, Wellformed, Sound
  <2>2. seq >= t.seqs[a]
    BY <2>1 DEF Accepts, NoSeq
  <2> QED BY <1>3, <2>1, <2>2
<1>5. Owned(n)
  BY <1>3 DEF Owned, Wellformed
<1> QED BY <1>2, <1>3, <1>4, <1>5 DEF Wellformed, n

LEMMA WithoutAuthority ==
    ASSUME NEW t \in TerminalRecord
    PROVE  /\ [t EXCEPT !.authority = None] \in TerminalRecord
           /\ \A p \in Session \cup {None} :
                [t EXCEPT !.persisted = p] \in TerminalRecord
BY DEF TerminalRecord

(* Taking the authority away, having suppressed it or made it stale, keeps *)
(* out its session and all that were kept out before.                      *)
Withdraws(t, n, again) ==
    /\ n \in TerminalRecord
    /\ n.authority \in {None, t.authority}
    /\ n.authority # None => n.suppressed = t.suppressed /\ n.seqs = t.seqs
    /\ \A c \in Agents, s \in Sessions \ again : Bars(t, c, s) => Bars(n, c, s)
    /\ n.authority = None /\ t.authority # None /\ t.authority.ref # NoRef
         => Bars(n, t.authority.agent, t.authority.ref)

LEMMA SuppressWithdraws ==
    ASSUME NEW t, Wellformed(t), NEW reason \in {"exit", "clear"}
    PROVE  Withdraws(t, [Suppress(t, reason) EXCEPT !.authority = None], {})
<1> DEFINE u == Suppress(t, reason)
           n == [u EXCEPT !.authority = None]
<1> SUFFICES Withdraws(t, n, {})
  OBVIOUS
<1>1. /\ u \in TerminalRecord /\ u.stale = t.stale
      /\ t.authority = None => u = t
      /\ t.authority # None =>
           u.suppressed = [t.suppressed EXCEPT ![t.authority.agent] =
                             [ref |-> t.authority.ref, reason |-> reason]]
  BY SuppressDoes DEF Wellformed
<1> HIDE DEF u
<1>2. n \in TerminalRecord /\ n.authority = None
      /\ n.suppressed = u.suppressed /\ n.stale = u.stale
  BY <1>1, WithoutAuthority DEF TerminalRecord
<1> HIDE DEF n
<1>3. CASE t.authority = None
  <2>1. n.suppressed = t.suppressed /\ n.stale = t.stale
    BY <1>1, <1>2, <1>3
  <2>2. \A c, s : Bars(t, c, s) => Bars(n, c, s)
    BY <2>1 DEF Bars
  <2> QED BY <1>2, <1>3, <2>1, <2>2 DEF Withdraws
<1>4. CASE t.authority # None
  <2>1. t.authority.agent \in Agents /\ t.authority.ref \in 0..MaxSession
    BY <1>4, Constants DEF Wellformed, TerminalRecord, Authority
  <2>2. [ref |-> t.authority.ref, reason |-> reason] # None
    BY <2>1, Constants DEF Suppression
  <2>3. t.suppressed[t.authority.agent] = None
    BY <1>4 DEF Wellformed, Sound
  <2>4. \A c \in Agents : n.suppressed[c] =
          IF c = t.authority.agent THEN [ref |-> t.authority.ref, reason |-> reason]
          ELSE t.suppressed[c]
    BY <1>1, <1>2, <1>4, <2>1 DEF Wellformed, TerminalRecord
  <2>5. \A c \in Agents : \A s : Bars(t, c, s) => Bars(n, c, s)
    BY <1>1, <1>2, <2>3, <2>4 DEF Bars
  <2>6. Bars(n, t.authority.agent, t.authority.ref)
    BY <2>1, <2>2, <2>4 DEF Bars
  <2> QED BY <1>2, <2>5, <2>6 DEF Withdraws
<1> QED BY <1>3, <1>4

LEMMA WithdrawsIsSafe ==
    ASSUME NEW t, Wellformed(t), NEW n, NEW again, Withdraws(t, n, again), Owned(n)
    PROVE  Wellformed(n) /\ StillBarred(t, n, again) /\ NotOlder(t, n)
<1>1. n.authority # None => n.authority = t.authority /\ t.authority # None
  BY DEF Withdraws
<1>2. Wellformed(n)
  BY <1>1 DEF Wellformed, Withdraws, Sound
<1>3. NotOlder(t, n)
  <2>1. t.authority # None => t.authority.by \in Nat
    BY Constants DEF Wellformed, TerminalRecord, Authority
  <2> QED BY <1>1, <2>1 DEF NotOlder
<1>4. ASSUME NEW c \in Agents, NEW s \in Sessions \ again,
             Owner(t) = c, t.authority.ref = s, Owner(n) # c
      PROVE  Bars(n, c, s)
  <2>1. t.authority # None /\ t.authority.agent = c /\ n.authority = None
    BY <1>1, <1>4, Constants DEF Owner
  <2>2. s # NoRef
    BY Constants DEF Sessions, NoRef
  <2> QED BY <1>4, <2>1, <2>2 DEF Withdraws
<1> QED BY <1>2, <1>3, <1>4 DEF StillBarred, Withdraws

LEMMA OnlyHeard ==
    ASSUME NEW t, Wellformed(t), NEW a \in Agents, NEW seq \in 0..MaxSeq,
           Accepts(t, a, seq), NEW n, NEW again, Owned(n),
           Withdraws(Accepted(t, a, seq), n, again)
    PROVE  Wellformed(n) /\ StillBarred(t, n, again) /\ NotOlder(t, n)
<1> DEFINE h == Accepted(t, a, seq)
<1>1. /\ Wellformed(h) /\ h.authority = t.authority
      /\ h.suppressed = t.suppressed /\ h.stale = t.stale
  BY HeardIsSafe
<1>2. Withdraws(h, n, again)
  OBVIOUS
<1> HIDE DEF h
<1>3. Wellformed(n) /\ StillBarred(h, n, again) /\ NotOlder(h, n)
  BY <1>1, <1>2, WithdrawsIsSafe
<1>4. /\ \A c, s : Bars(t, c, s) <=> Bars(h, c, s)
      /\ Owner(t) = Owner(h)
  BY <1>1 DEF Bars, Owner
<1>5. StillBarred(t, n, again)
  BY <1>1, <1>3, <1>4 DEF StillBarred
<1>6. NotOlder(t, n)
  BY <1>1, <1>3 DEF NotOlder
<1> QED BY <1>3, <1>5, <1>6

LEMMA Untouched ==
    ASSUME NEW t, Wellformed(t), NEW again
    PROVE  Withdraws(t, t, again)
BY DEF Withdraws, Wellformed

LEMMA NothingDone ==
    ASSUME NEW t, Wellformed(t), NEW again
    PROVE  StillBarred(t, t, again) /\ NotOlder(t, t)
BY Untouched, WithdrawsIsSafe DEF Wellformed

LEMMA SessionStartIsSafe ==
    ASSUME NEW t, Wellformed(t), NEW r, Reported(r)
    PROVE  LET n == SessionStart(t, r)
               again == IF n.persisted = [agent |-> r.agent, ref |-> r.ref]
                        THEN {r.ref} ELSE {}
           IN  Wellformed(n) /\ StillBarred(t, n, again) /\ NotOlder(t, n)
<1> DEFINE a        == r.agent
           n        == SessionStart(t, r)
           session  == [agent |-> a, ref |-> r.ref]
           again    == IF n.persisted = session THEN {r.ref} ELSE {}
           allowed  == <<a, r.start>> \in Replacing
           takeover == OwnerConflicts(t, a) /\ r.start # NoStart /\ t.detected = a
           replaced == /\ Live(t) /\ t.authority.agent = a
                       /\ t.authority.ref \notin {NoRef, r.ref}
           h        == Accepted(t, a, r.seq)
           refused  == \/ ConflictsWithDetected(t, a)
                       \/ OwnerConflicts(t, a) /\ ~takeover
                       \/ SameOwnerConflict(t, a, r.ref, r.start)
                       \/ replaced /\ ~allowed
           revived  == IF allowed \/ takeover
                       THEN [h EXCEPT !.stale[a] = @ \ {r.ref}] ELSE h
           moved    == IF replaced
                       THEN [RememberStale(revived, a, t.authority.ref)
                               EXCEPT !.authority = None]
                       ELSE IF takeover
                       THEN [Suppress(revived, "clear") EXCEPT !.authority = None]
                       ELSE revived
<1>1. n = IF r.ref = NoRef \/ ~Accepts(t, a, r.seq) THEN t
          ELSE IF refused THEN h ELSE [moved EXCEPT !.persisted = session]
  BY DEF SessionStart
<1>2. /\ a \in Agents /\ r.seq \in 0..MaxSeq /\ r.ref \in 0..MaxSession
      /\ Made(a, r.ref)
  BY Constants DEF Reported
<1> SUFFICES Wellformed(n) /\ StillBarred(t, n, again) /\ NotOlder(t, n)
  OBVIOUS
<1> HIDE DEF n
<1>3. CASE r.ref = NoRef \/ ~Accepts(t, a, r.seq)
  <2>1. n = t
    BY <1>1, <1>3
  <2> QED BY <2>1, NothingDone
<1>4. CASE r.ref # NoRef /\ Accepts(t, a, r.seq) /\ refused
  <2>1. n = h
    BY <1>1, <1>4
  <2>2. Wellformed(h)
    BY <1>2, <1>4, HeardIsSafe
  <2>3. Withdraws(h, h, again) /\ Owned(h)
    BY <2>2, Untouched DEF Wellformed
  <2> QED BY <1>2, <1>4, <2>1, <2>3, OnlyHeard
<1>5. CASE r.ref # NoRef /\ Accepts(t, a, r.seq) /\ ~refused
  <2>1. n = [moved EXCEPT !.persisted = session]
    BY <1>1, <1>5
  <2>2. /\ Wellformed(h) /\ h.authority = t.authority
        /\ h.suppressed = t.suppressed /\ h.stale = t.stale
    BY <1>2, <1>5, HeardIsSafe
  <2>3. session \in Session
    BY <1>2, <1>5, Constants DEF Session, Sessions, NoRef
  <2> HIDE DEF h
  <2>4. /\ Wellformed(revived)
        /\ revived.authority = h.authority /\ revived.suppressed = h.suppressed
        /\ revived.seqs = h.seqs
        /\ \A c \in Agents : \A s : s # r.ref /\ Bars(h, c, s) => Bars(revived, c, s)
    <3>1. CASE allowed \/ takeover
      <4>1. [h.stale EXCEPT ![a] = @ \ {r.ref}] \in [Agents -> SUBSET Sessions]
        BY <2>2 DEF Wellformed, TerminalRecord
      <4>2. revived = [h EXCEPT !.stale = [h.stale EXCEPT ![a] = @ \ {r.ref}]]
        BY <2>2, <3>1 DEF Wellformed, TerminalRecord
      <4> HIDE DEF revived
      <4>3. /\ revived \in TerminalRecord
            /\ revived.authority = h.authority /\ revived.suppressed = h.suppressed
            /\ revived.seqs = h.seqs /\ revived.persisted = h.persisted
            /\ revived.stale = [h.stale EXCEPT ![a] = @ \ {r.ref}]
        BY <2>2, <4>1, <4>2 DEF Wellformed, TerminalRecord
      <4>4. Wellformed(revived)
        BY <2>2, <4>3 DEF Wellformed, Sound, Owned
      <4>5. \A c \in Agents : revived.stale[c] =
              IF c = a THEN h.stale[a] \ {r.ref} ELSE h.stale[c]
        BY <2>2, <4>3 DEF Wellformed, TerminalRecord
      <4> QED BY <4>3, <4>4, <4>5 DEF Bars
    <3>2. CASE ~(allowed \/ takeover)
      BY <2>2, <3>2
    <3> QED BY <3>1, <3>2
  <2> HIDE DEF revived
  <2>5. Withdraws(revived, moved, {})
    <3>1. CASE replaced
      <4> DEFINE u == RememberStale(revived, a, t.authority.ref)
      <4>1. t.authority # None /\ t.authority.ref \in 0..MaxSession
        BY <3>1, LiveIsOwned, Constants DEF Wellformed, TerminalRecord, Authority
      <4>2. /\ u \in TerminalRecord
            /\ u.suppressed = revived.suppressed
            /\ u.stale = [revived.stale EXCEPT ![a] =
                            @ \cup ({t.authority.ref} \ {NoRef})]
        BY <1>2, <2>4, <4>1, RememberStaleDoes DEF Wellformed
      <4>3. moved = [u EXCEPT !.authority = None]
        BY <3>1
      <4> HIDE DEF u, moved
      <4>4. /\ moved \in TerminalRecord /\ moved.authority = None
            /\ moved.suppressed = u.suppressed /\ moved.stale = u.stale
        BY <4>2, <4>3, WithoutAuthority DEF TerminalRecord
      <4>5. \A c \in Agents : moved.stale[c] =
              IF c = a THEN revived.stale[a] \cup ({t.authority.ref} \ {NoRef})
              ELSE revived.stale[c]
        BY <2>4, <4>2, <4>4 DEF Wellformed, TerminalRecord
      <4>6. \A c \in Agents : \A s : Bars(revived, c, s) => Bars(moved, c, s)
        BY <4>2, <4>4, <4>5 DEF Bars
      <4>7. revived.authority.ref # NoRef
              => Bars(moved, revived.authority.agent, revived.authority.ref)
        BY <1>2, <2>2, <2>4, <3>1, <4>5 DEF Bars
      <4> QED BY <4>2, <4>4, <4>6, <4>7 DEF Withdraws
    <3>2. CASE ~replaced /\ takeover
      <4>1. moved = [Suppress(revived, "clear") EXCEPT !.authority = None]
        BY <3>2
      <4> QED BY <2>4, <4>1, SuppressWithdraws
    <3>3. CASE ~replaced /\ ~takeover
      BY <2>4, <3>3, Untouched
    <3> QED BY <3>1, <3>2, <3>3
  <2> HIDE DEF moved
  <2> HIDE DEF session
  <2>6. /\ n \in TerminalRecord
        /\ n.authority = moved.authority /\ n.suppressed = moved.suppressed
        /\ n.stale = moved.stale /\ n.seqs = moved.seqs /\ n.persisted = session
    BY <2>1, <2>3, <2>5, WithoutAuthority DEF Withdraws, TerminalRecord
  <2>7. \A c, s : Bars(moved, c, s) => Bars(n, c, s)
    BY <2>6 DEF Bars
  <2>8. again = {r.ref}
    BY <2>6
  <2>9. Withdraws(h, n, again)
    BY <2>2, <2>4, <2>5, <2>6, <2>7, <2>8 DEF Withdraws
  <2>10. Owned(n)
    <3>1. session.agent = a /\ session.ref = r.ref
      BY DEF session
    <3> QED BY <1>2, <2>2, <2>4, <2>5, <2>6, <3>1 DEF Withdraws, Wellformed, Owned
  <2> QED BY <1>2, <1>5, <2>9, <2>10, OnlyHeard DEF h
<1> QED BY <1>3, <1>4, <1>5

(* Sessions, numbers of nobody in charge and what is detected do not count. *)
LEMMA AlsoWithdraws ==
    ASSUME NEW t, NEW m, NEW again, Withdraws(t, m, again),
           NEW n \in TerminalRecord, n.authority = m.authority,
           n.suppressed = m.suppressed, n.stale = m.stale,
           n.authority = None \/ n.seqs = m.seqs
    PROVE  Withdraws(t, n, again)
<1>1. \A c, s : Bars(m, c, s) => Bars(n, c, s)
  BY DEF Bars
<1> QED BY <1>1 DEF Withdraws

LEMMA WithdrawsOnwards ==
    ASSUME NEW t, Wellformed(t), NEW m, NEW n, Withdraws(t, m, {}), Withdraws(m, n, {})
    PROVE  Withdraws(t, n, {})
<1>1. n.authority # None => n.authority = m.authority /\ m.authority # None
  BY DEF Withdraws
<1>2. ASSUME n.authority = None, t.authority # None, t.authority.ref # NoRef
      PROVE  Bars(n, t.authority.agent, t.authority.ref)
  <2>1. t.authority.agent \in Agents /\ t.authority.ref \in Sessions
    BY <1>2, Constants DEF Wellformed, TerminalRecord, Authority, Sessions, NoRef
  <2>2. CASE m.authority = None
    <3>1. Bars(m, t.authority.agent, t.authority.ref)
      BY <1>2, <2>2 DEF Withdraws
    <3> QED BY <2>1, <3>1 DEF Withdraws
  <2>3. CASE m.authority # None
    BY <1>2, <2>3 DEF Withdraws
  <2> QED BY <2>2, <2>3
<1> QED BY <1>1, <1>2 DEF Withdraws

LEMMA ReleaseIsSafe ==
    ASSUME NEW t, Wellformed(t), NEW a \in Agents, NEW seq \in 0..MaxSeq
    PROVE  LET n == Release(t, a, seq)
               again == IF t.suppressed[a] # None THEN {t.suppressed[a].ref} ELSE {}
           IN  Wellformed(n) /\ StillBarred(t, n, again) /\ NotOlder(t, n)
<1> DEFINE n       == Release(t, a, seq)
           again   == IF t.suppressed[a] # None THEN {t.suppressed[a].ref} ELSE {}
           h       == Accepted(t, a, seq)
           foreign == t.authority # None /\ t.authority.agent # a
           owned   == t.persisted # None /\ t.persisted.agent = a
           refused == foreign \/ ~(EffectiveAgent(t) = a \/ owned)
           mark    == [ref    |-> IF t.authority = None THEN NoRef ELSE t.authority.ref,
                       reason |-> "clear"]
<1> SUFFICES Wellformed(n) /\ StillBarred(t, n, again) /\ NotOlder(t, n)
  OBVIOUS
<1>1. n = IF ~Accepts(t, a, seq) THEN t ELSE IF refused THEN h
          ELSE [h EXCEPT !.suppressed[a] = mark,
                         !.stamped = @ \cup {a},
                         !.detected = None,
                         !.authority = None,
                         !.persisted = IF owned THEN None ELSE @]
  BY DEF Release
<1> HIDE DEF n
<1>2. CASE ~Accepts(t, a, seq)
  BY <1>1, <1>2, NothingDone
<1>3. CASE Accepts(t, a, seq) /\ refused
  <2>1. Wellformed(h)
    BY <1>3, HeardIsSafe
  <2>2. Withdraws(h, h, again) /\ Owned(h)
    BY <2>1, Untouched DEF Wellformed
  <2> QED BY <1>1, <1>3, <2>2, OnlyHeard
<1>4. CASE Accepts(t, a, seq) /\ ~refused
  <2>1. /\ Wellformed(h) /\ h.authority = t.authority /\ h.persisted = t.persisted
        /\ h.suppressed = t.suppressed /\ h.stale = t.stale
    BY <1>4, HeardIsSafe
  <2>2. mark \in Suppression /\ mark # None /\ mark.ref =
          IF t.authority = None THEN NoRef ELSE t.authority.ref
    <3>1. t.authority # None => t.authority.ref \in 0..MaxSession
      BY DEF Wellformed, TerminalRecord, Authority
    <3>2. mark \in Suppression
      BY <3>1, Constants DEF Suppression, NoRef
    <3> QED BY <3>2, Constants
  <2> HIDE DEF h, mark
  <2>3. [h.suppressed EXCEPT ![a] = mark] \in [Agents -> Suppression \cup {None}]
    BY <2>1, <2>2 DEF Wellformed, TerminalRecord
  <2>4. n = [h EXCEPT !.suppressed = [h.suppressed EXCEPT ![a] = mark],
                      !.stamped = h.stamped \cup {a},
                      !.detected = None,
                      !.authority = None,
                      !.persisted = IF owned THEN None ELSE h.persisted]
    BY <1>1, <1>4, <2>1 DEF Wellformed, TerminalRecord
  <2>5. /\ n \in TerminalRecord /\ n.authority = None /\ n.stale = h.stale
        /\ n.suppressed = [h.suppressed EXCEPT ![a] = mark]
        /\ n.persisted \in {None, t.persisted}
    BY <2>1, <2>3, <2>4 DEF Wellformed, TerminalRecord
  <2>6. \A c \in Agents : n.suppressed[c] = IF c = a THEN mark ELSE h.suppressed[c]
    BY <2>1, <2>5 DEF Wellformed, TerminalRecord
  <2>7. \A c \in Agents, s \in Sessions \ again : Bars(h, c, s) => Bars(n, c, s)
    BY <2>1, <2>5, <2>6 DEF Bars
  <2>8. h.authority # None => Bars(n, h.authority.agent, h.authority.ref)
    BY <1>4, <2>1, <2>2, <2>6 DEF Bars
  <2>9. Withdraws(h, n, again)
    BY <2>2, <2>5, <2>6, <2>7, <2>8 DEF Withdraws
  <2>10. Owned(n)
    BY <2>5 DEF Wellformed, Owned
  <2> QED BY <1>4, <2>9, <2>10, OnlyHeard DEF h
<1> QED BY <1>2, <1>3, <1>4

LEMMA ClearAuthorityIsSafe ==
    ASSUME NEW t, Wellformed(t), t.authority # None,
           NEW source \in {None, t.authority.agent}, NEW seq \in 0..MaxSeq
    PROVE  LET n == ClearAuthority(t, source, seq)
           IN  Wellformed(n) /\ StillBarred(t, n, {}) /\ NotOlder(t, n)
<1> DEFINE n == ClearAuthority(t, source, seq)
           a == t.authority.agent
           h == Accepted(t, a, seq)
           m == [Suppress(h, "clear") EXCEPT !.authority = None]
<1> SUFFICES Wellformed(n) /\ StillBarred(t, n, {}) /\ NotOlder(t, n)
  OBVIOUS
<1>1. a \in Agents /\ a # None
  BY Constants DEF Wellformed, TerminalRecord, Authority
<1>2. n = IF ~Accepts(t, a, seq) THEN t
          ELSE [Suppress(h, "clear") EXCEPT !.authority = None, !.persisted = None]
  BY <1>1 DEF ClearAuthority
<1> HIDE DEF n
<1>3. CASE ~Accepts(t, a, seq)
  BY <1>2, <1>3, NothingDone
<1>4. CASE Accepts(t, a, seq)
  <2>1. Wellformed(h)
    BY <1>1, <1>4, HeardIsSafe
  <2> HIDE DEF h
  <2>2. Withdraws(h, m, {})
    BY <2>1, SuppressWithdraws
  <2>3. n = [m EXCEPT !.persisted = None] /\ m.authority = None
    <3> DEFINE u == Suppress(h, "clear")
    <3>1. u \in TerminalRecord
      BY <2>1, SuppressDoes DEF Wellformed
    <3>2. n = [u EXCEPT !.authority = None, !.persisted = None]
      BY <1>2, <1>4
    <3>3. m = [u EXCEPT !.authority = None]
      OBVIOUS
    <3> HIDE DEF u, m
    <3> QED BY <3>1, <3>2, <3>3 DEF TerminalRecord
  <2> HIDE DEF m
  <2>4. /\ n \in TerminalRecord /\ n.authority = None /\ n.persisted = None
        /\ n.suppressed = m.suppressed /\ n.stale = m.stale
    <3>1. m \in TerminalRecord
      BY <2>2 DEF Withdraws
    <3> QED BY <2>3, <3>1 DEF TerminalRecord
  <2>5. Withdraws(h, n, {})
    BY <2>2, <2>3, <2>4, AlsoWithdraws
  <2>6. Owned(n)
    BY <2>4 DEF Owned
  <2> QED BY <1>1, <1>4, <2>5, <2>6, OnlyHeard DEF h
<1> QED BY <1>3, <1>4
-----------------------------------------------------------------------------
(* An observation of the detector.                                         *)
LEMMA DetectedIsSafe ==
    ASSUME NEW t, Wellformed(t), NEW e \in Observation
    PROVE  LET n == Detected(t, e)
           IN  Wellformed(n) /\ StillBarred(t, n, {}) /\ NotOlder(t, n)
<1> DEFINE n         == Detected(t, e)
           a         == e.agent
           against   == a # None /\ t.authority # None /\ t.authority.agent # a
           seen      == [t EXCEPT !.detected = a]
           fresh     == IF ~e.exited /\ a # None /\ t.detected # a
                        THEN FreshProcess(seen, a) ELSE seen
           leaves    == /\ e.exited /\ ~e.late
                        /\ t.authority # None /\ t.authority.agent = a
           gone      == IF leaves
                        THEN [Suppress(fresh, "exit") EXCEPT !.seqs[a] = NoSeq,
                                                             !.authority = None]
                        ELSE fresh
           forgot    == IF e.exited /\ t.persisted # None /\ t.persisted.agent = a
                        THEN [gone EXCEPT !.persisted = None] ELSE gone
           displaced == /\ forgot.authority # None /\ ~e.late
                        /\ \/ against
                           \/ /\ t.detected \notin {None, a}
                              /\ t.authority.agent = t.detected
           session   == IF t.authority.ref = NoRef THEN None ELSE SessionIdentity(t)
           early     == Live(t) /\ ~e.exited /\ ~against
           Safe(x)   == Wellformed(x) /\ StillBarred(t, x, {}) /\ NotOlder(t, x)
<1> SUFFICES Safe(n)
  OBVIOUS
<1>1. n = IF early
          THEN [t EXCEPT !.detected = IF t.authority.agent = a THEN a ELSE @]
          ELSE IF /\ ~e.exited /\ a # None
                  /\ t.suppressed[a] # None /\ a \in e.unseen
          THEN t
          ELSE IF displaced
          THEN [Suppress(forgot, "clear") EXCEPT !.authority = None,
                                                 !.persisted = session]
          ELSE forgot
  BY DEF Detected
<1> HIDE DEF n
<1>2. t \in TerminalRecord /\ a \in Agents \cup {None}
  BY DEF Wellformed, Observation
<1>3. ASSUME NEW x \in TerminalRecord, x.authority = t.authority,
             x.suppressed = t.suppressed, x.stale = t.stale, x.seqs = t.seqs,
             x.persisted = t.persisted
      PROVE  Safe(x)
  <2>1. Withdraws(t, x, {})
    BY <1>3, Untouched, AlsoWithdraws
  <2>2. Owned(x)
    BY <1>3 DEF Wellformed, Owned
  <2> QED BY <1>3, <2>1, <2>2, WithdrawsIsSafe
<1>4. CASE early
  <2>1. n = [t EXCEPT !.detected = IF t.authority.agent = a THEN a ELSE t.detected]
    BY <1>1, <1>2, <1>4 DEF TerminalRecord
  <2>2. /\ n \in TerminalRecord /\ n.authority = t.authority
        /\ n.suppressed = t.suppressed /\ n.stale = t.stale /\ n.seqs = t.seqs
        /\ n.persisted = t.persisted
    BY <1>2, <2>1 DEF TerminalRecord
  <2> QED BY <1>3, <2>2
<1>5. CASE ~early
  <2>1. /\ seen \in TerminalRecord /\ seen.detected = a
        /\ seen.authority = t.authority /\ seen.persisted = t.persisted
        /\ seen.seqs = t.seqs /\ seen.suppressed = t.suppressed
        /\ seen.stale = t.stale
    BY <1>2 DEF TerminalRecord
  <2>2. Wellformed(seen)
    BY <2>1 DEF Wellformed, Sound, Owned
  <2> HIDE DEF seen
  <2>3. /\ Wellformed(fresh) /\ fresh.detected = a
        /\ fresh.authority = t.authority /\ fresh.persisted = t.persisted
        /\ \A c \in Agents, s \in Sessions : Bars(t, c, s) => Bars(fresh, c, s)
        /\ \A c \in Agents \ {a} : fresh.suppressed[c] = t.suppressed[c]
    <3>1. CASE ~e.exited /\ a \in Full /\ t.detected # a
      <4>1. fresh = FreshProcess(seen, a) /\ a \in Agents
        BY <3>1, Constants
      <4> HIDE DEF fresh
      <4>2. /\ fresh \in TerminalRecord /\ fresh.detected = a
            /\ fresh.authority = t.authority /\ fresh.persisted = t.persisted
            /\ fresh.seqs = [t.seqs EXCEPT ![a] = NoSeq]
            /\ fresh.suppressed = [t.suppressed EXCEPT ![a] = None]
            /\ fresh.stale = IF t.suppressed[a] = None THEN t.stale
                             ELSE [t.stale EXCEPT ![a] =
                                     @ \cup ({t.suppressed[a].ref} \ {NoRef})]
        <5> DEFINE x == FreshProcess(seen, a)
        <5>1. /\ x \in TerminalRecord /\ x.detected = seen.detected
              /\ x.authority = seen.authority /\ x.persisted = seen.persisted
              /\ x.seqs = [seen.seqs EXCEPT ![a] = NoSeq]
              /\ x.suppressed = [seen.suppressed EXCEPT ![a] = None]
              /\ x.stale = IF seen.suppressed[a] = None THEN seen.stale
                           ELSE [seen.stale EXCEPT ![a] =
                                   @ \cup ({seen.suppressed[a].ref} \ {NoRef})]
          BY <2>1, <3>1, FreshProcessDoes
        <5>2. fresh = x
          BY <4>1
        <5> HIDE DEF x
        <5> QED BY <2>1, <5>1, <5>2
      <4>3. t.authority # None => t.authority.agent # a
        BY <1>2, <1>5, <3>1, LiveIsOwned
      <4>4. Wellformed(fresh)
        BY <1>2, <4>2, <4>3, Constants
           DEF Wellformed, Sound, Owned, TerminalRecord, Authority
      <4>5. \A c \in Agents \ {a} : /\ fresh.suppressed[c] = t.suppressed[c]
                                    /\ fresh.stale[c] = t.stale[c]
        BY <1>2, <4>2 DEF TerminalRecord
      <4>6. \A s \in Sessions : Bars(t, a, s) => s \in fresh.stale[a]
        BY <1>2, <4>1, <4>2 DEF TerminalRecord, Bars, Sessions, NoRef
      <4> QED BY <4>2, <4>4, <4>5, <4>6 DEF Bars
    <3>2. CASE ~(~e.exited /\ a \in Full /\ t.detected # a)
      <4>1. fresh = seen
        BY <3>2 DEF FreshProcess
      <4> HIDE DEF fresh
      <4> QED BY <2>1, <2>2, <4>1 DEF Bars
    <3> QED BY <3>1, <3>2
  <2> HIDE DEF fresh
  <2>4. /\ Withdraws(fresh, gone, {}) /\ gone.detected = a
        /\ gone.persisted = t.persisted
    <3>1. CASE leaves
      <4> DEFINE u == Suppress(fresh, "exit")
                 m == [u EXCEPT !.authority = None]
      <4>1. /\ Withdraws(fresh, m, {}) /\ u \in TerminalRecord
            /\ u.detected = a /\ u.persisted = t.persisted
        BY <2>3, SuppressWithdraws, SuppressDoes DEF Wellformed
      <4>2. gone = [u EXCEPT !.seqs[a] = NoSeq, !.authority = None]
        BY <3>1
      <4>3. a \in Agents
        BY <1>2, <3>1, Constants DEF TerminalRecord, Authority
      <4> HIDE DEF u, gone
      <4>4. [u.seqs EXCEPT ![a] = NoSeq] \in [Agents -> 0..MaxSeq]
        BY <4>1, <4>3, Constants DEF TerminalRecord, NoSeq
      <4>5. gone = [u EXCEPT !.seqs = [u.seqs EXCEPT ![a] = NoSeq], !.authority = None]
        BY <4>1, <4>2 DEF TerminalRecord
      <4>6. /\ gone \in TerminalRecord /\ gone.authority = None
            /\ gone.suppressed = u.suppressed /\ gone.stale = u.stale
            /\ gone.detected = u.detected /\ gone.persisted = u.persisted
        BY <4>1, <4>4, <4>5 DEF TerminalRecord
      <4>7. /\ m.authority = None /\ m.suppressed = u.suppressed
            /\ m.stale = u.stale
        BY <4>1 DEF TerminalRecord
      <4> HIDE DEF m
      <4> QED BY <4>1, <4>6, <4>7, AlsoWithdraws
    <3>2. CASE ~leaves
      BY <2>3, <3>2, Untouched
    <3> QED BY <3>1, <3>2
  <2> HIDE DEF gone
  <2>5. /\ Withdraws(fresh, forgot, {}) /\ forgot.detected = a
        /\ forgot.persisted \in {None, t.persisted} /\ Wellformed(forgot)
    <3>1. CASE e.exited /\ t.persisted # None /\ t.persisted.agent = a
      <4>1. forgot = [gone EXCEPT !.persisted = None] /\ gone \in TerminalRecord
        BY <2>4, <3>1 DEF Withdraws
      <4> HIDE DEF forgot
      <4>2. /\ forgot \in TerminalRecord /\ forgot.authority = gone.authority
            /\ forgot.suppressed = gone.suppressed /\ forgot.stale = gone.stale
            /\ forgot.seqs = gone.seqs /\ forgot.detected = gone.detected
            /\ forgot.persisted = None
        BY <4>1 DEF TerminalRecord
      <4>3. Withdraws(fresh, forgot, {})
        BY <2>4, <4>2, AlsoWithdraws
      <4>4. Owned(forgot)
        BY <2>3, <4>2, <4>3 DEF Owned, Wellformed, Withdraws
      <4> QED BY <2>3, <2>4, <4>2, <4>3, <4>4, WithdrawsIsSafe
    <3>2. CASE ~(e.exited /\ t.persisted # None /\ t.persisted.agent = a)
      <4>1. Owned(gone)
        BY <2>3, <2>4 DEF Owned, Wellformed, Withdraws
      <4> QED BY <2>3, <2>4, <3>2, <4>1, WithdrawsIsSafe
    <3> QED BY <3>1, <3>2
  <2> HIDE DEF forgot
  <2>6. ASSUME NEW x, Withdraws(fresh, x, {}), Owned(x), x.detected = a
        PROVE  Safe(x)
    <3>1. /\ Wellformed(x) /\ StillBarred(fresh, x, {})
      BY <2>3, <2>6, WithdrawsIsSafe
    <3>2. StillBarred(t, x, {})
      BY <2>3, <3>1 DEF StillBarred, Owner
    <3>3. NotOlder(t, x)
      <4>1. x.authority # None => x.authority = t.authority
        BY <2>3, <2>6 DEF Withdraws
      <4>2. t.authority # None => t.authority.by \in Nat
        BY <1>2, Constants DEF TerminalRecord, Authority
      <4> QED BY <4>1, <4>2 DEF NotOlder
    <3> QED BY <3>1, <3>2, <3>3
  <2>7. CASE ~e.exited /\ a # None /\ t.suppressed[a] # None /\ a \in e.unseen
    <3>1. n = t
      BY <1>1, <1>5, <2>7
    <3> QED BY <1>2, <1>3, <3>1
  <2>8. CASE ~(~e.exited /\ a # None /\ t.suppressed[a] # None /\ a \in e.unseen)
             /\ displaced
    <3> DEFINE u == Suppress(forgot, "clear")
               m == [u EXCEPT !.authority = None]
    <3>1. n = [u EXCEPT !.authority = None, !.persisted = session]
      BY <1>1, <1>5, <2>8
    <3>2. forgot.authority = t.authority /\ t.authority # None
      BY <2>3, <2>5, <2>8 DEF Withdraws
    <3>3. session \in Session \cup {None}
          /\ (session # None => Made(session.agent, session.ref))
      <4>1. CASE t.authority.ref = NoRef
        BY <4>1
      <4>2. CASE t.authority.ref # NoRef
        <5>1. session = [agent |-> t.authority.agent, ref |-> t.authority.ref]
          BY <3>2, <4>2 DEF SessionIdentity
        <5>2. t.authority.agent \in Agents /\ t.authority.ref \in Sessions
          BY <1>2, <3>2, <4>2, Constants DEF TerminalRecord, Authority, Sessions, NoRef
        <5>3. Made(t.authority.agent, t.authority.ref)
          BY <3>2 DEF Wellformed, Owned
        <5> HIDE DEF session
        <5> QED BY <5>1, <5>2, <5>3 DEF Session
      <4> QED BY <4>1, <4>2
    <3>4. Withdraws(forgot, m, {}) /\ u \in TerminalRecord /\ u.detected = a
      BY <2>5, SuppressWithdraws, SuppressDoes DEF Wellformed
    <3> HIDE DEF u, session
    <3>5. /\ n \in TerminalRecord /\ n.authority = None /\ n.detected = a
          /\ n.suppressed = u.suppressed /\ n.stale = u.stale /\ n.persisted = session
      BY <3>1, <3>3, <3>4 DEF TerminalRecord
    <3>6. /\ m.authority = None /\ m.suppressed = u.suppressed
          /\ m.stale = u.stale
      BY <3>4 DEF TerminalRecord
    <3> HIDE DEF m
    <3>7. Withdraws(forgot, n, {})
      BY <3>4, <3>5, <3>6, AlsoWithdraws
    <3>8. Withdraws(fresh, n, {})
      BY <2>3, <2>5, <3>7, WithdrawsOnwards
    <3>9. Owned(n)
      BY <3>3, <3>5 DEF Owned
    <3> QED BY <2>6, <3>5, <3>8, <3>9
  <2>9. CASE ~(~e.exited /\ a # None /\ t.suppressed[a] # None /\ a \in e.unseen)
             /\ ~displaced
    <3>1. n = forgot
      BY <1>1, <1>5, <2>9
    <3> QED BY <2>5, <2>6, <3>1 DEF Wellformed
  <2> QED BY <2>7, <2>8, <2>9
<1> QED BY <1>4, <1>5
-----------------------------------------------------------------------------
(* What keeps out an agent that exited.                                    *)
LEMMA NothingSpared ==
    ASSUME NEW t, Wellformed(t), NEW c \in Full
    PROVE  Spares(t, t, c)
BY Constants DEF Spares, Wellformed, TerminalRecord

(* A number that is accepted is a higher one.                              *)
LEMMA HeardSpares ==
    ASSUME NEW t, Wellformed(t), NEW a \in Agents, NEW seq \in 0..MaxSeq,
           Accepts(t, a, seq), NEW c \in Full
    PROVE  Spares(t, Accepted(t, a, seq), c)
<1> DEFINE n == Accepted(t, a, seq)
<1>1. t.seqs \in [Agents -> 0..MaxSeq] /\ c \in Agents
  BY Constants DEF Wellformed, TerminalRecord
<1>2. n.suppressed = t.suppressed
  BY HeardIsSafe
<1>3. t \in TerminalRecord /\ n = [t EXCEPT !.seqs = [t.seqs EXCEPT ![a] = seq]]
  BY HeardIsHeard DEF Wellformed
<1> HIDE DEF n
<1>4. n.seqs[c] = IF c = a THEN seq ELSE t.seqs[c]
  BY <1>1, <1>3 DEF TerminalRecord
<1>5. seq >= t.seqs[a]
  BY <1>1 DEF Accepts, NoSeq
<1> QED BY <1>1, <1>2, <1>4, <1>5 DEF Spares, n

(* The agent in charge is not suppressed, so that Suppress is about others. *)
LEMMA SuppressSpares ==
    ASSUME NEW t, Wellformed(t), NEW reason \in {"exit", "clear"},
           NEW c \in Full, t.suppressed[c] # None
    PROVE  /\ Suppress(t, reason).suppressed[c] = t.suppressed[c]
           /\ Suppress(t, reason).seqs = t.seqs
<1>1. CASE t.authority = None
  BY <1>1, SuppressDoes DEF Wellformed
<1>2. CASE t.authority # None
  <2>1. c # t.authority.agent
    BY <1>2 DEF Wellformed, Sound
  <2> DEFINE n == Suppress(t, reason)
  <2>2. /\ t \in TerminalRecord /\ n.seqs = t.seqs
        /\ n.suppressed = [t.suppressed EXCEPT ![t.authority.agent] =
                              [ref |-> t.authority.ref, reason |-> reason]]
    BY <1>2, SuppressDoes DEF Wellformed
  <2> HIDE DEF n
  <2>3. n.suppressed[c] = t.suppressed[c]
    BY <2>1, <2>2, Constants DEF TerminalRecord
  <2> QED BY <2>2, <2>3 DEF n
<1> QED BY <1>1, <1>2

LEMMA SparesOn ==
    ASSUME NEW t, Wellformed(t), NEW h, NEW n, NEW c \in Full,
           h.seqs[c] \in Nat, n.seqs[c] \in Nat,
           Spares(t, h, c), n.suppressed[c] = h.suppressed[c], n.seqs[c] >= h.seqs[c]
    PROVE  Spares(t, n, c)
BY Constants DEF Spares, Wellformed, TerminalRecord

LEMMA SessionStartSpares ==
    ASSUME NEW t, Wellformed(t), NEW r, Reported(r),
           NEW c \in Full, t.suppressed[c] # None
    PROVE  Spares(t, SessionStart(t, r), c)
<1> DEFINE a        == r.agent
           n        == SessionStart(t, r)
           session  == [agent |-> a, ref |-> r.ref]
           allowed  == <<a, r.start>> \in Replacing
           takeover == OwnerConflicts(t, a) /\ r.start # NoStart /\ t.detected = a
           replaced == /\ Live(t) /\ t.authority.agent = a
                       /\ t.authority.ref \notin {NoRef, r.ref}
           h        == Accepted(t, a, r.seq)
           refused  == \/ ConflictsWithDetected(t, a)
                       \/ OwnerConflicts(t, a) /\ ~takeover
                       \/ SameOwnerConflict(t, a, r.ref, r.start)
                       \/ replaced /\ ~allowed
           revived  == IF allowed \/ takeover
                       THEN [h EXCEPT !.stale[a] = @ \ {r.ref}] ELSE h
           moved    == IF replaced
                       THEN [RememberStale(revived, a, t.authority.ref)
                               EXCEPT !.authority = None]
                       ELSE IF takeover
                       THEN [Suppress(revived, "clear") EXCEPT !.authority = None]
                       ELSE revived
<1>1. n = IF r.ref = NoRef \/ ~Accepts(t, a, r.seq) THEN t
          ELSE IF refused THEN h ELSE [moved EXCEPT !.persisted = session]
  BY DEF SessionStart
<1>2. a \in Agents /\ r.seq \in 0..MaxSeq /\ c \in Agents
  BY Constants DEF Reported
<1> HIDE DEF n
<1>3. CASE r.ref = NoRef \/ ~Accepts(t, a, r.seq)
  BY <1>1, <1>3, NothingSpared DEF n
<1>4. CASE r.ref # NoRef /\ Accepts(t, a, r.seq)
  <2>1. /\ Wellformed(h) /\ Spares(t, h, c)
        /\ h.authority = t.authority
    BY <1>2, <1>4, HeardIsSafe, HeardSpares
  <2> HIDE DEF h
  <2>2. h.seqs[c] \in Nat /\ h.suppressed[c] = t.suppressed[c]
    BY <1>2, <2>1, Constants DEF Wellformed, TerminalRecord, Spares
  <2>3. CASE refused
    BY <1>1, <1>4, <2>1, <2>3 DEF n
  <2>4. CASE ~refused
    <3>1. /\ Wellformed(revived) /\ revived.suppressed = h.suppressed
          /\ revived.seqs = h.seqs
      <4>1. CASE allowed \/ takeover
        <5>1. [h.stale EXCEPT ![a] = @ \ {r.ref}] \in [Agents -> SUBSET Sessions]
          BY <2>1 DEF Wellformed, TerminalRecord
        <5>2. revived = [h EXCEPT !.stale = [h.stale EXCEPT ![a] = @ \ {r.ref}]]
          BY <2>1, <4>1 DEF Wellformed, TerminalRecord
        <5> HIDE DEF revived
        <5>3. /\ revived \in TerminalRecord
              /\ revived.authority = h.authority /\ revived.suppressed = h.suppressed
              /\ revived.seqs = h.seqs /\ revived.persisted = h.persisted
          BY <2>1, <5>1, <5>2 DEF Wellformed, TerminalRecord
        <5> QED BY <2>1, <5>3 DEF Wellformed, Sound, Owned
      <4>2. CASE ~(allowed \/ takeover)
        BY <2>1, <4>2
      <4> QED BY <4>1, <4>2
    <3> HIDE DEF revived
    <3>2. moved.suppressed[c] = h.suppressed[c] /\ moved.seqs = h.seqs
          /\ moved \in TerminalRecord
      <4>1. CASE replaced
        <5> DEFINE u == RememberStale(revived, a, t.authority.ref)
        <5>1. t.authority.ref \in 0..MaxSession
          BY <4>1, LiveIsOwned, Constants DEF Wellformed, TerminalRecord, Authority
        <5>2. /\ u \in TerminalRecord
              /\ u.suppressed = revived.suppressed /\ u.seqs = revived.seqs
          BY <1>2, <3>1, <5>1, RememberStaleDoes DEF Wellformed
        <5>3. moved = [u EXCEPT !.authority = None]
          BY <4>1
        <5> HIDE DEF u, moved
        <5> QED BY <3>1, <5>2, <5>3, WithoutAuthority DEF TerminalRecord
      <4>2. CASE ~replaced /\ takeover
        <5> DEFINE u == Suppress(revived, "clear")
        <5>1. u \in TerminalRecord
          BY <3>1, SuppressDoes DEF Wellformed
        <5>2. u.suppressed[c] = revived.suppressed[c] /\ u.seqs = revived.seqs
          BY <2>2, <3>1, SuppressSpares
        <5>3. moved = [u EXCEPT !.authority = None]
          BY <4>2
        <5> HIDE DEF u, moved
        <5> QED BY <3>1, <5>1, <5>3, <5>2, WithoutAuthority DEF TerminalRecord
      <4>3. CASE ~replaced /\ ~takeover
        BY <3>1, <4>3 DEF Wellformed
      <4> QED BY <4>1, <4>2, <4>3
    <3> HIDE DEF moved, session
    <3>3. n.suppressed = moved.suppressed /\ n.seqs = moved.seqs
      BY <1>1, <1>4, <2>4, <3>2 DEF TerminalRecord
    <3> QED BY <2>1, <2>2, <3>2, <3>3, SparesOn DEF n
  <2> QED BY <2>3, <2>4
<1> QED BY <1>3, <1>4

LEMMA ClearAuthoritySpares ==
    ASSUME NEW t, Wellformed(t), t.authority # None,
           NEW source \in {None, t.authority.agent}, NEW seq \in 0..MaxSeq,
           NEW c \in Full, t.suppressed[c] # None
    PROVE  Spares(t, ClearAuthority(t, source, seq), c)
<1> DEFINE n == ClearAuthority(t, source, seq)
           a == t.authority.agent
           h == Accepted(t, a, seq)
           u == Suppress(h, "clear")
<1>1. a \in Agents /\ a # None /\ c \in Agents
  BY Constants DEF Wellformed, TerminalRecord, Authority
<1>2. n = IF ~Accepts(t, a, seq) THEN t
          ELSE [u EXCEPT !.authority = None, !.persisted = None]
  BY <1>1 DEF ClearAuthority
<1> HIDE DEF n
<1>3. CASE ~Accepts(t, a, seq)
  BY <1>2, <1>3, NothingSpared DEF n
<1>4. CASE Accepts(t, a, seq)
  <2>1. Wellformed(h) /\ Spares(t, h, c)
    BY <1>1, <1>4, HeardIsSafe, HeardSpares
  <2> HIDE DEF h
  <2>2. h.seqs[c] \in Nat /\ h.suppressed[c] = t.suppressed[c]
    BY <1>1, <2>1, Constants DEF Wellformed, TerminalRecord, Spares
  <2>3. u \in TerminalRecord
    BY <2>1, SuppressDoes DEF Wellformed
  <2>4. u.suppressed[c] = h.suppressed[c] /\ u.seqs = h.seqs
    BY <2>1, <2>2, SuppressSpares
  <2> HIDE DEF u
  <2>5. n.suppressed = u.suppressed /\ n.seqs = u.seqs
    BY <1>2, <1>4, <2>3 DEF TerminalRecord
  <2> QED BY <2>1, <2>2, <2>5, <2>4, SparesOn DEF n
<1> QED BY <1>3, <1>4

(* A release that is effective leaves a suppression without a session, and *)
(* its number; it says nothing of other agents.                            *)
LEMMA ReleaseSpares ==
    ASSUME NEW t, Wellformed(t), NEW a \in Agents, NEW seq \in 0..MaxSeq,
           NEW c \in Full, t.suppressed[c] # None
    PROVE  LET n == Release(t, a, seq)
           IN  \/ Spares(t, n, c)
               \/ /\ c = a
                  /\ n.suppressed[c] = [ref |-> NoRef, reason |-> "clear"]
                  /\ n.seqs[c] = seq /\ seq >= t.seqs[c]
<1> DEFINE n       == Release(t, a, seq)
           h       == Accepted(t, a, seq)
           foreign == t.authority # None /\ t.authority.agent # a
           owned   == t.persisted # None /\ t.persisted.agent = a
           refused == foreign \/ ~(EffectiveAgent(t) = a \/ owned)
           mark    == [ref    |-> IF t.authority = None THEN NoRef ELSE t.authority.ref,
                       reason |-> "clear"]
<1>1. n = IF ~Accepts(t, a, seq) THEN t ELSE IF refused THEN h
          ELSE [h EXCEPT !.suppressed[a] = mark,
                         !.stamped = @ \cup {a},
                         !.detected = None,
                         !.authority = None,
                         !.persisted = IF owned THEN None ELSE @]
  BY DEF Release
<1>2. c \in Agents /\ t \in TerminalRecord
  BY Constants DEF Wellformed
<1> HIDE DEF n
<1>3. CASE ~Accepts(t, a, seq)
  BY <1>1, <1>3, NothingSpared DEF n
<1>4. CASE Accepts(t, a, seq) /\ refused
  BY <1>1, <1>4, HeardSpares DEF n
<1>5. CASE Accepts(t, a, seq) /\ ~refused
  <2>1. h \in TerminalRecord /\ h = [t EXCEPT !.seqs = [t.seqs EXCEPT ![a] = seq]]
    BY <1>2, HeardIsHeard
  <2>2. seq >= t.seqs[a]
    BY <1>2, <1>5 DEF Accepts, NoSeq, TerminalRecord
  <2> HIDE DEF h, mark
  <2>3. h.suppressed = t.suppressed /\ h.seqs = [t.seqs EXCEPT ![a] = seq]
    BY <1>2, <2>1 DEF TerminalRecord
  <2>4. /\ n.suppressed = [t.suppressed EXCEPT ![a] = mark]
        /\ n.seqs = [t.seqs EXCEPT ![a] = seq]
    BY <1>1, <1>5, <2>1, <2>3 DEF TerminalRecord
  <2>5. CASE c = a
    <3>1. t.authority = None
      BY <1>5, <2>5 DEF Wellformed, Sound
    <3>2. mark = [ref |-> NoRef, reason |-> "clear"]
      BY <3>1 DEF mark
    <3> QED BY <1>2, <2>2, <2>4, <2>5, <3>2 DEF n, TerminalRecord
  <2>6. CASE c # a
    <3>1. n.suppressed[c] = t.suppressed[c] /\ n.seqs[c] = t.seqs[c]
          /\ t.seqs[c] \in Nat
      BY <1>2, <2>4, <2>6 DEF TerminalRecord
    <3> QED BY <3>1 DEF Spares, n
  <2> QED BY <2>5, <2>6
<1> QED BY <1>3, <1>4, <1>5

(* Only a process that the detector sees start ends a suppression, and an  *)
(* exit that takes the authority leaves one.                               *)
LEMMA DetectedSpares ==
    ASSUME NEW t, Wellformed(t), NEW e \in Observation, NEW c \in Full
    PROVE  LET n == Detected(t, e)
           IN  /\ t.suppressed[c] # None =>
                    \/ Spares(t, n, c)
                    \/ c = e.agent /\ ~e.exited /\ n.detected = c /\ t.detected # c
               /\ c = e.agent /\ e.exited /\ Owner(t) = c /\ Owner(n) # c =>
                    /\ n.suppressed[c] # None
                    /\ n.suppressed[c].reason = "exit"
<1> DEFINE n         == Detected(t, e)
           a         == e.agent
           against   == a # None /\ t.authority # None /\ t.authority.agent # a
           seen      == [t EXCEPT !.detected = a]
           starts    == ~e.exited /\ a # None /\ t.detected # a
           fresh     == IF starts THEN FreshProcess(seen, a) ELSE seen
           leaves    == /\ e.exited /\ ~e.late
                        /\ t.authority # None /\ t.authority.agent = a
           gone      == IF leaves
                        THEN [Suppress(fresh, "exit") EXCEPT !.seqs[a] = NoSeq,
                                                             !.authority = None]
                        ELSE fresh
           forgot    == IF e.exited /\ t.persisted # None /\ t.persisted.agent = a
                        THEN [gone EXCEPT !.persisted = None] ELSE gone
           displaced == /\ forgot.authority # None /\ ~e.late
                        /\ \/ against
                           \/ /\ t.detected \notin {None, a}
                              /\ t.authority.agent = t.detected
           session   == IF t.authority.ref = NoRef THEN None ELSE SessionIdentity(t)
           early     == Live(t) /\ ~e.exited /\ ~against
           unseen    == /\ ~e.exited /\ a # None
                        /\ t.suppressed[a] # None /\ a \in e.unseen
<1>1. n = IF early
          THEN [t EXCEPT !.detected = IF t.authority.agent = a THEN a ELSE @]
          ELSE IF unseen
          THEN t
          ELSE IF displaced
          THEN [Suppress(forgot, "clear") EXCEPT !.authority = None,
                                                 !.persisted = session]
          ELSE forgot
  BY DEF Detected
<1> HIDE DEF n
<1>2. /\ t \in TerminalRecord /\ a \in Agents \cup {None}
      /\ c \in Agents /\ c # None
      /\ t.seqs[c] \in Nat
  BY Constants DEF Wellformed, Observation, TerminalRecord
<1>3. CASE early
  <2>1. n.suppressed = t.suppressed /\ n.seqs = t.seqs
    BY <1>1, <1>2, <1>3 DEF TerminalRecord
  <2> QED BY <1>2, <1>3, <2>1 DEF Spares, n
<1>4. CASE ~early /\ unseen
  BY <1>1, <1>2, <1>4 DEF Spares, n
<1>5. CASE ~early /\ ~unseen
  <2>1. /\ seen \in TerminalRecord /\ seen.detected = a
        /\ seen.authority = t.authority /\ seen.persisted = t.persisted
        /\ seen.seqs = t.seqs /\ seen.suppressed = t.suppressed
        /\ seen.stale = t.stale
    BY <1>2 DEF TerminalRecord
  <2>2. Wellformed(seen)
    BY <2>1 DEF Wellformed, Sound, Owned
  <2> HIDE DEF seen
  <2>3. /\ Wellformed(fresh) /\ fresh.detected = a /\ fresh.authority = t.authority
        /\ ~(starts /\ a = c) =>
             fresh.suppressed[c] = t.suppressed[c] /\ fresh.seqs[c] = t.seqs[c]
    <3>1. CASE starts /\ a \in Full
      <4>1. fresh = FreshProcess(seen, a)
        BY <3>1
      <4> HIDE DEF fresh
      <4>2. /\ fresh \in TerminalRecord /\ fresh.detected = seen.detected
            /\ fresh.authority = seen.authority /\ fresh.persisted = seen.persisted
            /\ fresh.seqs = [seen.seqs EXCEPT ![a] = NoSeq]
            /\ fresh.suppressed = [seen.suppressed EXCEPT ![a] = None]
        BY <2>1, <3>1, <4>1, FreshProcessDoes
      <4>3. t.authority # None => t.authority.agent # a
        BY <1>2, <1>5, <3>1, LiveIsOwned
      <4>4. Wellformed(fresh)
        BY <1>2, <2>1, <4>2, <4>3, Constants
           DEF Wellformed, Sound, Owned, TerminalRecord, Authority
      <4>5. c # a => fresh.suppressed[c] = t.suppressed[c] /\ fresh.seqs[c] = t.seqs[c]
        BY <1>2, <2>1, <4>2 DEF TerminalRecord
      <4> QED BY <2>1, <3>1, <4>2, <4>4, <4>5
    <3>2. CASE ~(starts /\ a \in Full)
      <4>1. fresh = seen
        BY <3>2 DEF FreshProcess
      <4> HIDE DEF fresh
      <4> QED BY <2>1, <2>2, <4>1
    <3> QED BY <3>1, <3>2
  <2> HIDE DEF fresh
  <2>4. /\ Wellformed(gone) /\ gone.detected = a
        /\ leaves => gone.authority = None
        /\ ~leaves => gone = fresh
        /\ leaves /\ c = a =>
             gone.suppressed[c] = [ref |-> t.authority.ref, reason |-> "exit"]
        /\ fresh.suppressed[c] # None =>
             gone.suppressed[c] = fresh.suppressed[c] /\ gone.seqs[c] = fresh.seqs[c]
    <3>1. CASE leaves
      <4> DEFINE u == Suppress(fresh, "exit")
      <4>1. a \in Agents /\ fresh.authority # None /\ fresh.suppressed[a] = None
        BY <1>2, <2>3, <3>1, Constants DEF TerminalRecord, Authority, Wellformed, Sound
      <4>2. fresh \in TerminalRecord /\ fresh.authority = t.authority
            /\ t.authority.agent = a
        BY <2>3, <3>1 DEF Wellformed
      <4>3. /\ u \in TerminalRecord /\ u.detected = fresh.detected
            /\ u.seqs = fresh.seqs /\ u.persisted = fresh.persisted
            /\ u.suppressed = [fresh.suppressed EXCEPT ![fresh.authority.agent] =
                                 [ref |-> fresh.authority.ref, reason |-> "exit"]]
        BY <4>1, <4>2, SuppressDoes
      <4>4. /\ u \in TerminalRecord /\ u.detected = a /\ u.seqs = fresh.seqs
            /\ u.persisted = fresh.persisted
            /\ u.suppressed = [fresh.suppressed EXCEPT ![a] =
                                 [ref |-> t.authority.ref, reason |-> "exit"]]
        <5> HIDE DEF u
        <5> QED BY <2>3, <4>2, <4>3
      <4>5. gone = [u EXCEPT !.seqs[a] = NoSeq, !.authority = None]
        BY <3>1
      <4> HIDE DEF u, gone
      <4>6. [u.seqs EXCEPT ![a] = NoSeq] \in [Agents -> 0..MaxSeq]
        BY <4>1, <4>4, Constants DEF TerminalRecord, NoSeq
      <4>7. gone = [u EXCEPT !.seqs = [u.seqs EXCEPT ![a] = NoSeq], !.authority = None]
        BY <4>4, <4>5 DEF TerminalRecord
      <4>8. /\ gone \in TerminalRecord /\ gone.authority = None
            /\ gone.suppressed = u.suppressed /\ gone.detected = u.detected
            /\ gone.seqs = [u.seqs EXCEPT ![a] = NoSeq]
            /\ gone.persisted = u.persisted
        BY <4>4, <4>6, <4>7 DEF TerminalRecord
      <4>9. Wellformed(gone)
        BY <2>3, <4>4, <4>8 DEF Wellformed, Sound, Owned
      <4>10. \A d \in Agents :
              gone.suppressed[d] = IF d = a
                                   THEN [ref |-> t.authority.ref, reason |-> "exit"]
                                   ELSE fresh.suppressed[d]
        BY <2>3, <4>4, <4>8 DEF Wellformed, TerminalRecord
      <4>11. c # a => gone.seqs[c] = fresh.seqs[c]
        BY <1>2, <2>3, <4>4, <4>8 DEF Wellformed, TerminalRecord
      <4> QED BY <1>2, <3>1, <4>1, <4>4, <4>8, <4>9, <4>10, <4>11
    <3>2. CASE ~leaves
      BY <2>3, <3>2
    <3> QED BY <3>1, <3>2
  <2> HIDE DEF gone
  <2>5. /\ Wellformed(forgot) /\ forgot.detected = a
        /\ forgot.authority = gone.authority
        /\ forgot.suppressed = gone.suppressed /\ forgot.seqs = gone.seqs
    <3>1. CASE e.exited /\ t.persisted # None /\ t.persisted.agent = a
      <4>1. forgot = [gone EXCEPT !.persisted = None]
        BY <3>1
      <4> HIDE DEF forgot
      <4>2. /\ forgot \in TerminalRecord /\ forgot.authority = gone.authority
            /\ forgot.suppressed = gone.suppressed /\ forgot.seqs = gone.seqs
            /\ forgot.detected = gone.detected /\ forgot.persisted = None
        BY <2>4, <4>1 DEF Wellformed, TerminalRecord
      <4> QED BY <2>4, <4>2 DEF Wellformed, Sound, Owned
    <3>2. CASE ~(e.exited /\ t.persisted # None /\ t.persisted.agent = a)
      BY <2>4, <3>2
    <3> QED BY <3>1, <3>2
  <2> HIDE DEF forgot
  <2>6. /\ n.detected = a
        /\ displaced => n.authority = None
        /\ ~displaced => n = forgot
        /\ forgot.suppressed[c] # None =>
             n.suppressed[c] = forgot.suppressed[c] /\ n.seqs[c] = forgot.seqs[c]
    <3>1. CASE displaced
      <4> DEFINE u == Suppress(forgot, "clear")
      <4>1. u \in TerminalRecord /\ u.detected = a
        BY <2>5, SuppressDoes DEF Wellformed
      <4>2. forgot.suppressed[c] # None =>
              u.suppressed[c] = forgot.suppressed[c] /\ u.seqs = forgot.seqs
        BY <2>5, SuppressSpares
      <4>3. n = [u EXCEPT !.authority = None, !.persisted = session]
        BY <1>1, <1>5, <3>1
      <4> HIDE DEF u, session
      <4>4. /\ n.detected = u.detected /\ n.authority = None
            /\ n.suppressed = u.suppressed /\ n.seqs = u.seqs
        BY <4>1, <4>3 DEF TerminalRecord
      <4> QED BY <3>1, <4>1, <4>2, <4>4
    <3>2. CASE ~displaced
      BY <1>1, <1>5, <2>5, <3>2
    <3> QED BY <3>1, <3>2
  <2>7. ASSUME t.suppressed[c] # None
        PROVE  \/ Spares(t, n, c)
               \/ c = a /\ ~e.exited /\ n.detected = c /\ t.detected # c
    <3>1. CASE starts /\ a = c
      BY <2>6, <3>1
    <3>2. CASE ~(starts /\ a = c)
      <4>1. n.suppressed[c] = t.suppressed[c] /\ n.seqs[c] = t.seqs[c]
        BY <2>3, <2>4, <2>5, <2>6, <2>7, <3>2
      <4> QED BY <1>2, <4>1 DEF Spares
    <3> QED BY <3>1, <3>2
  <2>8. ASSUME c = a, e.exited, Owner(t) = c, Owner(n) # c
        PROVE  n.suppressed[c] # None /\ n.suppressed[c].reason = "exit"
    <3>1. t.authority # None /\ t.authority.agent = c
      BY <1>2, <2>8 DEF Owner
    <3>2. leaves
      <4> SUFFICES ASSUME ~leaves PROVE FALSE
        OBVIOUS
      <4>1. e.late
        BY <2>8, <3>1
      <4>2. n = forgot /\ n.authority = t.authority
        BY <2>3, <2>4, <2>5, <2>6, <4>1
      <4> QED BY <2>8, <3>1, <4>2 DEF Owner
    <3>3. n = forgot /\ n.suppressed = gone.suppressed
      BY <2>4, <2>5, <2>6, <3>2
    <3>4. t.authority.ref \in 0..MaxSession
      BY <1>2, <3>1 DEF TerminalRecord, Authority
    <3>5. [ref |-> t.authority.ref, reason |-> "exit"] \in Suppression
      BY <3>4 DEF Suppression
    <3> QED BY <2>4, <2>8, <3>2, <3>3, <3>5, Constants
  <2> QED BY <2>7, <2>8 DEF n
<1> QED BY <1>3, <1>4, <1>5
-----------------------------------------------------------------------------
(* The invariant.                                                          *)

LEMMA InvImpliesTypeOK ==
    ASSUME Inv, EndedBarred
    PROVE  TypeOK
<1>1. /\ terminal.detected \in Agents \cup {None}
      /\ terminal.authority \in
           [agent : Full, ref : Sessions \cup {NoRef}, by : 0..MaxSeq] \cup {None}
      /\ terminal.persisted \in [agent : Agents, ref : Sessions] \cup {None}
      /\ terminal.seqs \in [Agents -> 0..MaxSeq]
      /\ terminal.suppressed \in [Agents ->
           [ref : Sessions \cup {NoRef}, reason : {"exit", "clear"}] \cup {None}]
      /\ terminal.stale \in [Agents -> SUBSET Sessions]
      /\ terminal.stamped = {}
  <2>1. Sessions \cup {NoRef} = 0..MaxSession
    BY Constants DEF Sessions, NoRef
  <2>2. /\ Authority =
             [agent : Full, ref : Sessions \cup {NoRef}, by : 0..MaxSeq]
        /\ Suppression =
             [ref : Sessions \cup {NoRef}, reason : {"exit", "clear"}]
        /\ Session = [agent : Agents, ref : Sessions]
    BY <2>1 DEF Authority, Session, Suppression
  <2>3. /\ terminal.detected \in Agents \cup {None}
        /\ terminal.authority \in Authority \cup {None}
        /\ terminal.persisted \in Session \cup {None}
        /\ terminal.seqs \in [Agents -> 0..MaxSeq]
        /\ terminal.suppressed \in [Agents -> Suppression \cup {None}]
        /\ terminal.stale \in [Agents -> SUBSET Sessions]
        /\ terminal.stamped = {}
    BY DEF Inv, Typed, TerminalRecord
  <2> QED BY <2>2, <2>3
<1>2. withdrawn \subseteq Sessions
  BY Constants DEF Inv, Typed, WithdrawnBarred, Sessions
<1> QED BY <1>1, <1>2 DEF Inv, Typed, TypeOK, Detector, EndedBarred

LEMMA NewTerminalIsWellformed ==
    ASSUME NEW session \in Session \cup {None},
           session # None => Made(session.agent, session.ref)
    PROVE  Wellformed(NewTerminal(session)) /\ NewTerminal(session).stamped = {}
<1>1. /\ NewTerminal(session).authority = None
      /\ NewTerminal(session).persisted = session
      /\ NewTerminal(session).stamped = {}
  BY DEF NewTerminal
<1>2. NewTerminal(session) \in TerminalRecord
  BY Constants DEF NewTerminal, TerminalRecord, NoSeq
<1> QED BY <1>1, <1>2 DEF Wellformed, Sound, Owned

LEMMA InitEstablishes == Init => Inv
<1> SUFFICES ASSUME Init PROVE Inv
  OBVIOUS
<1>1. PICK session \in Restored :
        /\ terminal = NewTerminal(session)
        /\ owners = IF session = None THEN << >> ELSE <<session.agent>>
  BY DEF Init
<1>2. /\ session \in Session \cup {None}
      /\ session # None => session.agent \in Agents /\ session.ref = 1
  BY AgentConstants DEF Session, Sessions
<1>3. owners \in Seq(Agents) /\ Len(owners) <= MaxSession
  BY <1>1, <1>2, Constants
<1>4. session # None => Made(session.agent, session.ref)
  BY <1>1, <1>2 DEF Made
<1>5. Wellformed(terminal) /\ terminal.stamped = {}
  BY <1>1, <1>2, <1>4, NewTerminalIsWellformed
<1>6. det \in Detector
  BY AgentConstants DEF Init, FreshDetector, Detector, NoRun
<1>7. /\ foreground \in [agent : Agents \cup {None}, run : 0..MaxRun, ref : 0..MaxSession]
      /\ Made(foreground.agent, foreground.ref)
  BY AgentConstants DEF Init, Shell, Made, NoRef
<1>8. events \in Seq(Observation) /\ Len(events) <= MaxEvents
  BY AgentConstants DEF Init
<1>9. Typed
  <2> USE DEF Init
  <2>1. /\ active \in BOOLEAN /\ reset \in BOOLEAN /\ release \in Full \cup {None}
        /\ \A r \in reports : Reported(r)
    OBVIOUS
  <2>2. clock \in 0..MaxSeq /\ runs \in 0..MaxRun
    BY Constants
  <2> HIDE DEF Init
  <2> QED BY <1>3, <1>5, <1>6, <1>7, <1>8, <2>1, <2>2 DEF Typed, Wellformed
<1> QED BY <1>5, <1>9 DEF Init, Inv, Wellformed, WithdrawnBarred

LEMMA InvIsWellformed ==
    ASSUME Inv
    PROVE  Wellformed(terminal)
BY DEF Inv, Typed, Wellformed

(* The application keeps the invariant when it settles on a record that    *)
(* its operation left wellformed.                                          *)
LEMMA SettleKeeps ==
    ASSUME Inv, NEW next, Wellformed(next),
           NEW queue \in Seq(Observation), Len(queue) <= MaxEvents,
           NEW released \in Full \cup {None},
           NEW again, StillBarred(terminal, next, again),
           Settle(next, queue, released, again),
           reports' \subseteq reports, clock' \in 0..MaxSeq,
           UNCHANGED <<det, foreground, owners, runs>>
    PROVE  Inv'
<1>1. /\ terminal' = [next EXCEPT !.stamped = {}]
      /\ next \in TerminalRecord
  BY DEF Settle, Wellformed
<1>2. /\ terminal' \in TerminalRecord /\ terminal'.stamped = {}
      /\ terminal'.authority = next.authority /\ terminal'.persisted = next.persisted
      /\ terminal'.suppressed = next.suppressed /\ terminal'.stale = next.stale
      /\ terminal'.seqs = next.seqs
  BY <1>1 DEF TerminalRecord
<1>3. events' \in Seq(Observation) /\ Len(events') <= MaxEvents
  <2> DEFINE Marked(o) == [o EXCEPT
               !.late = @ \/ next.authority \notin {None, terminal.authority},
               !.unseen = @ \cup next.stamped]
  <2>1. events' = [i \in DOMAIN queue |-> Marked(queue[i])]
    BY DEF Settle
  <2>2. next.stamped \subseteq Agents
    BY <1>1 DEF TerminalRecord
  <2>3. \A o \in Observation : Marked(o) \in Observation
    BY <2>2 DEF Observation
  <2> HIDE DEF Marked
  <2>4. DOMAIN queue = 1..Len(queue) /\ Len(queue) \in Nat
        /\ \A i \in DOMAIN queue : queue[i] \in Observation
    OBVIOUS
  <2>5. DOMAIN events' = 1..Len(queue)
        /\ \A i \in 1..Len(queue) : events'[i] \in Observation
    BY <2>1, <2>3, <2>4
  <2>6. events' \in [1..Len(queue) -> Observation]
    BY <2>1, <2>3, <2>4
  <2> QED BY <2>4, <2>6
<1>4. Typed'
  <2>1. /\ active' \in BOOLEAN /\ reset' \in BOOLEAN
        /\ release' \in Full \cup {None}
    BY DEF Settle, Inv, Typed, Live
  <2>2. Made(foreground.agent, foreground.ref)'
    BY DEF Inv, Typed, Made
  <2>3. \A r \in reports' : Reported(r)'
    BY DEF Inv, Typed, Reported, Made
  <2>4. /\ det' \in Detector /\ clock' \in 0..MaxSeq /\ runs' \in 0..MaxRun
        /\ foreground' \in [agent : Agents \cup {None}, run : 0..MaxRun, ref : 0..MaxSession]
        /\ owners' \in Seq(Agents) /\ Len(owners') <= MaxSession
    BY DEF Inv, Typed
  <2> QED BY <1>2, <1>3, <2>1, <2>2, <2>3, <2>4 DEF Typed
<1>5. Sound(terminal)'
  BY <1>2 DEF Sound, Wellformed
<1>6. Owned(terminal)'
  BY <1>2 DEF Owned, Wellformed, Made
<1>7. WithdrawnBarred'
  <2> SUFFICES ASSUME NEW s \in withdrawn'
               PROVE  /\ s \in DOMAIN owners /\ s # NoRef
                      /\ Bars(next, owners[s], s)
    BY <1>2 DEF WithdrawnBarred, Bars
  <2>1. /\ s \notin again
        /\ \/ s \in withdrawn
           \/ Owner(next) # Owner(terminal) /\ s \in Named(terminal.authority)
    BY DEF Settle
  <2>2. ASSUME s \in DOMAIN owners
        PROVE  s \in Sessions /\ owners[s] \in Agents
    BY <2>2, Constants DEF Inv, Typed, Sessions
  <2>3. CASE s \in withdrawn
    <3>1. /\ s \in DOMAIN owners /\ s # NoRef
          /\ Bars(terminal, owners[s], s)
      BY <2>3 DEF Inv, WithdrawnBarred
    <3> QED BY <2>1, <2>2, <3>1 DEF StillBarred
  <2>4. CASE Owner(next) # Owner(terminal) /\ s \in Named(terminal.authority)
    <3>1. terminal.authority # None /\ s = terminal.authority.ref /\ s # NoRef
      BY <2>4 DEF Named
    <3>2. s \in DOMAIN owners /\ owners[s] = terminal.authority.agent
      BY <3>1 DEF Inv, Owned, Made
    <3>3. Owner(terminal) = owners[s]
      BY <3>1, <3>2 DEF Owner
    <3> QED BY <2>1, <2>2, <2>4, <3>1, <3>2, <3>3 DEF StillBarred
  <2> QED BY <2>1, <2>3, <2>4
<1> QED BY <1>4, <1>5, <1>6, <1>7 DEF Inv

(* What the property is about, for the two steps that apply an operation.  *)
LEMMA HandleReportKeeps ==
    ASSUME Inv, HandleReport
    PROVE  /\ Inv' /\ NotOlder(terminal, terminal')
           /\ \A r \in reports \ reports' :
                r.kind = "state" /\ r.agent \in Full /\ r.ref \in withdrawn
                  => terminal'.authority = terminal.authority
<1>1. PICK r \in reports :
        /\ reports' = reports \ {r}
        /\ Settle(Applied(r), events,
                  IF /\ r.kind = "release"
                     /\ EffectiveAgent(Applied(r)) # EffectiveAgent(terminal)
                  THEN r.agent ELSE None,
                  Excused(r, Applied(r)))
  BY DEF HandleReport
<1> DEFINE next == Applied(r)
           released == IF /\ r.kind = "release"
                          /\ EffectiveAgent(next) # EffectiveAgent(terminal)
                       THEN r.agent ELSE None
           again == Excused(r, next)
<1>2. Settle(next, events, released, again)
  BY <1>1
<1>3. Reported(r) /\ Wellformed(terminal)
  BY InvIsWellformed DEF Inv, Typed
<1>4. released \in Full \cup {None}
  BY <1>3 DEF Reported
<1>5. /\ Wellformed(next) /\ StillBarred(terminal, next, again)
      /\ NotOlder(terminal, next)
      /\ r.kind = "state" /\ r.ref # NoRef /\ Bars(terminal, r.agent, r.ref)
           => next = terminal
  <2>1. CASE r.kind = "state"
    <3>1. r.agent \in Full
      BY <1>3, <2>1 DEF Reported
    <3>2. next = HookReport(terminal, r) /\ again = {}
      BY <2>1, <3>1 DEF Applied, Excused
    <3> QED BY <1>3, <3>1, <3>2, HookReportIsSafe
  <2>2. CASE r.kind = "release"
    <3>1. r.agent \in Agents /\ r.seq \in 0..MaxSeq
      BY <1>3, Constants DEF Reported
    <3>2. /\ next = Release(terminal, r.agent, r.seq)
          /\ again = IF terminal.suppressed[r.agent] # None
                     THEN {terminal.suppressed[r.agent].ref} ELSE {}
      BY <2>2 DEF Applied, Excused
    <3> QED BY <1>3, <2>2, <3>1, <3>2, ReleaseIsSafe
  <2>3. CASE r.kind = "session"
    <3>1. /\ next = SessionStart(terminal, r)
          /\ again = IF next.persisted = [agent |-> r.agent, ref |-> r.ref]
                     THEN {r.ref} ELSE {}
      BY <2>3 DEF Applied, Excused
    <3> QED BY <1>3, <2>3, <3>1, SessionStartIsSafe
  <2> QED BY <1>3, <2>1, <2>2, <2>3 DEF Reported
<1> HIDE DEF next, released, again
<1>6. /\ events \in Seq(Observation) /\ Len(events) <= MaxEvents
      /\ clock' \in 0..MaxSeq /\ reports' \subseteq reports
      /\ UNCHANGED <<det, foreground, owners, runs>>
  BY <1>1 DEF Inv, Typed, HandleReport
<1>7. Inv'
  BY <1>2, <1>4, <1>5, <1>6, SettleKeeps
<1>8. /\ terminal'.authority = next.authority
      /\ terminal'.suppressed = next.suppressed
  BY <1>2, <1>5 DEF Settle, Wellformed, TerminalRecord
<1>9. NotOlder(terminal, terminal')
  BY <1>5, <1>8 DEF NotOlder
<1>10. ASSUME NEW q \in reports \ reports', q.kind = "state", q.agent \in Full,
              q.ref \in withdrawn
       PROVE  terminal'.authority = terminal.authority
  <2>1. q = r
    BY <1>1, <1>10
  <2>2. /\ r.ref \in DOMAIN owners /\ r.ref # NoRef
        /\ Bars(terminal, owners[r.ref], r.ref)
    BY <1>10, <2>1 DEF Inv, WithdrawnBarred
  <2>3. owners[r.ref] = r.agent
    BY <1>3, <2>2 DEF Reported, Made
  <2> QED BY <1>5, <1>8, <1>10, <2>1, <2>2, <2>3
<1> QED BY <1>7, <1>9, <1>10

LEMMA HandleEventKeeps ==
    ASSUME Inv, HandleEvent
    PROVE  Inv' /\ NotOlder(terminal, terminal')
<1> DEFINE e == Head(events)
           next == Detected(terminal, e)
<1>1. /\ events \in Seq(Observation) /\ events # << >> /\ Len(events) <= MaxEvents
      /\ Settle(next, Tail(events), None, {})
  BY DEF HandleEvent, Inv, Typed
<1>2. /\ e \in Observation /\ Tail(events) \in Seq(Observation)
      /\ Len(Tail(events)) = Len(events) - 1 /\ Len(events) \in Nat
      /\ Len(Tail(events)) \in Nat
  BY <1>1
<1>3. Len(Tail(events)) <= MaxEvents
  BY <1>1, <1>2, AgentConstants
<1>4. /\ Wellformed(next) /\ StillBarred(terminal, next, {})
      /\ NotOlder(terminal, next)
  BY <1>2, InvIsWellformed, DetectedIsSafe
<1> HIDE DEF next, e
<1>5. /\ clock' \in 0..MaxSeq /\ reports' \subseteq reports
      /\ UNCHANGED <<det, foreground, owners, runs>>
  BY DEF Inv, Typed, HandleEvent
<1>6. Inv'
  BY <1>1, <1>2, <1>3, <1>4, <1>5, SettleKeeps
<1>7. /\ terminal'.authority = next.authority
      /\ terminal'.suppressed = next.suppressed
  BY <1>1, <1>4 DEF Settle, Wellformed, TerminalRecord
<1>8. NotOlder(terminal, terminal')
  BY <1>4, <1>7 DEF NotOlder
<1> QED BY <1>6, <1>8

LEMMA ClearByRequestKeeps ==
    ASSUME Inv, ClearByRequest
    PROVE  Inv' /\ NotOlder(terminal, terminal')
<1>1. PICK source \in {None, terminal.authority.agent}, seq \in {NoSeq, clock + 1} :
        /\ seq <= MaxSeq
        /\ clock' = clock + (IF seq = NoSeq THEN 0 ELSE 1)
        /\ Settle(ClearAuthority(terminal, source, seq), events, None, {})
  BY DEF ClearByRequest
<1> DEFINE next == ClearAuthority(terminal, source, seq)
<1>2. clock \in 0..MaxSeq
  BY DEF Inv, Typed
<1>3. seq \in 0..MaxSeq /\ clock' \in 0..MaxSeq
  BY <1>1, <1>2, Constants DEF NoSeq
<1>4. /\ Wellformed(next) /\ StillBarred(terminal, next, {})
      /\ NotOlder(terminal, next)
  BY <1>3, InvIsWellformed, ClearAuthorityIsSafe DEF ClearByRequest
<1>5. Settle(next, events, None, {})
  BY <1>1
<1> HIDE DEF next
<1>6. /\ events \in Seq(Observation) /\ Len(events) <= MaxEvents
      /\ reports' \subseteq reports /\ UNCHANGED <<det, foreground, owners, runs>>
  BY DEF Inv, Typed, ClearByRequest
<1>7. Inv'
  BY <1>3, <1>4, <1>5, <1>6, SettleKeeps
<1>8. /\ terminal'.authority = next.authority
      /\ terminal'.suppressed = next.suppressed
  BY <1>4, <1>5 DEF Settle, Wellformed, TerminalRecord
<1> QED BY <1>4, <1>7, <1>8 DEF NotOlder

(* Around the application: the record stays, and sessions are only added.  *)
OwnersGrow == \A s \in DOMAIN owners : s \in DOMAIN owners' /\ owners'[s] = owners[s]

LEMMA MadeStays ==
    ASSUME OwnersGrow, NEW a, NEW ref, Made(a, ref)
    PROVE  Made(a, ref)'
BY DEF OwnersGrow, Made

LEMMA RecordStays ==
    ASSUME Inv, OwnersGrow, UNCHANGED <<terminal, withdrawn>>, Typed'
    PROVE  Inv'
<1>1. Sound(terminal)'
  BY DEF Inv, Sound
<1>2. Owned(terminal)'
  BY MadeStays DEF Inv, Owned, OwnersGrow, Made
<1>3. WithdrawnBarred'
  BY DEF Inv, WithdrawnBarred, OwnersGrow, Bars
<1> QED BY <1>1, <1>2, <1>3 DEF Inv

(* The pane: everything but the program, its reports and sessions stays.   *)
LEMMA PaneKeeps ==
    ASSUME Inv, OwnersGrow, UNCHANGED <<app, det, withdrawn>>,
           owners' \in Seq(Agents), Len(owners') <= MaxSession,
           foreground' \in [agent : Agents \cup {None}, run : 0..MaxRun, ref : 0..MaxSession],
           Made(foreground.agent, foreground.ref)',
           \A r \in reports' : r \in reports \/ Reported(r)',
           clock' \in 0..MaxSeq, runs' \in 0..MaxRun
    PROVE  Inv'
<1>1. UNCHANGED <<terminal, active, release, reset, events, det, withdrawn>>
  BY DEF app
<1>2. \A r \in reports' : Reported(r)'
  <2> SUFFICES ASSUME NEW r \in reports, Reported(r)
               PROVE  Reported(r)'
    BY DEF Inv, Typed
  <2> QED BY MadeStays DEF Reported
<1>3. Typed'
  BY <1>1, <1>2 DEF Inv, Typed
<1> QED BY <1>1, <1>3, RecordStays

LEMMA RunProgramKeeps ==
    ASSUME Inv, NEW a \in Agents \cup {None}, NEW ref \in Sessions \cup {NoRef},
           RunProgram(a, ref)
    PROVE  Inv'
<1>1. /\ foreground' = [agent |-> a, run |-> runs + 1, ref |-> ref]
      /\ runs' = runs + 1 /\ runs < MaxRun
      /\ UNCHANGED <<app, det, withdrawn>> /\ UNCHANGED <<reports, clock>>
      /\ \/ ref = NoRef /\ owners' = owners
         \/ ref \in DOMAIN owners /\ owners[ref] = a /\ owners' = owners
         \/ a # None /\ ref = Len(owners) + 1 /\ owners' = Append(owners, a)
  BY DEF RunProgram
<1>2. ref \in 0..MaxSession /\ runs \in 0..MaxRun
  BY Constants DEF Sessions, NoRef, Inv, Typed
<1>3. owners \in Seq(Agents) /\ Len(owners) <= MaxSession
  BY DEF Inv, Typed
<1>4. /\ owners' \in Seq(Agents) /\ Len(owners') <= MaxSession
      /\ OwnersGrow /\ Made(a, ref)'
  <2>1. CASE UNCHANGED owners
    BY <1>1, <1>3, <2>1 DEF OwnersGrow, Made, NoRef
  <2>2. CASE a # None /\ ref = Len(owners) + 1 /\ owners' = Append(owners, a)
    BY <1>2, <1>3, <2>2, Constants DEF OwnersGrow, Made, NoRef
  <2> QED BY <1>1, <2>1, <2>2
<1>5. /\ foreground'.agent = a /\ foreground'.ref = ref
      /\ foreground' \in [agent : Agents \cup {None}, run : 0..MaxRun, ref : 0..MaxSession]
      /\ runs' \in 0..MaxRun
  BY <1>1, <1>2, Constants
<1>6. Made(foreground.agent, foreground.ref)'
  BY <1>4, <1>5 DEF Made
<1>7. clock' \in 0..MaxSeq
  BY <1>1 DEF Inv, Typed
<1> QED BY <1>1, <1>4, <1>5, <1>6, <1>7, PaneKeeps

(* A report names a session of the program in the foreground, or none.     *)
LEMMA SendKeeps ==
    ASSUME Inv, OwnersGrow, UNCHANGED <<app, det, withdrawn, runs>>,
           NEW kind \in {"state", "session", "release"}, NEW ref \in 0..MaxSession,
           NEW start, Send(kind, ref, start),
           NEW a \in Agents, a = foreground.agent,
           kind \in {"state", "release"} => a \in Full,
           Made(a, ref)',
           owners' \in Seq(Agents), Len(owners') <= MaxSession,
           foreground' \in [agent : Agents \cup {None}, run : 0..MaxRun, ref : 0..MaxSession],
           Made(foreground.agent, foreground.ref)'
    PROVE  Inv'
<1>1. PICK q :
        /\ q = [kind |-> kind, agent |-> a, ref |-> ref, start |-> start,
                seq |-> clock + 1]
        /\ clock < MaxSeq /\ clock' = clock + 1 /\ reports' = reports \cup {q}
  BY DEF Send
<1>2. clock \in 0..MaxSeq
  BY DEF Inv, Typed
<1>3. clock' \in 0..MaxSeq /\ clock + 1 \in 1..MaxSeq
  BY <1>1, <1>2, Constants
<1>4. Reported(q)'
  BY <1>1, <1>3 DEF Reported
<1>5. runs' \in 0..MaxRun
  BY DEF Inv, Typed
<1>6. UNCHANGED <<app, det, withdrawn>>
  OBVIOUS
<1>7. \A r \in reports' : r \in reports \/ Reported(r)'
  BY <1>1, <1>4
<1> QED BY <1>3, <1>5, <1>6, <1>7, PaneKeeps

LEMMA ReportsKeep ==
    ASSUME Inv, ReportState \/ ReportSession
    PROVE  Inv'
<1> DEFINE a == foreground.agent
<1>1. UNCHANGED <<app, det, foreground, owners, withdrawn, runs>>
  BY DEF ReportState, ReportSession
<1>2. PICK kind \in {"state", "session"}, ref \in {foreground.ref, NoRef},
             start \in {NoStart, "startup"} :
        /\ Send(kind, ref, start)
        /\ kind = "state" => foreground.agent \in Full
        /\ foreground.agent \in Agents
  <2>1. CASE ReportState
    BY <2>1, Constants DEF ReportState
  <2>2. CASE ReportSession
    <3>1. PICK start \in {NoStart, "startup"} :
            /\ <<foreground.agent, start>> \in Announcing
            /\ Send("session", foreground.ref, start)
      BY <2>2 DEF ReportSession
    <3>2. foreground.agent \in Agents
      BY <3>1, AgentConstants
    <3> QED BY <3>1, <3>2
  <2> QED BY <2>1, <2>2
<1>3. /\ owners' \in Seq(Agents) /\ Len(owners') <= MaxSession
      /\ foreground' \in [agent : Agents \cup {None}, run : 0..MaxRun, ref : 0..MaxSession]
      /\ Made(foreground.agent, foreground.ref)
  BY <1>1 DEF Inv, Typed
<1>4. ref \in 0..MaxSession
  BY <1>1, <1>2, <1>3, Constants DEF NoRef
<1>5. OwnersGrow
  BY <1>1 DEF OwnersGrow
<1>6. PICK b \in Agents : b = foreground.agent
  BY <1>2
<1>7. Made(b, ref)' /\ Made(foreground.agent, foreground.ref)'
  BY <1>1, <1>2, <1>3, <1>6 DEF Made
<1>8. UNCHANGED <<app, det, withdrawn, runs>>
  BY <1>1
<1> QED BY <1>2, <1>3, <1>4, <1>5, <1>6, <1>7, <1>8, SendKeeps

LEMMA SwitchSessionKeeps ==
    ASSUME Inv, SwitchSession
    PROVE  Inv'
<1>1. /\ foreground.agent # None /\ Len(owners) < MaxSession
      /\ foreground' = [foreground EXCEPT !.ref = Len(owners) + 1]
      /\ owners' = Append(owners, foreground.agent)
      /\ UNCHANGED <<app, det, runs, withdrawn>>
  BY DEF SwitchSession
<1>2. PICK start : Send("session", Len(owners) + 1, start)
  BY DEF SwitchSession
<1>3. /\ owners \in Seq(Agents)
      /\ foreground \in [agent : Agents \cup {None}, run : 0..MaxRun, ref : 0..MaxSession]
  BY DEF Inv, Typed
<1>4. PICK a \in Agents : a = foreground.agent
  BY <1>1, <1>3
<1>5. PICK ref \in 0..MaxSession : ref = Len(owners) + 1 /\ ref # NoRef
  BY <1>1, <1>3, Constants DEF NoRef
<1>6. /\ owners' \in Seq(Agents) /\ Len(owners') <= MaxSession
      /\ OwnersGrow /\ Made(a, ref)'
  BY <1>1, <1>3, <1>4, <1>5, Constants DEF OwnersGrow, Made
<1>7. /\ foreground' \in [agent : Agents \cup {None}, run : 0..MaxRun, ref : 0..MaxSession]
      /\ foreground'.agent = a /\ foreground'.ref = ref
  BY <1>1, <1>3, <1>4, <1>5
<1>8. Made(foreground.agent, foreground.ref)'
  BY <1>6, <1>7 DEF Made
<1>9. Send("session", ref, start)
  BY <1>2, <1>5
<1>10. UNCHANGED <<app, det, withdrawn, runs>>
  BY <1>1
<1> QED BY <1>4, <1>6, <1>7, <1>8, <1>9, <1>10, SendKeeps

LEMMA QuitKeeps ==
    ASSUME Inv, Quit
    PROVE  Inv'
<1>1. /\ foreground' = Shell /\ UNCHANGED <<app, det, owners, runs, withdrawn>>
      /\ \/ UNCHANGED <<reports, clock>>
         \/ foreground.agent \in Full /\ Send("release", NoRef, NoStart)
  BY DEF Quit
<1>2. /\ owners' \in Seq(Agents) /\ Len(owners') <= MaxSession
      /\ runs' \in 0..MaxRun /\ OwnersGrow
      /\ UNCHANGED <<app, det, withdrawn, runs>>
  BY <1>1 DEF Inv, Typed, OwnersGrow
<1>3. /\ foreground' \in [agent : Agents \cup {None}, run : 0..MaxRun, ref : 0..MaxSession]
      /\ Made(foreground.agent, foreground.ref)'
  BY <1>1, Constants DEF Shell, Made, NoRef
<1>4. CASE UNCHANGED <<reports, clock>>
  <2>1. clock' \in 0..MaxSeq /\ reports' = reports
    BY <1>4 DEF Inv, Typed
  <2> QED BY <1>2, <1>3, <2>1, PaneKeeps
<1>5. CASE foreground.agent \in Full /\ Send("release", NoRef, NoStart)
  <2>1. PICK a \in Agents : a = foreground.agent /\ a \in Full
    BY <1>5, Constants
  <2>2. NoRef \in 0..MaxSession /\ Made(a, NoRef)'
    BY Constants DEF NoRef, Made
  <2> QED BY <1>2, <1>3, <1>5, <2>1, <2>2, SendKeeps
<1> QED BY <1>1, <1>4, <1>5

LEMMA LoseReportKeeps ==
    ASSUME Inv, LoseReport
    PROVE  Inv'
<1>1. /\ reports' \subseteq reports
      /\ UNCHANGED <<app, det, foreground, clock, owners, runs, withdrawn>>
  BY DEF LoseReport
<1>2. /\ owners' \in Seq(Agents) /\ Len(owners') <= MaxSession
      /\ foreground' \in [agent : Agents \cup {None}, run : 0..MaxRun, ref : 0..MaxSession]
      /\ clock' \in 0..MaxSeq /\ runs' \in 0..MaxRun /\ OwnersGrow
      /\ Made(foreground.agent, foreground.ref)'
  BY <1>1 DEF Inv, Typed, OwnersGrow, Made
<1> QED BY <1>1, <1>2, PaneKeeps

(* The detector.                                                           *)
LEMMA ProbedIsTyped ==
    ASSUME Typed, NEW d \in Detector
    PROVE  Probed(d) \in Detector
<1> DEFINE seen == IF foreground.agent = release THEN None ELSE foreground.agent
           here == [d EXCEPT !.probed = TRUE, !.last = foreground.run]
           lost == IF d.misses + 1 < MissLimit
                   THEN [here EXCEPT !.misses = @ + 1, !.clearing = FALSE, !.told = FALSE]
                   ELSE [here EXCEPT !.misses = 0, !.presence = None,
                                     !.clearing = FALSE, !.told = FALSE]
<1>1. seen \in Agents \cup {None} /\ foreground.run \in 0..NoRun
  BY Constants DEF Typed, NoRun
<1>2. MissLimit \in Nat \ {0}
  BY AgentConstants
<1>3. here \in Detector /\ here.misses = d.misses /\ d.misses \in 0..(MissLimit - 1)
  BY <1>1 DEF Detector
<1> HIDE DEF here, seen
<1>4. \A p \in Agents \cup {None}, k \in 0..(MissLimit - 1) :
        [here EXCEPT !.presence = p, !.misses = k, !.clearing = FALSE,
                     !.told = FALSE] \in Detector
  BY <1>3 DEF Detector
<1>5. /\ 0 \in 0..(MissLimit - 1)
      /\ d.misses + 1 < MissLimit => d.misses + 1 \in 0..(MissLimit - 1)
  BY <1>2, <1>3
<1>a. /\ [here EXCEPT !.presence = seen, !.misses = 0, !.clearing = FALSE,
                      !.told = FALSE] \in Detector
      /\ [here EXCEPT !.presence = None, !.misses = 0, !.clearing = FALSE,
                      !.told = FALSE] \in Detector
  BY <1>1, <1>4, <1>5
<1>b. [here EXCEPT !.clearing = TRUE] \in Detector
  BY <1>3 DEF Detector
<1>c. lost \in Detector
  <2>1. CASE d.misses + 1 < MissLimit
    <3>1. lost = [here EXCEPT !.misses = d.misses + 1, !.clearing = FALSE, !.told = FALSE]
      BY <1>3, <2>1
    <3> HIDE DEF lost
    <3> DEFINE k == d.misses + 1
    <3>2. k \in 0..(MissLimit - 1)
      BY <1>5, <2>1
    <3>3. lost = [here EXCEPT !.misses = k, !.clearing = FALSE, !.told = FALSE]
      BY <3>1
    <3> HIDE DEF k
    <3> QED BY <1>3, <3>2, <3>3 DEF Detector
  <2>2. CASE ~(d.misses + 1 < MissLimit)
    <3>1. lost = [here EXCEPT !.misses = 0, !.presence = None,
                              !.clearing = FALSE, !.told = FALSE]
      BY <1>3, <2>2
    <3> HIDE DEF lost
    <3> QED BY <1>3, <1>5, <3>1 DEF Detector
  <2> QED BY <2>1, <2>2
<1> HIDE DEF lost
<1>6. \/ Probed(d) = [here EXCEPT !.presence = seen, !.misses = 0, !.clearing = FALSE,
                                  !.told = FALSE]
      \/ Probed(d) = [here EXCEPT !.presence = None, !.misses = 0, !.clearing = FALSE,
                                  !.told = FALSE]
      \/ Probed(d) = [here EXCEPT !.clearing = TRUE]
      \/ Probed(d) = lost
  BY DEF Probed, seen, here, lost
<1> QED BY <1>6, <1>a, <1>b, <1>c

LEMMA TurnKeeps ==
    ASSUME Inv, NEW d \in Detector, Turn(d), reset' \in BOOLEAN,
           UNCHANGED <<terminal, active, foreground, reports, clock, owners, runs,
                       withdrawn>>
    PROVE  Inv'
<1> DEFINE start == [d EXCEPT !.probed = @ /\ ~(release = None /\ d.releasing),
                              !.releasing = (release # None)]
<1>1. start \in Detector
  BY DEF Detector
<1>2. PICK next \in {start, Probed(start)}, exited \in BOOLEAN :
        /\ det' = [next EXCEPT !.told = @ \/ exited]
        /\ release' \in {None, release}
        /\ \/ events' = events
           \/ \E agent \in {None, next.presence}, quit \in {TRUE, FALSE} :
                 Observe(agent, quit)
  <2> HIDE DEF start
  <2>1. PICK probe \in BOOLEAN :
          LET next   == IF probe THEN Probed(start) ELSE start
              exited == next.clearing /\ next.presence # None /\ ~next.told
          IN  /\ det' = [next EXCEPT !.told = @ \/ exited]
              /\ release' \in {None, release}
              /\ \/ events' = events
                 \/ \E agent \in {None, next.presence}, quit \in {TRUE, FALSE} :
                       Observe(agent, quit)
    BY Zenon DEF Turn, start
  <2> QED BY <2>1
<1>3. start \in Detector /\ next \in Detector
  BY <1>1, <1>2, ProbedIsTyped DEF Inv
<1> HIDE DEF start
<1>4. det' \in Detector
  BY <1>2, <1>3 DEF Detector
<1>5. release' \in Full \cup {None}
  BY <1>2 DEF Inv, Typed
<1>6. events' \in Seq(Observation) /\ Len(events') <= MaxEvents
  <2>1. events \in Seq(Observation) /\ Len(events) <= MaxEvents
    BY DEF Inv, Typed
  <2>2. ASSUME NEW agent \in {None, next.presence}, NEW quit \in BOOLEAN,
               Observe(agent, quit)
        PROVE  events' \in Seq(Observation) /\ Len(events') <= MaxEvents
    <3>1. agent \in Agents \cup {None}
      BY <1>3 DEF Detector
    <3>2. PICK o : /\ o = [agent |-> agent, exited |-> quit, late |-> FALSE,
                           unseen |-> {}]
                   /\ Len(events) < MaxEvents /\ events' = Append(events, o)
      BY <2>2 DEF Observe
    <3>3. o \in Observation
      BY <3>1, <3>2 DEF Observation
    <3> QED BY <2>1, <3>2, <3>3, AgentConstants
  <2> QED BY <1>2, <2>1, <2>2
<1>7. Typed'
  <2>1. \A r \in reports' : Reported(r)'
    BY DEF Inv, Typed, Reported, Made
  <2>2. Made(foreground.agent, foreground.ref)'
    BY DEF Inv, Typed, Made
  <2> QED BY <1>4, <1>5, <1>6, <2>1, <2>2 DEF Inv, Typed
<1> QED BY <1>7, RecordStays DEF OwnersGrow

LEMMA FlagsKeep ==
    ASSUME Inv, ManifestsUpdated \/ ReleaseExpires
    PROVE  Inv'
<1>1. /\ reset' \in BOOLEAN /\ release' \in Full \cup {None}
      /\ UNCHANGED <<terminal, active, events, det, foreground, reports, clock,
                     owners, runs, withdrawn>>
  BY DEF ManifestsUpdated, ReleaseExpires, Inv, Typed
<1>2. \A r \in reports' : Reported(r)'
  BY <1>1 DEF Inv, Typed, Reported, Made
<1>3. Made(foreground.agent, foreground.ref)'
  BY <1>1 DEF Inv, Typed, Made
<1>4. Typed'
  BY <1>1, <1>2, <1>3 DEF Inv, Typed
<1> QED BY <1>1, <1>4, RecordStays DEF OwnersGrow

LEMMA DetectorKeeps ==
    ASSUME Inv, DetectorTick \/ DetectorReset
    PROVE  Inv'
<1>1. det \in Detector /\ FreshDetector \in Detector
  BY AgentConstants DEF Inv, Typed, FreshDetector, Detector, NoRun
<1>2. reset' \in BOOLEAN
  BY DEF DetectorTick, DetectorReset, Inv, Typed
<1> QED BY <1>1, <1>2, TurnKeeps DEF DetectorTick, DetectorReset
-----------------------------------------------------------------------------
(* Steps that do not apply an operation leave the record alone.            *)
Elsewhere ==
    \/ \E a \in Agents \cup {None}, ref \in Sessions \cup {NoRef} : RunProgram(a, ref)
    \/ ReportState \/ ReportSession \/ SwitchSession \/ Quit \/ LoseReport
    \/ ManifestsUpdated \/ ReleaseExpires \/ DetectorTick \/ DetectorReset
    \/ UNCHANGED vars

LEMMA StepIs ==
    [Next]_vars => HandleReport \/ HandleEvent \/ ClearByRequest \/ Elsewhere
BY DEF Next, Elsewhere

LEMMA ElsewhereKeeps ==
    ASSUME Inv, Elsewhere
    PROVE  Inv'
<1>1. ASSUME UNCHANGED vars PROVE Inv'
  BY <1>1 DEF vars, Inv, Typed, Sound, Owned, WithdrawnBarred, Made, Reported, Bars
<1> QED BY <1>1, RunProgramKeeps, ReportsKeep, SwitchSessionKeeps, QuitKeeps,
           LoseReportKeeps, FlagsKeep, DetectorKeeps DEF Elsewhere

LEMMA ElsewhereIsQuiet ==
    ASSUME Elsewhere
    PROVE  terminal' = terminal /\ ended' = ended
BY DEF Elsewhere, RunProgram, ReportState, ReportSession, SwitchSession, Quit,
       LoseReport, ManifestsUpdated, ReleaseExpires, DetectorTick, DetectorReset,
       vars, app

LEMMA StepKeeps == Inv /\ [Next]_vars => Inv'
BY StepIs, HandleReportKeeps, HandleEventKeeps, ClearByRequestKeeps, ElsewhereKeeps

(* What the record is after the application settled on next.               *)
LEMMA SettledOn ==
    ASSUME NEW next, Wellformed(next), NEW queue, NEW released, NEW again,
           Settle(next, queue, released, again)
    PROVE  /\ terminal'.authority = next.authority
           /\ terminal'.suppressed = next.suppressed
           /\ terminal'.seqs = next.seqs
BY DEF Settle, Wellformed, TerminalRecord

LEMMA EndedAtFirst == Init => EndedBarred
BY Constants DEF Init, EndedBarred, Forever

(* While the suppression of an agent stands, so does what it says.         *)
LEMMA SparedStaysBarred ==
    ASSUME Inv, EndedBarred, NEW c \in Full, NEW n, ended[c] # 0,
           Spares(terminal, n, c), n.seqs[c] \in Nat
    PROVE  /\ n.suppressed[c] # None
           /\ ended[c] = Forever => n.suppressed[c].reason = "exit"
           /\ ended[c] # Forever =>
                /\ n.suppressed[c] = [ref |-> NoRef, reason |-> "clear"]
                /\ n.seqs[c] >= ended[c]
<1>1. terminal.seqs[c] \in Nat /\ ended[c] \in Nat
  BY Constants DEF Inv, Typed, TerminalRecord, EndedBarred, Forever
<1> QED BY <1>1 DEF Spares, EndedBarred

LEMMA HandleReportBars ==
    ASSUME Inv, EndedBarred, HandleReport
    PROVE  EndedBarred'
<1>1. PICK r \in reports :
        /\ Settle(Applied(r), events,
                  IF /\ r.kind = "release"
                     /\ EffectiveAgent(Applied(r)) # EffectiveAgent(terminal)
                  THEN r.agent ELSE None,
                  Excused(r, Applied(r)))
        /\ ended' = EndedByReport(r, Applied(r))
  BY DEF HandleReport
<1> DEFINE next == Applied(r)
<1>2. Reported(r) /\ Wellformed(terminal)
  BY InvIsWellformed DEF Inv, Typed
<1>3. r.agent \in Agents /\ r.seq \in 1..MaxSeq /\ r.seq \in 0..MaxSeq
  BY <1>2, Constants DEF Reported
<1>4. /\ Wellformed(next)
      /\ \A c \in Full : terminal.suppressed[c] # None =>
           \/ Owner(next) = c
           \/ Spares(terminal, next, c)
           \/ /\ r.kind = "release" /\ c = r.agent
              /\ next.suppressed[c] = [ref |-> NoRef, reason |-> "clear"]
              /\ next.seqs[c] = r.seq /\ r.seq >= terminal.seqs[c]
  <2>1. CASE r.kind = "state"
    <3>1. r.agent \in Full
      BY <1>2, <2>1 DEF Reported
    <3>2. next = HookReport(terminal, r)
      BY <2>1, <3>1 DEF Applied
    <3> QED BY <1>2, <3>1, <3>2, HookReportIsSafe
  <2>2. CASE r.kind = "release"
    <3>1. next = Release(terminal, r.agent, r.seq)
      BY <2>2 DEF Applied
    <3>2. Wellformed(next)
      BY <1>2, <1>3, <3>1, ReleaseIsSafe
    <3> HIDE DEF next
    <3> QED BY <1>2, <1>3, <2>2, <3>1, <3>2, ReleaseSpares
  <2>3. CASE r.kind = "session"
    <3>1. next = SessionStart(terminal, r)
      BY <2>3 DEF Applied
    <3> QED BY <1>2, <3>1, SessionStartIsSafe, SessionStartSpares
  <2> QED BY <1>2, <2>1, <2>2, <2>3 DEF Reported
<1>5. /\ terminal'.authority = next.authority
      /\ terminal'.suppressed = next.suppressed /\ terminal'.seqs = next.seqs
  BY <1>1, <1>4, SettledOn
<1>6. /\ \A c \in Full : ended'[c] =
           CASE Owner(next) = c -> 0
             [] /\ Owner(next) # c
                /\ r.kind = "release" /\ r.agent = c /\ ended[c] # 0
                /\ next.suppressed[c] # terminal.suppressed[c] -> r.seq
             [] OTHER -> ended[c]
      /\ ended' \in [Full -> 0..Forever]
  <2>1. ended \in [Full -> 0..Forever] /\ r.seq \in 0..Forever /\ 0 \in 0..Forever
    BY <1>3, Constants DEF EndedBarred, Forever
  <2> HIDE DEF next
  <2> QED BY <1>1, <2>1 DEF EndedByReport, next
<1> HIDE DEF next
<1>7. \A c \in Full : next.seqs[c] \in Nat /\ ended[c] \in Nat
  BY <1>4, Constants DEF Wellformed, TerminalRecord, EndedBarred, Forever
<1>8. ASSUME NEW c \in Full, ended'[c] # 0
      PROVE  /\ next.suppressed[c] # None
             /\ ended'[c] = Forever => next.suppressed[c].reason = "exit"
             /\ ended'[c] # Forever =>
                  /\ next.suppressed[c] = [ref |-> NoRef, reason |-> "clear"]
                  /\ next.seqs[c] >= ended'[c]
  <2>1. Owner(next) # c /\ ended[c] # 0
    BY <1>6, <1>8
  <2>2. terminal.suppressed[c] # None
    BY <2>1 DEF EndedBarred
  <2>3. [ref |-> NoRef, reason |-> "clear"] # None
    <3>1. [ref |-> NoRef, reason |-> "clear"] \in Suppression
      BY Constants DEF Suppression, NoRef
    <3> QED BY <3>1, Constants
  <2>4. CASE /\ r.kind = "release" /\ r.agent = c
             /\ next.suppressed[c] # terminal.suppressed[c]
    <3>1. ended'[c] = r.seq
      BY <1>6, <2>1, <2>4
    <3>2. /\ next.suppressed[c] = [ref |-> NoRef, reason |-> "clear"]
          /\ next.seqs[c] = r.seq
      BY <1>4, <2>1, <2>2, <2>4 DEF Spares
    <3>3. r.seq # Forever /\ r.seq \in Nat
      BY <1>3, Constants DEF Forever
    <3> QED BY <2>3, <3>1, <3>2, <3>3
  <2>5. CASE ~(/\ r.kind = "release" /\ r.agent = c
               /\ next.suppressed[c] # terminal.suppressed[c])
    <3>1. ended'[c] = ended[c]
      BY <1>6, <2>1, <2>5
    <3>2. Spares(terminal, next, c)
      BY <1>3, <1>4, <2>1, <2>2, <2>5 DEF Spares
    <3> QED BY <1>7, <2>1, <3>1, <3>2, SparedStaysBarred
  <2> QED BY <2>4, <2>5
<1> QED BY <1>5, <1>6, <1>8 DEF EndedBarred

LEMMA HandleEventBars ==
    ASSUME Inv, EndedBarred, HandleEvent
    PROVE  EndedBarred'
<1> DEFINE e == Head(events)
           next == Detected(terminal, e)
<1>1. /\ events \in Seq(Observation) /\ events # << >>
      /\ Settle(next, Tail(events), None, {})
      /\ ended' = EndedByEvent(e, next)
  BY DEF HandleEvent, Inv, Typed
<1>2. e \in Observation /\ Wellformed(terminal)
  BY <1>1, InvIsWellformed
<1>3. Wellformed(next)
  BY <1>2, DetectedIsSafe
<1>4. \A c \in Full :
        /\ terminal.suppressed[c] # None =>
             \/ Spares(terminal, next, c)
             \/ c = e.agent /\ ~e.exited /\ next.detected = c /\ terminal.detected # c
        /\ c = e.agent /\ e.exited /\ Owner(terminal) = c /\ Owner(next) # c =>
             next.suppressed[c] # None /\ next.suppressed[c].reason = "exit"
  BY <1>2, DetectedSpares
<1> HIDE DEF next, e
<1>5. /\ terminal'.authority = next.authority
      /\ terminal'.suppressed = next.suppressed /\ terminal'.seqs = next.seqs
  BY <1>1, <1>3, SettledOn
<1>6. /\ \A c \in Full : ended'[c] =
           CASE c = e.agent /\ e.exited /\ Owner(terminal) = c /\ Owner(next) # c
                  -> Forever
             [] c = e.agent /\ ~e.exited /\ next.detected = c /\ terminal.detected # c
                  -> 0
             [] OTHER -> ended[c]
      /\ ended' \in [Full -> 0..Forever]
  <2>1. ended \in [Full -> 0..Forever] /\ Forever \in 0..Forever /\ 0 \in 0..Forever
    BY Constants DEF EndedBarred, Forever
  <2> QED BY <1>1, <2>1 DEF EndedByEvent
<1>7. \A c \in Full : next.seqs[c] \in Nat
  BY <1>3, Constants DEF Wellformed, TerminalRecord
<1>8. ASSUME NEW c \in Full, ended'[c] # 0
      PROVE  /\ next.suppressed[c] # None
             /\ ended'[c] = Forever => next.suppressed[c].reason = "exit"
             /\ ended'[c] # Forever =>
                  /\ next.suppressed[c] = [ref |-> NoRef, reason |-> "clear"]
                  /\ next.seqs[c] >= ended'[c]
  <2>1. CASE c = e.agent /\ e.exited /\ Owner(terminal) = c /\ Owner(next) # c
    <3>1. ended'[c] = Forever
      BY <1>6, <2>1
    <3> QED BY <1>4, <2>1, <3>1
  <2>2. CASE ~(c = e.agent /\ e.exited /\ Owner(terminal) = c /\ Owner(next) # c)
    <3>1. /\ ~(c = e.agent /\ ~e.exited /\ next.detected = c /\ terminal.detected # c)
          /\ ended'[c] = ended[c]
      BY <1>6, <1>8, <2>2
    <3>2. terminal.suppressed[c] # None
      BY <1>8, <3>1 DEF EndedBarred
    <3>3. Spares(terminal, next, c)
      BY <1>4, <3>1, <3>2
    <3> QED BY <1>7, <1>8, <3>1, <3>3, SparedStaysBarred
  <2> QED BY <2>1, <2>2
<1> QED BY <1>5, <1>6, <1>8 DEF EndedBarred

LEMMA ClearByRequestBars ==
    ASSUME Inv, EndedBarred, ClearByRequest
    PROVE  EndedBarred'
<1>1. PICK source \in {None, terminal.authority.agent}, seq \in {NoSeq, clock + 1} :
        /\ seq <= MaxSeq
        /\ Settle(ClearAuthority(terminal, source, seq), events, None, {})
  BY DEF ClearByRequest
<1> DEFINE next == ClearAuthority(terminal, source, seq)
<1>2. seq \in 0..MaxSeq /\ Wellformed(terminal) /\ terminal.authority # None
  BY <1>1, Constants, InvIsWellformed DEF NoSeq, Inv, Typed, ClearByRequest
<1>3. Wellformed(next)
  BY <1>2, ClearAuthorityIsSafe
<1>4. \A c \in Full : terminal.suppressed[c] # None => Spares(terminal, next, c)
  BY <1>2, ClearAuthoritySpares
<1> HIDE DEF next
<1>5. /\ terminal'.suppressed = next.suppressed /\ terminal'.seqs = next.seqs
  BY <1>1, <1>3, SettledOn DEF next
<1>6. ended' = ended /\ \A c \in Full : next.seqs[c] \in Nat
  BY <1>3, Constants DEF ClearByRequest, Wellformed, TerminalRecord
<1>7. ASSUME NEW c \in Full, ended[c] # 0
      PROVE  /\ next.suppressed[c] # None
             /\ ended[c] = Forever => next.suppressed[c].reason = "exit"
             /\ ended[c] # Forever =>
                  /\ next.suppressed[c] = [ref |-> NoRef, reason |-> "clear"]
                  /\ next.seqs[c] >= ended[c]
  <2>1. Spares(terminal, next, c)
    BY <1>4, <1>7 DEF EndedBarred
  <2> QED BY <1>6, <1>7, <2>1, SparedStaysBarred
<1> QED BY <1>5, <1>6, <1>7 DEF EndedBarred, Forever

LEMMA EndedStays == Inv /\ EndedBarred /\ [Next]_vars => EndedBarred'
<1> SUFFICES ASSUME Inv, EndedBarred, [Next]_vars PROVE EndedBarred'
  OBVIOUS
<1>1. CASE Elsewhere
  BY <1>1, ElsewhereIsQuiet DEF EndedBarred, Forever
<1> QED BY <1>1, StepIs, HandleReportBars, HandleEventBars, ClearByRequestBars

(* The types of AgentAuthority: among them, that only agents with a full   *)
(* lifecycle ever hold the authority and nobody is left marked between two *)
(* handlers.                                                               *)
THEOREM TypesHold == Spec => []TypeOK
<1>1. Inv /\ EndedBarred => TypeOK
  BY InvImpliesTypeOK
<1> QED BY InitEstablishes, StepKeeps, EndedAtFirst, EndedStays, <1>1, PTL DEF Spec

(* set_hook_authority_at refuses a late report of every session that lost  *)
(* the authority, whatever became of its suppression since.                *)
THEOREM WithdrawnStayOut == Spec => WithdrawnSessionRefused
<1> DEFINE Refused ==
      \A r \in reports \ reports' :
          (r.kind = "state" /\ r.agent \in Full /\ r.ref \in withdrawn \ {foreground.ref})
             => terminal'.authority = terminal.authority
<1>1. Inv /\ [Next]_vars => [Refused]_vars
  <2> SUFFICES ASSUME Inv, [Next]_vars PROVE Refused
    OBVIOUS
  <2>1. CASE HandleReport
    BY <2>1, HandleReportKeeps
  <2>2. CASE HandleEvent \/ ClearByRequest
    BY <2>2 DEF HandleEvent, ClearByRequest
  <2>3. CASE Elsewhere
    BY <2>3, ElsewhereIsQuiet
  <2> QED BY <2>1, <2>2, <2>3, StepIs
<1> QED BY InitEstablishes, StepKeeps, <1>1, PTL DEF Spec, WithdrawnSessionRefused

(* accept_hook_report orders the reports of a session for as long as none  *)
(* of its agent's sessions is stale.                                       *)
THEOREM NewestReportStands == Spec => NewestReportWins
<1> DEFINE InOrder == (OneSession /\ terminal.stale[terminal.authority.agent] = {})
                         => terminal'.authority.by >= terminal.authority.by
<1>1. Inv /\ [Next]_vars => [InOrder]_vars
  <2> SUFFICES ASSUME Inv, [Next]_vars PROVE InOrder
    OBVIOUS
  <2>1. NotOlder(terminal, terminal')
    <3>1. CASE Elsewhere
      BY <3>1, ElsewhereIsQuiet, InvIsWellformed, NothingDone
    <3> QED BY <3>1, StepIs, HandleReportKeeps, HandleEventKeeps, ClearByRequestKeeps
  <2> QED BY <2>1 DEF NotOlder, OneSession
<1> QED BY InitEstablishes, StepKeeps, <1>1, PTL DEF Spec, NewestReportWins

(* full_lifecycle_hook_report_is_suppressed keeps out an agent that exited *)
(* until the detector sees a process of it start; where a release replaced *)
(* the exit's suppression, accept_hook_report still keeps out what is      *)
(* older than the release, as long as no session of the agent is stale.    *)
THEOREM ExitedStayOut == Spec => ExitedStaysOut
<1> DEFINE Out ==
      \A r \in reports \ reports' :
          (/\ r.kind = "state" /\ r.agent \in Full
           /\ r.seq < ended[r.agent]
           /\ ended[r.agent] = Forever \/ terminal.stale[r.agent] = {})
             => terminal'.authority = terminal.authority
<1>1. Inv /\ EndedBarred /\ [Next]_vars => [Out]_vars
  <2> SUFFICES ASSUME Inv, EndedBarred, [Next]_vars PROVE Out
    OBVIOUS
  <2>1. CASE HandleReport
    <3> SUFFICES ASSUME NEW q \in reports \ reports',
                        q.kind = "state", q.agent \in Full, q.seq < ended[q.agent],
                        ended[q.agent] = Forever \/ terminal.stale[q.agent] = {}
                 PROVE  terminal'.authority = terminal.authority
      OBVIOUS
    <3>1. PICK r \in reports :
            /\ reports' = reports \ {r}
            /\ Settle(Applied(r), events,
                      IF /\ r.kind = "release"
                         /\ EffectiveAgent(Applied(r)) # EffectiveAgent(terminal)
                      THEN r.agent ELSE None,
                      Excused(r, Applied(r)))
      BY <2>1 DEF HandleReport
    <3> DEFINE a == q.agent
               next == HookReport(terminal, q)
    <3>2. q = r
      BY <3>1
    <3>3. Applied(r) = next
      BY <3>2 DEF Applied
    <3>4. Reported(q) /\ Wellformed(terminal)
      BY <3>1, <3>2, InvIsWellformed DEF Inv, Typed
    <3>5. /\ q.seq \in 1..MaxSeq /\ ended[a] \in Nat /\ ended[a] # 0
          /\ terminal.seqs[a] \in Nat
      BY <3>4, Constants DEF Reported, EndedBarred, Forever, Wellformed, TerminalRecord
    <3>6. next = terminal
      <4> SUFFICES ASSUME next # terminal PROVE FALSE
        OBVIOUS
      <4>1. /\ ~IsSuppressed(terminal, a, q.ref)
            /\ \/ FreshAfterSuppression(terminal, a, q.ref)
               \/ FreshAfterStale(terminal, a, q.ref)
               \/ Accepts(terminal, a, q.seq)
        BY <3>4, HookReportForm
      <4>2. CASE ended[a] = Forever
        BY <3>5, <4>1, <4>2 DEF EndedBarred, IsSuppressed
      <4>3. CASE ended[a] # Forever
        <5>1. /\ terminal.suppressed[a] = [ref |-> NoRef, reason |-> "clear"]
              /\ terminal.seqs[a] >= ended[a] /\ terminal.stale[a] = {}
          BY <3>5, <4>3 DEF EndedBarred
        <5>2. ~FreshAfterSuppression(terminal, a, q.ref)
              /\ ~FreshAfterStale(terminal, a, q.ref)
          BY <5>1 DEF FreshAfterSuppression, FreshAfterStale
        <5>3. ~Accepts(terminal, a, q.seq)
          BY <3>5, <5>1 DEF Accepts, NoSeq
        <5> QED BY <4>1, <5>2, <5>3
      <4> QED BY <4>2, <4>3
    <3> HIDE DEF next
    <3> QED BY <3>1, <3>3, <3>4, <3>6, SettledOn
  <2>2. CASE HandleEvent \/ ClearByRequest
    BY <2>2 DEF HandleEvent, ClearByRequest
  <2>3. CASE Elsewhere
    BY <2>3, ElsewhereIsQuiet
  <2> QED BY <2>1, <2>2, <2>3, StepIs
<1> QED BY InitEstablishes, StepKeeps, EndedAtFirst, EndedStays, <1>1, PTL
        DEF Spec, ExitedStaysOut
=============================================================================
