---------------------- MODULE ClientRegistryStepProofs ----------------------
(***************************************************************************)
(* What the steps of the registry owe to clients and panes: nobody is       *)
(* removed without being told, a settled layout stays settled until it is   *)
(* to be rendered anew, and after a handoff the map stays empty.             *)
(***************************************************************************)
EXTENDS ClientRegistryProofs

\* From S to R, whoever stays keeps the writer, what was queued stays queued, and whoever
\* leaves had no live writer or is told.
Farewells(S, R) ==
  \A c \in Clients :
    /\ S.told[c] => R.told[c]
    /\ R.mode[c] # "absent" => S.mode[c] # "absent" /\ R.writer[c] = S.writer[c]
    /\ S.mode[c] # "absent" /\ R.mode[c] = "absent" => R.told[c] \/ S.writer[c] # "live"

\* Every PTY that is not locked has the shared size, unless the foreground has detached.
Settled(S) ==
  S.fg # NoClient /\ S.writer[S.fg] # "none" =>
    \A t \in Unlocked(S) : S.pty[t] = <<"shared", S.eff>>

\* Whether c may be removed without a word.
Parted(S, c) == S.told[c] \/ S.writer[c] # "live" \/ S.mode[c] = "absent"

-----------------------------------------------------------------------------
(* The operators. *)

LEMMA FarewellsTransitive ==
  ASSUME NEW S, NEW T, NEW R, Farewells(S, T), Farewells(T, R)
  PROVE  Farewells(S, R)
  BY DEF Farewells

\* Operators that leave the map alone remove nobody.
LEMMA SameMapFarewells ==
  ASSUME NEW S, NEW R, SameMap(S, R), R.told = S.told
  PROVE  Farewells(S, R)
  BY DEF SameMap, Farewells

LEMMA SharedResizeSettles ==
  ASSUME NEW S, Good(S), alive \subseteq Terminals
  PROVE  Settled(SharedResize(S)) /\ Farewells(S, SharedResize(S))
<1> DEFINE R == SharedResize(S)
<1>1. Good(R) /\ SameMap(S, R) /\ R.fg = S.fg
  BY SharedResizeGood
<1>2. R.told = S.told /\ R.eff = S.eff
  <2>1. S.eff \in Sizes \cup {MinSize} /\ Core(S)
    BY DEF Good, Core, Shape, Registry
  <2> QED BY <2>1, LayOutGood DEF SharedResize
<1>3. ASSUME S.fg # NoClient PROVE Settled(R)
  <2>1. S.fg \in Present(S)
    BY <1>3 DEF Good, Front, Apps, Present
  <2>2. R = LayOut(S, S.eff)
    BY <2>1 DEF SharedResize
  <2>3. R.pty = [t \in Terminals |-> IF t \in Unlocked(S) THEN <<"shared", S.eff>> ELSE S.pty[t]]
    BY <2>2 DEF LayOut, Good, Core, Shape, Registry
  <2>4. Unlocked(R) = Unlocked(S) /\ Unlocked(S) \subseteq Terminals
    BY <1>1 DEF Unlocked, SameMap
  <2> HIDE DEF R
  <2> QED BY <1>2, <2>3, <2>4 DEF Settled
<1> HIDE DEF R
<1>4. Settled(R)
  BY <1>1, <1>3 DEF Settled
<1> QED BY <1>1, <1>2, <1>4, SameMapFarewells DEF R

\* What DropCore does not say of a client's removal.
LEMMA DropRest ==
  ASSUME NEW S, NEW c \in Clients, Good(S)
  PROVE  /\ Drop(S, c).told = S.told /\ Drop(S, c).pty = S.pty
         /\ Drop(S, c).writer = [S.writer EXCEPT ![c] = "none"]
         /\ Drop(S, c).fg = S.fg /\ Drop(S, c).eff = S.eff
         /\ Drop(S, c).locks = S.locks \ FreedLocks(S, c)
<1> DEFINE o == FreeOwner(S, c)
           l == S.locks \ FreedLocks(S, c)
           R == Drop(S, c)
<1>1. R = [[S EXCEPT !.mode[c] = "absent", !.term[c] = NoTerm, !.writer[c] = "none"]
             EXCEPT !.owner = o, !.locks = l]
  BY DEF Drop, Unmap, Good, Core, Shape, Registry
<1> HIDE DEF o, l, R
<1>2. /\ R.told = S.told /\ R.pty = S.pty /\ R.writer = [S.writer EXCEPT ![c] = "none"]
      /\ R.fg = S.fg /\ R.eff = S.eff /\ R.locks = l
  BY <1>1 DEF Good, Core, Shape, Registry
<1> QED BY <1>2 DEF R, l

LEMMA RemoveFarewells ==
  ASSUME NEW S, NEW c \in Clients, Good(S), alive \subseteq Terminals, Parted(S, c)
  PROVE  Farewells(S, Remove(S, c))
<1> DEFINE D == Drop(S, c)
<1>1. /\ Core(D) /\ OnlyClient(S, D, c) /\ D.mode[c] = "absent"
      /\ D.told = S.told /\ D.writer = [S.writer EXCEPT ![c] = "none"]
  BY DropCore, DropRest DEF Good
<1>2. Remove(S, c) = IF D.fg = c THEN PromoteLatest(D) ELSE D
  BY DEF Remove, AfterDrop
<1>3. S.writer \in [Clients -> {"live", "dead", "none"}]
  BY DEF Good, Core, Shape, Registry
<1> HIDE DEF D
<1>4. Farewells(S, D)
  BY <1>1, <1>3 DEF Farewells, OnlyClient, Parted
<1>5. Farewells(D, PromoteLatest(D))
  <2>1. D \in Registry
    BY <1>1 DEF Core, Shape
  <2> QED BY <2>1, ForegroundSame, SameMapFarewells DEF PromoteLatest
<1> QED BY <1>2, <1>4, <1>5, FarewellsTransitive

LEMMA RemoveAndResizeKeeps ==
  ASSUME NEW S, NEW c \in Clients, Good(S), alive \subseteq Terminals
  PROVE  /\ Parted(S, c) => Farewells(S, RemoveAndResize(S, c))
         /\ Settled(S) => Settled(RemoveAndResize(S, c))
<1>1. Good(Remove(S, c))
  BY RemoveGood
<1>2. Settled(SharedResize(Remove(S, c))) /\ Farewells(Remove(S, c), SharedResize(Remove(S, c)))
  BY <1>1, SharedResizeSettles
<1>3. Parted(S, c) => Farewells(S, RemoveAndResize(S, c))
  BY <1>2, RemoveFarewells, FarewellsTransitive DEF RemoveAndResize
<1>4. CASE NeedsResize(S, c)
  BY <1>2, <1>3, <1>4 DEF RemoveAndResize
<1>5. CASE ~NeedsResize(S, c)
  <2> DEFINE D == Drop(S, c)
  <2>1. S.fg # c /\ (S.fg # NoClient => S.mode[c] \notin Streams)
    BY <1>5 DEF NeedsResize
  <2>2. /\ D.pty = S.pty /\ D.writer = [S.writer EXCEPT ![c] = "none"]
        /\ D.fg = S.fg /\ D.eff = S.eff /\ D.locks = S.locks \ FreedLocks(S, c)
    BY DropRest
  <2>3. RemoveAndResize(S, c) = D
    BY <1>5, <2>1, <2>2 DEF RemoveAndResize, Remove, AfterDrop
  <2> HIDE DEF D
  <2>4. ASSUME S.fg # NoClient, Settled(S) PROVE Settled(D)
    <3>1. D.locks = S.locks
      BY <2>1, <2>2, <2>4 DEF FreedLocks, Streams
    <3>2. S.fg \in Clients /\ S.writer \in [Clients -> {"live", "dead", "none"}]
      BY <2>4 DEF Good, Core, Shape, Registry
    <3>3. D.writer[D.fg] = S.writer[S.fg]
      BY <2>1, <2>2, <3>2
    <3> QED BY <2>2, <2>4, <3>1, <3>3 DEF Settled, Unlocked
  <2>5. Settled(S) => Settled(D)
    BY <2>2, <2>4 DEF Settled
  <2> QED BY <1>3, <2>3, <2>5
<1> QED BY <1>4, <1>5

LEMMA SendKeeps ==
  ASSUME NEW S, NEW c \in Clients, Good(S), alive \subseteq Terminals
  PROVE  /\ Farewells(S, Send(S, c))
         /\ Settled(S) => Settled(Send(S, c))
         /\ S.writer[c] # "dead" => Send(S, c) = S
<1>1. Farewells(S, S)
  BY DEF Farewells
<1>2. S.writer[c] = "dead" => Parted(S, c)
  BY DEF Parted
<1> QED BY <1>1, <1>2, RemoveAndResizeKeeps DEF Send

\* Queueing a shutdown for anybody.
LEMMA ToldKeeps ==
  ASSUME NEW S, NEW f \in [Clients -> BOOLEAN], Good(S), \A c \in Clients : S.told[c] => f[c]
  PROVE  LET R == [S EXCEPT !.told = f]
         IN  Farewells(S, R) /\ (Settled(S) => Settled(R)) /\ R.told = f
<1> DEFINE R == [S EXCEPT !.told = f]
<1>1. /\ R.told = f /\ R.pty = S.pty /\ R.fg = S.fg /\ R.eff = S.eff
      /\ R.mode = S.mode /\ R.writer = S.writer /\ R.locks = S.locks
  BY DEF Good, Core, Shape, Registry
<1> HIDE DEF R
<1>2. Farewells(S, R) /\ (Settled(S) => Settled(R)) /\ R.told = f
  BY <1>1 DEF Farewells, Settled, Unlocked
<1> QED BY <1>2 DEF R

LEMMA TellKeeps ==
  ASSUME NEW S, NEW c \in Clients, Good(S), alive \subseteq Terminals
  PROVE  /\ Farewells(S, Tell(S, c))
         /\ Settled(S) => Settled(Tell(S, c))
         /\ S.writer[c] = "live" => Tell(S, c).told[c]
         /\ Parted(Tell(S, c), c)
<1> DEFINE R == [S EXCEPT !.told = Told(S, c)]
<1>1. Good(R) /\ SameMap(S, R)
  BY ToldGood, ToldType
<1>2. S.told \in [Clients -> BOOLEAN]
  BY DEF Good, Core, Shape, Registry
<1>3. \A d \in Clients : S.told[d] => Told(S, c)[d]
  BY <1>2 DEF Told
<1>4. Farewells(S, R) /\ (Settled(S) => Settled(R)) /\ R.told = Told(S, c)
  BY <1>3, ToldKeeps, ToldType
<1>5. Tell(S, c) = Send(R, c)
  BY DEF Tell
<1>6. S.writer[c] = "live" => R.told[c]
  BY <1>2, <1>4 DEF Told
<1> HIDE DEF R
<1>7. /\ Farewells(R, Send(R, c))
      /\ Settled(R) => Settled(Send(R, c))
      /\ R.writer[c] # "dead" => Send(R, c) = R
  BY <1>1, SendKeeps
<1>8. S.writer[c] = "live" => Send(R, c).told[c]
  BY <1>6, <1>7 DEF Farewells
<1>9. Parted(Send(R, c), c)
  <2>1. CASE Send(R, c).mode[c] = "absent"
    BY <2>1 DEF Parted
  <2>2. CASE Send(R, c).mode[c] # "absent"
    <3>1. Send(R, c).writer[c] = S.writer[c]
      BY <1>1, <1>7, <2>2 DEF Farewells, SameMap
    <3> QED BY <1>8, <3>1 DEF Parted
  <2> QED BY <2>1, <2>2
<1> QED BY <1>4, <1>5, <1>7, <1>8, <1>9, FarewellsTransitive

LEMMA TellAndRemoveKeeps ==
  ASSUME NEW S, NEW c \in Clients, Good(S), alive \subseteq Terminals
  PROVE  /\ Farewells(S, TellAndRemove(S, c))
         /\ Settled(S) => Settled(TellAndRemove(S, c))
<1>1. Good(Tell(S, c))
  BY TellGood
<1> QED BY <1>1, TellKeeps, RemoveAndResizeKeeps, FarewellsTransitive DEF TellAndRemove

\* Making an app client the foreground, with the shared resize of a new one.
LEMMA PromoteKeeps ==
  ASSUME NEW S, NEW c \in Apps(S), Good(S), alive \subseteq Terminals
  PROVE  LET P == Promote(S, c)
             R == IF P.fg # S.fg THEN SharedResize(P) ELSE P
         IN  /\ Good(R) /\ SameMap(S, R) /\ Farewells(S, R)
             /\ Settled(S) => Settled(R)
<1> DEFINE P == Promote(S, c)
           T == Touch(S, c)
           R == IF P.fg # S.fg THEN SharedResize(P) ELSE P
<1> SUFFICES /\ Good(R) /\ SameMap(S, R) /\ Farewells(S, R)
             /\ Settled(S) => Settled(R)
  OBVIOUS
<1>1. c \in Clients /\ c \in Present(S) /\ S \in Registry
  BY DEF Apps, Present, Good, Core, Shape
<1>2. /\ T \in Registry /\ SameMap(S, T) /\ T.pty = S.pty /\ T.told = S.told
  BY <1>1, TouchSame
<1>3. P = Foreground(T, c) /\ c \in Present(T)
  BY <1>1, <1>2 DEF Promote, Present, SameMap
<1> HIDE DEF T
<1>4. P.told = S.told /\ P.pty = S.pty
  BY <1>2, <1>3, ForegroundSame
<1>5. P.fg = c /\ P.eff = S.size[c]
  BY <1>2, <1>3 DEF Foreground, Registry, SameMap
<1>6. Good(P) /\ SameMap(S, P)
  BY PromoteGood DEF Good
<1> HIDE DEF P
<1>7. Farewells(S, P)
  BY <1>4, <1>6, SameMapFarewells
<1>8. /\ Settled(SharedResize(P)) /\ Farewells(P, SharedResize(P))
      /\ Good(SharedResize(P)) /\ SameMap(P, SharedResize(P))
  BY <1>6, SharedResizeSettles, SharedResizeGood
<1>9. CASE P.fg # S.fg
  BY <1>6, <1>7, <1>8, <1>9, FarewellsTransitive DEF SameMap
<1>10. CASE P.fg = S.fg
  <2>1. c # NoClient
    BY <1>1, ConstantsAssumption
  <2>2. S.eff = S.size[c]
    BY <1>5, <1>10, <2>1 DEF Good, Front
  <2>3. Settled(S) => Settled(P)
    BY <1>4, <1>5, <1>6, <1>10, <2>2 DEF Settled, Unlocked, SameMap
  <2> QED BY <1>6, <1>7, <1>10, <2>3
<1> QED BY <1>9, <1>10

-----------------------------------------------------------------------------
(* The invariants. *)

\* But for a handoff, which lays out at its end, what is not to be rendered is settled.
SettledInv == ~dirty /\ why # "handoff" => Settled(srv)

\* A handoff empties the map before it ends, and nobody enters it afterwards.
HandoffInv ==
  /\ why = "handoff" => handoff /\ Present(srv) \subseteq todo
  /\ handoff /\ why # "handoff" => Present(srv) = {}

\* Whom a loop removes without a word has been told or cannot be.
ToldInv == why = "broken" => \A c \in todo : Parted(srv, c)

StepInv == IInv /\ SettledInv /\ HandoffInv /\ ToldInv

\* What NoSilentRemoval says of one step.
Announced ==
  \A c \in Clients :
    (/\ srv.mode[c] # "absent" /\ srv'.mode[c] = "absent"
     /\ srv.writer[c] = "live" /\ link'[c] = "open"
     /\ ~Detach(c))
    => srv'.told[c]

\* What a step does to the layout.
Lays == ~dirty' => ~dirty /\ (Settled(srv) => Settled(srv'))

LEMMA FarewellsAnnounce ==
  ASSUME Farewells(srv, srv')
  PROVE  Announced
  BY DEF Farewells, Announced

\* Who is not in a loop's list, or keeps its mode, is not removed.
LEMMA StayersAnnounce ==
  ASSUME NEW c, \A d \in Clients \ {c} : srv.mode[d] # "absent" => srv'.mode[d] # "absent",
         c \in Clients => srv'.mode[c] # "absent" \/ link'[c] # "open" \/ Detach(c)
  PROVE  Announced
  BY DEF Announced

-----------------------------------------------------------------------------
(* Client events. *)

\* A client that enters pushes nobody out, and has a writer.
LEMMA JoinStays ==
  ASSUME NEW S, NEW c \in Clients, NEW s \in Sizes, NEW direct \in BOOLEAN, Good(S)
  PROVE  /\ \A d \in Clients \ {c} : Join(S, c, s, direct).mode[d] = S.mode[d]
         /\ Join(S, c, s, direct).writer = [S.writer EXCEPT ![c] = "live"]
<1> DEFINE m == IF direct THEN "pending" ELSE "app"
           N == [S EXCEPT !.mode[c] = m, !.size[c] = s, !.writer[c] = "live"]
           T == Touch(N, c)
           f == IF direct THEN T.fg ELSE c
           F == Foreground(T, f)
<1>1. Join(S, c, s, direct) = SharedResize(F)
  BY DEF Join
<1>2. m \in {"pending", "app"}
  OBVIOUS
<1> HIDE DEF m
<1>3. /\ N \in Registry /\ N.mode = [S.mode EXCEPT ![c] = m]
      /\ N.writer = [S.writer EXCEPT ![c] = "live"]
  BY <1>2 DEF Good, Core, Shape, Registry, Modes
<1> HIDE DEF N
<1>4. T \in Registry /\ T.mode = N.mode /\ T.writer = N.writer
  BY <1>3, TouchSame DEF SameMap
<1> HIDE DEF T, f
<1>5. F \in Registry /\ F.mode = T.mode /\ F.writer = T.writer
  BY <1>4, ForegroundSame DEF SameMap
<1> HIDE DEF F
<1>6. SharedResize(F).mode = F.mode /\ SharedResize(F).writer = F.writer
  BY <1>5 DEF SharedResize, LayOut, Registry
<1> QED BY <1>1, <1>3, <1>4, <1>5, <1>6 DEF Good, Core, Shape, Registry

\* Entering a stream tells nobody anything.
LEMMA EnterKeeps ==
  ASSUME NEW S, NEW c \in Clients, NEW mode \in Streams, NEW t \in Terminals,
         Good(S), S.mode[c] = "pending"
  PROVE  Farewells(S, Enter(S, c, mode, t))
<1> DEFINE R == Enter(S, c, mode, t)
<1>1. /\ R \in Registry
      /\ R.mode = [S.mode EXCEPT ![c] = mode] /\ R.term = [S.term EXCEPT ![c] = t]
      /\ R.size = S.size /\ R.writer = S.writer
      /\ R.owner = S.owner /\ R.locks = S.locks /\ R.pty = S.pty
      /\ R.fg = S.fg /\ R.eff = S.eff /\ R.fg # c
  BY EnterTerm
<1> DEFINE N == [S EXCEPT !.mode[c] = mode, !.term[c] = t]
           T == Touch(N, c)
<1>2. N \in Registry /\ N.told = S.told
  BY DEF Good, Core, Shape, Registry, Modes, Streams
<1>3. R = IF T.fg = c THEN PromoteLatest(T) ELSE T
  BY DEF Enter
<1> HIDE DEF N, R
<1>4. T \in Registry /\ T.told = S.told
  BY <1>2, TouchSame
<1> HIDE DEF T
<1>5. R.told = S.told
  BY <1>3, <1>4, ForegroundSame DEF PromoteLatest
<1>6. mode # "absent" /\ S.mode \in [Clients -> Modes]
  BY DEF Streams, Good, Core, Shape, Registry
<1>7. Farewells(S, R)
  BY <1>1, <1>5, <1>6 DEF Farewells
<1> QED BY <1>7 DEF R

\* Whoever a takeover evicts is told.
LEMMA AttachKeeps ==
  ASSUME NEW S, NEW c \in Clients, NEW t \in alive, alive \subseteq Terminals,
         Good(S), S.mode[c] = "pending"
  PROVE  Farewells(S, Own(Enter(Evict(S, S.owner[t]), c, "attach", t), c, t))
<1> DEFINE o == S.owner[t]
           V == Evict(S, o)
           E == Enter(V, c, "attach", t)
<1>1. o \in Clients \cup {NoClient} /\ t \in Terminals /\ "attach" \in Streams
  BY DEF Good, Core, Shape, Registry, Streams
<1>2. Good(V) /\ V.mode[c] = "pending" /\ Farewells(S, V)
  <2>1. CASE o = NoClient
    BY <2>1 DEF Evict, Farewells
  <2>2. CASE o \in Clients
    <3>1. S.mode[o] = "attach"
      BY <1>1, <2>2 DEF Good, Core, Owned
    <3>2. V = TellAndRemove(S, o)
      BY <2>2, ConstantsAssumption DEF Evict
    <3> HIDE DEF o, V
    <3> QED BY <2>2, <3>1, <3>2, TellAndRemoveGood, TellAndRemoveKeeps DEF OnlyClient
  <2> QED BY <1>1, <2>1, <2>2
<1> HIDE DEF V, o
<1>3. /\ Farewells(V, E) /\ E \in Registry
  BY <1>1, <1>2, EnterKeeps, EnterTerm
<1> HIDE DEF E
<1>4. Farewells(E, Own(E, c, t))
  BY <1>3 DEF Own, Farewells, Registry
<1>5. Farewells(S, Own(E, c, t))
  BY <1>2, <1>3, <1>4, FarewellsTransitive
<1> QED BY <1>5 DEF E, V, o

\* A resize keeps everybody, and their writers.
LEMMA ResizeStays ==
  ASSUME NEW c \in Clients, NEW s \in Sizes, Resize(c, s), Good(srv), alive \subseteq Terminals
  PROVE  srv'.mode = srv.mode /\ srv'.writer = srv.writer
<1> DEFINE S == IF c \in Present(srv) THEN [srv EXCEPT !.size[c] = s] ELSE srv
<1>1. /\ srv.mode[c] # "pending"
      /\ srv' = CASE S.mode[c] = "attach"  -> OwnPty(S, c)
                  [] S.mode[c] = "observe" -> S
                  [] OTHER                 -> SharedResize(Promote(S, c))
  BY DEF Resize
<1>2. S \in Registry /\ S.mode = srv.mode /\ S.writer = srv.writer
  BY DEF Good, Core, Shape, Registry
<1> HIDE DEF S
<1>3. OwnPty(S, c).mode = S.mode /\ OwnPty(S, c).writer = S.writer
  BY <1>2 DEF OwnPty, Registry
<1>4. /\ Promote(S, c) \in Registry
      /\ Promote(S, c).mode = S.mode /\ Promote(S, c).writer = S.writer
  <2>1. Touch(S, c) \in Registry /\ Touch(S, c).mode = S.mode /\ Touch(S, c).writer = S.writer
    BY <1>2, TouchSame DEF SameMap
  <2> QED BY <1>2, <2>1, ForegroundSame DEF Promote, SameMap
<1>5. /\ SharedResize(Promote(S, c)).mode = Promote(S, c).mode
      /\ SharedResize(Promote(S, c)).writer = Promote(S, c).writer
  BY <1>4 DEF SharedResize, LayOut, Registry
<1> QED BY <1>1, <1>2, <1>3, <1>4, <1>5

\* A client event announces whom it removes, and leaves the layout settled or to be rendered.
LEMMA ClientEventKeeps ==
  ASSUME IInv, NEW c \in Clients, ClientEvent(c)
  PROVE  Announced /\ Lays
<1>1. /\ Rest /\ Good(srv) /\ Fresh /\ alive \subseteq Terminals
  BY DEF IInv, Rest
<1>2. dirty \in BOOLEAN
  BY <1>1 DEF Rest
<1>3. ASSUME NEW s \in Sizes, Resize(c, s) PROVE Announced /\ Lays
  <2>1. srv'.mode = srv.mode /\ dirty' = TRUE
    BY <1>1, <1>3, ResizeStays DEF Resize
  <2> QED BY <2>1 DEF Announced, Lays
<1>4. ASSUME NEW s \in Sizes, NEW direct \in BOOLEAN, Connected(c, s, direct)
      PROVE  Announced /\ Lays
  <2>1. srv.mode[c] = "absent"
    BY <1>1, <1>4 DEF Connected, Fresh
  <2>2. CASE Refuses
    <3>1. srv' = [srv EXCEPT !.told = [srv.told EXCEPT ![c] = TRUE]] /\ dirty' = dirty
      BY <1>1, <1>4, <2>2 DEF Connected, Good, Core, Shape, Registry
    <3>2. /\ [srv.told EXCEPT ![c] = TRUE] \in [Clients -> BOOLEAN]
          /\ \A d \in Clients : srv.told[d] => [srv.told EXCEPT ![c] = TRUE][d]
      BY <1>1 DEF Good, Core, Shape, Registry
    <3>3. Farewells(srv, srv') /\ (Settled(srv) => Settled(srv'))
      BY <1>1, <3>1, <3>2, ToldKeeps
    <3> QED BY <3>1, <3>3, FarewellsAnnounce DEF Lays
  <2>3. CASE ~Refuses
    <3>1. srv' = Join(srv, c, s, direct) /\ dirty' = TRUE
      BY <1>4, <2>3 DEF Connected
    <3>2. /\ \A d \in Clients \ {c} : srv'.mode[d] = srv.mode[d]
          /\ srv'.writer = [srv.writer EXCEPT ![c] = "live"]
      BY <1>1, <3>1, JoinStays
    <3> QED BY <2>1, <3>1, <3>2 DEF Announced, Lays
  <2> QED BY <2>2, <2>3
<1>5. ASSUME NEW t \in Terminals, Observe(c, t) PROVE Announced /\ Lays
  <2>1. CASE srv.mode[c] # "pending" \/ t \notin alive
    <3>1. srv' = TellAndRemove(srv, c) /\ dirty' = dirty
      BY <1>5, <2>1 DEF Observe
    <3> QED BY <1>1, <3>1, TellAndRemoveKeeps, FarewellsAnnounce DEF Lays
  <2>2. CASE srv.mode[c] = "pending" /\ t \in alive
    <3>1. srv' = Enter(srv, c, "observe", t) /\ dirty' = TRUE /\ "observe" \in Streams
      BY <1>5, <2>2 DEF Observe, Streams
    <3> QED BY <1>1, <2>2, <3>1, EnterKeeps, FarewellsAnnounce DEF Lays
  <2> QED BY <2>1, <2>2
<1>6. ASSUME NEW t \in Terminals, NEW takeover \in BOOLEAN, Attach(c, t, takeover)
      PROVE  Announced /\ Lays
  <2>1. CASE srv.mode[c] # "pending" \/ t \notin alive \/ (srv.owner[t] # NoClient /\ ~takeover)
    <3>1. srv' = TellAndRemove(srv, c) /\ dirty' = dirty
      BY <1>6, <2>1 DEF Attach
    <3> QED BY <1>1, <3>1, TellAndRemoveKeeps, FarewellsAnnounce DEF Lays
  <2>2. CASE ~(srv.mode[c] # "pending" \/ t \notin alive \/ (srv.owner[t] # NoClient /\ ~takeover))
    <3>1. /\ srv' = Own(Enter(Evict(srv, srv.owner[t]), c, "attach", t), c, t)
          /\ dirty' = TRUE /\ srv.mode[c] = "pending" /\ t \in alive
      BY <1>6, <2>2 DEF Attach
    <3> QED BY <1>1, <3>1, AttachKeeps, FarewellsAnnounce DEF Lays
  <2> QED BY <2>1, <2>2
<1>7. CASE Input(c)
  <2>1. CASE srv.mode[c] # "app"
    <3>1. srv' = srv /\ (~dirty' => ~dirty)
      BY <1>2, <1>7, <2>1 DEF Input
    <3> QED BY <3>1 DEF Announced, Lays
  <2>2. CASE srv.mode[c] = "app"
    <3> DEFINE P == Promote(srv, c)
    <3>1. /\ srv' = IF P.fg # srv.fg THEN SharedResize(P) ELSE P
          /\ dirty' = TRUE /\ c \in Apps(srv)
      BY <1>2, <1>7, <2>2 DEF Input, Apps
    <3>2. Farewells(srv, srv')
      BY <1>1, <3>1, PromoteKeeps
    <3> QED BY <3>1, <3>2, FarewellsAnnounce DEF Lays
  <2> QED BY <2>1, <2>2
<1>8. CASE DetachKey(c)
  <2> DEFINE P == Promote(srv, c)
             R == IF P.fg # srv.fg THEN SharedResize(P) ELSE P
             S == Tell(R, c)
             W == [S EXCEPT !.writer[c] = "none"]
  <2>1. /\ c \in Apps(srv) /\ dirty' = dirty
        /\ srv' = IF c \in Present(S) THEN W ELSE S
    BY <1>8 DEF DetachKey, Apps
  <2>2. Good(R) /\ Farewells(srv, R) /\ (Settled(srv) => Settled(R))
    BY <1>1, <2>1, PromoteKeeps
  <2> HIDE DEF R
  <2>3. Good(S) /\ Farewells(R, S) /\ (Settled(R) => Settled(S))
    BY <1>1, <2>2, TellGood, TellKeeps
  <2>4. Farewells(srv, S)
    BY <2>2, <2>3, FarewellsTransitive
  <2> HIDE DEF S
  <2>5. CASE c \notin Present(S)
    BY <2>1, <2>2, <2>3, <2>4, <2>5, FarewellsAnnounce DEF Lays
  <2>6. CASE c \in Present(S)
    <3>1. /\ W.mode = S.mode /\ W.told = S.told /\ W.pty = S.pty /\ W.locks = S.locks
          /\ W.fg = S.fg /\ W.eff = S.eff /\ W.writer = [S.writer EXCEPT ![c] = "none"]
      BY <2>3 DEF Good, Core, Shape, Registry
    <3>2. srv' = W
      BY <2>1, <2>6
    <3> HIDE DEF W
    <3>3. Settled(S) => Settled(W)
      <4>1. S.writer \in [Clients -> {"live", "dead", "none"}] /\ S.fg \in Clients \cup {NoClient}
        BY <2>3 DEF Good, Core, Shape, Registry
      <4> QED BY <3>1, <4>1 DEF Settled, Unlocked
    <3>4. Announced
      BY <2>4, <3>1, <3>2 DEF Announced, Farewells
    <3> QED BY <2>1, <2>2, <2>3, <3>2, <3>3, <3>4 DEF Lays
  <2> QED BY <2>5, <2>6
<1>9. CASE Detach(c)
  <2> DEFINE S == IF srv.mode[c] \in Streams THEN Tell(srv, c) ELSE srv
  <2>1. srv' = RemoveAndResize(S, c) /\ dirty' = TRUE
    BY <1>9 DEF Detach
  <2>2. Good(S) /\ OnlyClient(srv, S, c)
    BY <1>1, TellGood DEF OnlyClient
  <2> HIDE DEF S
  <2>3. OnlyClient(srv, srv', c)
    BY <1>1, <2>1, <2>2, RemoveAndResizeGood DEF OnlyClient
  <2> QED BY <1>9, <2>1, <2>3, StayersAnnounce DEF OnlyClient, Lays
<1>10. CASE IgnoredAfterHandoff(c)
  BY <1>10 DEF IgnoredAfterHandoff, Announced, Lays
<1>11. CASE Disconnected(c)
  <2>1. /\ srv' = RemoveAndResize(srv, c) /\ dirty' = TRUE
        /\ link' = [link EXCEPT ![c] = "closed"]
    BY <1>11 DEF Disconnected
  <2>2. OnlyClient(srv, srv', c)
    BY <1>1, <2>1, RemoveAndResizeGood
  <2>3. link'[c] # "open"
    BY <1>1, <2>1 DEF Rest
  <2> QED BY <2>1, <2>2, <2>3, StayersAnnounce DEF OnlyClient, Lays
<1>12. CASE WriterDies(c)
  <2>1. srv' = [srv EXCEPT !.writer[c] = "dead"] /\ srv.writer[c] = "live" /\ dirty' = dirty
    BY <1>12 DEF WriterDies
  <2>2. /\ srv'.mode = srv.mode /\ srv'.fg = srv.fg /\ srv'.eff = srv.eff /\ srv'.pty = srv.pty
        /\ srv'.locks = srv.locks /\ srv'.writer = [srv.writer EXCEPT ![c] = "dead"]
        /\ srv.writer \in [Clients -> {"live", "dead", "none"}]
        /\ srv.fg \in Clients \cup {NoClient}
    BY <1>1, <2>1 DEF Good, Core, Shape, Registry
  <2>3. Settled(srv) => Settled(srv')
    BY <2>1, <2>2 DEF Settled, Unlocked
  <2> QED BY <2>1, <2>2, <2>3 DEF Announced, Lays
<1> QED BY <1>3, <1>4, <1>5, <1>6, <1>7, <1>8, <1>9, <1>10, <1>11, <1>12 DEF ClientEvent

-----------------------------------------------------------------------------
(* Steps of the event loop. *)

\* A handoff tells each client and takes it out.
LEMMA HandoffDropsKeeps ==
  ASSUME NEW c \in Clients, HandoffDrops(c), Good(srv), alive \subseteq Terminals
  PROVE  Announced /\ OnlyClient(srv, srv', c) /\ srv'.mode[c] = "absent"
<1> DEFINE S == Tell(srv, c)
           W == [S EXCEPT !.writer[c] = "none"]
<1>1. srv' = Remove(W, c)
  BY DEF HandoffDrops, Farewell
<1>2. /\ Good(S) /\ OnlyClient(srv, S, c)
      /\ Farewells(srv, S) /\ (srv.writer[c] = "live" => S.told[c])
  BY TellGood, TellKeeps
<1> HIDE DEF S
<1>3. /\ W.mode = S.mode /\ W.told = S.told /\ W.writer[c] = "none"
      /\ W.term = S.term /\ W.size = S.size
  BY <1>2 DEF Good, Core, Shape, Registry
<1>4. Good(W)
  BY <1>2, WriterGood
<1> HIDE DEF W
<1>5. /\ OnlyClient(W, Remove(W, c), c) /\ Remove(W, c).mode[c] = "absent"
  BY <1>4, RemoveGood
<1>6. Farewells(W, Remove(W, c))
  BY <1>3, <1>4, RemoveFarewells DEF Parted
<1>7. OnlyClient(srv, srv', c) /\ srv'.mode[c] = "absent"
  BY <1>1, <1>2, <1>3, <1>5 DEF OnlyClient
<1>8. srv.writer[c] = "live" => srv'.told[c]
  BY <1>1, <1>2, <1>3, <1>6 DEF Farewells
<1> QED BY <1>7, <1>8 DEF Announced, OnlyClient

\* A render lays out for the foreground, and tells the clients of terminals that are gone.
LEMMA RenderKeeps ==
  ASSUME Render, Good(srv), alive \subseteq Terminals
  PROVE  /\ Farewells(srv, srv') /\ Settled(srv')
         /\ \A c \in Gone : srv.writer[c] = "live" => srv'.told[c]
<1> DEFINE S == IF srv.fg \in RenderTargets \cap Apps(srv)
                  THEN LayOut(srv, srv.size[srv.fg]) ELSE srv
           f == [c \in Clients |-> S.told[c] \/ (c \in Gone /\ S.writer[c] = "live")]
<1>1. srv' = [S EXCEPT !.told = f]
  BY DEF Render
<1>2. Good(S) /\ SameMap(srv, S) /\ S.told = srv.told /\ Settled(S)
  <2>1. CASE srv.fg \in RenderTargets \cap Apps(srv)
    <3>1. srv.fg # NoClient
      BY <2>1, ConstantsAssumption DEF Apps
    <3>2. srv.size[srv.fg] = srv.eff /\ srv.fg \in Present(srv)
      BY <2>1, <3>1 DEF Good, Front, Apps, Present
    <3>3. S = SharedResize(srv)
      BY <2>1, <3>2 DEF SharedResize
    <3> HIDE DEF S
    <3>4. srv.eff \in Sizes \cup {MinSize}
      BY DEF Good, Core, Shape, Registry
    <3>5. SharedResize(srv).told = srv.told
      BY <3>2, <3>4, LayOutGood DEF SharedResize, Good
    <3> QED BY <3>3, <3>5, SharedResizeSettles, SharedResizeGood
  <2>2. CASE srv.fg \notin RenderTargets \cap Apps(srv)
    <3>1. S = srv
      BY <2>2
    <3>2. Settled(srv)
      BY <2>2 DEF Settled, RenderTargets, Good, Front, Apps
    <3> QED BY <3>1, <3>2 DEF SameMap
  <2> QED BY <2>1, <2>2
<1> HIDE DEF S
<1>3. Gone \subseteq Clients
  BY DEF Gone, RenderTargets
<1>4. /\ f \in [Clients -> BOOLEAN]
      /\ \A c \in Clients : S.told[c] => f[c]
      /\ \A c \in Gone : S.writer[c] = "live" => f[c]
  <2>1. S.told \in [Clients -> BOOLEAN]
    BY <1>2 DEF Good, Core, Shape, Registry
  <2>2. \A c \in Clients : (S.told[c] \/ (c \in Gone /\ S.writer[c] = "live")) \in BOOLEAN
    BY <2>1
  <2> QED BY <1>3, <2>2
<1> HIDE DEF f
<1>5. Farewells(S, srv') /\ Settled(srv') /\ srv'.told = f
  BY <1>1, <1>2, <1>4, ToldKeeps
<1> QED BY <1>2, <1>4, <1>5, SameMapFarewells, FarewellsTransitive DEF SameMap

\* The registry after a step is settled for the terminals that are still known.
LEMMA SettledAfter ==
  ASSUME alive' = alive, Settled(srv')
  PROVE  Settled(srv)'
  BY DEF Settled, Unlocked

LEMMA ServerStepKeeps ==
  ASSUME StepInv,
         \/ \E t \in Terminals : PaneDied(t) \/ PaneClosed(t)
         \/ Broadcast \/ SendToForeground \/ Render
         \/ HandoffStarts \/ (\E success \in BOOLEAN : HandoffEnds(success))
         \/ Loop
  PROVE  Announced /\ SettledInv' /\ HandoffInv' /\ ToldInv'
<1>1. /\ Rest /\ Good(srv) /\ alive \subseteq Terminals
      /\ SettledInv /\ HandoffInv /\ ToldInv
  BY DEF StepInv, IInv, Rest
<1> USE DEF Idle
<1>2. ASSUME NEW t \in Terminals, PaneDied(t) \/ PaneClosed(t)
      PROVE  Announced /\ SettledInv' /\ HandoffInv' /\ ToldInv'
  <2>1. /\ srv' = srv /\ dirty' = TRUE /\ why = "idle" /\ why' \in {"idle", "exited"}
        /\ handoff' = handoff
    BY <1>2 DEF PaneDied, PaneClosed, StartLoop
  <2> QED BY <1>1, <2>1 DEF Announced, SettledInv, HandoffInv, ToldInv, Present
<1>3. CASE Broadcast
  <2>1. /\ UNCHANGED <<srv, dirty, alive, handoff>> /\ why = "idle" /\ why' \in {"idle", "broken"}
        /\ todo' = {c \in Clients : srv.writer[c] = "dead"}
    BY <1>3 DEF Broadcast, StartLoop
  <2>2. \A c \in todo' : Parted(srv', c)
    BY <2>1 DEF Parted
  <2>3. Settled(srv)' <=> Settled(srv)
    BY <2>1 DEF Settled, Unlocked
  <2> QED BY <1>1, <2>1, <2>2, <2>3 DEF Announced, SettledInv, HandoffInv, ToldInv, Present, Parted
<1>4. CASE SendToForeground
  <2>1. /\ srv' = Send(srv, srv.fg) /\ srv.fg # NoClient /\ why = "idle"
        /\ UNCHANGED <<alive, dirty, why, handoff>>
    BY <1>4 DEF SendToForeground
  <2>2. srv.fg \in Clients
    BY <1>1, <2>1 DEF Good, Core, Shape, Registry
  <2>3. Farewells(srv, srv') /\ (Settled(srv) => Settled(srv'))
    BY <1>1, <2>1, <2>2, SendKeeps
  <2>4. Present(srv') \subseteq Present(srv)
    BY <2>3 DEF Present, Farewells
  <2> QED BY <1>1, <2>1, <2>3, <2>4, FarewellsAnnounce, SettledAfter
          DEF SettledInv, HandoffInv, ToldInv, Present
<1>5. CASE Render
  <2>1. /\ why = "idle" /\ UNCHANGED <<alive, handoff>>
        /\ \E broken \in SUBSET {c \in RenderTargets : srv.writer[c] = "dead"} :
             StartLoop(Gone \cup broken, "broken")
    BY <1>5 DEF Render
  <2>2. /\ Farewells(srv, srv') /\ Settled(srv')
        /\ \A c \in Gone : srv.writer[c] = "live" => srv'.told[c]
    BY <1>1, <1>5, RenderKeeps
  <2>3. Present(srv') \subseteq Present(srv)
    BY <2>2 DEF Present, Farewells
  <2>4. why' \in {"idle", "broken"}
    BY <2>1 DEF StartLoop
  <2>5. ASSUME NEW c \in todo' PROVE Parted(srv', c)
    <3>1. c \in Clients /\ (c \in Gone \/ srv.writer[c] = "dead")
      BY <2>1, <2>5 DEF StartLoop, Gone, RenderTargets
    <3>2. srv.writer[c] = "live" => srv'.told[c]
      BY <2>2, <3>1
    <3> QED BY <2>2, <3>1, <3>2 DEF Farewells, Parted
  <2> QED BY <1>1, <2>1, <2>2, <2>3, <2>4, <2>5, FarewellsAnnounce, SettledAfter
          DEF SettledInv, HandoffInv, ToldInv, Present, Parted
<1>6. CASE HandoffStarts
  BY <1>6 DEF HandoffStarts, Announced, SettledInv, HandoffInv, ToldInv, Present
<1>7. ASSUME NEW success \in BOOLEAN, HandoffEnds(success)
      PROVE  Announced /\ SettledInv' /\ HandoffInv' /\ ToldInv'
  <2> DEFINE F == Foreground(srv, NoClient)
  <2>1. /\ srv' = SharedResize(F) /\ dirty' = TRUE /\ why = "handoff" /\ why' = "idle" /\ todo = {}
    BY <1>7 DEF HandoffEnds
  <2>2. Good(F) /\ SameMap(srv, F)
    BY <1>1, ForegroundSame, SameMapCore DEF Good, Core, Shape
  <2> HIDE DEF F
  <2>3. srv'.mode = srv.mode
    BY <1>1, <2>1, <2>2, SharedResizeGood DEF SameMap
  <2> QED BY <1>1, <2>1, <2>3 DEF Announced, SettledInv, HandoffInv, ToldInv, Present
<1>8. ASSUME NEW c \in Clients, Reap(c)
      PROVE  Announced /\ SettledInv' /\ HandoffInv' /\ ToldInv'
  <2>1. /\ c \in todo /\ why \in {"broken", "exited"} /\ UNCHANGED <<alive, dirty, handoff>>
        /\ srv' = IF why = "exited" THEN TellAndRemove(srv, c) ELSE RemoveAndResize(srv, c)
        /\ todo' = todo \ {c} /\ why' \in {"idle", why}
    BY <1>8 DEF Reap, StartLoop
  <2>2. why = "broken" => Parted(srv, c)
    BY <1>1, <2>1 DEF ToldInv
  <2>3. Farewells(srv, srv') /\ (Settled(srv) => Settled(srv'))
    BY <1>1, <2>1, <2>2, TellAndRemoveKeeps, RemoveAndResizeKeeps
  <2>4. Present(srv') \subseteq Present(srv)
    BY <2>3 DEF Present, Farewells
  <2>5. why = "broken" => \A d \in todo' : Parted(srv', d)
    <3> SUFFICES ASSUME why = "broken", NEW d \in todo' PROVE Parted(srv', d)
      OBVIOUS
    <3>1. d \in Clients /\ Parted(srv, d)
      BY <1>1, <2>1 DEF ToldInv, Rest
    <3> QED BY <2>3, <3>1 DEF Farewells, Parted
  <2> QED BY <1>1, <2>1, <2>3, <2>4, <2>5, FarewellsAnnounce, SettledAfter
          DEF SettledInv, HandoffInv, ToldInv, Present, Parted
<1>9. ASSUME NEW c \in Clients, HandoffDrops(c)
      PROVE  Announced /\ SettledInv' /\ HandoffInv' /\ ToldInv'
  <2>1. /\ why = "handoff" /\ why' = "handoff" /\ handoff' = handoff /\ todo' = todo \ {c}
    BY <1>9 DEF HandoffDrops
  <2>2. Announced /\ OnlyClient(srv, srv', c) /\ srv'.mode[c] = "absent"
    BY <1>1, <1>9, HandoffDropsKeeps
  <2>3. Present(srv') \subseteq Present(srv) \ {c}
    BY <2>2 DEF Present, OnlyClient
  <2> QED BY <1>1, <2>1, <2>2, <2>3 DEF SettledInv, HandoffInv, ToldInv, Present
<1> QED BY <1>2, <1>3, <1>4, <1>5, <1>6, <1>7, <1>8, <1>9 DEF Loop

-----------------------------------------------------------------------------
(* The invariants under client events. *)

\* Once the map is empty for good, no event fills it.
LEMMA EventAfterHandoff ==
  ASSUME StepInv, NEW c \in Clients, ClientEvent(c)
  PROVE  HandoffInv'
<1>1. /\ Rest /\ Good(srv) /\ alive \subseteq Terminals /\ HandoffInv
  BY DEF StepInv, IInv, Rest
<1>2. UNCHANGED <<todo, why, handoff>>
  BY DEF ClientEvent, Resize, Connected, Observe, Attach, Input, DetachKey, Detach,
         IgnoredAfterHandoff, Disconnected, WriterDies, Event
<1>3. CASE WriterDies(c)
  <2>1. srv'.mode = srv.mode
    BY <1>1, <1>3 DEF WriterDies, Good, Core, Shape, Registry
  <2> QED BY <1>1, <1>2, <2>1 DEF HandoffInv, Present
<1>4. CASE ~WriterDies(c)
  <2>1. why = "idle"
    BY <1>4 DEF ClientEvent, Resize, Connected, Observe, Attach, Input, DetachKey, Detach,
         IgnoredAfterHandoff, Disconnected, Event, Arrives, Idle
  <2>2. CASE ~handoff
    BY <1>2, <2>1, <2>2 DEF HandoffInv
  <2>3. CASE handoff
    <3>1. \/ \E s \in Sizes, direct \in BOOLEAN : Connected(c, s, direct)
          \/ IgnoredAfterHandoff(c) \/ Disconnected(c)
      BY <1>4, <2>3 DEF ClientEvent, Resize, Observe, Attach, Input, DetachKey, Detach
    <3>2. Present(srv') \subseteq Present(srv)
      <4>1. CASE \E s \in Sizes, direct \in BOOLEAN : Connected(c, s, direct)
        <5>1. srv' = [srv EXCEPT !.told[c] = TRUE]
          BY <2>3, <4>1 DEF Connected, Refuses
        <5>2. srv'.mode = srv.mode
          BY <1>1, <5>1 DEF Good, Core, Shape, Registry
        <5> QED BY <5>2 DEF Present
      <4>2. CASE IgnoredAfterHandoff(c)
        BY <4>2 DEF IgnoredAfterHandoff
      <4>3. CASE Disconnected(c)
        <5>1. srv' = RemoveAndResize(srv, c)
          BY <4>3 DEF Disconnected
        <5>2. OnlyClient(srv, srv', c) /\ srv'.mode[c] = "absent"
          BY <1>1, <5>1, RemoveAndResizeGood
        <5> QED BY <5>2 DEF Present, OnlyClient
      <4> QED BY <3>1, <4>1, <4>2, <4>3
    <3> QED BY <1>1, <1>2, <2>1, <3>2 DEF HandoffInv, Present
  <2> QED BY <2>2, <2>3
<1> QED BY <1>3, <1>4

LEMMA EventInvariants ==
  ASSUME StepInv, NEW c \in Clients, ClientEvent(c)
  PROVE  Announced /\ SettledInv' /\ HandoffInv' /\ ToldInv'
<1>1. /\ Rest /\ Good(srv) /\ SettledInv /\ ToldInv
  BY DEF StepInv, IInv
<1>2. UNCHANGED <<alive, todo, why>>
  BY DEF ClientEvent, Resize, Connected, Observe, Attach, Input, DetachKey, Detach,
         IgnoredAfterHandoff, Disconnected, WriterDies, Event
<1>3. Announced /\ Lays
  BY ClientEventKeeps DEF StepInv
<1>4. SettledInv'
  BY <1>1, <1>2, <1>3, SettledAfter DEF SettledInv, Lays
<1>5. ToldInv'
  <2>1. CASE WriterDies(c)
    <3>1. /\ srv'.mode = srv.mode /\ srv'.told = srv.told
          /\ srv'.writer = [srv.writer EXCEPT ![c] = "dead"]
          /\ srv.writer \in [Clients -> {"live", "dead", "none"}]
      BY <1>1, <2>1 DEF WriterDies, Good, Core, Shape, Registry
    <3> QED BY <1>1, <1>2, <3>1 DEF ToldInv, Parted, Rest
  <2>2. CASE ~WriterDies(c)
    <3>1. why' = "idle"
      BY <1>2, <2>2 DEF ClientEvent, Resize, Connected, Observe, Attach, Input, DetachKey, Detach,
         IgnoredAfterHandoff, Disconnected, Event, Arrives, Idle
    <3> QED BY <3>1 DEF ToldInv
  <2> QED BY <2>1, <2>2
<1> QED BY <1>3, <1>4, <1>5, EventAfterHandoff

LEMMA InitStep == Init => StepInv
<1> SUFFICES ASSUME Init PROVE StepInv
  OBVIOUS
<1>1. dirty = TRUE /\ why = "idle" /\ handoff = FALSE
  BY DEF Init
<1> QED BY <1>1, InitSound DEF StepInv, SettledInv, HandoffInv, ToldInv

LEMMA StepKeeps ==
  ASSUME StepInv, [Next]_vars
  PROVE  StepInv' /\ (Announced \/ UNCHANGED vars)
<1>1. IInv'
  BY NextSound DEF StepInv
<1>2. CASE UNCHANGED vars
  BY <1>1, <1>2 DEF vars, StepInv, SettledInv, HandoffInv, ToldInv, Settled, Unlocked, Parted,
                    Present
<1>3. CASE \E c \in Clients : ClientEvent(c)
  BY <1>1, <1>3, EventInvariants DEF StepInv
<1>4. CASE \/ \E t \in Terminals : PaneDied(t) \/ PaneClosed(t)
           \/ Broadcast \/ SendToForeground \/ Render
           \/ HandoffStarts \/ (\E success \in BOOLEAN : HandoffEnds(success))
           \/ Loop
  BY <1>1, <1>4, ServerStepKeeps DEF StepInv
<1> QED BY <1>2, <1>3, <1>4 DEF Next

LEMMA StepInvariance == Spec => []StepInv
  BY InitStep, StepKeeps, PTL DEF Spec

-----------------------------------------------------------------------------
(* The theorems. *)

\* What is not to be rendered anew is laid out for the foreground: no release of a terminal,
\* removal or promotion leaves a pane with a size nobody has
\* (remove_client_and_resize_if_needed, resize_shared_runtime_to_effective_size).
THEOREM LayoutSettles == Spec => []LayoutSettled
<1>1. StepInv => LayoutSettled
  BY DEF StepInv, SettledInv, Settled, LayoutSettled, Idle
<1> QED BY <1>1, StepInvariance, PTL

\* A server that has handed over has no client, and takes none (handoff_in_progress).
THEOREM HandedOverIsEmpty == Spec => []NoClientAfterHandoff
<1>1. StepInv => NoClientAfterHandoff
  BY DEF StepInv, HandoffInv, NoClientAfterHandoff, Idle
<1> QED BY <1>1, StepInvariance, PTL

\* Every client the server removes on its own account is told, in the middle of any loop
\* (send_to_client, render_and_stream, handle_internal_event_with_forwarding).
THEOREM RemovalsAnnounced == Spec => NoSilentRemoval
<1>1. StepInv /\ [Next]_vars => [Announced]_vars
  BY StepKeeps
<1>2. Announced => \A c \in Clients :
       (/\ srv.mode[c] # "absent" /\ srv'.mode[c] = "absent"
        /\ srv.writer[c] = "live" /\ link'[c] = "open"
        /\ ~Detach(c))
       => srv'.told[c]
  BY DEF Announced
<1> QED BY <1>1, <1>2, StepInvariance, PTL DEF Spec, NoSilentRemoval

-----------------------------------------------------------------------------
(* The order of activity.  That every set of present clients has a newest one is itself     *)
(* invariant: a touched client becomes the newest of every set it is in.                     *)

Ranked(S) == \A A \in SUBSET Present(S) : A # {} => \E c \in A : A \ {c} \subseteq S.older[c]

Led(S) ==
  /\ Apps(S) = {} => S.fg = NoClient
  /\ Apps(S) # {} => S.fg \in Apps(S) /\ Apps(S) \ {S.fg} \subseteq S.older[S.fg]

Ordered(S) == Ranked(S) /\ Led(S)

SameOrder(S, R) == R.mode = S.mode /\ R.older = S.older /\ R.fg = S.fg

LEMMA SameOrdered ==
  ASSUME NEW S, NEW R, SameOrder(S, R), Ordered(S)
  PROVE  Ordered(R)
  BY DEF SameOrder, Ordered, Ranked, Led, Present, Apps

\* A touched client is the newest of all, the others keep their order.
LEMMA TouchRanks ==
  ASSUME NEW S, NEW c \in Clients, S \in Registry,
         \A A \in SUBSET (Present(S) \ {c}) : A # {} => \E d \in A : A \ {d} \subseteq S.older[d]
  PROVE  /\ Ranked(Touch(S, c))
         /\ Touch(S, c).mode = S.mode /\ Touch(S, c).fg = S.fg
         /\ Touch(S, c).older[c] = Clients \ {c}
         /\ \A d \in Clients \ {c} : Touch(S, c).older[d] = S.older[d] \ {c}
<1> DEFINE T == Touch(S, c)
<1>1. /\ T.mode = S.mode /\ T.fg = S.fg
      /\ T.older = [d \in Clients |-> IF d = c THEN Clients \ {c} ELSE S.older[d] \ {c}]
  BY DEF Touch, Registry
<1> HIDE DEF T
<1>2. Ranked(T)
  <2> SUFFICES ASSUME NEW A \in SUBSET Present(T), A # {}
               PROVE  \E d \in A : A \ {d} \subseteq T.older[d]
    BY DEF Ranked
  <2>1. A \subseteq Clients /\ A \subseteq Present(S)
    BY <1>1 DEF Present
  <2>2. CASE c \in A
    BY <1>1, <2>1, <2>2
  <2>3. CASE c \notin A
    <3>1. A \in SUBSET (Present(S) \ {c})
      BY <2>1, <2>3
    <3>2. PICK d \in A : A \ {d} \subseteq S.older[d]
      BY <3>1
    <3>3. A \ {d} \subseteq T.older[d]
      BY <1>1, <2>1, <2>3, <3>2
    <3> QED BY <3>3
  <2> QED BY <2>2, <2>3
<1> QED BY <1>1, <1>2 DEF T

\* With the newest app client in the foreground.
LEMMA PromoteLatestOrders ==
  ASSUME NEW S, S \in Registry, Ranked(S)
  PROVE  Ordered(PromoteLatest(S))
<1> DEFINE R == PromoteLatest(S)
<1>1. R = Foreground(S, Latest(S))
  BY DEF PromoteLatest
<1>2. CASE Apps(S) = {}
  <2>1. Latest(S) = NoClient
    BY <1>2 DEF Latest, Newest, Candidates
  <2>2. R.mode = S.mode /\ R.older = S.older /\ R.fg = NoClient
    BY <1>1, <2>1, ConstantsAssumption DEF Foreground, Present, Registry
  <2> HIDE DEF R
  <2>3. Ordered(R)
    BY <1>2, <2>2 DEF Ordered, Ranked, Led, Present, Apps
  <2> QED BY <2>3 DEF R
<1>3. CASE Apps(S) # {}
  <2>1. Apps(S) \in SUBSET Present(S)
    BY DEF Apps, Present
  <2>2. \E c \in Clients : Newest(S, c)
    BY <1>3, <2>1 DEF Ranked, Newest, Candidates, Apps
  <2>3. Newest(S, Latest(S)) /\ Latest(S) \in Clients
    BY <2>2 DEF Latest
  <2>4. Latest(S) \in Apps(S) /\ Apps(S) \ {Latest(S)} \subseteq S.older[Latest(S)]
    BY <2>3 DEF Newest, Candidates
  <2>5. R.mode = S.mode /\ R.older = S.older /\ R.fg = Latest(S)
    BY <1>1, <2>1, <2>4 DEF Foreground, Registry
  <2> HIDE DEF R
  <2>6. Ordered(R)
    BY <2>4, <2>5 DEF Ordered, Ranked, Led, Present, Apps
  <2> QED BY <2>6 DEF R
<1> QED BY <1>2, <1>3

\* Removing a client leaves the order of the others, and the newest in the foreground.
LEMMA RemoveOrders ==
  ASSUME NEW S, NEW c \in Clients, Good(S), Ordered(S), alive \subseteq Terminals
  PROVE  Ordered(Remove(S, c))
<1> DEFINE D == Drop(S, c)
<1>1. /\ D \in Registry /\ D.fg = S.fg /\ D.mode[c] = "absent"
      /\ \A d \in Clients \ {c} : D.mode[d] = S.mode[d]
  BY DropCore DEF Good, Core, Shape, OnlyClient
<1>2. D.older = S.older
  BY DEF Drop, Unmap, Good, Core, Shape, Registry
<1>3. Remove(S, c) = IF D.fg = c THEN PromoteLatest(D) ELSE D
  BY DEF Remove, AfterDrop
<1> HIDE DEF D
<1>4. Present(D) \subseteq Present(S) /\ Apps(D) = Apps(S) \ {c}
  BY <1>1 DEF Present, Apps
<1>5. Ranked(D)
  BY <1>2, <1>4 DEF Ordered, Ranked
<1>6. CASE D.fg = c
  BY <1>1, <1>3, <1>5, <1>6, PromoteLatestOrders
<1>7. CASE D.fg # c
  <2>1. Led(D)
    BY <1>1, <1>2, <1>4, <1>7 DEF Ordered, Led
  <2> QED BY <1>3, <1>5, <1>7, <2>1 DEF Ordered
<1> QED BY <1>6, <1>7

LEMMA SharedResizeOrders ==
  ASSUME NEW S, S \in Registry, Ordered(S)
  PROVE  Ordered(SharedResize(S))
<1>1. SameOrder(S, SharedResize(S))
  BY DEF SharedResize, LayOut, SameOrder, Registry
<1> QED BY <1>1, SameOrdered

LEMMA RemoveAndResizeOrders ==
  ASSUME NEW S, NEW c \in Clients, Good(S), Ordered(S), alive \subseteq Terminals
  PROVE  Ordered(RemoveAndResize(S, c))
<1>1. Good(Remove(S, c)) /\ Ordered(Remove(S, c))
  BY RemoveGood, RemoveOrders
<1>2. Remove(S, c) \in Registry
  BY <1>1 DEF Good, Core, Shape
<1> QED BY <1>1, <1>2, SharedResizeOrders DEF RemoveAndResize

LEMMA SendOrders ==
  ASSUME NEW S, NEW c \in Clients, Good(S), Ordered(S), alive \subseteq Terminals
  PROVE  Ordered(Send(S, c))
  BY RemoveAndResizeOrders DEF Send

LEMMA TellOrders ==
  ASSUME NEW S, NEW c \in Clients, Good(S), Ordered(S), alive \subseteq Terminals
  PROVE  Ordered(Tell(S, c))
<1> DEFINE R == [S EXCEPT !.told = Told(S, c)]
<1>1. Good(R)
  BY ToldGood, ToldType
<1>2. SameOrder(S, R)
  BY DEF SameOrder, Good, Core, Shape, Registry
<1>3. Tell(S, c) = Send(R, c)
  BY DEF Tell
<1> HIDE DEF R
<1> QED BY <1>1, <1>2, <1>3, SameOrdered, SendOrders

LEMMA TellAndRemoveOrders ==
  ASSUME NEW S, NEW c \in Clients, Good(S), Ordered(S), alive \subseteq Terminals
  PROVE  Ordered(TellAndRemove(S, c))
  BY TellGood, TellOrders, RemoveAndResizeOrders DEF TellAndRemove

LEMMA PromoteOrders ==
  ASSUME NEW S, NEW c \in Apps(S), S \in Registry, Ranked(S)
  PROVE  /\ Ordered(Promote(S, c)) /\ Promote(S, c) \in Registry
         /\ Promote(S, c).mode = S.mode
<1> DEFINE T == Touch(S, c)
           P == Promote(S, c)
<1>1. c \in Clients /\ c \in Present(S)
  BY DEF Apps, Present
<1>2. /\ Ranked(T) /\ T.mode = S.mode /\ T.older[c] = Clients \ {c}
  BY <1>1, TouchRanks DEF Ranked
<1>3. T \in Registry
  BY <1>1, TouchSame
<1>4. P = Foreground(T, c) /\ c \in Present(T)
  BY <1>1, <1>2 DEF Promote, Present
<1> HIDE DEF T
<1>5. P \in Registry
  BY <1>3, <1>4, ForegroundSame
<1>6. P.mode = S.mode /\ P.older = T.older /\ P.fg = c
  BY <1>2, <1>3, <1>4 DEF Foreground, Registry
<1> HIDE DEF P
<1>7. Ordered(P)
  <2>1. Ranked(P)
    BY <1>2, <1>6 DEF Ranked, Present
  <2>2. Led(P)
    BY <1>2, <1>6 DEF Led, Apps
  <2> QED BY <2>1, <2>2 DEF Ordered
<1> QED BY <1>5, <1>6, <1>7 DEF P

LEMMA JoinOrders ==
  ASSUME NEW S, NEW c \in Clients, NEW s \in Sizes, NEW direct \in BOOLEAN,
         Good(S), Ordered(S), S.mode[c] = "absent"
  PROVE  Ordered(Join(S, c, s, direct))
<1> DEFINE m == IF direct THEN "pending" ELSE "app"
           N == [S EXCEPT !.mode[c] = m, !.size[c] = s, !.writer[c] = "live"]
           T == Touch(N, c)
           f == IF direct THEN T.fg ELSE c
           F == Foreground(T, f)
<1>1. Join(S, c, s, direct) = SharedResize(F)
  BY DEF Join
<1>2. m \in {"pending", "app"} /\ (m = "app" <=> ~direct)
  OBVIOUS
<1> HIDE DEF m
<1>3. /\ N \in Registry /\ N.mode = [S.mode EXCEPT ![c] = m]
      /\ N.older = S.older /\ N.fg = S.fg /\ S.mode \in [Clients -> Modes]
  BY <1>2 DEF Good, Core, Shape, Registry, Modes
<1> HIDE DEF N
<1>4. Present(N) \ {c} \subseteq Present(S)
  BY <1>3 DEF Present
<1>5. \A A \in SUBSET (Present(N) \ {c}) : A # {} => \E d \in A : A \ {d} \subseteq N.older[d]
  BY <1>3, <1>4 DEF Ordered, Ranked
<1>6. /\ Ranked(T) /\ T.mode = N.mode /\ T.fg = S.fg
      /\ T.older[c] = Clients \ {c}
      /\ \A d \in Clients \ {c} : T.older[d] = S.older[d] \ {c}
  BY <1>3, <1>5, TouchRanks
<1>7. T \in Registry
  BY <1>3, TouchSame
<1> HIDE DEF T
<1>8. Ordered(F)
  <2>1. CASE direct
    <3>1. Apps(T) = Apps(S) /\ c \notin Apps(S)
      BY <1>2, <1>3, <1>6, <2>1 DEF Apps
    <3>2. f = S.fg
      BY <1>6, <2>1
    <3> HIDE DEF f
    <3>3. S.fg = NoClient \/ S.fg \in Present(T)
      BY <3>1 DEF Good, Front, Apps, Present
    <3>4. F.mode = T.mode /\ F.older = T.older /\ F.fg = S.fg
      BY <1>7, <3>2, <3>3 DEF Foreground, Registry
    <3> HIDE DEF F
    <3>5. Ranked(F) /\ Apps(F) = Apps(S)
      BY <1>6, <3>1, <3>4 DEF Ranked, Present, Apps
    <3>6. Led(F)
      <4>1. CASE Apps(S) = {}
        BY <3>4, <3>5, <4>1 DEF Ordered, Led
      <4>2. CASE Apps(S) # {}
        <5>1. S.fg \in Apps(S) /\ Apps(S) \ {S.fg} \subseteq S.older[S.fg] /\ S.fg # c
          BY <3>1, <4>2 DEF Ordered, Led
        <5>2. S.fg \in Clients
          BY <5>1 DEF Apps
        <5> QED BY <1>6, <3>1, <3>4, <3>5, <5>1, <5>2 DEF Led
      <4> QED BY <4>1, <4>2
    <3> QED BY <3>5, <3>6 DEF Ordered
  <2>2. CASE ~direct
    <3>1. f = c
      BY <2>2
    <3> HIDE DEF f
    <3>2. c \in Apps(T) /\ c \in Present(T)
      BY <1>2, <1>3, <1>6, <2>2 DEF Apps, Present
    <3>3. F.mode = T.mode /\ F.older = T.older /\ F.fg = c
      BY <1>7, <3>1, <3>2 DEF Foreground, Registry
    <3> HIDE DEF F
    <3>4. Ranked(F) /\ Apps(F) = Apps(T) /\ Apps(T) \subseteq Clients
      BY <1>6, <3>3 DEF Ranked, Present, Apps
    <3> QED BY <1>6, <3>2, <3>3, <3>4 DEF Led, Ordered
  <2> QED BY <2>1, <2>2
<1>9. F \in Registry
  BY <1>7, ForegroundSame
<1> HIDE DEF F
<1> QED BY <1>1, <1>8, <1>9, SharedResizeOrders

\* A pending client that enters its terminal becomes newer than the app clients, and is none.
LEMMA EnterOrders ==
  ASSUME NEW S, NEW c \in Clients, NEW mode \in Streams, NEW t \in Terminals,
         Good(S), Ordered(S), S.mode[c] = "pending"
  PROVE  Ordered(Enter(S, c, mode, t))
<1> DEFINE N == [S EXCEPT !.mode[c] = mode, !.term[c] = t]
           T == Touch(N, c)
<1>1. S.fg # c
  BY ConstantsAssumption DEF Good, Front, Apps
<1>2. /\ N \in Registry /\ N.mode = [S.mode EXCEPT ![c] = mode]
      /\ N.older = S.older /\ N.fg = S.fg /\ S.mode \in [Clients -> Modes]
  BY DEF Good, Core, Shape, Registry, Modes, Streams
<1>3. Enter(S, c, mode, t) = IF T.fg = c THEN PromoteLatest(T) ELSE T
  BY DEF Enter
<1> HIDE DEF N
<1>4. Present(N) = Present(S) /\ Apps(N) = Apps(S) /\ c \notin Apps(S)
  BY <1>2 DEF Present, Apps, Streams
<1>5. \A A \in SUBSET (Present(N) \ {c}) : A # {} => \E d \in A : A \ {d} \subseteq N.older[d]
  BY <1>2, <1>4 DEF Ordered, Ranked
<1>6. /\ Ranked(T) /\ T.mode = N.mode /\ T.fg = S.fg
      /\ \A d \in Clients \ {c} : T.older[d] = S.older[d] \ {c}
  BY <1>2, <1>5, TouchRanks
<1> HIDE DEF T
<1>7. Apps(T) = Apps(S)
  BY <1>4, <1>6 DEF Apps
<1>8. Led(T)
  <2>1. CASE Apps(S) = {}
    BY <1>6, <1>7, <2>1 DEF Ordered, Led
  <2>2. CASE Apps(S) # {}
    <3>1. S.fg \in Apps(S) /\ Apps(S) \ {S.fg} \subseteq S.older[S.fg] /\ S.fg \in Clients
      BY <2>2 DEF Ordered, Led, Apps
    <3> QED BY <1>1, <1>4, <1>6, <1>7, <3>1 DEF Led
  <2> QED BY <2>1, <2>2
<1> QED BY <1>1, <1>3, <1>6, <1>8 DEF Ordered

LEMMA AttachOrders ==
  ASSUME NEW S, NEW c \in Clients, NEW t \in alive, alive \subseteq Terminals,
         Good(S), Ordered(S), S.mode[c] = "pending"
  PROVE  Ordered(Own(Enter(Evict(S, S.owner[t]), c, "attach", t), c, t))
<1> DEFINE o == S.owner[t]
           V == Evict(S, o)
           E == Enter(V, c, "attach", t)
<1>1. o \in Clients \cup {NoClient} /\ t \in Terminals /\ "attach" \in Streams
  BY DEF Good, Core, Shape, Registry, Streams
<1>2. Good(V) /\ V.mode[c] = "pending" /\ Ordered(V)
  <2>1. CASE o = NoClient
    BY <2>1 DEF Evict
  <2>2. CASE o \in Clients
    <3>1. S.mode[o] = "attach"
      BY <1>1, <2>2 DEF Good, Core, Owned
    <3>2. V = TellAndRemove(S, o)
      BY <2>2, ConstantsAssumption DEF Evict
    <3> HIDE DEF o, V
    <3> QED BY <2>2, <3>1, <3>2, TellAndRemoveGood, TellAndRemoveOrders DEF OnlyClient
  <2> QED BY <1>1, <2>1, <2>2
<1> HIDE DEF V, o
<1>3. Ordered(E) /\ E \in Registry
  BY <1>1, <1>2, EnterOrders, EnterTerm
<1> HIDE DEF E
<1>4. SameOrder(E, Own(E, c, t))
  BY <1>3 DEF Own, SameOrder, Registry
<1>5. Ordered(Own(E, c, t))
  BY <1>3, <1>4, SameOrdered
<1> QED BY <1>5 DEF E, V, o

LEMMA ResizeOrders ==
  ASSUME NEW c \in Clients, NEW s \in Sizes, Resize(c, s), Good(srv), Ordered(srv)
  PROVE  Ordered(srv')
<1> DEFINE S == IF c \in Present(srv) THEN [srv EXCEPT !.size[c] = s] ELSE srv
<1>1. /\ srv.mode[c] # "pending"
      /\ srv' = CASE S.mode[c] = "attach"  -> OwnPty(S, c)
                  [] S.mode[c] = "observe" -> S
                  [] OTHER                 -> SharedResize(Promote(S, c))
  BY DEF Resize
<1>2. /\ S \in Registry /\ SameOrder(srv, S)
      /\ srv.mode[c] \in Modes
  BY DEF Good, Core, Shape, Registry, SameOrder
<1> HIDE DEF S
<1>3. Ordered(S)
  BY <1>2, SameOrdered
<1>4. Ordered(OwnPty(S, c))
  <2>1. SameOrder(S, OwnPty(S, c))
    BY <1>2 DEF OwnPty, Registry, SameOrder
  <2> QED BY <1>3, <2>1, SameOrdered
<1>5. S.mode[c] \notin {"attach", "observe"} => Ordered(SharedResize(Promote(S, c)))
  <2> SUFFICES ASSUME S.mode[c] \notin {"attach", "observe"}
               PROVE  Ordered(SharedResize(Promote(S, c)))
    OBVIOUS
  <2>1. S.mode[c] \in {"absent", "app"}
    BY <1>1, <1>2 DEF SameOrder, Modes
  <2>2. Ordered(Promote(S, c)) /\ Promote(S, c) \in Registry
    <3>1. CASE S.mode[c] = "absent"
      BY <1>2, <1>3, <3>1 DEF Promote, Present
    <3>2. CASE S.mode[c] = "app"
      BY <1>2, <1>3, <3>2, PromoteOrders DEF Apps, Ordered
    <3> QED BY <2>1, <3>1, <3>2
  <2> QED BY <2>2, SharedResizeOrders
<1> QED BY <1>1, <1>3, <1>4, <1>5

LEMMA ClientEventOrders ==
  ASSUME IInv, Ordered(srv), NEW c \in Clients, ClientEvent(c)
  PROVE  Ordered(srv')
<1>1. /\ Good(srv) /\ Fresh /\ alive \subseteq Terminals /\ srv \in Registry
  BY DEF IInv, Rest, Good, Core, Shape
<1>2. ASSUME NEW s \in Sizes, Resize(c, s) PROVE Ordered(srv')
  BY <1>1, <1>2, ResizeOrders
<1>3. ASSUME NEW s \in Sizes, NEW direct \in BOOLEAN, Connected(c, s, direct)
      PROVE  Ordered(srv')
  <2>1. srv.mode[c] = "absent"
    BY <1>1, <1>3 DEF Connected, Fresh
  <2>2. CASE Refuses
    <3>1. srv' = [srv EXCEPT !.told[c] = TRUE]
      BY <1>3, <2>2 DEF Connected
    <3>2. SameOrder(srv, srv')
      BY <1>1, <3>1 DEF SameOrder, Registry
    <3> QED BY <3>2, SameOrdered
  <2>3. CASE ~Refuses
    BY <1>1, <1>3, <2>1, <2>3, JoinOrders DEF Connected
  <2> QED BY <2>2, <2>3
<1>4. ASSUME NEW t \in Terminals, Observe(c, t) PROVE Ordered(srv')
  <2>1. CASE srv.mode[c] # "pending" \/ t \notin alive
    BY <1>1, <1>4, <2>1, TellAndRemoveOrders DEF Observe
  <2>2. CASE srv.mode[c] = "pending" /\ t \in alive
    <3>1. srv' = Enter(srv, c, "observe", t) /\ "observe" \in Streams
      BY <1>4, <2>2 DEF Observe, Streams
    <3> QED BY <1>1, <2>2, <3>1, EnterOrders
  <2> QED BY <2>1, <2>2
<1>5. ASSUME NEW t \in Terminals, NEW takeover \in BOOLEAN, Attach(c, t, takeover)
      PROVE  Ordered(srv')
  <2>1. CASE srv' = TellAndRemove(srv, c)
    BY <1>1, <2>1, TellAndRemoveOrders
  <2>2. CASE srv' # TellAndRemove(srv, c)
    <3>1. /\ srv.mode[c] = "pending" /\ t \in alive
          /\ srv' = Own(Enter(Evict(srv, srv.owner[t]), c, "attach", t), c, t)
      BY <1>5, <2>2 DEF Attach
    <3> QED BY <1>1, <3>1, AttachOrders
  <2> QED BY <2>1, <2>2
<1>6. CASE Input(c)
  <2>1. CASE srv.mode[c] # "app"
    BY <1>6, <2>1 DEF Input
  <2>2. CASE srv.mode[c] = "app"
    <3>1. srv' \in {Promote(srv, c), SharedResize(Promote(srv, c))} /\ c \in Apps(srv)
      BY <1>6, <2>2 DEF Input, Apps
    <3> QED BY <1>1, <3>1, PromoteOrders, SharedResizeOrders DEF Ordered
  <2> QED BY <2>1, <2>2
<1>7. CASE DetachKey(c)
  <2> DEFINE P == Promote(srv, c)
             R == IF P.fg # srv.fg THEN SharedResize(P) ELSE P
             S == Tell(R, c)
             W == [S EXCEPT !.writer[c] = "none"]
  <2>1. c \in Apps(srv) /\ srv' = IF c \in Present(S) THEN W ELSE S
    BY <1>7 DEF DetachKey, Apps
  <2>2. Good(R)
    BY <1>1, <2>1, PromoteKeeps
  <2>3. Ordered(P) /\ P \in Registry
    BY <1>1, <2>1, PromoteOrders DEF Ordered
  <2> HIDE DEF P
  <2>4. Ordered(R)
    BY <2>3, SharedResizeOrders
  <2> HIDE DEF R
  <2>5. Good(S) /\ Ordered(S)
    BY <1>1, <2>2, <2>4, TellGood, TellOrders
  <2> HIDE DEF S
  <2>6. SameOrder(S, W)
    BY <2>5 DEF SameOrder, Good, Core, Shape, Registry
  <2> HIDE DEF W
  <2> QED BY <2>1, <2>5, <2>6, SameOrdered
<1>8. CASE Detach(c)
  <2> DEFINE S == IF srv.mode[c] \in Streams THEN Tell(srv, c) ELSE srv
  <2>1. srv' = RemoveAndResize(S, c)
    BY <1>8 DEF Detach
  <2>2. Good(S) /\ Ordered(S)
    BY <1>1, TellGood, TellOrders
  <2> HIDE DEF S
  <2> QED BY <1>1, <2>1, <2>2, RemoveAndResizeOrders
<1>9. CASE IgnoredAfterHandoff(c)
  BY <1>9 DEF IgnoredAfterHandoff
<1>10. CASE Disconnected(c)
  BY <1>1, <1>10, RemoveAndResizeOrders DEF Disconnected
<1>11. CASE WriterDies(c)
  <2>1. SameOrder(srv, srv')
    BY <1>1, <1>11 DEF WriterDies, SameOrder, Registry
  <2> QED BY <2>1, SameOrdered
<1> QED BY <1>2, <1>3, <1>4, <1>5, <1>6, <1>7, <1>8, <1>9, <1>10, <1>11 DEF ClientEvent

LEMMA ServerStepOrders ==
  ASSUME StepInv, Ordered(srv),
         \/ \E t \in Terminals : PaneDied(t) \/ PaneClosed(t)
         \/ Broadcast \/ SendToForeground \/ Render
         \/ HandoffStarts \/ (\E success \in BOOLEAN : HandoffEnds(success))
         \/ Loop
  PROVE  Ordered(srv')
<1>1. /\ Good(srv) /\ alive \subseteq Terminals /\ srv \in Registry /\ HandoffInv
  BY DEF StepInv, IInv, Rest, Good, Core, Shape
<1>2. CASE (\E t \in Terminals : PaneDied(t) \/ PaneClosed(t)) \/ Broadcast \/ HandoffStarts
  BY <1>2 DEF PaneDied, PaneClosed, Broadcast, HandoffStarts
<1>3. CASE SendToForeground
  <2>1. srv.fg \in Clients
    BY <1>1, <1>3 DEF SendToForeground, Registry
  <2> QED BY <1>1, <1>3, <2>1, SendOrders DEF SendToForeground
<1>4. CASE Render
  <2> DEFINE S == IF srv.fg \in RenderTargets \cap Apps(srv)
                    THEN LayOut(srv, srv.size[srv.fg]) ELSE srv
  <2>1. SameOrder(srv, S)
    BY <1>1 DEF LayOut, SameOrder, Registry
  <2>2. \E f : srv' = [S EXCEPT !.told = f]
    BY <1>4 DEF Render
  <2>3. S \in Registry
    <3>1. CASE srv.fg \in RenderTargets \cap Apps(srv)
      <4>1. srv.size[srv.fg] \in Sizes \cup {MinSize}
        BY <1>1, <3>1 DEF Apps, Registry
      <4>2. Core(LayOut(srv, srv.size[srv.fg]))
        BY <1>1, <4>1, LayOutGood DEF Good
      <4> QED BY <3>1, <4>2 DEF Core, Shape
    <3>2. CASE srv.fg \notin RenderTargets \cap Apps(srv)
      BY <1>1, <3>2
    <3> QED BY <3>1, <3>2
  <2> HIDE DEF S
  <2>4. SameOrder(S, srv')
    BY <2>2, <2>3 DEF SameOrder, Registry
  <2>5. SameOrder(srv, srv')
    BY <2>1, <2>4 DEF SameOrder
  <2> QED BY <2>5, SameOrdered
<1>5. ASSUME NEW success \in BOOLEAN, HandoffEnds(success) PROVE Ordered(srv')
  <2> DEFINE F == Foreground(srv, NoClient)
  <2>1. srv' = SharedResize(F) /\ Present(srv) = {}
    BY <1>1, <1>5 DEF HandoffEnds, HandoffInv
  <2>2. F \in Registry /\ F.mode = srv.mode /\ F.fg = NoClient
    BY <1>1, ConstantsAssumption, ForegroundSame DEF Foreground, Present, SameMap, Registry
  <2> HIDE DEF F
  <2>3. Present(F) = {} /\ Apps(F) = {}
    BY <2>1, <2>2 DEF Present, Apps
  <2>4. Ordered(F)
    BY <2>2, <2>3 DEF Ordered, Ranked, Led
  <2> QED BY <2>1, <2>2, <2>4, SharedResizeOrders
<1>6. ASSUME NEW c \in Clients, Reap(c) PROVE Ordered(srv')
  BY <1>1, <1>6, TellAndRemoveOrders, RemoveAndResizeOrders DEF Reap
<1>7. ASSUME NEW c \in Clients, HandoffDrops(c) PROVE Ordered(srv')
  <2> DEFINE S == Tell(srv, c)
             W == [S EXCEPT !.writer[c] = "none"]
  <2>1. srv' = Remove(W, c)
    BY <1>7 DEF HandoffDrops, Farewell
  <2>2. Good(S) /\ Ordered(S)
    BY <1>1, TellGood, TellOrders
  <2> HIDE DEF S
  <2>3. Good(W)
    BY <2>2, WriterGood
  <2>4. SameOrder(S, W)
    BY <2>2 DEF SameOrder, Good, Core, Shape, Registry
  <2> HIDE DEF W
  <2> QED BY <1>1, <2>1, <2>2, <2>3, <2>4, SameOrdered, RemoveOrders
<1> QED BY <1>2, <1>3, <1>4, <1>5, <1>6, <1>7 DEF Loop

LEMMA OrderInvariance == Spec => [](StepInv /\ Ordered(srv))
<1>1. Init => Ordered(srv)
  BY DEF Init, Ordered, Ranked, Led, Present, Apps
<1>2. StepInv /\ Ordered(srv) /\ [Next]_vars => Ordered(srv)'
  <2> SUFFICES ASSUME StepInv, Ordered(srv), [Next]_vars PROVE Ordered(srv')
    BY DEF Ordered, Ranked, Led, Present, Apps
  <2>1. CASE UNCHANGED vars
    BY <2>1 DEF vars
  <2>2. CASE Next
    BY <2>2, ClientEventOrders, ServerStepOrders DEF Next, StepInv
  <2> QED BY <2>1, <2>2
<1> QED BY <1>1, <1>2, StepInvariance, PTL DEF Spec

\* The foreground is the most recently active app client through any sequence of connects,
\* inputs, removals and handoffs, and there is one whenever there is an app client
\* (latest_app_client, next_activity_stamp).
THEOREM ForegroundHolds == Spec => []ForegroundIsLatest
<1>1. Ordered(srv) => ForegroundIsLatest
  BY DEF Ordered, Led, ForegroundIsLatest
<1> QED BY <1>1, OrderInvariance, PTL

-----------------------------------------------------------------------------
(* Clients of terminals that are gone.  What a render is to remove it finds by its writer,   *)
(* so a stream client must keep one for as long as it is in the map.                         *)

\* Only an app client, which detached by key, is in the map without a writer.
Listens(S) ==
  \A c \in Clients : S.mode[c] \in Streams \cup {"pending"} => S.writer[c] # "none"

LeftBehind(S) == {c \in Clients : S.mode[c] \in Streams /\ S.term[c] \notin alive}

\* From S to R, whoever stays keeps mode and terminal, and a stream client its writer.
Stays(S, R) ==
  \A d \in Clients : R.mode[d] # "absent" =>
    /\ R.mode[d] = S.mode[d] /\ R.term[d] = S.term[d]
    /\ R.writer[d] = "none" => S.writer[d] = "none" \/ S.mode[d] = "app"

StreamInv ==
  /\ Listens(srv)
  /\ Idle => todo = {}
  /\ ~dirty => LeftBehind(srv) \subseteq todo

LEMMA StaysTransitive ==
  ASSUME NEW S, NEW T, NEW R, Stays(S, T), Stays(T, R)
  PROVE  Stays(S, R)
  BY DEF Stays

LEMMA SameMapStays ==
  ASSUME NEW S, NEW R, SameMap(S, R)
  PROVE  Stays(S, R)
  BY DEF SameMap, Stays

LEMMA StaysListen ==
  ASSUME NEW S, NEW R, Stays(S, R)
  PROVE  /\ Listens(S) => Listens(R)
         /\ LeftBehind(R) \subseteq LeftBehind(S)
  BY DEF Stays, Listens, LeftBehind, Streams

LEMMA RemoveStays ==
  ASSUME NEW S, NEW c \in Clients, Good(S), alive \subseteq Terminals
  PROVE  Stays(S, Remove(S, c)) /\ Stays(S, RemoveAndResize(S, c))
<1> DEFINE D == Drop(S, c)
<1>1. /\ Core(D) /\ OnlyClient(S, D, c) /\ D.mode[c] = "absent"
      /\ D.writer = [S.writer EXCEPT ![c] = "none"]
  BY DropCore, DropRest DEF Good
<1>2. Remove(S, c) = IF D.fg = c THEN PromoteLatest(D) ELSE D
  BY DEF Remove, AfterDrop
<1>3. S.writer \in [Clients -> {"live", "dead", "none"}]
  BY DEF Good, Core, Shape, Registry
<1> HIDE DEF D
<1>4. Stays(S, D)
  BY <1>1, <1>3 DEF Stays, OnlyClient
<1>5. Stays(D, PromoteLatest(D))
  BY <1>1, PromoteLatestGood, SameMapStays
<1>6. Stays(S, Remove(S, c))
  BY <1>2, <1>4, <1>5, StaysTransitive
<1>7. Stays(Remove(S, c), SharedResize(Remove(S, c)))
  BY RemoveGood, SharedResizeGood, SameMapStays
<1> QED BY <1>6, <1>7, StaysTransitive DEF RemoveAndResize

LEMMA TellStays ==
  ASSUME NEW S, NEW c \in Clients, Good(S), alive \subseteq Terminals
  PROVE  Stays(S, Tell(S, c)) /\ Stays(S, TellAndRemove(S, c)) /\ Stays(S, Send(S, c))
<1> DEFINE R == [S EXCEPT !.told = Told(S, c)]
<1>1. Good(R) /\ SameMap(S, R)
  BY ToldGood, ToldType
<1>2. Tell(S, c) = Send(R, c)
  BY DEF Tell
<1> HIDE DEF R
<1>3. Stays(S, Send(S, c)) /\ Stays(R, Send(R, c))
  BY <1>1, RemoveStays, SameMapStays DEF Send, SameMap
<1>4. Stays(S, Tell(S, c))
  BY <1>1, <1>2, <1>3, SameMapStays, StaysTransitive
<1>5. Stays(Tell(S, c), TellAndRemove(S, c))
  BY TellGood, RemoveStays DEF TellAndRemove
<1> QED BY <1>3, <1>4, <1>5, StaysTransitive

\* Entering a stream keeps the writer of a pending client.
LEMMA EnterListens ==
  ASSUME NEW S, NEW c \in Clients, NEW mode \in Streams, NEW t \in Terminals,
         Good(S), S.mode[c] = "pending", Listens(S)
  PROVE  Listens(Enter(S, c, mode, t)) /\ Enter(S, c, mode, t) \in Registry
<1> DEFINE E == Enter(S, c, mode, t)
<1>1. /\ E \in Registry
      /\ E.mode = [S.mode EXCEPT ![c] = mode] /\ E.term = [S.term EXCEPT ![c] = t]
      /\ E.size = S.size /\ E.writer = S.writer
      /\ E.owner = S.owner /\ E.locks = S.locks /\ E.pty = S.pty
      /\ E.fg = S.fg /\ E.eff = S.eff /\ E.fg # c
  BY EnterTerm
<1>2. S.mode \in [Clients -> Modes]
  BY DEF Good, Core, Shape, Registry
<1> HIDE DEF E
<1>3. Listens(E)
  BY <1>1, <1>2 DEF Listens
<1> QED BY <1>1, <1>3 DEF E

LEMMA AttachListens ==
  ASSUME NEW S, NEW c \in Clients, NEW t \in alive, alive \subseteq Terminals,
         Good(S), S.mode[c] = "pending", Listens(S)
  PROVE  Listens(Own(Enter(Evict(S, S.owner[t]), c, "attach", t), c, t))
<1> DEFINE o == S.owner[t]
           V == Evict(S, o)
           E == Enter(V, c, "attach", t)
<1>1. o \in Clients \cup {NoClient} /\ t \in Terminals /\ "attach" \in Streams
  BY DEF Good, Core, Shape, Registry, Streams
<1>2. Good(V) /\ V.mode[c] = "pending" /\ Listens(V)
  <2>1. CASE o = NoClient
    BY <2>1 DEF Evict
  <2>2. CASE o \in Clients
    <3>1. S.mode[o] = "attach"
      BY <1>1, <2>2 DEF Good, Core, Owned
    <3>2. V = TellAndRemove(S, o)
      BY <2>2, ConstantsAssumption DEF Evict
    <3> HIDE DEF o, V
    <3> QED BY <2>2, <3>1, <3>2, TellAndRemoveGood, TellStays, StaysListen DEF OnlyClient
  <2> QED BY <1>1, <2>1, <2>2
<1> HIDE DEF V, o
<1>3. Listens(E) /\ E \in Registry
  BY <1>1, <1>2, EnterListens
<1> HIDE DEF E
<1>4. Listens(Own(E, c, t))
  BY <1>3 DEF Own, Listens, Registry
<1> QED BY <1>4 DEF E, V, o

\* A client event takes no writer from a stream client; one that leaves nothing to render
\* at most removes clients.
LEMMA ClientEventListens ==
  ASSUME IInv, NEW c \in Clients, ClientEvent(c), Listens(srv)
  PROVE  Listens(srv') /\ (~dirty' => ~dirty /\ Stays(srv, srv'))
<1> DEFINE Fine == Listens(srv') /\ (~dirty' => ~dirty /\ Stays(srv, srv'))
<1> SUFFICES Fine
  OBVIOUS
<1>1. /\ Good(srv) /\ Fresh /\ alive \subseteq Terminals /\ dirty \in BOOLEAN
  BY DEF IInv, Rest
<1>2. srv.mode \in [Clients -> Modes] /\ srv.writer \in [Clients -> {"live", "dead", "none"}]
  BY <1>1 DEF Good, Core, Shape, Registry
<1>3. ASSUME Stays(srv, srv'), ~dirty' => ~dirty PROVE Fine
  BY <1>3, StaysListen
<1> HIDE DEF Fine
<1>4. ASSUME Listens(srv'), dirty' = TRUE PROVE Fine
  BY <1>4 DEF Fine
<1>5. ASSUME NEW s \in Sizes, Resize(c, s) PROVE Fine
  <2>1. srv'.mode = srv.mode /\ srv'.writer = srv.writer /\ dirty' = TRUE
    BY <1>1, <1>5, ResizeStays DEF Resize
  <2>2. Listens(srv')
    BY <2>1 DEF Listens
  <2> QED BY <1>4, <2>1, <2>2
<1>6. ASSUME NEW s \in Sizes, NEW direct \in BOOLEAN, Connected(c, s, direct) PROVE Fine
  <2>1. CASE Refuses
    <3>1. srv' = [srv EXCEPT !.told[c] = TRUE] /\ dirty' = dirty
      BY <1>6, <2>1 DEF Connected
    <3>2. SameMap(srv, srv')
      BY <1>1, <3>1 DEF SameMap, Good, Core, Shape, Registry
    <3> QED BY <1>3, <3>1, <3>2, SameMapStays
  <2>2. CASE ~Refuses
    <3>1. srv' = Join(srv, c, s, direct) /\ dirty' = TRUE
      BY <1>6, <2>2 DEF Connected
    <3>2. /\ \A d \in Clients \ {c} : srv'.mode[d] = srv.mode[d]
          /\ srv'.writer = [srv.writer EXCEPT ![c] = "live"]
      BY <1>1, <3>1, JoinStays
    <3>3. Listens(srv')
      BY <1>2, <3>2 DEF Listens
    <3> QED BY <1>4, <3>1, <3>3
  <2> QED BY <2>1, <2>2
<1>7. ASSUME NEW t \in Terminals, Observe(c, t) PROVE Fine
  <2>1. CASE srv.mode[c] # "pending" \/ t \notin alive
    <3>1. srv' = TellAndRemove(srv, c) /\ dirty' = dirty
      BY <1>7, <2>1 DEF Observe
    <3> QED BY <1>1, <1>3, <3>1, TellStays
  <2>2. CASE srv.mode[c] = "pending" /\ t \in alive
    <3>1. srv' = Enter(srv, c, "observe", t) /\ dirty' = TRUE /\ "observe" \in Streams
      BY <1>7, <2>2 DEF Observe, Streams
    <3> QED BY <1>1, <1>4, <2>2, <3>1, EnterListens
  <2> QED BY <2>1, <2>2
<1>8. ASSUME NEW t \in Terminals, NEW takeover \in BOOLEAN, Attach(c, t, takeover) PROVE Fine
  <2>1. CASE srv.mode[c] # "pending" \/ t \notin alive \/ (srv.owner[t] # NoClient /\ ~takeover)
    <3>1. srv' = TellAndRemove(srv, c) /\ dirty' = dirty
      BY <1>8, <2>1 DEF Attach
    <3> QED BY <1>1, <1>3, <3>1, TellStays
  <2>2. CASE ~(srv.mode[c] # "pending" \/ t \notin alive \/ (srv.owner[t] # NoClient /\ ~takeover))
    <3>1. /\ srv' = Own(Enter(Evict(srv, srv.owner[t]), c, "attach", t), c, t)
          /\ dirty' = TRUE /\ srv.mode[c] = "pending" /\ t \in alive
      BY <1>8, <2>2 DEF Attach
    <3> QED BY <1>1, <1>4, <3>1, AttachListens
  <2> QED BY <2>1, <2>2
<1>9. CASE Input(c)
  <2>1. ~dirty' => ~dirty
    BY <1>1, <1>9 DEF Input
  <2>2. CASE srv.mode[c] # "app"
    <3>1. srv' = srv
      BY <1>9, <2>2 DEF Input
    <3> QED BY <1>3, <2>1, <3>1 DEF Stays
  <2>3. CASE srv.mode[c] = "app"
    <3> DEFINE P == Promote(srv, c)
    <3>1. /\ srv' = IF P.fg # srv.fg THEN SharedResize(P) ELSE P
          /\ c \in Apps(srv)
      BY <1>9, <2>3 DEF Input, Apps
    <3>2. SameMap(srv, srv')
      BY <1>1, <3>1, PromoteKeeps
    <3> QED BY <1>3, <2>1, <3>2, SameMapStays
  <2> QED BY <2>2, <2>3
<1>10. CASE DetachKey(c)
  <2> DEFINE P == Promote(srv, c)
             R == IF P.fg # srv.fg THEN SharedResize(P) ELSE P
             S == Tell(R, c)
             W == [S EXCEPT !.writer[c] = "none"]
  <2>1. /\ c \in Apps(srv) /\ dirty' = dirty /\ srv.mode[c] = "app"
        /\ srv' = IF c \in Present(S) THEN W ELSE S
    BY <1>10 DEF DetachKey, Apps
  <2>2. Good(R) /\ Stays(srv, R)
    BY <1>1, <2>1, PromoteKeeps, SameMapStays
  <2> HIDE DEF R
  <2>3. Good(S) /\ Stays(R, S)
    BY <1>1, <2>2, TellGood, TellStays
  <2>4. Stays(srv, S)
    BY <2>2, <2>3, StaysTransitive
  <2> HIDE DEF S
  <2>5. W.mode = S.mode /\ W.term = S.term /\ \A d \in Clients \ {c} : W.writer[d] = S.writer[d]
    BY <2>3 DEF Good, Core, Shape, Registry
  <2> HIDE DEF W
  <2>6. Stays(srv, W)
    BY <2>1, <2>4, <2>5 DEF Stays
  <2> QED BY <1>3, <2>1, <2>4, <2>6
<1>11. CASE Detach(c)
  <2> DEFINE S == IF srv.mode[c] \in Streams THEN Tell(srv, c) ELSE srv
  <2>1. srv' = RemoveAndResize(S, c) /\ dirty' = TRUE
    BY <1>11 DEF Detach
  <2>2. Good(S) /\ Stays(srv, S)
    BY <1>1, TellGood, TellStays DEF Stays
  <2> HIDE DEF S
  <2>3. Stays(srv, srv')
    BY <1>1, <2>1, <2>2, RemoveStays, StaysTransitive
  <2> QED BY <1>3, <2>1, <2>3
<1>12. CASE IgnoredAfterHandoff(c)
  <2>1. srv' = srv /\ dirty' = dirty
    BY <1>12 DEF IgnoredAfterHandoff
  <2> QED BY <1>3, <2>1 DEF Stays
<1>13. CASE Disconnected(c)
  BY <1>1, <1>3, <1>13, RemoveStays DEF Disconnected
<1>14. CASE WriterDies(c)
  <2>1. srv' = [srv EXCEPT !.writer[c] = "dead"] /\ dirty' = dirty
    BY <1>14 DEF WriterDies
  <2>2. /\ srv'.mode = srv.mode /\ srv'.term = srv.term
        /\ srv'.writer = [srv.writer EXCEPT ![c] = "dead"]
    BY <1>1, <2>1 DEF Good, Core, Shape, Registry
  <2>3. Stays(srv, srv')
    BY <1>2, <2>2 DEF Stays
  <2> QED BY <1>3, <2>1, <2>3
<1> QED BY <1>5, <1>6, <1>7, <1>8, <1>9, <1>10, <1>11, <1>12, <1>13, <1>14 DEF ClientEvent

\* A render has whoever is left behind removed; a loop removes whom it takes from its list.
LEMMA ServerStepStreams ==
  ASSUME StepInv, StreamInv,
         \/ \E t \in Terminals : PaneDied(t) \/ PaneClosed(t)
         \/ Broadcast \/ SendToForeground \/ Render
         \/ HandoffStarts \/ (\E success \in BOOLEAN : HandoffEnds(success))
         \/ Loop
  PROVE  StreamInv'
<1> USE DEF Idle
<1>1. /\ Good(srv) /\ alive \subseteq Terminals /\ todo \subseteq Clients
      /\ Listens(srv) /\ (Idle => todo = {}) /\ (~dirty => LeftBehind(srv) \subseteq todo)
  BY DEF StepInv, IInv, Rest, StreamInv
<1>2. ASSUME Stays(srv, srv'), Idle' => todo' = {},
             ~dirty' => alive' = alive /\ LeftBehind(srv') \subseteq todo'
      PROVE  StreamInv'
  <2>1. Listens(srv') /\ (alive' = alive => LeftBehind(srv)' = LeftBehind(srv'))
    BY <1>1, <1>2, StaysListen DEF LeftBehind
  <2>2. Listens(srv)'
    BY <2>1 DEF Listens
  <2> QED BY <1>2, <2>1, <2>2 DEF StreamInv
<1>3. ASSUME NEW t \in Terminals, PaneDied(t) \/ PaneClosed(t) PROVE StreamInv'
  <2>1. srv' = srv /\ dirty' = TRUE /\ (Idle' => todo' = {})
    BY <1>1, <1>3 DEF PaneDied, PaneClosed, StartLoop
  <2> QED BY <1>2, <2>1 DEF Stays
<1>4. CASE Broadcast
  <2>1. UNCHANGED <<srv, alive, dirty>> /\ Idle /\ (Idle' => todo' = {})
    BY <1>4 DEF Broadcast, StartLoop
  <2> QED BY <1>1, <1>2, <2>1 DEF Stays
<1>5. CASE SendToForeground
  <2>1. srv' = Send(srv, srv.fg) /\ srv.fg # NoClient /\ UNCHANGED <<alive, dirty, todo, why>>
    BY <1>5 DEF SendToForeground
  <2>2. srv.fg \in Clients
    BY <1>1, <2>1 DEF Good, Core, Shape, Registry
  <2>3. Stays(srv, srv')
    BY <1>1, <2>1, <2>2, TellStays
  <2>4. LeftBehind(srv') \subseteq LeftBehind(srv)
    BY <2>3, StaysListen
  <2> QED BY <1>1, <1>2, <2>1, <2>3, <2>4
<1>6. CASE Render
  <2> DEFINE S == IF srv.fg \in RenderTargets \cap Apps(srv)
                    THEN LayOut(srv, srv.size[srv.fg]) ELSE srv
  <2>1. /\ alive' = alive /\ \E f : srv' = [S EXCEPT !.told = f]
        /\ \E broken \in SUBSET {c \in RenderTargets : srv.writer[c] = "dead"} :
             StartLoop(Gone \cup broken, "broken")
    BY <1>6 DEF Render
  <2>2. SameMap(srv, S) /\ S \in Registry
    <3>1. CASE srv.fg \in RenderTargets \cap Apps(srv)
      <4>1. srv.size[srv.fg] \in Sizes \cup {MinSize}
        BY <1>1, <3>1 DEF Apps, Good, Core, Shape, Registry
      <4> QED BY <1>1, <3>1, <4>1, LayOutGood DEF Good, Core, Shape
    <3>2. CASE srv.fg \notin RenderTargets \cap Apps(srv)
      BY <1>1, <3>2 DEF SameMap, Good, Core, Shape
    <3> QED BY <3>1, <3>2
  <2> HIDE DEF S
  <2>3. SameMap(S, srv')
    BY <2>1, <2>2 DEF SameMap, Registry
  <2>4. Stays(srv, srv')
    BY <2>2, <2>3, SameMapStays, StaysTransitive
  <2>5. LeftBehind(srv') \subseteq Gone
    BY <1>1, <2>4, StaysListen DEF Listens, LeftBehind, Gone, RenderTargets
  <2>6. Gone \subseteq todo' /\ (Idle' => todo' = {})
    BY <2>1 DEF StartLoop
  <2> QED BY <1>2, <2>1, <2>4, <2>5, <2>6
<1>7. CASE HandoffStarts
  <2>1. UNCHANGED <<srv, alive, dirty>> /\ Idle /\ why' = "handoff"
    BY <1>7 DEF HandoffStarts
  <2> QED BY <1>1, <1>2, <2>1 DEF Stays
<1>8. ASSUME NEW success \in BOOLEAN, HandoffEnds(success) PROVE StreamInv'
  <2> DEFINE F == Foreground(srv, NoClient)
  <2>1. srv' = SharedResize(F) /\ dirty' = TRUE /\ todo' = {}
    BY <1>8 DEF HandoffEnds
  <2>2. Good(F) /\ SameMap(srv, F)
    BY <1>1, ForegroundSame, SameMapCore DEF Good, Core, Shape
  <2> HIDE DEF F
  <2>3. Stays(srv, srv')
    BY <1>1, <2>1, <2>2, SharedResizeGood, SameMapStays, StaysTransitive
  <2> QED BY <1>2, <2>1, <2>3
<1>9. ASSUME NEW c \in Clients, UNCHANGED <<alive, dirty>>, todo' = todo \ {c},
             Idle' => todo' = {}, Stays(srv, srv'), srv'.mode[c] = "absent"
      PROVE  StreamInv'
  <2>1. LeftBehind(srv') \subseteq LeftBehind(srv) \ {c}
    BY <1>9, StaysListen DEF LeftBehind, Streams
  <2> QED BY <1>1, <1>2, <1>9, <2>1
<1>10. ASSUME NEW c \in Clients, Reap(c) PROVE StreamInv'
  <2>1. /\ srv' = IF why = "exited" THEN TellAndRemove(srv, c) ELSE RemoveAndResize(srv, c)
        /\ why \in {"broken", "exited"} /\ UNCHANGED <<alive, dirty>>
        /\ todo' = todo \ {c} /\ (why' = "idle" => todo' = {})
    BY <1>10 DEF Reap, StartLoop
  <2>2. Stays(srv, srv') /\ srv'.mode[c] = "absent"
    BY <1>1, <2>1, TellStays, RemoveStays, TellAndRemoveGood, RemoveAndResizeGood
  <2> QED BY <1>9, <2>1, <2>2
<1>11. ASSUME NEW c \in Clients, HandoffDrops(c) PROVE StreamInv'
  <2> DEFINE S == Tell(srv, c)
             W == [S EXCEPT !.writer[c] = "none"]
  <2>1. /\ srv' = Remove(W, c) /\ UNCHANGED <<alive, dirty>>
        /\ todo' = todo \ {c} /\ why' = "handoff"
    BY <1>11 DEF HandoffDrops, Farewell
  <2>2. Good(S) /\ Stays(srv, S)
    BY <1>1, TellGood, TellStays
  <2> HIDE DEF S
  <2>3. Good(W)
    BY <2>2, WriterGood
  <2>4. /\ W.mode = S.mode /\ W.term = S.term
        /\ \A d \in Clients \ {c} : W.writer[d] = S.writer[d]
    BY <2>2 DEF Good, Core, Shape, Registry
  <2> HIDE DEF W
  <2>5. Stays(W, srv') /\ srv'.mode[c] = "absent"
    BY <1>1, <2>1, <2>3, RemoveStays, RemoveGood
  <2>6. Stays(srv, srv')
    BY <2>2, <2>4, <2>5 DEF Stays
  <2> QED BY <1>9, <2>1, <2>5, <2>6
<1> QED BY <1>3, <1>4, <1>5, <1>6, <1>7, <1>8, <1>10, <1>11 DEF Loop

LEMMA EventStreams ==
  ASSUME StepInv, StreamInv, NEW c \in Clients, ClientEvent(c)
  PROVE  StreamInv'
<1>1. UNCHANGED <<alive, todo, why>>
  BY DEF ClientEvent, Resize, Connected, Observe, Attach, Input, DetachKey, Detach,
         IgnoredAfterHandoff, Disconnected, WriterDies, Event
<1>2. Listens(srv') /\ (~dirty' => ~dirty /\ Stays(srv, srv'))
  BY ClientEventListens DEF StepInv, StreamInv
<1>3. ~dirty' => LeftBehind(srv') \subseteq todo
  BY <1>2, StaysListen DEF StreamInv
<1>4. Listens(srv)' /\ LeftBehind(srv)' = LeftBehind(srv')
  BY <1>1, <1>2 DEF Listens, LeftBehind
<1> QED BY <1>1, <1>3, <1>4 DEF StreamInv, Idle

LEMMA StreamInvariance == Spec => [](StepInv /\ StreamInv)
<1>1. Init => StreamInv
  BY DEF Init, StreamInv, Listens, Streams
<1>2. StepInv /\ StreamInv /\ [Next]_vars => StreamInv'
  <2> SUFFICES ASSUME StepInv, StreamInv, [Next]_vars PROVE StreamInv'
    OBVIOUS
  <2>1. CASE UNCHANGED vars
    BY <2>1 DEF vars, StreamInv, Listens, LeftBehind, Idle
  <2>2. CASE Next
    BY <2>2, EventStreams, ServerStepStreams DEF Next
  <2> QED BY <2>1, <2>2
<1> QED BY <1>1, <1>2, StepInvariance, PTL DEF Spec

\* No client is left on a terminal that is gone once nothing is left to render: whoever lost
\* its terminal without a word has a writer still, by which the render finds it, and is in
\* the list of the loop that removes it (render_and_stream).
THEOREM StreamsSettle == Spec => []StreamsSettled
<1>1. StreamInv => StreamsSettled
  BY DEF StreamInv, LeftBehind, StreamsSettled
<1> QED BY <1>1, StreamInvariance, PTL

=============================================================================
