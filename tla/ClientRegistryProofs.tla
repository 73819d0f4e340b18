------------------------ MODULE ClientRegistryProofs ------------------------
(***************************************************************************)
(* For any number of clients, terminals and sizes: the registry keeps its   *)
(* types, every terminal has at most the one owner the map says, the resize *)
(* locks follow the owners, and an owned PTY keeps its owner's size.        *)
(*                                                                         *)
(* The handlers are compositions of operators on the registry record, so    *)
(* the proof has one lemma per operator, and a step is a few citations.     *)
(***************************************************************************)
EXTENDS ClientRegistry, TLAPS

Shape(S) ==
  /\ S \in Registry
  /\ \A c \in Clients : /\ S.term[c] # NoTerm <=> S.mode[c] \in Streams
                        /\ S.mode[c] = "absent" => S.writer[c] = "none"

Owned(S) ==
  \A t \in Terminals, c \in Clients :
    S.owner[t] = c <=> (S.mode[c] = "attach" /\ S.term[c] = t)

Locked(S) == \A t \in alive : t \in S.locks <=> S.owner[t] # NoClient

Direct(S) ==
  \A t \in alive : S.owner[t] # NoClient => S.pty[t] = <<"direct", S.size[S.owner[t]]>>

\* What every operator preserves, even in the middle of a handler.
Core(S) == Shape(S) /\ Owned(S) /\ Locked(S) /\ Direct(S)

\* The foreground is an app client whose size is the effective one.
Front(S) ==
  \/ S.fg = NoClient /\ S.eff = MinSize
  \/ S.fg \in Apps(S) /\ S.eff = S.size[S.fg]

Good(S) == Core(S) /\ Front(S)

-----------------------------------------------------------------------------
(* Operators that leave modes, terminals, sizes, owners and locks alone. *)

SameMap(S, R) ==
  /\ R.mode = S.mode /\ R.term = S.term /\ R.size = S.size /\ R.writer = S.writer
  /\ R.owner = S.owner /\ R.locks = S.locks

\* A registry with the same map, and the same PTY sizes, is as sound.
LEMMA SameMapCore ==
  ASSUME NEW S, NEW R, Core(S), R \in Registry, SameMap(S, R), R.pty = S.pty
  PROVE  Core(R)
  BY DEF Core, Shape, Owned, Locked, Direct, SameMap

LEMMA TouchSame ==
  ASSUME NEW S, NEW c \in Clients, S \in Registry
  PROVE  /\ Touch(S, c) \in Registry
         /\ SameMap(S, Touch(S, c)) /\ Touch(S, c).pty = S.pty
         /\ Touch(S, c).fg = S.fg /\ Touch(S, c).eff = S.eff
         /\ Touch(S, c).told = S.told
<1> DEFINE o == [d \in Clients |-> IF d = c THEN Clients \ {c} ELSE S.older[d] \ {c}]
<1>1. o \in [Clients -> SUBSET Clients]
  BY DEF Registry
<1>2. Touch(S, c) = [S EXCEPT !.older = o]
  BY DEF Touch, Registry
<1>3. [S EXCEPT !.older = o] \in Registry
  <2> HIDE DEF o
  <2> QED BY <1>1 DEF Registry
<1> HIDE DEF o
<1> QED BY <1>2, <1>3 DEF SameMap, Registry

LEMMA ForegroundSame ==
  ASSUME NEW S, NEW c, S \in Registry
  PROVE  /\ Foreground(S, c) \in Registry
         /\ SameMap(S, Foreground(S, c)) /\ Foreground(S, c).pty = S.pty
         /\ Foreground(S, c).told = S.told
         /\ (c \in Apps(S) \/ c = NoClient) => Front(Foreground(S, c))
<1>1. CASE c \in Present(S)
  <2>1. c \in Clients /\ S.size[c] \in Sizes
    BY <1>1 DEF Present, Registry
  <2>2. Foreground(S, c) = [S EXCEPT !.fg = c, !.eff = S.size[c]]
    BY <1>1 DEF Foreground
  <2>3. c # NoClient
    BY <2>1, ConstantsAssumption
  <2> QED BY <2>1, <2>2, <2>3 DEF SameMap, Registry, Front, Apps
<1>2. CASE c \notin Present(S)
  <2>1. Foreground(S, c) = [S EXCEPT !.fg = NoClient, !.eff = MinSize]
    BY <1>2 DEF Foreground
  <2> QED BY <2>1 DEF SameMap, Registry, Front
<1> QED BY <1>1, <1>2

LEMMA LatestIsApp ==
  ASSUME NEW S
  PROVE  Latest(S) \in Apps(S) \/ Latest(S) = NoClient
<1>1. CASE \E c \in Clients : Newest(S, c)
  BY <1>1 DEF Latest, Newest, Candidates
<1>2. CASE ~ \E c \in Clients : Newest(S, c)
  BY <1>2 DEF Latest
<1> QED BY <1>1, <1>2

LEMMA PromoteLatestGood ==
  ASSUME NEW S, Core(S)
  PROVE  Good(PromoteLatest(S)) /\ SameMap(S, PromoteLatest(S))
  BY LatestIsApp, ForegroundSame, SameMapCore DEF PromoteLatest, Good, Core, Shape

LEMMA PromoteGood ==
  ASSUME NEW S, NEW c \in Apps(S), Core(S)
  PROVE  Good(Promote(S, c)) /\ SameMap(S, Promote(S, c))
<1> DEFINE T == Touch(S, c)
<1>1. c \in Clients /\ c \in Present(S)
  BY DEF Apps, Present
<1>2. T \in Registry /\ SameMap(S, T) /\ T.pty = S.pty
  BY <1>1, TouchSame DEF Core, Shape
<1>3. Core(T)
  BY <1>2, SameMapCore
<1>4. c \in Apps(T)
  BY <1>2 DEF Apps, SameMap
<1>5. Promote(S, c) = Foreground(T, c)
  BY <1>1 DEF Promote
<1> HIDE DEF T
<1>6. Good(Foreground(T, c)) /\ SameMap(T, Foreground(T, c))
  BY <1>2, <1>3, <1>4, ForegroundSame, SameMapCore DEF Good
<1> QED BY <1>2, <1>5, <1>6 DEF SameMap

LEMMA LayOutGood ==
  ASSUME NEW S, NEW s \in Sizes \cup {MinSize}, Core(S), alive \subseteq Terminals
  PROVE  /\ Core(LayOut(S, s)) /\ SameMap(S, LayOut(S, s))
         /\ LayOut(S, s).fg = S.fg /\ LayOut(S, s).eff = S.eff
         /\ LayOut(S, s).told = S.told
         /\ Front(S) => Good(LayOut(S, s))
<1> DEFINE p == [t \in Terminals |-> IF t \in Unlocked(S) THEN <<"shared", s>> ELSE S.pty[t]]
<1>1. p \in [Terminals -> PtySize]
  BY DEF Core, Shape, Registry, PtySize
<1>2. LayOut(S, s) = [S EXCEPT !.pty = p]
  BY DEF LayOut, Core, Shape, Registry
<1>3. \A t \in Terminals : t \notin Unlocked(S) => p[t] = S.pty[t]
  OBVIOUS
<1> HIDE DEF p
<1>4. [S EXCEPT !.pty = p] \in Registry
  BY <1>1 DEF Registry, Core, Shape
<1>5. /\ SameMap(S, LayOut(S, s)) /\ LayOut(S, s).pty = p
      /\ LayOut(S, s).fg = S.fg /\ LayOut(S, s).eff = S.eff
      /\ LayOut(S, s).told = S.told
  BY <1>2 DEF SameMap, Core, Shape, Registry
<1>6. \A t \in alive : S.owner[t] # NoClient => t \notin Unlocked(S)
  BY DEF Core, Locked, Unlocked
<1>7. Core(LayOut(S, s))
  BY <1>2, <1>3, <1>4, <1>5, <1>6 DEF Core, Shape, Owned, Locked, Direct, SameMap
<1> QED BY <1>5, <1>7 DEF Good, Front, Apps, SameMap

LEMMA SharedResizeGood ==
  ASSUME NEW S, Good(S), alive \subseteq Terminals
  PROVE  /\ Good(SharedResize(S)) /\ SameMap(S, SharedResize(S))
         /\ SharedResize(S).fg = S.fg
<1>1. S.eff \in Sizes \cup {MinSize}
  BY DEF Good, Core, Shape, Registry
<1> QED BY <1>1, LayOutGood DEF SharedResize, Good, SameMap

-----------------------------------------------------------------------------
(* Operators that may take a client out of the map. *)

\* Only c's entry differs, and no size does.
OnlyClient(S, R, c) ==
  /\ R.size = S.size
  /\ \A d \in Clients \ {c} : R.mode[d] = S.mode[d] /\ R.term[d] = S.term[d]

LEMMA DropCore ==
  ASSUME NEW S, NEW c \in Clients, Core(S), alive \subseteq Terminals
  PROVE  /\ Core(Drop(S, c)) /\ OnlyClient(S, Drop(S, c), c)
         /\ Drop(S, c).mode[c] = "absent"
         /\ Drop(S, c).fg = S.fg /\ Drop(S, c).eff = S.eff
<1> DEFINE o == FreeOwner(S, c)
           l == S.locks \ FreedLocks(S, c)
           R == Drop(S, c)
<1>1. /\ o \in [Terminals -> Clients \cup {NoClient}]
      /\ \A t \in Terminals : o[t] = IF S.mode[c] = "attach" /\ S.term[c] = t
                                       THEN NoClient ELSE S.owner[t]
  BY DEF FreeOwner, Core, Shape, Registry
<1>2. l \subseteq Terminals
  BY DEF Core, Shape, Registry
<1>3. R = [[S EXCEPT !.mode[c] = "absent", !.term[c] = NoTerm, !.writer[c] = "none"]
             EXCEPT !.owner = o, !.locks = l]
  BY DEF Drop, Unmap, Core, Shape, Registry
<1> HIDE DEF o, l
<1>4. /\ R \in Registry
      /\ R.mode = [S.mode EXCEPT ![c] = "absent"]
      /\ R.term = [S.term EXCEPT ![c] = NoTerm]
      /\ R.writer = [S.writer EXCEPT ![c] = "none"]
      /\ R.size = S.size /\ R.owner = o /\ R.locks = l /\ R.pty = S.pty
      /\ R.fg = S.fg /\ R.eff = S.eff
  <2> HIDE DEF R
  <2> QED BY <1>1, <1>2, <1>3 DEF Registry, Core, Shape, Modes
<1> HIDE DEF R
<1>5. S.mode \in [Clients -> Modes] /\ S.term \in [Clients -> Terminals \cup {NoTerm}]
      /\ S.writer \in [Clients -> {"live", "dead", "none"}]
  BY DEF Core, Shape, Registry
<1>6. Shape(R)
  BY <1>4, <1>5 DEF Core, Shape, Streams
<1>7. Owned(R)
  <2> SUFFICES ASSUME NEW t \in Terminals, NEW d \in Clients
               PROVE  R.owner[t] = d <=> (R.mode[d] = "attach" /\ R.term[d] = t)
    BY DEF Owned
  <2>1. S.owner[t] = d <=> (S.mode[d] = "attach" /\ S.term[d] = t)
    BY DEF Core, Owned
  <2>2. S.owner[t] = c <=> (S.mode[c] = "attach" /\ S.term[c] = t)
    BY DEF Core, Owned
  <2> QED BY <1>1, <1>4, <1>5, <2>1, <2>2, ConstantsAssumption
<1>8. Locked(R)
  <2> SUFFICES ASSUME NEW t \in alive PROVE t \in l <=> o[t] # NoClient
    BY <1>4 DEF Locked
  <2>1. t \in S.locks <=> S.owner[t] # NoClient
    BY DEF Core, Locked
  <2>2. S.owner[t] = c <=> (S.mode[c] = "attach" /\ S.term[c] = t)
    BY DEF Core, Owned
  <2> QED BY <1>1, <2>1, <2>2, ConstantsAssumption DEF FreedLocks, l
<1>9. Direct(R)
  BY <1>1, <1>4, <1>8, <1>2 DEF Core, Direct, Locked
<1> QED BY <1>4, <1>5, <1>6, <1>7, <1>8, <1>9 DEF Core, OnlyClient, R

LEMMA RemoveGood ==
  ASSUME NEW S, NEW c \in Clients, Good(S), alive \subseteq Terminals
  PROVE  /\ Good(Remove(S, c)) /\ OnlyClient(S, Remove(S, c), c)
         /\ Remove(S, c).mode[c] = "absent"
<1> DEFINE D == Drop(S, c)
<1>1. /\ Core(D) /\ OnlyClient(S, D, c) /\ D.mode[c] = "absent"
      /\ D.fg = S.fg /\ D.eff = S.eff
  BY DropCore DEF Good
<1>2. Remove(S, c) = IF D.fg = c THEN PromoteLatest(D) ELSE D
  BY DEF Remove, AfterDrop
<1> HIDE DEF D
<1>3. CASE D.fg = c
  BY <1>1, <1>2, <1>3, PromoteLatestGood DEF OnlyClient, SameMap
<1>4. CASE D.fg # c
  <2>1. Front(D)
    BY <1>1, <1>4 DEF Good, Front, Apps, OnlyClient
  <2> QED BY <1>1, <1>2, <1>4, <2>1 DEF Good
<1> QED BY <1>3, <1>4

LEMMA RemoveAndResizeGood ==
  ASSUME NEW S, NEW c \in Clients, Good(S), alive \subseteq Terminals
  PROVE  /\ Good(RemoveAndResize(S, c)) /\ OnlyClient(S, RemoveAndResize(S, c), c)
         /\ RemoveAndResize(S, c).mode[c] = "absent"
<1>1. /\ Good(Remove(S, c)) /\ OnlyClient(S, Remove(S, c), c)
      /\ Remove(S, c).mode[c] = "absent"
  BY RemoveGood
<1>2. /\ Good(SharedResize(Remove(S, c))) /\ SameMap(Remove(S, c), SharedResize(Remove(S, c)))
  BY <1>1, SharedResizeGood
<1> QED BY <1>1, <1>2 DEF RemoveAndResize, OnlyClient, SameMap

LEMMA SendGood ==
  ASSUME NEW S, NEW c \in Clients, Good(S), alive \subseteq Terminals
  PROVE  /\ Good(Send(S, c)) /\ OnlyClient(S, Send(S, c), c)
         /\ Send(S, c).mode[c] \in {"absent", S.mode[c]}
  BY RemoveAndResizeGood DEF Send, OnlyClient

\* Marking clients as told changes nothing else.
LEMMA ToldGood ==
  ASSUME NEW S, NEW f \in [Clients -> BOOLEAN], Good(S)
  PROVE  Good([S EXCEPT !.told = f]) /\ SameMap(S, [S EXCEPT !.told = f])
<1> DEFINE R == [S EXCEPT !.told = f]
<1>1. R \in Registry /\ SameMap(S, R) /\ R.pty = S.pty /\ R.fg = S.fg /\ R.eff = S.eff
  BY DEF Good, Core, Shape, Registry, SameMap
<1> HIDE DEF R
<1>2. Core(R)
  BY <1>1, SameMapCore DEF Good
<1>3. Good(R) /\ SameMap(S, R)
  BY <1>1, <1>2 DEF Good, Front, Apps, SameMap
<1> QED BY <1>3 DEF R

LEMMA ToldType ==
  ASSUME NEW S, NEW c \in Clients, Good(S)
  PROVE  Told(S, c) \in [Clients -> BOOLEAN]
  BY DEF Told, Good, Core, Shape, Registry

LEMMA TellGood ==
  ASSUME NEW S, NEW c \in Clients, Good(S), alive \subseteq Terminals
  PROVE  /\ Good(Tell(S, c)) /\ OnlyClient(S, Tell(S, c), c)
         /\ Tell(S, c).mode[c] \in {"absent", S.mode[c]}
<1> DEFINE R == [S EXCEPT !.told = Told(S, c)]
<1>1. Good(R) /\ SameMap(S, R)
  BY ToldGood, ToldType
<1>2. Tell(S, c) = Send(R, c)
  BY DEF Tell
<1> HIDE DEF R
<1> QED BY <1>1, <1>2, SendGood DEF SameMap, OnlyClient

LEMMA TellAndRemoveGood ==
  ASSUME NEW S, NEW c \in Clients, Good(S), alive \subseteq Terminals
  PROVE  /\ Good(TellAndRemove(S, c)) /\ OnlyClient(S, TellAndRemove(S, c), c)
         /\ TellAndRemove(S, c).mode[c] = "absent"
<1>1. Good(Tell(S, c)) /\ OnlyClient(S, Tell(S, c), c)
  BY TellGood
<1> QED BY <1>1, RemoveAndResizeGood DEF TellAndRemove, OnlyClient

\* Detaching by key drops the writer and keeps the entry.
LEMMA WriterGood ==
  ASSUME NEW S, NEW c \in Clients, NEW w \in {"dead", "none"}, Good(S),
         S.mode[c] # "absent" \/ w = "none"
  PROVE  Good([S EXCEPT !.writer[c] = w])
<1> DEFINE R == [S EXCEPT !.writer[c] = w]
<1>1. /\ R \in Registry /\ R.mode = S.mode /\ R.term = S.term /\ R.size = S.size
      /\ R.owner = S.owner /\ R.locks = S.locks /\ R.pty = S.pty
      /\ R.fg = S.fg /\ R.eff = S.eff /\ R.writer = [S.writer EXCEPT ![c] = w]
  BY DEF Good, Core, Shape, Registry
<1> HIDE DEF R
<1>2. Shape(R)
  BY <1>1 DEF Good, Core, Shape, Registry
<1>3. Good(R)
  BY <1>1, <1>2 DEF Good, Core, Owned, Locked, Direct, Front, Apps
<1> QED BY <1>3 DEF R

-----------------------------------------------------------------------------
(* Handlers. *)

\* A sound registry in which nobody entered the map except maybe c.
Sound(S, R, c) ==
  /\ Good(R)
  /\ \A d \in Clients \ {c} : S.mode[d] = "absent" => R.mode[d] = "absent"

LEMMA JoinGood ==
  ASSUME NEW S, NEW c \in Clients, NEW s \in Sizes, NEW direct \in BOOLEAN,
         Good(S), alive \subseteq Terminals, S.mode[c] = "absent"
  PROVE  Sound(S, Join(S, c, s, direct), c)
<1> DEFINE m == IF direct THEN "pending" ELSE "app"
           R == [S EXCEPT !.mode[c] = m, !.size[c] = s, !.writer[c] = "live"]
           T == Touch(R, c)
           f == IF direct THEN T.fg ELSE c
<1>1. m \in {"pending", "app"}
  OBVIOUS
<1>2. Join(S, c, s, direct) = SharedResize(Foreground(T, f))
  BY DEF Join
<1> HIDE DEF m
<1>3. /\ R \in Registry
      /\ R.mode = [S.mode EXCEPT ![c] = m] /\ R.term = S.term
      /\ R.size = [S.size EXCEPT ![c] = s] /\ R.writer = [S.writer EXCEPT ![c] = "live"]
      /\ R.owner = S.owner /\ R.locks = S.locks /\ R.pty = S.pty
      /\ R.fg = S.fg /\ R.eff = S.eff
  BY <1>1 DEF Good, Core, Shape, Registry, Modes
<1> HIDE DEF R
<1>4. /\ S.mode \in [Clients -> Modes] /\ S.writer \in [Clients -> {"live", "dead", "none"}]
      /\ S.size \in [Clients -> Sizes] /\ S.owner \in [Terminals -> Clients \cup {NoClient}]
  BY DEF Good, Core, Shape, Registry
<1>5. Shape(R)
  BY <1>1, <1>3, <1>4 DEF Good, Core, Shape, Streams
<1>6. \A t \in Terminals : S.owner[t] # c
  BY DEF Good, Core, Owned
<1>7. Owned(R) /\ Direct(R) /\ Locked(R)
  BY <1>1, <1>3, <1>4, <1>6 DEF Good, Core, Owned, Direct, Locked
<1>8. Core(R)
  BY <1>5, <1>7 DEF Core
<1>9. T \in Registry /\ SameMap(R, T) /\ T.pty = R.pty /\ T.fg = R.fg
  BY <1>3, TouchSame
<1> HIDE DEF T
<1>10. Core(T)
  BY <1>3, <1>8, <1>9, SameMapCore
<1>11. f \in Apps(T) \/ f = NoClient
  <2>1. CASE direct
    BY <2>1, <1>3, <1>4, <1>9, ConstantsAssumption DEF Good, Front, Apps, SameMap
  <2>2. CASE ~direct
    BY <2>2, <1>3, <1>4, <1>9 DEF m, Apps, SameMap
  <2> QED BY <2>1, <2>2
<1> HIDE DEF f
<1>12. Good(Foreground(T, f)) /\ SameMap(T, Foreground(T, f))
  BY <1>9, <1>10, <1>11, ForegroundSame, SameMapCore DEF Good
<1>13. /\ Good(SharedResize(Foreground(T, f)))
       /\ SameMap(Foreground(T, f), SharedResize(Foreground(T, f)))
  BY <1>12, SharedResizeGood
<1> QED BY <1>2, <1>3, <1>4, <1>9, <1>12, <1>13 DEF Sound, SameMap

\* A pending client that has found its terminal.
LEMMA EnterTerm ==
  ASSUME NEW S, NEW c \in Clients, NEW mode \in Streams, NEW t \in Terminals,
         Good(S), S.mode[c] = "pending"
  PROVE  LET R == Enter(S, c, mode, t)
         IN  /\ R \in Registry
             /\ R.mode = [S.mode EXCEPT ![c] = mode] /\ R.term = [S.term EXCEPT ![c] = t]
             /\ R.size = S.size /\ R.writer = S.writer
             /\ R.owner = S.owner /\ R.locks = S.locks /\ R.pty = S.pty
             /\ R.fg = S.fg /\ R.eff = S.eff /\ R.fg # c
<1> DEFINE N == [S EXCEPT !.mode[c] = mode, !.term[c] = t]
           T == Touch(N, c)
<1>1. /\ N \in Registry
      /\ N.mode = [S.mode EXCEPT ![c] = mode] /\ N.term = [S.term EXCEPT ![c] = t]
      /\ N.size = S.size /\ N.writer = S.writer
      /\ N.owner = S.owner /\ N.locks = S.locks /\ N.pty = S.pty
      /\ N.fg = S.fg /\ N.eff = S.eff
  BY DEF Good, Core, Shape, Registry, Modes, Streams
<1>2. Enter(S, c, mode, t) = IF T.fg = c THEN PromoteLatest(T) ELSE T
  BY DEF Enter
<1> HIDE DEF N
<1>3. T \in Registry /\ SameMap(N, T) /\ T.pty = N.pty /\ T.fg = N.fg /\ T.eff = N.eff
  BY <1>1, TouchSame
<1> HIDE DEF T
<1>4. S.fg # c
  BY ConstantsAssumption DEF Good, Front, Apps
<1> QED BY <1>1, <1>2, <1>3, <1>4 DEF SameMap

LEMMA ObserveGood ==
  ASSUME NEW S, NEW c \in Clients, NEW t \in Terminals,
         Good(S), S.mode[c] = "pending"
  PROVE  Sound(S, Enter(S, c, "observe", t), c)
<1> DEFINE R == Enter(S, c, "observe", t)
<1>1. /\ R \in Registry
      /\ R.mode = [S.mode EXCEPT ![c] = "observe"] /\ R.term = [S.term EXCEPT ![c] = t]
      /\ R.size = S.size /\ R.writer = S.writer
      /\ R.owner = S.owner /\ R.locks = S.locks /\ R.pty = S.pty
      /\ R.fg = S.fg /\ R.eff = S.eff /\ R.fg # c
  <2>1. "observe" \in Streams
    BY DEF Streams
  <2> QED BY <2>1, EnterTerm
<1> HIDE DEF R
<1>2. /\ S.mode \in [Clients -> Modes] /\ S.term \in [Clients -> Terminals \cup {NoTerm}]
      /\ S.owner \in [Terminals -> Clients \cup {NoClient}]
  BY DEF Good, Core, Shape, Registry
<1>3. Shape(R)
  BY <1>1, <1>2, ConstantsAssumption DEF Good, Core, Shape, Streams
<1>4. Owned(R)
  BY <1>1, <1>2 DEF Good, Core, Owned
<1>5. Locked(R) /\ Direct(R)
  BY <1>1 DEF Good, Core, Locked, Direct
<1>6. Front(R)
  BY <1>1, <1>2 DEF Good, Front, Apps
<1> QED BY <1>1, <1>2, <1>3, <1>4, <1>5, <1>6 DEF Sound, Good, Core, R

LEMMA OwnGood ==
  ASSUME NEW S, NEW c \in Clients, NEW t \in alive, alive \subseteq Terminals,
         Good(S), S.mode[c] = "pending", S.owner[t] = NoClient
  PROVE  Sound(S, Own(Enter(S, c, "attach", t), c, t), c)
<1> DEFINE E == Enter(S, c, "attach", t)
           R == Own(E, c, t)
<1>1. /\ E \in Registry
      /\ E.mode = [S.mode EXCEPT ![c] = "attach"] /\ E.term = [S.term EXCEPT ![c] = t]
      /\ E.size = S.size /\ E.writer = S.writer
      /\ E.owner = S.owner /\ E.locks = S.locks /\ E.pty = S.pty
      /\ E.fg = S.fg /\ E.eff = S.eff /\ E.fg # c
  <2>1. "attach" \in Streams /\ t \in Terminals
    BY DEF Streams
  <2> QED BY <2>1, EnterTerm
<1> HIDE DEF E
<1>2. S.size \in [Clients -> Sizes]
  BY DEF Good, Core, Shape, Registry
<1>3. <<"direct", S.size[c]>> \in PtySize
  BY <1>2 DEF PtySize
<1>4. /\ R \in Registry
      /\ R.mode = E.mode /\ R.term = E.term /\ R.size = S.size /\ R.writer = S.writer
      /\ R.owner = [S.owner EXCEPT ![t] = c] /\ R.locks = S.locks \cup {t}
      /\ R.pty = [S.pty EXCEPT ![t] = <<"direct", S.size[c]>>]
      /\ R.fg = S.fg /\ R.eff = S.eff
  <2>1. t \in Terminals
    OBVIOUS
  <2>2. R = [E EXCEPT !.owner[t] = c, !.locks = E.locks \cup {t},
                      !.pty[t] = <<"direct", E.size[c]>>]
    BY DEF Own
  <2> HIDE DEF R
  <2> QED BY <1>1, <1>3, <2>1, <2>2 DEF Registry
<1> HIDE DEF R
<1>5. /\ S.mode \in [Clients -> Modes] /\ S.term \in [Clients -> Terminals \cup {NoTerm}]
      /\ S.owner \in [Terminals -> Clients \cup {NoClient}]
      /\ S.pty \in [Terminals -> PtySize]
  BY DEF Good, Core, Shape, Registry
<1>6. Shape(R)
  BY <1>1, <1>4, <1>5, ConstantsAssumption DEF Good, Core, Shape, Streams
<1>7. Owned(R)
  <2> SUFFICES ASSUME NEW u \in Terminals, NEW d \in Clients
               PROVE  R.owner[u] = d <=> (R.mode[d] = "attach" /\ R.term[d] = u)
    BY DEF Owned
  <2>1. S.owner[u] = d <=> (S.mode[d] = "attach" /\ S.term[d] = u)
    BY DEF Good, Core, Owned
  <2> QED BY <1>1, <1>4, <1>5, <2>1, ConstantsAssumption
<1>8. Locked(R)
  BY <1>4, <1>5, ConstantsAssumption DEF Good, Core, Locked
<1>9. Direct(R)
  BY <1>4, <1>5 DEF Good, Core, Direct
<1>10. Front(R)
  BY <1>1, <1>4, <1>5 DEF Good, Front, Apps
<1> QED BY <1>1, <1>4, <1>5, <1>6, <1>7, <1>8, <1>9, <1>10 DEF Sound, Good, Core, R, E

LEMMA AttachGood ==
  ASSUME NEW S, NEW c \in Clients, NEW t \in alive, alive \subseteq Terminals,
         Good(S), S.mode[c] = "pending"
  PROVE  Sound(S, Own(Enter(Evict(S, S.owner[t]), c, "attach", t), c, t), c)
<1> DEFINE o == S.owner[t]
           V == Evict(S, o)
<1>1. o \in Clients \cup {NoClient}
  BY DEF Good, Core, Shape, Registry
<1>2. CASE o = NoClient
  <2>1. V = S
    BY <1>2 DEF Evict
  <2> QED BY <1>2, <2>1, OwnGood
<1>3. CASE o \in Clients
  <2>1. S.mode[o] = "attach"
    BY <1>3 DEF Good, Core, Owned
  <2>2. V = TellAndRemove(S, o)
    BY <1>3, ConstantsAssumption DEF Evict
  <2> HIDE DEF o
  <2>3. Good(V) /\ OnlyClient(S, V, o) /\ V.mode[o] = "absent"
    BY <1>3, <2>2, TellAndRemoveGood
  <2> HIDE DEF V
  <2>4. V.mode[c] = "pending"
    BY <2>1, <2>3 DEF OnlyClient
  <2>5. V.owner[t] = NoClient
    <3> SUFFICES ASSUME NEW d \in Clients, V.owner[t] = d PROVE FALSE
      BY <2>3 DEF Good, Core, Shape, Registry
    <3>1. V.mode[d] = "attach" /\ V.term[d] = t
      BY <2>3 DEF Good, Core, Owned
    <3>2. d # o /\ S.mode[d] = "attach" /\ S.term[d] = t
      BY <2>3, <3>1 DEF OnlyClient
    <3>3. S.owner[t] = d
      BY <3>2 DEF Good, Core, Owned
    <3> QED BY <3>2, <3>3 DEF o
  <2>6. Sound(V, Own(Enter(V, c, "attach", t), c, t), c)
    BY <2>3, <2>4, <2>5, OwnGood
  <2>7. \A d \in Clients \ {c} : S.mode[d] = "absent" => V.mode[d] = "absent"
    BY <2>3 DEF OnlyClient
  <2>8. Sound(S, Own(Enter(V, c, "attach", t), c, t), c)
    BY <2>6, <2>7 DEF Sound
  <2> QED BY <2>8 DEF V, o
<1> QED BY <1>1, <1>2, <1>3

\* Promotion of an app client, with the shared resize that may follow.
LEMMA PromoteSound ==
  ASSUME NEW S, NEW c \in Apps(S), Core(S), alive \subseteq Terminals
  PROVE  /\ Good(Promote(S, c)) /\ SameMap(S, Promote(S, c))
         /\ Good(SharedResize(Promote(S, c))) /\ SameMap(S, SharedResize(Promote(S, c)))
<1>1. Good(Promote(S, c)) /\ SameMap(S, Promote(S, c))
  BY PromoteGood
<1>2. /\ Good(SharedResize(Promote(S, c)))
      /\ SameMap(Promote(S, c), SharedResize(Promote(S, c)))
  BY <1>1, SharedResizeGood
<1> QED BY <1>1, <1>2 DEF SameMap

\* A present client reports size s.
LEMMA SizeSet ==
  ASSUME NEW S, NEW c \in Clients, NEW s \in Sizes, Good(S), alive \subseteq Terminals
  PROVE  LET R == [S EXCEPT !.size[c] = s]
         IN  /\ R \in Registry /\ Shape(R) /\ Owned(R) /\ Locked(R)
             /\ R.mode = S.mode /\ R.term = S.term /\ R.size = [S.size EXCEPT ![c] = s]
             /\ R.owner = S.owner /\ R.locks = S.locks /\ R.pty = S.pty
             /\ R.fg = S.fg /\ R.eff = S.eff
             /\ S.mode[c] # "app" => Front(R)
             /\ S.mode[c] # "attach" => Core(R)
<1> DEFINE R == [S EXCEPT !.size[c] = s]
<1>1. /\ R \in Registry /\ R.mode = S.mode /\ R.term = S.term
      /\ R.size = [S.size EXCEPT ![c] = s] /\ R.writer = S.writer
      /\ R.owner = S.owner /\ R.locks = S.locks /\ R.pty = S.pty
      /\ R.fg = S.fg /\ R.eff = S.eff
  BY DEF Good, Core, Shape, Registry
<1> HIDE DEF R
<1>2. S.size \in [Clients -> Sizes] /\ S.owner \in [Terminals -> Clients \cup {NoClient}]
  BY DEF Good, Core, Shape, Registry
<1>3. Shape(R) /\ Owned(R) /\ Locked(R)
  BY <1>1 DEF Good, Core, Shape, Owned, Locked
<1>4. S.mode[c] # "app" => Front(R)
  BY <1>1, <1>2 DEF Good, Front, Apps
<1>5. ASSUME S.mode[c] # "attach" PROVE Direct(R)
  <2>1. \A t \in Terminals : S.owner[t] # c
    BY <1>5 DEF Good, Core, Owned
  <2> SUFFICES ASSUME NEW t \in alive, S.owner[t] # NoClient
               PROVE  S.pty[t] = <<"direct", R.size[S.owner[t]]>>
    BY <1>1 DEF Direct
  <2> QED BY <1>1, <1>2, <2>1, <1>5 DEF Good, Core, Direct, Owned
<1> QED BY <1>1, <1>3, <1>4, <1>5 DEF Core, R

\* An attached client's new size goes to its own PTY.
LEMMA OwnPtyGood ==
  ASSUME NEW S, NEW c \in Clients, NEW s \in Sizes, Good(S), alive \subseteq Terminals,
         S.mode[c] = "attach"
  PROVE  Sound(S, OwnPty([S EXCEPT !.size[c] = s], c), c)
<1> DEFINE N == [S EXCEPT !.size[c] = s]
           t == S.term[c]
           p == <<"direct", s>>
           R == OwnPty(N, c)
<1>1. /\ N \in Registry /\ Shape(N) /\ Owned(N) /\ Locked(N)
      /\ N.mode = S.mode /\ N.term = S.term /\ N.size = [S.size EXCEPT ![c] = s]
      /\ N.owner = S.owner /\ N.locks = S.locks /\ N.pty = S.pty
      /\ N.fg = S.fg /\ N.eff = S.eff /\ Front(N)
  BY SizeSet
<1> HIDE DEF N
<1>2. /\ S.size \in [Clients -> Sizes] /\ S.owner \in [Terminals -> Clients \cup {NoClient}]
      /\ S.pty \in [Terminals -> PtySize]
  BY DEF Good, Core, Shape, Registry
<1>3. p \in PtySize
  BY DEF PtySize
<1>4. \A u \in Terminals : S.owner[u] = c => u = t
  BY DEF Good, Core, Owned
<1>5. CASE t \in alive
  <2>1. R = [N EXCEPT !.pty[t] = p]
    BY <1>1, <1>2, <1>5 DEF OwnPty
  <2> HIDE DEF R, p
  <2>2. /\ R \in Registry /\ SameMap(N, R) /\ R.pty = [S.pty EXCEPT ![t] = p]
        /\ R.fg = N.fg /\ R.eff = N.eff
    <3> HIDE DEF t
    <3> QED BY <1>1, <1>3, <1>5, <2>1 DEF Registry, SameMap
  <2>3. S.owner[t] = c
    BY <1>5 DEF Good, Core, Owned
  <2>4. Shape(R) /\ Owned(R) /\ Locked(R) /\ Front(R)
    BY <1>1, <2>2 DEF Shape, Owned, Locked, Front, Apps, SameMap
  <2>5. Direct(R)
    <3> SUFFICES ASSUME NEW u \in alive, S.owner[u] # NoClient
                 PROVE  R.pty[u] = <<"direct", N.size[S.owner[u]]>>
      BY <1>1, <2>2 DEF Direct, SameMap
    <3>1. CASE u = t
      BY <1>1, <1>2, <1>5, <2>2, <2>3, <3>1 DEF p
    <3>2. CASE u # t
      BY <1>1, <1>2, <1>4, <2>2, <3>2 DEF Good, Core, Direct
    <3> QED BY <3>1, <3>2
  <2> QED BY <1>1, <2>2, <2>4, <2>5 DEF Sound, Good, Core, SameMap, R, N
<1>6. CASE t \notin alive
  <2>1. R = N
    BY <1>1, <1>6 DEF OwnPty
  <2> HIDE DEF R
  <2>2. Direct(R)
    BY <1>1, <1>2, <1>4, <1>6, <2>1 DEF Good, Core, Direct
  <2> QED BY <1>1, <2>1, <2>2 DEF Sound, Good, Core, R, N
<1> QED BY <1>5, <1>6

LEMMA ResizeGood ==
  ASSUME NEW c \in Clients, NEW s \in Sizes, Resize(c, s), Good(srv), alive \subseteq Terminals
  PROVE  Sound(srv, srv', c)
<1> DEFINE S == IF c \in Present(srv) THEN [srv EXCEPT !.size[c] = s] ELSE srv
<1>1. /\ srv.mode[c] # "pending"
      /\ srv' = CASE S.mode[c] = "attach"  -> OwnPty(S, c)
                  [] S.mode[c] = "observe" -> S
                  [] OTHER                 -> SharedResize(Promote(S, c))
  BY DEF Resize
<1>2. srv.mode[c] \in Modes
  BY DEF Good, Core, Shape, Registry
<1>3. CASE c \notin Present(srv)
  <2>1. S = srv /\ srv.mode[c] = "absent"
    BY <1>3 DEF Present
  <2>2. srv' = SharedResize(srv)
    BY <1>1, <1>3, <2>1 DEF Promote
  <2> QED BY <2>2, SharedResizeGood DEF Sound, SameMap
<1>4. CASE c \in Present(srv)
  <2>1. S = [srv EXCEPT !.size[c] = s]
    BY <1>4
  <2>2. /\ S.mode = srv.mode
        /\ srv.mode[c] # "app" => Front(S)
        /\ srv.mode[c] # "attach" => Core(S)
    BY <2>1, SizeSet
  <2>3. CASE srv.mode[c] = "attach"
    BY <1>1, <2>1, <2>2, <2>3, OwnPtyGood
  <2>4. CASE srv.mode[c] = "observe"
    BY <1>1, <2>2, <2>4 DEF Sound, Good
  <2>5. CASE srv.mode[c] = "app"
    <3>1. srv' = SharedResize(Promote(S, c))
      BY <1>1, <2>2, <2>5
    <3>2. c \in Apps(S)
      BY <2>2, <2>5 DEF Apps
    <3> HIDE DEF S
    <3> QED BY <2>2, <2>5, <3>1, <3>2, PromoteSound DEF Sound, SameMap
  <2> QED BY <1>1, <1>2, <1>4, <2>3, <2>4, <2>5 DEF Modes, Present
<1> QED BY <1>3, <1>4

LEMMA DetachKeyGood ==
  ASSUME NEW c \in Clients, DetachKey(c), Good(srv), alive \subseteq Terminals
  PROVE  Sound(srv, srv', c)
<1> DEFINE P == Promote(srv, c)
           R == IF P.fg # srv.fg THEN SharedResize(P) ELSE P
           S == Tell(R, c)
<1>1. /\ srv.mode[c] = "app"
      /\ srv' = IF c \in Present(S) THEN [S EXCEPT !.writer[c] = "none"] ELSE S
  BY DEF DetachKey
<1>2. c \in Apps(srv) /\ Core(srv)
  BY <1>1 DEF Apps, Good
<1>3. Good(R) /\ SameMap(srv, R)
  BY <1>2, PromoteSound
<1> HIDE DEF R
<1>4. Good(S) /\ OnlyClient(R, S, c)
  BY <1>3, TellGood
<1> HIDE DEF S
<1>5. Good([S EXCEPT !.writer[c] = "none"]) /\ [S EXCEPT !.writer[c] = "none"].mode = S.mode
  <2>1. [S EXCEPT !.writer[c] = "none"].mode = S.mode
    BY <1>4 DEF Good, Core, Shape, Registry
  <2> QED BY <1>4, <2>1, WriterGood
<1> QED BY <1>1, <1>3, <1>4, <1>5 DEF Sound, OnlyClient, SameMap

LEMMA RenderGood ==
  ASSUME Render, Good(srv), alive \subseteq Terminals
  PROVE  Good(srv') /\ SameMap(srv, srv')
<1> DEFINE S == IF srv.fg \in RenderTargets \cap Apps(srv)
                  THEN LayOut(srv, srv.size[srv.fg]) ELSE srv
           f == [c \in Clients |-> S.told[c] \/ (c \in Gone /\ S.writer[c] = "live")]
<1>1. srv' = [S EXCEPT !.told = f]
  BY DEF Render
<1>2. Good(S) /\ SameMap(srv, S)
  <2>1. CASE srv.fg \in RenderTargets \cap Apps(srv)
    <3>1. srv.size[srv.fg] \in Sizes \cup {MinSize}
      BY <2>1 DEF Apps, Good, Core, Shape, Registry
    <3> QED BY <2>1, <3>1, LayOutGood DEF Good
  <2>2. CASE srv.fg \notin RenderTargets \cap Apps(srv)
    BY <2>2 DEF SameMap
  <2> QED BY <2>1, <2>2
<1> HIDE DEF S
<1>3. f \in [Clients -> BOOLEAN]
  <2>1. S.told \in [Clients -> BOOLEAN]
    BY <1>2 DEF Good, Core, Shape, Registry
  <2>2. \A c \in Clients : (S.told[c] \/ (c \in Gone /\ S.writer[c] = "live")) \in BOOLEAN
    BY <2>1
  <2> QED BY <2>2
<1> HIDE DEF f
<1> QED BY <1>1, <1>2, <1>3, ToldGood DEF SameMap

LEMMA HandoffDropsGood ==
  ASSUME NEW c \in Clients, HandoffDrops(c), Good(srv), alive \subseteq Terminals
  PROVE  Sound(srv, srv', c)
<1> DEFINE S == Tell(srv, c)
           W == [S EXCEPT !.writer[c] = "none"]
<1>1. srv' = Remove(W, c)
  BY DEF HandoffDrops, Farewell
<1>2. Good(S) /\ OnlyClient(srv, S, c)
  BY TellGood
<1> HIDE DEF S
<1>3. Good(W) /\ W.mode = S.mode
  <2>1. W.mode = S.mode
    BY <1>2 DEF Good, Core, Shape, Registry
  <2> QED BY <1>2, <2>1, WriterGood
<1> HIDE DEF W
<1>4. Good(Remove(W, c)) /\ OnlyClient(W, Remove(W, c), c)
  BY <1>3, RemoveGood
<1> QED BY <1>1, <1>2, <1>3, <1>4 DEF Sound, OnlyClient

-----------------------------------------------------------------------------
(* The inductive invariant.  A client that has not connected is not in the   *)
(* map: without it a connect could overwrite an owner.                       *)

Rest ==
  /\ link \in [Clients -> {"new", "open", "closed"}]
  /\ alive \subseteq Terminals
  /\ dirty \in BOOLEAN /\ handoff \in BOOLEAN
  /\ todo \subseteq Clients
  /\ why \in {"idle", "broken", "exited", "handoff"}

Fresh == \A c \in Clients : link[c] = "new" => srv.mode[c] = "absent"

IInv == Rest /\ Good(srv) /\ Fresh

LEMMA InitSound == Init => IInv
<1> SUFFICES ASSUME Init PROVE IInv
  OBVIOUS
<1> DEFINE s0 == CHOOSE s \in Sizes : TRUE
<1>1. s0 \in Sizes
  BY ConstantsAssumption
<1> HIDE DEF s0
<1>2. Rest /\ Fresh
  BY DEF Init, Rest, Fresh
<1>3. <<"shared", MinSize>> \in PtySize
  BY DEF PtySize
<1>4. srv \in Registry
  BY <1>1, <1>3 DEF Init, Registry, Modes, s0
<1>5. Shape(srv)
  BY <1>4 DEF Init, Shape, Streams
<1>6. Owned(srv) /\ Locked(srv) /\ Direct(srv) /\ Front(srv)
  BY ConstantsAssumption DEF Init, Owned, Locked, Direct, Front
<1> QED BY <1>2, <1>5, <1>6 DEF IInv, Good, Core

\* What a step owes: a sound registry and no terminal coming back.
LEMMA StepSound ==
  ASSUME IInv, Rest', alive' \subseteq alive, Good(srv'),
         \A c \in Clients : link'[c] = "new" => srv'.mode[c] = "absent"
  PROVE  IInv'
<1>1. Good(srv)'
  BY DEF Good, Core, Shape, Owned, Locked, Direct, Front, Apps
<1> QED BY <1>1 DEF IInv, Fresh

LEMMA ClientEventSound ==
  ASSUME IInv, NEW c \in Clients, ClientEvent(c)
  PROVE  IInv'
<1> USE DEF IInv
<1>1. Rest' /\ alive' \subseteq alive
  BY DEF Rest, ClientEvent, Resize, Connected, Observe, Attach, Input, DetachKey, Detach,
         IgnoredAfterHandoff, Disconnected, WriterDies, Event, Idle
<1>2. alive \subseteq Terminals
  BY DEF Rest
<1>3. \A d \in Clients : link'[d] = "new" => link[d] = "new"
  BY DEF Rest, ClientEvent, Resize, Connected, Observe, Attach, Input, DetachKey, Detach,
         IgnoredAfterHandoff, Disconnected, WriterDies, Event, Arrives
<1>4. link'[c] # "new" \/ srv'.mode = srv.mode
  BY DEF Rest, ClientEvent, Resize, Connected, Observe, Attach, Input, DetachKey, Detach,
         IgnoredAfterHandoff, Disconnected, WriterDies, Event, Arrives, Good, Core, Shape, Registry
<1>5. Sound(srv, srv', c)
  <2>1. CASE \E s \in Sizes : Resize(c, s)
    BY <1>2, <2>1, ResizeGood
  <2>2. CASE \E s \in Sizes, direct \in BOOLEAN : Connected(c, s, direct)
    <3> PICK s \in Sizes, direct \in BOOLEAN : Connected(c, s, direct)
      BY <2>2
    <3>1. CASE Refuses
      <4>1. srv' = [srv EXCEPT !.told = [srv.told EXCEPT ![c] = TRUE]]
        BY <3>1 DEF Connected, Good, Core, Shape, Registry
      <4>2. [srv.told EXCEPT ![c] = TRUE] \in [Clients -> BOOLEAN]
        BY DEF Good, Core, Shape, Registry
      <4> QED BY <4>1, <4>2, ToldGood DEF Sound, SameMap
    <3>2. CASE ~Refuses
      <4>1. srv' = Join(srv, c, s, direct) /\ srv.mode[c] = "absent"
        BY <3>2 DEF Connected, Fresh
      <4> QED BY <1>2, <4>1, JoinGood
    <3> QED BY <3>1, <3>2
  <2>3. CASE \E t \in Terminals : Observe(c, t)
    <3> PICK t \in Terminals : Observe(c, t)
      BY <2>3
    <3>1. CASE srv.mode[c] # "pending" \/ t \notin alive
      BY <1>2, <3>1, TellAndRemoveGood DEF Observe, Sound, OnlyClient
    <3>2. CASE srv.mode[c] = "pending" /\ t \in alive
      <4>1. srv' = Enter(srv, c, "observe", t)
        BY <3>2 DEF Observe
      <4> QED BY <3>2, <4>1, ObserveGood
    <3> QED BY <3>1, <3>2
  <2>4. CASE \E t \in Terminals, takeover \in BOOLEAN : Attach(c, t, takeover)
    <3> PICK t \in Terminals, takeover \in BOOLEAN : Attach(c, t, takeover)
      BY <2>4
    <3>1. CASE srv' = TellAndRemove(srv, c)
      BY <1>2, <3>1, TellAndRemoveGood DEF Sound, OnlyClient
    <3>2. CASE srv' # TellAndRemove(srv, c)
      <4>1. /\ srv.mode[c] = "pending" /\ t \in alive
            /\ srv' = Own(Enter(Evict(srv, srv.owner[t]), c, "attach", t), c, t)
        BY <3>2 DEF Attach
      <4> QED BY <1>2, <4>1, AttachGood
    <3> QED BY <3>1, <3>2
  <2>5. CASE Input(c)
    <3>1. CASE srv.mode[c] # "app"
      BY <2>5, <3>1 DEF Input, Sound
    <3>2. CASE srv.mode[c] = "app"
      <4>1. c \in Apps(srv) /\ Core(srv)
        BY <3>2 DEF Apps, Good
      <4>2. srv' \in {Promote(srv, c), SharedResize(Promote(srv, c))}
        BY <2>5, <3>2 DEF Input
      <4> QED BY <1>2, <4>1, <4>2, PromoteSound DEF Sound, SameMap
    <3> QED BY <3>1, <3>2
  <2>6. CASE DetachKey(c)
    BY <1>2, <2>6, DetachKeyGood
  <2>7. CASE Detach(c)
    <3> DEFINE S == IF srv.mode[c] \in Streams THEN Tell(srv, c) ELSE srv
    <3>1. srv' = RemoveAndResize(S, c)
      BY <2>7 DEF Detach
    <3>2. Good(S) /\ OnlyClient(srv, S, c)
      BY <1>2, TellGood DEF OnlyClient
    <3> HIDE DEF S
    <3> QED BY <1>2, <3>1, <3>2, RemoveAndResizeGood DEF Sound, OnlyClient
  <2>8. CASE IgnoredAfterHandoff(c)
    BY <2>8 DEF IgnoredAfterHandoff, Sound
  <2>9. CASE Disconnected(c)
    BY <1>2, <2>9, RemoveAndResizeGood DEF Disconnected, Sound, OnlyClient
  <2>10. CASE WriterDies(c)
    <3>1. srv' = [srv EXCEPT !.writer[c] = "dead"] /\ srv.mode[c] # "absent"
      BY <2>10 DEF WriterDies, Good, Core, Shape
    <3>2. srv'.mode = srv.mode
      BY <3>1 DEF Good, Core, Shape, Registry
    <3> QED BY <3>1, <3>2, WriterGood DEF Sound
  <2> QED BY <2>1, <2>2, <2>3, <2>4, <2>5, <2>6, <2>7, <2>8, <2>9, <2>10 DEF ClientEvent
<1>6. \A d \in Clients : link'[d] = "new" => srv'.mode[d] = "absent"
  BY <1>3, <1>4, <1>5 DEF Fresh, Sound
<1> HIDE DEF IInv
<1> QED BY <1>1, <1>5, <1>6, StepSound DEF Sound

\* Steps of the event loop itself, one client at a time where it removes.
LEMMA ServerStepSound ==
  ASSUME IInv,
         \/ \E t \in Terminals : PaneDied(t) \/ PaneClosed(t)
         \/ Broadcast \/ SendToForeground \/ Render
         \/ HandoffStarts \/ (\E success \in BOOLEAN : HandoffEnds(success))
         \/ Loop
  PROVE  IInv'
<1>1. /\ Rest /\ Good(srv) /\ Fresh /\ alive \subseteq Terminals
  BY DEF IInv, Rest
<1>2. /\ \A t : StreamsOn(t) \subseteq Clients
      /\ Gone \subseteq RenderTargets /\ RenderTargets \subseteq Clients
      /\ Present(srv) \subseteq Clients
  BY DEF StreamsOn, Gone, RenderTargets, Present
<1>3. link' = link /\ alive' \subseteq alive
  BY DEF PaneDied, PaneClosed, Broadcast, SendToForeground, Render, HandoffStarts, HandoffEnds,
         Loop, Reap, HandoffDrops
<1>4. Rest'
  <2>1. ASSUME NEW set \in SUBSET Clients, NEW r \in {"broken", "exited"}, StartLoop(set, r)
        PROVE  todo' \subseteq Clients /\ why' \in {"idle", "broken", "exited", "handoff"}
    BY <2>1 DEF StartLoop
  <2>2. ASSUME NEW t \in Terminals, PaneDied(t) \/ PaneClosed(t) PROVE Rest'
    BY <1>1, <1>2, <2>1, <2>2 DEF PaneDied, PaneClosed, Rest
  <2>3. CASE Broadcast
    BY <1>1, <2>1, <2>3 DEF Broadcast, Rest
  <2>4. CASE SendToForeground
    BY <1>1, <2>4 DEF SendToForeground, Rest
  <2>5. CASE Render
    <3>1. PICK broken \in SUBSET {c \in RenderTargets : srv.writer[c] = "dead"} :
            StartLoop(Gone \cup broken, "broken")
      BY <2>5 DEF Render
    <3>2. Gone \cup broken \in SUBSET Clients
      BY <1>2
    <3> QED BY <1>1, <2>1, <2>5, <3>1, <3>2 DEF Render, Rest
  <2>6. CASE HandoffStarts
    BY <1>1, <1>2, <2>6 DEF HandoffStarts, Rest
  <2>7. CASE \E success \in BOOLEAN : HandoffEnds(success)
    BY <1>1, <2>7 DEF HandoffEnds, Rest
  <2>8. ASSUME NEW c \in Clients, Reap(c) PROVE Rest'
    <3>1. why \in {"broken", "exited"} /\ StartLoop(todo \ {c}, why) /\ todo \ {c} \in SUBSET Clients
      BY <1>1, <2>8 DEF Reap, Rest
    <3> QED BY <1>1, <2>1, <2>8, <3>1 DEF Reap, Rest
  <2>9. ASSUME NEW c \in Clients, HandoffDrops(c) PROVE Rest'
    BY <1>1, <2>9 DEF HandoffDrops, Rest
  <2> QED BY <2>2, <2>3, <2>4, <2>5, <2>6, <2>7, <2>8, <2>9 DEF Loop
<1>5. /\ Good(srv')
      /\ \A d \in Clients : srv.mode[d] = "absent" => srv'.mode[d] = "absent"
  <2>1. CASE \E t \in Terminals : PaneDied(t) \/ PaneClosed(t)
    BY <1>1, <2>1 DEF PaneDied, PaneClosed
  <2>2. CASE Broadcast
    BY <1>1, <2>2 DEF Broadcast
  <2>3. CASE SendToForeground
    <3>1. srv.fg \in Clients /\ srv' = Send(srv, srv.fg)
      BY <1>1, <2>3 DEF SendToForeground, Good, Front, Apps
    <3> QED BY <1>1, <3>1, SendGood DEF OnlyClient
  <2>4. CASE Render
    BY <1>1, <2>4, RenderGood DEF SameMap
  <2>5. CASE HandoffStarts
    BY <1>1, <2>5 DEF HandoffStarts
  <2>6. CASE \E success \in BOOLEAN : HandoffEnds(success)
    <3> DEFINE F == Foreground(srv, NoClient)
    <3>1. srv' = SharedResize(F)
      BY <2>6 DEF HandoffEnds
    <3>2. Good(F) /\ SameMap(srv, F)
      BY <1>1, ForegroundSame, SameMapCore DEF Good, Core, Shape
    <3> HIDE DEF F
    <3> QED BY <1>1, <3>1, <3>2, SharedResizeGood DEF SameMap
  <2>7. CASE Loop
    <3> PICK c \in Clients : Reap(c) \/ HandoffDrops(c)
      BY <2>7 DEF Loop
    <3>1. CASE Reap(c)
      BY <1>1, <3>1, TellAndRemoveGood, RemoveAndResizeGood DEF Reap, OnlyClient
    <3>2. CASE HandoffDrops(c)
      <4>1. c \in todo /\ Sound(srv, srv', c)
        BY <1>1, <3>2, HandoffDropsGood DEF HandoffDrops
      <4>2. srv'.mode[c] = "absent"
        <5> DEFINE S == Tell(srv, c)
                   W == [S EXCEPT !.writer[c] = "none"]
        <5>1. srv' = Remove(W, c)
          BY <3>2 DEF HandoffDrops, Farewell
        <5>2. Good(S)
          BY <1>1, TellGood
        <5> HIDE DEF S
        <5>3. Good(W)
          BY <5>2, WriterGood
        <5> HIDE DEF W
        <5> QED BY <1>1, <5>1, <5>3, RemoveGood
      <4> QED BY <4>1, <4>2 DEF Sound
    <3> QED BY <3>1, <3>2
  <2> QED BY <2>1, <2>2, <2>3, <2>4, <2>5, <2>6, <2>7
<1>6. \A d \in Clients : link'[d] = "new" => srv'.mode[d] = "absent"
  BY <1>1, <1>3, <1>5 DEF Fresh
<1> QED BY <1>3, <1>4, <1>5, <1>6, StepSound

LEMMA StutterSound == IInv /\ UNCHANGED vars => IInv'
  BY DEF IInv, Rest, Good, Core, Shape, Owned, Locked, Direct, Front, Apps, Fresh, vars

LEMMA NextSound == IInv /\ [Next]_vars => IInv'
  BY ClientEventSound, ServerStepSound, StutterSound DEF Next

LEMMA Invariance == Spec => []IInv
  BY InitSound, NextSound, PTL DEF Spec

-----------------------------------------------------------------------------
(* What follows from it. *)

\* The registry and the loop keep their types, and no client outside the map
\* keeps a writer thread waiting for work (remove_client).
THEOREM TypesHold == Spec => []TypeOK
<1>1. IInv => TypeOK
  BY DEF IInv, Rest, Good, Core, Shape, TypeOK, Present
<1> QED BY <1>1, Invariance, PTL

\* A terminal is owned by exactly the client attached to it, through every
\* takeover, refusal, exit and late event (attach_terminal_client).
THEOREM OwnersHold == Spec => []OwnerIsAttached
<1>1. IInv => OwnerIsAttached
  BY DEF IInv, Good, Core, Owned, OwnerIsAttached
<1> QED BY <1>1, Invariance, PTL

\* The resize lock of a known terminal is held exactly while it is owned
\* (direct_attach_resize_locks).
THEOREM LocksHold == Spec => []LockedIffOwned
<1>1. IInv => LockedIffOwned
  BY DEF IInv, Good, Core, Locked, LockedIffOwned
<1> QED BY <1>1, Invariance, PTL

\* Only its owner sizes an owned PTY (compute_pane_infos, ClientResize).
THEOREM DirectSizesHold == Spec => []DirectSizeKept
<1>1. IInv => DirectSizeKept
  BY DEF IInv, Good, Core, Direct, DirectSizeKept
<1> QED BY <1>1, Invariance, PTL

\* The shared size is that of the foreground client, which is an app client,
\* or the minimum when there is none (sync_foreground_client_state).
THEOREM EffectiveSizeHolds == Spec => []EffectiveSizeFollows
<1>1. IInv => EffectiveSizeFollows
  BY ConstantsAssumption DEF IInv, Good, Front, Apps, EffectiveSizeFollows
<1> QED BY <1>1, Invariance, PTL
=============================================================================
