------------------------ MODULE RenderDeliveryProofs ------------------------
(***************************************************************************)
(* What holds of the frames on their way, for any number of clients, panes  *)
(* and changes: TypeOK, BaselineIsShown and NothingForgotten are invariants *)
(* of RenderDelivery, and no screen goes back to an older state.            *)
(***************************************************************************)
EXTENDS RenderDelivery, SequenceTheorems, TLAPS

(* The variables whose type depends on the client are functions of it.     *)
PerClient ==
    /\ DOMAIN shown = Clients /\ DOMAIN hand = Clients
    /\ DOMAIN slot = Clients /\ DOMAIN base = Clients

(* The writer holds a frame from taking it to having written it.           *)
HandInv == \A c \in Clients : hand[c] # None <=> writer[c] \in {"announce", "write"}

(* What is sent to a client, known to the loop or not, leads to its        *)
(* baseline until its connection or its writer is gone.                    *)
Live(c) == conn[c] \in {"new", "open"} /\ writer[c] # "dead"
Leads(c) == Live(c) /\ base[c] # None => ToBeShown(c) = base[c]
LeadsInv == \A c \in Clients : Leads(c)

Shaped == TypeOK /\ PerClient
Inv == Shaped /\ HandInv /\ LeadsInv

-----------------------------------------------------------------------------
(* Frames and messages.                                                    *)

LEMMA BlankType == ASSUME NEW c \in Clients PROVE Blank(c) \in Frames(c)
  BY RenderConstants DEF Blank, Frames, Versions

LEMMA MessageType ==
  ASSUME NEW c \in Clients, NEW changed \in SUBSET PartsOf(c), NEW frame \in Frames(c)
  PROVE  [x \in changed |-> frame[x]] \in Messages(c)
<1>1. [x \in changed |-> frame[x]] \in [changed -> Versions]
  BY DEF Frames
<1> QED BY <1>1 DEF Messages

LEMMA NoneIsNoFrame ==
  ASSUME NEW c \in Clients PROVE None \notin Frames(c) /\ None \notin Messages(c)
  BY RenderConstants

LEMMA DrawnType ==
  ASSUME NEW c \in Clients, NEW message \in Messages(c), NEW frame \in Frames(c)
  PROVE  Drawn(message, frame) \in Frames(c)
<1>1. PICK changed \in SUBSET PartsOf(c) : message \in [changed -> Versions]
  BY DEF Messages
<1>2. DOMAIN frame = PartsOf(c) /\ DOMAIN message = changed
  BY <1>1 DEF Frames
<1>3. \A x \in PartsOf(c) : (IF x \in changed THEN message[x] ELSE frame[x]) \in Versions
  BY <1>1 DEF Frames
<1> QED BY <1>2, <1>3 DEF Drawn, Frames

LEMMA InHandType ==
  ASSUME Shaped, NEW c \in Clients
  PROVE  InHand(c) \in Frames(c)
  BY DrawnType DEF Shaped, TypeOK, InHand

LEMMA ContentType ==
  ASSUME TypeOK, NEW c \in Clients
  PROVE  Screen(c) \in Frames(c)
<1>1. PartsOf(c) \subseteq Parts
  BY RenderConstants DEF PartsOf, Parts
<1> QED BY <1>1 DEF TypeOK, Screen, Frames

LEMMA PatchedType ==
  ASSUME TypeOK, NEW c \in Clients, Retains(c)
  PROVE  Patched(c) \in Frames(c)
<1>1. PartsOf(c) = Parts /\ base[c] \in Frames(c)
  BY DEF Retains, PartsOf, TypeOK
<1> QED BY <1>1 DEF TypeOK, Patched, Frames

\* The message is drawn over the baseline, or replaces everything.
LEMMA MessageDraws ==
  ASSUME TypeOK, NEW c \in Clients, NEW frame \in Frames(c), NEW before \in Frames(c),
         base[c] # None => before = base[c]
  PROVE  /\ Message(c, frame) \in Messages(c)
         /\ Drawn(Message(c, frame), before) = frame
<1> DEFINE changed == IF c \in Ansi /\ base[c] # None
                      THEN {x \in PartsOf(c) : frame[x] # base[c][x]}
                      ELSE PartsOf(c)
           message == [x \in changed |-> frame[x]]
<1>1. Message(c, frame) = message /\ changed \subseteq PartsOf(c)
  BY DEF Message
<1>2. message \in Messages(c)
  BY <1>1, MessageType
<1>3. \A x \in PartsOf(c) : x \notin changed => before[x] = frame[x]
  OBVIOUS
<1>4. DOMAIN message = changed /\ \A x \in changed : message[x] = frame[x]
  OBVIOUS
<1>5. DOMAIN before = PartsOf(c)
  BY DEF Frames
<1> HIDE DEF changed, message
<1>6. Drawn(message, before) = [x \in PartsOf(c) |-> frame[x]]
  BY <1>3, <1>4, <1>5 DEF Drawn
<1> QED BY <1>1, <1>2, <1>6 DEF Frames

-----------------------------------------------------------------------------
(* The steps.                                                              *)

LEMMA InitInv == Init => Inv
<1> SUFFICES ASSUME Init PROVE Inv
  OBVIOUS
<1>1. TypeOK
  <2>1. content \in [Parts -> Versions] /\ happened \in 0..MaxHappenings
    BY RenderConstants DEF Init, Versions
  <2>2. events \in Seq([kind : Kinds, client : Clients])
    BY DEF Init
  <2>3. \A c \in Clients : /\ shown[c] \in Frames(c)
                           /\ hand[c] = None /\ slot[c] = None /\ base[c] = None
    BY BlankType DEF Init
  <2> QED BY <2>1, <2>2, <2>3 DEF Init, TypeOK
<1>2. PerClient /\ HandInv /\ LeadsInv
  BY DEF Init, PerClient, HandInv, LeadsInv, Leads
<1> QED BY <1>1, <1>2 DEF Inv, Shaped

\* Steps that leave connections, slots and baselines alone.
LEMMA AloneKeeps ==
  ASSUME HandInv, LeadsInv, UNCHANGED <<connVars, slot, base>>
  PROVE  HandInv' /\ LeadsInv'
  BY DEF HandInv, LeadsInv, Leads, Live, ToBeShown, InHand, connVars

\* Baselines may be dropped at any time.
Drops == \A c \in Clients : base'[c] \in {base[c], None}

LEMMA DropsKeep ==
  ASSUME HandInv, LeadsInv, UNCHANGED <<connVars, slot>>, Drops
  PROVE  HandInv' /\ LeadsInv'
<1>1. HandInv'
  BY DEF HandInv, connVars
<1>2. ASSUME NEW c \in Clients PROVE Leads(c)'
  <2>1. ToBeShown(c)' = ToBeShown(c) /\ Live(c)' = Live(c)
    BY DEF ToBeShown, InHand, Live, connVars
  <2>2. Leads(c) /\ base'[c] \in {base[c], None}
    BY <1>2 DEF LeadsInv, Drops
  <2> QED BY <2>1, <2>2 DEF Leads
<1> QED BY <1>1, <1>2 DEF LeadsInv

LEMMA OutputStep ==
  ASSUME Inv, NEW p \in Panes, Output(p) \/ RequestRender(p)
  PROVE  Inv'
<1>1. /\ UNCHANGED <<connVars, slot, base, events, pc, needsRender, needsFull, todo, broken,
                     clients, pending>>
  BY DEF Output, RequestRender, Reader, recVars, loopVars
<1>2. /\ content' \in [Parts -> Versions] /\ dirty' \in [Panes -> {"clean", "partial", "full"}]
      /\ reader' \in [Panes -> {"idle", "notify", "sync"}] /\ renderDirty' \in BOOLEAN
      /\ happened' \in 0..MaxHappenings
  <2>1. CASE Output(p)
    <3>1. content[p] \in 0..MaxVersion /\ content[p] + 1 \in 0..MaxVersion
      BY <2>1, RenderConstants DEF Inv, Shaped, TypeOK, Output, Parts, Versions
    <3>2. content' \in [Parts -> Versions]
      BY <2>1, <3>1 DEF Inv, Shaped, TypeOK, Output, Versions
    <3>3. happened' \in 0..MaxHappenings
      BY <2>1, RenderConstants DEF Inv, Shaped, TypeOK, Output, Happens
    <3> QED BY <2>1, <3>2, <3>3 DEF Inv, Shaped, TypeOK, Output
  <2>2. CASE RequestRender(p)
    BY <2>2 DEF Inv, Shaped, TypeOK, RequestRender
  <2> QED BY <2>1, <2>2
<1>3. TypeOK'
  BY <1>1, <1>2 DEF Inv, Shaped, TypeOK, connVars
<1>4. PerClient'
  BY <1>1 DEF Inv, Shaped, PerClient, connVars
<1> QED BY <1>1, <1>3, <1>4, AloneKeeps DEF Inv, Shaped
Events == [kind : Kinds, client : Clients]

LEMMA PostType ==
  ASSUME events \in Seq(Events), NEW c \in Clients, NEW kind \in Kinds, Post(kind, c)
  PROVE  events' \in Seq(Events)
<1>1. [kind |-> kind, client |-> c] \in Events
  BY DEF Events
<1> QED BY <1>1 DEF Post

\* What a step of the threads owes to a client.
Carried(d) == Live(d)' => Live(d) /\ ToBeShown(d)' = ToBeShown(d)

\* A client comes, sends something, or goes.
LEMMA ClientStep ==
  ASSUME Inv, NEW c \in Clients,
         \/ Join(c) \/ Leave(c) \/ End(c)
         \/ \E kind \in InputKinds : Input(c, kind)
  PROVE  Inv' /\ \A d \in Clients : Carried(d)
<1>1. /\ Thread /\ UNCHANGED <<writer, hand, slot>>
      /\ \/ conn' = conn /\ shown' = shown
         \/ conn[c] = "new" /\ conn' = [conn EXCEPT ![c] = "open"] /\ shown' = shown
         \/ conn' = [conn EXCEPT ![c] = "closed"] /\ shown' = [shown EXCEPT ![c] = Blank(c)]
         \/ conn[c] = "closed" /\ conn' = [conn EXCEPT ![c] = "ended"] /\ shown' = shown
  BY DEF Join, Leave, End, Input, connVars
<1>2. happened' \in 0..MaxHappenings
  BY RenderConstants DEF Inv, Shaped, TypeOK, Join, Leave, End, Input, Happens
<1>3. events' \in Seq(Events)
  <2>1. events \in Seq(Events) /\ InputKinds \subseteq Kinds
        /\ "connected" \in Kinds /\ "disconnected" \in Kinds
    BY DEF Inv, Shaped, TypeOK, Events, Kinds
  <2> QED BY <2>1, PostType DEF Join, Leave, End, Input
<1>4. /\ conn' \in [Clients -> {"new", "open", "closed", "ended"}]
      /\ DOMAIN shown' = Clients
      /\ \A d \in Clients : shown'[d] \in Frames(d)
  BY <1>1, BlankType DEF Inv, Shaped, TypeOK, PerClient
<1>5. Shaped'
  BY <1>1, <1>2, <1>3, <1>4
     DEF Inv, Shaped, TypeOK, PerClient, Thread, termVars, loopVars, recVars, Events
<1>6. HandInv'
  BY <1>1 DEF Inv, HandInv
<1>7. ASSUME NEW d \in Clients PROVE Leads(d)' /\ Carried(d)
  <2>1. Leads(d) /\ base'[d] = base[d]
    BY <1>1 DEF Inv, LeadsInv, Thread, recVars
  <2>2. Live(d)' => Live(d) /\ shown'[d] = shown[d]
    BY <1>1 DEF Inv, Shaped, TypeOK, PerClient, Live
  <2> QED BY <1>1, <2>1, <2>2 DEF Leads, ToBeShown, InHand, Carried
<1> QED BY <1>5, <1>6, <1>7 DEF Inv, LeadsInv

\* The writer moves a frame on: what is to be shown stays the same.
LEMMA WriterStep ==
  ASSUME Inv, NEW c \in Clients, Take(c) \/ Announce(c) \/ Write(c) \/ WriteFails(c)
  PROVE  Inv' /\ \A d \in Clients : Carried(d)
<1>1. Thread /\ UNCHANGED <<conn, happened>>
  BY DEF Take, Announce, Write, WriteFails
<1>2. events' \in Seq(Events)
  <2>1. events \in Seq(Events) /\ "drained" \in Kinds
    BY DEF Inv, Shaped, TypeOK, Events, Kinds
  <2> QED BY <2>1, PostType DEF Take, Announce, Write, WriteFails
<1>3. \A d \in Clients : /\ shown[d] \in Frames(d)
                         /\ hand[d] \in Messages(d) \cup {None}
                         /\ slot[d] \in Messages(d) \cup {None}
  BY DEF Inv, Shaped, TypeOK
<1>4. hand[c] # None <=> writer[c] \in {"announce", "write"}
  BY DEF Inv, HandInv
<1>5. /\ writer' \in [Clients -> {"wait", "announce", "write", "dead"}]
      /\ DOMAIN shown' = Clients /\ DOMAIN hand' = Clients /\ DOMAIN slot' = Clients
  BY DEF Inv, Shaped, TypeOK, PerClient, Take, Announce, Write, WriteFails
<1>6. ASSUME NEW d \in Clients \ {c}
      PROVE  /\ shown'[d] = shown[d] /\ hand'[d] = hand[d] /\ slot'[d] = slot[d]
             /\ writer'[d] = writer[d]
  BY DEF Inv, Shaped, TypeOK, PerClient, Take, Announce, Write, WriteFails
<1>7. /\ shown'[c] \in Frames(c)
      /\ hand'[c] \in Messages(c) \cup {None} /\ slot'[c] \in Messages(c) \cup {None}
      /\ hand'[c] # None <=> writer'[c] \in {"announce", "write"}
      /\ writer'[c] # "dead" => writer[c] # "dead" /\ ToBeShown(c)' = ToBeShown(c)
  <2>1. CASE Take(c)
    BY <1>3, <1>4, <2>1 DEF Inv, Shaped, TypeOK, PerClient, Take, ToBeShown, InHand
  <2>2. CASE Announce(c)
    BY <1>3, <1>4, <2>2 DEF Inv, Shaped, TypeOK, PerClient, Announce, ToBeShown, InHand
  <2>3. CASE Write(c)
    <3>1. hand[c] \in Messages(c) /\ hand[c] # None
      BY <1>3, <1>4, <2>3 DEF Write
    <3>2. shown'[c] = Drawn(hand[c], shown[c]) /\ shown'[c] \in Frames(c)
      BY <1>3, <2>3, <3>1, DrawnType DEF Inv, Shaped, PerClient, Write
    <3>3. hand'[c] = None /\ slot'[c] = slot[c] /\ writer'[c] = "wait" /\ writer[c] = "write"
      BY <2>3 DEF Inv, Shaped, TypeOK, PerClient, Write
    <3> QED BY <1>3, <3>1, <3>2, <3>3 DEF ToBeShown, InHand
  <2>4. CASE WriteFails(c)
    BY <1>3, <1>4, <2>4 DEF Inv, Shaped, TypeOK, PerClient, WriteFails
  <2> QED BY <2>1, <2>2, <2>3, <2>4
<1>8. Shaped'
  <2>1. \A d \in Clients : /\ shown'[d] \in Frames(d)
                           /\ hand'[d] \in Messages(d) \cup {None}
                           /\ slot'[d] \in Messages(d) \cup {None}
    BY <1>3, <1>6, <1>7
  <2> QED BY <1>1, <1>2, <1>5, <2>1
          DEF Inv, Shaped, TypeOK, PerClient, Thread, termVars, loopVars, recVars, Events
<1>9. HandInv'
  BY <1>6, <1>7 DEF Inv, HandInv
<1>10. ASSUME NEW d \in Clients PROVE Leads(d)' /\ Carried(d)
  <2>1. Leads(d) /\ base'[d] = base[d]
    BY <1>1 DEF Inv, LeadsInv, Thread, recVars
  <2>2. Live(d)' => Live(d) /\ ToBeShown(d)' = ToBeShown(d)
    <3>1. CASE d = c
      BY <1>1, <1>7, <3>1 DEF Live
    <3>2. CASE d # c
      BY <1>1, <1>6, <3>2 DEF Live, ToBeShown, InHand
    <3> QED BY <3>1, <3>2
  <2> QED BY <2>1, <2>2 DEF Leads, Carried
<1> QED BY <1>8, <1>9, <1>10 DEF Inv, LeadsInv
-----------------------------------------------------------------------------
(* The loop handles an event.                                              *)

Layout ==
    /\ content' \in [Parts -> Versions]
    /\ dirty' \in [Panes -> {"clean", "partial", "full"}]
    /\ happened' \in 0..MaxHappenings

LEMMA ResizeType ==
  ASSUME TypeOK, NEW panes \in SUBSET Panes, Resize(panes)
  PROVE  Layout
<1>1. CASE UNCHANGED <<content, dirty, happened>>
  BY <1>1 DEF TypeOK, Layout
<1>2. CASE ~UNCHANGED <<content, dirty, happened>>
  <2>1. /\ \A p \in panes : content[p] < MaxVersion
        /\ content' = [x \in Parts |-> IF x \in panes THEN content[x] + 1 ELSE content[x]]
        /\ dirty' = [p \in Panes |-> IF p \in panes THEN "full" ELSE dirty[p]]
        /\ Happens
    BY <1>2 DEF Resize
  <2>2. \A x \in Parts : content[x] \in 0..MaxVersion
    BY DEF TypeOK, Versions
  <2>3. \A x \in Parts : x \in panes => content[x] + 1 \in 0..MaxVersion
    BY <2>1, <2>2, RenderConstants
  <2>4. content' \in [Parts -> Versions]
    BY <2>1, <2>2, <2>3 DEF Versions
  <2>5. happened' \in 0..MaxHappenings
    BY <2>1, RenderConstants DEF TypeOK, Happens
  <2>6. dirty' \in [Panes -> {"clean", "partial", "full"}]
    BY <2>1 DEF TypeOK
  <2> QED BY <2>4, <2>5, <2>6 DEF Layout
<1> QED BY <1>1, <1>2

LEMMA RelayoutType ==
  ASSUME Shaped, NEW present, Relayout(present) \/ KeepsLayout(present)
  PROVE  Layout /\ Drops /\ DOMAIN base' = Clients
<1>1. CASE KeepsLayout(present)
  BY <1>1 DEF KeepsLayout, Shaped, TypeOK, Layout, Drops
<1>2. CASE base' = [c \in Clients |-> None] /\ Resize(Panes)
  BY <1>2, ResizeType DEF Shaped, Drops
<1> QED BY <1>1, <1>2 DEF Relayout

\* What a step of the loop leaves alone, and what types it has to show.
LEMMA LoopShaped ==
  ASSUME Inv, LoopFrame, UNCHANGED slot, Layout, Drops, DOMAIN base' = Clients,
         renderDirty' \in BOOLEAN, events' \in Seq(Events), pc' \in {"turn", "retained", "full"},
         needsRender' \in BOOLEAN, needsFull' \in BOOLEAN,
         todo' \subseteq Clients, broken' \subseteq Clients, clients' \subseteq Clients,
         pending' \in [Clients -> BOOLEAN]
  PROVE  Inv'
<1>1. \A c \in Clients : base'[c] \in Frames(c) \cup {None}
  BY DEF Inv, Shaped, TypeOK, Drops
<1>2. Shaped'
  BY <1>1 DEF Inv, Shaped, TypeOK, PerClient, LoopFrame, connVars, Layout, Events
<1> QED BY <1>2, DropsKeep DEF Inv, LoopFrame

LEMMA ReceivedType ==
  ASSUME TypeOK, NEW c, NEW kind, Received(kind, c)
  PROVE  /\ LoopFrame /\ UNCHANGED <<renderDirty, slot, pc, todo, broken>>
         /\ events' \in Seq(Events)
<1>1. events \in Seq(Events) /\ events # <<>> /\ events' = Tail(events)
  BY DEF Received, TypeOK, Events
<1> QED BY <1>1 DEF Received

\* The render flags as an event leaves them.
LEMMA AskedType ==
  ASSUME TypeOK, FullRender \/ UNCHANGED <<needsRender, needsFull>>
  PROVE  needsRender' \in BOOLEAN /\ needsFull' \in BOOLEAN
  BY DEF FullRender, TypeOK

LEMMA EventStep ==
  ASSUME Inv, HandleEvent
  PROVE  Inv'
<1>1. PICK c \in Clients :
        \/ Connected(c) \/ Disconnected(c) \/ WriterDrained(c)
        \/ Interaction(c) \/ Typed(c) \/ OtherInput(c) \/ Resized(c) \/ FromNobody(c)
  BY DEF HandleEvent
<1>2. TypeOK /\ Shaped
  BY DEF Inv, Shaped
<1>3. /\ LoopFrame /\ UNCHANGED <<renderDirty, slot, pc, todo, broken>>
      /\ events' \in Seq(Events)
  BY <1>1, <1>2, ReceivedType
     DEF Connected, Disconnected, WriterDrained, Interaction, Typed, OtherInput, Resized,
         FromNobody
<1>4. needsRender' \in BOOLEAN /\ needsFull' \in BOOLEAN
  BY <1>1, <1>2, AskedType
     DEF Connected, Disconnected, WriterDrained, Interaction, Typed, OtherInput, Resized,
         FromNobody, recVars
<1>5. clients' \subseteq Clients /\ pending' \in [Clients -> BOOLEAN]
  <2>1. clients \subseteq Clients /\ pending \in [Clients -> BOOLEAN]
    BY <1>2 DEF TypeOK
  <2>2. CASE Connected(c)
    BY <2>1, <2>2 DEF Connected, Forget
  <2>3. CASE Disconnected(c)
    BY <2>1, <2>3 DEF Disconnected, Forget
  <2>4. CASE WriterDrained(c)
    BY <2>1, <2>4 DEF WriterDrained
  <2>5. CASE Interaction(c)
    <3>1. pending' = [pending EXCEPT ![c] = pending[c] \/ Head(events).kind = "focus"]
          /\ clients' = clients
      BY <2>5 DEF Interaction
    <3>2. (pending[c] \/ Head(events).kind = "focus") \in BOOLEAN
      OBVIOUS
    <3> QED BY <2>1, <3>1, <3>2
  <2>6. CASE Typed(c) \/ OtherInput(c) \/ Resized(c) \/ FromNobody(c)
    BY <2>1, <2>6 DEF Typed, OtherInput, Resized, FromNobody, recVars
  <2> QED BY <1>1, <2>2, <2>3, <2>4, <2>5, <2>6
<1>6. Layout /\ Drops /\ DOMAIN base' = Clients
  <2>1. DOMAIN base = Clients
    BY <1>2 DEF Shaped, PerClient
  <2>2. \/ \E present : Relayout(present) \/ KeepsLayout(present)
        \/ /\ \/ base' = base
              \/ base' = [base EXCEPT ![c] = None]
              \/ base' = [base EXCEPT ![c] = @]
           /\ UNCHANGED <<happened, content, dirty>>
        \/ /\ base' = [base EXCEPT ![c] = None]
           /\ c \in clients /\ Stream[c] # None /\ Resize({Stream[c]})
    <3>1. CASE Connected(c)
      BY <3>1 DEF Connected
    <3>2. CASE Disconnected(c)
      BY <3>2 DEF Disconnected
    <3>3. CASE WriterDrained(c) \/ Typed(c) \/ FromNobody(c)
      BY <3>3 DEF WriterDrained, Typed, FromNobody, recVars
    <3>4. CASE Interaction(c)
      BY <3>4 DEF Interaction
    <3>5. CASE OtherInput(c)
      BY <3>5 DEF OtherInput
    <3>6. CASE Resized(c)
      BY <3>6 DEF Resized
    <3> QED BY <1>1, <3>1, <3>2, <3>3, <3>4, <3>5, <3>6
  <2>3. Stream[c] # None => {Stream[c]} \in SUBSET Panes
    BY RenderConstants
  <2>4. ASSUME UNCHANGED <<happened, content, dirty>> PROVE Layout
    BY <1>2, <2>4 DEF Layout, TypeOK
  <2>5. ASSUME \/ base' = base
               \/ base' = [base EXCEPT ![c] = None]
               \/ base' = [base EXCEPT ![c] = @]
        PROVE  Drops /\ DOMAIN base' = Clients
    BY <2>1, <2>5 DEF Drops
  <2> QED BY <1>2, <2>2, <2>3, <2>4, <2>5, RelayoutType, ResizeType
<1>7. /\ renderDirty' \in BOOLEAN /\ pc' \in {"turn", "retained", "full"}
      /\ todo' \subseteq Clients /\ broken' \subseteq Clients
  BY <1>2, <1>3 DEF TypeOK
<1> QED BY <1>3, <1>4, <1>5, <1>6, <1>7, LoopShaped

-----------------------------------------------------------------------------
(* The loop renders.                                                       *)

LEMMA TurnStep ==
  ASSUME Inv, NextTurn \/ Render \/ Change
  PROVE  Inv'
<1>1. TypeOK /\ Shaped /\ events \in Seq(Events)
  BY DEF Inv, Shaped, TypeOK, Events
<1>2. LoopFrame /\ UNCHANGED <<slot, events, broken, clients, base, pending>>
  BY DEF NextTurn, Render, Change, LoopFrame, recVars
<1>3. Layout
  <2>1. CASE NextTurn \/ Render
    BY <1>1, <2>1 DEF NextTurn, Render, Layout, TypeOK
  <2>2. CASE Change
    <3>1. content[Chrome] + 1 \in 0..MaxVersion
      BY <1>1, <2>2, RenderConstants DEF Change, TypeOK, Parts, Versions
    <3>2. happened' \in 0..MaxHappenings
      BY <1>1, <2>2, RenderConstants DEF Change, Happens, TypeOK
    <3> QED BY <1>1, <2>2, <3>1, <3>2 DEF Change, Layout, TypeOK, Versions
  <2> QED BY <2>1, <2>2
<1>4. /\ renderDirty' \in BOOLEAN /\ pc' \in {"turn", "retained", "full"}
      /\ needsRender' \in BOOLEAN /\ needsFull' \in BOOLEAN /\ todo' \subseteq Clients
  BY <1>1 DEF NextTurn, Render, Change, FullRender, TypeOK
<1>5. Drops /\ DOMAIN base' = Clients /\ broken' \subseteq Clients /\ clients' \subseteq Clients
      /\ pending' \in [Clients -> BOOLEAN]
  BY <1>1, <1>2 DEF Drops, Shaped, TypeOK, PerClient
<1> QED BY <1>1, <1>2, <1>3, <1>4, <1>5, LoopShaped

\* A frame delivered to c: it becomes the baseline only with the message that leads to it.
LEMMA DeliverKeeps ==
  ASSUME Inv, NEW c \in Clients, NEW frame \in Frames(c), UNCHANGED connVars,
         Deliver(c, frame, Outcome(c, frame))
  PROVE  /\ DOMAIN slot' = Clients /\ DOMAIN base' = Clients
         /\ pending' \in [Clients -> BOOLEAN]
         /\ \A d \in Clients : /\ slot'[d] \in Messages(d) \cup {None}
                               /\ base'[d] \in Frames(d) \cup {None}
         /\ HandInv' /\ LeadsInv'
<1> DEFINE queued == Outcome(c, frame) = "queued"
<1>1. TypeOK /\ Shaped
  BY DEF Inv, Shaped
<1>2. pending' \in [Clients -> BOOLEAN]
  <2>1. \E b \in BOOLEAN : pending' = [pending EXCEPT ![c] = b]
    <3>1. pending[c] \in BOOLEAN
      BY <1>1 DEF TypeOK
    <3>2. \/ pending' = [pending EXCEPT ![c] = FALSE]
          \/ pending' = [pending EXCEPT ![c] = TRUE]
          \/ pending' = [pending EXCEPT ![c] = pending[c]]
      BY DEF Deliver
    <3> QED BY <3>1, <3>2
  <2> QED BY <1>1, <2>1 DEF TypeOK
<1>3. HandInv'
  BY DEF Inv, HandInv, connVars
<1>4. CASE ~queued
  <2>1. slot' = slot /\ base' = base
    BY <1>4 DEF Deliver
  <2> QED BY <1>1, <1>2, <1>3, <2>1, AloneKeeps DEF Inv, Shaped, TypeOK, PerClient
<1>5. CASE queued
  <2>1. /\ slot' = [slot EXCEPT ![c] = Message(c, frame)]
        /\ base' = [base EXCEPT ![c] = frame]
    BY <1>5 DEF Deliver
  <2>2. slot[c] = None /\ writer[c] # "dead"
    BY <1>5 DEF Outcome
  <2>3. /\ DOMAIN slot' = Clients /\ DOMAIN base' = Clients
        /\ slot'[c] = Message(c, frame) /\ base'[c] = frame
        /\ \A d \in Clients \ {c} : slot'[d] = slot[d] /\ base'[d] = base[d]
    BY <1>1, <2>1 DEF Shaped, PerClient
  <2>4. Message(c, frame) \in Messages(c)
    BY <1>1, MessageType DEF Message
  <2>5. Leads(c)'
    <3>1. CASE ~Live(c)
      BY <3>1 DEF Leads, Live, connVars
    <3>2. CASE Live(c)
      <4>1. InHand(c) \in Frames(c) /\ InHand(c)' = InHand(c)
        BY <1>1, InHandType DEF InHand, connVars
      <4>2. base[c] # None => InHand(c) = base[c]
        BY <2>2, <3>2 DEF Inv, LeadsInv, Leads, ToBeShown
      <4>3. Drawn(Message(c, frame), InHand(c)) = frame
        BY <1>1, <4>1, <4>2, MessageDraws
      <4>4. ToBeShown(c)' = frame
        BY <2>3, <2>4, <4>1, <4>3, NoneIsNoFrame DEF ToBeShown
      <4> QED BY <2>3, <4>4 DEF Leads
    <3> QED BY <3>1, <3>2
  <2>6. ASSUME NEW d \in Clients \ {c} PROVE Leads(d)'
    BY <2>3 DEF Inv, LeadsInv, Leads, Live, ToBeShown, InHand, connVars
  <2>7. \A d \in Clients : /\ slot'[d] \in Messages(d) \cup {None}
                           /\ base'[d] \in Frames(d) \cup {None}
    BY <1>1, <2>3, <2>4 DEF TypeOK
  <2> QED BY <1>2, <1>3, <2>3, <2>5, <2>6, <2>7 DEF LeadsInv
<1> QED BY <1>4, <1>5

LEMMA FrameStep ==
  ASSUME Inv, RetainedPatch \/ \E c \in Clients : RenderClient(c)
  PROVE  Inv'
<1>1. TypeOK /\ Shaped
  BY DEF Inv, Shaped
<1>2. /\ LoopFrame /\ UNCHANGED <<content, happened, renderDirty, events>>
      /\ dirty' \in [Panes -> {"clean", "partial", "full"}]
  BY <1>1 DEF RetainedPatch, RenderClient, TypeOK
<1>3. /\ clients' \subseteq Clients /\ todo' \subseteq Clients /\ broken' \subseteq Clients
      /\ pc' \in {"turn", "retained", "full"}
      /\ needsRender' \in BOOLEAN /\ needsFull' \in BOOLEAN
  <2>1. CASE RetainedPatch
    BY <1>1, <2>1 DEF RetainedPatch, Finish, ToFull, TypeOK
  <2>2. CASE \E c \in Clients : RenderClient(c)
    BY <1>1, <2>2 DEF RenderClient, TypeOK
  <2> QED BY <2>1, <2>2
<1>4. \E c \in Clients : \E frame \in Frames(c) : Deliver(c, frame, Outcome(c, frame))
  <2>1. CASE RetainedPatch
    <3>1. PICK c \in clients : Retains(c) /\ Deliver(c, Patched(c), Outcome(c, Patched(c)))
      BY <2>1 DEF RetainedPatch
    <3>2. c \in Clients
      BY <1>1 DEF TypeOK
    <3>3. Patched(c) \in Frames(c)
      BY <1>1, <3>1, <3>2, PatchedType
    <3> QED BY <3>1, <3>2, <3>3
  <2>2. CASE \E c \in Clients : RenderClient(c)
    BY <1>1, <2>2, ContentType DEF RenderClient
  <2> QED BY <2>1, <2>2
<1>5. /\ DOMAIN slot' = Clients /\ DOMAIN base' = Clients
      /\ pending' \in [Clients -> BOOLEAN]
      /\ \A d \in Clients : /\ slot'[d] \in Messages(d) \cup {None}
                            /\ base'[d] \in Frames(d) \cup {None}
      /\ HandInv' /\ LeadsInv'
  BY <1>2, <1>4, DeliverKeeps DEF LoopFrame
<1>6. Shaped'
  BY <1>1, <1>2, <1>3, <1>5 DEF Shaped, TypeOK, PerClient, LoopFrame, connVars
<1> QED BY <1>5, <1>6 DEF Inv

LEMMA EndStep ==
  ASSUME Inv, RetainedFallback \/ DrawnForNobody \/ RenderDone
  PROVE  Inv'
<1>1. TypeOK /\ Shaped /\ events \in Seq(Events)
  BY DEF Inv, Shaped, TypeOK, Events
<1>2. LoopFrame /\ UNCHANGED <<slot, events, renderDirty>>
  BY DEF RetainedFallback, DrawnForNobody, RenderDone
<1>3. /\ clients' \subseteq Clients /\ todo' \subseteq Clients /\ broken' \subseteq Clients
      /\ pc' \in {"turn", "retained", "full"}
      /\ needsRender' \in BOOLEAN /\ needsFull' \in BOOLEAN
      /\ pending' \in [Clients -> BOOLEAN]
  <2>1. CASE RetainedFallback
    BY <1>1, <2>1 DEF RetainedFallback, ToFull, TypeOK, recVars
  <2>2. CASE DrawnForNobody
    BY <1>1, <2>2 DEF DrawnForNobody, Finish, TypeOK, recVars
  <2>3. CASE RenderDone
    BY <1>1, <2>3 DEF RenderDone, Finish, Forget, TypeOK
  <2> QED BY <2>1, <2>2, <2>3
<1>4. Layout /\ Drops /\ DOMAIN base' = Clients
  <2>1. CASE RenderDone
    BY <1>1, <2>1, RelayoutType DEF RenderDone
  <2>2. CASE RetainedFallback \/ DrawnForNobody
    <3>1. UNCHANGED <<content, happened, base>>
          /\ dirty' \in [Panes -> {"clean", "partial", "full"}]
      BY <1>1, <2>2 DEF RetainedFallback, DrawnForNobody, recVars, TypeOK
    <3> QED BY <1>1, <3>1 DEF Layout, Drops, Shaped, TypeOK, PerClient
  <2> QED BY <2>1, <2>2
<1>5. renderDirty' \in BOOLEAN
  BY <1>1, <1>2 DEF TypeOK
<1> QED BY <1>1, <1>2, <1>3, <1>4, <1>5, LoopShaped

-----------------------------------------------------------------------------
(* Nothing is forgotten: what the loop still owes to a client.             *)

\* A writer dies only of a connection that is gone.
DeadInv == \A c \in Clients : writer[c] = "dead" => conn[c] \in {"closed", "ended"}

At(k, kind, c) == events[k] = [kind |-> kind, client |-> c]

\* The end of a connection that the loop knows, or is yet to know, is still to be told.
EndQueued(c) ==
    \E j \in 1..Len(events) :
        /\ At(j, "disconnected", c)
        /\ \A i \in 1..Len(events) : At(i, "connected", c) => i < j
EndInv ==
    \A c \in Clients :
        conn[c] = "ended" /\ (c \in clients \/ Queued("connected", c)) => EndQueued(c)

LoopInv ==
    /\ pc = "full" => todo \subseteq clients
    /\ broken # {} => pc = "full"
    /\ \A c \in broken : c \in clients /\ writer[c] = "dead"
    /\ pc = "retained" => ~needsFull

\* A render is due, and of whole frames.
Due == needsRender /\ pc # "full"
DueWhole == needsFull /\ pc # "full"

\* Not counting clients whose turn in the present render is yet to come.
Serves(c) == c \in clients /\ Live(c) /\ ~(pc = "full" /\ c \in todo)

\* A frame left for later waits for a drain.
Waits(c) == pending[c] => Due \/ DrainComing(c)

\* Otherwise what is on its way is what there is, or it is known that it is not.
Fresh(c) ==
    ~pending[c] =>
        \/ Due \/ EndComing
        \/ \A x \in PartsOf(c) : renderDirty \/ ~Steady(x) \/ ToBeShown(c)[x] = content[x]

\* The baseline of the only client can be patched: what differs is dirty.
Patchable(c) ==
    ~pending[c] /\ Stream[c] = None /\ base[c] # None =>
        \/ DueWhole \/ EndComing \/ clients # {c}
        \/ /\ base[c][Chrome] = content[Chrome]
           /\ \A p \in Panes : dirty[p] = "clean" => base[c][p] = content[p]

OwedInv == \A c \in Clients : Serves(c) => Waits(c) /\ Fresh(c) /\ Patchable(c)

Owing == DeadInv /\ EndInv /\ LoopInv /\ OwedInv

(* The channel.                                                            *)

LEMMA Posted ==
  ASSUME events \in Seq(Events), NEW c \in Clients, NEW kind \in Kinds, Post(kind, c)
  PROVE  /\ Len(events') = Len(events) + 1 /\ Len(events) \in Nat
         /\ \A k \in 1..Len(events) : events'[k] = events[k]
         /\ events'[Len(events) + 1] = [kind |-> kind, client |-> c]
<1>1. events' = Append(events, [kind |-> kind, client |-> c])
  BY DEF Post
<1>2. [kind |-> kind, client |-> c] \in Events
  BY DEF Events
<1> QED BY <1>1, <1>2, AppendProperties

LEMMA PostedQueue ==
  ASSUME events \in Seq(Events), NEW c \in Clients, NEW kind \in Kinds, Post(kind, c)
  PROVE  /\ \A other, d : Queued(other, d) => Queued(other, d)'
         /\ Queued(kind, c)'
         /\ \A other, d : Queued(other, d)' => Queued(other, d) \/ (other = kind /\ d = c)
<1>1. /\ Len(events') = Len(events) + 1 /\ Len(events) \in Nat
      /\ \A k \in 1..Len(events) : events'[k] = events[k]
      /\ events'[Len(events) + 1] = [kind |-> kind, client |-> c]
  BY Posted
<1>2. 1..Len(events') = (1..Len(events)) \cup {Len(events) + 1}
  BY <1>1
<1>3. \A other, d : [kind |-> other, client |-> d] = [kind |-> kind, client |-> c]
                      => other = kind /\ d = c
  OBVIOUS
<1> QED BY <1>1, <1>2, <1>3 DEF Queued

LEMMA ReceivedQueue ==
  ASSUME events \in Seq(Events), NEW c, NEW kind, Received(kind, c)
  PROVE  /\ Len(events) \in Nat \ {0} /\ Len(events') = Len(events) - 1
         /\ \A k \in 1..Len(events') : events'[k] = events[k + 1]
         /\ At(1, kind, c)
         /\ \A other, d : Queued(other, d)' => Queued(other, d)
         /\ \A other, d : Queued(other, d) /\ <<other, d>> # <<kind, c>> => Queued(other, d)'
<1>1. /\ Len(events) \in Nat \ {0} /\ Len(events') = Len(events) - 1
      /\ \A k \in 1..Len(events') : events'[k] = events[k + 1]
      /\ events[1] = [kind |-> kind, client |-> c]
  <2>1. events # <<>> /\ events' = Tail(events) /\ Head(events) = [kind |-> kind, client |-> c]
    BY DEF Received
  <2> QED BY <2>1, HeadTailProperties
<1>2. \A k \in 1..Len(events') : k + 1 \in 1..Len(events)
  BY <1>1
<1>3. \A k \in 1..Len(events) : k = 1 \/ (k - 1 \in 1..Len(events') /\ events'[k - 1] = events[k])
  BY <1>1
<1>4. \A other, d : Queued(other, d)' => Queued(other, d)
  BY <1>1, <1>2 DEF Queued
<1>5. ASSUME NEW other, NEW d, Queued(other, d), <<other, d>> # <<kind, c>>
      PROVE  Queued(other, d)'
  <2>1. PICK k \in 1..Len(events) : events[k] = [kind |-> other, client |-> d]
    BY <1>5 DEF Queued
  <2>2. k # 1
    BY <1>1, <1>5, <2>1
  <2> QED BY <1>3, <2>1, <2>2 DEF Queued
<1> QED BY <1>1, <1>4, <1>5 DEF At

\* A post leaves the ends to be told where they are.
LEMMA PostEnds ==
  ASSUME events \in Seq(Events), EndInv, NEW c \in Clients, NEW kind \in Kinds, Post(kind, c),
         clients' = clients,
         \A d \in Clients : conn'[d] = "ended" => conn[d] = "ended" \/ d = c,
         conn'[c] = "ended" =>
           kind = "disconnected" \/ (kind # "connected" /\ conn[c] = "ended")
  PROVE  EndInv'
<1> SUFFICES ASSUME NEW d \in Clients, conn'[d] = "ended",
                    d \in clients' \/ Queued("connected", d)'
             PROVE  EndQueued(d)'
  BY DEF EndInv
<1>1. /\ Len(events') = Len(events) + 1 /\ Len(events) \in Nat
      /\ \A k \in 1..Len(events) : events'[k] = events[k]
      /\ events'[Len(events) + 1] = [kind |-> kind, client |-> c]
  BY Posted
<1>2. CASE d = c /\ kind = "disconnected"
  <2> DEFINE j == Len(events')
  <2>1. j \in 1..Len(events') /\ events'[j] = [kind |-> "disconnected", client |-> d]
    BY <1>1, <1>2
  <2>2. ASSUME NEW i \in 1..Len(events'), At(i, "connected", d)' PROVE i < j
    <3>1. i # j
      BY <2>1, <2>2 DEF At
    <3> QED BY <1>1, <3>1
  <2> QED BY <2>1, <2>2 DEF EndQueued, At
<1>3. CASE ~(d = c /\ kind = "disconnected")
  <2>1. conn[d] = "ended" /\ (d = c => kind # "connected")
    BY <1>3
  <2>2. d \in clients \/ Queued("connected", d)
    BY <2>1, PostedQueue
  <2>3. PICK j \in 1..Len(events) :
          /\ At(j, "disconnected", d)
          /\ \A i \in 1..Len(events) : At(i, "connected", d) => i < j
    BY <2>1, <2>2 DEF EndInv, EndQueued
  <2>4. j \in 1..Len(events') /\ At(j, "disconnected", d)'
    BY <1>1, <2>3 DEF At
  <2>5. ASSUME NEW i \in 1..Len(events'), At(i, "connected", d)' PROVE i < j
    <3>1. i # Len(events) + 1
      BY <1>1, <2>1, <2>5 DEF At
    <3> QED BY <1>1, <2>3, <2>5, <3>1 DEF At
  <2> QED BY <2>4, <2>5 DEF EndQueued
<1> QED BY <1>2, <1>3

LEMMA ReceiveEnds ==
  ASSUME events \in Seq(Events), EndInv, NEW c \in Clients, NEW kind, Received(kind, c),
         clients' \subseteq clients \cup {c},
         c \in clients' => c \in clients \/ kind = "connected",
         kind = "disconnected" => c \notin clients'
  PROVE  EndInv'
<1> SUFFICES ASSUME NEW d \in Clients, conn[d] = "ended",
                    d \in clients' \/ Queued("connected", d)'
             PROVE  EndQueued(d)'
  BY DEF EndInv, Received, LoopFrame, connVars
<1>1. /\ Len(events) \in Nat \ {0} /\ Len(events') = Len(events) - 1
      /\ \A k \in 1..Len(events') : events'[k] = events[k + 1]
      /\ At(1, kind, c)
  BY ReceivedQueue
<1>2. d \in clients \/ Queued("connected", d)
  <2>1. Queued("connected", d)' => Queued("connected", d)
    BY ReceivedQueue
  <2>2. At(1, "connected", c) => Queued("connected", c)
    BY <1>1 DEF At, Queued
  <2> QED BY <1>1, <2>1, <2>2
<1>3. PICK j \in 1..Len(events) :
        /\ At(j, "disconnected", d)
        /\ \A i \in 1..Len(events) : At(i, "connected", d) => i < j
  BY <1>2 DEF EndInv, EndQueued
<1>4. \A i \in 1..Len(events') : /\ i + 1 \in 1..Len(events)
                                 /\ At(i, "connected", d)' => At(i + 1, "connected", d)
  BY <1>1 DEF At
<1>5. j # 1
  <2> SUFFICES ASSUME j = 1 PROVE FALSE
    OBVIOUS
  <2>1. kind = "disconnected" /\ d = c
    BY <1>1, <1>3 DEF At
  <2>2. ~Queued("connected", d)'
    BY <1>1, <1>3, <1>4 DEF Queued, At
  <2> QED BY <2>1, <2>2
<1>6. j - 1 \in 1..Len(events') /\ At(j - 1, "disconnected", d)'
  BY <1>1, <1>3, <1>5 DEF At
<1>7. \A i \in 1..Len(events') : At(i, "connected", d)' => i < j - 1
  BY <1>1, <1>3, <1>4
<1> QED BY <1>6, <1>7 DEF EndQueued

LEMMA QuietEnds ==
  ASSUME EndInv, UNCHANGED <<events, conn>>, clients' \subseteq clients
  PROVE  EndInv'
  BY DEF EndInv, EndQueued, Queued, At

(* The steps.                                                              *)

LEMMA InitOwing == Init => Owing
  BY DEF Init, Owing, DeadInv, EndInv, LoopInv, OwedInv, Serves, Queued

\* After a step that asks for whole frames nothing more is to be shown.
LEMMA AskedOwes ==
  ASSUME pc' = "turn", FullRender
  PROVE  OwedInv'
  BY DEF OwedInv, FullRender, Waits, Fresh, Patchable, Due, DueWhole

\* The threads and the writers leave the loop's state alone.
LEMMA ThreadOwes ==
  ASSUME Inv, Owing, Thread, DeadInv', EndInv', EndComing => EndComing',
         \A d \in Clients : writer[d] = "dead" => writer'[d] = "dead",
         \A d \in Clients : Live(d)' => Live(d) /\ ToBeShown(d)' = ToBeShown(d),
         \A d \in Clients : Live(d)' /\ DrainComing(d) => DrainComing(d)'
  PROVE  Owing'
<1>1. UNCHANGED <<content, dirty, reader, renderDirty, pc, needsRender, needsFull, todo, broken,
                  clients, base, pending>>
  BY DEF Thread, termVars, loopVars, recVars
<1>2. broken \subseteq Clients
  BY DEF Inv, Shaped, TypeOK
<1>3. LoopInv'
  BY <1>1, <1>2 DEF Owing, LoopInv
<1>4. ASSUME NEW d \in Clients, Serves(d)'
      PROVE  Waits(d)' /\ Fresh(d)' /\ Patchable(d)'
  <2>1. Serves(d) /\ Live(d)'
    BY <1>1, <1>4 DEF Serves
  <2>2. Waits(d) /\ Fresh(d) /\ Patchable(d)
    BY <2>1 DEF Owing, OwedInv
  <2>3. Waits(d)'
    BY <1>1, <2>1, <2>2 DEF Waits, Due
  <2>4. Fresh(d)'
    BY <1>1, <2>1, <2>2 DEF Fresh, Due, Steady
  <2>5. Patchable(d)'
    BY <1>1, <2>2 DEF Patchable, DueWhole
  <2> QED BY <2>3, <2>4, <2>5
<1> QED BY <1>3, <1>4 DEF Owing, OwedInv

LEMMA ClientOwes ==
  ASSUME Inv, Owing, NEW c \in Clients,
         \/ Join(c) \/ Leave(c) \/ End(c)
         \/ \E kind \in InputKinds : Input(c, kind)
  PROVE  Owing'
<1>1. Thread /\ UNCHANGED <<writer, hand, slot, clients>>
  BY DEF Join, Leave, End, Input, connVars, Thread, recVars
<1>2. /\ events \in Seq(Events) /\ InputKinds \subseteq Kinds
      /\ "connected" \in Kinds /\ "disconnected" \in Kinds
      /\ "connected" \notin InputKinds
  BY DEF Inv, Shaped, TypeOK, Events, Kinds, InputKinds
<1>3. conn \in [Clients -> {"new", "open", "closed", "ended"}]
  BY DEF Inv, Shaped, TypeOK
<1>4. DeadInv'
  BY <1>1, <1>3 DEF Owing, DeadInv, Join, Leave, End, Input, connVars
<1>5. /\ EndInv'
      /\ \A other, d : Queued(other, d) => Queued(other, d)'
      /\ \A d \in Clients : conn[d] = "closed" =>
           conn'[d] = "closed" \/ Queued("disconnected", d)'
  <2>1. CASE Join(c)
    <3>1. Post("connected", c) /\ conn' = [conn EXCEPT ![c] = "open"] /\ conn[c] = "new"
      BY <2>1 DEF Join
    <3> QED BY <1>1, <1>2, <1>3, <3>1, PostEnds, PostedQueue DEF Owing
  <2>2. CASE Leave(c)
    <3>1. UNCHANGED events /\ conn' = [conn EXCEPT ![c] = "closed"] /\ conn[c] = "open"
      BY <2>2 DEF Leave
    <3> QED BY <1>1, <1>3, <3>1 DEF Owing, EndInv, EndQueued, At, Queued
  <2>3. CASE End(c)
    <3>1. Post("disconnected", c) /\ conn' = [conn EXCEPT ![c] = "ended"]
      BY <2>3 DEF End
    <3> QED BY <1>1, <1>2, <1>3, <3>1, PostEnds, PostedQueue DEF Owing
  <2>4. CASE \E kind \in InputKinds : Input(c, kind)
    <3>1. PICK kind \in InputKinds : Input(c, kind)
      BY <2>4
    <3>2. Post(kind, c) /\ conn' = conn /\ conn[c] # "ended"
      BY <1>3, <3>1 DEF Input, connVars
    <3> QED BY <1>1, <1>2, <3>1, <3>2, PostEnds, PostedQueue DEF Owing
  <2> QED BY <2>1, <2>2, <2>3, <2>4
<1>6. EndComing => EndComing'
  BY <1>1, <1>5 DEF EndComing
<1>7. \A d \in Clients : DrainComing(d) => DrainComing(d)'
  BY <1>1, <1>5 DEF DrainComing
<1>8. \A d \in Clients : Carried(d)
  BY ClientStep
<1> QED BY <1>1, <1>4, <1>5, <1>6, <1>7, <1>8, ThreadOwes DEF Carried

LEMMA WriterOwes ==
  ASSUME Inv, Owing, NEW c \in Clients, Take(c) \/ Announce(c) \/ Write(c) \/ WriteFails(c)
  PROVE  Owing'
<1>1. Thread /\ UNCHANGED <<conn, clients>>
  BY DEF Take, Announce, Write, WriteFails, Thread, recVars
<1>2. /\ events \in Seq(Events) /\ "drained" \in Kinds
      /\ writer \in [Clients -> {"wait", "announce", "write", "dead"}] /\ DOMAIN slot = Clients
  BY DEF Inv, Shaped, TypeOK, PerClient, Events, Kinds
<1>3. /\ EndInv'
      /\ \A other, d : Queued(other, d) => Queued(other, d)'
  <2>1. CASE Announce(c)
    <3>1. Post("drained", c)
      BY <2>1 DEF Announce
    <3>2. \A d \in Clients : conn'[d] = "ended" => conn[d] = "ended" \/ d = c
      BY <1>1
    <3> QED BY <1>1, <1>2, <3>1, <3>2, PostEnds, PostedQueue DEF Owing
  <2>2. CASE Take(c) \/ Write(c) \/ WriteFails(c)
    <3>1. UNCHANGED events
      BY <2>2 DEF Take, Write, WriteFails
    <3> QED BY <1>1, <3>1, QuietEnds DEF Owing, Queued
  <2> QED BY <2>1, <2>2
<1>4. DeadInv'
  BY <1>1, <1>2 DEF Owing, DeadInv, Take, Announce, Write, WriteFails
<1>5. EndComing => EndComing'
  BY <1>1, <1>3 DEF EndComing
<1>6. \A d \in Clients : writer[d] = "dead" => writer'[d] = "dead"
  BY <1>2 DEF Take, Announce, Write, WriteFails
<1>7. ASSUME NEW d \in Clients, Live(d)', DrainComing(d) PROVE DrainComing(d)'
  <2>1. CASE Take(c)
    BY <1>2, <1>3, <1>7, <2>1 DEF Take, DrainComing
  <2>2. CASE Announce(c)
    <3>1. Queued("drained", c)'
      BY <1>2, <2>2, PostedQueue DEF Announce
    <3> QED BY <1>2, <1>3, <1>7, <2>2, <3>1 DEF Announce, DrainComing
  <2>3. CASE Write(c)
    BY <1>2, <1>3, <1>7, <2>3 DEF Write, DrainComing
  <2>4. CASE WriteFails(c)
    BY <1>2, <1>3, <1>7, <2>4 DEF WriteFails, DrainComing, Live
  <2> QED BY <2>1, <2>2, <2>3, <2>4
<1>8. \A d \in Clients : Carried(d)
  BY WriterStep
<1> QED BY <1>1, <1>3, <1>4, <1>5, <1>6, <1>7, <1>8, ThreadOwes DEF Carried

LEMMA OutputOwes ==
  ASSUME Inv, Owing, NEW p \in Panes, Output(p) \/ RequestRender(p)
  PROVE  Owing'
<1>1. UNCHANGED <<conn, shown, writer, hand, slot, events, pc, needsRender, needsFull, todo,
                  broken, clients, base, pending>>
  BY DEF Output, RequestRender, Reader, connVars, loopVars, recVars
<1>2. EndInv' /\ (EndComing => EndComing')
  BY <1>1, QuietEnds DEF Owing, EndComing, Queued
<1>3. DeadInv' /\ LoopInv'
  BY <1>1 DEF Owing, DeadInv, LoopInv
<1>4. p # Chrome
  BY RenderConstants
<1>5. /\ \A x : x # p => content'[x] = content[x] /\ reader'[x] = reader[x]
      /\ renderDirty => renderDirty'
      /\ \/ content'[p] = content[p] /\ reader'[p] = reader[p]
         \/ reader'[p] # "idle"
         \/ renderDirty'
  <2>1. CASE Output(p)
    BY <2>1 DEF Output, Inv, Shaped, TypeOK
  <2>2. CASE RequestRender(p)
    BY <2>2 DEF RequestRender, Inv, Shaped, TypeOK
  <2> QED BY <2>1, <2>2
<1>6. \A q \in Panes : dirty'[q] = "clean" => dirty[q] = "clean" /\ content'[q] = content[q]
  <2>1. CASE Output(p)
    <3>1. dirty'[p] # "clean"
      BY <2>1 DEF Output, Inv, Shaped, TypeOK
    <3> QED BY <1>5, <2>1, <3>1 DEF Output, Inv, Shaped, TypeOK
  <2>2. CASE RequestRender(p)
    BY <2>2 DEF RequestRender
  <2> QED BY <2>1, <2>2
<1>7. ASSUME NEW c \in Clients, Serves(c)'
      PROVE  Waits(c)' /\ Fresh(c)' /\ Patchable(c)'
  <2>1. Waits(c) /\ Fresh(c) /\ Patchable(c)
    BY <1>1, <1>7 DEF Owing, OwedInv, Serves, Live
  <2>2. Waits(c)'
    BY <1>1, <2>1 DEF Waits, Due, DrainComing, Queued
  <2>3. ToBeShown(c)' = ToBeShown(c)
    BY <1>1 DEF ToBeShown, InHand
  <2>4. Fresh(c)'
    BY <1>1, <1>2, <1>4, <1>5, <2>1, <2>3 DEF Fresh, Due, Steady
  <2>5. Patchable(c)'
    BY <1>1, <1>2, <1>4, <1>5, <1>6, <2>1 DEF Patchable, DueWhole
  <2> QED BY <2>2, <2>4, <2>5
<1> QED BY <1>2, <1>3, <1>7 DEF Owing, OwedInv

\* The rest of the invariant after an event.
LEMMA EventLinks ==
  ASSUME Inv, Owing, HandleEvent
  PROVE  DeadInv' /\ EndInv' /\ LoopInv' /\ pc = "turn" /\ pc' = "turn"
<1>1. PICK c \in Clients :
        \/ Connected(c) \/ Disconnected(c) \/ WriterDrained(c)
        \/ Interaction(c) \/ Typed(c) \/ OtherInput(c) \/ Resized(c) \/ FromNobody(c)
  BY DEF HandleEvent
<1>2. PICK kind :
        /\ Received(kind, c)
        /\ \/ kind = "connected" /\ clients' = clients \cup {c}
           \/ kind = "disconnected" /\ clients' = clients \ {c}
           \/ kind # "disconnected" /\ clients' = clients
  <2>1. "disconnected" \notin InputKinds
    BY DEF InputKinds
  <2> QED BY <1>1, <2>1
          DEF Connected, Disconnected, WriterDrained, Interaction, Typed, OtherInput, Resized,
              FromNobody, recVars
<1>3. pc = "turn" /\ UNCHANGED <<pc, todo, broken, conn, writer>>
  BY <1>2 DEF Received, LoopFrame, connVars
<1>4. events \in Seq(Events)
  BY DEF Inv, Shaped, TypeOK, Events
<1>5. EndInv'
  BY <1>2, <1>4, ReceiveEnds DEF Owing
<1>6. DeadInv' /\ LoopInv'
  BY <1>3 DEF Owing, DeadInv, LoopInv
<1> QED BY <1>3, <1>5, <1>6

\* An event after which nothing has to be drawn that had not to be before.
LEMMA QuietEventOwes ==
  ASSUME Inv, Owing, NEW c \in Clients, NEW kind, Received(kind, c), kind # "disconnected",
         kind = "drained" => c \notin clients \/ ~pending[c],
         UNCHANGED <<content, dirty, needsRender, needsFull, clients, pending>>, Drops
  PROVE  OwedInv'
<1>1. /\ UNCHANGED <<reader, conn, shown, writer, hand, slot, renderDirty, pc, todo, broken>>
      /\ events \in Seq(Events)
  BY DEF Received, LoopFrame, connVars, Inv, Shaped, TypeOK, Events
<1>2. \A other, d : Queued(other, d) /\ <<other, d>> # <<kind, c>> => Queued(other, d)'
  BY <1>1, ReceivedQueue
<1>3. EndComing => EndComing'
  BY <1>1, <1>2 DEF EndComing
<1>4. ASSUME NEW d \in Clients, Serves(d)'
      PROVE  Waits(d)' /\ Fresh(d)' /\ Patchable(d)'
  <2>1. Serves(d) /\ Waits(d) /\ Fresh(d) /\ Patchable(d)
    BY <1>1, <1>4 DEF Owing, OwedInv, Serves, Live
  <2>2. Waits(d)'
    BY <1>1, <1>2, <2>1 DEF Waits, Due, DrainComing, Serves
  <2>3. ToBeShown(d)' = ToBeShown(d)
    BY <1>1 DEF ToBeShown, InHand
  <2>4. Fresh(d)'
    BY <1>1, <1>3, <2>1, <2>3 DEF Fresh, Due, Steady
  <2>5. base'[d] # None => base'[d] = base[d]
    BY DEF Drops
  <2>6. Patchable(d)'
    BY <1>1, <1>3, <2>1, <2>5 DEF Patchable, DueWhole
  <2> QED BY <2>2, <2>4, <2>6
<1> QED BY <1>4 DEF OwedInv

LEMMA EventOwes ==
  ASSUME Inv, Owing, HandleEvent
  PROVE  Owing'
<1>1. DeadInv' /\ EndInv' /\ LoopInv' /\ pc' = "turn"
  BY EventLinks
<1>2. CASE FullRender
  BY <1>1, <1>2, AskedOwes DEF Owing
<1>3. CASE ~FullRender
  <2>1. PICK c \in Clients :
          WriterDrained(c) \/ Typed(c) \/ OtherInput(c) \/ FromNobody(c)
    BY <1>3 DEF HandleEvent, Connected, Disconnected, Interaction, Resized
  <2>2. PICK kind :
          /\ Received(kind, c) /\ kind # "disconnected"
          /\ kind = "drained" => c \notin clients \/ ~pending[c]
    <3>1. "disconnected" \notin InputKinds /\ "drained" \notin InputKinds
      BY DEF InputKinds
    <3>2. CASE WriterDrained(c)
      BY <1>3, <3>2 DEF WriterDrained
    <3>3. CASE Typed(c) \/ OtherInput(c)
      BY <3>3 DEF Typed, OtherInput
    <3>4. CASE FromNobody(c)
      BY <3>1, <3>4 DEF FromNobody
    <3> QED BY <2>1, <3>2, <3>3, <3>4
  <2>3. UNCHANGED <<content, dirty, needsRender, needsFull, clients, pending>>
    BY <1>3, <2>1 DEF WriterDrained, Typed, OtherInput, FromNobody, recVars
  <2>4. base' = base \/ base' = [base EXCEPT ![c] = IF c \in Ansi THEN @ ELSE None]
    BY <2>1 DEF WriterDrained, Typed, OtherInput, FromNobody, recVars
  <2>5. Drops
    BY <2>4 DEF Inv, Shaped, PerClient, Drops
  <2> QED BY <1>1, <2>2, <2>3, <2>5, QuietEventOwes DEF Owing
<1> QED BY <1>2, <1>3

LEMMA TurnOwes ==
  ASSUME Inv, Owing, NextTurn \/ Render \/ Change
  PROVE  Owing'
<1>1. /\ UNCHANGED <<conn, shown, writer, hand, slot, events, broken, clients, base, pending>>
      /\ pc = "turn" /\ broken = {}
  BY DEF NextTurn, Render, Change, LoopFrame, connVars, recVars, Owing, LoopInv
<1>2. DeadInv' /\ EndInv' /\ (EndComing => EndComing')
  BY <1>1, QuietEnds DEF Owing, DeadInv, EndComing, Queued
<1>3. LoopInv'
  BY <1>1 DEF NextTurn, Render, Change, LoopInv
<1>4. CASE Change
  BY <1>1, <1>2, <1>3, <1>4, AskedOwes DEF Change, Owing
<1>5. ASSUME NextTurn \/ Render, NEW c \in Clients, Serves(c)'
      PROVE  Waits(c)' /\ Fresh(c)' /\ Patchable(c)'
  <2>1. UNCHANGED <<content, dirty, reader, needsFull>> /\ (needsRender => needsRender')
    <3>1. CASE NextTurn
      BY <3>1 DEF NextTurn, LoopFrame
    <3>2. CASE Render
      BY <3>2 DEF Render, LoopFrame
    <3> QED BY <1>5, <3>1, <3>2
  <2>2. Waits(c) /\ Fresh(c) /\ Patchable(c)
    BY <1>1, <1>5 DEF Owing, OwedInv, Serves, Live
  <2>3. pc' # "full"
    BY <1>1, <1>5 DEF NextTurn, Render, Serves
  <2>4. Patchable(c)'
    BY <1>1, <1>2, <2>1, <2>2, <2>3 DEF Patchable, DueWhole
  <2>5. Waits(c)'
    BY <1>1, <2>1, <2>2, <2>3 DEF Waits, Due, DrainComing, Queued
  <2>6. CASE NextTurn
    <3>1. renderDirty' = renderDirty /\ ToBeShown(c)' = ToBeShown(c)
      BY <1>1, <2>6 DEF NextTurn, ToBeShown, InHand
    <3> QED BY <1>1, <1>2, <2>1, <2>2, <2>3, <2>4, <2>5, <3>1 DEF Fresh, Due, Steady
  <2>7. CASE Render
    BY <2>3, <2>4, <2>5, <2>7 DEF Render, Fresh, Due
  <2> QED BY <1>5, <2>6, <2>7
<1> QED BY <1>2, <1>3, <1>4, <1>5 DEF Owing, OwedInv

\* A frame for a client that can still be reached: it is left for later, or on its way.
LEMMA Delivered ==
  ASSUME Inv, Inv', NEW c \in Clients, NEW frame \in Frames(c), Live(c), UNCHANGED connVars,
         Deliver(c, frame, Outcome(c, frame))
  PROVE  /\ \/ /\ pending'[c] /\ slot'[c] # None
               /\ Outcome(c, frame) = "occupied"
            \/ /\ ~pending'[c] /\ base'[c] = frame /\ ToBeShown(c)' = frame
               /\ Outcome(c, frame) \in {"current", "queued"}
         /\ \A d \in Clients \ {c} :
              slot'[d] = slot[d] /\ base'[d] = base[d] /\ pending'[d] = pending[d]
<1> DEFINE o == Outcome(c, frame)
<1>1. /\ DOMAIN slot = Clients /\ DOMAIN base = Clients /\ pending \in [Clients -> BOOLEAN]
  BY DEF Inv, Shaped, TypeOK, PerClient
<1>2. writer[c] # "dead" /\ Live(c)'
  BY DEF Live, connVars
<1>3. \/ o = "current" /\ base[c] = frame
      \/ o = "occupied" /\ slot[c] # None
      \/ o = "queued"
  BY <1>2 DEF Outcome
<1>4. base'[c] = frame => ToBeShown(c)' = frame
  BY <1>2, NoneIsNoFrame DEF Inv, LeadsInv, Leads
<1> HIDE DEF o
<1>5. Deliver(c, frame, o)
  BY DEF o
<1>6. \A d \in Clients \ {c} :
        slot'[d] = slot[d] /\ base'[d] = base[d] /\ pending'[d] = pending[d]
  BY <1>1, <1>5 DEF Deliver
<1>7. CASE o = "current" /\ base[c] = frame
  BY <1>1, <1>4, <1>5, <1>6, <1>7 DEF Deliver, o
<1>8. CASE o = "occupied" /\ slot[c] # None
  BY <1>1, <1>5, <1>6, <1>8 DEF Deliver, o
<1>9. CASE o = "queued"
  BY <1>1, <1>4, <1>5, <1>6, <1>9 DEF Deliver, o
<1> QED BY <1>3, <1>7, <1>8, <1>9

LEMMA RenderClientOwes ==
  ASSUME Inv, Inv', Owing, NEW c \in Clients, RenderClient(c)
  PROVE  Owing'
<1>1. /\ UNCHANGED <<content, reader, connVars, events, renderDirty, pc, needsRender, needsFull,
                     clients>>
      /\ pc = "full" /\ c \in todo /\ todo' = todo \ {c}
      /\ Deliver(c, Screen(c), Outcome(c, Screen(c)))
  BY DEF RenderClient, LoopFrame
<1>2. UNCHANGED <<conn, shown, writer, hand>> /\ c \in clients
  BY <1>1 DEF connVars, Owing, LoopInv
<1>3. DeadInv' /\ EndInv' /\ (EndComing => EndComing')
  BY <1>1, <1>2, QuietEnds DEF Owing, DeadInv, EndComing, Queued
<1>4. LoopInv'
  <2>1. ASSUME NEW d \in broken', d \notin broken PROVE d \in clients /\ writer[d] = "dead"
    <3>1. d = c /\ Outcome(c, Screen(c)) = "broken"
      BY <2>1 DEF RenderClient
    <3>2. writer[c] = "dead"
      BY <3>1 DEF Outcome
    <3> QED BY <1>2, <3>1, <3>2
  <2> QED BY <1>1, <1>2, <2>1 DEF Owing, LoopInv
<1>5. Screen(c) \in Frames(c)
  BY ContentType DEF Inv, Shaped
<1>6. ASSUME NEW d \in Clients, Serves(d)'
      PROVE  Waits(d)' /\ Fresh(d)' /\ Patchable(d)'
  <2>1. Live(d) /\ d \in clients
    BY <1>1, <1>2, <1>6 DEF Serves, Live
  <2>2. CASE d = c
    <3>1. \/ pending'[c] /\ slot'[c] # None
          \/ ~pending'[c] /\ base'[c] = Screen(c) /\ ToBeShown(c)' = Screen(c)
      BY <1>1, <1>5, <2>1, <2>2, Delivered
    <3>2. CASE pending'[c] /\ slot'[c] # None
      BY <2>2, <3>2 DEF Waits, Fresh, Patchable, DrainComing
    <3>3. CASE ~pending'[c] /\ base'[c] = Screen(c) /\ ToBeShown(c)' = Screen(c)
      <4>1. \A x \in PartsOf(c) : base'[c][x] = content'[x] /\ ToBeShown(c)'[x] = content'[x]
        BY <1>1, <3>3 DEF Screen
      <4>2. Stream[c] = None => Chrome \in PartsOf(c) /\ Panes \subseteq PartsOf(c)
        BY DEF PartsOf, Parts
      <4> QED BY <2>2, <3>3, <4>1, <4>2 DEF Waits, Fresh, Patchable
    <3> QED BY <3>1, <3>2, <3>3
  <2>3. CASE d # c
    <3>1. slot'[d] = slot[d] /\ pending'[d] = pending[d]
      <4>1. \A e \in Clients \ {c} : slot'[e] = slot[e] /\ pending'[e] = pending[e]
        BY <1>1 DEF Deliver, Inv, Shaped, TypeOK, PerClient
      <4> QED BY <2>3, <4>1
    <3>2. Serves(d)
      BY <1>1, <1>6, <2>1, <2>3 DEF Serves
    <3>3. Waits(d) /\ Fresh(d)
      BY <3>2 DEF Owing, OwedInv
    <3>4. Waits(d)'
      BY <1>1, <1>2, <3>1, <3>3 DEF Waits, Due, DrainComing, Queued
    <3>5. ToBeShown(d)' = ToBeShown(d)
      BY <1>2, <3>1 DEF ToBeShown, InHand
    <3>6. Fresh(d)'
      BY <1>1, <1>3, <3>1, <3>3, <3>5 DEF Fresh, Due, Steady
    <3>7. Patchable(d)'
      BY <1>1, <1>2, <2>3 DEF Patchable
    <3> QED BY <3>4, <3>6, <3>7
  <2> QED BY <2>2, <2>3
<1> QED BY <1>3, <1>4, <1>6 DEF Owing, OwedInv

LEMMA PatchOwes ==
  ASSUME Inv, Inv', Owing, RetainedPatch
  PROVE  Owing'
<1>1. PICK c \in clients :
        /\ Retains(c) /\ Deliver(c, Patched(c), Outcome(c, Patched(c)))
        /\ clients' = IF Outcome(c, Patched(c)) = "broken" THEN {} ELSE clients
        /\ IF Outcome(c, Patched(c)) \in {"current", "queued"} THEN Finish ELSE ToFull
  BY DEF RetainedPatch
<1>2. /\ UNCHANGED <<content, reader, connVars, events, renderDirty, broken>>
      /\ pc = "retained"
  BY DEF RetainedPatch, LoopFrame
<1>3. /\ UNCHANGED <<conn, shown, writer, hand>> /\ c \in Clients /\ clients = {c}
      /\ clients' \subseteq clients
  <2>1. clients' = {} \/ clients' = clients
    BY <1>1
  <2>2. clients = {c} /\ c \in Clients
    BY <1>1 DEF Retains, Inv, Shaped, TypeOK
  <2> QED BY <1>2, <2>1, <2>2 DEF connVars
<1>4. DeadInv' /\ EndInv' /\ (EndComing => EndComing')
  BY <1>2, <1>3, QuietEnds DEF Owing, DeadInv, EndComing, Queued
<1>5. LoopInv'
  BY <1>1, <1>2 DEF Owing, LoopInv, Finish, ToFull
<1>6. ASSUME NEW d \in Clients, Serves(d)'
      PROVE  Waits(d)' /\ Fresh(d)' /\ Patchable(d)'
  <2>1. d = c /\ Live(c) /\ clients' = clients
    BY <1>1, <1>3, <1>6 DEF Serves, Live
  <2>2. Patched(c) \in Frames(c)
    BY <1>1, <1>3, PatchedType DEF Inv, Shaped
  <2>3. Outcome(c, Patched(c)) \in {"current", "queued"}
    BY <1>1, <1>6, <2>1 DEF ToFull, Serves
  <2>4. ~pending'[c] /\ base'[c] = Patched(c) /\ ToBeShown(c)' = Patched(c)
    BY <1>1, <1>2, <1>3, <2>1, <2>2, <2>3, Delivered
  <2>5. Serves(c) /\ ~DueWhole
    BY <1>2, <1>3, <2>1 DEF Serves, Owing, LoopInv, DueWhole
  <2>6. \/ EndComing
        \/ /\ base[c][Chrome] = content[Chrome]
           /\ \A p \in Panes : dirty[p] = "clean" => base[c][p] = content[p]
    BY <1>1, <1>3, <2>5 DEF Owing, OwedInv, Patchable, Retains
  <2>7. CASE EndComing
    BY <1>4, <2>1, <2>4, <2>7 DEF Waits, Fresh, Patchable
  <2>8. CASE /\ base[c][Chrome] = content[Chrome]
             /\ \A p \in Panes : dirty[p] = "clean" => base[c][p] = content[p]
    <3>1. \A x \in Parts : Patched(c)[x] = content[x]
      BY <2>8, RenderConstants DEF Patched, Parts
    <3>2. PartsOf(c) = Parts
      BY <1>1 DEF Retains, PartsOf
    <3>3. \A x \in Parts : base'[c][x] = content'[x] /\ ToBeShown(c)'[x] = content'[x]
      BY <1>2, <2>4, <3>1
    <3> QED BY <2>1, <2>4, <3>2, <3>3 DEF Waits, Fresh, Patchable, Parts
  <2> QED BY <2>6, <2>7, <2>8
<1> QED BY <1>4, <1>5, <1>6 DEF Owing, OwedInv

LEMMA DoneOwes ==
  ASSUME Inv, Owing, RenderDone
  PROVE  Owing'
<1>1. /\ UNCHANGED <<reader, conn, shown, writer, hand, slot, events, renderDirty>>
      /\ pc = "full" /\ todo = {} /\ pc' = "turn" /\ todo' = todo
      /\ clients' = clients \ broken /\ broken' = {}
      /\ needsFull' = FALSE
  BY DEF RenderDone, LoopFrame, connVars, Finish
<1>2. DeadInv' /\ EndInv' /\ LoopInv'
  BY <1>1, QuietEnds DEF Owing, DeadInv, LoopInv
<1>3. \A d \in Clients : DrainComing(d)' = DrainComing(d) /\ ToBeShown(d)' = ToBeShown(d)
  BY <1>1 DEF DrainComing, Queued, ToBeShown, InHand
<1>4. ASSUME NEW d \in Clients, Serves(d)'
      PROVE  Waits(d)' /\ Fresh(d)' /\ Patchable(d)'
  <2>1. /\ Serves(d) /\ d \in clients' /\ pending'[d] = pending[d]
        /\ Waits(d) /\ Fresh(d) /\ Patchable(d)
    <3>1. Serves(d) /\ d \in clients'
      BY <1>1, <1>4 DEF Serves, Live
    <3>2. pending'[d] = pending[d]
      BY <3>1 DEF RenderDone, Forget, Inv, Shaped, TypeOK
    <3> QED BY <3>1, <3>2 DEF Owing, OwedInv
  <2>2. Waits(d)'
    BY <1>1, <1>3, <2>1 DEF Waits, Due
  <2>3. CASE broken = {}
    <3>1. KeepsLayout(clients') /\ clients' = clients
      BY <1>1, <2>3 DEF RenderDone
    <3>2. base'[d] = base[d] /\ UNCHANGED <<content, dirty>>
      BY <2>1, <3>1 DEF KeepsLayout
    <3>3. EndComing' = EndComing
      BY <1>1, <3>1 DEF EndComing, Queued
    <3>4. Fresh(d)'
      BY <1>1, <1>3, <2>1, <3>2, <3>3 DEF Fresh, Due, Steady
    <3>5. Patchable(d)'
      BY <1>1, <2>1, <3>1, <3>2, <3>3 DEF Patchable, DueWhole
    <3> QED BY <2>2, <3>4, <3>5
  <2>4. CASE broken # {}
    <3>1. PICK e \in broken : e \in clients /\ writer[e] = "dead"
      BY <2>4 DEF Owing, LoopInv
    <3>2. e \in Clients /\ e \notin clients'
      BY <1>1, <3>1 DEF Inv, Shaped, TypeOK
    <3>3. conn[e] = "closed" \/ Queued("disconnected", e)
      BY <3>1, <3>2 DEF Owing, DeadInv, EndInv, EndQueued, At, Queued
    <3>4. EndComing'
      BY <1>1, <3>2, <3>3 DEF EndComing, Queued
    <3> QED BY <2>2, <3>4 DEF Fresh, Patchable
  <2> QED BY <2>3, <2>4
<1> QED BY <1>2, <1>4 DEF Owing, OwedInv

LEMMA EndOwes ==
  ASSUME Inv, Owing, RetainedFallback \/ DrawnForNobody
  PROVE  Owing'
<1>1. UNCHANGED <<conn, writer, events, clients, broken>>
  BY DEF RetainedFallback, DrawnForNobody, LoopFrame, connVars, recVars
<1>2. DeadInv' /\ EndInv'
  BY <1>1, QuietEnds DEF Owing, DeadInv
<1>3. LoopInv'
  BY <1>1 DEF RetainedFallback, DrawnForNobody, ToFull, Finish, Owing, LoopInv
<1>4. OwedInv'
  BY <1>1 DEF RetainedFallback, DrawnForNobody, ToFull, OwedInv, Serves
<1> QED BY <1>2, <1>3, <1>4 DEF Owing

-----------------------------------------------------------------------------
(* The theorems.                                                           *)

LEMMA NextInv == Inv /\ [Next]_vars => Inv'
<1> SUFFICES ASSUME Inv, [Next]_vars PROVE Inv'
  OBVIOUS
<1>1. CASE UNCHANGED vars
  <2>1. UNCHANGED <<termVars, renderDirty, connVars, slot, events, pc, loopVars, recVars, happened>>
    BY <1>1 DEF vars
  <2>2. Shaped'
    BY <2>1 DEF Inv, Shaped, TypeOK, PerClient, termVars, connVars, loopVars, recVars
  <2> QED BY <2>1, <2>2, AloneKeeps DEF Inv, recVars
<1>2. CASE \E p \in Panes : Output(p) \/ RequestRender(p)
  BY <1>2, OutputStep
<1>3. CASE \E c \in Clients : \/ Join(c) \/ Leave(c) \/ End(c)
                              \/ \E kind \in InputKinds : Input(c, kind)
  BY <1>3, ClientStep
<1>4. CASE \E c \in Clients : Take(c) \/ Announce(c) \/ Write(c) \/ WriteFails(c)
  BY <1>4, WriterStep
<1>5. CASE HandleEvent
  BY <1>5, EventStep
<1>6. CASE NextTurn \/ Render \/ Change
  BY <1>6, TurnStep
<1>7. CASE RetainedPatch \/ \E c \in Clients : RenderClient(c)
  BY <1>7, FrameStep
<1>8. CASE RetainedFallback \/ DrawnForNobody \/ RenderDone
  BY <1>8, EndStep
<1> QED BY <1>1, <1>2, <1>3, <1>4, <1>5, <1>6, <1>7, <1>8 DEF Next, Loop

LEMMA NextOwes == Inv /\ Inv' /\ Owing /\ [Next]_vars => Owing'
<1> SUFFICES ASSUME Inv, Inv', Owing, [Next]_vars PROVE Owing'
  OBVIOUS
<1>1. CASE UNCHANGED vars
  <2>1. UNCHANGED <<content, dirty, reader, renderDirty, conn, shown, writer, hand, slot, events,
                    pc, needsRender, needsFull, todo, broken, clients, base, pending>>
    BY <1>1 DEF vars, termVars, connVars, loopVars, recVars
  <2>2. Thread
    BY <2>1 DEF Thread, termVars, loopVars, recVars
  <2>3. DeadInv' /\ EndInv' /\ (EndComing => EndComing')
    BY <2>1, QuietEnds DEF Owing, DeadInv, EndComing, Queued
  <2>4. \A d \in Clients : /\ Live(d)' = Live(d) /\ ToBeShown(d)' = ToBeShown(d)
                           /\ DrainComing(d)' = DrainComing(d)
    BY <2>1 DEF Live, ToBeShown, InHand, DrainComing, Queued
  <2> QED BY <2>1, <2>2, <2>3, <2>4, ThreadOwes
<1>2. CASE \E p \in Panes : Output(p) \/ RequestRender(p)
  BY <1>2, OutputOwes
<1>3. CASE \E c \in Clients : \/ Join(c) \/ Leave(c) \/ End(c)
                              \/ \E kind \in InputKinds : Input(c, kind)
  BY <1>3, ClientOwes
<1>4. CASE \E c \in Clients : Take(c) \/ Announce(c) \/ Write(c) \/ WriteFails(c)
  BY <1>4, WriterOwes
<1>5. CASE HandleEvent
  BY <1>5, EventOwes
<1>6. CASE NextTurn \/ Render \/ Change
  BY <1>6, TurnOwes
<1>7. CASE RetainedPatch
  BY <1>7, PatchOwes
<1>8. CASE \E c \in Clients : RenderClient(c)
  BY <1>8, RenderClientOwes
<1>9. CASE RetainedFallback \/ DrawnForNobody
  BY <1>9, EndOwes
<1>10. CASE RenderDone
  BY <1>10, DoneOwes
<1> QED BY <1>1, <1>2, <1>3, <1>4, <1>5, <1>6, <1>7, <1>8, <1>9, <1>10 DEF Next, Loop

\* Every variable keeps its type; in particular whatever waits for a client,
\* or is held by its writer, is a message for what that client is shown.
THEOREM TypesHold == Spec => []TypeOK
<1>1. Inv => TypeOK
  BY DEF Inv, Shaped
<1> QED BY <1>1, InitInv, NextInv, PTL DEF Spec

\* A difference is always drawn over the frame it was made from: however slow
\* a client is and whatever was left for later, it comes to show the frame the
\* server takes it to show (commit_sent_frame only after try_send).
THEOREM BaselineHolds == Spec => []BaselineIsShown
<1>1. Inv => BaselineIsShown
  BY DEF Inv, Shaped, TypeOK, LeadsInv, Leads, Live, Shows, BaselineIsShown
<1> QED BY <1>1, InitInv, NextInv, PTL DEF Spec

\* When nothing asks the loop to render, what is on its way to every client
\* that can be reached is what there is, or its frame waits for a drain that
\* will come: no change is lost between the flag, the dirty rows, frames left
\* for later, patched frames and the frames of other clients.
THEOREM NothingIsForgotten == Spec => []NothingForgotten
<1>1. ASSUME Inv, Owing PROVE NothingForgotten
  <2> SUFFICES ASSUME pc = "turn", ~needsRender, ~renderDirty, ~EndComing,
                      NEW c \in clients, Shows(c), ~(pending[c] /\ DrainComing(c))
               PROVE  \A x \in PartsOf(c) : Steady(x) => ToBeShown(c)[x] = content[x]
    BY DEF NothingForgotten
  <2>1. c \in Clients /\ Serves(c)
    BY <1>1 DEF Inv, Shaped, TypeOK, Serves, Live, Shows
  <2>2. Waits(c) /\ Fresh(c)
    BY <1>1, <2>1 DEF Owing, OwedInv
  <2> QED BY <2>2 DEF Waits, Fresh, Due
<1> QED BY <1>1, InitInv, InitOwing, NextInv, NextOwes, PTL DEF Spec

-----------------------------------------------------------------------------
(* A screen never goes back to an older state.                             *)

(* From what a client shows, over what is on its way, to what there is,    *)
(* no part gets older.                                                     *)
InOrder(c) ==
    \A x \in PartsOf(c) :
        /\ shown[c][x] <= InHand(c)[x]
        /\ InHand(c)[x] <= ToBeShown(c)[x]
        /\ ToBeShown(c)[x] <= content[x]

Forward == \A c \in Clients : Live(c) => InOrder(c)

\* What a client shows, and will show, are versions of its parts.
LEMMA ScreenVersions ==
  ASSUME Inv, NEW c \in Clients, NEW x \in PartsOf(c)
  PROVE  /\ shown[c][x] \in Nat /\ InHand(c)[x] \in Nat /\ ToBeShown(c)[x] \in Nat
         /\ x \in Parts /\ content[x] \in Nat
<1>1. /\ shown[c] \in Frames(c) /\ InHand(c) \in Frames(c)
      /\ slot[c] \in Messages(c) \cup {None}
  BY InHandType DEF Inv, Shaped, TypeOK
<1>2. ToBeShown(c) \in Frames(c)
  BY <1>1, DrawnType DEF ToBeShown
<1>3. x \in Parts
  BY RenderConstants DEF PartsOf, Parts
<1> QED BY <1>1, <1>2, <1>3 DEF Inv, Shaped, TypeOK, Frames, Versions

\* What the panes and the interface show only gets newer.
Grows == \A x \in Parts : content'[x] \in Nat /\ content[x] <= content'[x]

LEMMA RelayoutGrows ==
  ASSUME TypeOK, NEW panes, Resize(panes) \/ content' = content
  PROVE  Grows
<1>1. \A x \in Parts : content[x] \in Nat
  BY DEF TypeOK, Versions
<1> QED BY <1>1 DEF Resize, Grows

LEMMA ContentGrows ==
  ASSUME Inv, [Next]_vars
  PROVE  Grows
<1>1. TypeOK /\ (\A x \in Parts : content[x] \in Nat)
  BY DEF Inv, Shaped, TypeOK, Versions
<1>2. ASSUME content' = content PROVE Grows
  BY <1>1, <1>2 DEF Grows
<1>3. ASSUME NEW present, Relayout(present) \/ KeepsLayout(present) PROVE Grows
  BY <1>1, <1>3, RelayoutGrows DEF Relayout, KeepsLayout
<1>4. CASE UNCHANGED vars
  BY <1>2, <1>4 DEF vars, termVars
<1>5. CASE \E p \in Panes : Output(p) \/ RequestRender(p)
  <2>1. PICK p \in Panes : Output(p) \/ RequestRender(p)
    BY <1>5
  <2>2. CASE Output(p)
    <3>1. content' = [content EXCEPT ![p] = @ + 1] /\ p \in Parts
      BY <2>2 DEF Output, Parts
    <3> QED BY <1>1, <3>1 DEF Grows, TypeOK
  <2>3. CASE RequestRender(p)
    BY <1>2, <2>3 DEF RequestRender
  <2> QED BY <2>1, <2>2, <2>3
<1>6. CASE \E c \in Clients :
             \/ Join(c) \/ Leave(c) \/ End(c)
             \/ \E kind \in InputKinds : Input(c, kind)
             \/ Take(c) \/ Announce(c) \/ Write(c) \/ WriteFails(c)
  <2>1. Thread
    BY <1>6 DEF Join, Leave, End, Input, Take, Announce, Write, WriteFails
  <2> QED BY <1>2, <2>1 DEF Thread, termVars
<1>7. CASE Change
  <2>1. content' = [content EXCEPT ![Chrome] = @ + 1] /\ Chrome \in Parts
    BY <1>7 DEF Change, Parts
  <2> QED BY <1>1, <2>1 DEF Grows, TypeOK
<1>8. CASE HandleEvent
  <2>1. PICK c \in Clients :
          \/ Connected(c) \/ Disconnected(c) \/ WriterDrained(c)
          \/ Interaction(c) \/ Typed(c) \/ OtherInput(c) \/ Resized(c) \/ FromNobody(c)
    BY <1>8 DEF HandleEvent
  <2>2. CASE Connected(c) \/ Disconnected(c)
    BY <1>3, <2>2 DEF Connected, Disconnected
  <2>3. CASE WriterDrained(c) \/ Typed(c) \/ OtherInput(c) \/ FromNobody(c)
    BY <1>2, <2>3 DEF WriterDrained, Typed, OtherInput, FromNobody
  <2>4. CASE Interaction(c)
    BY <1>2, <1>3, <2>4 DEF Interaction
  <2>5. CASE Resized(c)
    BY <1>1, <1>3, <2>5, RelayoutGrows DEF Resized
  <2> QED BY <2>1, <2>2, <2>3, <2>4, <2>5
<1>9. CASE RenderDone
  BY <1>3, <1>9 DEF RenderDone
<1>10. CASE \/ NextTurn \/ Render \/ RetainedFallback \/ RetainedPatch \/ DrawnForNobody
            \/ \E c \in Clients : RenderClient(c)
  BY <1>2, <1>10 DEF NextTurn, Render, RetainedFallback, RetainedPatch, DrawnForNobody,
     RenderClient
<1> QED BY <1>4, <1>5, <1>6, <1>7, <1>8, <1>9, <1>10 DEF Next, Loop

\* A client to whom nothing happens stays in order.
Untouched(c) ==
    Live(c)' => /\ Live(c)
                /\ UNCHANGED <<shown[c], hand[c], slot[c]>>

LEMMA UntouchedInOrder ==
  ASSUME Inv, Grows, NEW c \in Clients, Live(c) => InOrder(c), Untouched(c), Live(c)'
  PROVE  InOrder(c)'
<1>1. /\ InOrder(c)
      /\ shown'[c] = shown[c] /\ InHand(c)' = InHand(c) /\ ToBeShown(c)' = ToBeShown(c)
  BY DEF Untouched, InHand, ToBeShown
<1>2. ASSUME NEW x \in PartsOf(c)
      PROVE  ToBeShown(c)[x] <= content'[x]
  <2>1. ToBeShown(c)[x] \in Nat /\ content[x] \in Nat /\ content'[x] \in Nat
        /\ content[x] <= content'[x]
    BY ScreenVersions DEF Grows
  <2>2. ToBeShown(c)[x] <= content[x]
    BY <1>1 DEF InOrder
  <2> QED BY <2>1, <2>2
<1> QED BY <1>1, <1>2 DEF InOrder

\* The writer moves what is on its way one place on.
LEMMA WriterInOrder ==
  ASSUME Inv, Inv', Grows, NEW c \in Clients, Live(c) => InOrder(c), Live(c)',
         Take(c) \/ Announce(c) \/ Write(c) \/ WriteFails(c)
  PROVE  InOrder(c)' /\ (\A x \in PartsOf(c) : shown[c][x] <= shown'[c][x])
<1>1. content' = content /\ Carried(c)
  BY WriterStep DEF Take, Announce, Write, WriteFails, Thread, termVars
<1>2. Live(c) /\ InOrder(c) /\ ToBeShown(c)' = ToBeShown(c)
  BY <1>1 DEF Carried
<1>3. /\ DOMAIN shown = Clients /\ DOMAIN hand = Clients /\ DOMAIN slot = Clients
      /\ hand[c] # None <=> writer[c] \in {"announce", "write"}
      /\ writer \in [Clients -> {"wait", "announce", "write", "dead"}]
  BY DEF Inv, Shaped, TypeOK, PerClient, HandInv
<1>4. \/ shown'[c] = shown[c] /\ InHand(c)' = InHand(c)
      \/ shown'[c] = shown[c] /\ InHand(c)' = ToBeShown(c)
      \/ shown'[c] = InHand(c) /\ InHand(c)' = InHand(c)
  <2>1. CASE Take(c)
    <3>1. hand[c] = None /\ slot[c] # None /\ hand'[c] = slot[c] /\ shown' = shown
      BY <1>3, <2>1 DEF Take
    <3>2. InHand(c)' = ToBeShown(c)
      BY <3>1 DEF InHand, ToBeShown
    <3> QED BY <3>1, <3>2
  <2>2. CASE Announce(c)
    BY <2>2 DEF Announce, InHand
  <2>3. CASE Write(c)
    <3>1. hand[c] # None /\ hand'[c] = None /\ shown'[c] = Drawn(hand[c], shown[c])
      BY <1>3, <2>3 DEF Write
    <3> QED BY <3>1 DEF InHand
  <2>4. CASE WriteFails(c)
    BY <1>3, <2>4 DEF WriteFails, Live
  <2> QED BY <2>1, <2>2, <2>3, <2>4
<1>5. ASSUME NEW x \in PartsOf(c)
      PROVE  /\ shown[c][x] <= shown'[c][x] /\ shown'[c][x] <= InHand(c)'[x]
             /\ InHand(c)'[x] <= ToBeShown(c)'[x] /\ ToBeShown(c)'[x] <= content'[x]
  <2>1. /\ shown[c][x] \in Nat /\ InHand(c)[x] \in Nat /\ ToBeShown(c)[x] \in Nat
    BY ScreenVersions
  <2>2. /\ shown[c][x] <= InHand(c)[x] /\ InHand(c)[x] <= ToBeShown(c)[x]
        /\ ToBeShown(c)[x] <= content'[x]
    BY <1>1, <1>2 DEF InOrder
  <2> QED BY <1>2, <1>4, <2>1, <2>2
<1> QED BY <1>5 DEF InOrder

\* A frame that is drawn is not older than what is on its way already.
LEMMA FrameNotOlder ==
  ASSUME Inv, Inv', NEW c \in Clients, NEW frame \in Frames(c), Live(c), InOrder(c),
         UNCHANGED <<connVars, content>>, Deliver(c, frame, Outcome(c, frame)),
         \A x \in PartsOf(c) :
             frame[x] = content[x] \/ (base[c] # None /\ frame[x] = base[c][x])
  PROVE  InOrder(c)'
<1>1. shown' = shown /\ InHand(c)' = InHand(c)
  BY DEF connVars, InHand
<1>2. CASE Outcome(c, frame) # "queued"
  <2>1. slot' = slot
    BY <1>2 DEF Deliver
  <2> QED BY <1>1, <2>1 DEF InOrder, ToBeShown
<1>3. CASE Outcome(c, frame) = "queued"
  <2>1. slot[c] = None
    BY <1>3 DEF Outcome
  <2>2. base[c] # None => InHand(c) = base[c]
    BY <2>1 DEF Inv, LeadsInv, Leads, ToBeShown
  <2>3. ToBeShown(c) = InHand(c)
    BY <2>1 DEF ToBeShown
  <2>4. ToBeShown(c)' = frame
    BY <1>3, Delivered
  <2>5. ASSUME NEW x \in PartsOf(c)
        PROVE  InHand(c)[x] <= frame[x] /\ frame[x] <= content[x]
    <3>1. InHand(c)[x] \in Nat /\ content[x] \in Nat /\ InHand(c)[x] <= content[x]
      BY <2>3, ScreenVersions DEF InOrder
    <3> QED BY <2>2, <3>1
  <2> QED BY <1>1, <2>4, <2>5 DEF InOrder
<1> QED BY <1>2, <1>3

LEMMA FramesInOrder ==
  ASSUME Inv, Inv', Forward, RetainedPatch \/ \E c \in Clients : RenderClient(c)
  PROVE  Forward'
<1>1. UNCHANGED <<connVars, content>>
  BY DEF RetainedPatch, RenderClient, LoopFrame
<1> DEFINE Draws(c, frame) ==
        /\ Deliver(c, frame, Outcome(c, frame))
        /\ \A x \in PartsOf(c) :
             frame[x] = content[x] \/ (base[c] # None /\ frame[x] = base[c][x])
<1>2. \E c \in Clients : \E frame \in Frames(c) : Draws(c, frame)
  <2>1. CASE RetainedPatch
    <3>1. PICK c \in clients : Retains(c) /\ Deliver(c, Patched(c), Outcome(c, Patched(c)))
      BY <2>1 DEF RetainedPatch
    <3>2. c \in Clients /\ Patched(c) \in Frames(c)
      BY <3>1, PatchedType DEF Inv, Shaped, TypeOK
    <3>3. \A x \in PartsOf(c) : Patched(c)[x] \in {content[x], base[c][x]} /\ base[c] # None
      BY <3>1, RenderConstants DEF Patched, PartsOf, Retains, Parts
    <3> QED BY <3>1, <3>2, <3>3
  <2>2. CASE \E c \in Clients : RenderClient(c)
    <3>1. PICK c \in Clients : Deliver(c, Screen(c), Outcome(c, Screen(c)))
      BY <2>2 DEF RenderClient
    <3>2. Screen(c) \in Frames(c) /\ \A x \in PartsOf(c) : Screen(c)[x] = content[x]
      BY ContentType DEF Inv, Shaped, Screen
    <3> QED BY <3>1, <3>2
  <2> QED BY <2>1, <2>2
<1>3. PICK c \in Clients : \E frame \in Frames(c) : Draws(c, frame)
  BY <1>2
<1>4. PICK frame \in Frames(c) : Draws(c, frame)
  BY <1>3
<1>5. \A d \in Clients : Live(d)' = Live(d)
  BY <1>1 DEF Live, connVars
<1>6. ASSUME NEW d \in Clients, Live(d) PROVE InOrder(d)'
  <2>1. InOrder(d)
    BY <1>6 DEF Forward
  <2>2. CASE d = c
    BY <1>1, <1>4, <1>6, <2>1, <2>2, FrameNotOlder
  <2>3. CASE d # c
    <3>1. slot'[d] = slot[d]
      BY <1>4, <2>3 DEF Deliver, Inv, Shaped, PerClient
    <3> QED BY <1>1, <2>1, <3>1 DEF InOrder, ToBeShown, InHand, connVars
  <2> QED BY <2>2, <2>3
<1> QED BY <1>5, <1>6 DEF Forward

LEMMA InitForward == Init => Forward
<1> SUFFICES ASSUME Init, NEW c \in Clients, NEW x \in PartsOf(c)
             PROVE  /\ shown[c][x] <= InHand(c)[x] /\ InHand(c)[x] <= ToBeShown(c)[x]
                    /\ ToBeShown(c)[x] <= content[x]
  BY DEF Forward, InOrder
<1>1. shown[c][x] = 0 /\ InHand(c) = shown[c] /\ ToBeShown(c) = shown[c]
  BY DEF Init, Blank, InHand, ToBeShown
<1>2. content[x] = 1
  BY RenderConstants DEF Init, PartsOf, Parts
<1> QED BY <1>1, <1>2

\* What a step does to a client whose screen stays.
Advances(c) ==
    Live(c)' => /\ InOrder(c)'
                /\ \A x \in PartsOf(c) : shown[c][x] <= shown'[c][x]

LEMMA NextForward ==
  ASSUME Inv, Inv', Forward, [Next]_vars, NEW c \in Clients
  PROVE  Advances(c)
<1>1. Grows
  BY ContentGrows
<1>2. ASSUME Untouched(c) PROVE Advances(c)
  <2>1. Live(c)' => InOrder(c)'
    BY <1>1, <1>2, UntouchedInOrder DEF Forward
  <2>2. Live(c)' => \A x \in PartsOf(c) : shown[c][x] <= shown'[c][x]
    BY <1>2, ScreenVersions DEF Untouched
  <2> QED BY <2>1, <2>2 DEF Advances
<1>3. ASSUME UNCHANGED <<connVars, slot>> PROVE Advances(c)
  BY <1>2, <1>3 DEF Untouched, Live, connVars
<1>4. CASE \E d \in Clients : \/ Join(d) \/ Leave(d) \/ End(d)
                              \/ \E kind \in InputKinds : Input(d, kind)
  <2>1. Untouched(c)
    BY <1>4 DEF Join, Leave, End, Input, Untouched, Live, connVars, Inv, Shaped, TypeOK, PerClient
  <2> QED BY <1>2, <2>1
<1>5. CASE \E d \in Clients : Take(d) \/ Announce(d) \/ Write(d) \/ WriteFails(d)
  <2>1. PICK d \in Clients : Take(d) \/ Announce(d) \/ Write(d) \/ WriteFails(d)
    BY <1>5
  <2>2. CASE d = c
    BY <1>1, <2>1, <2>2, WriterInOrder DEF Forward, Advances
  <2>3. CASE d # c
    <3>1. Untouched(c)
      BY <2>1, <2>3
         DEF Take, Announce, Write, WriteFails, Untouched, Live, Inv, Shaped, TypeOK, PerClient
    <3> QED BY <1>2, <3>1
  <2> QED BY <2>2, <2>3
<1>6. CASE RetainedPatch \/ \E d \in Clients : RenderClient(d)
  <2>1. shown' = shown
    BY <1>6 DEF RetainedPatch, RenderClient, LoopFrame, connVars
  <2>2. \A x \in PartsOf(c) : shown[c][x] <= shown'[c][x]
    BY <2>1, ScreenVersions
  <2>3. Forward'
    BY <1>6, FramesInOrder
  <2> QED BY <2>2, <2>3 DEF Forward, Advances
<1>7. CASE HandleEvent
  <2>1. UNCHANGED <<connVars, slot>>
    BY <1>7 DEF HandleEvent, Connected, Disconnected, WriterDrained, Interaction, Typed,
       OtherInput, Resized, FromNobody, Received, LoopFrame
  <2> QED BY <1>3, <2>1
<1>8. CASE \/ UNCHANGED vars \/ \E p \in Panes : Output(p) \/ RequestRender(p)
           \/ Change \/ NextTurn \/ Render \/ RetainedFallback \/ DrawnForNobody \/ RenderDone
  <2>1. UNCHANGED <<connVars, slot>>
    BY <1>8 DEF vars, Output, RequestRender, Reader, Change, NextTurn, Render, RetainedFallback,
       DrawnForNobody, RenderDone, LoopFrame
  <2> QED BY <1>3, <2>1
<1> QED BY <1>4, <1>5, <1>6, <1>7, <1>8 DEF Next, Loop

(* No part of what a client shows ever goes back to an older state, though *)
(* frames are left for later, patched into frames sent before, and written *)
(* by a thread that lags behind (client_writer_loop, prepare_frame).       *)
ScreenNeverOlder ==
    [][\A c \in Clients : Shows(c) /\ Shows(c)' =>
           \A x \in PartsOf(c) : shown[c][x] <= shown'[c][x]]_vars

(* No part of a client's screen goes back to an older state, and what it   *)
(* shows is never newer than what is on its way, nor that than what there  *)
(* is (client_writer_loop, prepare_frame).                                 *)
THEOREM ScreensGoForward == Spec => ScreenNeverOlder /\ []Forward
<1>1. Inv /\ Inv' /\ Forward /\ [Next]_vars =>
        /\ Forward'
        /\ \A c \in Clients : Shows(c) /\ Shows(c)' =>
              \A x \in PartsOf(c) : shown[c][x] <= shown'[c][x]
  <2> SUFFICES ASSUME Inv, Inv', Forward, [Next]_vars
               PROVE  /\ Forward'
                      /\ \A c \in Clients : Shows(c) /\ Shows(c)' =>
                            \A x \in PartsOf(c) : shown[c][x] <= shown'[c][x]
    OBVIOUS
  <2>1. \A c \in Clients : Advances(c)
    BY NextForward
  <2> QED BY <2>1 DEF Forward, Advances, Shows, Live
<1> QED BY <1>1, InitInv, InitForward, NextInv, PTL DEF Spec, ScreenNeverOlder
=============================================================================
