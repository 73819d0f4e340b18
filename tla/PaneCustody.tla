---------------------------- MODULE PaneCustody ----------------------------
(***************************************************************************)
(* What a live handoff promises of the panes' PTYs, without sockets or      *)
(* messages: every PTY is kept by one server, only its keeper reads it, all *)
(* of them change hands at once and at most once, and none is lost while    *)
(* its keeper lives.                                                        *)
(***************************************************************************)
CONSTANT Panes

VARIABLES
  keeper,   \* the server each PTY belongs to, or "nobody"
  reader,   \* the servers that read each PTY
  up        \* the servers that run

vars == <<keeper, reader, up>>

Init ==
  /\ up = {"old"}
  /\ keeper = [p \in Panes |-> "old"]
  /\ reader = [p \in Panes |-> {"old"}]

Pause(p) ==
  /\ reader' = [reader EXCEPT ![p] = {}]
  /\ UNCHANGED <<keeper, up>>

Resume(p) ==
  /\ keeper[p] \in up
  /\ reader' = [reader EXCEPT ![p] = {keeper[p]}]
  /\ UNCHANGED <<keeper, up>>

Start ==
  /\ \A p \in Panes : keeper[p] = "old"
  /\ up' = up \cup {"new"}
  /\ UNCHANGED <<keeper, reader>>

HandOver ==
  /\ up = {"old", "new"}
  /\ \A p \in Panes : keeper[p] = "old" /\ reader[p] = {}
  /\ keeper' = [p \in Panes |-> "new"]
  /\ UNCHANGED <<reader, up>>

\* Servers `gone` end; PTYs whose keeper does not run may be lost, then or later.
End(gone, lost) ==
  /\ up' = up \ gone
  /\ \A p \in lost : keeper[p] \notin up'
  /\ keeper' = [p \in Panes |-> IF p \in lost THEN "nobody" ELSE keeper[p]]
  /\ reader' = [p \in Panes |-> reader[p] \ gone]

Next ==
  \/ \E p \in Panes : Pause(p) \/ Resume(p)
  \/ Start \/ HandOver
  \/ \E gone \in SUBSET up, lost \in SUBSET Panes : End(gone, lost)

Spec == Init /\ [][Next]_vars
=============================================================================
