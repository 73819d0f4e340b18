----------------------------- MODULE MCPtyActor -----------------------------
(* Model checking PtyActor: two writers, a queue of one, two sizes. *)
EXTENDS PtyActor, TLC

CONSTANTS w1, w2, term, small, large, none

MCWriters == {w1, w2}
MCOneWriter == {w1}
MCSizes == {small, large}
MCNoTiny == {}
=============================================================================
