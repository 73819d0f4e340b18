--------------------------- MODULE MCLiveHandoff ---------------------------
(* LiveHandoff for TLC. *)
EXTENDS LiveHandoff
=============================================================================
