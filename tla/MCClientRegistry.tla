-------------------------- MODULE MCClientRegistry --------------------------
(* Three clients, so that an attached client can be evicted while an app      *)
(* client holds the foreground.                                              *)
EXTENDS ClientRegistry, TLC

Symmetry == Permutations(Clients)
=============================================================================
