----------------------------- MODULE StatusFeed -----------------------------
(***************************************************************************)
(* What a subscription promises about the thing it watches: it tells one   *)
(* version of it after the other, never an older one after a newer, never  *)
(* one twice, and never one that was not.  It may skip versions.           *)
(***************************************************************************)
EXTENDS Naturals, Sequences

CONSTANT Values

VARIABLES
    values,   \* the versions there have been, the last one current
    told      \* the version told last, 0 before the first

Init ==
    /\ \E v \in Values : values = <<v>>
    /\ told = 0

Change ==
    /\ \E v \in Values : values' = Append(values, v)
    /\ told' = told

Tell ==
    /\ told' \in (told + 1)..Len(values)
    /\ values' = values

Next == Change \/ Tell

Spec == Init /\ [][Next]_<<values, told>>
=============================================================================
