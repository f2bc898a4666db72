------------------------------- MODULE Display -------------------------------
(***************************************************************************)
(* What led_strip_fill_data promises to the tasks that call it: frames are  *)
(* shown in the order in which they were accepted.  A refresh may skip      *)
(* frames, and may show two frames at once, one on each part of the strip,  *)
(* but no part ever goes back to an older frame or shows one that was never *)
(* accepted.                                                                *)
(***************************************************************************)
EXTENDS Naturals

CONSTANT Parts

VARIABLES
  latest,  \* the number of the last frame accepted
  shown    \* the frame each part of the strip shows

Init == latest = 1 /\ shown = [p \in Parts |-> 0]

Accept == latest' = latest + 1 /\ UNCHANGED shown

Refresh ==
  /\ \A p \in Parts : shown[p] <= shown'[p] /\ shown'[p] <= latest
  /\ UNCHANGED latest

Next == Accept \/ Refresh

Spec == Init /\ [][Next]_<<latest, shown>>
=============================================================================
