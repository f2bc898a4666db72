----------------------------- MODULE MCCmdRunner -----------------------------
(* Small instances of CmdRunner for TLC.  *)
EXTENDS CmdRunner, TLC

CONSTANTS t1, t2, t3, r1, r2, rc1

AllKinds == {"notes", "motor", "led"}
MCCallers == {"rx"} \cup Runners

Program(l, n, m, g) ==
  [complete |-> TRUE, loop |-> l,
   len |-> [k \in Kinds |-> CASE k = "notes" -> n [] k = "motor" -> m [] k = "led" -> g]]

\* A looped program, one that plays once, a message with a member missing.
MixedPrograms == {Program(TRUE, 0, 1, 1), Program(FALSE, 0, 1, 0),
                  [Program(TRUE, 0, 0, 0) EXCEPT !.complete = FALSE]}

\* A program that plays once, with an LED string shorter than the motor string.
OneShotPrograms == {Program(FALSE, 0, 1, 0)}

\* The same without commands.
EmptyPrograms == {Program(TRUE, 0, 0, 0), Program(FALSE, 0, 0, 0),
                  [Program(TRUE, 0, 0, 0) EXCEPT !.complete = FALSE]}

LoopedPrograms == {Program(TRUE, 0, 0, 0)}

\* Task slots are interchangeable.
TaskSymmetry == Permutations(TaskIds)
=============================================================================
