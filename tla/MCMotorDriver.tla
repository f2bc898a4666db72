---------------------------- MODULE MCMotorDriver ----------------------------
(* A small instance of MotorDriver for TLC.  *)
EXTENDS MotorDriver, TLC

CONSTANTS t1, t2

\* The first motor off, the second backward at a speed that nobody should send: its
\* product wraps and the duty is -21474826.
MCDrives == {[s1 |-> 0, d1 |-> 1, s2 |-> 2097153, d2 |-> -1]}

TaskSymmetry == Permutations(Tasks)
=============================================================================
