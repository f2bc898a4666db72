---------------------------- MODULE MCSoundTasks ----------------------------
(* A small instance of SoundTasks for TLC.  *)
EXTENDS SoundTasks

CONSTANTS t1, t2

MCKinds == {"notes", "mp3"}
MCCallers == {"rx", "rc"}
MCStrs == 0..MaxLen
=============================================================================
