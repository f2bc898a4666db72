---------------------------- MODULE MCMp3Source ----------------------------
(* A small instance of Mp3Source for TLC: a short sound, songs of three *)
(* units, a ring buffer shorter than a song, an id out of range.        *)
EXTENDS Mp3Source

MCSize == [f \in Files |-> IF f = 0 THEN 1 ELSE 3]
=============================================================================
