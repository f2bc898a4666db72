---------------------------- MODULE MCCmdString ----------------------------
(* Strings for TLC: all short ones over a small alphabet, and those put *)
(* together from up to three pieces, sound and malformed.               *)
EXTENDS CmdString

CONSTANTS MaxShort, MaxPieces

Short == SeqOf({"R", "1", ",", ";"}, MaxShort)

PieceStrings ==
  {<<"R", ",", "1", ";">>, <<"RB", ",", "2", ";">>, <<"Chase", ",", "3", ";">>,
   <<"NO", ",", "3", ";">>, <<"do", ",", "1", "2", ";">>, <<"R", "R", ",", "1", ";">>,
   <<";">>, <<",", "1", ";">>, <<"R", ";">>, <<"R", ",", "1">>, <<"R", ",", ";">>}

MCInputs == Short \cup {FlattenSeq(p) : p \in SeqOf(PieceStrings, MaxPieces)}

MCWalkers == {"led", "motor", "notes"}
=============================================================================
