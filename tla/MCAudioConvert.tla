--------------------------- MODULE MCAudioConvert ---------------------------
(* The converter together with the LED strip.  *)
EXTENDS AudioConvert

MCMaxFrames == 1 + MaxCalls + OtherFrames
=============================================================================
