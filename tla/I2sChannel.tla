------------------------------ MODULE I2sChannel ------------------------------
(***************************************************************************)
(* What the players of sound.c promise each other about the one I2S channel *)
(* (tx_chan): it has one owner from the take of g_i2s_mutex to its give, it *)
(* is switched on and off by its owner only, and it is handed back switched *)
(* off.  Who wants the channel, and how often, is left open.                *)
(***************************************************************************)
CONSTANTS Players, Nobody

VARIABLES
  owner,  \* the player that may use the channel, or Nobody
  on      \* the channel is enabled

Init == owner = Nobody /\ on = FALSE

Take(p) == owner = Nobody /\ owner' = p /\ UNCHANGED on

SwitchOn(p) == owner = p /\ on = FALSE /\ on' = TRUE /\ UNCHANGED owner

SwitchOff(p) == owner = p /\ on = TRUE /\ on' = FALSE /\ UNCHANGED owner

Give(p) == owner = p /\ on = FALSE /\ owner' = Nobody /\ UNCHANGED on

Next == \E p \in Players : Take(p) \/ SwitchOn(p) \/ SwitchOff(p) \/ Give(p)

Spec == Init /\ [][Next]_<<owner, on>>
=============================================================================
