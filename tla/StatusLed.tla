------------------------------ MODULE StatusLed ------------------------------
(***************************************************************************)
(* The task that shows the state of the car on the strip (app_led_task of   *)
(* main.c).  It polls the mp3 player, the motors, the battery and the       *)
(* connection, and shows a pattern of frames before it looks again.  While  *)
(* an mp3 file plays the strip belongs to the music.                        *)
(***************************************************************************)
EXTENDS Naturals

CONSTANT Blinks  \* led_blink(5, 5, 5, 10)

ASSUME StatusAssumption == Blinks \in Nat \ {0}

VARIABLES
  sound,   \* is_sound_play_run()
  motor,   \* is_motor_run()
  conn,    \* ucp_get_conn_state()
  led,     \* where the task is, "none" before it is created
  colour,  \* the colour of the pattern in hand
  n,       \* flashes left of it
  shown,   \* the last frame that this task handed to the strip
  over     \* history: frames shown since an mp3 file started

inputVars == <<sound, motor, conn>>
taskVars == <<led, colour, n, shown, over>>
statusVars == <<inputVars, taskVars>>

StatusInit ==
  /\ sound = FALSE /\ motor = FALSE /\ conn = FALSE
  /\ led = "none" /\ colour = "red" /\ n = 0 /\ shown = "dark" /\ over = 0

\* The RAM after a reset.
StatusReset ==
  /\ sound' = FALSE /\ motor' = FALSE /\ conn' = FALSE
  /\ led' = "none" /\ colour' = "red" /\ n' = 0 /\ shown' = "dark" /\ over' = 0

\* get_sys_bat_level, of the voltage at the divider.
BatLevel(v) ==
  CASE 2 * v > 3900 -> 4
    [] 2 * v > 3800 /\ 2 * v <= 3900 -> 3
    [] 2 * v > 3750 /\ 2 * v <= 3800 -> 2
    [] 2 * v > 3680 /\ 2 * v <= 3750 -> 1
    [] OTHER -> 0

\* The task that measures the voltage has its body commented out: g_sys_vol
\* keeps its initial value, the level is 0 and the car always shows red.
g_sys_vol == 0

Pattern ==
  IF motor THEN "white"
  ELSE IF BatLevel(g_sys_vol) = 0 THEN "red"
  ELSE IF ~conn THEN "yellow"
  ELSE "green"

\* Mutant: the player is not looked at.
LookAlways ==
  /\ led = "look"
  /\ colour' = Pattern
  /\ n' = IF Pattern = "white" THEN Blinks ELSE 1
  /\ led' = "on"
  /\ UNCHANGED <<inputVars, shown, over>>

\* The head of the loop.  While a file plays the task sleeps and looks again.
Look ==
  /\ led = "look"
  /\ ~sound
  /\ colour' = Pattern
  /\ n' = IF Pattern = "white" THEN Blinks ELSE 1
  /\ led' = "on"
  /\ UNCHANGED <<inputVars, shown, over>>

Show(c) ==
  /\ shown' = c
  /\ over' = IF sound THEN over + 1 ELSE over

\* led_one_color(r, g, b) of led_blink and led_blink2, led_one_color2 for green.
On ==
  /\ led = "on"
  /\ Show(colour)
  /\ led' = IF colour = "green" THEN "look" ELSE "off"
  /\ UNCHANGED <<inputVars, colour, n>>

\* Mutant: the flashes are not counted.
OffForever ==
  /\ led = "off"
  /\ Show("dark")
  /\ led' = "on"
  /\ UNCHANGED <<inputVars, colour, n>>

\* led_one_color(0, 0, 0) and the end of the pattern.
Off ==
  /\ led = "off"
  /\ Show("dark")
  /\ n' = n - 1
  /\ led' = IF n = 1 THEN "look" ELSE "on"
  /\ UNCHANGED <<inputVars, colour>>

LedTask == Look \/ On \/ Off

\* The player and the motors start and stop, clients come and go.
Surroundings ==
  \/ /\ sound' = ~sound
     /\ over' = 0
     /\ UNCHANGED <<motor, conn, led, colour, n, shown>>
  \/ /\ motor' = ~motor
     /\ UNCHANGED <<sound, conn, taskVars>>
  \/ /\ conn' = ~conn
     /\ UNCHANGED <<sound, motor, taskVars>>
=============================================================================
