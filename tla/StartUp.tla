------------------------------- MODULE StartUp -------------------------------
(***************************************************************************)
(* The firmware from reset to the running car: app_main (main.c), the       *)
(* access point and its event (my_wifi.c), the receive thread (my_ucp.c)    *)
(* and the status LED.                                                      *)
(*                                                                          *)
(* The access point is started first, so the receive thread may get a       *)
(* message while app_main is still setting up the parts the message is for. *)
(* A part used before it is set up panics (a null queue or semaphore), and  *)
(* so does a call whose ESP_ERROR_CHECK fails.  A panic restarts the chip.  *)
(***************************************************************************)
EXTENDS StatusLed, Sequences, FiniteSets

CONSTANT MaxResets  \* bound on power failures

ASSUME StartUpAssumption == MaxResets \in Nat

VARIABLES
  nvs,      \* the flash partition, which outlives a reset: "full" must be erased
  pos,      \* how many steps app_main has done
  ready,    \* the parts that are set up
  rx,       \* the receive thread: "none", "idle", "failed"
  mp3,      \* an mp3 task has been created
  early,    \* history: a message came before app_main was done
  failed,   \* history: a call of app_main failed
  panicked,
  resets    \* power failures so far

bootVars == <<nvs, pos, ready, rx, mp3, early, failed, panicked, resets>>
vars == <<statusVars, bootVars>>

\* Mutant: the tasks of my_app_init are created before the strip is set up.
AppFirst == <<"nvs", "wifi", "pwm", "gpio", "sound", "mp3", "convert", "app", "strip", "adc">>

\* The calls of app_main, in their order.
app_main == <<"nvs", "wifi", "pwm", "gpio", "sound", "mp3", "convert", "strip", "adc", "app">>

Up == pos = Len(app_main)

Init ==
  /\ StatusInit
  /\ pos = 0
  /\ ready = {}
  /\ rx = "none"
  /\ mp3 = FALSE
  /\ early = FALSE
  /\ failed = FALSE
  /\ panicked = FALSE
  /\ nvs \in {"ok", "full"}
  /\ resets = 0

Doing(s) == ~panicked /\ ~Up /\ app_main[pos + 1] = s

Done(s) ==
  /\ pos' = pos + 1
  /\ ready' = ready \cup {s}

\* nvs_flash_init, the first time or after the erasure
NvsInit ==
  /\ Doing("nvs")
  /\ nvs = "ok"
  /\ Done("nvs")
  /\ UNCHANGED <<statusVars, nvs, rx, mp3, early, failed, panicked, resets>>

\* Mutant: a full partition is an error.
NvsAbort ==
  /\ Doing("nvs")
  /\ nvs = "full"
  /\ panicked' = TRUE
  /\ UNCHANGED <<statusVars, nvs, pos, ready, rx, mp3, early, failed, resets>>

\* ESP_ERR_NVS_NO_FREE_PAGES, ESP_ERR_NVS_NEW_VERSION_FOUND: nvs_flash_erase, and
\* nvs_flash_init once more.
NvsErase ==
  /\ Doing("nvs")
  /\ nvs = "full"
  /\ nvs' = "ok"
  /\ UNCHANGED <<statusVars, pos, ready, rx, mp3, early, failed, panicked, resets>>

\* ESP_ERROR_CHECK: the panic handler.
Abort ==
  /\ failed' = TRUE
  /\ panicked' = TRUE
  /\ UNCHANGED <<statusVars, nvs, pos, ready, rx, mp3, early, resets>>

\* nvs_flash_init has another error, the first or the second time, or
\* nvs_flash_erase fails.
NvsFails == Doing("nvs") /\ Abort

\* The other calls; the last one, my_app_init, creates the status LED task and does
\* not look whether that worked.
InitPart ==
  /\ \E s \in {"wifi", "pwm", "gpio", "sound", "mp3", "convert", "strip", "adc", "app"} :
       Doing(s) /\ Done(s)
  /\ led' \in IF "app" \in ready' \ ready THEN {"look", "none"} ELSE {led}
  /\ UNCHANGED <<inputVars, colour, n, shown, over, nvs, rx, mp3, early, failed, panicked, resets>>

\* The calls that check what the drivers return; gpio_init, audio_convert_init and
\* my_app_init do not.
InitFails == (\E s \in {"wifi", "pwm", "sound", "mp3", "strip", "adc"} : Doing(s)) /\ Abort

\* WIFI_EVENT_AP_START on the event task: my_ucp_init, which gives up when
\* ucp_init or the creation of the thread fails.
ApStart ==
  /\ ~panicked
  /\ "wifi" \in ready
  /\ rx = "none"
  /\ rx' \in {"idle", "failed"}
  /\ UNCHANGED <<statusVars, nvs, pos, ready, mp3, early, failed, panicked, resets>>

\* The parts that the handler of a message, and the tasks it creates, use at once.
Needs(m) ==
  CASE m = "M_RUN" -> {"pwm"}
    [] m = "S_PLAY" -> {"sound", "mp3"}
    [] m = "C_CMDS" -> {"sound", "pwm", "strip"}

\* handle_message on the receive thread.
Message(m) ==
  /\ ~panicked
  /\ rx = "idle"
  /\ early' = (early \/ ~Up)
  /\ panicked' = ~(Needs(m) \subseteq ready)
  /\ mp3' = (mp3 \/ m = "S_PLAY")
  /\ UNCHANGED <<statusVars, nvs, pos, ready, rx, failed, resets>>

\* The mp3 task hands samples to the converter if its callback is registered, and
\* the converter frames to the strip.
Samples ==
  /\ ~panicked
  /\ mp3
  /\ panicked' = ("convert" \in ready /\ "strip" \notin ready)
  /\ mp3' \in BOOLEAN
  /\ UNCHANGED <<statusVars, nvs, pos, ready, rx, early, failed, resets>>

\* A frame of the status LED task needs the strip.
StatusStep ==
  /\ ~panicked
  /\ LedTask
  /\ panicked' = (led # "look" /\ "strip" \notin ready)
  /\ UNCHANGED <<nvs, pos, ready, rx, mp3, early, failed, resets>>

\* What a reset leaves: only the flash.
Reset ==
  /\ StatusReset
  /\ pos' = 0
  /\ ready' = {}
  /\ rx' = "none"
  /\ mp3' = FALSE
  /\ early' = FALSE
  /\ failed' = FALSE
  /\ panicked' = FALSE
  /\ UNCHANGED nvs

\* The panic handler restarts the chip.
Restart == panicked /\ Reset /\ UNCHANGED resets

\* The power, at any time.
PowerFails == resets < MaxResets /\ resets' = resets + 1 /\ Reset

Env == ~panicked /\ Up /\ Surroundings /\ UNCHANGED bootVars

Next ==
  \/ NvsInit \/ NvsErase \/ NvsFails \/ InitPart \/ InitFails \/ ApStart
  \/ \E m \in {"M_RUN", "S_PLAY", "C_CMDS"} : Message(m)
  \/ Samples \/ StatusStep \/ Restart \/ PowerFails \/ Env

Main == NvsInit \/ NvsErase \/ NvsFails \/ InitPart \/ InitFails

\* The scheduler runs app_main and the LED task; a panic restarts the chip.
Spec ==
  /\ Init /\ [][Next]_vars
  /\ WF_vars(Main)
  /\ WF_vars(StatusStep)
  /\ WF_vars(Restart)

(***************************************************************************)
(* Properties.                                                              *)
(***************************************************************************)
\* The order of app_main is sound: the tasks it creates find every part they use.
\* A panic is a call of app_main that failed, or a message that came before
\* app_main was done.
TasksFindTheirParts == panicked => early \/ failed

\* Whatever the partition holds and wherever the resets came, a panic is not for
\* ever: once the calls of app_main have stopped to fail and messages to come too
\* early, the car comes up and stays up.
ComesUp == <>[](~failed /\ ~early) => <>[](Up /\ ~panicked)

\* Frames of the status LED that a file which has begun to play still has to put
\* up with: no more than one pattern.
YieldsToMusic == over <= 2 * Blinks

\* The status task is there and the strip is not the music's.
Showing == Up /\ ~panicked /\ led # "none" /\ ~sound

\* The task shows c again and again, dark in between, and in the end nothing else.
Flashes(c) ==
  /\ []<>(shown = c)
  /\ []<>(shown = "dark")
  /\ <>[](shown \in {c, "dark"})

\* With the car in one state for good the frames of the status task show that state
\* and no other: white flashes while the motors run, red ones when they stand.
\* (Frames of an LED program may come in between.)
ShowsState ==
  /\ <>[](Showing /\ motor) => Flashes("white")
  /\ <>[](Showing /\ ~motor) => Flashes("red")
=============================================================================
