---------------------------- MODULE StartUpProofs ----------------------------
(***************************************************************************)
(* Proofs about the start-up and the status LED (StartUp), for any number   *)
(* of flashes and power failures.                                           *)
(***************************************************************************)
EXTENDS StartUp, TLAPS

\* The ten calls of app_main.
LEMMA AppMain ==
  /\ Len(app_main) = 10
  /\ app_main[1] = "nvs" /\ app_main[2] = "wifi" /\ app_main[3] = "pwm"
  /\ app_main[4] = "gpio" /\ app_main[5] = "sound" /\ app_main[6] = "mp3"
  /\ app_main[7] = "convert" /\ app_main[8] = "strip" /\ app_main[9] = "adc"
  /\ app_main[10] = "app"
BY DEF app_main

(***************************************************************************)
(* The order of app_main.                                                   *)
(***************************************************************************)
\* What is set up when: app_main's steps one after the other, the LED task after
\* the strip, and samples without the strip only after an early message.
OrderInv ==
  /\ pos \in 0..10
  /\ \A i \in 1..pos : app_main[i] \in ready
  /\ led # "none" => "strip" \in ready
  /\ mp3 => early \/ "strip" \in ready
  /\ panicked => early \/ failed

\* The parts set up do not get fewer but by a reset.
LEMMA PartDone ==
  ASSUME OrderInv, NEW s, Doing(s), Done(s)
  PROVE  /\ pos' \in 0..10
         /\ \A i \in 1..pos' : app_main[i] \in ready'
         /\ ready \subseteq ready'
BY AppMain DEF OrderInv, Doing, Done, Up

\* Once app_main is done every message finds its parts.
LEMMA AllReady ==
  ASSUME OrderInv, Up, NEW m \in {"M_RUN", "S_PLAY", "C_CMDS"}
  PROVE  Needs(m) \subseteq ready /\ "strip" \in ready
<1>1. /\ app_main[3] \in ready /\ app_main[5] \in ready
      /\ app_main[6] \in ready /\ app_main[8] \in ready
  BY AppMain DEF OrderInv, Up
<1>2. /\ "pwm" \in ready /\ "sound" \in ready /\ "mp3" \in ready /\ "strip" \in ready
  BY <1>1, AppMain
<1>3. Needs(m) \subseteq {"pwm", "sound", "mp3", "strip"}
  BY DEF Needs
<1> QED
  BY <1>2, <1>3

\* Nothing is set up after a reset.
LEMMA OrderInit == Init => OrderInv
BY DEF Init, StatusInit, OrderInv

\* Every step keeps the order.
LEMMA OrderNext == OrderInv /\ [Next]_vars => OrderInv'
<1> SUFFICES ASSUME OrderInv, [Next]_vars PROVE OrderInv'
  OBVIOUS
<1>1. CASE NvsInit
  BY <1>1, PartDone DEF NvsInit, OrderInv, statusVars, taskVars, inputVars
<1>2. CASE NvsErase
  BY <1>2 DEF NvsErase, OrderInv, statusVars, taskVars, inputVars
<1>11. CASE NvsFails \/ InitFails
  <2>1. Abort
    BY <1>11 DEF NvsFails, InitFails
  <2> QED
    BY <2>1 DEF Abort, OrderInv, statusVars, taskVars, inputVars
<1>3. CASE InitPart
  <2>1. PICK s \in {"wifi", "pwm", "gpio", "sound", "mp3", "convert", "strip", "adc", "app"} :
          Doing(s) /\ Done(s)
    BY <1>3 DEF InitPart
  <2>2. /\ pos' \in 0..10 /\ \A i \in 1..pos' : app_main[i] \in ready'
        /\ ready \subseteq ready'
    BY <2>1, PartDone
  <2>3. led' # "none" => "strip" \in ready'
    <3>1. CASE s = "app"
      <4>1. pos = 9
        BY <2>1, <3>1, AppMain DEF OrderInv, Doing, Up
      <4> QED
        BY <4>1, <2>2, AppMain DEF OrderInv
    <3>2. CASE s # "app"
      BY <1>3, <2>1, <2>2, <3>2 DEF InitPart, OrderInv, Done
    <3> QED
      BY <3>1, <3>2
  <2> QED
    BY <1>3, <2>2, <2>3 DEF InitPart, OrderInv
<1>4. CASE ApStart
  BY <1>4 DEF ApStart, OrderInv, statusVars, taskVars, inputVars
<1>5. CASE \E m \in {"M_RUN", "S_PLAY", "C_CMDS"} : Message(m)
  <2>1. PICK m \in {"M_RUN", "S_PLAY", "C_CMDS"} : Message(m)
    BY <1>5
  <2>2. CASE Up
    BY <2>1, <2>2, AllReady DEF Message, OrderInv, statusVars, taskVars
  <2>3. CASE ~Up
    BY <2>1, <2>3 DEF Message, OrderInv, statusVars, taskVars
  <2> QED
    BY <2>2, <2>3
<1>6. CASE Samples
  BY <1>6 DEF Samples, OrderInv, statusVars, taskVars
<1>7. CASE StatusStep
  <2>1. led # "none" /\ (led # "look" => "strip" \in ready)
    BY <1>7 DEF StatusStep, LedTask, Look, On, Off, OrderInv
  <2> QED
    BY <1>7, <2>1 DEF StatusStep, OrderInv
<1>8. CASE Restart \/ PowerFails
  BY <1>8 DEF Restart, PowerFails, Reset, StatusReset, OrderInv
<1>9. CASE Env
  BY <1>9 DEF Env, Surroundings, OrderInv, bootVars, taskVars
<1>10. CASE UNCHANGED vars
  BY <1>10 DEF OrderInv, vars, statusVars, bootVars, taskVars
<1> QED
  BY <1>1, <1>2, <1>3, <1>4, <1>5, <1>6, <1>7, <1>8, <1>9, <1>10, <1>11 DEF Next

\* The tasks that app_main creates find every part they use: only a call of
\* app_main that fails, or a message that the receive thread handles before
\* app_main is done, can panic.
THEOREM OrderSound == Spec => []TasksFindTheirParts
<1>1. OrderInv => TasksFindTheirParts
  BY DEF OrderInv, TasksFindTheirParts
<1> QED
  BY <1>1, OrderInit, OrderNext, PTL DEF Spec

(***************************************************************************)
(* The status LED and the music.                                            *)
(***************************************************************************)
\* The frames that the pattern in hand still has.
FramesLeft ==
  IF led = "on" THEN 2 * n ELSE IF led = "off" THEN 2 * n - 1 ELSE 0

\* Frames over the music and frames still to come are one pattern together.
YieldInv ==
  /\ n \in Nat /\ over \in Nat
  /\ ~sound => over = 0
  /\ led \in {"on", "off"} => 1 <= n /\ n <= Blinks
  /\ over + FramesLeft <= 2 * Blinks

\* A pattern has at least one flash.
LEMMA BlinksNat == Blinks \in Nat /\ 1 <= Blinks
BY StatusAssumption

\* Two frames for each flash.
LEMMA Double ==
  ASSUME NEW a \in Nat, NEW b \in Nat, a <= b
  PROVE  0 + 2 * a <= 2 * b
OBVIOUS

\* No frame has been shown.
LEMMA YieldInit == Init => YieldInv
BY StatusAssumption DEF Init, StatusInit, YieldInv, FramesLeft

\* Every step keeps the count of the frames.
LEMMA YieldNext == YieldInv /\ [Next]_vars => YieldInv'
<1> SUFFICES ASSUME YieldInv, [Next]_vars PROVE YieldInv'
  OBVIOUS
<1> USE BlinksNat
<1>1. CASE NvsInit \/ NvsErase \/ NvsFails \/ InitFails \/ ApStart \/ Samples
            \/ \E m \in {"M_RUN", "S_PLAY", "C_CMDS"} : Message(m)
  <2>1. UNCHANGED statusVars
    BY <1>1 DEF NvsInit, NvsErase, NvsFails, InitFails, Abort, ApStart, Samples, Message
  <2> QED
    BY <2>1 DEF YieldInv, FramesLeft, statusVars, inputVars, taskVars
<1>2. CASE InitPart
  BY <1>2 DEF InitPart, YieldInv, FramesLeft, inputVars
<1>3. CASE StatusStep
  <2>1. CASE Look
    <3>1. over' = 0 /\ led' = "on" /\ n' \in {Blinks, 1}
      BY <2>1 DEF Look, YieldInv, inputVars
    <3>2. n' \in Nat /\ 1 <= n' /\ n' <= Blinks
      BY <3>1
    <3>3. FramesLeft' = 2 * n'
      BY <3>1 DEF FramesLeft
    <3>4. over' + FramesLeft' <= 2 * Blinks
      <4>1. 0 + 2 * n' <= 2 * Blinks
        BY <3>2, BlinksNat, Double
      <4> QED
        BY <4>1, <3>1, <3>3
    <3> QED
      BY <3>1, <3>2, <3>4 DEF YieldInv
  <2>2. CASE On
    BY <2>2 DEF On, Show, YieldInv, FramesLeft, inputVars
  <2>3. CASE Off
    BY <2>3 DEF Off, Show, YieldInv, FramesLeft, inputVars
  <2> QED
    BY <1>3, <2>1, <2>2, <2>3 DEF StatusStep, LedTask
<1>4. CASE Restart \/ PowerFails
  BY <1>4 DEF Restart, PowerFails, Reset, StatusReset, YieldInv, FramesLeft
<1>5. CASE Env
  BY <1>5 DEF Env, Surroundings, YieldInv, FramesLeft, taskVars
<1>6. CASE UNCHANGED vars
  BY <1>6 DEF YieldInv, FramesLeft, vars, statusVars, inputVars, taskVars
<1> QED
  BY <1>1, <1>2, <1>3, <1>4, <1>5, <1>6 DEF Next

\* A file that has begun to play puts up with no more status frames than the
\* pattern the LED task was in when it started.
THEOREM MusicWins == Spec => []YieldsToMusic
<1>1. YieldInv => YieldsToMusic
  BY StatusAssumption DEF YieldInv, FramesLeft, YieldsToMusic
<1> QED
  BY <1>1, YieldInit, YieldNext, PTL DEF Spec
=============================================================================
