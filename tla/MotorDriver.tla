----------------------------- MODULE MotorDriver -----------------------------
(***************************************************************************)
(* The DRV8833 motor driver (drv8833_pwm.c): four LEDC channels, two per     *)
(* motor, an enable pin and the flags that is_motor_run reports.  Nothing    *)
(* protects them: the receive thread "rx" writes them for M_RUN and M_STOP,  *)
(* and so does every motor task, for its commands and at its end.  More than *)
(* one motor task may be alive when a stop has timed out (CmdRunner).        *)
(*                                                                          *)
(* A handler is a script of register writes; each write is one step.         *)
(***************************************************************************)
EXTENDS Naturals, Integers, Sequences

CONSTANTS
  Tasks,   \* motor task slots: a bound on the motor tasks alive at one time
  Drives,  \* what an M_RUN message may say
  Cmds     \* the commands of the motor strings

\* The valueint of m1s, m1d, m2s and m2d, which handle_message does not check.
AllDrives == [s1 : Int, d1 : Int, s2 : Int, d2 : Int]

ASSUME DriverAssumption ==
  /\ "rx" \notin Tasks
  /\ Drives \subseteq AllDrives

VARIABLES
  reg,   \* LEDC duty registers, LEDC outputs, enable pin and running flags
  job,   \* what each thread is doing, with the number of its next write
  told   \* history: the last M_RUN or M_STOP that rx has taken up

vars == <<reg, job, told>>

Threads == {"rx"} \cup Tasks

\* What ledc_set_duty writes, per channel, and what is on the wire: a duty gets
\* there with ledc_update_duty.  ledc_set_duty takes any number: a negative duty
\* stands for the unsigned one with the same bits.
Duties == {"duty0", "duty1", "duty2", "duty3"}
Outs == {"out0", "out1", "out2", "out3"}
Regs == Duties \cup Outs \cup {"enable", "motorA_run", "motorB_run"}

DutyOf(o) == CASE o = "out0" -> "duty0" [] o = "out1" -> "duty1"
               [] o = "out2" -> "duty2" [] o = "out3" -> "duty3"

(***************************************************************************)
(* Scripts: sequences of a register and the value it is to have.            *)
(***************************************************************************)
\* speed*1024 in 32 bits: a product that does not fit wraps, that is, the speed
\* counts modulo 2^22.
Product(speed) == (((speed + 2097152) % 4194304) - 2097152) * 1024

\* int duty = speed*1024/100, which rounds towards zero.
Duty(speed) ==
  LET p == Product(speed) IN IF p >= 0 THEN p \div 100 ELSE -((-p) \div 100)

\* The duty goes to the channel for the direction.
Forward(speed, dir) == IF dir >= 0 THEN Duty(speed) ELSE 0
Backward(speed, dir) == IF dir >= 0 THEN 0 ELSE Duty(speed)

Flag(speed) == IF speed # 0 THEN 1 ELSE 0

\* gpio_enable_drv8833(); drv8833_motorA_run(s1, d1); drv8833_motorB_run(s2, d2);
DriveScript(d) ==
  LET f1 == Forward(d.s1, d.d1)  b1 == Backward(d.s1, d.d1)
      f2 == Forward(d.s2, d.d2)  b2 == Backward(d.s2, d.d2)
  IN << <<"enable", 1>>,
        <<"duty0", f1>>, <<"duty1", b1>>, <<"out0", f1>>, <<"out1", b1>>,
        <<"motorA_run", Flag(d.s1)>>,
        <<"duty2", f2>>, <<"duty3", b2>>, <<"out2", f2>>, <<"out3", b2>>,
        <<"motorB_run", Flag(d.s2)>> >>

\* Mutant: car_stop switches the driver off first.
StopScriptDisableFirst ==
  << <<"enable", 0>>,
     <<"duty0", 1024>>, <<"duty1", 1024>>, <<"out0", 1024>>, <<"out1", 1024>>,
     <<"motorA_run", 0>>,
     <<"duty2", 1024>>, <<"duty3", 1024>>, <<"out2", 1024>>, <<"out3", 1024>>,
     <<"motorB_run", 0>> >>

\* Mutant: car_stop brakes with the forward channels only.
StopScriptForward ==
  << <<"duty0", 1024>>, <<"duty0", 1024>>, <<"out0", 1024>>, <<"out1", 1024>>,
     <<"motorA_run", 0>>,
     <<"duty2", 1024>>, <<"duty2", 1024>>, <<"out2", 1024>>, <<"out3", 1024>>,
     <<"motorB_run", 0>>,
     <<"enable", 0>> >>

\* car_stop: drv8833_motorA_stop(); drv8833_motorB_stop(); gpio_disable_drv8833();
StopScript ==
  << <<"duty0", 1024>>, <<"duty1", 1024>>, <<"out0", 1024>>, <<"out1", 1024>>,
     <<"motorA_run", 0>>,
     <<"duty2", 1024>>, <<"duty3", 1024>>, <<"out2", 1024>>, <<"out3", 1024>>,
     <<"motorB_run", 0>>,
     <<"enable", 0>> >>

Writes == 11

Script(j) == IF j.op = "drive" THEN DriveScript(j.arg) ELSE StopScript

(***************************************************************************)
(* What a thread may be doing: nothing; between two scripts, where rx waits *)
(* for a message and a task for its delay to pass; or writing a script.     *)
(***************************************************************************)
Still == [s1 |-> 0, d1 |-> 1, s2 |-> 0, d2 |-> 1]

Job(op, d) == [op |-> op, arg |-> d, next |-> 1]

Drive(s1, d1, s2, d2) == Job("drive", [s1 |-> s1, d1 |-> d1, s2 |-> s2, d2 |-> d2])
Stop == Job("stop", Still)
End == Job("end", Still)
Waiting == Job("wait", Still)
Gone == Job("none", Still)

\* motor_run_cmds_task with motor_run_one_cmd, for which a command it does not
\* know is "F".
CmdJob(cmd) ==
  CASE cmd = "B" -> Drive(100, -1, 100, -1)
    [] cmd = "L" -> Drive(75, -1, 75, 1)
    [] cmd = "R" -> Drive(75, 1, 75, -1)
    [] cmd = "FL" -> Drive(50, 1, 100, 1)
    [] cmd = "FR" -> Drive(100, 1, 50, 1)
    [] cmd = "BL" -> Drive(50, -1, 100, -1)
    [] cmd = "BR" -> Drive(100, -1, 50, -1)
    [] cmd = "NO" -> Stop
    [] OTHER -> Drive(100, 1, 100, 1)

\* pwm_init, gpio_init: duty 0 on every channel, the driver off.
Init ==
  /\ reg = [r \in Regs |-> 0]
  /\ job = [x \in Threads |-> IF x = "rx" THEN Waiting ELSE Gone]
  /\ told = Waiting

(***************************************************************************)
(* Actions.                                                                 *)
(***************************************************************************)
\* handle_message, M_RUN.
MRun(d) ==
  /\ job["rx"] = Waiting
  /\ told' = Job("drive", d)
  /\ job' = [job EXCEPT !["rx"] = Job("drive", d)]
  /\ UNCHANGED reg

\* handle_message, M_STOP.
MStop ==
  /\ job["rx"] = Waiting
  /\ told' = Stop
  /\ job' = [job EXCEPT !["rx"] = Stop]
  /\ UNCHANGED reg

\* motor_run_cmds creates a task.
StartTask(t) ==
  /\ job[t] = Gone
  /\ job' = [job EXCEPT ![t] = Waiting]
  /\ UNCHANGED <<reg, told>>

\* motor_run_cmds_task takes its next command.
NextCmd(t, cmd) ==
  /\ job[t] = Waiting
  /\ job' = [job EXCEPT ![t] = CmdJob(cmd)]
  /\ UNCHANGED <<reg, told>>

\* Its string is at the end, or it is told to stop: car_stop().
EndTask(t) ==
  /\ job[t] = Waiting
  /\ job' = [job EXCEPT ![t] = End]
  /\ UNCHANGED <<reg, told>>

\* Mutant: one write too many.
AfterTooFar(j) ==
  IF j.next <= Writes THEN [j EXCEPT !.next = @ + 1]
  ELSE IF j.op = "end" THEN Gone ELSE Waiting

\* After its last write a task is gone, or waits as rx does.
After(j) ==
  IF j.next < Writes THEN [j EXCEPT !.next = @ + 1]
  ELSE IF j.op = "end" THEN Gone ELSE Waiting

\* One write.  ledc_update_duty puts on the wire what the duty register holds,
\* which may be what another thread has written there.
Write(x) ==
  /\ job[x].op \in {"drive", "stop", "end"}
  /\ LET w == Script(job[x])[job[x].next]
     IN reg' = [reg EXCEPT ![w[1]] = IF w[1] \in Outs THEN reg[DutyOf(w[1])] ELSE w[2]]
  /\ job' = [job EXCEPT ![x] = After(job[x])]
  /\ UNCHANGED told

Next ==
  \/ \E d \in Drives : MRun(d)
  \/ MStop
  \/ \E t \in Tasks : StartTask(t) \/ EndTask(t) \/ \E cmd \in Cmds : NextCmd(t, cmd)
  \/ \E x \in Threads : Write(x)

Spec == Init /\ [][Next]_vars

(***************************************************************************)
(* Properties.                                                              *)
(***************************************************************************)
Jobs == [op : {"none", "wait", "drive", "stop", "end"}, arg : AllDrives, next : 1..Writes]

\* Type correctness: every register holds a number, and every thread is at a
\* write of its script.
TypeOK ==
  /\ reg \in [Regs -> Int]
  /\ job \in [Threads -> Jobs]
  /\ told \in Jobs

NoMotorTask == \A t \in Tasks : job[t] = Gone

\* Once rx is done with its message and no motor task is left, the driver is on
\* only if the last of M_RUN and M_STOP was M_RUN, and then both motors get
\* exactly the duties it asked for and is_motor_run says so: whatever the motor
\* tasks of a program wrote in between, in whatever order, nothing of it stays.
MovesAsTold ==
  job["rx"] = Waiting /\ NoMotorTask /\ reg["enable"] = 1 =>
    /\ told.op = "drive"
    /\ \A i \in 1..Writes : LET w == DriveScript(told.arg)[i] IN reg[w[1]] = w[2]

\* What the 10 bit timer of pwm_init can do; flags and the enable pin too.
Levels == 0..1024

\* Nothing checks the speeds of M_RUN, so that a duty beyond the timer may get into
\* the registers.  It does not outlive its message: once rx is done with the next
\* one, whatever motor tasks put on the wire in between, a register that is out of
\* range has exactly what that next message asked for in it.
DutiesRecover ==
  job["rx"] = Waiting =>
    \A r \in Regs :
      \/ reg[r] \in Levels
      \/ told.op = "drive" /\ \E i \in 1..Writes : DriveScript(told.arg)[i] = <<r, reg[r]>>
=============================================================================
