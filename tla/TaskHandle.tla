------------------------------ MODULE TaskHandle ------------------------------
(***************************************************************************)
(* The start/stop protocol that every worker of the firmware follows: the   *)
(* note player, the mp3 player (sound.c), the motor program (drv8833_pwm.c) *)
(* and the LED program (led_strip.c).  Each of the four has a handle        *)
(*    { volatile bool task_run; EventGroupHandle_t state_event; args }      *)
(* and the same functions, written out once per worker:                     *)
(*    xxx_run(str)  - if task_run then xxx_stop(); task_run = true;         *)
(*                    args = str; xTaskCreate(xxx_task)                     *)
(*    xxx_stop()    - if !task_run return; clear BIT0; task_run = false;    *)
(*                    wait for BIT0 with a time limit                       *)
(* The scheduler is preemptive with time slicing, so every access to the    *)
(* handle is a step of its own.  The bodies of the tasks belong to the      *)
(* modules that extend this one; here a task is a slot with a program       *)
(* counter.                                                                 *)
(***************************************************************************)
EXTENDS Naturals, FiniteSets

CONSTANTS
  Kinds,      \* the workers that have a handle
  Callers,    \* the threads that call xxx_run and xxx_stop
  TaskIds,    \* task slots: a bound on the tasks alive at one time
  Strs,       \* what a run call hands over: a command string or a file id
  SlowKinds,  \* workers with a step that may outlast the wait of xxx_stop
  FailKinds,  \* tasks for which xTaskCreate may run out of memory
  Null

ASSUME HandleAssumption ==
  /\ SlowKinds \subseteq Kinds
  /\ Null \notin Strs
  /\ Null \notin Kinds
  /\ Null \notin TaskIds

VARIABLES
  task_run,   \* handle->task_run
  bit0,       \* BIT0 of handle->state_event
  args,       \* handle->args, handle->fileid
  call,       \* the xxx_run or xxx_stop call each thread is in
  tpc,        \* program counter of each task, "none" for a free slot
  tkind       \* the worker a task belongs to

handleVars == <<task_run, bit0, args, call, tpc, tkind>>

StopPcs == {"stop", "clear", "unset", "wait", "blocked"}

RunPcs == StopPcs \cup {"run", "set", "args", "create"}

Idle == [pc |-> "idle", op |-> "none", kind |-> Null, str |-> Null]

Calls == {Idle} \cup
         [pc : RunPcs, op : {"run"}, kind : Kinds, str : Strs] \cup
         [pc : StopPcs, op : {"stop"}, kind : Kinds, str : {Null}]

HandleInit ==
  /\ task_run = [k \in Kinds |-> FALSE]
  /\ bit0 = [k \in Kinds |-> FALSE]
  /\ args = [k \in Kinds |-> Null]
  /\ call = [c \in Callers |-> Idle]
  /\ tpc = [t \in TaskIds |-> "none"]
  /\ tkind = [t \in TaskIds |-> Null]

Free == {t \in TaskIds : tpc[t] = "none"}

Live(k) == {t \in TaskIds : tkind[t] = k}

(***************************************************************************)
(* The calling thread.                                                      *)
(***************************************************************************)
At(c, p) == call[c].pc = p

Goto(c, p) == call' = [call EXCEPT ![c].pc = p]

\* xxx_stop returns: to its caller, or into the second half of xxx_run.
Returned(r) == IF r.op = "run" THEN [r EXCEPT !.pc = "set"] ELSE Idle

BeginRun(c, k, s) ==
  /\ At(c, "idle")
  /\ call' = [call EXCEPT ![c] = [pc |-> "run", op |-> "run", kind |-> k, str |-> s]]

BeginStop(c, k) ==
  /\ At(c, "idle")
  /\ call' = [call EXCEPT ![c] = [pc |-> "stop", op |-> "stop", kind |-> k, str |-> Null]]

\* xxx_run: if (true == handle->task_run) xxx_stop();
CheckRun(c) ==
  /\ At(c, "run")
  /\ Goto(c, IF task_run[call[c].kind] THEN "stop" ELSE "set")
  /\ UNCHANGED <<task_run, bit0, args, tpc, tkind>>

\* xxx_stop: if (false == handle->task_run) return ESP_OK;
CheckStop(c) ==
  /\ At(c, "stop")
  /\ call' = [call EXCEPT ![c] =
                IF task_run[@.kind] THEN [@ EXCEPT !.pc = "clear"] ELSE Returned(@)]
  /\ UNCHANGED <<task_run, bit0, args, tpc, tkind>>

\* xEventGroupClearBits(handle->state_event, BIT0);
ClearBits(c) ==
  /\ At(c, "clear")
  /\ bit0' = [bit0 EXCEPT ![call[c].kind] = FALSE]
  /\ Goto(c, "unset")
  /\ UNCHANGED <<task_run, args, tpc, tkind>>

\* handle->task_run = false;
UnsetRun(c) ==
  /\ At(c, "unset")
  /\ task_run' = [task_run EXCEPT ![call[c].kind] = FALSE]
  /\ Goto(c, "wait")
  /\ UNCHANGED <<bit0, args, tpc, tkind>>

\* xEventGroupWaitBits(state_event, BIT0, clear on exit, ..., time limit):
\* a bit that is already set is consumed at once, otherwise the thread blocks.
WaitBits(c) ==
  /\ At(c, "wait")
  /\ IF bit0[call[c].kind]
       THEN /\ bit0' = [bit0 EXCEPT ![call[c].kind] = FALSE]
            /\ call' = [call EXCEPT ![c] = Returned(@)]
       ELSE /\ Goto(c, "blocked")
            /\ UNCHANGED bit0
  /\ UNCHANGED <<task_run, args, tpc, tkind>>

\* Mutant: the wait has no time limit (portMAX_DELAY).
NeverTimesOut(k) == FALSE

\* The wait gives up: nobody is left to set the bit, or the task is inside a
\* step longer than the limit, or another thread has set task_run again and
\* the task goes on with its program.
MayTimeOut(k) == Live(k) = {} \/ k \in SlowKinds \/ task_run[k]

WaitTimeout(c) ==
  /\ At(c, "blocked")
  /\ MayTimeOut(call[c].kind)
  /\ call' = [call EXCEPT ![c] = Returned(@)]
  /\ UNCHANGED <<task_run, bit0, args, tpc, tkind>>

\* handle->task_run = true;
SetRun(c) ==
  /\ At(c, "set")
  /\ task_run' = [task_run EXCEPT ![call[c].kind] = TRUE]
  /\ Goto(c, "args")
  /\ UNCHANGED <<bit0, args, tpc, tkind>>

\* handle->args = str;
SetArgs(c) ==
  /\ At(c, "args")
  /\ args' = [args EXCEPT ![call[c].kind] = call[c].str]
  /\ Goto(c, "create")
  /\ UNCHANGED <<task_run, bit0, tpc, tkind>>

\* xTaskCreate(xxx_task, ...)
CreateTask(c, t) ==
  /\ At(c, "create")
  /\ t \in Free
  /\ tpc' = [tpc EXCEPT ![t] = "start"]
  /\ tkind' = [tkind EXCEPT ![t] = call[c].kind]
  /\ call' = [call EXCEPT ![c] = Idle]
  /\ UNCHANGED <<task_run, bit0, args>>

\* xTaskCreate fails and its result is not looked at: task_run stays true
\* without a task that could clear it or answer a stop.
CreateFails(c) ==
  /\ At(c, "create")
  /\ call[c].kind \in FailKinds
  /\ call' = [call EXCEPT ![c] = Idle]
  /\ UNCHANGED <<task_run, bit0, args, tpc, tkind>>

CallStep(c) ==
  \/ CheckRun(c) \/ CheckStop(c) \/ ClearBits(c) \/ UnsetRun(c)
  \/ WaitBits(c) \/ WaitTimeout(c) \/ SetRun(c) \/ SetArgs(c)
  \/ CreateFails(c) \/ \E t \in TaskIds : CreateTask(c, t)

(***************************************************************************)
(* What the tasks do to the handle.                                         *)
(***************************************************************************)
Step(t, p, q) == tpc[t] = p /\ tpc' = [tpc EXCEPT ![t] = q]

\* vTaskDelete(NULL)
Delete(t) ==
  /\ tpc' = [tpc EXCEPT ![t] = "none"]
  /\ tkind' = [tkind EXCEPT ![t] = Null]

Waiting(k) == {c \in Callers : At(c, "blocked") /\ call[c].kind = k}

\* xEventGroupSetBits(handle->state_event, BIT0): every thread blocked on the
\* bit wakes up and the bit is consumed; with no such thread the bit stays set.
SetBits(k) ==
  /\ bit0' = [bit0 EXCEPT ![k] = (Waiting(k) = {})]
  /\ call' = [c \in Callers |-> IF c \in Waiting(k) THEN Returned(call[c]) ELSE call[c]]

\* The end of every task body: set BIT0, then delete the task.
Signal(t) ==
  /\ tpc[t] = "signal"
  /\ SetBits(tkind[t])
  /\ Delete(t)
  /\ UNCHANGED <<task_run, args>>

HandleTypeOK ==
  /\ task_run \in [Kinds -> BOOLEAN]
  /\ bit0 \in [Kinds -> BOOLEAN]
  /\ args \in [Kinds -> Strs \cup {Null}]
  /\ call \in [Callers -> Calls]
  /\ tkind \in [TaskIds -> Kinds \cup {Null}]
=============================================================================
