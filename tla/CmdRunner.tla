------------------------------ MODULE CmdRunner ------------------------------
(***************************************************************************)
(* The command programs: a C_CMDS message carries three command strings,    *)
(* for the note player, the motors and the LED strip, which run side by     *)
(* side; V1 says whether to start over when the LED string is done.  C_STOP *)
(* ends the program.  (handle_message.c, with the motor task of             *)
(* drv8833_pwm.c, the LED task of led_strip.c and the note task of sound.c) *)
(*                                                                          *)
(* Threads: the receive thread "rx" handles messages; when the LED task has *)
(* played its string it creates a run_cmds_task, here one of Runners, which *)
(* starts the three tasks again or marks the program finished.              *)
(*                                                                          *)
(* The three strings live in the cJSON tree of the message.  The tasks keep *)
(* pointers into the tree; run_cmds deletes the tree of the program before. *)
(***************************************************************************)
EXTENDS TaskHandle, Sequences

CONSTANTS
  Runners,   \* slots for run_cmds_task: a bound on those alive at one time
  RootIds,   \* the cJSON trees of the C_CMDS messages: a bound on messages
  Programs,  \* what a C_CMDS message may say
  MaxLen     \* bound on the commands of a string

ASSUME RunnerAssumption ==
  /\ Kinds \subseteq {"notes", "motor", "led"}
  /\ "led" \in Kinds
  /\ "rx" \notin Runners
  /\ Callers = {"rx"} \cup Runners
  /\ Strs = RootIds
  /\ MaxLen \in Nat
  /\ Programs \subseteq
       [complete : BOOLEAN, loop : BOOLEAN, len : [Kinds -> 0..MaxLen]]
  /\ Null \notin Programs

VARIABLES
  is_run,   \* run_cmds_is_run
  root,     \* run_cmds_root; r_v1 ... r_v4 point into it
  prog,     \* the contents of each tree, Null before it is parsed
  freed,    \* trees given to cJSON_Delete
  rxpc,     \* where rx is inside run_cmds
  msg,      \* the tree rx is handling
  todo,     \* run and stop calls a thread still has to make
  rpc,      \* program counter of each run_cmds_task
  tstr,     \* the tree a task's string is in, Null when it reads freed memory
  left,     \* commands left in the string
  moving,   \* the motors are driven
  stopped,  \* history: the last program message handled is C_STOP
  crashed   \* the chip has panicked

progVars == <<is_run, root, prog, freed, rxpc, msg, todo, rpc>>

bodyVars == <<tstr, left, moving>>

runnerVars == <<progVars, bodyVars, stopped, crashed>>

vars == <<handleVars, runnerVars>>

Init ==
  /\ HandleInit
  /\ is_run = FALSE
  /\ root = Null
  /\ prog = [r \in RootIds |-> Null]
  /\ freed = {}
  /\ rxpc = "idle"
  /\ msg = Null
  /\ todo = [c \in Callers |-> <<>>]
  /\ rpc = [c \in Runners |-> "none"]
  /\ tstr = [t \in TaskIds |-> Null]
  /\ left = [t \in TaskIds |-> 0]
  /\ moving = FALSE
  /\ stopped = FALSE
  /\ crashed = FALSE

(***************************************************************************)
(* The receive thread.                                                      *)
(***************************************************************************)
Run(k) == [op |-> "run", kind |-> k]
Stop(k) == [op |-> "stop", kind |-> k]

\* A call, for the workers that are modelled.
Only(x) == IF x.kind \in Kinds THEN <<x>> ELSE <<>>

\* Mutant: the LED string is forgotten.
StartWithoutLed == Only(Run("notes")) \o Only(Run("motor"))

\* The calls of run_cmds and of C_STOP, in their order.
StartAll == Only(Run("notes")) \o Only(Run("motor")) \o Only(Run("led"))
StopAll == Only(Stop("motor")) \o Only(Stop("led")) \o Only(Stop("notes"))

RxIdle == rxpc = "idle" /\ At("rx", "idle") /\ todo["rx"] = <<>>

FreshRoots == {r \in RootIds : prog[r] = Null}

\* Mutant: C_CMDS is accepted while a program is running.
CCmdsAlways(p) ==
  /\ RxIdle
  /\ FreshRoots # {}
  /\ msg' = CHOOSE r \in FreshRoots : TRUE
  /\ prog' = [prog EXCEPT ![msg'] = p]
  /\ freed' = IF root = Null THEN freed ELSE freed \cup {root}
  /\ rxpc' = "load"
  /\ stopped' = FALSE
  /\ UNCHANGED <<handleVars, is_run, root, todo, rpc, bodyVars, crashed>>

\* C_CMDS while no program is running: run_cmds deletes the tree of the program
\* before.  While one is running the message is dropped and nothing changes.
CCmds(p) ==
  /\ RxIdle
  /\ ~is_run
  /\ FreshRoots # {}
  /\ msg' = CHOOSE r \in FreshRoots : TRUE
  /\ prog' = [prog EXCEPT ![msg'] = p]
  /\ freed' = IF root = Null THEN freed ELSE freed \cup {root}
  /\ rxpc' = "load"
  /\ stopped' = FALSE
  /\ UNCHANGED <<handleVars, is_run, root, todo, rpc, bodyVars, crashed>>

\* run_cmds_root = root; r_v1 = ... r_v4 = ...; return if one is missing.  The five
\* writes are one step: each member that a run_cmds_task reads in between is one of
\* the freed tree, as in front of this step, or of the new one, as behind it.
LoadRoot ==
  /\ rxpc = "load"
  /\ root' = msg
  /\ msg' = Null
  /\ rxpc' = IF prog[msg].complete THEN "start" ELSE "idle"
  /\ UNCHANGED <<handleVars, is_run, prog, freed, todo, rpc, bodyVars, stopped, crashed>>

\* run_cmds_is_run = 1, then the three run calls.
StartProgram ==
  /\ rxpc = "start"
  /\ is_run' = TRUE
  /\ rxpc' = "idle"
  /\ todo' = [todo EXCEPT !["rx"] = StartAll]
  /\ UNCHANGED <<handleVars, root, prog, freed, msg, rpc, bodyVars, stopped, crashed>>

\* Mutant: C_STOP leaves run_cmds_is_run alone.
CStopKeepsRunning ==
  /\ RxIdle
  /\ todo' = [todo EXCEPT !["rx"] = StopAll]
  /\ stopped' = TRUE
  /\ UNCHANGED <<handleVars, is_run, root, prog, freed, rxpc, msg, rpc, bodyVars, crashed>>

\* C_STOP: run_cmds_is_run = 0, then the three stop calls.
CStop ==
  /\ RxIdle
  /\ is_run' = FALSE
  /\ todo' = [todo EXCEPT !["rx"] = StopAll]
  /\ stopped' = TRUE
  /\ UNCHANGED <<handleVars, root, prog, freed, rxpc, msg, rpc, bodyVars, crashed>>

\* The next call of rx or of a run_cmds_task.  A run call is handed the string
\* that r_v2, r_v3 or r_v4 points to now.
NextCall(c) ==
  /\ todo[c] # <<>>
  /\ todo' = [todo EXCEPT ![c] = Tail(@)]
  /\ LET next == Head(todo[c]) IN
       IF next.op = "run" THEN BeginRun(c, next.kind, root) ELSE BeginStop(c, next.kind)
  /\ UNCHANGED <<task_run, bit0, args, tpc, tkind, is_run, root, prog, freed, rxpc, msg,
                 rpc, bodyVars, stopped, crashed>>

InCall(c) == CallStep(c) /\ UNCHANGED runnerVars

(***************************************************************************)
(* run_cmds_task                                                            *)
(***************************************************************************)
\* Mutant: run_cmds_task does not look at run_cmds_is_run.
RunnerNoCheck(c) ==
  /\ rpc[c] = "start"
  /\ rpc' = [rpc EXCEPT ![c] = "branch"]
  /\ UNCHANGED <<handleVars, is_run, root, prog, freed, rxpc, msg, todo, bodyVars, stopped,
                 crashed>>

\* if (!run_cmds_is_run) return;  -- a task function that returns aborts.
RunnerCheck(c) ==
  /\ rpc[c] = "start"
  /\ IF is_run THEN rpc' = [rpc EXCEPT ![c] = "branch"] /\ UNCHANGED crashed
               ELSE crashed' = TRUE /\ UNCHANGED rpc
  /\ UNCHANGED <<handleVars, is_run, root, prog, freed, rxpc, msg, todo, bodyVars, stopped>>

\* if (r_v1->valueint) start the three tasks again, else end the program.
RunnerBranch(c) ==
  /\ rpc[c] = "branch"
  /\ IF prog[root].loop
       THEN /\ todo' = [todo EXCEPT ![c] = StartAll]
            /\ rpc' = [rpc EXCEPT ![c] = "calls"]
       ELSE /\ rpc' = [rpc EXCEPT ![c] = "finish"]
            /\ UNCHANGED todo
  /\ UNCHANGED <<handleVars, is_run, root, prog, freed, rxpc, msg, bodyVars, stopped, crashed>>

\* run_cmds_is_run = 0; vTaskDelete(NULL);
RunnerFinish(c) ==
  /\ rpc[c] = "finish"
  /\ is_run' = FALSE
  /\ rpc' = [rpc EXCEPT ![c] = "none"]
  /\ UNCHANGED <<handleVars, root, prog, freed, rxpc, msg, todo, bodyVars, stopped, crashed>>

RunnerEnd(c) ==
  /\ rpc[c] = "calls"
  /\ At(c, "idle") /\ todo[c] = <<>>
  /\ rpc' = [rpc EXCEPT ![c] = "none"]
  /\ UNCHANGED <<handleVars, is_run, root, prog, freed, rxpc, msg, todo, bodyVars, stopped, crashed>>

\* r_v1 ... r_v4 can be read.
Readable(r) == r \notin freed /\ prog[r].complete

\* Reading r_v1 ... r_v4 after the tree was freed, or when a member is missing,
\* may fault; it may also give what the memory still holds (the steps above).
RunnerFault(c) ==
  /\ rpc[c] = "branch" \/ (rpc[c] = "calls" /\ At(c, "idle") /\ todo[c] # <<>>)
  /\ ~Readable(root)
  /\ crashed' = TRUE
  /\ UNCHANGED <<handleVars, progVars, bodyVars, stopped>>

(***************************************************************************)
(* The bodies of the tasks.                                                 *)
(***************************************************************************)
Is(t, k) == tkind[t] = k

\* char *cmds = handle->args;
TakeArgs(t) ==
  /\ Step(t, "start", "next")
  /\ tstr' = [tstr EXCEPT ![t] = args[tkind[t]]]
  /\ left' = [left EXCEPT ![t] = prog[args[tkind[t]]].len[tkind[t]]]
  /\ UNCHANGED <<task_run, bit0, args, call, tkind, progVars, moving, stopped, crashed>>

\* The note task finds g_i2s_mutex taken (by an mp3 file or by a note task that
\* is not gone yet) and deletes itself, task_run and BIT0 left as they are.
NotesGiveUp(t) ==
  /\ Is(t, "notes")
  /\ tpc[t] = "start"
  /\ Delete(t)
  /\ UNCHANGED <<task_run, bit0, args, call, runnerVars>>

\* Mutant: the end of the string is not noticed.
NextCmdOn(t) ==
  /\ tpc[t] = "next"
  /\ tstr[t] \notin freed
  /\ IF ~task_run[tkind[t]]
       THEN Step(t, "next", "end") /\ UNCHANGED left
       ELSE Step(t, "next", "play") /\ left' = [left EXCEPT ![t] = @ - 1]
  /\ UNCHANGED <<task_run, bit0, args, call, tkind, progVars, tstr, moving, stopped, crashed>>

\* while (*cmds) { if (!handle->task_run) break; parse_cmd ... }
NextCmd(t) ==
  /\ tpc[t] = "next"
  /\ tstr[t] \notin freed
  /\ IF left[t] = 0 \/ ~task_run[tkind[t]]
       THEN Step(t, "next", "end") /\ UNCHANGED left
       ELSE Step(t, "next", "play") /\ left' = [left EXCEPT ![t] = @ - 1]
  /\ UNCHANGED <<task_run, bit0, args, call, tkind, progVars, tstr, moving, stopped, crashed>>

\* The same with the string freed: the rest of it reads as anything.
ReadFreed(t) ==
  /\ tpc[t] = "next"
  /\ tstr[t] \in freed
  /\ tstr' = [tstr EXCEPT ![t] = Null]
  /\ \E n \in 0..MaxLen : left' = [left EXCEPT ![t] = n]
  /\ UNCHANGED <<handleVars, progVars, moving, stopped, crashed>>

\* One command and its delay.  A motor command drives the motors, "NO" stops
\* them.
PlayCmd(t) ==
  /\ Step(t, "play", "next")
  /\ IF Is(t, "motor") THEN moving' \in BOOLEAN ELSE UNCHANGED moving
  /\ UNCHANGED <<task_run, bit0, args, call, tkind, progVars, tstr, left, stopped, crashed>>

\* Mutant: the motor task ends without car_stop.
FinishDriving(t) ==
  /\ Step(t, "end", IF Is(t, "led") THEN "test" ELSE "clear")
  /\ UNCHANGED <<task_run, bit0, args, call, tkind, runnerVars>>

\* motor: car_stop(); led: led_on(); notes: give the mutex back.
Finish(t) ==
  /\ Step(t, "end", IF Is(t, "led") THEN "test" ELSE "clear")
  /\ moving' = (moving /\ ~Is(t, "motor"))
  /\ UNCHANGED <<task_run, bit0, args, call, tkind, progVars, tstr, left, stopped, crashed>>

\* led only: if (handle->task_run) the string was played to its end.
LedTest(t) ==
  /\ Step(t, "test", IF task_run["led"] THEN "clear" ELSE "signal")
  /\ UNCHANGED <<task_run, bit0, args, call, tkind, runnerVars>>

\* Mutant: the LED task does not call run_cmds_one_time_cb.
ClearRunNoCallback(t) ==
  /\ Step(t, "clear", "signal")
  /\ task_run' = [task_run EXCEPT ![tkind[t]] = FALSE]
  /\ UNCHANGED <<bit0, args, call, tkind, runnerVars>>

\* handle->task_run = false;
ClearRun(t) ==
  /\ Step(t, "clear", IF Is(t, "led") THEN "callback" ELSE "signal")
  /\ task_run' = [task_run EXCEPT ![tkind[t]] = FALSE]
  /\ UNCHANGED <<bit0, args, call, tkind, runnerVars>>

\* run_cmds_one_time_cb: if (!run_cmds_is_run) return;
LedCallback(t) ==
  /\ Step(t, "callback", IF is_run THEN "create" ELSE "signal")
  /\ UNCHANGED <<task_run, bit0, args, call, tkind, runnerVars>>

\* run_cmds_create_task
CreateRunner(t) ==
  /\ Step(t, "create", "signal")
  /\ \E c \in Runners : rpc[c] = "none" /\ rpc' = [rpc EXCEPT ![c] = "start"]
  /\ UNCHANGED <<task_run, bit0, args, call, tkind, is_run, root, prog, freed, rxpc, msg,
                 todo, bodyVars, stopped, crashed>>

\* The same when xTaskCreate fails: nobody looks at its result, the program stays
\* marked running.
CreateRunnerFails(t) ==
  /\ "runner" \in FailKinds
  /\ Step(t, "create", "signal")
  /\ UNCHANGED <<task_run, bit0, args, call, tkind, runnerVars>>

EndTask(t) ==
  /\ Signal(t)
  /\ tstr' = [tstr EXCEPT ![t] = Null]
  /\ left' = [left EXCEPT ![t] = 0]
  /\ UNCHANGED <<progVars, moving, stopped, crashed>>

(***************************************************************************)
(* The specification.                                                       *)
(***************************************************************************)
Rx == LoadRoot \/ StartProgram

Caller(c) == NextCall(c) \/ InCall(c)

Runner(c) ==
  RunnerCheck(c) \/ RunnerBranch(c) \/ RunnerFinish(c) \/ RunnerEnd(c) \/ RunnerFault(c)

Task(t) ==
  \/ TakeArgs(t) \/ NotesGiveUp(t) \/ NextCmd(t) \/ ReadFreed(t) \/ PlayCmd(t)
  \/ Finish(t) \/ LedTest(t) \/ ClearRun(t) \/ LedCallback(t) \/ CreateRunner(t)
  \/ CreateRunnerFails(t) \/ EndTask(t)

\* CONFIG_ESP_SYSTEM_PANIC_PRINT_REBOOT: a panic restarts the firmware, from
\* Init; a behaviour of the model ends there.
Panicked == crashed /\ UNCHANGED vars

Next ==
  \/ /\ ~crashed
     /\ \/ \E p \in Programs : CCmds(p)
        \/ CStop
        \/ Rx
        \/ \E c \in Callers : Caller(c)
        \/ \E c \in Runners : Runner(c)
        \/ \E t \in TaskIds : Task(t)
  \/ Panicked

\* Time slicing: a thread that can run, runs.  Nobody has to send messages.
\* xTaskCreate does not wait: where the model lacks a slot it must find one, so
\* that a thread does not starve for the bounds TaskIds and Runners.
Creates(c) == InCall(c) /\ At(c, "create")

Fairness ==
  /\ WF_vars(~crashed /\ Rx)
  /\ \A c \in Callers : WF_vars(~crashed /\ Caller(c))
  /\ \A c \in Runners : WF_vars(~crashed /\ Runner(c))
  /\ \A t \in TaskIds : WF_vars(~crashed /\ Task(t))
  /\ \A c \in Callers : SF_vars(~crashed /\ Creates(c))
  /\ \A t \in TaskIds : SF_vars(~crashed /\ CreateRunner(t))

Spec == Init /\ [][Next]_vars

FairSpec == Spec /\ Fairness

(***************************************************************************)
(* Properties.                                                              *)
(***************************************************************************)
TaskPcs == {"none", "start", "next", "play", "end", "test", "clear",
            "callback", "create", "signal"}

Suffixes(s) == {SubSeq(s, i, Len(s)) : i \in 1 .. Len(s) + 1}

\* Type correctness of the state of handle_message.c and of the three tasks.
TypeOK ==
  /\ HandleTypeOK
  /\ tpc \in [TaskIds -> TaskPcs]
  /\ is_run \in BOOLEAN
  /\ root \in RootIds \cup {Null}
  /\ prog \in [RootIds -> Programs \cup {Null}]
  /\ freed \subseteq RootIds
  /\ rxpc \in {"idle", "load", "start"}
  /\ msg \in RootIds \cup {Null}
  /\ todo \in [Callers -> Suffixes(StartAll) \cup Suffixes(StopAll)]
  /\ rpc \in [Runners -> {"none", "start", "branch", "calls", "finish"}]
  /\ tstr \in [TaskIds -> RootIds \cup {Null}]
  /\ left \in [TaskIds -> 0..MaxLen]
  /\ moving \in BOOLEAN
  /\ stopped \in BOOLEAN
  /\ crashed \in BOOLEAN

\* A program that is marked running has its tree: r_v1 ... r_v4 are all there
\* and have not been freed, whatever C_CMDS and C_STOP arrive and however late
\* the tasks of earlier programs end.
RunningProgramReadable == is_run => root # Null /\ Readable(root)

\* The motors are driven only while a motor task exists that has yet to call
\* car_stop: however many motor tasks a timed out stop has left behind, the
\* car stands when the last of them is done.
DrivenOnlyByTask ==
  moving => \E t \in TaskIds : Is(t, "motor") /\ tpc[t] \in {"next", "play", "end"}

\* A program that is not looped ends by itself: run_cmds_is_run goes back to
\* 0, so that the next C_CMDS is accepted.
OneShotEnds ==
  (is_run /\ ~prog[root].loop) ~> (~is_run \/ crashed)

\* A looped program goes on until it is stopped: its LED task is started
\* again and again.
LoopGoesOn ==
  []<>(~is_run \/ crashed \/ \E t \in TaskIds : Is(t, "led") /\ tpc[t] = "start")

\* After a C_STOP that is not followed by a C_CMDS the program does not come
\* back to life: all tasks end, also those that a run_cmds_task already under way
\* has started behind the back of C_STOP, and no run_cmds_task is left that could
\* start more.
StopIsFinal ==
  stopped ~> \/ ~stopped \/ crashed
             \/ /\ \A t \in TaskIds : tpc[t] = "none"
                /\ \A c \in Runners : rpc[c] = "none"

\* The threads that may still start a worker: a run call is under way or on their
\* list, or they are past the check of run_cmds_task.
Starters ==
  {c \in Callers : \/ call[c].op = "run"
                   \/ \E i \in 1 .. Len(todo[c]) : todo[c][i].op = "run"
                   \/ c \in Runners /\ rpc[c] \in {"branch", "calls"}}

\* From C_STOP to the next C_CMDS the threads that may still start a worker only get
\* fewer: the tasks that come up behind the back of C_STOP are those of
\* run_cmds_tasks that were past their check, and none of these has a successor,
\* although LED tasks at their end may still create run_cmds_tasks.
NoRevival == [][stopped /\ stopped' => Starters' \subseteq Starters]_vars

(***************************************************************************)
(* What comments of the code say and the code does not do.                  *)
(***************************************************************************)
\* A string is not freed while a task still reads it.
NoUseAfterFree ==
  \A t \in TaskIds : tpc[t] = "next" => tstr[t] \notin freed

\* A task function ends with vTaskDelete and does not return.
RunnerDeletesItself == \A c \in Runners : rpc[c] = "start" => is_run

\* C_STOP terminates the program: when rx is done with it no task goes on
\* with its string.
StopTerminates ==
  stopped /\ RxIdle =>
    \A t \in TaskIds : ~(tpc[t] \in {"next", "play"} /\ task_run[tkind[t]])
=============================================================================
