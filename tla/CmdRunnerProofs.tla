--------------------------- MODULE CmdRunnerProofs ---------------------------
(***************************************************************************)
(* Proofs about CmdRunner, for any numbers of trees, task slots and         *)
(* run_cmds_tasks and any programs.                                         *)
(***************************************************************************)
EXTENDS CmdRunner, TaskHandleProofs, SequenceTheorems

(***************************************************************************)
(* The tree of a running program.                                           *)
(***************************************************************************)
TreeType ==
  /\ root \in RootIds \cup {Null}
  /\ prog \in [RootIds -> Programs \cup {Null}]
  /\ freed \subseteq RootIds

\* A tree that was freed, or is the present one, has been parsed: the tree of
\* a new message is neither.
ParsedTrees ==
  /\ \A r \in freed : prog[r] # Null
  /\ root # Null => prog[root] # Null

\* While rx is inside run_cmds no program is marked running, and the tree it
\* has in hand is there.
LoadingTree ==
  /\ rxpc \in {"load", "start"} => ~is_run
  /\ rxpc = "load" => msg \in RootIds \ freed /\ prog[msg] # Null
  /\ rxpc = "start" => root # Null /\ Readable(root)

TreeInv == TreeType /\ ParsedTrees /\ LoadingTree /\ RunningProgramReadable

\* Nothing is running after start-up.
LEMMA TreeInit == Init => TreeInv
  BY DEF Init, TreeInv, TreeType, ParsedTrees, LoadingTree, RunningProgramReadable

\* A new tree differs from the ones in use and from the ones that were freed.
LEMMA CCmdsTree ==
  ASSUME TreeInv, NEW p \in Programs, CCmds(p)
  PROVE  TreeInv'
  <1> USE HandleAssumption, RunnerAssumption
  <1> USE DEF TreeInv, TreeType, ParsedTrees, LoadingTree, RunningProgramReadable
  <1>1. msg' \in RootIds /\ prog[msg'] = Null
    BY DEF CCmds, FreshRoots
  <1>2. prog' = [prog EXCEPT ![msg'] = p] /\ p # Null
    BY DEF CCmds
  <1>3. freed' \subseteq freed \cup {root} /\ freed' \subseteq RootIds
    BY DEF CCmds
  <1>4. msg' \notin freed'
    BY <1>1, <1>3 DEF CCmds
  <1>5. UNCHANGED <<root, is_run>> /\ ~is_run /\ rxpc' = "load"
    BY DEF CCmds
  <1>6. TreeType' /\ ParsedTrees'
    BY <1>1, <1>2, <1>3, <1>5
  <1> QED BY <1>1, <1>2, <1>4, <1>5, <1>6

\* The other steps either leave the trees alone, or load the new one, or only
\* take run_cmds_is_run back.
LEMMA NextTree == TreeInv /\ [Next]_vars => TreeInv'
  <1> SUFFICES ASSUME TreeInv, [Next]_vars PROVE TreeInv'
    OBVIOUS
  <1> USE DEF TreeInv, TreeType, ParsedTrees, LoadingTree, RunningProgramReadable, Readable
  <1>1. ASSUME NEW p \in Programs, CCmds(p) PROVE TreeInv'
    BY <1>1, CCmdsTree
  <1>2. CASE CStop
    BY <1>2 DEF CStop
  <1>3. CASE LoadRoot
    BY <1>3, HandleAssumption, RunnerAssumption DEF LoadRoot
  <1>4. CASE StartProgram
    BY <1>4 DEF StartProgram
  <1>5. ASSUME NEW c \in Callers, Caller(c) PROVE TreeInv'
    BY <1>5 DEF Caller, NextCall, InCall, runnerVars, progVars
  <1>6. ASSUME NEW c \in Runners, Runner(c) PROVE TreeInv'
    <2>1. /\ UNCHANGED <<root, prog, freed, rxpc, msg>>
          /\ is_run' = is_run \/ is_run' = FALSE
      BY <1>6 DEF Runner, RunnerCheck, RunnerBranch, RunnerFinish, RunnerEnd, RunnerFault, progVars
    <2> QED BY <2>1
  <1>7. ASSUME NEW t \in TaskIds, Task(t) PROVE UNCHANGED <<root, prog, freed, rxpc, msg, is_run>>
    BY <1>7 DEF Task, TakeArgs, NotesGiveUp, NextCmd, ReadFreed, PlayCmd, Finish, LedTest,
       ClearRun, LedCallback, CreateRunner, CreateRunnerFails, EndTask, runnerVars, progVars
  <1>8. CASE UNCHANGED vars
    BY <1>8 DEF vars, runnerVars, progVars
  <1> QED BY <1>1, <1>2, <1>3, <1>4, <1>5, <1>6, <1>7, <1>8 DEF Next, Rx, Panicked

\* The tree of a program that is marked running is complete and not freed,
\* for any number of messages, tasks and run_cmds_tasks.
THEOREM RunningTree == Spec => []RunningProgramReadable
  <1>1. TreeInv => RunningProgramReadable
    BY DEF TreeInv
  <1> QED BY <1>1, TreeInit, NextTree, PTL DEF Spec

(***************************************************************************)
(* The motors.                                                              *)
(***************************************************************************)
\* The program counters of a motor task that has yet to call car_stop.
Driving(t) == Is(t, "motor") /\ tpc[t] \in {"next", "play", "end"}

\* f has a value for every task slot.
OnSlots(f) == f = [t \in TaskIds |-> f[t]]

MotorInv == OnSlots(tpc) /\ OnSlots(tkind) /\ DrivenOnlyByTask

\* A step of a calling thread only turns free slots into tasks.
LEMMA CallKeepsDriving ==
  ASSUME MotorInv, NEW c \in Callers, CallStep(c), NEW u \in TaskIds, Driving(u)
  PROVE  Driving(u)'
  <1>1. CASE \E t \in TaskIds : CreateTask(c, t)
    BY <1>1 DEF CreateTask, Free, Driving, Is, MotorInv, OnSlots
  <1>2. CASE UNCHANGED <<tpc, tkind>>
    BY <1>2 DEF Driving, Is
  <1> QED BY <1>1, <1>2 DEF CallStep, CheckRun, CheckStop, ClearBits, UnsetRun, WaitBits,
             WaitTimeout, SetRun, SetArgs, CreateFails

\* A step of a calling thread leaves the motors alone.
LEMMA CallMotor ==
  ASSUME MotorInv, NEW c \in Callers, InCall(c)
  PROVE  MotorInv'
  <1>1. CallStep(c) /\ moving' = moving
    BY DEF InCall, runnerVars, bodyVars
  <1>2. OnSlots(tpc)' /\ OnSlots(tkind)'
    BY <1>1 DEF CallStep, CheckRun, CheckStop, ClearBits, UnsetRun, WaitBits,
       WaitTimeout, SetRun, SetArgs, CreateFails, CreateTask, MotorInv, OnSlots
  <1>3. DrivenOnlyByTask'
    BY <1>1, CallKeepsDriving DEF MotorInv, DrivenOnlyByTask, Driving
  <1> QED BY <1>2, <1>3 DEF MotorInv

\* A step of a task: either it is a motor task still on its way to car_stop,
\* or it is not one before and after the step; car_stop switches the motors off.
LEMMA TaskMotor ==
  ASSUME MotorInv, NEW t \in TaskIds, Task(t)
  PROVE  MotorInv'
  <1> USE HandleAssumption, RunnerAssumption DEF MotorInv, OnSlots, Step
  <1>1. /\ OnSlots(tpc)' /\ OnSlots(tkind)'
        /\ \A u \in TaskIds \ {t} : tpc'[u] = tpc[u] /\ tkind'[u] = tkind[u]
    BY DEF Task, TakeArgs, NotesGiveUp, NextCmd, ReadFreed, PlayCmd, Finish, LedTest,
       ClearRun, LedCallback, CreateRunner, CreateRunnerFails, EndTask, Signal, Delete, handleVars
  <1>2. moving' => \/ moving /\ (Driving(t) => Driving(t)')
                   \/ Driving(t)'
    <2> USE DEF Driving, Is, runnerVars, bodyVars
    <2>1. CASE TakeArgs(t)
      BY <2>1 DEF TakeArgs
    <2>2. CASE NotesGiveUp(t)
      BY <2>2 DEF NotesGiveUp
    <2>3. CASE NextCmd(t)
      BY <2>3 DEF NextCmd
    <2>4. CASE ReadFreed(t)
      BY <2>4 DEF ReadFreed, handleVars
    <2>5. CASE PlayCmd(t)
      BY <2>5 DEF PlayCmd
    <2>6. CASE Finish(t)
      BY <2>6 DEF Finish
    <2>7. CASE LedTest(t)
      BY <2>7 DEF LedTest
    <2>8. CASE ClearRun(t)
      BY <2>8 DEF ClearRun
    <2>9. CASE LedCallback(t) \/ CreateRunner(t) \/ CreateRunnerFails(t)
      BY <2>9 DEF LedCallback, CreateRunner, CreateRunnerFails
    <2>10. CASE EndTask(t)
      BY <2>10 DEF EndTask, Signal
    <2> QED BY <2>1, <2>2, <2>3, <2>4, <2>5, <2>6, <2>7, <2>8, <2>9, <2>10 DEF Task
  <1>3. \A u \in TaskIds \ {t} : Driving(u) => Driving(u)'
    BY <1>1 DEF Driving, Is
  <1>4. DrivenOnlyByTask'
    BY <1>2, <1>3 DEF DrivenOnlyByTask, Driving
  <1> QED BY <1>1, <1>4

\* Every step preserves the invariant of the motors.
LEMMA NextMotor == MotorInv /\ [Next]_vars => MotorInv'
  <1> SUFFICES ASSUME MotorInv, [Next]_vars PROVE MotorInv'
    OBVIOUS
  <1>1. ASSUME NEW c \in Callers, InCall(c) PROVE MotorInv'
    BY <1>1, CallMotor
  <1>2. ASSUME NEW t \in TaskIds, Task(t) PROVE MotorInv'
    BY <1>2, TaskMotor
  <1>3. ASSUME UNCHANGED <<tpc, tkind, moving>> PROVE MotorInv'
    BY <1>3 DEF MotorInv, OnSlots, DrivenOnlyByTask, Is
  <1>4. CASE \/ \E p \in Programs : CCmds(p)
             \/ CStop \/ Rx
             \/ \E c \in Callers : NextCall(c)
             \/ \E c \in Runners : Runner(c)
             \/ UNCHANGED vars
    <2>1. UNCHANGED <<tpc, tkind, moving>>
      BY <1>4 DEF CCmds, CStop, Rx, LoadRoot, StartProgram, NextCall, Runner, RunnerCheck,
         RunnerBranch, RunnerFinish, RunnerEnd, RunnerFault, vars, handleVars, runnerVars, bodyVars
    <2> QED BY <1>3, <2>1
  <1> QED BY <1>1, <1>2, <1>4 DEF Next, Caller, Panicked

\* The motors are driven only while a motor task has yet to call car_stop,
\* however many motor tasks are alive.
THEOREM MotorsStop == Spec => []DrivenOnlyByTask
  <1>1. Init => MotorInv
    BY DEF Init, HandleInit, MotorInv, OnSlots, DrivenOnlyByTask
  <1>2. MotorInv => DrivenOnlyByTask
    BY DEF MotorInv
  <1> QED BY <1>1, <1>2, NextMotor, PTL DEF Spec

(***************************************************************************)
(* Types.  The string a call or a task works on must be there, which takes  *)
(* more than the types themselves.                                          *)
(***************************************************************************)
\* Nobody starts a program before there is a tree, what is handed over was parsed,
\* and handle->args is set before the task is created that reads it.
HandedOver ==
  /\ root = Null => /\ \A c \in Callers : \A i \in 1 .. Len(todo[c]) : todo[c][i].op = "stop"
                    /\ \A c \in Runners : rpc[c] \notin {"branch", "calls"}
  /\ \A c \in Callers : call[c].str # Null => prog[call[c].str] # Null
  /\ \A k \in Kinds : args[k] # Null => prog[args[k]] # Null
  /\ \A c \in Callers : call[c].pc = "create" => args[call[c].kind] # Null
  /\ \A t \in TaskIds : tpc[t] # "none" => tkind[t] \in Kinds /\ args[tkind[t]] # Null

TypeInv == TypeOK /\ TreeInv /\ HandedOver

\* A run or stop call a thread has to make.
Todos == [op : {"run", "stop"}, kind : Kinds]

\* The lists of run_cmds and of C_STOP hold calls of the modelled workers, and
\* C_STOP only stops.
LEMMA TodoLists ==
  /\ StartAll \in Seq(Todos) /\ StopAll \in Seq(Todos)
  /\ \A i \in 1 .. Len(StopAll) : StopAll[i].op = "stop"
<1>1. ASSUME NEW o \in {"run", "stop"}, NEW k, NEW x, x = [op |-> o, kind |-> k]
      PROVE  /\ Only(x) \in Seq(Todos)
             /\ \A i \in 1 .. Len(Only(x)) : Only(x)[i].op = o
  <2>1. CASE k \in Kinds
    <3>1. x \in Todos /\ x.op = o /\ x.kind = k
      BY <1>1, <2>1 DEF Todos
    <3>2. Only(x) = <<x>>
      BY <2>1, <3>1 DEF Only
    <3>3. <<x>> \in Seq(Todos) /\ Len(<<x>>) = 1 /\ <<x>>[1] = x
      BY <3>1
    <3> QED
      BY <3>1, <3>2, <3>3
  <2>2. CASE k \notin Kinds
    <3>1. Only(x) = <<>>
      BY <1>1, <2>2 DEF Only
    <3> QED
      BY <3>1
  <2> QED
    BY <2>1, <2>2
<1>2. \A k : Only(Run(k)) \in Seq(Todos)
  BY <1>1 DEF Run
<1>3. \A k : Only(Stop(k)) \in Seq(Todos)
  BY <1>1 DEF Stop
<1>4. ASSUME NEW u \in Seq(Todos), NEW v \in Seq(Todos),
             \A i \in 1 .. Len(u) : u[i].op = "stop", \A i \in 1 .. Len(v) : v[i].op = "stop"
      PROVE  \A i \in 1 .. Len(u \o v) : (u \o v)[i].op = "stop"
  <2>1. /\ Len(u \o v) = Len(u) + Len(v) /\ Len(u) \in Nat /\ Len(v) \in Nat
        /\ \A i \in 1 .. Len(u) + Len(v) : (u \o v)[i] = IF i <= Len(u) THEN u[i] ELSE v[i - Len(u)]
    BY ConcatProperties
  <2> QED
    BY <1>4, <2>1
<1>5. \A k : \A i \in 1 .. Len(Only(Stop(k))) : Only(Stop(k))[i].op = "stop"
  BY <1>1 DEF Stop
<1>6. \A u, v \in Seq(Todos) : u \o v \in Seq(Todos)
  BY ConcatProperties
<1>7. StartAll \in Seq(Todos) /\ StopAll \in Seq(Todos)
  BY <1>2, <1>3, <1>6 DEF StartAll, StopAll
<1>8. \A i \in 1 .. Len(StopAll) : StopAll[i].op = "stop"
  BY <1>3, <1>4, <1>5, <1>6 DEF StopAll
<1> QED
  BY <1>7, <1>8

\* The calls left after the next one.
LEMMA SuffixTail ==
  ASSUME NEW S, NEW s \in Seq(S), NEW u \in Suffixes(s)
  PROVE  /\ u \in Seq(S)
         /\ u # <<>> => Tail(u) \in Suffixes(s)
<1>1. PICK i \in 1 .. Len(s) + 1 : u = SubSeq(s, i, Len(s))
  BY DEF Suffixes
<1>2. Len(s) \in Nat /\ \A j \in i .. Len(s) : s[j] \in S
  BY <1>1
<1>3. u \in Seq(S) /\ Len(u) = IF i <= Len(s) THEN Len(s) - i + 1 ELSE 0
  BY <1>1, <1>2, SubSeqProperties
<1>4. ASSUME u # <<>> PROVE Tail(u) \in Suffixes(s)
  <2>1. i <= Len(s)
    BY <1>3, <1>4
  <2>2. Tail(u) = SubSeq(s, i + 1, Len(s)) /\ i + 1 \in 1 .. Len(s) + 1
    BY <1>1, <1>2, <2>1, HeadTailOfSubSeq
  <2> QED
    BY <2>2 DEF Suffixes
<1> QED
  BY <1>3, <1>4

\* What is in a thread's list.
LEMMA TodoType ==
  ASSUME TypeOK, NEW c \in Callers
  PROVE  /\ todo[c] \in Seq(Todos)
         /\ todo[c] # <<>> =>
              /\ Tail(todo[c]) \in Suffixes(StartAll) \cup Suffixes(StopAll)
              /\ Head(todo[c]) \in Todos /\ Head(todo[c]) = todo[c][1]
              /\ Len(todo[c]) \in Nat /\ Len(Tail(todo[c])) = Len(todo[c]) - 1
              /\ \A i \in 1 .. Len(todo[c]) - 1 : Tail(todo[c])[i] = todo[c][i + 1]
<1>1. todo[c] \in Suffixes(StartAll) \/ todo[c] \in Suffixes(StopAll)
  BY DEF TypeOK
<1>2. todo[c] \in Seq(Todos)
  BY <1>1, TodoLists, SuffixTail
<1>3. ASSUME todo[c] # <<>> PROVE Tail(todo[c]) \in Suffixes(StartAll) \cup Suffixes(StopAll)
  BY <1>1, <1>3, TodoLists, SuffixTail
<1> QED
  BY <1>2, <1>3, HeadTailProperties

\* The whole list, and the empty one, are suffixes of it.
LEMMA WholeSuffix ==
  ASSUME NEW S, NEW s \in Seq(S)
  PROVE  s \in Suffixes(s) /\ <<>> \in Suffixes(s)
<1>1. Len(s) \in Nat /\ 1 \in 1 .. Len(s) + 1 /\ Len(s) + 1 \in 1 .. Len(s) + 1
  OBVIOUS
<1>2. SubSeq(s, 1, Len(s)) = s
  BY SubSeqFull
<1>3. SubSeq(s, Len(s) + 1, Len(s)) = <<>>
  BY <1>1, SubSeqEmpty
<1> QED
  BY <1>1, <1>2, <1>3 DEF Suffixes

\* Nothing is handed over after start-up.
LEMMA TypeInit == Init => TypeInv
<1> SUFFICES ASSUME Init PROVE TypeInv
  OBVIOUS
<1>1. <<>> \in Suffixes(StartAll)
  BY TodoLists, WholeSuffix
<1>2. HandleTypeOK
  BY DEF Init, HandleInit, HandleTypeOK, Calls
<1>3. todo \in [Callers -> Suffixes(StartAll) \cup Suffixes(StopAll)]
  BY <1>1 DEF Init
<1>4. TypeOK
  <2>1. tpc \in [TaskIds -> TaskPcs]
    BY DEF Init, HandleInit, TaskPcs
  <2>2. left \in [TaskIds -> 0 .. MaxLen]
    BY RunnerAssumption DEF Init
  <2>3. /\ prog \in [RootIds -> Programs \cup {Null}]
        /\ tstr \in [TaskIds -> RootIds \cup {Null}]
        /\ rpc \in [Runners -> {"none", "start", "branch", "calls", "finish"}]
    BY DEF Init
  <2>4. /\ is_run \in BOOLEAN /\ moving \in BOOLEAN /\ stopped \in BOOLEAN /\ crashed \in BOOLEAN
        /\ rxpc \in {"idle", "load", "start"}
        /\ root \in RootIds \cup {Null} /\ msg \in RootIds \cup {Null} /\ freed \subseteq RootIds
    BY DEF Init
  <2> QED
    BY <1>2, <1>3, <2>1, <2>2, <2>3, <2>4 DEF TypeOK
<1>5. HandedOver
  BY DEF Init, HandleInit, HandedOver, Idle
<1> QED
  BY <1>4, <1>5, TreeInit DEF TypeInv

\* The receive thread: the tree in hand is parsed before anybody is told to
\* start.
LEMMA RxTypes ==
  ASSUME TypeInv, (\E p \in Programs : CCmds(p)) \/ CStop \/ LoadRoot \/ StartProgram
  PROVE  TypeOK' /\ HandedOver'
<1> USE DEF TypeInv
<1>1. StartAll \in Suffixes(StartAll) /\ StopAll \in Suffixes(StopAll)
  BY TodoLists, WholeSuffix
<1>2. "rx" \in Callers
  BY RunnerAssumption
<1>3. ASSUME NEW p \in Programs, CCmds(p) PROVE TypeOK' /\ HandedOver'
  <2>1. /\ msg' \in RootIds /\ prog' = [prog EXCEPT ![msg'] = p] /\ p # Null
        /\ freed' \subseteq RootIds /\ rxpc' = "load" /\ stopped' = FALSE
        /\ UNCHANGED <<task_run, bit0, args, call, tpc, tkind, is_run, root, todo, rpc,
                       tstr, left, moving, crashed>>
    BY <1>3, RunnerAssumption
       DEF CCmds, FreshRoots, TypeOK, TreeInv, TreeType, handleVars, bodyVars
  <2>2. TypeOK'
    BY <2>1 DEF TypeOK, HandleTypeOK
  <2>3. HandedOver'
    <3>1. \A c \in Callers : call[c].str \in RootIds \cup {Null}
      BY RunnerAssumption DEF TypeOK, HandleTypeOK, Calls, Idle
    <3>2. \A k \in Kinds : args[k] \in RootIds \cup {Null}
      BY RunnerAssumption DEF TypeOK, HandleTypeOK
    <3>3. \A r \in RootIds : prog[r] # Null => prog'[r] # Null
      BY <2>1 DEF TypeOK
    <3> QED
      BY <2>1, <3>1, <3>2, <3>3 DEF HandedOver
  <2> QED
    BY <2>2, <2>3
<1>4. CASE CStop
  <2>1. /\ todo' = [todo EXCEPT !["rx"] = StopAll] /\ is_run' = FALSE /\ stopped' = TRUE
        /\ UNCHANGED <<task_run, bit0, args, call, tpc, tkind, root, prog, freed, rxpc, msg, rpc,
                       tstr, left, moving, crashed>>
    BY <1>4 DEF CStop, handleVars, bodyVars
  <2>2. TypeOK'
    BY <1>1, <2>1 DEF TypeOK, HandleTypeOK
  <2>3. HandedOver'
    BY <1>2, <2>1, TodoLists DEF HandedOver, TypeOK
  <2> QED
    BY <2>2, <2>3
<1>5. CASE LoadRoot
  <2>1. /\ root' = msg /\ msg' = Null /\ rxpc' \in {"start", "idle"} /\ msg \in RootIds
        /\ UNCHANGED <<task_run, bit0, args, call, tpc, tkind, is_run, prog, freed, todo, rpc,
                       tstr, left, moving, stopped, crashed>>
    BY <1>5 DEF LoadRoot, TreeInv, LoadingTree, handleVars, bodyVars
  <2>2. TypeOK'
    BY <2>1 DEF TypeOK, HandleTypeOK
  <2>3. HandedOver'
    BY <2>1, HandleAssumption, RunnerAssumption DEF HandedOver
  <2> QED
    BY <2>2, <2>3
<1>6. CASE StartProgram
  <2>1. /\ todo' = [todo EXCEPT !["rx"] = StartAll] /\ is_run' = TRUE /\ rxpc' = "idle"
        /\ root # Null
        /\ UNCHANGED <<task_run, bit0, args, call, tpc, tkind, root, prog, freed, msg, rpc,
                       tstr, left, moving, stopped, crashed>>
    BY <1>6 DEF StartProgram, TreeInv, LoadingTree, handleVars, bodyVars
  <2>2. TypeOK'
    BY <1>1, <2>1 DEF TypeOK, HandleTypeOK
  <2>3. HandedOver'
    BY <2>1 DEF HandedOver
  <2> QED
    BY <2>2, <2>3
<1> QED
  BY <1>3, <1>4, <1>5, <1>6

\* A thread with a list of calls: a run call is made only when there is a tree,
\* and its string is what becomes handle->args.
LEMMA CallerTypes ==
  ASSUME TypeInv, NEW c \in Callers, Caller(c)
  PROVE  TypeOK' /\ HandedOver'
<1> USE DEF TypeInv
<1>1. CASE NextCall(c)
  <2> DEFINE next == Head(todo[c])
  <2>1. /\ todo' = [todo EXCEPT ![c] = Tail(@)] /\ todo[c] # <<>>
        /\ IF next.op = "run" THEN BeginRun(c, next.kind, root) ELSE BeginStop(c, next.kind)
        /\ UNCHANGED <<task_run, bit0, args, tpc, tkind, is_run, root, prog, freed, rxpc, msg, rpc,
                       tstr, left, moving, stopped, crashed>>
    BY <1>1 DEF NextCall, bodyVars
  <2>2. /\ next \in Todos /\ next = todo[c][1] /\ Len(todo[c]) \in Nat
        /\ Tail(todo[c]) \in Suffixes(StartAll) \cup Suffixes(StopAll)
        /\ Len(Tail(todo[c])) = Len(todo[c]) - 1
        /\ \A i \in 1 .. Len(todo[c]) - 1 : Tail(todo[c])[i] = todo[c][i + 1]
    BY <2>1, TodoType
  <2>3. Len(todo[c]) > 0
    BY <2>1, TodoType, EmptySeq
  <2> HIDE DEF next
  <2>4. next.op \in {"run", "stop"} /\ next.kind \in Kinds
    BY <2>2 DEF Todos
  <2>5. next.op = "run" => root \in RootIds
    BY <2>2, <2>3 DEF HandedOver, TypeOK
  <2>6. PICK r \in Calls : /\ call' = [call EXCEPT ![c] = r] /\ r.pc # "create"
                           /\ r.str # Null => r.str = root
    <3>1. CASE next.op = "run"
      <4>1. [pc |-> "run", op |-> "run", kind |-> next.kind, str |-> root] \in Calls
        BY <2>4, <2>5, <3>1, RunnerAssumption DEF Calls, RunPcs
      <4> QED
        BY <2>1, <3>1, <4>1 DEF BeginRun
    <3>2. CASE next.op # "run"
      <4>1. [pc |-> "stop", op |-> "stop", kind |-> next.kind, str |-> Null] \in Calls
        BY <2>4 DEF Calls, StopPcs
      <4> QED
        BY <2>1, <3>2, <4>1 DEF BeginStop
    <3> QED
      BY <3>1, <3>2
  <2>7. HandleTypeOK'
    BY <2>1, <2>6 DEF TypeOK, HandleTypeOK
  <2>8. TypeOK'
    BY <2>1, <2>2, <2>7 DEF TypeOK
  <2>9. HandedOver'
    <3>1. \A d \in Callers : call'[d] = IF d = c THEN r ELSE call[d]
      BY <2>6 DEF TypeOK, HandleTypeOK
    <3>2. root = Null => \A d \in Callers : \A i \in 1 .. Len(todo'[d]) : todo'[d][i].op = "stop"
      <4> SUFFICES ASSUME root = Null, NEW d \in Callers, NEW i \in 1 .. Len(todo'[d])
                   PROVE  todo'[d][i].op = "stop"
        OBVIOUS
      <4>1. CASE d = c
        <5>1. todo'[d] = Tail(todo[c])
          BY <2>1, <4>1 DEF TypeOK
        <5>2. i \in 1 .. Len(todo[c]) - 1 /\ i + 1 \in 1 .. Len(todo[c])
          BY <2>2, <5>1
        <5> QED
          BY <2>2, <5>1, <5>2 DEF HandedOver
      <4>2. CASE d # c
        BY <2>1, <4>2 DEF TypeOK, HandedOver
      <4> QED
        BY <4>1, <4>2
    <3>3. \A d \in Callers : call'[d].str # Null => prog[call'[d].str] # Null
      BY <2>6, <3>1 DEF HandedOver, TreeInv, ParsedTrees
    <3>4. \A d \in Callers : call'[d].pc = "create" => args[call'[d].kind] # Null
      BY <2>6, <3>1 DEF HandedOver
    <3> QED
      BY <2>1, <3>2, <3>3, <3>4 DEF HandedOver
  <2> QED
    BY <2>8, <2>9
<1>2. CASE InCall(c)
  <2>1. CallStep(c) /\ UNCHANGED <<is_run, root, prog, freed, rxpc, msg, todo, rpc,
                                   tstr, left, moving, stopped, crashed>>
    BY <1>2 DEF InCall, runnerVars, progVars, bodyVars
  <2>2. HandleTypeOK /\ HandleTypeOK'
    BY <2>1, CallStepType DEF TypeOK
  <2>3. call[c] \in Calls /\ call[c].pc # "idle"
    BY <2>1, <2>2 DEF HandleTypeOK, CallStep, CheckRun, CheckStop, ClearBits, UnsetRun, WaitBits,
       WaitTimeout, SetRun, SetArgs, CreateFails, CreateTask, At
  <2>4. /\ call[c].kind \in Kinds
        /\ call[c].pc = "args" => call[c].str \in RootIds
    BY <2>3, CallUnderWay, RunnerAssumption DEF StopPcs
  <2>5. /\ \A d \in Callers \ {c} : call'[d] = call[d]
        /\ call'[c].str \in {call[c].str, Null}
        /\ \/ args' = args /\ (call'[c].pc = "create" => call'[c] = call[c])
           \/ /\ args' = [args EXCEPT ![call[c].kind] = call[c].str]
              /\ call[c].pc = "args"
              /\ call'[c].kind = call[c].kind
        /\ \/ UNCHANGED <<tpc, tkind>>
           \/ /\ call[c].pc = "create"
              /\ \E t \in TaskIds : /\ tpc' = [tpc EXCEPT ![t] = "start"]
                                    /\ tkind' = [tkind EXCEPT ![t] = call[c].kind]
    BY <2>1, <2>2, CallStepFrame
  <2>6. tpc' \in [TaskIds -> TaskPcs]
    BY <2>5 DEF TypeOK, TaskPcs
  <2>7. TypeOK'
    BY <2>1, <2>2, <2>6 DEF TypeOK
  <2>8. HandedOver'
    <3>1. \A k \in Kinds : /\ args[k] # Null => args'[k] # Null
                           /\ args'[k] \in {args[k], call[c].str}
      BY <2>2, <2>4, <2>5, HandleAssumption, RunnerAssumption DEF HandleTypeOK
    <3>2. \A d \in Callers : call'[d].str # Null => prog[call'[d].str] # Null
      BY <2>5 DEF HandedOver
    <3>3. \A k \in Kinds : args'[k] # Null => prog[args'[k]] # Null
      BY <3>1 DEF HandedOver
    <3>4. \A d \in Callers : call'[d].pc = "create" => args'[call'[d].kind] # Null
      <4> SUFFICES ASSUME NEW d \in Callers, call'[d].pc = "create"
                   PROVE  args'[call'[d].kind] # Null
        OBVIOUS
      <4>1. CASE call'[d] = call[d]
        <5>1. call[d].pc = "create" /\ call[d].kind \in Kinds
          BY <2>2, <4>1, CallUnderWay DEF HandleTypeOK
        <5> QED
          BY <3>1, <4>1, <5>1 DEF HandedOver
      <4>2. CASE call'[d] # call[d]
        <5>1. d = c /\ args' = [args EXCEPT ![call[c].kind] = call[c].str]
              /\ call[c].pc = "args" /\ call'[c].kind = call[c].kind
          BY <2>5, <4>2
        <5> QED
          BY <2>2, <2>4, <5>1, HandleAssumption, RunnerAssumption DEF HandleTypeOK
      <4> QED
        BY <4>1, <4>2
    <3>5. \A t \in TaskIds : tpc'[t] # "none" => tkind'[t] \in Kinds /\ args'[tkind'[t]] # Null
      <4>1. CASE UNCHANGED <<tpc, tkind>>
        BY <3>1, <4>1 DEF HandedOver
      <4>2. CASE call[c].pc = "create" /\ \E t \in TaskIds :
                   /\ tpc' = [tpc EXCEPT ![t] = "start"]
                   /\ tkind' = [tkind EXCEPT ![t] = call[c].kind]
        <5>1. args[call[c].kind] # Null
          BY <4>2 DEF HandedOver
        <5> QED
          BY <2>2, <2>4, <3>1, <4>2, <5>1 DEF HandedOver, TypeOK, HandleTypeOK
      <4> QED
        BY <2>5, <4>1, <4>2
    <3> QED
      BY <2>1, <3>2, <3>3, <3>4, <3>5 DEF HandedOver
  <2> QED
    BY <2>7, <2>8
<1> QED
  BY <1>1, <1>2 DEF Caller

\* A run_cmds_task gets past its check only while the program is marked
\* running, and then there is a tree.
LEMMA RunnerStepTypes ==
  ASSUME TypeInv, NEW c \in Runners, Runner(c)
  PROVE  TypeOK' /\ HandedOver'
<1> USE DEF TypeInv
<1>1. StartAll \in Suffixes(StartAll)
  BY TodoLists, WholeSuffix
<1>2. c \in Callers
  BY RunnerAssumption
<1>3. /\ UNCHANGED <<task_run, bit0, args, call, tpc, tkind, root, prog, freed, rxpc, msg,
                     tstr, left, moving, stopped>>
      /\ is_run' \in {is_run, FALSE} /\ crashed' \in {crashed, TRUE}
  BY DEF Runner, RunnerCheck, RunnerBranch, RunnerFinish, RunnerEnd, RunnerFault, handleVars, progVars, bodyVars
<1>4. /\ \/ todo' = todo
         \/ todo' = [todo EXCEPT ![c] = StartAll] /\ rpc[c] = "branch"
      /\ \/ rpc' = rpc
         \/ rpc' = [rpc EXCEPT ![c] = "none"]
         \/ rpc' = [rpc EXCEPT ![c] = "branch"] /\ is_run
         \/ rpc' = [rpc EXCEPT ![c] = "finish"]
         \/ rpc' = [rpc EXCEPT ![c] = "calls"] /\ rpc[c] = "branch"
  <2>1. CASE RunnerCheck(c)
    BY <2>1 DEF RunnerCheck
  <2>2. CASE RunnerBranch(c)
    BY <2>2 DEF RunnerBranch
  <2>3. CASE RunnerFinish(c) \/ RunnerEnd(c) \/ RunnerFault(c)
    BY <2>3 DEF RunnerFinish, RunnerEnd, RunnerFault, progVars
  <2> QED
    BY <2>1, <2>2, <2>3 DEF Runner
<1>5. HandleTypeOK'
  BY <1>3 DEF TypeOK, HandleTypeOK
<1>6. /\ todo' \in [Callers -> Suffixes(StartAll) \cup Suffixes(StopAll)]
      /\ rpc' \in [Runners -> {"none", "start", "branch", "calls", "finish"}]
  BY <1>1, <1>2, <1>4 DEF TypeOK
<1>7. TypeOK'
  BY <1>3, <1>5, <1>6 DEF TypeOK
<1>8. HandedOver'
  <2>1. CASE root # Null
    BY <1>3, <2>1 DEF HandedOver
  <2>2. CASE root = Null
    <3>1. ~is_run /\ rpc[c] # "branch"
      BY <2>2 DEF TreeInv, RunningProgramReadable, HandedOver
    <3>2. todo' = todo /\ \A d \in Runners : rpc'[d] \in {rpc[d], "none", "finish"}
      BY <1>4, <3>1 DEF TypeOK
    <3> QED
      BY <1>3, <3>2 DEF HandedOver
  <2> QED
    BY <2>1, <2>2
<1> QED
  BY <1>7, <1>8

\* What the step of a task leaves alone.  The slot stays with its worker until
\* the task is gone.
LEMMA TaskFrame ==
  ASSUME TypeInv, NEW t \in TaskIds, Task(t)
  PROVE  /\ UNCHANGED <<args, is_run, root, prog, freed, rxpc, msg, todo, stopped, crashed>>
         /\ \/ tkind' = tkind
            \/ tkind' = [tkind EXCEPT ![t] = Null] /\ tpc' = [tpc EXCEPT ![t] = "none"]
         /\ tpc[t] # "none"
         /\ \E q \in TaskPcs : tpc' = [tpc EXCEPT ![t] = q]
<1> USE DEF TypeInv
<1>1. /\ UNCHANGED <<args, is_run, root, prog, freed, rxpc, msg, todo, stopped, crashed>>
      /\ \/ tkind' = tkind
         \/ tkind' = [tkind EXCEPT ![t] = Null] /\ tpc' = [tpc EXCEPT ![t] = "none"]
      /\ tpc[t] # "none"
  BY DEF Task, TakeArgs, NotesGiveUp, NextCmd, ReadFreed, PlayCmd, Finish, LedTest, ClearRun,
     LedCallback, CreateRunner, CreateRunnerFails, EndTask, Signal, Delete, Step, handleVars, runnerVars, progVars
<1>2. CASE ReadFreed(t)
  <2>1. tpc' = tpc /\ tpc[t] \in TaskPcs /\ tpc' = [tpc EXCEPT ![t] = tpc[t]]
    BY <1>2 DEF ReadFreed, handleVars, TypeOK
  <2> QED
    BY <1>1, <2>1
<1>3. CASE ~ReadFreed(t)
  <2>1. \E q \in TaskPcs : tpc' = [tpc EXCEPT ![t] = q]
    BY <1>3 DEF Task, TakeArgs, NotesGiveUp, NextCmd, PlayCmd, Finish, LedTest, ClearRun,
       LedCallback, CreateRunner, CreateRunnerFails, EndTask, Signal, Delete, Step, TaskPcs
  <2> QED
    BY <1>1, <2>1
<1> QED
  BY <1>2, <1>3

\* A task keeps the handle of its worker well typed.
LEMMA TaskHandleTypes ==
  ASSUME TypeInv, NEW t \in TaskIds, Task(t)
  PROVE  HandleTypeOK' /\ \A c \in Callers : \/ call'[c] = call[c]
                                             \/ call'[c] = Returned(call[c]) /\ At(c, "blocked")
<1> USE DEF TypeInv
<1>1. HandleTypeOK
  BY DEF TypeOK
<1>2. CASE EndTask(t)
  <2>1. Signal(t)
    BY <1>2 DEF EndTask
  <2>2. HandleTypeOK'
    BY <1>1, <2>1, SignalType
  <2> QED
    BY <2>1, <2>2 DEF Signal, SetBits, Waiting
<1>3. CASE ~EndTask(t)
  <2>1. UNCHANGED <<bit0, args, call>>
    BY <1>3 DEF Task, TakeArgs, NotesGiveUp, NextCmd, ReadFreed, PlayCmd, Finish, LedTest, ClearRun,
       LedCallback, CreateRunner, CreateRunnerFails, handleVars
  <2>2. task_run' = task_run \/ task_run' = [task_run EXCEPT ![tkind[t]] = FALSE]
    BY <1>3 DEF Task, TakeArgs, NotesGiveUp, NextCmd, ReadFreed, PlayCmd, Finish, LedTest, ClearRun,
       LedCallback, CreateRunner, CreateRunnerFails, handleVars
  <2>3. tkind' = tkind \/ tkind' = [tkind EXCEPT ![t] = Null]
    BY TaskFrame
  <2> QED
    BY <1>1, <2>1, <2>2, <2>3 DEF HandleTypeOK
<1> QED
  BY <1>2, <1>3

\* A task finds the string that handle->args points to, and walks it command by
\* command.
LEMMA TaskBodyTypes ==
  ASSUME TypeInv, NEW t \in TaskIds, Task(t)
  PROVE  /\ tstr' \in [TaskIds -> RootIds \cup {Null}]
         /\ left' \in [TaskIds -> 0 .. MaxLen]
         /\ moving' \in BOOLEAN
         /\ rpc' \in [Runners -> {"none", "start", "branch", "calls", "finish"}]
         /\ \A c \in Runners : rpc'[c] \in {rpc[c], "start"}
<1> USE DEF TypeInv
<1>1. /\ tstr \in [TaskIds -> RootIds \cup {Null}] /\ left \in [TaskIds -> 0 .. MaxLen]
      /\ moving \in BOOLEAN /\ rpc \in [Runners -> {"none", "start", "branch", "calls", "finish"}]
      /\ MaxLen \in Nat
  BY RunnerAssumption DEF TypeOK
<1>2. /\ rpc' \in [Runners -> {"none", "start", "branch", "calls", "finish"}]
      /\ \A c \in Runners : rpc'[c] \in {rpc[c], "start"}
  <2>1. rpc' = rpc \/ \E c \in Runners : rpc' = [rpc EXCEPT ![c] = "start"]
    BY DEF Task, TakeArgs, NotesGiveUp, NextCmd, ReadFreed, PlayCmd, Finish, LedTest, ClearRun,
       LedCallback, CreateRunner, CreateRunnerFails, EndTask, runnerVars, progVars
  <2> QED
    BY <1>1, <2>1
<1>3. moving' \in BOOLEAN
  <2>1. CASE PlayCmd(t)
    BY <1>1, <2>1 DEF PlayCmd
  <2>2. CASE Finish(t)
    BY <1>1, <2>2 DEF Finish
  <2>3. CASE ~PlayCmd(t) /\ ~Finish(t)
    BY <1>1, <2>3 DEF Task, TakeArgs, NotesGiveUp, NextCmd, ReadFreed, LedTest, ClearRun,
       LedCallback, CreateRunner, CreateRunnerFails, EndTask, runnerVars, bodyVars
  <2> QED
    BY <2>1, <2>2, <2>3
<1>4. /\ tstr' \in [TaskIds -> RootIds \cup {Null}]
      /\ left' \in [TaskIds -> 0 .. MaxLen]
  <2>1. CASE TakeArgs(t)
    <3> DEFINE k == tkind[t]
    <3>1. k \in Kinds /\ args[k] \in RootIds /\ prog[args[k]] \in Programs
      <4>1. tpc[t] # "none"
        BY TaskFrame
      <4>2. k \in Kinds /\ args[k] # Null
        BY <4>1 DEF HandedOver
      <4>3. prog[args[k]] # Null
        BY <4>2 DEF HandedOver
      <4>4. args[k] \in RootIds
        BY <4>2, RunnerAssumption DEF TypeOK, HandleTypeOK
      <4> QED
        BY <4>2, <4>3, <4>4 DEF TypeOK
    <3>2. prog[args[k]].len[k] \in 0 .. MaxLen
      BY <3>1, RunnerAssumption
    <3>3. /\ tstr' = [tstr EXCEPT ![t] = args[k]]
          /\ left' = [left EXCEPT ![t] = prog[args[k]].len[k]]
      BY <2>1 DEF TakeArgs
    <3> QED
      BY <1>1, <3>1, <3>2, <3>3
  <2>2. CASE NextCmd(t)
    <3>1. tstr' = tstr /\ (left' = left \/ (left[t] # 0 /\ left' = [left EXCEPT ![t] = @ - 1]))
      <4>1. CASE left[t] = 0 \/ ~task_run[tkind[t]]
        BY <2>2, <4>1 DEF NextCmd
      <4>2. CASE ~(left[t] = 0 \/ ~task_run[tkind[t]])
        BY <2>2, <4>2 DEF NextCmd
      <4> QED
        BY <4>1, <4>2
    <3> QED
      BY <1>1, <3>1
  <2>3. CASE ReadFreed(t)
    BY <1>1, <2>3 DEF ReadFreed
  <2>4. CASE EndTask(t)
    BY <1>1, <2>4 DEF EndTask
  <2>5. CASE ~TakeArgs(t) /\ ~NextCmd(t) /\ ~ReadFreed(t) /\ ~EndTask(t)
    BY <1>1, <2>5 DEF Task, NotesGiveUp, PlayCmd, Finish, LedTest, ClearRun,
       LedCallback, CreateRunner, CreateRunnerFails, runnerVars, bodyVars
  <2> QED
    BY <2>1, <2>2, <2>3, <2>4, <2>5
<1> QED
  BY <1>2, <1>3, <1>4

\* The tasks.
LEMMA TaskTypes ==
  ASSUME TypeInv, NEW t \in TaskIds, Task(t)
  PROVE  TypeOK' /\ HandedOver'
<1>1. /\ UNCHANGED <<args, is_run, root, prog, freed, rxpc, msg, todo, stopped, crashed>>
      /\ \/ tkind' = tkind
         \/ tkind' = [tkind EXCEPT ![t] = Null] /\ tpc' = [tpc EXCEPT ![t] = "none"]
      /\ tpc[t] # "none"
      /\ \E q \in TaskPcs : tpc' = [tpc EXCEPT ![t] = q]
  BY TaskFrame
<1>2. HandleTypeOK' /\ \A c \in Callers : \/ call'[c] = call[c]
                                          \/ call'[c] = Returned(call[c]) /\ At(c, "blocked")
  BY TaskHandleTypes
<1>3. /\ tstr' \in [TaskIds -> RootIds \cup {Null}]
      /\ left' \in [TaskIds -> 0 .. MaxLen]
      /\ moving' \in BOOLEAN
      /\ rpc' \in [Runners -> {"none", "start", "branch", "calls", "finish"}]
      /\ \A c \in Runners : rpc'[c] \in {rpc[c], "start"}
  BY TaskBodyTypes
<1>4. tpc' \in [TaskIds -> TaskPcs]
  BY <1>1 DEF TypeInv, TypeOK
<1>5. TypeOK'
  BY <1>1, <1>2, <1>3, <1>4 DEF TypeInv, TypeOK
<1>6. HandedOver'
  <2> USE DEF TypeInv
  <2>1. \A c \in Callers : /\ call'[c].str \in {call[c].str, Null}
                           /\ call'[c].pc = "create" => call'[c] = call[c]
    <3>1. \A c \in Callers : call[c] \in Calls
      BY DEF TypeOK, HandleTypeOK
    <3>2. \A r \in Calls : Returned(r).str \in {r.str, Null} /\ Returned(r).pc # "create"
      BY DEF Returned, Calls, Idle
    <3> QED
      BY <1>2, <3>1, <3>2
  <2>2. \A c \in Callers : /\ call'[c].str # Null => prog'[call'[c].str] # Null
                           /\ call'[c].pc = "create" => args'[call'[c].kind] # Null
    BY <1>1, <2>1 DEF HandedOver
  <2>3. \A u \in TaskIds : tpc'[u] # "none" => tkind'[u] \in Kinds /\ args'[tkind'[u]] # Null
    BY <1>1 DEF HandedOver, TypeOK, HandleTypeOK
  <2>4. root = Null => \A c \in Runners : rpc'[c] \notin {"branch", "calls"}
    BY <1>3 DEF HandedOver
  <2> QED
    BY <1>1, <2>2, <2>3, <2>4 DEF HandedOver
<1> QED
  BY <1>5, <1>6

\* Every step keeps the types.
LEMMA TypeNext == TypeInv /\ [Next]_vars => TypeInv'
<1> SUFFICES ASSUME TypeInv, [Next]_vars PROVE TypeInv'
  OBVIOUS
<1>1. TreeInv'
  BY NextTree DEF TypeInv
<1>2. ASSUME UNCHANGED vars PROVE TypeOK' /\ HandedOver'
  <2>1. UNCHANGED <<task_run, bit0, args, call, tpc, tkind, is_run, root, prog, freed, rxpc, msg,
                    todo, rpc, tstr, left, moving, stopped, crashed>>
    BY <1>2 DEF vars, handleVars, runnerVars, progVars, bodyVars
  <2>2. HandleTypeOK'
    BY <2>1 DEF TypeInv, TypeOK, HandleTypeOK
  <2> QED
    BY <2>1, <2>2 DEF TypeInv, TypeOK, HandedOver
<1>3. TypeOK' /\ HandedOver'
  BY <1>2, RxTypes, CallerTypes, RunnerStepTypes, TaskTypes DEF Next, Rx, Panicked
<1> QED
  BY <1>1, <1>3 DEF TypeInv

\* The state of handle_message.c and of the three tasks is well typed, for any
\* number of messages, tasks and run_cmds_tasks: no task takes a string that is
\* not there, and no run_cmds_task reads r_v1 before a message was loaded.
THEOREM RunnerTypes == Spec => []TypeOK
<1>1. TypeInv => TypeOK
  BY DEF TypeInv
<1> QED
  BY <1>1, TypeInit, TypeNext, PTL DEF Spec

(***************************************************************************)
(* After C_STOP.                                                            *)
(***************************************************************************)
\* A stopped program is not marked running, and rx is not about to mark it.
StopInv == /\ stopped => ~is_run
           /\ rxpc # "idle" => ~stopped

\* Only rx, on its way through run_cmds, sets run_cmds_is_run.
LEMMA StopNext == StopInv /\ [Next]_vars => StopInv'
<1> SUFFICES ASSUME StopInv, [Next]_vars PROVE StopInv'
  OBVIOUS
<1> USE DEF StopInv
<1>1. ASSUME NEW p \in Programs, CCmds(p) PROVE StopInv'
  BY <1>1 DEF CCmds
<1>2. CASE CStop
  BY <1>2 DEF CStop, RxIdle
<1>3. CASE Rx
  BY <1>3 DEF Rx, LoadRoot, StartProgram
<1>4. ASSUME NEW c \in Callers, Caller(c) PROVE StopInv'
  BY <1>4 DEF Caller, NextCall, InCall, runnerVars, progVars
<1>5. ASSUME NEW c \in Runners, Runner(c) PROVE StopInv'
  <2>1. (is_run' => is_run) /\ UNCHANGED <<rxpc, stopped>>
    BY <1>5 DEF Runner, RunnerCheck, RunnerBranch, RunnerFinish, RunnerEnd, RunnerFault, progVars
  <2> QED
    BY <2>1
<1>6. ASSUME NEW t \in TaskIds, Task(t) PROVE StopInv'
  <2>1. UNCHANGED <<is_run, rxpc, stopped>>
    BY <1>6 DEF Task, TakeArgs, NotesGiveUp, NextCmd, ReadFreed, PlayCmd, Finish, LedTest,
       ClearRun, LedCallback, CreateRunner, CreateRunnerFails, EndTask, runnerVars, progVars
  <2> QED
    BY <2>1
<1>7. CASE UNCHANGED vars
  BY <1>7 DEF vars, runnerVars, progVars
<1> QED
  BY <1>1, <1>2, <1>3, <1>4, <1>5, <1>6, <1>7 DEF Next, Panicked

\* The reasons a thread is one of the Starters.
ToStart(c) == \E i \in 1 .. Len(todo[c]) : todo[c][i].op = "run"
PastCheck(c) == c \in Runners /\ rpc[c] \in {"branch", "calls"}

\* Only a thread past the check of run_cmds_task, or one with such a call on its
\* list, begins a run call.
LEMMA CallerStarts ==
  ASSUME TypeInv, NEW c \in Callers, Caller(c), NEW d \in Callers, d \in Starters'
  PROVE  d \in Starters
<1> USE DEF TypeInv
<1>1. CASE NextCall(c)
  <2>1. /\ rpc' = rpc /\ todo' = [todo EXCEPT ![c] = Tail(@)] /\ todo[c] # <<>>
        /\ IF Head(todo[c]).op = "run" THEN BeginRun(c, Head(todo[c]).kind, root)
                                       ELSE BeginStop(c, Head(todo[c]).kind)
    BY <1>1 DEF NextCall
  <2>2. /\ Head(todo[c]) = todo[c][1] /\ Len(todo[c]) \in Nat
        /\ Len(Tail(todo[c])) = Len(todo[c]) - 1
        /\ \A i \in 1 .. Len(todo[c]) - 1 : Tail(todo[c])[i] = todo[c][i + 1]
    BY <2>1, TodoType
  <2>3. Len(todo[c]) > 0
    BY <2>1, TodoType, EmptySeq
  <2>4. CASE d # c
    <3>1. call'[d] = call[d] /\ todo'[d] = todo[d]
      BY <2>1, <2>4 DEF BeginRun, BeginStop, TypeOK, HandleTypeOK
    <3> QED
      BY <2>1, <3>1 DEF Starters
  <2>5. CASE d = c
    <3>1. todo'[c] = Tail(todo[c])
      BY <2>1 DEF TypeOK
    <3>2. call'[c].op = "run" => Head(todo[c]).op = "run"
      BY <2>1 DEF BeginRun, BeginStop, TypeOK, HandleTypeOK
    <3>3. ToStart(c)' => ToStart(c)
      BY <2>2, <3>1 DEF ToStart
    <3>4. Head(todo[c]).op = "run" => ToStart(c)
      BY <2>2, <2>3 DEF ToStart
    <3> QED
      BY <2>1, <2>5, <3>2, <3>3, <3>4 DEF Starters, ToStart
  <2> QED
    BY <2>4, <2>5
<1>2. CASE InCall(c)
  <2>1. CallStep(c) /\ UNCHANGED <<todo, rpc>>
    BY <1>2 DEF InCall, runnerVars, progVars
  <2>2. call'[d] = call[d] \/ call'[d].op \in {call[d].op, "none"}
    BY <2>1, CallStepFrame DEF TypeOK
  <2> QED
    BY <2>1, <2>2 DEF Starters
<1> QED
  BY <1>1, <1>2 DEF Caller

\* A run_cmds_task does not get past its check while the program is stopped.
LEMMA RunnerStarts ==
  ASSUME TypeInv, StopInv, stopped, NEW c \in Runners, Runner(c), NEW d \in Callers, d \in Starters'
  PROVE  d \in Starters
<1> USE DEF TypeInv
<1>1. call' = call
  BY DEF Runner, RunnerCheck, RunnerBranch, RunnerFinish, RunnerEnd, RunnerFault, handleVars
<1>2. /\ \/ todo' = todo
         \/ todo' = [todo EXCEPT ![c] = StartAll] /\ rpc[c] = "branch"
      /\ \/ rpc' = rpc
         \/ rpc' = [rpc EXCEPT ![c] = "none"]
         \/ rpc' = [rpc EXCEPT ![c] = "finish"]
         \/ rpc' = [rpc EXCEPT ![c] = "calls"] /\ rpc[c] = "branch"
  <2>1. CASE RunnerCheck(c)
    BY <2>1 DEF RunnerCheck, StopInv
  <2>2. CASE RunnerBranch(c)
    BY <2>2 DEF RunnerBranch
  <2>3. CASE RunnerFinish(c) \/ RunnerEnd(c) \/ RunnerFault(c)
    BY <2>3 DEF RunnerFinish, RunnerEnd, RunnerFault, progVars
  <2> QED
    BY <2>1, <2>2, <2>3 DEF Runner
<1>3. CASE PastCheck(d)
  BY <1>3 DEF PastCheck, Starters
<1>4. CASE ~PastCheck(d)
  <2>1. todo'[d] = todo[d]
    BY <1>2, <1>4 DEF PastCheck, TypeOK
  <2>2. ~PastCheck(d)'
    BY <1>2, <1>4 DEF PastCheck, TypeOK
  <2> QED
    BY <1>1, <2>1, <2>2 DEF Starters, PastCheck
<1> QED
  BY <1>3, <1>4

\* A task makes no calls; at most it creates a run_cmds_task that has its check
\* before it, and lets a thread return from its wait.
LEMMA TaskStarts ==
  ASSUME TypeInv, NEW t \in TaskIds, Task(t), NEW d \in Callers, d \in Starters'
  PROVE  d \in Starters
<1>1. todo' = todo /\ \A c \in Runners : rpc'[c] \in {rpc[c], "start"}
  BY TaskFrame, TaskBodyTypes
<1>2. call'[d] = call[d] \/ call'[d] = Returned(call[d])
  BY TaskHandleTypes
<1>3. call'[d].op \in {call[d].op, "none"}
  <2>1. call[d] \in Calls
    BY DEF TypeInv, TypeOK, HandleTypeOK
  <2> QED
    BY <1>2, <2>1 DEF Returned, Calls, Idle
<1> QED
  BY <1>1, <1>3 DEF Starters

\* While the program is stopped no step makes a thread one of the Starters.
LEMMA StepRevivesNone ==
  ASSUME TypeInv, StopInv, [Next]_vars, stopped, stopped'
  PROVE  Starters' \subseteq Starters
<1> SUFFICES ASSUME NEW d \in Callers, d \in Starters' PROVE d \in Starters
  BY DEF Starters
<1>1. CASE CStop
  <2>1. /\ todo' = [todo EXCEPT !["rx"] = StopAll] /\ UNCHANGED <<call, rpc>>
    BY <1>1 DEF CStop, handleVars
  <2>2. ToStart(d)' => ToStart(d)
    <3>1. CASE d = "rx"
      <4>1. todo'[d] = StopAll
        BY <2>1, <3>1 DEF TypeInv, TypeOK
      <4> QED
        BY <4>1, TodoLists DEF ToStart
    <3>2. CASE d # "rx"
      <4>1. todo'[d] = todo[d]
        BY <2>1, <3>2 DEF TypeInv, TypeOK
      <4> QED
        BY <4>1 DEF ToStart
    <3> QED
      BY <3>1, <3>2
  <2> QED
    BY <2>1, <2>2 DEF Starters, ToStart
<1>2. ~Rx /\ \A p \in Programs : ~CCmds(p)
  BY DEF Rx, LoadRoot, StartProgram, CCmds, StopInv
<1>3. CASE UNCHANGED vars
  BY <1>3 DEF vars, handleVars, runnerVars, progVars, Starters
<1> QED
  BY <1>1, <1>2, <1>3, CallerStarts, RunnerStarts, TaskStarts DEF Next, Panicked

\* From C_STOP to the next C_CMDS the threads that may still start a worker only get
\* fewer, for any number of LED tasks and run_cmds_tasks that are still alive.
THEOREM NoneRevived == Spec => NoRevival
<1>1. Init => StopInv
  BY DEF Init, StopInv
<1>2. TypeInv /\ StopInv /\ [Next]_vars =>
        [stopped /\ stopped' => Starters' \subseteq Starters]_vars
  BY StepRevivesNone
<1> QED
  BY <1>1, <1>2, TypeInit, TypeNext, StopNext, PTL DEF Spec, NoRevival
=============================================================================
