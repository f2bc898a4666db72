--------------------------- MODULE TaskHandleProofs ---------------------------
(***************************************************************************)
(* Facts about the start/stop protocol that hold for every worker: the      *)
(* steps of a calling thread and the end of a task keep the handle well     *)
(* typed, and which part of it they leave alone.                            *)
(***************************************************************************)
EXTENDS TaskHandle, TLAPS

\* A call that is under way has one of the program counters of xxx_run and
\* xxx_stop and names a worker.
LEMMA CallUnderWay ==
  ASSUME NEW r \in Calls, r.pc # "idle"
  PROVE  /\ r.pc \in RunPcs
         /\ r.pc \in StopPcs \/ r.op = "run"
         /\ r.op \in {"run", "stop"}
         /\ r.kind \in Kinds
         /\ r.op = "run" => r.str \in Strs
  BY DEF Calls, Idle, StopPcs, RunPcs

\* Moving a call to another program counter of the protocol keeps its type.
LEMMA CallMoves ==
  ASSUME NEW r \in Calls, r.pc # "idle", NEW p \in RunPcs,
         p \in StopPcs \/ r.pc \notin StopPcs \/ r.op = "run"
  PROVE  [r EXCEPT !.pc = p] \in Calls
  BY DEF Calls, Idle, StopPcs, RunPcs

\* The return of xxx_stop (to xxx_run or to its caller) keeps the type.
LEMMA ReturnedType ==
  ASSUME NEW r \in Calls, r.pc # "idle"
  PROVE  Returned(r) \in Calls
  <1>1. CASE r.op = "run"
    BY <1>1, CallMoves DEF Returned, RunPcs
  <1>2. CASE r.op # "run"
    BY <1>2 DEF Returned, Calls
  <1> QED BY <1>1, <1>2

\* Every step of a calling thread keeps the handle well typed.
LEMMA CallStepType ==
  ASSUME HandleTypeOK, NEW c \in Callers, CallStep(c)
  PROVE  HandleTypeOK'
  <1> DEFINE r == call[c]
  <1> USE DEF HandleTypeOK
  <1>1. r \in Calls
    OBVIOUS
  <1>2. ASSUME NEW p, At(c, p), p # "idle", NEW q \in RunPcs,
               q \in StopPcs \/ p \notin StopPcs, Goto(c, q)
        PROVE  call' \in [Callers -> Calls]
    BY <1>1, <1>2, CallMoves DEF At, Goto
  <1>3. ASSUME NEW p, At(c, p), p # "idle"
        PROVE  r.kind \in Kinds /\ Returned(r) \in Calls
    BY <1>1, <1>3, CallUnderWay, ReturnedType DEF At
  <1>4. CASE CheckRun(c)
    BY <1>4, <1>2, <1>3 DEF CheckRun, RunPcs, StopPcs
  <1>5. CASE CheckStop(c)
    BY <1>5, <1>1, <1>3, CallMoves DEF CheckStop, At, RunPcs, StopPcs
  <1>6. CASE ClearBits(c)
    BY <1>6, <1>2, <1>3 DEF ClearBits, RunPcs, StopPcs
  <1>7. CASE UnsetRun(c)
    BY <1>7, <1>2, <1>3 DEF UnsetRun, RunPcs, StopPcs
  <1>8. CASE WaitBits(c)
    BY <1>8, <1>2, <1>3 DEF WaitBits, RunPcs, StopPcs
  <1>9. CASE WaitTimeout(c)
    BY <1>9, <1>3 DEF WaitTimeout
  <1>10. CASE SetRun(c)
    BY <1>10, <1>2, <1>3 DEF SetRun, RunPcs, StopPcs
  <1>11. CASE SetArgs(c)
    <2>1. r.str \in Strs \cup {Null}
      BY <1>1 DEF Calls, Idle
    <2> QED BY <1>11, <2>1, <1>2, <1>3 DEF SetArgs, RunPcs, StopPcs
  <1>12. ASSUME NEW t \in TaskIds, CreateTask(c, t)
         PROVE  HandleTypeOK'
    BY <1>12, <1>3 DEF CreateTask, Calls
  <1>13. CASE CreateFails(c)
    BY <1>13 DEF CreateFails, Calls
  <1> QED BY <1>4, <1>5, <1>6, <1>7, <1>8, <1>9, <1>10, <1>11, <1>12, <1>13 DEF CallStep

\* The end of a task (SetBits and vTaskDelete) keeps the handle well typed.
LEMMA SignalType ==
  ASSUME HandleTypeOK, NEW t \in TaskIds, Signal(t)
  PROVE  HandleTypeOK'
  <1> USE DEF HandleTypeOK
  <1>1. bit0' \in [Kinds -> BOOLEAN] /\ tkind' \in [TaskIds -> Kinds \cup {Null}]
    BY DEF Signal, SetBits, Delete
  <1>2. ASSUME NEW c \in Callers
        PROVE  (IF c \in Waiting(tkind[t]) THEN Returned(call[c]) ELSE call[c]) \in Calls
    BY ReturnedType DEF Waiting, At
  <1>3. call' \in [Callers -> Calls]
    BY <1>2 DEF Signal, SetBits
  <1> QED BY <1>1, <1>3 DEF Signal

\* What a step of a calling thread may do: it moves its own call, changes
\* task_run or args of the worker it calls, or creates one task of that worker
\* or fails to.
LEMMA CallStepFrame ==
  ASSUME HandleTypeOK, NEW c \in Callers, CallStep(c)
  PROVE  /\ \A d \in Callers \ {c} : call'[d] = call[d]
         /\ call'[c].kind \in {call[c].kind, Null}
         /\ call'[c].str \in {call[c].str, Null}
         /\ call'[c].op \in {call[c].op, "none"}
         /\ \/ task_run' = task_run
            \/ task_run' = [task_run EXCEPT ![call[c].kind] = FALSE]
            \/ /\ task_run' = [task_run EXCEPT ![call[c].kind] = TRUE]
               /\ call'[c].pc = "args"
               /\ call'[c].kind = call[c].kind
         /\ \/ args' = args /\ (call'[c].pc = "create" => call'[c] = call[c])
            \/ /\ args' = [args EXCEPT ![call[c].kind] = call[c].str]
               /\ call[c].pc = "args"
               /\ call'[c].kind = call[c].kind
         /\ call[c].pc # "create" => UNCHANGED <<tpc, tkind>>
         /\ call[c].pc = "create" =>
              \/ call[c].kind \in FailKinds /\ UNCHANGED <<tpc, tkind>>
              \/ \E t \in TaskIds : /\ tpc[t] = "none"
                                    /\ tpc' = [tpc EXCEPT ![t] = "start"]
                                    /\ tkind' = [tkind EXCEPT ![t] = call[c].kind]
         /\ call[c].pc = "args" => call'[c].pc = "create" /\ call'[c].kind = call[c].kind
  <1> USE DEF HandleTypeOK, At, Goto
  <1>1. call[c] \in Calls
    OBVIOUS
  <1>2. /\ Returned(call[c]).kind \in {call[c].kind, Null}
        /\ Returned(call[c]).str \in {call[c].str, Null}
        /\ Returned(call[c]).op \in {call[c].op, "none"}
        /\ Returned(call[c]).pc \in {"set", "idle"}
    BY <1>1 DEF Returned, Calls, Idle
  <1>3. \A p : /\ [call[c] EXCEPT !.pc = p].kind = call[c].kind
               /\ [call[c] EXCEPT !.pc = p].str = call[c].str
               /\ [call[c] EXCEPT !.pc = p].op = call[c].op
               /\ [call[c] EXCEPT !.pc = p].pc = p
    BY <1>1 DEF Calls, Idle
  <1>4. CASE CheckRun(c)
    BY <1>1, <1>3, <1>4 DEF CheckRun
  <1>5. CASE CheckStop(c)
    BY <1>1, <1>2, <1>3, <1>5 DEF CheckStop
  <1>6. CASE ClearBits(c)
    BY <1>1, <1>3, <1>6 DEF ClearBits
  <1>7. CASE UnsetRun(c)
    BY <1>1, <1>3, <1>7 DEF UnsetRun
  <1>8. CASE WaitBits(c)
    <2>1. CASE bit0[call[c].kind]
      BY <1>1, <1>2, <1>8, <2>1 DEF WaitBits
    <2>2. CASE ~bit0[call[c].kind]
      <3>1. call' = [call EXCEPT ![c].pc = "blocked"] /\ call[c].pc = "wait"
        BY <1>8, <2>2 DEF WaitBits
      <3>2. UNCHANGED <<task_run, args, tpc, tkind>>
        BY <1>8 DEF WaitBits
      <3> QED BY <1>1, <1>3, <3>1, <3>2
    <2> QED BY <2>1, <2>2
  <1>9. CASE WaitTimeout(c)
    BY <1>1, <1>2, <1>9 DEF WaitTimeout
  <1>10. CASE SetRun(c)
    BY <1>1, <1>3, <1>10 DEF SetRun
  <1>11. CASE SetArgs(c)
    BY <1>1, <1>3, <1>11 DEF SetArgs
  <1>12. CASE \E t \in TaskIds : CreateTask(c, t)
    <2>1. PICK t \in TaskIds : CreateTask(c, t)
      BY <1>12
    <2>2. /\ call' = [call EXCEPT ![c] = Idle]
          /\ call[c].pc = "create"
          /\ UNCHANGED <<task_run, args>>
      BY <2>1 DEF CreateTask
    <2>3. /\ tpc[t] = "none"
          /\ tpc' = [tpc EXCEPT ![t] = "start"]
          /\ tkind' = [tkind EXCEPT ![t] = call[c].kind]
      BY <2>1 DEF CreateTask, Free
    <2>4. Idle.kind = Null /\ Idle.str = Null /\ Idle.op = "none" /\ Idle.pc = "idle"
      BY DEF Idle
    <2> QED BY <2>2, <2>3, <2>4
  <1>13. CASE CreateFails(c)
    BY <1>13 DEF CreateFails, Idle
  <1> QED BY <1>4, <1>5, <1>6, <1>7, <1>8, <1>9, <1>10, <1>11, <1>12, <1>13 DEF CallStep
=============================================================================
