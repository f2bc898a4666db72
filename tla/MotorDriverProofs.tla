-------------------------- MODULE MotorDriverProofs --------------------------
(***************************************************************************)
(* Proofs that the motors do what they are told, and that a speed out of    *)
(* range does not outlive its message, for any number of motor tasks, any   *)
(* commands and any numbers in M_RUN messages.                              *)
(***************************************************************************)
EXTENDS MotorDriver, TLAPS

\* A duty is a number, whatever the speed.
LEMMA DutyType ==
  ASSUME NEW s \in Int
  PROVE  Product(s) \in Int /\ Duty(s) \in Int
  <1>1. Product(s) \in Int
    BY SMT DEF Product
  <1>2. \A p \in Int : p >= 0 => p \div 100 \in Int
    OBVIOUS
  <1>3. \A p \in Int : ~(p >= 0) => -((-p) \div 100) \in Int
    OBVIOUS
  <1> QED BY <1>1, <1>2, <1>3 DEF Duty

\* What goes to the two channels of a motor is the duty or nothing.
LEMMA ChannelType ==
  ASSUME NEW s \in Int, NEW d \in Int
  PROVE  /\ Forward(s, d) \in {0, Duty(s)} /\ Forward(s, d) \in Int
         /\ Backward(s, d) \in {0, Duty(s)} /\ Backward(s, d) \in Int
         /\ Flag(s) \in {0, 1}
  BY DutyType DEF Forward, Backward, Flag

\* The values that M_RUN or a command writes.
LEMMA DriveValues ==
  ASSUME NEW d \in AllDrives, NEW i \in 1..Writes
  PROVE  DriveScript(d)[i][2] \in {0, 1, Duty(d.s1), Duty(d.s2)}
  <1>1. i \in 1..11
    BY DEF Writes
  <1>2. d.s1 \in Int /\ d.d1 \in Int /\ d.s2 \in Int /\ d.d2 \in Int
    BY DEF AllDrives
  <1> DEFINE f1 == Forward(d.s1, d.d1)
             b1 == Backward(d.s1, d.d1)
             f2 == Forward(d.s2, d.d2)
             b2 == Backward(d.s2, d.d2)
             g1 == Flag(d.s1)
             g2 == Flag(d.s2)
  <1>3. /\ f1 \in {0, Duty(d.s1)} /\ b1 \in {0, Duty(d.s1)} /\ g1 \in {0, 1}
    BY <1>2, ChannelType
  <1>4. /\ f2 \in {0, Duty(d.s2)} /\ b2 \in {0, Duty(d.s2)} /\ g2 \in {0, 1}
    BY <1>2, ChannelType
  <1>5. DriveScript(d) = << <<"enable", 1>>, <<"duty0", f1>>, <<"duty1", b1>>,
                            <<"out0", f1>>, <<"out1", b1>>, <<"motorA_run", g1>>,
                            <<"duty2", f2>>, <<"duty3", b2>>,
                            <<"out2", f2>>, <<"out3", b2>>, <<"motorB_run", g2>> >>
    BY Zenon DEF DriveScript
  <1> HIDE DEF f1, b1, f2, b2, g1, g2
  <1>6. DriveScript(d)[i][2] \in {1, f1, b1, g1, f2, b2, g2}
    BY <1>1, <1>5
  <1> QED BY <1>3, <1>4, <1>6

\* Every write of M_RUN or of a command puts a number in a register.
LEMMA DriveType ==
  ASSUME NEW d \in AllDrives, NEW i \in 1..Writes
  PROVE  DriveScript(d)[i][1] \in Regs /\ DriveScript(d)[i][2] \in Int
  <1>1. i \in 1..11
    BY DEF Writes
  <1>2. DriveScript(d)[i][1] \in Regs
    BY <1>1 DEF DriveScript, Regs, Duties, Outs
  <1>3. Duty(d.s1) \in Int /\ Duty(d.s2) \in Int
    BY DutyType DEF AllDrives
  <1> QED BY <1>2, <1>3, DriveValues

\* The same for every script.
LEMMA ScriptType ==
  ASSUME NEW j \in Jobs, NEW i \in 1..Writes
  PROVE  Script(j)[i][1] \in Regs /\ Script(j)[i][2] \in Int
  <1>1. DriveScript(j.arg)[i][1] \in Regs /\ DriveScript(j.arg)[i][2] \in Int
    BY DriveType DEF Jobs
  <1>2. i \in 1..11
    BY DEF Writes
  <1>3. StopScript[i][1] \in Regs /\ StopScript[i][2] \in Int
    BY <1>2 DEF StopScript, Regs, Duties, Outs
  <1> QED BY <1>1, <1>3 DEF Script

\* The writes of M_RUN go to different registers, and a duty is written before
\* it is put on the wire.
LEMMA DriveOnce ==
  ASSUME NEW d, NEW i \in 1..Writes, NEW k \in 1..Writes, i # k
  PROVE  DriveScript(d)[i][1] # DriveScript(d)[k][1]
  BY DEF DriveScript, Writes

\* The duty that goes on the wire is the one written to its register before.
LEMMA DutyFirst ==
  ASSUME NEW d, NEW i \in 1..Writes, DriveScript(d)[i][1] \in Outs
  PROVE  \E k \in 1..Writes : /\ k < i
                              /\ DriveScript(d)[k][1] = DutyOf(DriveScript(d)[i][1])
                              /\ DriveScript(d)[k][2] = DriveScript(d)[i][2]
  <1>1. i \in 1..11
    BY DEF Writes
  <1>2. i \in {4, 5, 9, 10}
    BY <1>1 DEF DriveScript, Outs
  <1>3. CASE i \in {4, 5}
    <2>1. i - 2 \in 1..Writes /\ i - 2 < i
      BY <1>3 DEF Writes
    <2>2. DriveScript(d)[i - 2][1] = DutyOf(DriveScript(d)[i][1])
      BY <1>3 DEF DriveScript, DutyOf
    <2>3. DriveScript(d)[i - 2][2] = DriveScript(d)[i][2]
      BY <1>3 DEF DriveScript
    <2> QED BY <2>1, <2>2, <2>3
  <1>4. CASE i \in {9, 10}
    <2>1. i - 2 \in 1..Writes /\ i - 2 < i
      BY <1>4 DEF Writes
    <2>2. DriveScript(d)[i - 2][1] = DutyOf(DriveScript(d)[i][1])
      BY <1>4 DEF DriveScript, DutyOf
    <2>3. DriveScript(d)[i - 2][2] = DriveScript(d)[i][2]
      BY <1>4 DEF DriveScript
    <2> QED BY <2>1, <2>2, <2>3
  <1> QED BY <1>2, <1>3, <1>4

(***************************************************************************)
(* The inductive invariant.                                                 *)
(***************************************************************************)
\* A thread between two scripts carries nothing over, and rx is at the message
\* it took up last.
JobShape ==
  /\ \A x \in Threads : /\ job[x].op = "wait" => job[x] = Waiting
                        /\ job[x].op = "none" => job[x] = Gone
  /\ job["rx"].op \in {"wait", "drive", "stop"}
  /\ job["rx"].op = "drive" => told.op = "drive" /\ told.arg = job["rx"].arg

\* The first n - 1 writes of M_RUN are still in place.
Written(d, n) ==
  \A i \in 1..Writes : i < n => reg[DriveScript(d)[i][1]] = DriveScript(d)[i][2]

\* While the driver is on and no motor task is there to switch it off, rx is
\* inside M_STOP, or everything M_RUN has written so far is in place.
Obeyed ==
  reg["enable"] = 1 /\ NoMotorTask =>
    \/ job["rx"].op = "stop"
    \/ /\ told.op = "drive"
       /\ Written(told.arg, IF job["rx"].op = "drive" THEN job["rx"].next ELSE Writes + 1)

DInv == TypeOK /\ JobShape /\ Obeyed

\* The speeds that drv8833_motorA_run is made for.
Percent == 0..100

\* The jobs are well typed.
LEMMA JobType ==
  /\ \A d \in AllDrives, op \in {"none", "wait", "drive", "stop", "end"} : Job(op, d) \in Jobs
  /\ Still \in AllDrives
  /\ \A cmd : /\ CmdJob(cmd) \in Jobs
              /\ CmdJob(cmd).op \in {"drive", "stop"}
  <1>1. 1 \in 1..Writes
    BY DEF Writes
  <1>2. \A d \in AllDrives, op \in {"none", "wait", "drive", "stop", "end"} : Job(op, d) \in Jobs
    BY <1>1 DEF Job, Jobs
  <1>3. Still \in AllDrives
    BY DEF Still, AllDrives
  <1>4. ASSUME NEW cmd
        PROVE  CmdJob(cmd) \in Jobs /\ CmdJob(cmd).op \in {"drive", "stop"}
    <2>1. \A s1 \in Percent, d1 \in {1, -1}, s2 \in Percent, d2 \in {1, -1} :
            Drive(s1, d1, s2, d2) \in Jobs /\ Drive(s1, d1, s2, d2).op = "drive"
      <3>1. ASSUME NEW s1 \in Percent, NEW d1 \in {1, -1}, NEW s2 \in Percent, NEW d2 \in {1, -1}
            PROVE  [s1 |-> s1, d1 |-> d1, s2 |-> s2, d2 |-> d2] \in AllDrives
        BY DEF Percent, AllDrives
      <3> QED BY <1>2, <3>1 DEF Drive, Job
    <2>2. 50 \in Percent /\ 75 \in Percent /\ 100 \in Percent
      BY DEF Percent
    <2>3. Stop \in Jobs /\ Stop.op = "stop"
      BY <1>2, <1>3 DEF Stop, Job
    <2> QED BY <2>1, <2>2, <2>3 DEF CmdJob
  <1> QED BY <1>2, <1>3, <1>4

\* The state after start-up satisfies the invariant.
LEMMA InitDInv == Init => DInv
  <1> SUFFICES ASSUME Init PROVE DInv
    OBVIOUS
  <1>1. Waiting \in Jobs /\ Gone \in Jobs
    BY JobType DEF Waiting, Gone
  <1>3. TypeOK
    BY <1>1 DEF Init, TypeOK
  <1>4. "rx" \in Threads /\ "enable" \in Regs
    BY DEF Threads, Regs
  <1>5. JobShape
    BY <1>4 DEF Init, JobShape, Waiting, Gone, Job
  <1>6. reg["enable"] = 0
    BY <1>4 DEF Init
  <1> QED BY <1>3, <1>5, <1>6 DEF DInv, Obeyed

\* What one write does to the registers.
Put(w) == [reg EXCEPT ![w[1]] = IF w[1] \in Outs THEN reg[DutyOf(w[1])] ELSE w[2]]

\* The next write of M_RUN leaves the ones before it in place, and puts the duty
\* that M_RUN asks for on the wire.
LEMMA WrittenStep ==
  ASSUME TypeOK, NEW d, NEW n \in 1..Writes, Written(d, n),
         DriveScript(d)[n][1] \in Regs, reg' = Put(DriveScript(d)[n])
  PROVE  \A i \in 1..Writes : i < n + 1 => reg'[DriveScript(d)[i][1]] = DriveScript(d)[i][2]
  <1> DEFINE w == DriveScript(d)[n]
  <1>1. reg'[w[1]] = w[2]
    <2>1. CASE w[1] \notin Outs
      BY <2>1 DEF Put, TypeOK
    <2>2. CASE w[1] \in Outs
      <3>1. PICK k \in 1..Writes : /\ k < n
                                   /\ DriveScript(d)[k][1] = DutyOf(w[1])
                                   /\ DriveScript(d)[k][2] = w[2]
        BY <2>2, DutyFirst
      <3>2. reg[DutyOf(w[1])] = w[2]
        BY <3>1 DEF Written
      <3> QED BY <2>2, <3>2 DEF Put, TypeOK
    <2> QED BY <2>1, <2>2
  <1>2. ASSUME NEW i \in 1..Writes, i < n
        PROVE  reg'[DriveScript(d)[i][1]] = DriveScript(d)[i][2]
    <2>1. DriveScript(d)[i][1] # w[1]
      BY <1>2, DriveOnce
    <2>2. reg[DriveScript(d)[i][1]] = DriveScript(d)[i][2]
      BY <1>2 DEF Written
    <2>3. DriveScript(d)[i][1] \in Regs
      BY DEF DriveScript, Writes, Regs, Duties, Outs
    <2> QED BY <2>1, <2>2, <2>3 DEF Put, TypeOK
  <1>3. \A i \in 1..Writes : i < n + 1 => i < n \/ i = n
    BY DEF Writes
  <1> QED BY <1>1, <1>2, <1>3

\* A write keeps the types and the shape of the jobs.
LEMMA WriteShape ==
  ASSUME TypeOK, JobShape, NEW x \in Threads, Write(x)
  PROVE  TypeOK' /\ JobShape'
  <1> DEFINE w == Script(job[x])[job[x].next]
  <1>1. job[x] \in Jobs /\ job[x].next \in 1..Writes
    BY DEF TypeOK, Jobs
  <1>2. w[1] \in Regs /\ w[2] \in Int
    BY <1>1, ScriptType
  <1>3. \A o \in Outs : DutyOf(o) \in Regs
    BY DEF Outs, DutyOf, Regs, Duties
  <1>4. reg' \in [Regs -> Int]
    BY <1>2, <1>3 DEF Write, TypeOK
  <1>5. Waiting \in Jobs /\ Gone \in Jobs
    BY JobType DEF Waiting, Gone
  <1>6. job[x].next < Writes => [job[x] EXCEPT !.next = @ + 1] \in Jobs
    BY <1>1 DEF Jobs, Writes
  <1>7. job' \in [Threads -> Jobs]
    <2>1. After(job[x]) \in Jobs
      BY <1>5, <1>6 DEF After
    <2> QED BY <2>1 DEF Write, TypeOK
  <1>8. TypeOK'
    BY <1>4, <1>7 DEF TypeOK, Write
  <1>9. \A y \in Threads : y # x => job'[y] = job[y]
    BY DEF Write, TypeOK
  <1>10. \/ job'[x] = Waiting \/ job'[x] = Gone
         \/ job'[x].op = job[x].op /\ job'[x].arg = job[x].arg
    BY <1>1 DEF Write, After, TypeOK, Jobs
  <1>11. job'[x] = Gone => job[x].op = "end"
    BY <1>1 DEF Write, After, TypeOK, Jobs, Gone, Waiting, Job
  <1>12. job[x].op \in {"drive", "stop", "end"}
    BY DEF Write
  <1>13. JobShape'
    <2>1. "rx" \in Threads
      BY DEF Threads
    <2>2. told' = told
      BY DEF Write
    <2> QED BY <1>9, <1>10, <1>11, <1>12, <2>1, <2>2 DEF JobShape, Waiting, Gone, Job
  <1> QED BY <1>8, <1>13

\* The last write of car_stop switches the driver off.
LEMMA LastWrite ==
  ASSUME TypeOK, NEW x \in Threads, Write(x), job[x].op # "drive", job[x].next = Writes
  PROVE  reg'["enable"] = 0
  <1>1. Script(job[x])[job[x].next] = <<"enable", 0>>
    BY DEF Script, StopScript, Writes
  <1> QED BY <1>1 DEF Write, TypeOK, Outs, Regs

\* A write keeps rx and the registers in step.
LEMMA WriteObeyed ==
  ASSUME DInv, NEW x \in Threads, Write(x)
  PROVE  Obeyed'
  <1> USE DEF DInv
  <1> SUFFICES ASSUME reg'["enable"] = 1, NoMotorTask'
               PROVE  \/ job'["rx"].op = "stop"
                      \/ /\ told'.op = "drive"
                         /\ \A i \in 1..Writes :
                              i < (IF job'["rx"].op = "drive" THEN job'["rx"].next ELSE Writes + 1) =>
                                reg'[DriveScript(told'.arg)[i][1]] = DriveScript(told'.arg)[i][2]
    BY DEF Obeyed, Written
  <1>1. job[x] \in Jobs /\ job[x].next \in 1..Writes /\ job[x].op \in {"drive", "stop", "end"}
    BY DEF TypeOK, Jobs, Write
  <1>2. x = "rx"
    <2> SUFFICES ASSUME x \in Tasks PROVE FALSE
      BY DEF Threads
    <2>1. job'[x] = Gone
      BY DEF NoMotorTask
    <2>2. job[x].op = "end" /\ ~(job[x].next < Writes)
      BY <1>1, <2>1 DEF Write, After, TypeOK, Jobs, Gone, Waiting, Job
    <2>3. job[x].next = Writes
      BY <1>1, <2>2 DEF Writes
    <2> QED BY <2>2, <2>3, LastWrite
  <1>3. \A t \in Tasks : job'[t] = job[t]
    BY <1>2, DriverAssumption DEF Write, TypeOK, Threads
  <1>4. NoMotorTask
    BY <1>3 DEF NoMotorTask
  <1>5. CASE job["rx"].op = "stop"
    <2>1. job["rx"].next # Writes
      BY <1>2, <1>5, LastWrite
    <2>2. job["rx"].next < Writes
      BY <1>1, <1>2, <2>1 DEF Writes
    <2>3. job'["rx"].op = "stop"
      BY <1>1, <1>2, <1>5, <2>2 DEF Write, After, TypeOK, Jobs
    <2> QED BY <2>3
  <1>6. CASE job["rx"].op = "drive"
    <2> DEFINE d == told.arg
               n == job["rx"].next
    <2>1. told.op = "drive" /\ d = job["rx"].arg /\ told' = told /\ d \in AllDrives
      BY <1>6 DEF JobShape, Write, TypeOK, Jobs
    <2>2. n \in 1..Writes /\ Script(job["rx"])[n] = DriveScript(d)[n]
      BY <1>1, <1>2, <1>6, <2>1 DEF Script
    <2>3. DriveScript(d)[n][1] \in Regs
      BY <2>1, <2>2, DriveType
    <2>4. reg' = Put(DriveScript(d)[n])
      BY <1>2, <2>2 DEF Write, Put
    <2>5. Written(d, n)
      <3>1. CASE n = 1
        BY <3>1 DEF Written, Writes
      <3>2. CASE n # 1
        <4>1. DriveScript(d)[1][1] = "enable" /\ 1 \in 1..Writes
          BY DEF DriveScript, Writes
        <4>2. DriveScript(d)[n][1] # "enable"
          BY <2>2, <3>2, <4>1, DriveOnce
        <4>3. "enable" \in Regs
          BY DEF Regs
        <4>4. reg["enable"] = 1
          BY <2>3, <2>4, <4>2, <4>3 DEF Put, TypeOK
        <4> QED BY <1>4, <1>6, <4>4 DEF Obeyed
      <3> QED BY <3>1, <3>2
    <2>6. \A i \in 1..Writes : i < n + 1 => reg'[DriveScript(d)[i][1]] = DriveScript(d)[i][2]
      BY <2>2, <2>3, <2>4, <2>5, WrittenStep
    <2>7. \/ job'["rx"].op = "drive" /\ job'["rx"].next = n + 1
          \/ job'["rx"].op # "drive" /\ n = Writes
      <3>1. job'["rx"] = After(job["rx"])
        BY <1>2 DEF Write, TypeOK
      <3>2. CASE n < Writes
        BY <1>1, <1>2, <1>6, <3>1, <3>2 DEF After, Jobs
      <3>3. CASE ~(n < Writes)
        <4>1. n = Writes
          BY <2>2, <3>3 DEF Writes
        <4> QED BY <1>6, <3>1, <3>3, <4>1 DEF After, Waiting, Job
      <3> QED BY <3>2, <3>3
    <2> QED BY <2>1, <2>6, <2>7
  <1>7. job["rx"].op \in {"drive", "stop"}
    BY <1>1, <1>2 DEF JobShape
  <1> QED BY <1>5, <1>6, <1>7

\* Every step keeps the invariant.
LEMMA NextDInv == DInv /\ [Next]_vars => DInv'
  <1> SUFFICES ASSUME DInv, [Next]_vars PROVE DInv'
    OBVIOUS
  <1> USE DEF DInv
  <1>0. "rx" \in Threads /\ \A t \in Tasks : t \in Threads /\ t # "rx"
    BY DriverAssumption DEF Threads
  <1>1. ASSUME NEW d \in Drives, MRun(d) PROVE DInv'
    <2>1. Job("drive", d) \in Jobs
      BY JobType, DriverAssumption
    <2>2. TypeOK'
      BY <1>1, <2>1 DEF MRun, TypeOK
    <2>3. /\ job'["rx"] = Job("drive", d) /\ told' = Job("drive", d)
          /\ \A y \in Threads : y # "rx" => job'[y] = job[y]
      BY <1>0, <1>1 DEF MRun, TypeOK
    <2>4. JobShape'
      BY <1>0, <2>3 DEF JobShape, Job
    <2>5. Obeyed'
      <3>1. told'.op = "drive" /\ job'["rx"].op = "drive" /\ job'["rx"].next = 1
        BY <2>3 DEF Job
      <3>2. \A i \in 1..Writes : ~(i < 1)
        BY DEF Writes
      <3> QED BY <3>1, <3>2 DEF Obeyed, Written
    <2> QED BY <2>2, <2>4, <2>5
  <1>2. CASE MStop
    <2>1. Stop \in Jobs
      BY JobType DEF Stop
    <2>2. TypeOK'
      BY <1>2, <2>1 DEF MStop, TypeOK
    <2>3. /\ job'["rx"] = Stop
          /\ \A y \in Threads : y # "rx" => job'[y] = job[y]
      BY <1>0, <1>2 DEF MStop, TypeOK
    <2>4. JobShape'
      BY <1>0, <2>3 DEF JobShape, Job, Stop
    <2>5. Obeyed'
      BY <2>3 DEF Obeyed, Stop, Job
    <2> QED BY <2>2, <2>4, <2>5
  <1>3. ASSUME NEW t \in Tasks, NEW j \in Jobs, j = Waiting \/ j.op \in {"drive", "stop", "end"},
               job' = [job EXCEPT ![t] = j], UNCHANGED <<reg, told>>
        PROVE  DInv'
    <2>1. TypeOK'
      BY <1>0, <1>3 DEF TypeOK
    <2>2. job'[t] = j /\ \A y \in Threads : y # t => job'[y] = job[y]
      BY <1>0, <1>3 DEF TypeOK
    <2>3. j # Gone
      BY <1>3 DEF Waiting, Gone, Job
    <2>4. JobShape'
      BY <1>0, <1>3, <2>2 DEF JobShape, Waiting, Gone, Job
    <2>5. ~NoMotorTask'
      BY <2>2, <2>3 DEF NoMotorTask
    <2> QED BY <2>1, <2>4, <2>5 DEF Obeyed
  <1>4. ASSUME NEW t \in Tasks, StartTask(t) PROVE DInv'
    <2>1. Waiting \in Jobs
      BY JobType DEF Waiting
    <2> QED BY <1>3, <1>4, <2>1 DEF StartTask
  <1>5. ASSUME NEW t \in Tasks, EndTask(t) PROVE DInv'
    <2>1. End \in Jobs /\ End.op = "end"
      BY JobType DEF End, Job
    <2> QED BY <1>3, <1>5, <2>1 DEF EndTask
  <1>6. ASSUME NEW t \in Tasks, NEW cmd \in Cmds, NextCmd(t, cmd) PROVE DInv'
    <2>1. CmdJob(cmd) \in Jobs /\ CmdJob(cmd).op \in {"drive", "stop"}
      BY JobType
    <2> QED BY <1>3, <1>6, <2>1 DEF NextCmd
  <1>7. ASSUME NEW x \in Threads, Write(x) PROVE DInv'
    BY <1>7, WriteShape, WriteObeyed
  <1>8. CASE UNCHANGED vars
    BY <1>8 DEF vars, TypeOK, JobShape, Obeyed, NoMotorTask, Written
  <1> QED BY <1>1, <1>2, <1>4, <1>5, <1>6, <1>7, <1>8 DEF Next

\* Whatever M_RUN, M_STOP and the motor tasks write into the registers of the
\* DRV8833, and in whatever order, in the end the car moves only as the last
\* M_RUN said.
THEOREM CarObeys == Spec => []MovesAsTold
  <1>1. DInv => MovesAsTold
    <2> SUFFICES ASSUME DInv, job["rx"] = Waiting, NoMotorTask, reg["enable"] = 1
                 PROVE  /\ told.op = "drive"
                        /\ \A i \in 1..Writes :
                             reg[DriveScript(told.arg)[i][1]] = DriveScript(told.arg)[i][2]
      BY DEF MovesAsTold
    <2>1. job["rx"].op = "wait"
      BY DEF Waiting, Job
    <2>2. \A i \in 1..Writes : i < Writes + 1
      BY DEF Writes
    <2> QED BY <2>1, <2>2 DEF DInv, Obeyed, Written
  <1> QED BY <1>1, InitDInv, NextDInv, PTL DEF Spec

(***************************************************************************)
(* A speed out of range does not outlive its message.                       *)
(***************************************************************************)
\* The duty of a speed from 0 to 100 fits the 10 bit timer.
LEMMA DutyFits ==
  ASSUME NEW s \in Percent
  PROVE  Duty(s) \in Levels
  <1>1. Product(s) = s * 1024
    <2>1. s \in Int /\ 0 <= s /\ s <= 100
      BY SMT DEF Percent
    <2>2. (s + 2097152) % 4194304 = s + 2097152
      BY <2>1, SMT
    <2> QED BY <2>1, <2>2, SMT DEF Product
  <1>2. s * 1024 >= 0
    BY DEF Percent
  <1>3. Duty(s) = (s * 1024) \div 100
    BY <1>1, <1>2 DEF Duty
  <1> QED BY <1>3 DEF Levels, Percent

\* M_RUN or a command asks for nothing beyond the timer.
Modest(d) == \A i \in 1..Writes : DriveScript(d)[i][2] \in Levels

\* The commands of the motor strings do not.
LEMMA CmdsModest ==
  ASSUME NEW cmd, CmdJob(cmd).op = "drive"
  PROVE  Modest(CmdJob(cmd).arg)
  <1>1. ASSUME NEW d \in AllDrives, d.s1 \in Percent, d.s2 \in Percent
        PROVE  Modest(d)
    <2>1. Duty(d.s1) \in Levels /\ Duty(d.s2) \in Levels
      BY <1>1, DutyFits
    <2>2. 0 \in Levels /\ 1 \in Levels
      BY DEF Levels
    <2> QED BY <2>1, <2>2, DriveValues DEF Modest
  <1> DEFINE Mild(j) == j.arg \in AllDrives /\ j.arg.s1 \in Percent /\ j.arg.s2 \in Percent
  <1>2. \A s1 \in Percent, d1 \in {1, -1}, s2 \in Percent, d2 \in {1, -1} :
          Mild(Drive(s1, d1, s2, d2))
    <2>1. ASSUME NEW s1 \in Percent, NEW d1 \in {1, -1}, NEW s2 \in Percent, NEW d2 \in {1, -1}
          PROVE  [s1 |-> s1, d1 |-> d1, s2 |-> s2, d2 |-> d2] \in AllDrives
      BY DEF Percent, AllDrives
    <2> QED BY <2>1 DEF Drive, Job
  <1>3. Stop.op # "drive"
    BY DEF Stop, Job
  <1>4. Mild(CmdJob(cmd))
    <2>1. 50 \in Percent /\ 75 \in Percent /\ 100 \in Percent
      BY DEF Percent
    <2> HIDE DEF Mild
    <2> QED BY <1>2, <1>3, <2>1 DEF CmdJob
  <1> QED BY <1>1, <1>4

\* car_stop does not either.
LEMMA StopModest == \A i \in 1..Writes : StopScript[i][2] \in Levels
  BY DEF StopScript, Writes, Levels

\* A script writes every register, and a duty before it goes on the wire.
LEMMA ScriptCovers ==
  ASSUME NEW j
  PROVE  /\ \A r \in Regs : \E i \in 1..Writes : Script(j)[i][1] = r
         /\ \A i \in 1..Writes : Script(j)[i][1] \in Outs =>
              \E k \in 1..Writes : k < i /\ Script(j)[k][1] = DutyOf(Script(j)[i][1])
  <1>1. CASE j.op = "drive"
    <2>1. Script(j) = DriveScript(j.arg)
      BY <1>1 DEF Script
    <2>2. \A r \in Regs : \E i \in 1..11 : DriveScript(j.arg)[i][1] = r
      BY DEF DriveScript, Regs, Duties, Outs
    <2> QED BY <2>1, <2>2, DutyFirst DEF Writes
  <1>2. CASE j.op # "drive"
    <2>1. Script(j) = StopScript
      BY <1>2 DEF Script
    <2>2. \A r \in Regs : \E i \in 1..11 : StopScript[i][1] = r
      BY DEF StopScript, Regs, Duties, Outs
    <2>3. ASSUME NEW i \in 1..11, StopScript[i][1] \in Outs
          PROVE  i - 2 \in 1..11 /\ i - 2 < i /\ StopScript[i - 2][1] = DutyOf(StopScript[i][1])
      <3>1. i \in {3, 4, 8, 9}
        BY <2>3 DEF StopScript, Outs
      <3> QED BY <3>1 DEF StopScript, DutyOf
    <2> QED BY <2>1, <2>2, <2>3 DEF Writes
  <1> QED BY <1>1, <1>2

\* The duty that M_RUN writes to a register it also puts on the wire.
LEMMA OutToo ==
  ASSUME NEW d, NEW o \in Outs, NEW v, NEW m \in 1..Writes,
         DriveScript(d)[m] = <<DutyOf(o), v>>
  PROVE  \E i \in 1..Writes : DriveScript(d)[i] = <<o, v>>
  <1>1. m \in 1..11
    BY DEF Writes
  <1>2. DriveScript(d)[m][1] = DutyOf(o) /\ DriveScript(d)[m][2] = v
    OBVIOUS
  <1>3. DutyOf(o) \in Duties
    BY DEF DutyOf, Outs, Duties
  <1>4. m \in {2, 3, 7, 8}
    BY <1>1, <1>2, <1>3 DEF DriveScript, Duties
  <1>5. m + 2 \in 1..Writes
    BY <1>4 DEF Writes
  <1>6. DriveScript(d)[m + 2][1] = o /\ DriveScript(d)[m + 2][2] = DriveScript(d)[m][2]
    BY <1>2, <1>4 DEF DriveScript, DutyOf, Outs
  <1>7. DriveScript(d)[m + 2] = <<DriveScript(d)[m + 2][1], DriveScript(d)[m + 2][2]>>
    BY <1>4 DEF DriveScript
  <1> QED BY <1>2, <1>5, <1>6, <1>7

\* A register is in range, or has what the last message asked for in it.
Asked(r) ==
  \/ reg[r] \in Levels
  \/ told.op = "drive" /\ \E i \in 1..Writes : DriveScript(told.arg)[i] = <<r, reg[r]>>

\* rx has been at this register since it took up its message.
Due(r) ==
  \/ job["rx"].op = "wait"
  \/ \E i \in 1..Writes : i < job["rx"].next /\ Script(job["rx"])[i][1] = r

\* The motor tasks drive within the range, and what rx has been at is in order.
RInv ==
  /\ DInv
  /\ \A t \in Tasks : job[t].op = "drive" => Modest(job[t].arg)
  /\ \A r \in Regs : Due(r) => Asked(r)


\* Nothing is out of range after start-up.
LEMMA InitRInv == Init => RInv
  <1> SUFFICES ASSUME Init PROVE RInv
    OBVIOUS
  <1>1. DInv
    BY InitDInv
  <1>2. \A t \in Tasks : job[t] = Gone
    BY DriverAssumption DEF Init, Threads
  <1>3. \A r \in Regs : reg[r] \in Levels
    BY DEF Init, Levels
  <1> QED BY <1>1, <1>2, <1>3 DEF RInv, Asked, Gone, Job

\* What a thread writes, other than on the wire, is in range or asked for.
LEMMA WriteAsked ==
  ASSUME RInv, NEW x \in Threads, Write(x)
  PROVE  LET w == Script(job[x])[job[x].next]
         IN  \/ w[2] \in Levels
             \/ told.op = "drive" /\ \E i \in 1..Writes : DriveScript(told.arg)[i] = <<w[1], w[2]>>
  <1>1. job[x] \in Jobs /\ job[x].next \in 1..Writes
    BY DEF RInv, DInv, TypeOK, Jobs
  <1>2. CASE job[x].op # "drive"
    BY <1>1, <1>2, StopModest DEF Script
  <1>3. CASE job[x].op = "drive" /\ x \in Tasks
    BY <1>1, <1>3 DEF RInv, Modest, Script
  <1>4. CASE job[x].op = "drive" /\ x = "rx"
    <2>1. told.op = "drive" /\ told.arg = job[x].arg
      BY <1>4 DEF RInv, DInv, JobShape
    <2>2. Script(job[x])[job[x].next] = DriveScript(told.arg)[job[x].next]
      BY <1>4, <2>1 DEF Script
    <2>3. ASSUME NEW d, NEW i \in 1..11
          PROVE  DriveScript(d)[i] = <<DriveScript(d)[i][1], DriveScript(d)[i][2]>>
      BY DEF DriveScript
    <2> DEFINE n == job[x].next
               v == DriveScript(told.arg)[n]
    <2>4. n \in 1..11
      BY <1>1 DEF Writes
    <2>5. DriveScript(told.arg)[n] = <<v[1], v[2]>>
      BY <2>3, <2>4, Zenon
    <2>6. \E i \in 1..Writes : DriveScript(told.arg)[i] = <<v[1], v[2]>>
      BY <1>1, <2>5
    <2> QED BY <2>1, <2>2, <2>6
  <1> QED BY <1>2, <1>3, <1>4 DEF Threads

\* A register that rx has been at after a write it had been at before it, or it is
\* the one that rx has written.
LEMMA DueStep ==
  ASSUME RInv, NEW x \in Threads, Write(x), NEW r \in Regs, Due(r)'
  PROVE  Due(r) \/ (x = "rx" /\ Script(job[x])[job[x].next][1] = r)
  <1>1. job[x] \in Jobs /\ job[x].next \in 1..Writes
    BY DEF RInv, DInv, TypeOK, Jobs
  <1>2. CASE x # "rx"
    <2>1. job'["rx"] = job["rx"]
      BY <1>2 DEF Write, RInv, DInv, TypeOK, Threads
    <2> QED BY <2>1 DEF Due
  <1>3. CASE x = "rx"
    <2> DEFINE n == job["rx"].next
    <2>1. job'["rx"] = After(job["rx"]) /\ job["rx"].op \in {"drive", "stop"}
      BY <1>3 DEF Write, RInv, DInv, TypeOK, JobShape
    <2>2. \E i \in 1..Writes : i < n + 1 /\ Script(job["rx"])[i][1] = r
      <3>1. CASE n < Writes
        <4>1. job'["rx"] = [job["rx"] EXCEPT !.next = n + 1]
          BY <2>1, <3>1 DEF After
        <4>2. job'["rx"].next = n + 1 /\ job'["rx"].op = job["rx"].op /\ job'["rx"].arg = job["rx"].arg
          BY <1>1, <1>3, <4>1 DEF Jobs
        <4>3. Script(job'["rx"]) = Script(job["rx"])
          BY <4>2 DEF Script
        <4> QED BY <2>1, <4>2, <4>3 DEF Due
      <3>2. CASE ~(n < Writes)
        <4>1. \A i \in 1..Writes : i < n + 1
          BY <1>1, <1>3, <3>2 DEF Writes
        <4> QED BY <4>1, ScriptCovers
      <3> QED BY <3>1, <3>2
    <2>3. \A i \in 1..Writes : i < n + 1 => i < n \/ i = n
      BY <1>1, <1>3 DEF Writes
    <2> QED BY <1>3, <2>2, <2>3 DEF Due
  <1> QED BY <1>2, <1>3

\* Before a register goes on the wire rx has been at its duty.
LEMMA DutyDue ==
  ASSUME RInv, NEW o \in Outs,
         \/ Due(o)
         \/ job["rx"].next \in 1..Writes /\ Script(job["rx"])[job["rx"].next][1] = o
  PROVE  DutyOf(o) \in Regs /\ Due(DutyOf(o))
  <1>1. DutyOf(o) \in Regs
    BY DEF Outs, DutyOf, Regs, Duties
  <1>2. CASE job["rx"].op = "wait"
    BY <1>1, <1>2 DEF Due
  <1>3. CASE job["rx"].op # "wait"
    <2>1. "rx" \in Threads
      BY DEF Threads
    <2>2. job["rx"].next \in 1..Writes
      BY <2>1 DEF RInv, DInv, TypeOK, Jobs
    <2>3. PICK i \in 1..Writes : i <= job["rx"].next /\ Script(job["rx"])[i][1] = o
      <3>1. \A i \in 1..Writes : i < job["rx"].next => i <= job["rx"].next
        BY <2>2 DEF Writes
      <3>2. job["rx"].next <= job["rx"].next
        BY <2>2 DEF Writes
      <3> QED BY <1>3, <2>2, <3>1, <3>2 DEF Due
    <2>4. PICK k \in 1..Writes : k < i /\ Script(job["rx"])[k][1] = DutyOf(o)
      BY <2>3, ScriptCovers
    <2>5. k < job["rx"].next
      BY <2>2, <2>3, <2>4 DEF Writes
    <2> QED BY <1>1, <2>4, <2>5 DEF Due
  <1> QED BY <1>2, <1>3

\* A write keeps what rx has been at in order.
LEMMA WriteClean ==
  ASSUME RInv, NEW x \in Threads, Write(x), NEW r \in Regs, Due(r)'
  PROVE  Asked(r)'
  <1> DEFINE w == Script(job[x])[job[x].next]
  <1>1. job[x] \in Jobs /\ job[x].next \in 1..Writes /\ told' = told
    BY DEF RInv, DInv, TypeOK, Jobs, Write
  <1>2. w[1] \in Regs /\ reg' = Put(w) /\ reg \in [Regs -> Int]
    BY <1>1, ScriptType DEF Write, Put, RInv, DInv, TypeOK
  <1>3. Due(r) \/ (x = "rx" /\ w[1] = r)
    BY DueStep
  <1>4. CASE r # w[1]
    <2>1. reg'[r] = reg[r]
      BY <1>2, <1>4 DEF Put
    <2>2. Asked(r)
      BY <1>3, <1>4 DEF RInv
    <2> QED BY <1>1, <2>1, <2>2 DEF Asked
  <1>5. CASE r = w[1] /\ r \notin Outs
    <2>1. reg'[r] = w[2]
      BY <1>2, <1>5 DEF Put
    <2>2. \/ w[2] \in Levels
          \/ told.op = "drive" /\ \E i \in 1..Writes : DriveScript(told.arg)[i] = <<w[1], w[2]>>
      BY WriteAsked
    <2> QED BY <1>1, <1>5, <2>1, <2>2 DEF Asked
  <1>6. CASE r = w[1] /\ r \in Outs
    <2>1. DutyOf(r) \in Regs /\ Due(DutyOf(r))
      BY <1>1, <1>3, <1>6, DutyDue
    <2>2. Asked(DutyOf(r))
      BY <2>1 DEF RInv
    <2>3. reg'[r] = reg[DutyOf(r)]
      BY <1>2, <1>6 DEF Put
    <2>4. CASE reg[DutyOf(r)] \in Levels
      BY <2>3, <2>4 DEF Asked
    <2>5. CASE reg[DutyOf(r)] \notin Levels
      <3>1. PICK m \in 1..Writes : DriveScript(told.arg)[m] = <<DutyOf(r), reg[DutyOf(r)]>>
        BY <2>2, <2>5 DEF Asked
      <3>2. \E i \in 1..Writes : DriveScript(told.arg)[i] = <<r, reg[DutyOf(r)]>>
        BY <1>6, <3>1, OutToo
      <3>3. told.op = "drive"
        BY <2>2, <2>5 DEF Asked
      <3> QED BY <1>1, <2>3, <3>2, <3>3 DEF Asked
    <2> QED BY <2>4, <2>5
  <1> QED BY <1>4, <1>5, <1>6

\* Every step keeps the registers in order.
LEMMA NextRInv == RInv /\ [Next]_vars => RInv'
  <1> SUFFICES ASSUME RInv, [Next]_vars PROVE RInv'
    OBVIOUS
  <1>0. DInv'
    BY NextDInv DEF RInv
  <1>a. /\ "rx" \in Threads /\ \A t \in Tasks : t \in Threads /\ t # "rx"
        /\ job \in [Threads -> Jobs]
    BY DriverAssumption DEF Threads, RInv, DInv, TypeOK
  <1>b. \A i \in 1..Writes : ~(i < 1)
    BY DEF Writes
  <1>1. ASSUME NEW j, j = Stop \/ \E d \in Drives : j = Job("drive", d),
               job' = [job EXCEPT !["rx"] = j]
        PROVE  RInv'
    <2>1. job'["rx"] = j /\ j.next = 1 /\ j.op # "wait"
      BY <1>a, <1>1 DEF Stop, Job
    <2>2. \A r \in Regs : ~Due(r)'
      BY <1>b, <2>1 DEF Due
    <2>3. \A t \in Tasks : job'[t] = job[t]
      BY <1>a, <1>1
    <2> QED BY <1>0, <2>2, <2>3 DEF RInv
  <1>2. ASSUME NEW t \in Tasks, NEW j, j.op = "drive" => Modest(j.arg),
               job' = [job EXCEPT ![t] = j], UNCHANGED <<reg, told>>
        PROVE  RInv'
    <2>1. job'["rx"] = job["rx"] /\ job'[t] = j /\ \A u \in Tasks : u # t => job'[u] = job[u]
      BY <1>a, <1>2
    <2>2. \A r \in Regs : Due(r)' => Asked(r)'
      BY <1>2, <2>1 DEF RInv, Due, Asked
    <2> QED BY <1>0, <1>2, <2>1, <2>2 DEF RInv
  <1>3. ASSUME NEW x \in Threads, Write(x) PROVE RInv'
    <2>1. \A r \in Regs : Due(r)' => Asked(r)'
      BY <1>3, WriteClean
    <2>2. ASSUME NEW t \in Tasks, job'[t].op = "drive" PROVE Modest(job'[t].arg)
      <3>1. CASE t # x
        BY <1>3, <1>a, <2>2, <3>1 DEF Write, RInv
      <3>2. CASE t = x
        <4>1. job'[t] = After(job[t]) /\ job[t] \in Jobs
          BY <1>3, <1>a, <3>2 DEF Write
        <4>2. job[t].op = "drive" /\ job'[t].arg = job[t].arg
          BY <2>2, <4>1 DEF After, Waiting, Gone, Job, Jobs
        <4> QED BY <4>2 DEF RInv
      <3> QED BY <3>1, <3>2
    <2> QED BY <1>0, <2>1, <2>2 DEF RInv
  <1>4. ASSUME NEW t \in Tasks, StartTask(t) \/ EndTask(t) PROVE RInv'
    <2>1. Waiting.op # "drive" /\ End.op # "drive"
      BY DEF Waiting, End, Job
    <2> QED BY <1>2, <1>4, <2>1 DEF StartTask, EndTask
  <1>5. ASSUME NEW t \in Tasks, NEW cmd \in Cmds, NextCmd(t, cmd) PROVE RInv'
    BY <1>2, <1>5, CmdsModest DEF NextCmd
  <1>6. CASE UNCHANGED vars
    BY <1>0, <1>6 DEF vars, RInv, Due, Asked
  <1>7. ASSUME NEW d \in Drives, MRun(d) PROVE RInv'
    BY <1>1, <1>7 DEF MRun
  <1>8. CASE MStop
    BY <1>1, <1>8 DEF MStop
  <1> QED BY <1>3, <1>4, <1>5, <1>6, <1>7, <1>8 DEF Next

\* Whatever number M_RUN brings as a speed, a duty that is out of the range of the
\* timer is gone with the next message, however the motor tasks write in between.
THEOREM WildSpeedsPass == Spec => []DutiesRecover
  <1>1. RInv => DutiesRecover
    BY DEF RInv, DutiesRecover, Due, Asked, Waiting, Job
  <1> QED BY <1>1, InitRInv, NextRInv, PTL DEF Spec
=============================================================================
