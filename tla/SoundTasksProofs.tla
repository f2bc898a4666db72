--------------------------- MODULE SoundTasksProofs ---------------------------
(***************************************************************************)
(* Proofs about SoundTasks, for any number of task slots and any lengths of *)
(* the strings, the files and the notes.                                    *)
(***************************************************************************)
EXTENDS SoundTasks, TaskHandleProofs

\* g_i2s_mutex is held by exactly the task that is between its take and its
\* give.
MutexHeld == \A t \in TaskIds : Holding(t) <=> i2s_mutex = t

\* tx_chan is enabled exactly while a task is between its enable and its
\* disable.
EnabledByOne ==
  /\ \A t \in TaskIds : On(t) => enabled
  /\ enabled => \E t \in TaskIds : On(t)

\* Only the receive thread calls sound_play_mp3_run.
Mp3OnlyFromRx == \A c \in Callers : call[c].kind = "mp3" => c = "rx"

\* A task finds the argument of its handle set, and so does the thread that
\* is about to create one.
ArgsSet ==
  /\ \A t \in TaskIds : tkind[t] # Null => args[tkind[t]] \in Strs
  /\ \A c \in Callers : call[c].pc = "create" => args[call[c].kind] \in Strs

\* An mp3 task that could not be created never clears the flag.
FlagInv == "mp3" \notin FailKinds => Mp3FlagHonest

\* The inductive invariant.
IInv ==
  /\ TypeOK
  /\ ArgsSet
  /\ MutexHeld
  /\ EnabledByOne
  /\ NoAbort
  /\ Mp3OnlyFromRx
  /\ FlagInv

\* The state in which sound_init leaves the players satisfies the invariant.
LEMMA InitInv == Init => IInv
  <1> SUFFICES ASSUME Init PROVE IInv
    OBVIOUS
  <1> USE HandleAssumption, SoundAssumption DEF Init, HandleInit
  <1>1. HandleTypeOK
    BY DEF HandleTypeOK, Calls
  <1>2. TypeOK
    <2>1. 0 \in 0..MaxLen
      OBVIOUS
    <2>2. DataType
      BY <2>1 DEF DataType
    <2> QED BY <1>1, <2>2 DEF TypeOK, PcType
  <1>3. ArgsSet
    BY DEF ArgsSet, Idle
  <1>4. MutexHeld /\ EnabledByOne
    BY DEF MutexHeld, EnabledByOne, Holding, On, Is
  <1>5. NoAbort /\ Mp3OnlyFromRx /\ FlagInv
    BY DEF NoAbort, Mp3OnlyFromRx, FlagInv, Mp3FlagHonest, Idle
  <1> QED BY <1>2, <1>3, <1>4, <1>5 DEF IInv

\* A step of a task other than its end: no thread is woken.
BodyStep(t) == Notes(t) \/ Mp3(t) \/ Enable(t) \/ Write(t) \/ Give(t)

\* The steps of a task body keep the amounts of data within their bounds.
LEMMA BodyData ==
  ASSUME TypeOK, ArgsSet, NEW t \in TaskIds, BodyStep(t)
  PROVE  DataType'
  <1> USE HandleAssumption, SoundAssumption DEF TypeOK, DataType, ArgsSet, Is, soundVars
  <1>1. CASE NotesTake(t)
    BY <1>1 DEF NotesTake, Delete
  <1>2. CASE NotesNext(t)
    <2>1. left[t] \in 0..MaxLen
      OBVIOUS
    <2>2. left[t] # 0 => left[t] - 1 \in 0..MaxLen
      BY <2>1
    <2>3. left' \in [TaskIds -> 0..MaxLen]
      BY <1>2, <2>2 DEF NotesNext
    <2>4. buf' = buf \/ \E n \in 0..MaxBuf : buf' = [buf EXCEPT ![t] = n]
      BY <1>2 DEF NotesNext
    <2>5. buf' \in [TaskIds -> Nat]
      <3>1. \A n \in 0..MaxBuf : n \in Nat
        OBVIOUS
      <3> QED BY <2>4, <3>1
    <2> QED BY <2>3, <2>5
  <1>3. CASE NotesRest(t)
    BY <1>3 DEF NotesRest
  <1>4. CASE NotesFill(t)
    <2>1. buf[t] \in Nat /\ (buf[t] # 0 => buf[t] - 1 \in Nat)
      OBVIOUS
    <2>2. left' = left /\ (buf' = buf \/ (buf[t] # 0 /\ buf' = [buf EXCEPT ![t] = @ - 1]))
      BY <1>4 DEF NotesFill
    <2> QED BY <2>1, <2>2
  <1>5. CASE NotesFilled(t)
    BY <1>5 DEF NotesFilled
  <1>6. CASE NotesDisable(t)
    BY <1>6 DEF NotesDisable, DisableTo
  <1>7. CASE NotesClear(t)
    BY <1>7 DEF NotesClear, ClearTo
  <1>8. CASE Mp3Take(t)
    BY <1>8 DEF Mp3Take
  <1>9. CASE Mp3Fail(t)
    BY <1>9 DEF Mp3Fail, ClearTo
  <1>10. CASE Mp3Pipeline(t)
    BY <1>10 DEF Mp3Pipeline
  <1>11. CASE Mp3Check(t)
    BY <1>11 DEF Mp3Check
  <1>12. CASE Mp3Read(t)
    BY <1>12 DEF Mp3Read
  <1>13. CASE Mp3Clear(t)
    BY <1>13 DEF Mp3Clear, ClearTo
  <1>14. CASE Mp3Disable(t)
    BY <1>14 DEF Mp3Disable, DisableTo
  <1>15. CASE Enable(t)
    BY <1>15 DEF Enable
  <1>16. CASE Write(t)
    BY <1>16 DEF Write
  <1>17. CASE Give(t)
    BY <1>17 DEF Give
  <1>18. CASE NotesArgs(t)
    BY <1>18 DEF NotesArgs
  <1> QED BY <1>1, <1>2, <1>3, <1>4, <1>5, <1>6, <1>7, <1>8, <1>9, <1>10,
             <1>11, <1>12, <1>13, <1>14, <1>15, <1>16, <1>17, <1>18 DEF BodyStep, Notes, Mp3

\* The steps of a task body keep to the program counters of that body.
LEMMA BodyPc ==
  ASSUME TypeOK, NEW t \in TaskIds, BodyStep(t)
  PROVE  PcType' /\ tkind' \in [TaskIds -> Kinds \cup {Null}]
  <1> USE HandleAssumption, SoundAssumption
          DEF TypeOK, HandleTypeOK, PcType, NotesPcs, Mp3Pcs, Is, Step, soundVars
  <1>1. CASE NotesTake(t)
    <2>1. CASE i2s_mutex = Null
      BY <1>1, <2>1 DEF NotesTake, Delete
    <2>2. CASE ~(i2s_mutex = Null)
      BY <1>1, <2>2 DEF NotesTake, Delete
    <2> QED BY <2>1, <2>2
  <1>2. CASE NotesNext(t)
    BY <1>2 DEF NotesNext
  <1>3. CASE NotesRest(t)
    BY <1>3 DEF NotesRest
  <1>4. CASE NotesFill(t)
    BY <1>4 DEF NotesFill
  <1>5. CASE NotesFilled(t)
    BY <1>5 DEF NotesFilled
  <1>6. CASE NotesDisable(t)
    BY <1>6 DEF NotesDisable, DisableTo
  <1>7. CASE NotesClear(t)
    BY <1>7 DEF NotesClear, ClearTo
  <1>8. CASE Mp3Take(t)
    <2>1. CASE i2s_mutex = Null
      BY <1>8, <2>1 DEF Mp3Take
    <2>2. CASE ~(i2s_mutex = Null)
      BY <1>8, <2>2 DEF Mp3Take
    <2> QED BY <2>1, <2>2
  <1>9. CASE Mp3Fail(t)
    BY <1>9 DEF Mp3Fail, ClearTo
  <1>10. CASE Mp3Pipeline(t)
    BY <1>10 DEF Mp3Pipeline
  <1>11. CASE Mp3Check(t)
    BY <1>11 DEF Mp3Check
  <1>12. CASE Mp3Read(t)
    BY <1>12 DEF Mp3Read
  <1>13. CASE Mp3Clear(t)
    BY <1>13 DEF Mp3Clear, ClearTo
  <1>14. CASE Mp3Disable(t)
    BY <1>14 DEF Mp3Disable, DisableTo
  <1>15. CASE Enable(t)
    BY <1>15 DEF Enable
  <1>16. CASE Write(t)
    BY <1>16 DEF Write
  <1>17. CASE Give(t)
    BY <1>17 DEF Give
  <1>18. CASE NotesArgs(t)
    BY <1>18 DEF NotesArgs
  <1> QED BY <1>1, <1>2, <1>3, <1>4, <1>5, <1>6, <1>7, <1>8, <1>9, <1>10,
             <1>11, <1>12, <1>13, <1>14, <1>15, <1>16, <1>17, <1>18 DEF BodyStep, Notes, Mp3

\* The steps of a task body keep the players well typed.
LEMMA BodyType ==
  ASSUME TypeOK, ArgsSet, NEW t \in TaskIds, BodyStep(t)
  PROVE  TypeOK'
  <1> USE BodyData, BodyPc, HandleAssumption, SoundAssumption
          DEF TypeOK, HandleTypeOK, soundVars
  <1>1. CASE NotesTake(t)
    BY <1>1 DEF NotesTake, Delete
  <1>2. CASE NotesNext(t)
    BY <1>2 DEF NotesNext
  <1>3. CASE NotesRest(t)
    BY <1>3 DEF NotesRest
  <1>4. CASE NotesFill(t)
    BY <1>4 DEF NotesFill
  <1>5. CASE NotesFilled(t)
    BY <1>5 DEF NotesFilled
  <1>6. CASE NotesDisable(t)
    BY <1>6 DEF NotesDisable, DisableTo
  <1>7. CASE NotesClear(t)
    BY <1>7 DEF NotesClear, ClearTo
  <1>8. CASE Mp3Take(t)
    BY <1>8 DEF Mp3Take
  <1>9. CASE Mp3Fail(t)
    BY <1>9 DEF Mp3Fail, ClearTo
  <1>10. CASE Mp3Pipeline(t)
    BY <1>10 DEF Mp3Pipeline
  <1>11. CASE Mp3Check(t)
    BY <1>11 DEF Mp3Check
  <1>12. CASE Mp3Read(t)
    BY <1>12 DEF Mp3Read
  <1>13. CASE Mp3Clear(t)
    BY <1>13 DEF Mp3Clear, ClearTo
  <1>14. CASE Mp3Disable(t)
    BY <1>14 DEF Mp3Disable, DisableTo
  <1>15. CASE Enable(t)
    BY <1>15 DEF Enable
  <1>16. CASE Write(t)
    BY <1>16 DEF Write
  <1>17. CASE Give(t)
    BY <1>17 DEF Give
  <1>18. CASE NotesArgs(t)
    BY <1>18 DEF NotesArgs
  <1> QED BY <1>1, <1>2, <1>3, <1>4, <1>5, <1>6, <1>7, <1>8, <1>9, <1>10,
             <1>11, <1>12, <1>13, <1>14, <1>15, <1>16, <1>17, <1>18 DEF BodyStep, Notes, Mp3

\* A step of a task body moves that task only, and no calling thread.
LEMMA BodyFrame ==
  ASSUME TypeOK, NEW t \in TaskIds, BodyStep(t)
  PROVE  /\ \A u \in TaskIds \ {t} : tpc'[u] = tpc[u] /\ tkind'[u] = tkind[u]
         /\ UNCHANGED call
  <1> USE DEF TypeOK, HandleTypeOK, PcType, Step, soundVars
  <1>1. CASE NotesTake(t)
    BY <1>1 DEF NotesTake, Delete
  <1>2. CASE NotesNext(t)
    BY <1>2 DEF NotesNext
  <1>3. CASE NotesRest(t)
    BY <1>3 DEF NotesRest
  <1>4. CASE NotesFill(t)
    BY <1>4 DEF NotesFill
  <1>5. CASE NotesFilled(t)
    BY <1>5 DEF NotesFilled
  <1>6. CASE NotesDisable(t)
    BY <1>6 DEF NotesDisable, DisableTo
  <1>7. CASE NotesClear(t)
    BY <1>7 DEF NotesClear, ClearTo
  <1>8. CASE Mp3Take(t)
    BY <1>8 DEF Mp3Take
  <1>9. CASE Mp3Fail(t)
    BY <1>9 DEF Mp3Fail, ClearTo
  <1>10. CASE Mp3Pipeline(t)
    BY <1>10 DEF Mp3Pipeline
  <1>11. CASE Mp3Check(t)
    BY <1>11 DEF Mp3Check
  <1>12. CASE Mp3Read(t)
    BY <1>12 DEF Mp3Read
  <1>13. CASE Mp3Clear(t)
    BY <1>13 DEF Mp3Clear, ClearTo
  <1>14. CASE Mp3Disable(t)
    BY <1>14 DEF Mp3Disable, DisableTo
  <1>15. CASE Enable(t)
    BY <1>15 DEF Enable
  <1>16. CASE Write(t)
    BY <1>16 DEF Write
  <1>17. CASE Give(t)
    BY <1>17 DEF Give
  <1>18. CASE NotesArgs(t)
    BY <1>18 DEF NotesArgs
  <1> QED BY <1>1, <1>2, <1>3, <1>4, <1>5, <1>6, <1>7, <1>8, <1>9, <1>10,
             <1>11, <1>12, <1>13, <1>14, <1>15, <1>16, <1>17, <1>18 DEF BodyStep, Notes, Mp3

\* How a step of a task body moves the mutex and the channel.
LEMMA BodyI2s ==
  ASSUME IInv, NEW t \in TaskIds, BodyStep(t)
  PROVE  /\ i2s_mutex' \in {i2s_mutex, t, Null}
         /\ i2s_mutex' = t => i2s_mutex \in {t, Null}
         /\ i2s_mutex' = Null => i2s_mutex \in {t, Null}
         /\ Holding(t)' <=> i2s_mutex' = t
         /\ On(t)' <=> enabled' /\ i2s_mutex' = t
         /\ i2s_mutex' # t => (enabled' <=> enabled /\ i2s_mutex # t)
         /\ ~aborted'
  <1> USE HandleAssumption, SoundAssumption
          DEF IInv, TypeOK, HandleTypeOK, PcType, NotesPcs, Mp3Pcs, Is, Step, soundVars,
              MutexHeld, EnabledByOne, NoAbort, Holding, On
  <1>1. CASE NotesTake(t)
    <2>1. CASE i2s_mutex = Null
      BY <1>1, <2>1 DEF NotesTake, Delete
    <2>2. CASE ~(i2s_mutex = Null)
      BY <1>1, <2>2 DEF NotesTake, Delete
    <2> QED BY <2>1, <2>2
  <1>2. CASE NotesNext(t)
    BY <1>2 DEF NotesNext
  <1>3. CASE NotesRest(t)
    BY <1>3 DEF NotesRest
  <1>4. CASE NotesFill(t)
    BY <1>4 DEF NotesFill
  <1>5. CASE NotesFilled(t)
    BY <1>5 DEF NotesFilled
  <1>6. CASE NotesDisable(t)
    BY <1>6 DEF NotesDisable, DisableTo
  <1>7. CASE NotesClear(t)
    BY <1>7 DEF NotesClear, ClearTo
  <1>8. CASE Mp3Take(t)
    <2>1. CASE i2s_mutex = Null
      BY <1>8, <2>1 DEF Mp3Take
    <2>2. CASE ~(i2s_mutex = Null)
      BY <1>8, <2>2 DEF Mp3Take
    <2> QED BY <2>1, <2>2
  <1>9. CASE Mp3Fail(t)
    BY <1>9 DEF Mp3Fail, ClearTo
  <1>10. CASE Mp3Pipeline(t)
    BY <1>10 DEF Mp3Pipeline
  <1>11. CASE Mp3Check(t)
    BY <1>11 DEF Mp3Check
  <1>12. CASE Mp3Read(t)
    BY <1>12 DEF Mp3Read
  <1>13. CASE Mp3Clear(t)
    BY <1>13 DEF Mp3Clear, ClearTo
  <1>14. CASE Mp3Disable(t)
    BY <1>14 DEF Mp3Disable, DisableTo
  <1>15. CASE Enable(t)
    BY <1>15 DEF Enable
  <1>16. CASE Write(t)
    BY <1>16 DEF Write
  <1>17. CASE Give(t)
    BY <1>17 DEF Give
  <1>18. CASE NotesArgs(t)
    BY <1>18 DEF NotesArgs
  <1> QED BY <1>1, <1>2, <1>3, <1>4, <1>5, <1>6, <1>7, <1>8, <1>9, <1>10,
             <1>11, <1>12, <1>13, <1>14, <1>15, <1>16, <1>17, <1>18 DEF BodyStep, Notes, Mp3

\* A step of a task body never sets a flag, and an mp3 task stays before its
\* "task_run = false" unless it clears the flag in this step.
LEMMA BodyFlag ==
  ASSUME TypeOK, NEW t \in TaskIds, BodyStep(t)
  PROVE  /\ task_run'["mp3"] => task_run["mp3"] /\ (BeforeClear(t) => BeforeClear(t)')
         /\ args' = args
         /\ tkind'[t] \in {tkind[t], Null}
  <1> USE HandleAssumption, SoundAssumption
          DEF TypeOK, HandleTypeOK, PcType, Is, Step, soundVars, BeforeClear
  <1>1. CASE NotesTake(t)
    <2>1. CASE i2s_mutex = Null
      BY <1>1, <2>1 DEF NotesTake, Delete
    <2>2. CASE ~(i2s_mutex = Null)
      BY <1>1, <2>2 DEF NotesTake, Delete
    <2> QED BY <2>1, <2>2
  <1>2. CASE NotesNext(t)
    BY <1>2 DEF NotesNext
  <1>3. CASE NotesRest(t)
    BY <1>3 DEF NotesRest
  <1>4. CASE NotesFill(t)
    BY <1>4 DEF NotesFill
  <1>5. CASE NotesFilled(t)
    BY <1>5 DEF NotesFilled
  <1>6. CASE NotesDisable(t)
    BY <1>6 DEF NotesDisable, DisableTo
  <1>7. CASE NotesClear(t)
    BY <1>7 DEF NotesClear, ClearTo
  <1>8. CASE Mp3Take(t)
    <2>1. CASE i2s_mutex = Null
      BY <1>8, <2>1 DEF Mp3Take
    <2>2. CASE ~(i2s_mutex = Null)
      BY <1>8, <2>2 DEF Mp3Take
    <2> QED BY <2>1, <2>2
  <1>9. CASE Mp3Fail(t)
    BY <1>9 DEF Mp3Fail, ClearTo
  <1>10. CASE Mp3Pipeline(t)
    BY <1>10 DEF Mp3Pipeline
  <1>11. CASE Mp3Check(t)
    BY <1>11 DEF Mp3Check
  <1>12. CASE Mp3Read(t)
    BY <1>12 DEF Mp3Read
  <1>13. CASE Mp3Clear(t)
    BY <1>13 DEF Mp3Clear, ClearTo
  <1>14. CASE Mp3Disable(t)
    BY <1>14 DEF Mp3Disable, DisableTo
  <1>15. CASE Enable(t)
    BY <1>15 DEF Enable
  <1>16. CASE Write(t)
    BY <1>16 DEF Write
  <1>17. CASE Give(t)
    BY <1>17 DEF Give
  <1>18. CASE NotesArgs(t)
    BY <1>18 DEF NotesArgs
  <1> QED BY <1>1, <1>2, <1>3, <1>4, <1>5, <1>6, <1>7, <1>8, <1>9, <1>10,
             <1>11, <1>12, <1>13, <1>14, <1>15, <1>16, <1>17, <1>18 DEF BodyStep, Notes, Mp3

\* The steps of a task body preserve the invariant.
LEMMA BodyInv ==
  ASSUME IInv, NEW t \in TaskIds, BodyStep(t)
  PROVE  IInv'
  <1>1. TypeOK'
    BY BodyType DEF IInv
  <1>2. /\ \A u \in TaskIds \ {t} : tpc'[u] = tpc[u] /\ tkind'[u] = tkind[u]
        /\ call' = call
    BY BodyFrame DEF IInv
  <1>3. \A u \in TaskIds \ {t} : /\ Holding(u)' <=> Holding(u)
                                 /\ On(u)' <=> On(u)
                                 /\ BeforeClear(u)' <=> BeforeClear(u)
    BY <1>2 DEF Holding, On, BeforeClear, Is
  <1>4. MutexHeld'
    BY <1>3, BodyI2s, HandleAssumption DEF IInv, MutexHeld
  <1>5. EnabledByOne'
    <2>1. \A u \in TaskIds : On(u) => i2s_mutex = u
      BY DEF IInv, MutexHeld, Holding
    <2>2. ASSUME NEW u \in TaskIds, On(u)' PROVE enabled'
      BY <1>3, <1>4, <2>1, <2>2, BodyI2s DEF IInv, MutexHeld, EnabledByOne, Holding
    <2>3. ASSUME enabled' PROVE \E u \in TaskIds : On(u)'
      BY <1>3, <2>1, <2>3, BodyI2s DEF IInv, EnabledByOne
    <2> QED BY <2>2, <2>3 DEF EnabledByOne
  <1>6. NoAbort'
    BY BodyI2s DEF NoAbort
  <1>7. ArgsSet' /\ Mp3OnlyFromRx'
    BY <1>2, BodyFlag DEF IInv, ArgsSet, Mp3OnlyFromRx
  <1>8. FlagInv'
    BY <1>2, <1>3, BodyFlag DEF IInv, FlagInv, Mp3FlagHonest
  <1> QED BY <1>1, <1>4, <1>5, <1>6, <1>7, <1>8 DEF IInv

\* The end of a task, which wakes the threads that wait for it, preserves the
\* invariant.
LEMMA EndInv ==
  ASSUME IInv, NEW t \in TaskIds, End(t)
  PROVE  IInv'
  <1> USE HandleAssumption, SoundAssumption
  <1>1. HandleTypeOK'
    BY SignalType DEF IInv, TypeOK, End
  <1>2. /\ tpc' = [tpc EXCEPT ![t] = "none"]
        /\ tkind' = [tkind EXCEPT ![t] = Null]
        /\ tpc[t] = "signal"
        /\ UNCHANGED <<task_run, args, i2s_mutex, enabled, aborted>>
    BY DEF End, Signal, Delete
  <1>3. PcType' /\ DataType'
    <2>1. 0 \in 0..MaxLen
      OBVIOUS
    <2> QED BY <1>2, <2>1 DEF IInv, TypeOK, HandleTypeOK, PcType, DataType, End
  <1>4. TypeOK'
    BY <1>1, <1>2, <1>3 DEF IInv, TypeOK
  <1>5. \A u \in TaskIds : /\ Holding(u)' <=> Holding(u)
                           /\ On(u)' <=> On(u)
                           /\ BeforeClear(u)' <=> BeforeClear(u)
    BY <1>2 DEF IInv, TypeOK, HandleTypeOK, PcType, Holding, On, BeforeClear, Is
  <1>6. MutexHeld' /\ EnabledByOne' /\ NoAbort'
    BY <1>2, <1>5 DEF IInv, MutexHeld, EnabledByOne, NoAbort
  <1>7. \A c \in Callers : \/ call'[c] = call[c]
                           \/ call[c].pc = "blocked" /\ call'[c] = Returned(call[c])
    BY DEF End, Signal, SetBits, Waiting, At
  <1>8. \A c \in Callers : \/ call'[c] = call[c]
                           \/ /\ call[c].pc = "blocked"
                              /\ call'[c].pc \in {"set", "idle"}
                              /\ call'[c].kind \in {call[c].kind, Null}
    <2>1. \A r \in Calls : Returned(r).pc \in {"set", "idle"} /\ Returned(r).kind \in {r.kind, Null}
      BY DEF Returned, Calls, Idle
    <2>2. \A c \in Callers : call[c] \in Calls
      BY DEF IInv, TypeOK, HandleTypeOK
    <2> QED BY <1>7, <2>1, <2>2
  <1>9. ArgsSet' /\ Mp3OnlyFromRx'
    BY <1>2, <1>8 DEF IInv, TypeOK, HandleTypeOK, ArgsSet, Mp3OnlyFromRx
  <1>10. FlagInv'
    BY <1>2, <1>5, <1>8 DEF IInv, FlagInv, Mp3FlagHonest
  <1> QED BY <1>4, <1>6, <1>9, <1>10 DEF IInv

\* A step of a thread inside xxx_run or xxx_stop preserves the invariant.
LEMMA CallerInv ==
  ASSUME IInv, NEW c \in Callers, Caller(c)
  PROVE  IInv'
  <1> USE HandleAssumption, SoundAssumption
  <1>1. CallStep(c) /\ UNCHANGED soundVars /\ HandleTypeOK
    BY DEF Caller, IInv, TypeOK
  <1>2. HandleTypeOK'
    BY <1>1, CallStepType
  <1>3. call[c] \in Calls
    BY <1>1 DEF HandleTypeOK
  <1>4. CASE /\ UNCHANGED <<tpc, tkind>>
             /\ call[c].pc = "create" => call[c].kind \in FailKinds
    <2>1. UNCHANGED <<tpc, tkind>>
      BY <1>4
    <2>2. TypeOK' /\ MutexHeld' /\ EnabledByOne' /\ NoAbort'
      BY <1>1, <1>2, <2>1 DEF IInv, TypeOK, PcType, DataType, soundVars,
         MutexHeld, EnabledByOne, NoAbort, Holding, On, Is
    <2>3. Mp3OnlyFromRx'
      BY <1>1, CallStepFrame DEF IInv, Mp3OnlyFromRx
    <2>4. ArgsSet'
      <3>1. CASE args' = args /\ (call'[c].pc = "create" => call'[c] = call[c])
        BY <1>1, <2>1, <3>1, CallStepFrame DEF IInv, ArgsSet
      <3>2. CASE /\ args' = [args EXCEPT ![call[c].kind] = call[c].str]
                 /\ call[c].pc = "args"
                 /\ call'[c].kind = call[c].kind
        <4>1. /\ args' = [args EXCEPT ![call[c].kind] = call[c].str]
              /\ call[c].pc = "args"
              /\ call'[c].kind = call[c].kind
          BY <3>2
        <4>2. call[c].str \in Strs
          BY <1>3, <4>1, CallUnderWay DEF StopPcs
        <4>3. \A k \in Kinds : args[k] \in Strs => args'[k] \in Strs
          BY <1>1, <4>1, <4>2 DEF HandleTypeOK
        <4>4. call[c].kind \in Kinds /\ args'[call[c].kind] \in Strs
          BY <1>1, <1>3, <4>1, <4>2, CallUnderWay DEF HandleTypeOK
        <4>5. \A t \in TaskIds : tkind'[t] # Null => args'[tkind'[t]] \in Strs
          BY <1>1, <2>1, <4>3 DEF IInv, ArgsSet, HandleTypeOK
        <4>6. ASSUME NEW d \in Callers, call'[d].pc = "create"
              PROVE  args'[call'[d].kind] \in Strs
          <5>1. CASE d = c
            BY <4>1, <4>4, <5>1
          <5>2. CASE d # c
            <6>1. call'[d] = call[d]
              BY <1>1, <5>2, CallStepFrame
            <6>2. call[d].kind \in Kinds
              BY <1>1, <4>6, <6>1, CallUnderWay DEF HandleTypeOK
            <6> QED BY <4>3, <4>6, <6>1, <6>2 DEF IInv, ArgsSet
          <5> QED BY <5>1, <5>2
        <4> QED BY <4>5, <4>6 DEF ArgsSet
      <3> QED BY <1>1, <3>1, <3>2, CallStepFrame
    <2>5. FlagInv'
      <3> SUFFICES ASSUME "mp3" \notin FailKinds, Mp3FlagHonest PROVE Mp3FlagHonest'
        BY DEF IInv, FlagInv
      <3>1. \A t \in TaskIds : BeforeClear(t)' <=> BeforeClear(t)
        BY <2>1 DEF BeforeClear, Is
      <3>2. CASE task_run'["mp3"] /\ ~task_run["mp3"]
        <4>1. /\ task_run' = [task_run EXCEPT ![call[c].kind] = TRUE]
              /\ call'[c].pc = "args"
              /\ call'[c].kind = call[c].kind
          BY <1>1, <3>2, CallStepFrame DEF HandleTypeOK
        <4>2. call'[c].kind = "mp3"
          BY <1>1, <3>2, <4>1 DEF HandleTypeOK
        <4>3. c = "rx"
          BY <4>1, <4>2 DEF IInv, Mp3OnlyFromRx
        <4> QED BY <4>1, <4>2, <4>3 DEF Mp3FlagHonest
      <3>3. CASE task_run["mp3"] /\ call["rx"].kind = "mp3" /\ call["rx"].pc = "args"
        BY <1>1, <3>3, CallStepFrame DEF Mp3FlagHonest
      <3>4. CASE task_run["mp3"] /\ call["rx"].kind = "mp3" /\ call["rx"].pc = "create"
        BY <1>1, <1>4, <3>4, CallStepFrame DEF Mp3FlagHonest
      <3>5. CASE \E t \in TaskIds : BeforeClear(t)
        BY <3>1, <3>5 DEF Mp3FlagHonest
      <3> QED BY <3>2, <3>3, <3>4, <3>5 DEF Mp3FlagHonest
    <2> QED BY <2>2, <2>3, <2>4, <2>5 DEF IInv
  <1>5. CASE /\ call[c].pc = "create"
             /\ \E t \in TaskIds : /\ tpc[t] = "none"
                                   /\ tpc' = [tpc EXCEPT ![t] = "start"]
                                   /\ tkind' = [tkind EXCEPT ![t] = call[c].kind]
    <2>1. PICK t \in TaskIds : /\ tpc[t] = "none"
                               /\ tpc' = [tpc EXCEPT ![t] = "start"]
                               /\ tkind' = [tkind EXCEPT ![t] = call[c].kind]
      BY <1>5
    <2>2. call[c].kind \in Kinds
      BY <1>3, <1>5, CallUnderWay
    <2>3. /\ tpc'[t] = "start" /\ tkind'[t] = call[c].kind
          /\ \A u \in TaskIds \ {t} : tpc'[u] = tpc[u] /\ tkind'[u] = tkind[u]
      BY <1>1, <2>1 DEF IInv, TypeOK, HandleTypeOK, PcType
    <2>4. PcType'
      BY <1>2, <2>1, <2>2, <2>3 DEF IInv, TypeOK, HandleTypeOK, PcType, NotesPcs, Mp3Pcs
    <2>5. \A u \in TaskIds : /\ Holding(u)' <=> Holding(u)
                             /\ On(u)' <=> On(u)
                             /\ BeforeClear(u) => BeforeClear(u)'
      BY <2>1, <2>3 DEF Holding, On, BeforeClear, Is
    <2>6. TypeOK' /\ MutexHeld' /\ EnabledByOne' /\ NoAbort'
      BY <1>1, <1>2, <2>4, <2>5 DEF IInv, TypeOK, DataType, soundVars,
         MutexHeld, EnabledByOne, NoAbort
    <2>7. args' = args
      BY <1>1, <1>5, CallStepFrame
    <2>8. ArgsSet' /\ Mp3OnlyFromRx'
      <3>1. Mp3OnlyFromRx'
        BY <1>1, CallStepFrame DEF IInv, Mp3OnlyFromRx
      <3>2. ASSUME NEW u \in TaskIds, tkind'[u] # Null PROVE args'[tkind'[u]] \in Strs
        BY <1>5, <2>3, <2>7, <3>2 DEF IInv, ArgsSet
      <3>3. ASSUME NEW d \in Callers, call'[d].pc = "create" PROVE args'[call'[d].kind] \in Strs
        BY <1>1, <1>5, <2>7, <3>3, CallStepFrame DEF IInv, ArgsSet
      <3> QED BY <3>1, <3>2, <3>3 DEF ArgsSet
    <2>9. FlagInv'
      <3> SUFFICES ASSUME Mp3FlagHonest PROVE Mp3FlagHonest'
        BY DEF IInv, FlagInv
      <3>1. CASE c = "rx" /\ call[c].kind = "mp3"
        <4>1. BeforeClear(t)'
          BY <2>3, <3>1 DEF BeforeClear, Is
        <4> QED BY <4>1 DEF Mp3FlagHonest
      <3>2. CASE c # "rx"
        <4>1. call'["rx"] = call["rx"] /\ call[c].kind # "mp3"
          BY <1>1, <3>2, CallStepFrame DEF IInv, Mp3OnlyFromRx
        <4>2. task_run'["mp3"] => task_run["mp3"]
          BY <1>1, <1>5, <4>1, CallStepFrame DEF HandleTypeOK
        <4> QED BY <2>5, <4>1, <4>2 DEF Mp3FlagHonest
      <3>3. CASE c = "rx" /\ call[c].kind # "mp3"
        <4>1. task_run'["mp3"] => task_run["mp3"]
          BY <1>1, <3>3, CallStepFrame DEF HandleTypeOK
        <4> QED BY <2>5, <3>3, <4>1 DEF Mp3FlagHonest
      <3> QED BY <3>1, <3>2, <3>3
    <2> QED BY <2>6, <2>8, <2>9 DEF IInv
  <1> QED BY <1>1, <1>4, <1>5, CallStepFrame

\* Taking a request touches nothing but the call of the thread that takes it.
LEMMA RequestInv ==
  ASSUME IInv, Request
  PROVE  IInv'
  <1> USE HandleAssumption, SoundAssumption
  <1>1. PICK c \in Callers, r \in Calls :
          /\ call[c].pc = "idle"
          /\ call' = [call EXCEPT ![c] = r]
          /\ r.pc \in {"run", "stop"}
          /\ r.kind = "mp3" => c = "rx"
          /\ UNCHANGED <<task_run, bit0, args, tpc, tkind, soundVars>>
    BY DEF Request, PlayMp3, PlayNotes, StopNotes, BeginRun, BeginStop, At, Calls,
           RunPcs, StopPcs
  <1>2. HandleTypeOK'
    BY <1>1 DEF IInv, TypeOK, HandleTypeOK
  <1>3. TypeOK' /\ MutexHeld' /\ EnabledByOne' /\ NoAbort'
    BY <1>1, <1>2 DEF IInv, TypeOK, PcType, DataType, soundVars,
       MutexHeld, EnabledByOne, NoAbort, Holding, On, Is
  <1>4. \A d \in Callers : call'[d] = call[d] \/ (d = c /\ call'[d] = r)
    <2>1. call \in [Callers -> Calls] /\ call' = [call EXCEPT ![c] = r]
      BY <1>1 DEF IInv, TypeOK, HandleTypeOK
    <2>2. ASSUME NEW d \in Callers, d # c PROVE call'[d] = call[d]
      BY <2>1, <2>2
    <2>3. call'[c] = r
      BY <2>1
    <2> QED BY <2>2, <2>3
  <1>5. ArgsSet' /\ Mp3OnlyFromRx'
    BY <1>1, <1>4 DEF IInv, ArgsSet, Mp3OnlyFromRx
  <1>6. FlagInv'
    BY <1>1, <1>4 DEF IInv, FlagInv, Mp3FlagHonest, BeforeClear, Is
  <1> QED BY <1>3, <1>5, <1>6 DEF IInv

\* The invariant is inductive.
LEMMA NextInv == IInv /\ [Next]_vars => IInv'
  <1> SUFFICES ASSUME IInv, [Next]_vars PROVE IInv'
    OBVIOUS
  <1>1. CASE Request
    BY <1>1, RequestInv
  <1>2. ASSUME NEW c \in Callers, Caller(c) PROVE IInv'
    BY <1>2, CallerInv
  <1>3. ASSUME NEW t \in TaskIds, Task(t) PROVE IInv'
    BY <1>3, BodyInv, EndInv DEF Task, BodyStep
  <1>4. CASE UNCHANGED vars
    BY <1>4 DEF vars, handleVars, soundVars, IInv, TypeOK, HandleTypeOK, PcType, DataType,
       ArgsSet, MutexHeld, EnabledByOne, NoAbort, Mp3OnlyFromRx, FlagInv, Mp3FlagHonest,
       Holding, On, BeforeClear, Is
  <1> QED BY <1>1, <1>2, <1>3, <1>4 DEF Next

\* The inductive invariant holds in every reachable state.
THEOREM Invariance == Spec => []IInv
  BY InitInv, NextInv, PTL DEF Spec

\* The handles and tasks of sound.c are well typed, for any number of task
\* slots and any strings and files.
THEOREM TypeCorrect == Spec => []TypeOK
  <1>1. IInv => TypeOK
    BY DEF IInv
  <1> QED BY <1>1, Invariance, PTL

\* No abort() and no failing ESP_ERROR_CHECK of the players is ever reached.
THEOREM NeverAborts == Spec => []NoAbort
  <1>1. IInv => NoAbort
    BY DEF IInv
  <1> QED BY <1>1, Invariance, PTL

\* The sample buffer is used by one player at a time.
THEOREM ExclusiveBuffer == Spec => []BufferExclusive
  <1>1. IInv => BufferExclusive
    <2>1. IInv => \A t \in TaskIds : InBuffer(t) => Holding(t)
      BY HandleAssumption, SoundAssumption
         DEF IInv, TypeOK, HandleTypeOK, PcType, NotesPcs, Mp3Pcs, InBuffer, Holding, On, Is
    <2> QED BY <2>1 DEF IInv, MutexHeld, BufferExclusive
  <1> QED BY <1>1, Invariance, PTL

\* A channel that nobody holds is disabled.
THEOREM ChannelOff == Spec => []ChannelOffWhenFree
  <1>1. IInv => ChannelOffWhenFree
    BY HandleAssumption DEF IInv, MutexHeld, EnabledByOne, ChannelOffWhenFree, Holding
  <1> QED BY <1>1, Invariance, PTL

\* The running flag of the mp3 player is never left true without a task that
\* will clear it, if mp3 tasks can always be created.
THEOREM HonestFlag ==
  ASSUME "mp3" \notin FailKinds
  PROVE  Spec => []Mp3FlagHonest
  <1>1. IInv => Mp3FlagHonest
    BY DEF IInv, FlagInv
  <1> QED BY <1>1, Invariance, PTL

(***************************************************************************)
(* The players implement the abstract channel.                              *)
(***************************************************************************)
\* A step of a player's body is a step of the abstract channel or changes
\* neither its owner nor its state.
LEMMA BodyChannel ==
  ASSUME IInv, NEW t \in TaskIds, BodyStep(t)
  PROVE  [Channel!Next]_<<i2s_mutex, enabled>>
  <1>1. /\ Holding(t) <=> i2s_mutex = t
        /\ enabled /\ i2s_mutex = t => On(t)
        /\ enabled \in BOOLEAN
    BY DEF IInv, TypeOK, MutexHeld, EnabledByOne, Holding
  <1> USE DEF Is, Step, soundVars, Holding, On
  <1>2. CASE NotesTake(t) \/ Mp3Take(t)
    <2>1. \/ Channel!Take(t)
          \/ UNCHANGED <<i2s_mutex, enabled>>
      BY <1>2 DEF NotesTake, Mp3Take, Channel!Take
    <2> QED BY <2>1 DEF Channel!Next
  <1>3. CASE Enable(t)
    <2>1. Channel!SwitchOn(t)
      BY <1>1, <1>3 DEF Enable, Channel!SwitchOn
    <2> QED BY <2>1 DEF Channel!Next
  <1>4. CASE NotesDisable(t) \/ Mp3Disable(t)
    <2>1. On(t) /\ enabled
      BY <1>4 DEF NotesDisable, Mp3Disable, DisableTo, IInv, EnabledByOne
    <2>2. Channel!SwitchOff(t)
      BY <1>1, <1>4, <2>1 DEF NotesDisable, Mp3Disable, DisableTo, Channel!SwitchOff
    <2> QED BY <2>2 DEF Channel!Next
  <1>5. CASE Give(t)
    <2>1. Channel!Give(t)
      BY <1>1, <1>5 DEF Give, Channel!Give
    <2> QED BY <2>1 DEF Channel!Next
  <1>6. CASE \/ NotesArgs(t) \/ NotesNext(t) \/ NotesRest(t) \/ NotesFill(t)
             \/ NotesFilled(t) \/ NotesClear(t) \/ Mp3Fail(t) \/ Mp3Pipeline(t)
             \/ Mp3Check(t) \/ Mp3Read(t) \/ Mp3Clear(t) \/ Write(t)
    BY <1>6 DEF NotesArgs, NotesNext, NotesRest, NotesFill, NotesFilled, NotesClear, Mp3Fail,
       Mp3Pipeline, Mp3Check, Mp3Read, Mp3Clear, ClearTo, Write
  <1> QED BY <1>2, <1>3, <1>4, <1>5, <1>6 DEF BodyStep, Notes, Mp3

\* The two players implement I2sChannel, for any number of tasks, whatever
\* waits time out and whatever tasks cannot be created.
THEOREM ChannelImplemented == Spec => ImplementsChannel
  <1>1. Init => Channel!Init
    BY DEF Init, Channel!Init
  <1>2. IInv /\ [Next]_vars => [Channel!Next]_<<i2s_mutex, enabled>>
    <2> SUFFICES ASSUME IInv, [Next]_vars PROVE [Channel!Next]_<<i2s_mutex, enabled>>
      OBVIOUS
    <2>1. ASSUME NEW t \in TaskIds, BodyStep(t) PROVE [Channel!Next]_<<i2s_mutex, enabled>>
      BY <2>1, BodyChannel
    <2>2. CASE \/ Request \/ UNCHANGED vars
               \/ \E c \in Callers : Caller(c)
               \/ \E t \in TaskIds : End(t)
      BY <2>2 DEF Request, PlayMp3, PlayNotes, StopNotes, Caller, End, vars, soundVars
    <2> QED BY <2>1, <2>2 DEF Next, Task, BodyStep
  <1> QED BY <1>1, <1>2, Invariance, PTL DEF Spec, ImplementsChannel, Channel!Spec
=============================================================================
