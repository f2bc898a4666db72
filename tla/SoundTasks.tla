------------------------------ MODULE SoundTasks ------------------------------
(***************************************************************************)
(* The two players of sound.c, which share one I2S channel (tx_chan), one   *)
(* sample buffer (g_i2s_data_buffer) and the mutex g_i2s_mutex, taken       *)
(* without waiting: a player that finds it taken gives up.                  *)
(*                                                                          *)
(* The receive thread "rx" starts mp3 files (S_PLAY and the keys of M_RUN), *)
(* starts notes (C_CMDS) and stops them (C_STOP); the other callers are the *)
(* tasks that restart a looping program (run_cmds_task), which start notes  *)
(* too.  More than one of them may be alive (CmdRunner).                    *)
(*                                                                          *)
(* A note string is abstracted to the number of well formed commands it     *)
(* starts with, an mp3 file to the number of buffers it decodes to.         *)
(***************************************************************************)
EXTENDS TaskHandle

CONSTANTS
  MaxLen,   \* bound on the commands of a string and the buffers of a file
  MaxBuf    \* bound on the buffers one note fills

ASSUME SoundAssumption ==
  /\ Kinds = {"notes", "mp3"}
  /\ "rx" \in Callers
  /\ MaxLen \in Nat
  /\ MaxBuf \in Nat
  /\ Strs = 0..MaxLen

VARIABLES
  i2s_mutex,  \* the task that holds g_i2s_mutex, or Null
  enabled,    \* tx_chan is enabled
  aborted,    \* ESP_ERROR_CHECK or abort() has been reached
  left,       \* commands left in the string a note task reads
  buf         \* buffers left: of the current note, or of the mp3 file

soundVars == <<i2s_mutex, enabled, aborted, left, buf>>

vars == <<handleVars, soundVars>>

NotesPcs == {"start", "args", "next", "rest", "enable", "fill", "filled", "write",
             "disable", "give", "clear", "signal"}

Mp3Pcs == {"start", "fail", "pipeline", "enable", "check", "read", "write",
           "clear", "disable", "give", "signal"}

Init ==
  /\ HandleInit
  /\ i2s_mutex = Null
  /\ enabled = FALSE
  /\ aborted = FALSE
  /\ left = [t \in TaskIds |-> 0]
  /\ buf = [t \in TaskIds |-> 0]

(***************************************************************************)
(* Requests.  Bound: a request is taken only while there is a task slot for *)
(* every call under way, so that xTaskCreate always finds one.              *)
(***************************************************************************)
Busy == {c \in Callers : ~At(c, "idle")}

RoomForTask == Cardinality(Busy) < Cardinality(Free)

\* S_PLAY, and M_RUN with a new key.
PlayMp3(s) ==
  /\ RoomForTask
  /\ BeginRun("rx", "mp3", s)
  /\ UNCHANGED <<task_run, bit0, args, tpc, tkind, soundVars>>

\* run_cmds (rx) and run_cmds_task call play_notes_run.
PlayNotes(c, s) ==
  /\ RoomForTask
  /\ BeginRun(c, "notes", s)
  /\ UNCHANGED <<task_run, bit0, args, tpc, tkind, soundVars>>

\* C_STOP calls play_notes_stop.
StopNotes ==
  /\ BeginStop("rx", "notes")
  /\ UNCHANGED <<task_run, bit0, args, tpc, tkind, soundVars>>

Caller(c) == CallStep(c) /\ UNCHANGED soundVars

(***************************************************************************)
(* Steps that both tasks have.                                              *)
(***************************************************************************)
Is(t, k) == tkind[t] = k

\* i2s_channel_enable succeeds only on a disabled channel, i2s_channel_write
\* and i2s_channel_disable only on an enabled one; the code aborts otherwise.
Enable(t) ==
  /\ Step(t, "enable", IF Is(t, "notes") THEN "fill" ELSE "check")
  /\ enabled' = TRUE
  /\ aborted' = (aborted \/ enabled)
  /\ UNCHANGED <<task_run, bit0, args, call, tkind, i2s_mutex, left, buf>>

Write(t) ==
  /\ Step(t, "write", IF Is(t, "notes") THEN "fill" ELSE "check")
  /\ aborted' = (aborted \/ ~enabled)
  /\ UNCHANGED <<task_run, bit0, args, call, tkind, i2s_mutex, enabled, left, buf>>

DisableTo(t, q) ==
  /\ Step(t, "disable", q)
  /\ enabled' = FALSE
  /\ aborted' = (aborted \/ ~enabled)
  /\ UNCHANGED <<task_run, bit0, args, call, tkind, i2s_mutex, left, buf>>

Give(t) ==
  /\ Step(t, "give", IF Is(t, "notes") THEN "clear" ELSE "signal")
  /\ i2s_mutex' = Null
  /\ UNCHANGED <<task_run, bit0, args, call, tkind, enabled, aborted, left, buf>>

ClearTo(t, p, q) ==
  /\ Step(t, p, q)
  /\ task_run' = [task_run EXCEPT ![tkind[t]] = FALSE]
  /\ UNCHANGED <<bit0, args, call, tkind, soundVars>>

End(t) ==
  /\ Signal(t)
  /\ left' = [left EXCEPT ![t] = 0]
  /\ buf' = [buf EXCEPT ![t] = 0]
  /\ UNCHANGED <<i2s_mutex, enabled, aborted>>

(***************************************************************************)
(* play_notes_task                                                          *)
(***************************************************************************)
\* Mutant: the result of the take is not looked at.
NotesTakeUnchecked(t) ==
  /\ Is(t, "notes")
  /\ Step(t, "start", "args")
  /\ i2s_mutex' = t
  /\ UNCHANGED <<task_run, bit0, args, call, tkind, enabled, aborted, left, buf>>

\* A failed take deletes the task and leaves the handle as it is: task_run
\* stays true and BIT0 is not set.
NotesTake(t) ==
  /\ Is(t, "notes")
  /\ tpc[t] = "start"
  /\ IF i2s_mutex = Null
       THEN /\ i2s_mutex' = t
            /\ Step(t, "start", "args")
            /\ UNCHANGED tkind
       ELSE /\ Delete(t)
            /\ UNCHANGED i2s_mutex
  /\ UNCHANGED <<task_run, bit0, args, call, enabled, aborted, left, buf>>

\* char *notes = handle->args;
NotesArgs(t) ==
  /\ Is(t, "notes")
  /\ Step(t, "args", "next")
  /\ left' = [left EXCEPT ![t] = args["notes"]]
  /\ UNCHANGED <<task_run, bit0, args, call, tkind, i2s_mutex, enabled, aborted, buf>>

\* The head of the loop: stop, or take the next command of the string, which
\* is a rest (NO or an unknown note) or a note.
NotesNext(t) ==
  /\ Is(t, "notes")
  /\ IF left[t] = 0 \/ ~task_run["notes"]
       THEN /\ Step(t, "next", "give")
            /\ UNCHANGED <<left, buf>>
       ELSE /\ left' = [left EXCEPT ![t] = @ - 1]
            /\ \/ /\ Step(t, "next", "rest")
                  /\ UNCHANGED buf
               \/ /\ Step(t, "next", "enable")
                  /\ \E n \in 0..MaxBuf : buf' = [buf EXCEPT ![t] = n]
  /\ UNCHANGED <<task_run, bit0, args, call, tkind, i2s_mutex, enabled, aborted>>

NotesRest(t) ==
  /\ Is(t, "notes")
  /\ Step(t, "rest", "next")
  /\ UNCHANGED <<task_run, bit0, args, call, tkind, soundVars>>

\* Fill g_i2s_data_buffer until it is full, the note is over or task_run is
\* found false; an empty buffer ends the note.
NotesFill(t) ==
  /\ Is(t, "notes")
  /\ IF buf[t] = 0 \/ ~task_run["notes"]
       THEN Step(t, "fill", "disable") /\ UNCHANGED buf
       ELSE Step(t, "fill", "filled") /\ buf' = [buf EXCEPT ![t] = @ - 1]
  /\ UNCHANGED <<task_run, bit0, args, call, tkind, i2s_mutex, enabled, aborted, left>>

\* The second look at task_run, before the buffer is written.
NotesFilled(t) ==
  /\ Is(t, "notes")
  /\ Step(t, "filled", IF task_run["notes"] THEN "write" ELSE "disable")
  /\ UNCHANGED <<task_run, bit0, args, call, tkind, soundVars>>

\* Mutant: the channel is left enabled after a note.
NotesNoDisable(t) ==
  /\ Is(t, "notes")
  /\ Step(t, "disable", "next")
  /\ UNCHANGED <<task_run, bit0, args, call, tkind, soundVars>>

NotesDisable(t) == Is(t, "notes") /\ DisableTo(t, "next")

NotesClear(t) == Is(t, "notes") /\ ClearTo(t, "clear", "signal")

(***************************************************************************)
(* sound_play_mp3_task                                                      *)
(***************************************************************************)
Mp3Take(t) ==
  /\ Is(t, "mp3")
  /\ IF i2s_mutex = Null
       THEN Step(t, "start", "pipeline") /\ i2s_mutex' = t
       ELSE Step(t, "start", "fail") /\ UNCHANGED i2s_mutex
  /\ UNCHANGED <<task_run, bit0, args, call, tkind, enabled, aborted, left, buf>>

\* Mutant: the failure path leaves the flag alone, as play_notes_task does.
Mp3FailKeepsFlag(t) ==
  /\ Is(t, "mp3")
  /\ Step(t, "fail", "signal")
  /\ UNCHANGED <<task_run, bit0, args, call, tkind, soundVars>>

\* Mutant: the failure path leaves through the give.
Mp3FailGives(t) == Is(t, "mp3") /\ ClearTo(t, "fail", "give")

\* handle->task_run = false; goto out;
Mp3Fail(t) == Is(t, "mp3") /\ ClearTo(t, "fail", "signal")

\* play_mp3_start_pipeline(handle->fileid)
Mp3Pipeline(t) ==
  /\ Is(t, "mp3")
  /\ Step(t, "pipeline", "enable")
  /\ buf' = [buf EXCEPT ![t] = args["mp3"]]
  /\ UNCHANGED <<task_run, bit0, args, call, tkind, i2s_mutex, enabled, aborted, left>>

Mp3Check(t) ==
  /\ Is(t, "mp3")
  /\ Step(t, "check", IF task_run["mp3"] THEN "read" ELSE "clear")
  /\ UNCHANGED <<task_run, bit0, args, call, tkind, soundVars>>

\* Mutant: the end of the file is not noticed.
Mp3ReadOn(t) ==
  /\ Is(t, "mp3")
  /\ Step(t, "read", "write")
  /\ buf' = [buf EXCEPT ![t] = @ - 1]
  /\ UNCHANGED <<task_run, bit0, args, call, tkind, i2s_mutex, enabled, aborted, left>>

\* Mutant: the end of the file leaves by "goto out", past disable and give.
Mp3ReadOut(t) ==
  /\ Is(t, "mp3")
  /\ IF buf[t] = 0
       THEN Step(t, "read", "signal") /\ UNCHANGED buf
       ELSE Step(t, "read", "write") /\ buf' = [buf EXCEPT ![t] = @ - 1]
  /\ UNCHANGED <<task_run, bit0, args, call, tkind, i2s_mutex, enabled, aborted, left>>

\* play_mp3_read_buffer into g_i2s_data_buffer; <= 0 at the end of the file.
Mp3Read(t) ==
  /\ Is(t, "mp3")
  /\ IF buf[t] = 0
       THEN Step(t, "read", "clear") /\ UNCHANGED buf
       ELSE Step(t, "read", "write") /\ buf' = [buf EXCEPT ![t] = @ - 1]
  /\ UNCHANGED <<task_run, bit0, args, call, tkind, i2s_mutex, enabled, aborted, left>>

\* Mutant: the mutex is given back without disabling the channel.
Mp3ClearNoDisable(t) == Is(t, "mp3") /\ ClearTo(t, "clear", "give")

Mp3Clear(t) == Is(t, "mp3") /\ ClearTo(t, "clear", "disable")

Mp3Disable(t) == Is(t, "mp3") /\ DisableTo(t, "give")

(***************************************************************************)
(* The specification.                                                       *)
(***************************************************************************)
Notes(t) ==
  \/ NotesTake(t) \/ NotesArgs(t) \/ NotesNext(t) \/ NotesRest(t)
  \/ NotesFill(t) \/ NotesFilled(t) \/ NotesDisable(t) \/ NotesClear(t)

Mp3(t) ==
  \/ Mp3Take(t) \/ Mp3Fail(t) \/ Mp3Pipeline(t) \/ Mp3Check(t)
  \/ Mp3Read(t) \/ Mp3Clear(t) \/ Mp3Disable(t)

Task(t) == Notes(t) \/ Mp3(t) \/ Enable(t) \/ Write(t) \/ Give(t) \/ End(t)

Request ==
  \/ \E s \in Strs : PlayMp3(s)
  \/ \E c \in Callers, s \in Strs : PlayNotes(c, s)
  \/ StopNotes

Next ==
  \/ Request
  \/ \E c \in Callers : Caller(c)
  \/ \E t \in TaskIds : Task(t)

\* Time slicing among tasks of one priority: a thread that can run, runs; a
\* wait with a time limit comes to its end.
Fairness ==
  /\ \A c \in Callers : WF_vars(Caller(c))
  /\ \A t \in TaskIds : WF_vars(Task(t))

Spec == Init /\ [][Next]_vars

FairSpec == Spec /\ Fairness

(***************************************************************************)
(* Properties.                                                              *)
(***************************************************************************)
\* The program counters at which a task has the channel enabled ...
On(t) == tpc[t] \in IF Is(t, "notes")
                      THEN {"fill", "filled", "write", "disable"}
                      ELSE {"check", "read", "write", "clear", "disable"}

\* ... at which it holds g_i2s_mutex ...
Holding(t) == On(t) \/ tpc[t] \in {"args", "next", "rest", "pipeline", "enable", "give"}

\* ... at which it fills or plays g_i2s_data_buffer ...
InBuffer(t) == tpc[t] \in {"fill", "filled", "read", "write"}

\* ... and at which an mp3 task still has to clear task_run.
BeforeClear(t) ==
  /\ Is(t, "mp3")
  /\ tpc[t] \in {"start", "fail", "pipeline", "enable", "check", "read", "write", "clear"}

PcType ==
  /\ tpc \in [TaskIds -> {"none"} \cup NotesPcs \cup Mp3Pcs]
  /\ \A t \in TaskIds : /\ tkind[t] = "notes" => tpc[t] \in NotesPcs
                        /\ tkind[t] = "mp3" => tpc[t] \in Mp3Pcs
                        /\ tkind[t] = Null => tpc[t] = "none"

DataType == left \in [TaskIds -> 0..MaxLen] /\ buf \in [TaskIds -> Nat]

\* Type correctness of the players: the fields of the two handles in sound.c,
\* the program counters of the tasks and the amounts of data they have left.
TypeOK ==
  /\ HandleTypeOK
  /\ PcType
  /\ DataType
  /\ i2s_mutex \in TaskIds \cup {Null}
  /\ enabled \in BOOLEAN
  /\ aborted \in BOOLEAN

\* None of the aborts of sound.c is ever reached, whatever sequence of S_PLAY,
\* C_CMDS and C_STOP arrives and whichever waits run out: i2s_channel_enable
\* is only called on a disabled channel, write and disable on an enabled one.
NoAbort == ~aborted

\* g_i2s_data_buffer is filled and played by one task at a time, even when a
\* stop has timed out and the player it gave up on is still running.
BufferExclusive ==
  \A t, u \in TaskIds : InBuffer(t) /\ InBuffer(u) => t = u

\* The channel is not left enabled by a player that ends, whatever the reason.
ChannelOffWhenFree == i2s_mutex = Null => ~enabled

\* Whatever the handles do, the two players implement the channel of
\* I2sChannel: no player takes the channel from another, switches a channel it
\* does not own or hands it back switched on.
Channel == INSTANCE I2sChannel
             WITH Players <- TaskIds, Nobody <- Null, owner <- i2s_mutex, on <- enabled

ImplementsChannel == Channel!Spec

\* The flag of the mp3 player, which is_sound_play_run reports to the LED
\* task of main.c, is true only while a task exists that will clear it, or rx
\* is about to create one: no sequence of ends, stops, time-outs, lost races
\* for the mutex and failed creations of note tasks leaves it true for ever.
Mp3FlagHonest ==
  task_run["mp3"] =>
    \/ \E t \in TaskIds : BeforeClear(t)
    \/ call["rx"].kind = "mp3" /\ call["rx"].pc \in {"args", "create"}

\* A thread that calls a run or stop function of sound.c gets out of it again:
\* rx is never lost to the protocol, even when the bit it waits for was set
\* before it was cleared or is never set at all.
CallReturns == \A c \in Callers : []<>At(c, "idle")

\* A player that took g_i2s_mutex gives it back.
MutexReleased == \A t \in TaskIds : []<>(i2s_mutex # t)
=============================================================================
