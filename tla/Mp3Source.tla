------------------------------ MODULE Mp3Source ------------------------------
(***************************************************************************)
(* Where the samples of the mp3 player come from (my_play_mp3.c): the key   *)
(* or message that asks for a file, the choice of the file, the read        *)
(* callback over the file in flash, the decoder and its ring buffer, and    *)
(* the player that reads the ring buffer.                                   *)
(*                                                                          *)
(* Threads: rx, the mp3 task that holds g_i2s_mutex (one at a time, see     *)
(* BufferExclusive of SoundTasks), mp3 tasks that have been created and not *)
(* yet tried the mutex, and the decoder element of the pipeline.            *)
(* A player that is stopped leaves the pipeline running: the next one finds *)
(* a decoder at work on the old file and a ring buffer full of it.          *)
(*                                                                          *)
(* The pipeline is the ESP-ADF, which is not in the tree: its elements are  *)
(* modelled from the calls made here.  A file is a number of units.         *)
(***************************************************************************)
EXTENDS Integers, Sequences

CONSTANTS
  Size,      \* units of each of the seven files 0..6
  FileIds,   \* the file ids that S_PLAY may carry
  Keys,      \* the keys that M_RUN may carry
  ReadLen,   \* units the decoder asks the read callback for
  RbSize,    \* units the ring buffer holds
  MaxNew     \* bound on mp3 tasks created and not yet run

Files == 0..6
NextMusic == 15  \* 0xF: the next song

ASSUME SourceAssumption ==
  /\ Size \in [Files -> Nat \ {0}]
  /\ FileIds \subseteq Int
  /\ Keys \subseteq Int
  /\ ReadLen \in Nat \ {0}
  /\ RbSize \in Nat \ {0}
  /\ MaxNew \in Nat \ {0}

VARIABLES
  last_key,         \* static last_key of M_RUN
  want,             \* the file rx waits to start, None outside of the wait
  task_run, fileid, \* of g_playmp3_handle
  new,              \* mp3 tasks created that have not tried the mutex
  player,           \* where the mp3 task with the mutex is
  id,               \* the argument of play_mp3_start_pipeline
  next_music_file,
  marker,           \* file_marker: the file and pos
  dec,              \* where the decoder is
  stopping,         \* audio_pipeline_stop has been called
  size,             \* read_size of mp3_music_read_cb
  chunk,            \* units the decoder has read and not put out
  rb,               \* the ring buffer
  heard,            \* history: units the player has read in this session
  songs             \* history: the songs 0xF has chosen, the last four

rxVars == <<last_key, want, task_run, fileid, new>>
markerVars == <<next_music_file, marker, songs>>
decVars == <<dec, stopping, size, chunk, rb>>
vars == <<rxVars, player, id, markerVars, decVars, heard>>

None == -2

Init ==
  /\ last_key = 0
  /\ want = None
  /\ task_run = FALSE
  /\ fileid = 0
  /\ new = 0
  /\ player = "none"
  /\ id = 0
  /\ next_music_file = 1
  /\ marker = [file |-> 0, pos |-> 0]
  /\ dec = "off"
  /\ stopping = FALSE
  /\ size = 0
  /\ chunk = <<>>
  /\ rb = <<>>
  /\ heard = <<>>
  /\ songs = <<>>

(***************************************************************************)
(* The receive thread: sound_play_mp3_run up to its wait, and after it      *)
(* (SoundTasks has every step of it).                                       *)
(***************************************************************************)
\* task_run = true, fileid = f, a new task.
Launch(f) ==
  /\ new < MaxNew
  /\ task_run' = TRUE
  /\ fileid' = f
  /\ new' = new + 1

\* A player that is marked running is stopped first.
Request(f) ==
  \/ /\ task_run
     /\ task_run' = FALSE
     /\ want' = f
     /\ UNCHANGED <<fileid, new>>
  \/ ~task_run /\ Launch(f) /\ UNCHANGED want

\* Keys 1 to 3: didi, gun, the next music; the others make no sound.
KeyFile == <<0, 1, NextMusic>>

\* The key of an M_RUN: one that is held comes again and again and counts once.
MRunKey(k) ==
  /\ want = None
  /\ k # last_key
  /\ last_key' = k
  /\ \/ k \in DOMAIN KeyFile /\ Request(KeyFile[k])
     \/ k \notin DOMAIN KeyFile /\ UNCHANGED <<want, task_run, fileid, new>>
  /\ UNCHANGED <<player, id, markerVars, decVars, heard>>

SPlay(f) ==
  /\ want = None
  /\ Request(f)
  /\ UNCHANGED <<last_key, player, id, markerVars, decVars, heard>>

\* The player has left, or the wait has timed out.
EndWait ==
  /\ want # None
  /\ Launch(want)
  /\ want' = None
  /\ UNCHANGED <<last_key, player, id, markerVars, decVars, heard>>

(***************************************************************************)
(* The mp3 task.                                                            *)
(***************************************************************************)
Goto(p, q) == player = p /\ player' = q

\* xSemaphoreTake(g_i2s_mutex, 0)
Acquire ==
  /\ new > 0
  /\ Goto("none", "take")
  /\ new' = new - 1
  /\ UNCHANGED <<last_key, want, task_run, fileid, id, markerVars, decVars, heard>>

\* The mutex is taken: task_run = false, for whichever task it is.
Lose ==
  /\ new > 0
  /\ player # "none"
  /\ new' = new - 1
  /\ task_run' = FALSE
  /\ UNCHANGED <<last_key, want, fileid, player, id, markerVars, decVars, heard>>

\* Mutant: the marker is set before the old decoder has stopped.
MarkerFirst == <<"marker", "stop", "wait", "reset", "run", "loop">>

\* The calls of play_mp3_start_pipeline, in their order.
StartPipeline == <<"stop", "wait", "reset", "marker", "run", "loop">>

After(p) == StartPipeline[1 + CHOOSE i \in 1..5 : StartPipeline[i] = p]

\* play_mp3_start_pipeline(handle->fileid)
Take ==
  /\ Goto("take", StartPipeline[1])
  /\ id' = fileid
  /\ UNCHANGED <<rxVars, markerVars, decVars, heard>>

PipelineStop ==
  /\ Goto("stop", After("stop"))
  /\ stopping' = (dec \notin {"off", "done"})
  /\ UNCHANGED <<rxVars, id, markerVars, dec, size, chunk, rb, heard>>

PipelineWait ==
  /\ Goto("wait", After("wait"))
  /\ dec \in {"off", "done"}
  /\ UNCHANGED <<rxVars, id, markerVars, decVars, heard>>

\* Mutant: the ring buffer keeps its contents.
PipelineNoReset ==
  /\ Goto("reset", After("reset"))
  /\ dec' = "off" /\ stopping' = FALSE /\ chunk' = <<>>
  /\ heard' = <<>>
  /\ UNCHANGED <<rxVars, id, markerVars, size, rb>>

\* terminate, reset_ringbuffer, reset_elements, change_state(INIT)
PipelineReset ==
  /\ Goto("reset", After("reset"))
  /\ dec' = "off" /\ stopping' = FALSE /\ chunk' = <<>>
  /\ rb' = <<>>
  /\ heard' = <<>>
  /\ UNCHANGED <<rxVars, id, markerVars, size>>

\* Mutant: the songs are not started over after the last one.
NextSongOn == next_music_file + 1

NextSong == IF next_music_file + 1 > 6 THEN 2 ELSE next_music_file + 1

Chosen == IF id = NextMusic THEN NextSong ELSE id

\* set_next_file_marker: 0xF counts through the songs 2..6, an id out of range
\* is file 0.
SetMarker ==
  /\ Goto("marker", After("marker"))
  /\ next_music_file' = IF id = NextMusic THEN NextSong ELSE next_music_file
  /\ marker' = [file |-> IF Chosen \in Files THEN Chosen ELSE 0, pos |-> 0]
  /\ songs' = IF id # NextMusic THEN songs
              ELSE (IF Len(songs) < 4 THEN songs ELSE Tail(songs)) \o <<marker'.file>>
  /\ UNCHANGED <<rxVars, id, decVars, heard>>

PipelineRun ==
  /\ Goto("run", After("run"))
  /\ dec' = "read"
  /\ UNCHANGED <<rxVars, id, markerVars, stopping, size, chunk, rb, heard>>

\* while (handle->task_run) ...
Check ==
  /\ Goto("loop", IF task_run THEN "read" ELSE "stopped")
  /\ UNCHANGED <<rxVars, id, markerVars, decVars, heard>>

\* read_len = play_mp3_read_buffer(...), which waits for the decoder.
Read ==
  /\ Goto("read", "loop")
  /\ rb # <<>>
  /\ heard' = Append(heard, Head(rb))
  /\ rb' = Tail(rb)
  /\ UNCHANGED <<rxVars, id, markerVars, dec, stopping, size, chunk>>

\* if (read_len <= 0) break;
ReadEnd ==
  /\ Goto("read", "played")
  /\ rb = <<>> /\ dec = "done"
  /\ UNCHANGED <<rxVars, id, markerVars, decVars, heard>>

\* handle->task_run = false;
Leave ==
  /\ player \in {"played", "stopped"}
  /\ player' = "give"
  /\ task_run' = FALSE
  /\ UNCHANGED <<last_key, want, fileid, new, id, markerVars, decVars, heard>>

\* xSemaphoreGive(g_i2s_mutex);
Give ==
  /\ Goto("give", "none")
  /\ UNCHANGED <<rxVars, id, markerVars, decVars, heard>>

(***************************************************************************)
(* The decoder.                                                             *)
(***************************************************************************)
\* Mutant: the end marker is taken for the last byte.
LeftShort == Size[marker.file] - 1 - marker.pos

Left == Size[marker.file] - marker.pos

\* Mutant: the end of the file is not reported.
MeasureNoEnd ==
  /\ dec = "read"
  /\ Left > 0
  /\ size' = IF ReadLen < Left THEN ReadLen ELSE Left
  /\ dec' = "copy"
  /\ UNCHANGED <<rxVars, player, id, markerVars, stopping, chunk, rb, heard>>

\* mp3_music_read_cb: read_size, AEL_IO_DONE at the end of the file.
Measure ==
  /\ dec = "read"
  /\ IF Left = 0 THEN dec' = "done" /\ UNCHANGED size
     ELSE size' = (IF ReadLen < Left THEN ReadLen ELSE Left) /\ dec' = "copy"
  /\ UNCHANGED <<rxVars, player, id, markerVars, stopping, chunk, rb, heard>>

\* memcpy(...); file_marker.pos += read_size;
Copy ==
  /\ dec = "copy"
  /\ chunk' = [i \in 1..size |-> <<marker.file, marker.pos + i>>]
  /\ marker' = [marker EXCEPT !.pos = @ + size]
  /\ dec' = "push"
  /\ UNCHANGED <<rxVars, player, id, next_music_file, songs, stopping, size, rb, heard>>

Push ==
  /\ dec = "push"
  /\ Len(rb) < RbSize
  /\ rb' = Append(rb, Head(chunk))
  /\ chunk' = Tail(chunk)
  /\ dec' = IF Len(chunk) = 1 THEN "read" ELSE "push"
  /\ UNCHANGED <<rxVars, player, id, markerVars, stopping, size, heard>>

\* The stop is noticed between two calls of the callback, and by a decoder that
\* waits for room.
DecStop ==
  /\ stopping /\ dec \in {"read", "push"}
  /\ dec' = "off"
  /\ chunk' = <<>>
  /\ UNCHANGED <<rxVars, player, id, markerVars, stopping, size, rb, heard>>

(***************************************************************************)
(* The specification.                                                       *)
(***************************************************************************)
Player ==
  \/ Take \/ PipelineStop \/ PipelineWait \/ PipelineReset \/ SetMarker
  \/ PipelineRun \/ Check \/ Read \/ ReadEnd \/ Leave \/ Give

Decoder == Measure \/ Copy \/ Push \/ DecStop

Next ==
  \/ \E k \in Keys : MRunKey(k)
  \/ \E f \in FileIds : SPlay(f)
  \/ EndWait \/ Acquire \/ Lose \/ Player \/ Decoder

\* Time slicing; the wait of rx ends by its time limit; nobody has to ask for
\* music.
Spec ==
  /\ Init /\ [][Next]_vars
  /\ WF_vars(EndWait) /\ WF_vars(Acquire \/ Lose) /\ WF_vars(Player) /\ WF_vars(Decoder)

(***************************************************************************)
(* Properties.                                                              *)
(***************************************************************************)
\* The read callback stays inside the file, whatever the length asked for and
\* whenever the marker is set to another file.
MarkerInFile == marker.pos \in 0..Size[marker.file]

\* What a session plays is its own file from the start, without gaps: nothing
\* that the decoder of the session before has left in the ring buffer, no tail
\* of a file whose marker was moved under the decoder.
OwnFileFromStart ==
  player \in {"loop", "read", "played", "stopped"} =>
    \A i \in DOMAIN heard : heard[i] = <<marker.file, i>>

\* A session that is not stopped ends when the whole file has been played.
EndsWithFile == player = "played" => Len(heard) = Size[marker.file]

\* The key for the next song goes through all five songs before it comes back to
\* the first of them, also when other sounds are played in between.
AllSongsInTurn ==
  [][songs' # songs =>
       /\ marker'.file \in 2..6
       /\ \A i \in DOMAIN songs : songs[i] # marker'.file]_vars

\* Every session ends: a player does not wait for a decoder that is stopped or
\* for data that does not come.
SessionEnds == (player # "none") ~> (player = "none")
=============================================================================
