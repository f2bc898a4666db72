--------------------------- MODULE Mp3SourceProofs ---------------------------
(***************************************************************************)
(* Proofs about the source of the mp3 player (Mp3Source), for files, reads  *)
(* and ring buffers of any size.                                            *)
(***************************************************************************)
EXTENDS Mp3Source, SequenceTheorems, TLAPS

Units == Files \X Nat

Players ==
  {"none", "take", "stop", "wait", "reset", "marker", "run", "loop", "read",
   "played", "stopped", "give"}

\* From the run of the pipeline to the end of the session.
InSession == player \in {"run", "loop", "read", "played", "stopped"}

SourceTypes ==
  /\ player \in Players
  /\ dec \in {"off", "read", "copy", "push", "done"}
  /\ stopping \in BOOLEAN
  /\ marker \in [file : Files, pos : Nat]
  /\ size \in Nat
  /\ chunk \in Seq(Units) /\ rb \in Seq(Units) /\ heard \in Seq(Units)

\* The read callback and the marker.
InFile ==
  /\ marker.pos <= Size[marker.file]
  /\ dec = "copy" => size > 0 /\ marker.pos + size <= Size[marker.file]
  /\ dec = "done" => marker.pos = Size[marker.file]
  /\ dec = "push" => chunk # <<>>
  /\ dec # "push" => chunk = <<>>

\* The decoder is at rest while the pipeline is set up anew.
AtRest ==
  /\ stopping => player \in {"wait", "reset"}
  /\ player \in {"reset", "marker", "run"} => dec \in {"off", "done"}
  /\ player \in {"marker", "run"} => dec = "off" /\ rb = <<>> /\ heard = <<>>
  /\ player = "run" => marker.pos = 0
  /\ player = "played" => dec = "done" /\ rb = <<>>

\* What was heard, the ring buffer and the decoder's chunk are the file up to pos,
\* one behind the other.
Flow ==
  /\ Len(heard) + Len(rb) + Len(chunk) = marker.pos
  /\ \A i \in 1..Len(heard) : heard[i] = <<marker.file, i>>
  /\ \A i \in 1..Len(rb) : rb[i] = <<marker.file, Len(heard) + i>>
  /\ \A i \in 1..Len(chunk) : chunk[i] = <<marker.file, Len(heard) + Len(rb) + i>>

SourceInv == SourceTypes /\ InFile /\ AtRest /\ (InSession => Flow)
(***************************************************************************)
(* Lemmas on the order of the calls and on sequences.                       *)
(***************************************************************************)
\* The calls of play_mp3_start_pipeline come one after the other.
LEMMA Calls ==
  /\ StartPipeline[1] = "stop" /\ After("stop") = "wait" /\ After("wait") = "reset"
  /\ After("reset") = "marker" /\ After("marker") = "run" /\ After("run") = "loop"
<1>1. /\ StartPipeline[1] = "stop" /\ StartPipeline[2] = "wait"
      /\ StartPipeline[3] = "reset" /\ StartPipeline[4] = "marker"
      /\ StartPipeline[5] = "run" /\ StartPipeline[6] = "loop"
  BY DEF StartPipeline
<1>2. ASSUME NEW p, NEW k \in 1..5, StartPipeline[k] = p,
             \A i \in 1..5 : StartPipeline[i] = p => i = k
      PROVE  After(p) = StartPipeline[1 + k]
  <2>1. (CHOOSE i \in 1..5 : StartPipeline[i] = p) = k
    BY <1>2
  <2> QED
    BY <2>1 DEF After
<1>3. \A i \in 1..5 : i = 1 \/ i = 2 \/ i = 3 \/ i = 4 \/ i = 5
  OBVIOUS
<1>4. After("stop") = "wait"
  <2>1. \A i \in 1..5 : StartPipeline[i] = "stop" => i = 1
    BY <1>1, <1>3
  <2> QED
    BY <2>1, <1>1, <1>2
<1>5. After("wait") = "reset"
  <2>1. \A i \in 1..5 : StartPipeline[i] = "wait" => i = 2
    BY <1>1, <1>3
  <2> QED
    BY <2>1, <1>1, <1>2
<1>6. After("reset") = "marker"
  <2>1. \A i \in 1..5 : StartPipeline[i] = "reset" => i = 3
    BY <1>1, <1>3
  <2> QED
    BY <2>1, <1>1, <1>2
<1>7. After("marker") = "run"
  <2>1. \A i \in 1..5 : StartPipeline[i] = "marker" => i = 4
    BY <1>1, <1>3
  <2> QED
    BY <2>1, <1>1, <1>2
<1>8. After("run") = "loop"
  <2>1. \A i \in 1..5 : StartPipeline[i] = "run" => i = 5
    BY <1>1, <1>3
  <2> QED
    BY <2>1, <1>1, <1>2
<1> QED
  BY <1>1, <1>4, <1>5, <1>6, <1>7, <1>8

\* The head of one sequence moved to the end of another.
LEMMA Move ==
  ASSUME NEW a \in Seq(Units), NEW b \in Seq(Units), b # <<>>
  PROVE  /\ Append(a, Head(b)) \in Seq(Units) /\ Tail(b) \in Seq(Units)
         /\ Len(b) > 0 /\ Len(a) \in Nat /\ Len(b) \in Nat
         /\ Len(Append(a, Head(b))) = Len(a) + 1 /\ Len(Tail(b)) = Len(b) - 1
         /\ \A i \in 1..Len(a) : Append(a, Head(b))[i] = a[i]
         /\ Append(a, Head(b))[Len(a) + 1] = b[1]
         /\ \A i \in 1..Len(Tail(b)) : Tail(b)[i] = b[i + 1]
<1>1. /\ Head(b) \in Units /\ Tail(b) \in Seq(Units) /\ Len(Tail(b)) = Len(b) - 1
      /\ \A i \in 1..Len(Tail(b)) : Tail(b)[i] = b[i + 1]
  BY HeadTailProperties
<1>2. Head(b) = b[1] /\ Len(b) > 0 /\ Len(a) \in Nat /\ Len(b) \in Nat
  BY EmptySeq
<1>3. /\ Append(a, Head(b)) \in Seq(Units) /\ Len(Append(a, Head(b))) = Len(a) + 1
      /\ \A i \in 1..Len(a) : Append(a, Head(b))[i] = a[i]
      /\ Append(a, Head(b))[Len(a) + 1] = Head(b)
  BY <1>1, AppendProperties
<1> QED
  BY <1>1, <1>2, <1>3

\* The empty ring buffer.
LEMMA EmptyUnits == <<>> \in Seq(Units) /\ Len(<<>>) = 0
OBVIOUS

\* What the read callback copies.
LEMMA Copied ==
  ASSUME NEW f \in Files, NEW p \in Nat, NEW k \in Nat
  PROVE  LET c == [i \in 1..k |-> <<f, p + i>>]
         IN  /\ c \in Seq(Units) /\ Len(c) = k
             /\ \A i \in 1..k : c[i] = <<f, p + i>>
             /\ k > 0 => c # <<>>
<1> DEFINE c == [i \in 1..k |-> <<f, p + i>>]
<1>1. \A i \in 1..k : <<f, p + i>> \in Units
  BY DEF Units
<1>2. c \in [1..k -> Units]
  BY <1>1
<1>3. c \in Seq(Units) /\ Len(c) = k
  BY <1>2, SeqDef, LenProperties
<1>4. \A i \in 1..k : c[i] = <<f, p + i>>
  OBVIOUS
<1>5. k > 0 => c # <<>>
  BY <1>3, EmptyUnits
<1> QED
  BY <1>3, <1>4, <1>5

(***************************************************************************)
(* The invariant.                                                           *)
(***************************************************************************)
\* The pipeline after play_mp3_init.
LEMMA SourceInit == Init => SourceInv
<1> SUFFICES ASSUME Init PROVE SourceInv
  OBVIOUS
<1>1. SourceTypes
  <2>1. marker \in [file : Files, pos : Nat]
    BY DEF Init, Files
  <2>2. chunk \in Seq(Units) /\ rb \in Seq(Units) /\ heard \in Seq(Units)
    BY EmptyUnits DEF Init
  <2> QED
    BY <2>1, <2>2 DEF Init, SourceTypes, Players
<1>2. InFile /\ AtRest /\ ~InSession
  BY SourceAssumption DEF Init, InFile, AtRest, InSession, Files
<1> QED
  BY <1>1, <1>2 DEF SourceInv

\* The steps of rx and of the tasks that try the mutex.
LEMMA Outside ==
  ASSUME SourceInv, UNCHANGED <<markerVars, decVars, heard>>,
         player' = player \/ (player' \in {"none", "take", "stop", "give"} /\ ~stopping)
         \/ (player = "none" /\ player' = "take")
  PROVE  SourceInv'
<1> USE DEF SourceInv, markerVars, decVars
<1>1. SourceTypes'
  BY DEF SourceTypes, Players
<1>2. InFile' /\ AtRest'
  BY DEF InFile, AtRest
<1>3. InSession' => Flow'
  BY DEF InSession, Flow
<1> QED
  BY <1>1, <1>2, <1>3

\* Every step of the mp3 task keeps the invariant.
LEMMA PlayerSteps ==
  ASSUME SourceInv, Player
  PROVE  SourceInv'
<1> USE Calls DEF SourceInv, Goto
<1>1. CASE Take
  BY <1>1, Outside DEF Take, AtRest
<1>2. CASE PipelineStop
  <2>1. SourceTypes'
    BY <1>2 DEF PipelineStop, SourceTypes, Players, markerVars
  <2>2. InFile' /\ AtRest' /\ ~InSession'
    BY <1>2 DEF PipelineStop, InFile, AtRest, InSession, markerVars
  <2> QED
    BY <2>1, <2>2
<1>3. CASE PipelineWait
  <2>1. SourceTypes'
    BY <1>3 DEF PipelineWait, SourceTypes, Players, markerVars, decVars
  <2>2. InFile' /\ AtRest' /\ ~InSession'
    BY <1>3 DEF PipelineWait, InFile, AtRest, InSession, markerVars, decVars
  <2> QED
    BY <2>1, <2>2
<1>4. CASE PipelineReset
  <2>1. SourceTypes'
    BY <1>4, EmptyUnits DEF PipelineReset, SourceTypes, Players, markerVars
  <2>2. InFile' /\ AtRest' /\ ~InSession'
    BY <1>4 DEF PipelineReset, InFile, AtRest, InSession, markerVars
  <2> QED
    BY <2>1, <2>2
<1>5. CASE SetMarker
  <2>1. player = "marker" /\ player' = "run" /\ UNCHANGED <<decVars, heard>>
    BY <1>5 DEF SetMarker
  <2>2. marker' \in [file : Files, pos : Nat] /\ marker'.pos = 0
    BY <1>5 DEF SetMarker, Files
  <2>3. SourceTypes'
    BY <2>1, <2>2 DEF SourceTypes, Players, decVars
  <2>4. Size[marker'.file] \in Nat
    BY <2>2, SourceAssumption
  <2>5. dec = "off" /\ rb = <<>> /\ heard = <<>> /\ chunk = <<>> /\ ~stopping
    BY <2>1 DEF AtRest, InFile
  <2>6. InFile' /\ AtRest'
    BY <2>1, <2>2, <2>4, <2>5 DEF InFile, AtRest, decVars
  <2>7. Flow'
    BY <2>1, <2>2, <2>5, EmptyUnits DEF Flow, decVars
  <2> QED
    BY <2>3, <2>6, <2>7
<1>6. CASE PipelineRun
  <2>1. SourceTypes'
    BY <1>6 DEF PipelineRun, SourceTypes, Players, markerVars
  <2>2. InFile' /\ AtRest'
    BY <1>6 DEF PipelineRun, InFile, AtRest, markerVars
  <2>3. Flow'
    BY <1>6 DEF PipelineRun, InSession, Flow, markerVars
  <2> QED
    BY <2>1, <2>2, <2>3
<1>7. CASE Check
  <2>1. SourceTypes'
    BY <1>7 DEF Check, SourceTypes, Players, markerVars, decVars
  <2>2. InFile' /\ AtRest'
    BY <1>7 DEF Check, InFile, AtRest, markerVars, decVars
  <2>3. Flow'
    BY <1>7 DEF Check, InSession, Flow, markerVars, decVars
  <2> QED
    BY <2>1, <2>2, <2>3
<1>8. CASE Read
  <2>1. /\ player = "read" /\ player' = "loop" /\ rb # <<>>
        /\ heard' = Append(heard, Head(rb)) /\ rb' = Tail(rb)
        /\ UNCHANGED <<marker, dec, stopping, size, chunk>>
    BY <1>8 DEF Read, markerVars
  <2>2. /\ heard' \in Seq(Units) /\ rb' \in Seq(Units)
        /\ Len(rb) > 0 /\ Len(heard) \in Nat /\ Len(rb) \in Nat
        /\ Len(heard') = Len(heard) + 1 /\ Len(rb') = Len(rb) - 1
        /\ \A i \in 1..Len(heard) : heard'[i] = heard[i]
        /\ heard'[Len(heard) + 1] = rb[1]
        /\ \A i \in 1..Len(rb') : rb'[i] = rb[i + 1]
    BY <2>1, Move DEF SourceTypes
  <2>3. SourceTypes'
    BY <2>1, <2>2 DEF SourceTypes, Players
  <2>4. InFile' /\ AtRest'
    BY <2>1 DEF InFile, AtRest
  <2>5. Flow /\ Len(chunk) \in Nat
    BY <2>1 DEF InSession, SourceTypes
  <2>6. Flow'
    <3>1. Len(heard') + Len(rb') + Len(chunk') = marker'.pos
      BY <2>1, <2>2, <2>5 DEF Flow
    <3>2. \A i \in 1..Len(heard') : heard'[i] = <<marker'.file, i>>
      BY <2>1, <2>2, <2>5 DEF Flow
    <3>3. \A i \in 1..Len(rb') : rb'[i] = <<marker'.file, Len(heard') + i>>
      BY <2>1, <2>2, <2>5 DEF Flow
    <3>4. \A i \in 1..Len(chunk') :
            chunk'[i] = <<marker'.file, Len(heard') + Len(rb') + i>>
      BY <2>1, <2>2, <2>5 DEF Flow
    <3> QED
      BY <3>1, <3>2, <3>3, <3>4 DEF Flow
  <2> QED
    BY <2>3, <2>4, <2>6
<1>9. CASE ReadEnd
  <2>1. SourceTypes'
    BY <1>9 DEF ReadEnd, SourceTypes, Players, markerVars, decVars
  <2>2. InFile' /\ AtRest'
    BY <1>9 DEF ReadEnd, InFile, AtRest, markerVars, decVars
  <2>3. Flow'
    BY <1>9 DEF ReadEnd, InSession, Flow, markerVars, decVars
  <2> QED
    BY <2>1, <2>2, <2>3
<1>10. CASE Leave \/ Give
  BY <1>10, Outside DEF Leave, Give, AtRest
<1> QED
  BY <1>1, <1>2, <1>3, <1>4, <1>5, <1>6, <1>7, <1>8, <1>9, <1>10 DEF Player

\* Every step of the decoder keeps the invariant.
LEMMA DecoderSteps ==
  ASSUME SourceInv, Decoder
  PROVE  SourceInv'
<1> USE DEF SourceInv
<1>0. Size[marker.file] \in Nat /\ ReadLen \in Nat /\ ReadLen > 0 /\ marker.pos \in Nat
  BY SourceAssumption DEF SourceTypes
<1>1. CASE Measure
  <2>1. SourceTypes'
    BY <1>0, <1>1 DEF Measure, Left, SourceTypes, InFile, markerVars
  <2>2. InFile'
    BY <1>0, <1>1 DEF Measure, Left, InFile, markerVars
  <2>3. AtRest'
    BY <1>1 DEF Measure, AtRest, markerVars
  <2>4. InSession' => Flow'
    BY <1>1 DEF Measure, InSession, Flow, markerVars
  <2> QED
    BY <2>1, <2>2, <2>3, <2>4
<1>2. CASE Copy
  <2>1. /\ dec = "copy" /\ dec' = "push"
        /\ chunk' = [i \in 1..size |-> <<marker.file, marker.pos + i>>]
        /\ marker' = [marker EXCEPT !.pos = @ + size]
        /\ UNCHANGED <<player, stopping, size, rb, heard>>
    BY <1>2 DEF Copy
  <2>2. /\ marker' \in [file : Files, pos : Nat]
        /\ marker'.file = marker.file /\ marker'.pos = marker.pos + size
        /\ size \in Nat /\ marker.file \in Files
    <3>1. marker \in [file : Files, pos : Nat] /\ size \in Nat
      BY DEF SourceTypes
    <3>2. marker.pos + size \in Nat
      BY <1>0, <3>1
    <3> QED
      BY <2>1, <3>1, <3>2
  <2>3. /\ chunk' \in Seq(Units) /\ Len(chunk') = size
        /\ \A i \in 1..size : chunk'[i] = <<marker.file, marker.pos + i>>
        /\ size > 0 => chunk' # <<>>
    BY <1>0, <2>1, <2>2, Copied
  <2>4. SourceTypes'
    BY <2>1, <2>2, <2>3 DEF SourceTypes
  <2>5. InFile'
    BY <1>0, <2>1, <2>2, <2>3 DEF InFile
  <2>6. AtRest'
    BY <2>1 DEF AtRest
  <2>7. InSession' => Flow'
    <3> SUFFICES ASSUME InSession' PROVE Flow'
      OBVIOUS
    <3>1. Flow /\ chunk = <<>> /\ Len(rb) \in Nat /\ Len(heard) \in Nat
      BY <2>1 DEF InSession, InFile, SourceTypes
    <3>2. Len(heard) + Len(rb) = marker.pos
      BY <1>0, <3>1, EmptyUnits DEF Flow
    <3> QED
      BY <1>0, <2>1, <2>2, <2>3, <3>1, <3>2 DEF Flow
  <2> QED
    BY <2>4, <2>5, <2>6, <2>7
<1>3. CASE Push
  <2>1. /\ dec = "push" /\ rb' = Append(rb, Head(chunk)) /\ chunk' = Tail(chunk)
        /\ dec' = IF Len(chunk) = 1 THEN "read" ELSE "push"
        /\ UNCHANGED <<player, marker, stopping, size, heard>>
    BY <1>3 DEF Push, markerVars
  <2>2. chunk # <<>>
    BY <2>1 DEF InFile
  <2>3. /\ rb' \in Seq(Units) /\ chunk' \in Seq(Units)
        /\ Len(chunk) > 0 /\ Len(rb) \in Nat /\ Len(chunk) \in Nat
        /\ Len(rb') = Len(rb) + 1 /\ Len(chunk') = Len(chunk) - 1
        /\ \A i \in 1..Len(rb) : rb'[i] = rb[i]
        /\ rb'[Len(rb) + 1] = chunk[1]
        /\ \A i \in 1..Len(chunk') : chunk'[i] = chunk[i + 1]
    BY <2>1, <2>2, Move DEF SourceTypes
  <2>4. SourceTypes'
    BY <2>1, <2>3 DEF SourceTypes
  <2>5. InFile'
    <3>1. Len(chunk) = 1 => chunk' = <<>>
      BY <2>3, EmptySeq
    <3>2. Len(chunk) # 1 => chunk' # <<>>
      BY <2>3, EmptyUnits
    <3> QED
      BY <2>1, <3>1, <3>2 DEF InFile
  <2>6. AtRest'
    BY <2>1 DEF AtRest
  <2>7. InSession' => Flow'
    <3> SUFFICES ASSUME InSession' PROVE Flow'
      OBVIOUS
    <3>1. Flow /\ Len(heard) \in Nat
      BY <2>1 DEF InSession, SourceTypes
    <3>2. Len(heard') + Len(rb') + Len(chunk') = marker'.pos
      BY <2>1, <2>3, <3>1 DEF Flow
    <3>3. \A i \in 1..Len(heard') : heard'[i] = <<marker'.file, i>>
      BY <2>1, <3>1 DEF Flow
    <3>4. \A i \in 1..Len(rb') : rb'[i] = <<marker'.file, Len(heard') + i>>
      <4> SUFFICES ASSUME NEW i \in 1..Len(rb')
                   PROVE  rb'[i] = <<marker.file, Len(heard) + i>>
        BY <2>1
      <4>1. CASE i \in 1..Len(rb)
        BY <2>3, <3>1, <4>1 DEF Flow
      <4>2. CASE i = Len(rb) + 1
        <5>1. chunk[1] = <<marker.file, Len(heard) + Len(rb) + 1>>
          BY <2>3, <3>1 DEF Flow
        <5>2. Len(heard) + Len(rb) + 1 = Len(heard) + i
          BY <2>3, <3>1, <4>2
        <5> QED
          BY <2>3, <4>2, <5>1, <5>2
      <4> QED
        BY <2>3, <4>1, <4>2
    <3>5. \A i \in 1..Len(chunk') :
            chunk'[i] = <<marker'.file, Len(heard') + Len(rb') + i>>
      <4> SUFFICES ASSUME NEW i \in 1..Len(chunk')
                   PROVE  chunk'[i] = <<marker.file, Len(heard) + Len(rb') + i>>
        BY <2>1
      <4>1. i + 1 \in 1..Len(chunk) /\ chunk'[i] = chunk[i + 1]
        BY <2>3
      <4>2. chunk[i + 1] = <<marker.file, Len(heard) + Len(rb) + (i + 1)>>
        BY <3>1, <4>1 DEF Flow
      <4>3. Len(heard) + Len(rb) + (i + 1) = Len(heard) + Len(rb') + i
        BY <2>3, <3>1
      <4> QED
        BY <4>1, <4>2, <4>3
    <3> QED
      BY <3>2, <3>3, <3>4, <3>5 DEF Flow
  <2> QED
    BY <2>4, <2>5, <2>6, <2>7
<1>4. CASE DecStop
  <2>1. SourceTypes'
    BY <1>4, EmptyUnits DEF DecStop, SourceTypes, markerVars
  <2>2. InFile' /\ AtRest' /\ ~InSession'
    BY <1>4 DEF DecStop, InFile, AtRest, InSession, markerVars
  <2> QED
    BY <2>1, <2>2
<1> QED
  BY <1>1, <1>2, <1>3, <1>4 DEF Decoder

\* Every step keeps the invariant.
LEMMA SourceNext == SourceInv /\ [Next]_vars => SourceInv'
<1> SUFFICES ASSUME SourceInv, [Next]_vars PROVE SourceInv'
  OBVIOUS
<1>1. CASE \E k \in Keys : MRunKey(k)
  BY <1>1, Outside DEF MRunKey
<1>2. CASE \E f \in FileIds : SPlay(f)
  BY <1>2, Outside DEF SPlay
<1>3. CASE EndWait \/ Lose
  BY <1>3, Outside DEF EndWait, Lose
<1>4. CASE Acquire
  BY <1>4, Outside DEF Acquire, Goto
<1>5. CASE Player
  BY <1>5, PlayerSteps
<1>6. CASE Decoder
  BY <1>6, DecoderSteps
<1>7. CASE UNCHANGED vars
  BY <1>7, Outside DEF vars
<1> QED
  BY <1>1, <1>2, <1>3, <1>4, <1>5, <1>6, <1>7 DEF Next

\* The invariant holds in every state.
LEMMA SourceInvariant == Spec => []SourceInv
BY SourceInit, SourceNext, PTL DEF Spec

\* The read callback stays inside the file for files, reads and ring buffers of
\* any size.
THEOREM ReadsInFile == Spec => []MarkerInFile
<1>1. SourceInv => MarkerInFile
  <2> SUFFICES ASSUME SourceInv PROVE MarkerInFile
    OBVIOUS
  <2>1. Size[marker.file] \in Nat /\ marker.pos \in Nat
    BY SourceAssumption DEF SourceInv, SourceTypes
  <2> QED
    BY <2>1 DEF SourceInv, InFile, MarkerInFile
<1> QED
  BY <1>1, SourceInvariant, PTL

\* A session plays its own file from the start without gaps, whatever the decoder
\* was doing when the session began.
THEOREM OwnFile == Spec => []OwnFileFromStart
<1>1. SourceInv => OwnFileFromStart
  <2> SUFFICES ASSUME SourceInv, player \in {"loop", "read", "played", "stopped"},
                      NEW i \in DOMAIN heard
               PROVE  heard[i] = <<marker.file, i>>
    BY DEF OwnFileFromStart
  <2>1. Flow /\ DOMAIN heard = 1..Len(heard)
    BY DEF SourceInv, InSession, SourceTypes
  <2> QED
    BY <2>1 DEF Flow
<1> QED
  BY <1>1, SourceInvariant, PTL

\* A session that is not stopped ends with the last unit of its file.
THEOREM WholeFile == Spec => []EndsWithFile
<1>1. SourceInv => EndsWithFile
  <2> SUFFICES ASSUME SourceInv, player = "played"
               PROVE  Len(heard) = Size[marker.file]
    BY DEF EndsWithFile
  <2>1. Flow /\ rb = <<>> /\ chunk = <<>> /\ marker.pos = Size[marker.file]
    BY DEF SourceInv, InSession, AtRest, InFile
  <2>2. Len(heard) \in Nat
    BY DEF SourceInv, SourceTypes
  <2> QED
    BY <2>1, <2>2, EmptyUnits DEF Flow
<1> QED
  BY <1>1, SourceInvariant, PTL

(***************************************************************************)
(* The songs.                                                               *)
(***************************************************************************)
Succ(m) == IF m + 1 > 6 THEN 2 ELSE m + 1

\* The songs chosen last follow one another and end in next_music_file.
SongsInv ==
  /\ next_music_file \in 1..6
  /\ songs \in Seq(2..6) /\ Len(songs) <= 4
  /\ Len(songs) > 0 => songs[Len(songs)] = next_music_file
  /\ \A i \in 1..Len(songs) : i < Len(songs) => songs[i + 1] = Succ(songs[i])

\* The songs remembered are songs, four at most.
LEMMA SongTypes ==
  ASSUME SongsInv
  PROVE  /\ songs \in Seq(2..6) /\ Len(songs) \in 0..4
         /\ DOMAIN songs = 1..Len(songs)
         /\ \A i \in 1..Len(songs) : songs[i] \in 2..6
<1>1. songs \in Seq(2..6) /\ Len(songs) <= 4
  BY DEF SongsInv
<1>2. /\ Len(songs) \in Nat /\ songs \in [1..Len(songs) -> 2..6]
      /\ DOMAIN songs = 1..Len(songs)
  BY <1>1, LenProperties
<1> QED
  BY <1>1, <1>2

\* With four songs at most remembered the next one is none of them.
LEMMA NextIsNew ==
  ASSUME SongsInv
  PROVE  /\ Succ(next_music_file) \in 2..6
         /\ \A i \in 1..Len(songs) : songs[i] # Succ(next_music_file)
<1>1. Succ(next_music_file) \in 2..6
  BY DEF SongsInv, Succ
<1>2. /\ Len(songs) \in 0..4
      /\ \A i \in 1..Len(songs) : songs[i] \in 2..6
  BY SongTypes
<1>3. CASE Len(songs) = 4
  <2>1. /\ songs[4] = next_music_file /\ songs[4] = Succ(songs[3])
        /\ songs[3] = Succ(songs[2]) /\ songs[2] = Succ(songs[1])
    BY <1>3 DEF SongsInv
  <2>2. /\ songs[1] \in 2..6 /\ songs[2] \in 2..6
        /\ songs[3] \in 2..6 /\ songs[4] \in 2..6
    BY <1>2, <1>3
  <2>3. /\ songs[1] # Succ(next_music_file) /\ songs[2] # Succ(next_music_file)
        /\ songs[3] # Succ(next_music_file) /\ songs[4] # Succ(next_music_file)
    BY <2>1, <2>2 DEF Succ
  <2>4. \A i \in 1..Len(songs) : i = 1 \/ i = 2 \/ i = 3 \/ i = 4
    BY <1>3
  <2> QED
    BY <1>1, <2>3, <2>4
<1>4. CASE Len(songs) = 3
  <2>1. /\ songs[3] = next_music_file
        /\ songs[3] = Succ(songs[2]) /\ songs[2] = Succ(songs[1])
    BY <1>4 DEF SongsInv
  <2>2. songs[1] \in 2..6 /\ songs[2] \in 2..6 /\ songs[3] \in 2..6
    BY <1>2, <1>4
  <2>3. /\ songs[1] # Succ(next_music_file) /\ songs[2] # Succ(next_music_file)
        /\ songs[3] # Succ(next_music_file)
    BY <2>1, <2>2 DEF Succ
  <2>4. \A i \in 1..Len(songs) : i = 1 \/ i = 2 \/ i = 3
    BY <1>4
  <2> QED
    BY <1>1, <2>3, <2>4
<1>5. CASE Len(songs) = 2
  <2>1. songs[2] = next_music_file /\ songs[2] = Succ(songs[1])
    BY <1>5 DEF SongsInv
  <2>2. songs[1] \in 2..6 /\ songs[2] \in 2..6
    BY <1>2, <1>5
  <2>3. songs[1] # Succ(next_music_file) /\ songs[2] # Succ(next_music_file)
    BY <2>1, <2>2 DEF Succ
  <2>4. \A i \in 1..Len(songs) : i = 1 \/ i = 2
    BY <1>5
  <2> QED
    BY <1>1, <2>3, <2>4
<1>6. CASE Len(songs) \in {0, 1}
  BY <1>1, <1>2, <1>6 DEF SongsInv, Succ
<1> QED
  BY <1>2, <1>3, <1>4, <1>5, <1>6

\* A request for the next song.
LEMMA SongChosen ==
  ASSUME SongsInv, SetMarker, id = NextMusic
  PROVE  /\ marker'.file = Succ(next_music_file)
         /\ next_music_file' = Succ(next_music_file)
         /\ songs' = (IF Len(songs) < 4 THEN songs ELSE Tail(songs))
                       \o <<Succ(next_music_file)>>
<1>1. NextSong = Succ(next_music_file) /\ Chosen = Succ(next_music_file)
  BY DEF NextSong, Succ, Chosen
<1>2. Succ(next_music_file) \in Files
  BY NextIsNew DEF Files
<1> QED
  BY <1>1, <1>2 DEF SetMarker

\* The oldest of four songs is forgotten.
LEMMA TailOfFour ==
  ASSUME NEW s \in Seq(2..6), s # <<>>, Len(s) = 4
  PROVE  /\ Tail(s) \in Seq(2..6) /\ Len(Tail(s)) = 3
         /\ Tail(s)[1] = s[2] /\ Tail(s)[2] = s[3] /\ Tail(s)[3] = s[4]
<1> DEFINE t == Tail(s)
<1>1. /\ t \in Seq(2..6) /\ Len(t) = Len(s) - 1
      /\ \A i \in 1..Len(t) : t[i] = s[i + 1]
  BY HeadTailProperties
<1> HIDE DEF t
<1>2. Len(t) = 3
  BY <1>1
<1>3. t[1] = s[2] /\ t[2] = s[3] /\ t[3] = s[4]
  BY <1>1, <1>2
<1> QED
  BY <1>1, <1>2, <1>3 DEF t

\* No song has been chosen after a reset.
LEMMA SongsInit == Init => SongsInv
<1> SUFFICES ASSUME Init PROVE SongsInv
  OBVIOUS
<1>1. songs \in Seq(2..6) /\ Len(songs) = 0
  BY EmptySeq DEF Init
<1> QED
  BY <1>1 DEF Init, SongsInv

\* Every step keeps the songs in order.
LEMMA SongsNext == SongsInv /\ [Next]_vars => SongsInv'
<1> SUFFICES ASSUME SongsInv, [Next]_vars PROVE SongsInv'
  OBVIOUS
<1>1. CASE SetMarker /\ id = NextMusic
  <2> DEFINE x == Succ(next_music_file)
             t == IF Len(songs) < 4 THEN songs ELSE Tail(songs)
  <2>1. songs' = t \o <<x>> /\ next_music_file' = x /\ x \in 2..6
    BY <1>1, SongChosen, NextIsNew
  <2>2. /\ t \in Seq(2..6) /\ Len(t) \in 0..3
        /\ Len(t) > 0 => t[Len(t)] = next_music_file
        /\ \A i \in 1..Len(t) : i < Len(t) => t[i + 1] = Succ(t[i])
    <3>1. CASE Len(songs) < 4
      <4>1. t = songs /\ Len(t) \in 0..3
        BY <3>1, SongTypes
      <4> HIDE DEF t
      <4> QED
        BY <4>1 DEF SongsInv
    <3>2. CASE ~(Len(songs) < 4)
      <4>1. Len(songs) = 4 /\ songs # <<>> /\ songs \in Seq(2..6)
        <5>1. Len(songs) = 4 /\ songs \in Seq(2..6)
          BY <3>2, SongTypes
        <5> QED
          BY <5>1, EmptySeq
      <4>2. t = Tail(songs)
        BY <3>2
      <4>3. /\ songs[4] = next_music_file /\ songs[4] = Succ(songs[3])
            /\ songs[3] = Succ(songs[2])
        BY <4>1 DEF SongsInv
      <4>4. /\ t \in Seq(2..6) /\ Len(t) = 3
            /\ t[1] = songs[2] /\ t[2] = songs[3] /\ t[3] = songs[4]
        BY <4>1, <4>2, TailOfFour
      <4> HIDE DEF t
      <4>5. t[3] = next_music_file /\ t[2] = Succ(t[1]) /\ t[3] = Succ(t[2])
        BY <4>3, <4>4
      <4>6. \A i \in 1..3 : i < 3 => i = 1 \/ i = 2
        OBVIOUS
      <4>7. \A i \in 1..3 : i < 3 => t[i + 1] = Succ(t[i])
        BY <4>5, <4>6
      <4> QED
        BY <4>4, <4>5, <4>7
    <3> QED
      BY <3>1, <3>2
  <2>3. <<x>> \in Seq(2..6) /\ Len(<<x>>) = 1 /\ <<x>>[1] = x
    BY <2>1
  <2> HIDE DEF t, x
  <2>4. /\ songs' \in Seq(2..6) /\ Len(songs') = Len(t) + 1
        /\ \A i \in 1..Len(t) : songs'[i] = t[i]
        /\ songs'[Len(t) + 1] = x
    BY <2>1, <2>2, <2>3, ConcatProperties
  <2>5. \A i \in 1..Len(songs') : i < Len(songs') => songs'[i + 1] = Succ(songs'[i])
    <3> SUFFICES ASSUME NEW i \in 1..Len(t) PROVE songs'[i + 1] = Succ(t[i])
      BY <2>2, <2>4
    <3>1. CASE i < Len(t)
      BY <2>2, <2>4, <3>1
    <3>2. CASE i = Len(t)
      BY <2>2, <2>4, <3>2 DEF x
    <3> QED
      BY <2>2, <3>1, <3>2
  <2>6. next_music_file' \in 1..6 /\ Len(songs') <= 4
    BY <2>1, <2>2, <2>4
  <2>7. Len(songs') > 0 => songs'[Len(songs')] = next_music_file'
    BY <2>1, <2>4
  <2> QED
    BY <2>4, <2>5, <2>6, <2>7 DEF SongsInv
<1>2. CASE UNCHANGED <<songs, next_music_file>>
  BY <1>2 DEF SongsInv
<1> QED
  BY <1>1, <1>2
  DEF Next, MRunKey, SPlay, EndWait, Acquire, Lose, Player, Decoder, Take,
      PipelineStop, PipelineWait, PipelineReset, SetMarker, PipelineRun, Check,
      Read, ReadEnd, Leave, Give, Measure, Copy, Push, DecStop, markerVars, vars

\* The songs come in turn: the key for the next song chooses none of the four
\* songs chosen before it.
THEOREM SongsInTurn == Spec => AllSongsInTurn
<1> DEFINE Turn == songs' # songs =>
                     /\ marker'.file \in 2..6
                     /\ \A i \in DOMAIN songs : songs[i] # marker'.file
<1>1. SongsInv /\ [Next]_vars => [Turn]_vars
  <2> SUFFICES ASSUME SongsInv, Next, songs' # songs
               PROVE  /\ marker'.file \in 2..6
                      /\ \A i \in DOMAIN songs : songs[i] # marker'.file
    OBVIOUS
  <2>1. SetMarker /\ id = NextMusic
    BY DEF Next, MRunKey, SPlay, EndWait, Acquire, Lose, Player, Decoder, Take,
           PipelineStop, PipelineWait, PipelineReset, SetMarker, PipelineRun, Check,
           Read, ReadEnd, Leave, Give, Measure, Copy, Push, DecStop, markerVars
  <2>2. DOMAIN songs = 1..Len(songs)
    BY SongTypes
  <2> QED
    BY <2>1, <2>2, SongChosen, NextIsNew
<1> QED
  BY <1>1, SongsInit, SongsNext, PTL DEF Spec, AllSongsInTurn
=============================================================================
