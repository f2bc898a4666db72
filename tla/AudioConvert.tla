----------------------------- MODULE AudioConvert -----------------------------
(***************************************************************************)
(* Music to light (audio_convert.c): for every buffer the mp3 task plays it *)
(* calls audio_convert_mp3_data_cb, which copies the samples into one       *)
(* static buffer and queues a pointer to it with their number; the          *)
(* converter task takes the entries and turns the loudness of what it finds *)
(* in the buffer into a frame for the LED strip.                            *)
(*                                                                          *)
(* All entries of the queue point to the same buffer, which the next call   *)
(* overwrites, in part if it brings less.  The samples are numbered by the  *)
(* call that brought them; the id of a queue entry says for which call it   *)
(* was queued, the program does not have it.                                *)
(***************************************************************************)
EXTENDS LedStrip

CONSTANTS
  CnvQueueLen,  \* xQueueCreate(3, ...)
  MaxCalls,     \* bound on the calls of the callback
  OtherFrames   \* bound on the frames that come from other tasks

ASSUME ConvertAssumption ==
  /\ CnvQueueLen \in Nat \ {0}
  /\ MaxCalls \in Nat
  /\ OtherFrames \in Nat
  /\ MaxFrames = 1 + MaxCalls + OtherFrames

VARIABLES
  buffer,     \* the call each half of the static buffer was filled by
  calls,      \* calls of the callback so far
  len,        \* sample_data.len of the last one, in halves of the buffer
  cbpc,       \* where the mp3 task is in the callback
  cnv_queue,  \* g_cnv_handler.in_queue
  cpc,        \* program counter of the converter task
  item,       \* the entry the converter has taken
  got,        \* the samples the converter has looked at, by half
  others      \* frames from other tasks so far

audioVars == <<buffer, calls, len, cbpc, cnv_queue, cpc, item, got, others>>

vars == <<stripVars, audioVars>>

\* audio_sample_data_t
Entries == [id : Nat, len : Halves]

Init ==
  /\ StripInit
  /\ buffer = [h \in Halves |-> 0]
  /\ calls = 0
  /\ len = 1
  /\ cbpc = "idle"
  /\ cnv_queue = <<>>
  /\ cpc = "receive"
  /\ item = [id |-> 0, len |-> 1]
  /\ got = [h \in Halves |-> 0]
  /\ others = 0

(***************************************************************************)
(* audio_convert_mp3_data_cb, on the mp3 task.                              *)
(***************************************************************************)
\* Mutant: the pointer is queued before the samples are copied.
CbQueueFirst ==
  /\ cbpc = "idle"
  /\ calls < MaxCalls
  /\ calls' = calls + 1
  /\ len' = 2
  /\ Len(cnv_queue) < CnvQueueLen
  /\ cnv_queue' = Append(cnv_queue, [id |-> calls + 1, len |-> 2])
  /\ cbpc' = "copy"
  /\ UNCHANGED <<stripVars, buffer, cpc, item, got, others>>

\* The copy loop goes over size/4 samples, up to the whole buffer: one step, or two
\* for more than half of it.
CbBegin ==
  /\ cbpc = "idle"
  /\ calls < MaxCalls
  /\ calls' = calls + 1
  /\ len' \in Halves
  /\ buffer' = [buffer EXCEPT ![1] = calls + 1]
  /\ cbpc' = IF len' = 1 THEN "send" ELSE "copy"
  /\ UNCHANGED <<stripVars, cnv_queue, cpc, item, got, others>>

CbCopy ==
  /\ cbpc = "copy"
  /\ buffer' = [buffer EXCEPT ![2] = calls]
  /\ cbpc' = "send"
  /\ UNCHANGED <<stripVars, calls, len, cnv_queue, cpc, item, got, others>>

Entry == [id |-> calls, len |-> len]

\* Mutant: the queue takes one pointer too many.
CbSendOneMore ==
  /\ cbpc = "send"
  /\ cnv_queue' = IF Len(cnv_queue) <= CnvQueueLen THEN Append(cnv_queue, Entry) ELSE cnv_queue
  /\ cbpc' = "idle"
  /\ UNCHANGED <<stripVars, buffer, calls, len, cpc, item, got, others>>

\* audio_convert_fill_data: a full queue loses the entry after one tick.
CbSend ==
  /\ cbpc = "send"
  /\ cnv_queue' = IF Len(cnv_queue) < CnvQueueLen THEN Append(cnv_queue, Entry) ELSE cnv_queue
  /\ cbpc' = "idle"
  /\ UNCHANGED <<stripVars, buffer, calls, len, cpc, item, got, others>>

(***************************************************************************)
(* audio_convert_task                                                       *)
(***************************************************************************)
CnvReceive ==
  /\ cpc = "receive"
  /\ cnv_queue # <<>>
  /\ item' = Head(cnv_queue)
  /\ cnv_queue' = Tail(cnv_queue)
  /\ cpc' = "read1"
  /\ UNCHANGED <<stripVars, buffer, calls, len, cbpc, got, others>>

\* Mutant: the queue carries the samples instead of a pointer.
CnvReadCopy ==
  /\ cpc = "read1"
  /\ got' = [h \in Halves |-> item.id]
  /\ cpc' = "fill"
  /\ UNCHANGED <<stripVars, buffer, calls, len, cbpc, cnv_queue, item, others>>

\* cnv_audio_process goes over as much of the buffer as the entry says, while the
\* callback may change it.
CnvRead ==
  /\ \/ /\ cpc = "read1"
        /\ got' = [got EXCEPT ![1] = buffer[1]]
        /\ cpc' = IF item.len = 1 THEN "fill" ELSE "read2"
     \/ /\ cpc = "read2"
        /\ got' = [got EXCEPT ![2] = buffer[2]]
        /\ cpc' = "fill"
  /\ UNCHANGED <<stripVars, buffer, calls, len, cbpc, cnv_queue, item, others>>

\* cnv_pattern_myenergy_mode ends with led_strip_fill_data.
CnvFill ==
  /\ cpc = "fill"
  /\ Accept \/ (Full /\ UNCHANGED stripVars)
  /\ cpc' = "receive"
  /\ UNCHANGED <<buffer, calls, len, cbpc, cnv_queue, item, got, others>>

(***************************************************************************)
(* The specification.                                                       *)
(***************************************************************************)
\* A frame that the status LED task or the LED program makes with led_one_color.
OtherFrame ==
  /\ others < OtherFrames
  /\ others' = others + 1
  /\ Accept
  /\ UNCHANGED <<buffer, calls, len, cbpc, cnv_queue, cpc, item, got>>

Callback == CbCopy \/ CbSend

Converter == CnvReceive \/ CnvRead \/ CnvFill

Strip == (Renderer \/ Rmt) /\ UNCHANGED audioVars

Next == CbBegin \/ Callback \/ Converter \/ OtherFrame \/ Strip

\* All tasks have the same priority and time slices; the RMT is hardware.
Fairness ==
  /\ WF_vars(Callback)
  /\ WF_vars(Converter)
  /\ WF_vars(Renderer /\ UNCHANGED audioVars)
  /\ WF_vars(Rmt /\ UNCHANGED audioVars)

Spec == Init /\ [][Next]_vars

FairSpec == Spec /\ Fairness

(***************************************************************************)
(* Properties.                                                              *)
(***************************************************************************)
\* Type correctness of the converter, its queue and the strip.
TypeOK ==
  /\ StripTypeOK
  /\ buffer \in [Halves -> Nat]
  /\ calls \in Nat
  /\ cbpc \in {"idle", "copy", "send"}
  /\ len \in Halves
  /\ cnv_queue \in Seq(Entries)
  /\ Len(cnv_queue) <= CnvQueueLen
  /\ cpc \in {"receive", "read1", "read2", "fill"}
  /\ item \in Entries
  /\ got \in [Halves -> Nat]
  /\ others \in Nat

\* The converter never works on samples older than the ones its entry was
\* queued for, although it holds no more than a pointer.
SamplesFresh == cpc = "fill" => \A h \in 1..item.len : got[h] >= item.id

\* The converter has begun on the samples of the last call, and wherever they are
\* it has looked at nothing older.
LastLooked == \A h \in Halves : h <= item.len /\ h <= len => got[h] = calls

\* When the music pauses and the queue has run empty, the converter has looked
\* at the last samples, even if the queue was full when they came: an older entry
\* leads to them, as far as that entry's own length goes.
LastSamplesSeen ==
  cbpc = "idle" /\ cnv_queue = <<>> /\ cpc = "receive" => LastLooked

\* The lights follow the music to its end: in the end the last samples have
\* been converted and the strip has come to rest on the last frame that the queue
\* of the renderer has accepted.
LightsSettle ==
  <>[](cbpc = "idle" /\ LastLooked /\ shown = [h \in Halves |-> accepted])
=============================================================================
