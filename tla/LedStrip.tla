------------------------------- MODULE LedStrip -------------------------------
(***************************************************************************)
(* The LED strip (led_strip.c): any task hands a frame, the colours of the  *)
(* four LEDs, to led_strip_fill_data, which puts it into a queue of three   *)
(* or discards it; the renderer task copies frame after frame into the one  *)
(* buffer led_strip_pixels and hands that buffer to the RMT peripheral.     *)
(*                                                                          *)
(* rmt_transmit does not wait for the data to be sent, so the next frame    *)
(* may be copied over the one under way, and up to TransDepth transmissions *)
(* of the same buffer may be pending.                                       *)
(*                                                                          *)
(* Frames are numbered in the order in which the queue accepts them.        *)
(***************************************************************************)
EXTENDS Naturals, Sequences

CONSTANTS
  QueueLen,    \* xQueueCreate(3, ...)
  TransDepth,  \* .trans_queue_depth = 4
  MaxFrames    \* bound on the frames accepted

ASSUME StripAssumption ==
  /\ QueueLen \in Nat \ {0}
  /\ TransDepth \in Nat \ {0}
  /\ MaxFrames \in Nat \ {0}

VARIABLES
  in_queue,  \* g_ledstrip_renderer_handler.in_queue
  accepted,  \* the number of the last frame accepted
  pixels,    \* the frame in led_strip_pixels
  rpc,       \* program counter of the renderer task
  trans,     \* transmissions handed to the RMT channel and not done
  coded,     \* how many halves of the current transmission are encoded
  wire,      \* the frames that the two halves were encoded from
  shown      \* the frames that the two halves of the strip show

stripVars == <<in_queue, accepted, pixels, rpc, trans, coded, wire, shown>>

\* The 96 symbols of a frame do not fit the 64 of the channel's memory block:
\* they are encoded in two portions.
Halves == {1, 2}

\* led_strip_init ends with led_on().
StripInit ==
  /\ in_queue = <<1>>
  /\ accepted = 1
  /\ pixels = 0
  /\ rpc = "receive"
  /\ trans = 0
  /\ coded = 0
  /\ wire = [h \in Halves |-> 0]
  /\ shown = [h \in Halves |-> 0]

(***************************************************************************)
(* led_strip_fill_data                                                      *)
(***************************************************************************)
Full == Len(in_queue) = QueueLen

\* Mutant: the newest frame goes to the front (xQueueSendToFront).
AcceptToFront ==
  /\ ~Full
  /\ accepted < MaxFrames
  /\ in_queue' = <<accepted + 1>> \o in_queue
  /\ accepted' = accepted + 1
  /\ UNCHANGED <<pixels, rpc, trans, coded, wire, shown>>

\* xQueueSend finds room, at once or within a tick.  When it does not the frame
\* is discarded and nothing changes.
Accept ==
  /\ ~Full
  /\ accepted < MaxFrames
  /\ in_queue' = Append(in_queue, accepted + 1)
  /\ accepted' = accepted + 1
  /\ UNCHANGED <<pixels, rpc, trans, coded, wire, shown>>

(***************************************************************************)
(* led_strip_renderer_task                                                  *)
(***************************************************************************)
\* xQueueReceive(handle->in_queue, in_data, ...), where in_data is the buffer.
Receive ==
  /\ rpc = "receive"
  /\ in_queue # <<>>
  /\ pixels' = Head(in_queue)
  /\ in_queue' = Tail(in_queue)
  /\ rpc' = "transmit"
  /\ UNCHANGED <<accepted, trans, coded, wire, shown>>

\* Mutant: a frame is not sent while another is under way.
TransmitIfIdle ==
  /\ rpc = "transmit"
  /\ trans' = 1
  /\ rpc' = "receive"
  /\ UNCHANGED <<in_queue, accepted, pixels, coded, wire, shown>>

\* rmt_transmit waits only for a free descriptor.
Transmit ==
  /\ rpc = "transmit"
  /\ trans < TransDepth
  /\ trans' = trans + 1
  /\ rpc' = "receive"
  /\ UNCHANGED <<in_queue, accepted, pixels, coded, wire, shown>>

Renderer == Receive \/ Transmit

(***************************************************************************)
(* The RMT channel.                                                         *)
(***************************************************************************)
Encode ==
  /\ trans > 0
  /\ coded < 2
  /\ wire' = [wire EXCEPT ![coded + 1] = pixels]
  /\ coded' = coded + 1
  /\ UNCHANGED <<in_queue, accepted, pixels, rpc, trans, shown>>

\* All symbols are out and the LEDs latch them.
SendDone ==
  /\ coded = 2
  /\ shown' = wire
  /\ trans' = trans - 1
  /\ coded' = 0
  /\ UNCHANGED <<in_queue, accepted, pixels, rpc, wire>>

Rmt == Encode \/ SendDone

StripNext == Accept \/ Renderer \/ Rmt

StripSpec == StripInit /\ [][StripNext]_stripVars

(***************************************************************************)
(* Properties.                                                              *)
(***************************************************************************)
\* Every variable has its type; the queue never holds more than QueueLen frames
\* and the channel never more than TransDepth transmissions.
StripTypeOK ==
  /\ in_queue \in Seq(Nat)
  /\ Len(in_queue) <= QueueLen
  /\ accepted \in Nat
  /\ pixels \in Nat
  /\ rpc \in {"receive", "transmit"}
  /\ trans \in 0..TransDepth
  /\ coded \in 0..2
  /\ wire \in [Halves -> Nat]
  /\ shown \in [Halves -> Nat]

\* Nothing is on its way to the strip.
Settled == in_queue = <<>> /\ rpc = "receive" /\ trans = 0

\* Although frames are copied over each other while they are sent, the strip
\* comes to rest on the last frame the queue accepted, all of it.  (A frame that
\* led_strip_fill_data has discarded is not among these.)
StripSettles == Settled => shown = [h \in Halves |-> accepted]

\* Queue, renderer and RMT together implement the promise of Display, although
\* several pending transmissions share one buffer that is overwritten while it
\* is sent: no LED goes back to an older frame.
Promise == INSTANCE Display WITH Parts <- Halves, latest <- accepted

ImplementsDisplay == Promise!Spec

\* Every frame that was accepted, though not one that was discarded, is shown or
\* overtaken by a newer one.
FramesArrive ==
  \A n \in 1..MaxFrames : (accepted >= n) ~> (\A h \in Halves : shown[h] >= n)
=============================================================================
