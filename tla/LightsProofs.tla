----------------------------- MODULE LightsProofs -----------------------------
(***************************************************************************)
(* Proofs about the lights: the strip and its renderer (LedStrip), and the  *)
(* conversion of music into light that feeds it (AudioConvert), for any     *)
(* number of frames and producers.                                          *)
(***************************************************************************)
EXTENDS AudioConvert, TLAPS

(***************************************************************************)
(* The strip: led_strip_refresh, the renderer task and the RMT driver.      *)
(***************************************************************************)
\* The last frame accepted is the last in the queue, or in the buffer.
LastAccepted ==
  IF in_queue = <<>> THEN pixels = accepted ELSE in_queue[Len(in_queue)] = accepted

\* Frames keep their order on the way through the queue.
InOrder ==
  /\ \A i \in 1..Len(in_queue) : pixels <= in_queue[i]
  /\ \A i, j \in 1..Len(in_queue) : i < j => in_queue[i] <= in_queue[j]
  /\ \A i \in 1..Len(in_queue) : in_queue[i] <= accepted
  /\ pixels <= accepted

\* Nothing is newer on the strip than in the buffer, and what is encoded is not
\* older than what is shown.
Behind ==
  \A h \in Halves : /\ shown[h] <= pixels
                    /\ h <= coded => shown[h] <= wire[h] /\ wire[h] <= pixels

\* The last pending transmission sends the buffer as it is.
LastSendsBuffer ==
  /\ trans = 0 => coded = 0
  /\ rpc = "receive" /\ trans = 1 => \A h \in Halves : h <= coded => wire[h] = pixels
  /\ rpc = "receive" /\ trans = 0 => \A h \in Halves : shown[h] = pixels

SInv == StripTypeOK /\ LastAccepted /\ InOrder /\ Behind /\ LastSendsBuffer

\* led_strip_init leaves the strip in a state of the invariant.
LEMMA StripInitInv == StripInit => SInv
  <1> SUFFICES ASSUME StripInit PROVE SInv
    OBVIOUS
  <1>1. in_queue \in Seq(Nat) /\ Len(in_queue) = 1 /\ in_queue[1] = 1
    BY DEF StripInit
  <1>2. StripTypeOK
    BY <1>1, StripAssumption DEF StripInit, StripTypeOK
  <1>3. LastAccepted /\ InOrder
    BY <1>1 DEF StripInit, LastAccepted, InOrder
  <1>4. Behind /\ LastSendsBuffer
    BY DEF StripInit, Behind, LastSendsBuffer, Halves
  <1> QED BY <1>2, <1>3, <1>4 DEF SInv

\* xQueueSend.
LEMMA AcceptInv ==
  ASSUME SInv, Accept
  PROVE  SInv'
  <1> USE DEF SInv
  <1>1. /\ in_queue \in Seq(Nat) /\ accepted \in Nat /\ pixels \in Nat
        /\ Len(in_queue) \in Nat /\ Len(in_queue) < QueueLen
    BY StripAssumption DEF StripTypeOK, Accept, Full
  <1>2. /\ in_queue' \in Seq(Nat)
        /\ Len(in_queue') = Len(in_queue) + 1
        /\ in_queue'[Len(in_queue) + 1] = accepted + 1
        /\ \A i \in 1..Len(in_queue) : in_queue'[i] = in_queue[i] /\ in_queue[i] \in Nat
    BY <1>1 DEF Accept
  <1>3. StripTypeOK'
    BY <1>1, <1>2, StripAssumption DEF Accept, StripTypeOK
  <1>4. LastAccepted'
    <2>1. in_queue' # <<>>
      BY <1>1, <1>2
    <2> QED BY <1>1, <1>2, <2>1 DEF LastAccepted, Accept
  <1>5. InOrder'
    <2>1. \A i \in 1..Len(in_queue') : i \in 1..Len(in_queue) \/ i = Len(in_queue) + 1
      BY <1>1, <1>2
    <2>2. pixels' = pixels /\ accepted' = accepted + 1
      BY DEF Accept
    <2>3. ASSUME NEW i \in 1..Len(in_queue')
          PROVE  pixels' <= in_queue'[i] /\ in_queue'[i] <= accepted'
      <3>1. CASE i \in 1..Len(in_queue)
        <4>1. in_queue'[i] = in_queue[i] /\ in_queue[i] \in Nat
          BY <1>2, <3>1
        <4>2. pixels <= in_queue[i] /\ in_queue[i] <= accepted
          BY <3>1 DEF InOrder
        <4> QED BY <1>1, <2>2, <4>1, <4>2
      <3>2. CASE i = Len(in_queue) + 1
        BY <1>1, <1>2, <2>2, <3>2 DEF InOrder
      <3> QED BY <2>1, <3>1, <3>2
    <2>4. ASSUME NEW i \in 1..Len(in_queue'), NEW j \in 1..Len(in_queue'), i < j
          PROVE  in_queue'[i] <= in_queue'[j]
      <3>1. i \in 1..Len(in_queue)
        BY <1>1, <1>2, <2>4
      <3>2. CASE j \in 1..Len(in_queue)
        BY <1>2, <2>4, <3>1, <3>2 DEF InOrder
      <3>3. CASE j = Len(in_queue) + 1
        <4>1. in_queue[i] \in Nat /\ in_queue[i] <= accepted
          BY <1>2, <3>1 DEF InOrder
        <4>2. in_queue'[j] = accepted + 1 /\ in_queue'[i] = in_queue[i]
          BY <1>2, <3>1, <3>3
        <4> QED BY <1>1, <4>1, <4>2
      <3> QED BY <2>1, <3>2, <3>3
    <2>5. pixels' <= accepted'
      BY <1>1, <2>2 DEF InOrder
    <2> QED BY <2>3, <2>4, <2>5 DEF InOrder
  <1>6. Behind' /\ LastSendsBuffer'
    BY DEF Accept, Behind, LastSendsBuffer
  <1> QED BY <1>3, <1>4, <1>5, <1>6

\* xQueueReceive.
LEMMA ReceiveInv ==
  ASSUME SInv, Receive
  PROVE  SInv'
  <1> USE DEF SInv
  <1>1. /\ in_queue \in Seq(Nat) /\ in_queue # <<>> /\ Len(in_queue) \in Nat \ {0}
        /\ Len(in_queue) <= QueueLen /\ pixels \in Nat /\ accepted \in Nat
        /\ \A i \in 1..Len(in_queue) : in_queue[i] \in Nat
    BY DEF StripTypeOK, Receive
  <1>2. /\ in_queue' \in Seq(Nat)
        /\ Len(in_queue') = Len(in_queue) - 1
        /\ \A i \in 1..Len(in_queue') : in_queue'[i] = in_queue[i + 1]
        /\ pixels' = in_queue[1]
        /\ accepted' = accepted
    BY <1>1 DEF Receive
  <1>3. StripTypeOK'
    BY <1>1, <1>2, StripAssumption DEF Receive, StripTypeOK
  <1>4. LastAccepted'
    <2>1. in_queue[Len(in_queue)] = accepted
      BY <1>1 DEF LastAccepted
    <2>2. CASE Len(in_queue) = 1
      <3>1. in_queue' = <<>>
        BY <1>2, <2>2
      <3> QED BY <1>2, <2>1, <2>2, <3>1 DEF LastAccepted
    <2>3. CASE Len(in_queue) # 1
      <3>1. Len(in_queue') \in 1..Len(in_queue') /\ in_queue' # <<>>
        BY <1>1, <1>2, <2>3
      <3>2. in_queue'[Len(in_queue')] = in_queue[Len(in_queue)]
        BY <1>1, <1>2, <3>1
      <3> QED BY <1>2, <2>1, <3>1, <3>2 DEF LastAccepted
    <2> QED BY <2>2, <2>3
  <1>5. InOrder'
    <2>1. 1 \in 1..Len(in_queue)
      BY <1>1
    <2>2. \A i \in 1..Len(in_queue') : i + 1 \in 1..Len(in_queue) /\ 1 < i + 1
      BY <1>1, <1>2
    <2>3. \A i \in 1..Len(in_queue') : pixels' <= in_queue'[i] /\ in_queue'[i] <= accepted'
      BY <1>2, <2>1, <2>2 DEF InOrder
    <2>4. \A i, j \in 1..Len(in_queue') : i < j => in_queue'[i] <= in_queue'[j]
      BY <1>2, <2>2 DEF InOrder
    <2>5. pixels' <= accepted'
      BY <1>2, <2>1 DEF InOrder
    <2> QED BY <2>3, <2>4, <2>5 DEF InOrder
  <1>6. Behind'
    <2>1. pixels <= pixels'
      BY <1>1, <1>2 DEF InOrder
    <2> QED BY <1>1, <1>2, <2>1 DEF Behind, Receive, StripTypeOK
  <1>7. LastSendsBuffer'
    BY DEF LastSendsBuffer, Receive
  <1> QED BY <1>3, <1>4, <1>5, <1>6, <1>7

\* Every step keeps the invariant.
LEMMA StripNextInv == SInv /\ [StripNext]_stripVars => SInv'
  <1> SUFFICES ASSUME SInv, [StripNext]_stripVars PROVE SInv'
    OBVIOUS
  <1> USE DEF SInv
  <1>1. CASE Transmit
    <2>1. StripTypeOK'
      BY <1>1, StripAssumption DEF Transmit, StripTypeOK
    <2>2. LastAccepted' /\ InOrder' /\ Behind'
      BY <1>1 DEF Transmit, LastAccepted, InOrder, Behind
    <2>3. LastSendsBuffer'
      BY <1>1 DEF Transmit, LastSendsBuffer, StripTypeOK, Halves
    <2> QED BY <2>1, <2>2, <2>3
  <1>2. CASE Encode
    <2>1. coded + 1 \in Halves
      BY <1>2 DEF Encode, StripTypeOK, Halves
    <2>2. StripTypeOK'
      BY <1>2, <2>1 DEF Encode, StripTypeOK
    <2>3. LastAccepted' /\ InOrder'
      BY <1>2 DEF Encode, LastAccepted, InOrder
    <2>4. \A h \in Halves : h <= coded' => h <= coded \/ h = coded + 1
      BY <1>2 DEF Encode, StripTypeOK, Halves
    <2>5. /\ wire'[coded + 1] = pixels /\ pixels' = pixels /\ shown' = shown
          /\ \A h \in Halves : h # coded + 1 => wire'[h] = wire[h]
      BY <1>2, <2>1 DEF Encode, StripTypeOK
    <2>6. Behind'
      BY <2>4, <2>5 DEF Behind, StripTypeOK
    <2>7. LastSendsBuffer'
      BY <1>2, <2>4, <2>5 DEF LastSendsBuffer, Encode, StripTypeOK
    <2> QED BY <2>2, <2>3, <2>6, <2>7
  <1>3. CASE SendDone
    <2>1. trans \in 1..TransDepth
      BY <1>3, StripAssumption DEF SendDone, StripTypeOK, LastSendsBuffer
    <2>2. StripTypeOK'
      BY <1>3, <2>1, StripAssumption DEF SendDone, StripTypeOK
    <2>3. LastAccepted' /\ InOrder'
      BY <1>3 DEF SendDone, LastAccepted, InOrder
    <2>4. LastSendsBuffer'
      BY <1>3, <2>1, StripAssumption DEF SendDone, LastSendsBuffer, StripTypeOK, Halves
    <2>5. Behind'
      BY <1>3 DEF SendDone, Behind, StripTypeOK, Halves
    <2> QED BY <2>2, <2>3, <2>4, <2>5
  <1>4. CASE UNCHANGED stripVars
    BY <1>4 DEF stripVars, StripTypeOK, LastAccepted, InOrder, Behind, LastSendsBuffer
  <1> QED BY <1>1, <1>2, <1>3, <1>4, AcceptInv, ReceiveInv DEF StripNext, Renderer, Rmt

\* The invariant holds throughout.
LEMMA StripAlways == StripSpec => []SInv
  BY StripInitInv, StripNextInv, PTL DEF StripSpec

\* Type correctness of the strip: the queue and the descriptors of the RMT
\* channel stay within their sizes.
THEOREM StripTypes == StripSpec => []StripTypeOK
  <1>1. SInv => StripTypeOK
    BY DEF SInv
  <1> QED BY <1>1, StripAlways, PTL

\* The strip comes to rest on the last frame that led_strip_fill_data put into
\* the queue, however many frames were copied over each other on the way.
THEOREM StripRests == StripSpec => []StripSettles
  <1>1. SInv => StripSettles
    <2> SUFFICES ASSUME SInv, Settled PROVE shown = [h \in Halves |-> accepted]
      BY DEF StripSettles
    <2>1. pixels = accepted
      BY DEF SInv, Settled, LastAccepted
    <2>2. \A h \in Halves : shown[h] = pixels
      BY DEF SInv, Settled, LastSendsBuffer
    <2> QED BY <2>1, <2>2 DEF SInv, StripTypeOK
  <1> QED BY <1>1, StripAlways, PTL

\* Queue, renderer and RMT channel implement the abstract display: frames are
\* shown in the order in which the queue accepted them.
THEOREM DisplayImplemented == StripSpec => ImplementsDisplay
  <1>1. StripInit => Promise!Init
    BY DEF StripInit, Promise!Init
  <1>2. SInv /\ [StripNext]_stripVars => [Promise!Next]_<<accepted, shown>>
    <2> SUFFICES ASSUME SInv, [StripNext]_stripVars
                 PROVE  [Promise!Next]_<<accepted, shown>>
      OBVIOUS
    <2>1. CASE SendDone
      <3>1. \A h \in Halves : shown[h] <= shown'[h] /\ shown'[h] <= accepted
        BY <2>1 DEF SInv, Behind, InOrder, SendDone, StripTypeOK, Halves
      <3>2. UNCHANGED accepted
        BY <2>1 DEF SendDone
      <3> QED BY <3>1, <3>2 DEF Promise!Next, Promise!Refresh
    <2>2. CASE Accept
      BY <2>2 DEF Accept, Promise!Next, Promise!Accept
    <2>3. CASE Receive \/ Transmit \/ Encode \/ UNCHANGED stripVars
      BY <2>3 DEF Receive, Transmit, Encode, stripVars
    <2> QED BY <2>1, <2>2, <2>3 DEF StripNext, Renderer, Rmt
  <1> QED BY <1>1, <1>2, StripAlways, PTL DEF StripSpec, ImplementsDisplay, Promise!Spec

(***************************************************************************)
(* The conversion of music into light.                                      *)
(***************************************************************************)
AudioType ==
  /\ buffer \in [Halves -> Nat]
  /\ calls \in Nat
  /\ cbpc \in {"idle", "copy", "send"}
  /\ len \in Halves
  /\ cnv_queue \in Seq(Entries)
  /\ Len(cnv_queue) <= CnvQueueLen
  /\ cpc \in {"receive", "read1", "read2", "fill"}
  /\ item \in Entries
  /\ got \in [Halves -> Nat]
  /\ others \in Nat

\* Outside the copy loop the buffer holds the samples of the last call, as many as
\* there were, and in the middle of the loop their first half.
BufferWhole ==
  /\ buffer[1] = calls
  /\ cbpc = "copy" => len = 2
  /\ cbpc # "copy" /\ len = 2 => buffer[2] = calls

\* The samples of an entry, or newer ones, are in f.
HasSamples(e, f) == e.id <= f[1] /\ (e.len = 2 => e.id <= f[2])

\* The buffer is never older than what a queue entry, or the entry the converter
\* has taken, was queued for, nor is what the converter has read so far.
EntriesBehind ==
  /\ \A i \in 1..Len(cnv_queue) : HasSamples(cnv_queue[i], buffer)
  /\ HasSamples(item, buffer)
  /\ buffer[1] <= calls /\ buffer[2] <= calls
  /\ cpc \in {"read2", "fill"} => item.id <= got[1]
  /\ cpc = "fill" /\ item.len = 2 => item.id <= got[2]

\* Between two calls an entry is left that leads to the samples, or the
\* converter is on its way through them, or it has them.
SamplesReached ==
  cbpc = "idle" =>
    \/ cnv_queue # <<>>
    \/ cpc = "read1"
    \/ cpc = "read2" /\ got[1] = calls
    \/ cpc \in {"fill", "receive"} /\ got[1] = calls /\ (item.len = 2 /\ len = 2 => got[2] = calls)

AInv == AudioType /\ BufferWhole /\ EntriesBehind /\ SamplesReached

\* audio_convert_init leaves the converter in a state of the invariant.
LEMMA AudioInit == Init => AInv
  <1> SUFFICES ASSUME Init PROVE AInv
    OBVIOUS
  <1>1. cnv_queue = <<>> /\ Len(cnv_queue) = 0 /\ cnv_queue \in Seq(Entries)
    BY DEF Init
  <1> QED BY <1>1, ConvertAssumption
    DEF Init, AInv, AudioType, BufferWhole, EntriesBehind, HasSamples, SamplesReached, Halves, Entries

\* The copy loop of the callback only brings newer samples.
LEMMA CopyInv ==
  ASSUME AInv, CbBegin \/ CbCopy
  PROVE  AInv'
  <1> USE DEF AInv, Halves
  <1>1. /\ cnv_queue' = cnv_queue /\ item' = item /\ got' = got /\ cpc' = cpc
        /\ others' = others /\ cbpc' # "idle"
    BY DEF CbBegin, CbCopy
  <1>2. /\ AudioType' /\ BufferWhole'
        /\ buffer[1] <= buffer'[1] /\ buffer[2] <= buffer'[2]
        /\ buffer'[1] <= calls' /\ buffer'[2] <= calls'
    <2>1. CASE CbBegin
      BY <2>1 DEF CbBegin, AudioType, BufferWhole, EntriesBehind
    <2>2. CASE CbCopy
      BY <2>2 DEF CbCopy, AudioType, BufferWhole, EntriesBehind
    <2> QED BY <2>1, <2>2
  <1>3. \A e \in Entries : HasSamples(e, buffer) => HasSamples(e, buffer')
    BY <1>2 DEF HasSamples, Entries, AudioType
  <1>4. EntriesBehind'
    BY <1>1, <1>2, <1>3 DEF EntriesBehind, AudioType
  <1>5. SamplesReached'
    BY <1>1 DEF SamplesReached
  <1> QED BY <1>2, <1>4, <1>5

\* Whether the queue takes the pointer or not, an entry is left.
LEMMA SendInv ==
  ASSUME AInv, CbSend
  PROVE  AInv'
  <1> USE DEF AInv
  <1>1. /\ buffer' = buffer /\ item' = item /\ got' = got /\ cpc' = cpc
        /\ calls' = calls /\ others' = others /\ cbpc = "send" /\ cbpc' = "idle"
    BY DEF CbSend
  <1>2. /\ cnv_queue \in Seq(Entries) /\ Len(cnv_queue) \in Nat /\ len' = len
        /\ Entry \in Entries /\ HasSamples(Entry, buffer)
    BY <1>1 DEF AudioType, BufferWhole, Entry, Entries, HasSamples, CbSend
  <1>3. /\ cnv_queue' \in Seq(Entries) /\ Len(cnv_queue') <= CnvQueueLen
        /\ cnv_queue' # <<>>
        /\ \A i \in 1..Len(cnv_queue') : HasSamples(cnv_queue'[i], buffer)
    <2>1. CASE Len(cnv_queue) < CnvQueueLen
      <3>1. cnv_queue' = Append(cnv_queue, Entry)
        BY <2>1 DEF CbSend
      <3>2. /\ Len(cnv_queue') = Len(cnv_queue) + 1
            /\ cnv_queue' \in Seq(Entries)
            /\ cnv_queue'[Len(cnv_queue) + 1] = Entry
            /\ \A i \in 1..Len(cnv_queue) : cnv_queue'[i] = cnv_queue[i]
        BY <1>2, <3>1
      <3>3. \A i \in 1..Len(cnv_queue') : i \in 1..Len(cnv_queue) \/ i = Len(cnv_queue) + 1
        BY <1>2, <3>2
      <3>4. \A i \in 1..Len(cnv_queue') : HasSamples(cnv_queue'[i], buffer)
        BY <1>2, <3>2, <3>3 DEF EntriesBehind
      <3>5. Len(cnv_queue') <= CnvQueueLen /\ cnv_queue' # <<>>
        BY <1>2, <2>1, <3>2, ConvertAssumption
      <3> QED BY <3>2, <3>4, <3>5
    <2>2. CASE ~(Len(cnv_queue) < CnvQueueLen)
      <3>1. cnv_queue' = cnv_queue
        BY <2>2 DEF CbSend
      <3>2. cnv_queue # <<>>
        BY <1>2, <2>2, ConvertAssumption
      <3> QED BY <1>2, <3>1, <3>2 DEF EntriesBehind, AudioType
    <2> QED BY <2>1, <2>2
  <1>4. AudioType'
    BY <1>1, <1>2, <1>3 DEF AudioType
  <1>5. BufferWhole'
    BY <1>1, <1>2 DEF BufferWhole
  <1>6. EntriesBehind'
    BY <1>1, <1>2, <1>3 DEF EntriesBehind
  <1>7. SamplesReached'
    BY <1>3 DEF SamplesReached
  <1> QED BY <1>4, <1>5, <1>6, <1>7

\* The converter takes an entry, reads the buffer and makes a frame.
LEMMA ConverterInv ==
  ASSUME AInv, Converter
  PROVE  AInv'
  <1> USE DEF AInv
  <1>1. buffer' = buffer /\ calls' = calls /\ len' = len /\ cbpc' = cbpc /\ others' = others
    BY DEF Converter, CnvReceive, CnvRead, CnvFill
  <1>2. CASE CnvReceive
    <2>1. /\ cnv_queue \in Seq(Entries) /\ cnv_queue # <<>> /\ Len(cnv_queue) \in Nat \ {0}
          /\ \A i \in 1..Len(cnv_queue) : cnv_queue[i] \in Entries
      BY <1>2 DEF CnvReceive, AudioType
    <2>2. /\ cnv_queue' \in Seq(Entries)
          /\ Len(cnv_queue') = Len(cnv_queue) - 1
          /\ \A i \in 1..Len(cnv_queue') : cnv_queue'[i] = cnv_queue[i + 1]
          /\ item' = cnv_queue[1] /\ got' = got /\ cpc' = "read1"
      BY <1>2, <2>1 DEF CnvReceive
    <2>3. 1 \in 1..Len(cnv_queue) /\ \A i \in 1..Len(cnv_queue') : i + 1 \in 1..Len(cnv_queue)
      BY <2>1, <2>2
    <2>4. AudioType'
      BY <1>1, <2>1, <2>2, <2>3, ConvertAssumption DEF AudioType
    <2>5. BufferWhole' /\ SamplesReached'
      BY <1>1, <2>2 DEF BufferWhole, SamplesReached
    <2>6. EntriesBehind'
      BY <1>1, <2>2, <2>3 DEF EntriesBehind
    <2> QED BY <2>4, <2>5, <2>6
  <1>3. CASE CnvRead
    <2> USE DEF Halves
    <2>1. cnv_queue' = cnv_queue /\ item' = item
      BY <1>3 DEF CnvRead
    <2>2. \/ /\ cpc = "read1" /\ cpc' = IF item.len = 1 THEN "fill" ELSE "read2"
             /\ got' \in [Halves -> Nat] /\ got'[1] = buffer[1]
          \/ /\ cpc = "read2" /\ cpc' = "fill"
             /\ got' \in [Halves -> Nat] /\ got'[1] = got[1] /\ got'[2] = buffer[2]
      BY <1>3 DEF CnvRead, AudioType
    <2>3. AudioType'
      BY <1>1, <2>1, <2>2 DEF AudioType
    <2>4. BufferWhole'
      BY <1>1 DEF BufferWhole
    <2>5. EntriesBehind'
      BY <1>1, <2>1, <2>2 DEF EntriesBehind, HasSamples
    <2>6. SamplesReached'
      BY <1>1, <2>1, <2>2 DEF SamplesReached, BufferWhole
    <2> QED BY <2>3, <2>4, <2>5, <2>6
  <1>4. CASE CnvFill
    BY <1>1, <1>4 DEF CnvFill, AudioType, BufferWhole, EntriesBehind, SamplesReached
  <1> QED BY <1>2, <1>3, <1>4 DEF Converter

\* Every step keeps the invariant.
LEMMA AudioNext == AInv /\ [Next]_vars => AInv'
  <1> SUFFICES ASSUME AInv, [Next]_vars PROVE AInv'
    OBVIOUS
  <1>1. CASE OtherFrame
    BY <1>1 DEF OtherFrame, AInv, AudioType, BufferWhole, EntriesBehind, SamplesReached
  <1>2. CASE UNCHANGED audioVars
    BY <1>2 DEF audioVars, AInv, AudioType, BufferWhole, EntriesBehind, SamplesReached
  <1> QED BY <1>1, <1>2, CopyInv, SendInv, ConverterInv DEF Next, Callback, Strip, vars

\* The invariant holds throughout.
LEMMA AudioAlways == Spec => []AInv
  BY AudioInit, AudioNext, PTL DEF Spec

\* The strip as it is used by audio_convert.c is the strip of led_strip.c: the
\* converter and the other tasks do nothing to it but hand in frames.
THEOREM StripPart == Spec => StripSpec
  <1>1. Init => StripInit
    BY DEF Init
  <1>2. [Next]_vars => [StripNext]_stripVars
    BY DEF Next, Callback, CbBegin, CbCopy, CbSend, Converter, CnvReceive, CnvRead,
           CnvFill, OtherFrame, Strip, StripNext, vars
  <1> QED BY <1>1, <1>2, PTL DEF Spec, StripSpec

\* Type correctness of the callback, the converter and the strip.
THEOREM AudioTypes == Spec => []TypeOK
  <1>1. AInv /\ StripTypeOK => TypeOK
    BY DEF AInv, AudioType, TypeOK
  <1> QED BY <1>1, AudioAlways, StripPart, StripTypes, PTL

\* cnv_pattern_myenergy_mode never works on samples older than the ones its
\* queue entry was made for, although all entries point to one buffer.
THEOREM FreshSamples == Spec => []SamplesFresh
  <1>1. AInv => SamplesFresh
    BY DEF AInv, AudioType, EntriesBehind, SamplesFresh, Halves, Entries
  <1> QED BY <1>1, AudioAlways, PTL

\* When the callback and the converter are idle the converter has looked at the
\* last samples, even if audio_convert_fill_data discarded their pointer and some
\* buffers were short.
THEOREM LastSeen == Spec => []LastSamplesSeen
  <1>1. AInv => LastSamplesSeen
    BY DEF AInv, AudioType, SamplesReached, LastSamplesSeen, LastLooked, Halves, Entries
  <1> QED BY <1>1, AudioAlways, PTL

\* With music playing too, the strip comes to rest on the last frame accepted,
\* and shows all frames in order.
THEOREM LightsRest == Spec => []StripSettles /\ ImplementsDisplay
  BY StripPart, StripRests, DisplayImplemented, PTL
===============================================================================
