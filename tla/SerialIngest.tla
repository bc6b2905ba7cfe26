------------------------------ MODULE SerialIngest ------------------------------
(***************************************************************************)
(* The way from the serial line to the sensor data: SerialGateway and one  *)
(* of the pipeline's decoder workers, which takes packets from rawData.    *)
(***************************************************************************)
EXTENDS SerialGateway, Decoder

SentData == {SensorData(Wire[i]) : i \in {j \in DOMAIN Wire : Extractable(Wire[j])}}

(***************************************************************************)
(* What noise may make of the stream, and whether a checksum of 16 bits is *)
(* enough to tell all of it from data that was not sent: it accepts one    *)
(* piece of the stream in 65536, so there are wires for which it is not.   *)
(***************************************************************************)
Received ==
  LET Damage(D) == {f \in [D -> UNION {Damaged[Bytestream[i]] : i \in D}] :
                      \A i \in D : f[i] \in Damaged[Bytestream[i]]}
  IN UNION {{[i \in DOMAIN Bytestream |-> IF i \in D THEN f[i] ELSE Bytestream[i]] : f \in Damage(D)}
              : D \in {D \in SUBSET DOMAIN Bytestream : Cardinality(D) <= MaxNoise}}

CollisionFree ==
  \A stream \in Received : \A i, j \in DOMAIN stream :
    LET piece == SubSeq(stream, i, j)
    IN Extractable(piece) => SensorData(piece) \in SentData

\* Bytes come over the line, damaged or not.
ASSUME IngestAssumption ==
  /\ Wire \in Seq(Seq(Bytes))
  /\ \A i \in DOMAIN Bytestream : Damaged[Bytestream[i]] \subseteq Bytes

VARIABLES decoded,   \* the sensor data the worker has obtained
          stats      \* the decoder's counters

workerVars == <<decoded, stats>>
allVars == <<vars, workerVars>>

IngestInit == Init /\ decoded = {} /\ stats = [c \in CountersOfDecoder |-> 0]

Receive == rawData # <<>> /\ rawData' = Tail(rawData)

Decode_FaultyUnchecked(data) ==
  /\ stats' = [c \in CountersOfDecoder |->
                 stats[c] + (IF c \in Raised(data) THEN 1 ELSE 0)]
  /\ decoded' = IF Oversized(data) \/ TooShort(data) THEN decoded
                ELSE decoded \cup {SensorData(data)}

Decode(data) ==
  /\ stats' = [c \in CountersOfDecoder |->
                 stats[c] + (IF c \in Raised(data) THEN 1 ELSE 0)]
  /\ decoded' = IF Extractable(data) THEN decoded \cup {SensorData(data)} ELSE decoded

decoderWorker ==
  /\ Receive
  /\ Decode(Head(rawData))
  /\ UNCHANGED <<readVars, stopVars, lineVars, line, pc, quiet, faults, untimely, dispatched>>

IngestNext == decoderWorker \/ (GatewayNext /\ UNCHANGED workerVars)

(***************************************************************************)
(* The goroutines run and time passes: a read that gets no byte ends.      *)
(* Nobody need transmit or stop.  (The actions are given by the variables  *)
(* that tell them from all others.)                                        *)
(***************************************************************************)
Fairness ==
  /\ WF_vars(readLoop)
  /\ WF_vars(StopGoesOn)
  /\ WF_vars(Silence)
  /\ WF_rawData(Receive)

Spec == IngestInit /\ [][IngestNext]_allVars /\ Fairness

-----------------------------------------------------------------------------
\* How many bytes the first i packets contain.
BytesIn(i) == Len(FlattenSeq([j \in 1 .. i |-> dispatched[j].data]))

TypeOK ==
  /\ {running, cancelled, quiet, chanClosed, timedOut, pause, untimely} \subseteq BOOLEAN
  /\ port \in {"none", "open", "closed", "nil"}
  /\ pc \in {"off", "loop", "read", "got", "append", "size", "backoff", "flush", "done"}
  /\ Len(frameBuffer) <= MaxFrameBufferSize /\ Len(buffer) <= ReadSize
  /\ totalErrors \in 0 .. SerialErrorThreshold + 1
  /\ Len(rawData) <= RawBufferSize
  /\ noise \in 0 .. MaxNoise /\ faults \in 0 .. MaxFaults
  /\ \A i \in DOMAIN dispatched :
       dispatched[i].fate \in {"sent", "dropped", "cancelled", "panic"}

\* No byte that was read is lost, doubled or moved on its way into packets,
\* whatever is cut by silence, by size, by overflow or by errors in between
\* (serial.go:98-178).
Conserved ==
  FlattenSeq([i \in DOMAIN dispatched |-> dispatched[i].data]) \o frameBuffer \o buffer \o line = sent

\* If every byte is read in time and every frame begins after a pause, then each
\* packet is one frame until Stop is called, whatever pieces the reads return
\* (serial.go:148-172).
FramesIntact ==
  (running /\ ~untimely)
    => \A i \in DOMAIN dispatched : BytesIn(i) \in FrameEnds

\* A datum that leaves the decoder was sent by a sensor, although packets may
\* consist of pieces of frames, of several frames and of damaged ones
\* (decoder.go:54-109, 126-165; crc16.go:32-40).
IntegrityKept == decoded \subseteq SentData

\* A noise count on an undisturbed line has a cause: a frame was cut or glued
\* because its bytes were read late or came too early, or by Stop
\* (decoder.go:98-102, serial.go:150-172).
NoiseHasCause ==
  stats["noise"] > 0 => noise > 0 \/ untimely \/ ~running

\* As long as reader and worker keep up, every frame of an undisturbed line is
\* decoded in the end; in particular the last one, which only a silence ends, and
\* those around a failed read (serial.go:113-172).
Undisturbed ==
  /\ running /\ ~untimely /\ noise = 0
  /\ \A i \in DOMAIN dispatched : dispatched[i].fate = "sent"

EveryFrameDecoded ==
  (Len(sent) = Len(Bytestream))
    ~> (~Undisturbed \/ decoded = SentData)
==============================================================================
