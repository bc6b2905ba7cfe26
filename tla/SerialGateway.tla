------------------------------ MODULE SerialGateway ------------------------------
(***************************************************************************)
(* The serial gateway of internal/gateway/serial.go: the loop that cuts    *)
(* what it reads into packets by silence and by size, and Stop, followed   *)
(* by the closing of the channel in pipeline.Stop.                         *)
(*                                                                         *)
(* The line is not part of the program: sensors transmit the frames of     *)
(* Wire, byte by byte and without a pause within a frame.  Time is seen    *)
(* only in comparison with idleTimeout: Silence is the moment at which     *)
(* that long has passed since the last byte.  What comes over the line     *)
(* once the port is closed plays no part.                                  *)
(*                                                                         *)
(* Write has no caller and is left out, and so are the statistics.  A      *)
(* definition whose name ends in "_Faulty..." is a plausible bug in the    *)
(* definition that follows it; no behaviour of Spec uses it.               *)
(***************************************************************************)
EXTENDS Integers, SequencesExt

CONSTANTS Wire,               \* the frames that are sent, each a sequence of bytes
          Damaged,            \* byte -> what noise may make of it
          BurstSize,          \* bytes that the port's driver receives at a time
          MaxNoise, MaxFaults, \* bounds: damaged bytes, failing calls on the port
          ReadSize, MaxFrameBufferSize, DispatchSize, RawBufferSize,
          SerialErrorThreshold

ASSUME SerialAssumption ==
  /\ {MaxNoise, MaxFaults, SerialErrorThreshold} \subseteq Nat
  /\ {BurstSize, ReadSize, DispatchSize, RawBufferSize} \subseteq Nat \ {0}
  /\ MaxFrameBufferSize \in Nat
  /\ ReadSize <= MaxFrameBufferSize /\ DispatchSize <= MaxFrameBufferSize

Bytestream == FlattenSeq(Wire)
FrameEnds  == {Len(FlattenSeq(SubSeq(Wire, 1, i))) : i \in 0 .. Len(Wire)}

VARIABLES
  running, cancelled,
  port,          \* "none", "open", "closed", or "nil" again
  pc, stopPc,    \* what readLoop and Stop do next
  buffer,        \* the bytes of the last read that are not in frameBuffer yet
  frameBuffer,
  totalErrors,
  quiet,         \* more than idleTimeout has passed since lastByteTime
  rawData,       \* the channel,
  chanClosed,    \* which pipeline.Stop closes
  timedOut,      \* Stop has given up waiting for the loop
  line,          \* bytes received by the port and not read yet
  sent,          \* all bytes that have come over the line
  pause,         \* the line has been silent since the last byte
  noise, faults, \* damaged bytes and failed calls so far
  dispatched,    \* packets given to dispatchFrame, with what became of them
  untimely       \* a byte has waited for longer than idleTimeout to be read, or
                 \* a frame has begun without a pause before it

readVars == <<buffer, frameBuffer, totalErrors>>
chanVars == <<rawData, dispatched>>
stopVars == <<running, cancelled, port, stopPc, chanClosed, timedOut>>
lineVars == <<sent, pause, noise>>
vars == <<readVars, chanVars, stopVars, lineVars, line, pc, quiet, faults, untimely>>

Init ==
  /\ running = FALSE /\ cancelled = FALSE /\ port = "none"
  /\ pc = "off" /\ stopPc = "new"
  /\ buffer = <<>> /\ frameBuffer = <<>> /\ totalErrors = 0 /\ quiet = FALSE
  /\ rawData = <<>> /\ chanClosed = FALSE /\ timedOut = FALSE
  /\ line = <<>> /\ sent = <<>> /\ pause = TRUE /\ noise = 0 /\ faults = 0
  /\ dispatched = <<>> /\ untimely = FALSE

\* A failure to open the port ends the program before anything runs.
Start ==
  /\ stopPc = "new"
  /\ running' = TRUE /\ port' = "open" /\ pc' = "loop" /\ stopPc' = "started"
  /\ UNCHANGED <<readVars, chanVars, lineVars, line, cancelled, chanClosed, timedOut,
                 quiet, faults, untimely>>

-----------------------------------------------------------------------------
\* The line.

MidFrame == Len(sent) \notin FrameEnds

\* What comes next over the line: the rest of a frame, or a burst of it.
Burst ==
  LET frameEnd == Min({e \in FrameEnds : e > Len(sent)})
  IN SubSeq(Bytestream, Len(sent) + 1, Min({frameEnd, Len(sent) + BurstSize}))

Arrive(bytes, damaged) ==
  /\ sent' = sent \o bytes /\ line' = line \o bytes
  /\ noise' = noise + damaged
  /\ pause' = FALSE
  /\ untimely' = (untimely \/ (~MidFrame /\ ~pause))
  /\ UNCHANGED <<readVars, chanVars, stopVars, pc, quiet, faults>>

Transmit ==
  /\ port = "open" /\ Len(sent) < Len(Bytestream)
  /\ \/ Arrive(Burst, 0)
     \/ /\ noise < MaxNoise
        /\ \E i \in DOMAIN Burst : \E b \in Damaged[Burst[i]] :
             Arrive([Burst EXCEPT ![i] = b], 1)

\* Longer than idleTimeout nothing is received and nothing read.  Within a frame
\* that is the reader's doing, and the frame goes on arriving.
Silence ==
  /\ port = "open" /\ ~(quiet /\ pause)
  /\ MidFrame => line # <<>>
  /\ quiet' = TRUE
  /\ pause' = ~MidFrame
  /\ untimely' = (untimely \/ line # <<>> \/ pc = "got")
  /\ UNCHANGED <<readVars, chanVars, stopVars, line, sent, noise, pc, faults>>

-----------------------------------------------------------------------------
\* dispatchFrame.

Copied(data, fate) == dispatched' = Append(dispatched, [data |-> data, fate |-> fate])

\* The select: the default is taken only if neither the channel nor the context
\* is ready, and the choice is free if both are.
dispatchFrame(data) ==
  \/ /\ ~chanClosed /\ Len(rawData) < RawBufferSize
     /\ rawData' = Append(rawData, data) /\ Copied(data, "sent")
  \/ cancelled /\ Copied(data, "cancelled") /\ UNCHANGED rawData
  \/ /\ ~chanClosed /\ ~cancelled /\ Len(rawData) >= RawBufferSize
     /\ Copied(data, "dropped") /\ UNCHANGED rawData

\* Sends on the closed channel panic, after Stop has given up on the loop.
SendPanics(data) == chanClosed /\ Copied(data, "panic") /\ UNCHANGED rawData

-----------------------------------------------------------------------------
\* readLoop.

quietVars == <<line, lineVars, stopVars, faults, untimely>>

LoopCheck ==
  /\ pc = "loop"
  /\ pc' = IF running /\ ~cancelled THEN "read" ELSE "flush"
  /\ UNCHANGED <<readVars, chanVars, quietVars, quiet>>

\* Stop sets port to nil beside the loop.  Either the loop sees it and returns, or
\* it calls a method on it and panics, and SafeGoWG ends the goroutine in good
\* order: in both cases frameBuffer is lost.
PortGone ==
  /\ pc = "read" /\ port = "nil"
  /\ pc' = "done"
  /\ UNCHANGED <<readVars, chanVars, quietVars, quiet>>

ReadData ==
  /\ pc = "read" /\ port = "open" /\ line # <<>>
  /\ LET n == Min({Len(line), ReadSize})
     IN buffer' = SubSeq(line, 1, n) /\ line' = SubSeq(line, n + 1, Len(line))
  /\ totalErrors' = 0
  /\ pc' = "got"
  /\ UNCHANGED <<chanVars, stopVars, lineVars, faults, untimely, quiet, frameBuffer>>

\* No byte for the whole of the read's time-out.
ReadNothing ==
  /\ pc = "read" /\ port = "open" /\ line = <<>> /\ quiet
  /\ totalErrors' = 0
  /\ IF frameBuffer = <<>> THEN UNCHANGED chanVars ELSE dispatchFrame(frameBuffer)
  /\ frameBuffer' = <<>>
  /\ pc' = "loop"
  /\ UNCHANGED <<quietVars, quiet, buffer>>

Raise == totalErrors' = Min({totalErrors + 1, SerialErrorThreshold + 1})

\* The time-out cannot be set: the loop sleeps and begins anew.
SetReadTimeoutFails ==
  /\ pc = "read" /\ port # "nil"
  /\ faults < MaxFaults /\ faults' = faults + 1
  /\ Raise
  /\ pc' = "loop"
  /\ UNCHANGED <<chanVars, stopVars, lineVars, line, untimely, quiet, buffer, frameBuffer>>

PortFails ==
  /\ pc = "read" /\ port # "nil"
  /\ IF port = "closed" THEN UNCHANGED faults
     ELSE faults < MaxFaults /\ faults' = faults + 1

ReadFails_FaultyDiscards ==
  /\ PortFails
  /\ IF running
       THEN Raise /\ pc' = IF totalErrors' > SerialErrorThreshold THEN "backoff" ELSE "loop"
       ELSE pc' = "flush" /\ UNCHANGED totalErrors
  /\ frameBuffer' = <<>>
  /\ UNCHANGED <<chanVars, stopVars, lineVars, line, untimely, quiet, buffer>>

\* Errors are counted until a read succeeds, and what was read before is kept.
ReadFails ==
  /\ PortFails
  /\ IF running
       THEN Raise /\ pc' = IF totalErrors' > SerialErrorThreshold THEN "backoff" ELSE "loop"
       ELSE pc' = "flush" /\ UNCHANGED totalErrors
  /\ UNCHANGED <<chanVars, stopVars, lineVars, line, untimely, quiet, buffer, frameBuffer>>

Backoff ==
  /\ pc = "backoff"
  /\ pc' = "loop" \/ (cancelled /\ pc' = "flush")
  /\ UNCHANGED <<readVars, chanVars, quietVars, quiet>>

CutBySilence_FaultyNever ==
  /\ pc = "got"
  /\ quiet' = FALSE /\ pc' = "append"
  /\ UNCHANGED <<readVars, chanVars, quietVars>>

\* lastByteTime becomes the present at this read.
CutBySilence ==
  /\ pc = "got"
  /\ IF quiet /\ frameBuffer # <<>>
       THEN dispatchFrame(frameBuffer) /\ frameBuffer' = <<>>
       ELSE UNCHANGED <<chanVars, frameBuffer>>
  /\ quiet' = FALSE
  /\ pc' = "append"
  /\ UNCHANGED <<quietVars, buffer, totalErrors>>

AppendBuffer_FaultyUnbounded ==
  /\ pc = "append"
  /\ frameBuffer' = frameBuffer \o buffer
  /\ buffer' = <<>>
  /\ pc' = "size"
  /\ UNCHANGED <<chanVars, quietVars, quiet, totalErrors>>

AppendBuffer_FaultyTruncates ==
  /\ pc = "append"
  /\ frameBuffer' = IF Len(frameBuffer) + Len(buffer) > MaxFrameBufferSize
                    THEN buffer ELSE frameBuffer \o buffer
  /\ buffer' = <<>>
  /\ pc' = "size"
  /\ UNCHANGED <<chanVars, quietVars, quiet, totalErrors>>

\* What would not fit any more is handed on first.
AppendBuffer ==
  /\ pc = "append"
  /\ IF Len(frameBuffer) + Len(buffer) > MaxFrameBufferSize
       THEN /\ IF frameBuffer = <<>> THEN UNCHANGED chanVars
                                     ELSE dispatchFrame(frameBuffer)
            /\ frameBuffer' = buffer
       ELSE frameBuffer' = frameBuffer \o buffer /\ UNCHANGED chanVars
  /\ buffer' = <<>>
  /\ pc' = "size"
  /\ UNCHANGED <<quietVars, quiet, totalErrors>>

CutBySize ==
  /\ pc = "size"
  /\ IF Len(frameBuffer) >= DispatchSize
       THEN dispatchFrame(frameBuffer) /\ frameBuffer' = <<>>
       ELSE UNCHANGED <<chanVars, frameBuffer>>
  /\ pc' = "loop"
  /\ UNCHANGED <<quietVars, quiet, buffer, totalErrors>>

Flush ==
  /\ pc = "flush"
  /\ IF frameBuffer = <<>> THEN UNCHANGED chanVars ELSE dispatchFrame(frameBuffer)
  /\ frameBuffer' = <<>>
  /\ pc' = "done"
  /\ UNCHANGED <<quietVars, quiet, buffer, totalErrors>>

DispatchPanics ==
  /\ pc \in {"got", "append", "size", "flush"} /\ frameBuffer # <<>>
  /\ pc = "got" => quiet
  /\ pc = "append" => Len(frameBuffer) + Len(buffer) > MaxFrameBufferSize
  /\ pc = "size" => Len(frameBuffer) >= DispatchSize
  /\ SendPanics(frameBuffer)
  /\ frameBuffer' = <<>>
  /\ pc' = "done"
  /\ UNCHANGED <<quietVars, quiet, buffer, totalErrors>>

readLoop ==
  \/ LoopCheck \/ PortGone \/ ReadData \/ ReadNothing
  \/ SetReadTimeoutFails \/ ReadFails \/ Backoff
  \/ CutBySilence \/ AppendBuffer \/ CutBySize \/ Flush \/ DispatchPanics

-----------------------------------------------------------------------------
\* Stop, and pipeline.Stop after it.

stopRest == <<readVars, chanVars, lineVars, line, pc, quiet, faults, untimely>>

StopClearRunning ==
  /\ stopPc = "started"
  /\ running' = FALSE /\ stopPc' = "cancel"
  /\ UNCHANGED <<stopRest, cancelled, port, chanClosed, timedOut>>

StopCancel ==
  /\ stopPc = "cancel"
  /\ cancelled' = TRUE /\ stopPc' = "close"
  /\ UNCHANGED <<stopRest, running, port, chanClosed, timedOut>>

StopClosePort ==
  /\ stopPc = "close"
  /\ port' = "closed" /\ stopPc' = "nil"
  /\ UNCHANGED <<stopRest, running, cancelled, chanClosed, timedOut>>

StopForgetPort ==
  /\ stopPc = "nil"
  /\ port' = "nil" /\ stopPc' = "wait"
  /\ UNCHANGED <<stopRest, running, cancelled, chanClosed, timedOut>>

\* The loop has ended, or five seconds have passed.
StopReturn ==
  /\ stopPc = "wait"
  /\ timedOut' = (pc # "done") /\ stopPc' = "stopped"
  /\ UNCHANGED <<stopRest, running, cancelled, port, chanClosed>>

PipelineClose ==
  /\ stopPc = "stopped"
  /\ chanClosed' = TRUE /\ stopPc' = "done"
  /\ UNCHANGED <<stopRest, running, cancelled, port, timedOut>>

StopGoesOn == StopCancel \/ StopClosePort \/ StopForgetPort \/ StopReturn \/ PipelineClose

GatewayNext ==
  \/ Start \/ Transmit \/ Silence \/ readLoop \/ StopClearRunning \/ StopGoesOn
==============================================================================
