------------------------------- MODULE Pipeline -------------------------------
(***************************************************************************)
(* The processing stages between the gateways and the consumers of frames: *)
(* internal/pipeline/pipeline.go, the processing loop of                   *)
(* internal/driftflux/solver.go, and the channels as cmd/gateway/main.go   *)
(* wires them.                                                             *)
(*                                                                         *)
(*   rawDataChan -> decoder workers -> decodedChan                         *)
(*   decodedChan -> solver workers AND the solver's own loop -> frame chan *)
(*   frame chan  -> the choke interceptor OR the frame output              *)
(*   errorChan   -> the pipeline's error handler OR main's handleErrors    *)
(*                                                                         *)
(* A Go channel gives each value to one receiver, so where two goroutines  *)
(* receive from one channel each value reaches only one of them.           *)
(*                                                                         *)
(* An item is its number and its kind: "garbled" does not decode, "cold"   *)
(* decodes to a temperature the solver refuses, "hot" has a pressure at    *)
(* the safety limit, "calm" is everything else.                            *)
(***************************************************************************)
EXTENDS Integers, Sequences, FiniteSets

CONSTANTS Decoders, Solvers,        \* the pipeline's workers
          SolverLoop, ErrorHandler, \* driftflux.processLoop, pipeline.errorHandler
          Nothing,                  \* an empty hand
          Kinds,                    \* the kinds of item that arrive
          RawBufferSize, ChannelSize, ErrorBufferSize,
          MaxRaw                    \* bound: items that arrive

ASSUME PipelineAssumption ==
  /\ IsFiniteSet(Decoders) /\ IsFiniteSet(Solvers)
  /\ Decoders \cap Solvers = {}
  /\ SolverLoop \notin Decoders \cup Solvers
  /\ ErrorHandler \notin Decoders \cup Solvers \cup {SolverLoop}
  /\ {RawBufferSize, ChannelSize, ErrorBufferSize, MaxRaw} \subseteq Nat
  /\ Kinds \subseteq {"garbled", "cold", "calm", "hot"}
  /\ Nothing \notin [id : 1 .. MaxRaw, kind : Kinds]

Workers == Decoders \cup Solvers \cup {SolverLoop}  \* threads that hold items
Threads == Workers \cup {ErrorHandler}
Item == [id : 1 .. MaxRaw, kind : Kinds]

VARIABLES
  rawDataChan, decodedChan, hydroFrameChan,
  errorChan,               \* how many errors are buffered
  running, cancelled,      \* of the pipeline, and of the solver:
  solverRunning, solverCancelled,
  closed,                  \* rawDataChan is closed
  owner,                   \* where main's start or stop is
  pc, hand,                \* thread -> what it does next, what it holds
  decodedDropped, frameDropped, errDropped,              \* pipeline counters
  outputDropped, errorDropped, totalFrames, failedFrames, \* solver counters
  received,                \* items accepted from the gateways so far
  errorsHandled, assessed, written  \* what the consumers took

chanVars  == <<rawDataChan, decodedChan, hydroFrameChan, errorChan>>
ownerVars == <<running, cancelled, solverRunning, solverCancelled, closed, owner>>
pipeStats == <<decodedDropped, frameDropped, errDropped>>
solverStats == <<outputDropped, errorDropped, totalFrames, failedFrames>>
endVars == <<received, errorsHandled, assessed, written>>
vars == <<chanVars, ownerVars, pc, hand, pipeStats, solverStats, endVars>>

-----------------------------------------------------------------------------
Init ==
  /\ rawDataChan = <<>> /\ decodedChan = <<>> /\ hydroFrameChan = <<>>
  /\ errorChan = 0
  /\ running = TRUE /\ cancelled = FALSE
  /\ solverRunning = TRUE /\ solverCancelled = FALSE
  /\ closed = FALSE
  /\ owner = "started"
  /\ pc = [t \in Threads |-> "loop"]
  /\ hand = [w \in Workers |-> Nothing]
  /\ decodedDropped = 0 /\ frameDropped = 0 /\ errDropped = 0
  /\ outputDropped = 0 /\ errorDropped = 0 /\ totalFrames = 0 /\ failedFrames = 0
  /\ received = 0 /\ errorsHandled = 0 /\ assessed = {} /\ written = {}

Goto(t, label) == pc' = [pc EXCEPT ![t] = label]
PutDown(w, label) == Goto(w, label) /\ hand' = [hand EXCEPT ![w] = Nothing]

Arrive_FaultyOverfull(kind) ==
  /\ owner = "started"
  /\ received < MaxRaw
  /\ Len(rawDataChan) <= RawBufferSize
  /\ received' = received + 1
  /\ rawDataChan' = Append(rawDataChan, [id |-> received + 1, kind |-> kind])
  /\ UNCHANGED <<decodedChan, hydroFrameChan, errorChan, ownerVars, pc, hand,
                 pipeStats, solverStats, errorsHandled, assessed, written>>

\* A gateway offers a packet and does not wait; what a full channel refuses is
\* the gateway's loss.  The gateways are stopped before the pipeline is.
Arrive(kind) ==
  /\ owner = "started"
  /\ received < MaxRaw
  /\ Len(rawDataChan) < RawBufferSize
  /\ received' = received + 1
  /\ rawDataChan' = Append(rawDataChan, [id |-> received + 1, kind |-> kind])
  /\ UNCHANGED <<decodedChan, hydroFrameChan, errorChan, ownerVars, pc, hand,
                 pipeStats, solverStats, errorsHandled, assessed, written>>

-----------------------------------------------------------------------------
\* Every loop: look at running, then select.

RunningOf(t)   == IF t = SolverLoop THEN solverRunning ELSE running
CancelledOf(t) == IF t = SolverLoop THEN solverCancelled ELSE cancelled

LoopCheck(t) ==
  /\ pc[t] = "loop"
  /\ Goto(t, IF RunningOf(t) THEN "select" ELSE "done")
  /\ UNCHANGED <<chanVars, ownerVars, hand, pipeStats, solverStats, endVars>>

LoopEnd_FaultyNoContext(t) ==
  /\ pc[t] = "select"
  /\ t \in Decoders /\ closed /\ rawDataChan = <<>>
  /\ Goto(t, "done")
  /\ UNCHANGED <<chanVars, ownerVars, hand, pipeStats, solverStats, endVars>>

\* The context is done, or a decoder finds its channel closed and empty; only
\* rawDataChan is ever closed.
LoopEnd(t) ==
  /\ pc[t] = "select"
  /\ CancelledOf(t) \/ (t \in Decoders /\ closed /\ rawDataChan = <<>>)
  /\ Goto(t, "done")
  /\ UNCHANGED <<chanVars, ownerVars, hand, pipeStats, solverStats, endVars>>

TakeRaw(w) ==
  /\ pc[w] = "select" /\ rawDataChan # <<>>
  /\ hand' = [hand EXCEPT ![w] = Head(rawDataChan)]
  /\ rawDataChan' = Tail(rawDataChan)
  /\ Goto(w, "work")
  /\ UNCHANGED <<decodedChan, hydroFrameChan, errorChan, ownerVars, pipeStats,
                 solverStats, endVars>>

TakeDecoded_FaultyPeek(w) ==
  /\ pc[w] = "select" /\ decodedChan # <<>>
  /\ hand' = [hand EXCEPT ![w] = Head(decodedChan)]
  /\ Goto(w, "work")
  /\ UNCHANGED <<chanVars, ownerVars, pipeStats, solverStats, endVars>>

TakeDecoded(w) ==
  /\ pc[w] = "select" /\ decodedChan # <<>>
  /\ hand' = [hand EXCEPT ![w] = Head(decodedChan)]
  /\ decodedChan' = Tail(decodedChan)
  /\ Goto(w, "work")
  /\ UNCHANGED <<rawDataChan, hydroFrameChan, errorChan, ownerVars, pipeStats,
                 solverStats, endVars>>

HandleOne(t) ==
  /\ pc[t] = "select" /\ errorChan > 0
  /\ errorChan' = errorChan - 1
  /\ errorsHandled' = errorsHandled + 1
  /\ Goto(t, "loop")
  /\ UNCHANGED <<rawDataChan, decodedChan, hydroFrameChan, ownerVars, hand,
                 pipeStats, solverStats, received, assessed, written>>

-----------------------------------------------------------------------------
SendError_FaultyReturn(w) ==
  /\ IF errorChan < ErrorBufferSize
       THEN errorChan' = errorChan + 1 /\ UNCHANGED errDropped
       ELSE errDropped' = errDropped + 1 /\ UNCHANGED errorChan
  /\ PutDown(w, "done")
  /\ UNCHANGED <<rawDataChan, decodedChan, hydroFrameChan, ownerVars,
                 decodedDropped, frameDropped, solverStats, endVars>>

\* sendError: a full error channel drops the error and counts it.
SendError(w) ==
  /\ IF errorChan < ErrorBufferSize
       THEN errorChan' = errorChan + 1 /\ UNCHANGED errDropped
       ELSE errDropped' = errDropped + 1 /\ UNCHANGED errorChan
  /\ PutDown(w, "loop")
  /\ UNCHANGED <<rawDataChan, decodedChan, hydroFrameChan, ownerVars,
                 decodedDropped, frameDropped, solverStats, endVars>>

Offer_FaultyUncounted(w, chan, ctxDone, dropped) ==
  /\ UNCHANGED dropped
  /\ \/ Len(chan) < ChannelSize /\ chan' = Append(chan, hand[w]) /\ PutDown(w, "loop")
     \/ ctxDone /\ UNCHANGED chan /\ PutDown(w, "done")
     \/ Len(chan) >= ChannelSize /\ ~ctxDone /\ UNCHANGED chan /\ PutDown(w, "loop")

\* The select that ends a round: hand the item on, or return because the context
\* is done; only when neither is possible drop the item and count it.
Offer(w, chan, ctxDone, dropped) ==
  \/ /\ Len(chan) < ChannelSize
     /\ chan' = Append(chan, hand[w])
     /\ PutDown(w, "loop")
     /\ UNCHANGED dropped
  \/ /\ ctxDone
     /\ PutDown(w, "done")
     /\ UNCHANGED <<chan, dropped>>
  \/ /\ Len(chan) >= ChannelSize /\ ~ctxDone
     /\ dropped' = dropped + 1
     /\ PutDown(w, "loop")
     /\ UNCHANGED chan

\* decoderWorker after its receive: DecodeModbusRTU, ExtractSensorData.
Decode(w) ==
  /\ pc[w] = "work"
  /\ \/ hand[w].kind = "garbled" /\ SendError(w)
     \/ /\ hand[w].kind # "garbled"
        /\ Offer(w, decodedChan, cancelled, decodedDropped)
        /\ UNCHANGED <<rawDataChan, hydroFrameChan, errorChan, ownerVars,
                       frameDropped, errDropped, solverStats, endVars>>

\* solverWorker after its receive: Solve.
Solve(w) ==
  /\ pc[w] = "work"
  /\ \/ hand[w].kind = "cold" /\ SendError(w)
     \/ /\ hand[w].kind # "cold"
        /\ Offer(w, hydroFrameChan, cancelled, frameDropped)
        /\ UNCHANGED <<rawDataChan, decodedChan, errorChan, ownerVars,
                       decodedDropped, errDropped, solverStats, endVars>>

\* driftflux.processLoop does what a solver worker does, but keeps statistics,
\* and its select on the error channel looks at the context, too.
LoopSolveFails ==
  /\ pc[SolverLoop] = "work"
  /\ hand[SolverLoop].kind = "cold"
  /\ failedFrames' = failedFrames + 1
  /\ \/ /\ errorChan < ErrorBufferSize
        /\ errorChan' = errorChan + 1
        /\ PutDown(SolverLoop, "loop")
        /\ UNCHANGED errorDropped
     \/ /\ solverCancelled
        /\ PutDown(SolverLoop, "done")
        /\ UNCHANGED <<errorChan, errorDropped>>
     \/ /\ errorChan >= ErrorBufferSize /\ ~solverCancelled
        /\ errorDropped' = errorDropped + 1
        /\ PutDown(SolverLoop, "loop")
        /\ UNCHANGED errorChan
  /\ UNCHANGED <<rawDataChan, decodedChan, hydroFrameChan, ownerVars, pipeStats,
                 outputDropped, totalFrames, endVars>>

LoopSolves ==
  /\ pc[SolverLoop] = "work"
  /\ hand[SolverLoop].kind # "cold"
  /\ totalFrames' = totalFrames + 1
  /\ Offer(SolverLoop, hydroFrameChan, solverCancelled, outputDropped)
  /\ UNCHANGED <<rawDataChan, decodedChan, errorChan, ownerVars, pipeStats,
                 errorDropped, failedFrames, endVars>>

-----------------------------------------------------------------------------
\* The consumers: the interceptor's and the output's loops take from the same
\* channel until main stops them (the interceptor before the solver, the output
\* last of all), handleErrors takes errors until the process ends.

Consume ==
  /\ hydroFrameChan # <<>>
  /\ hydroFrameChan' = Tail(hydroFrameChan)
  /\ \/ /\ owner \in {"started", "cancel", "close", "wait"}   \* chokeInterceptor
        /\ assessed' = assessed \cup {Head(hydroFrameChan)}
        /\ UNCHANGED written
     \/ /\ written' = written \cup {Head(hydroFrameChan)}   \* frameOut
        /\ UNCHANGED assessed
  /\ UNCHANGED <<rawDataChan, decodedChan, errorChan, ownerVars, pc, hand,
                 pipeStats, solverStats, received, errorsHandled>>

handleErrors ==
  /\ errorChan > 0
  /\ errorChan' = errorChan - 1
  /\ errorsHandled' = errorsHandled + 1
  /\ UNCHANGED <<rawDataChan, decodedChan, hydroFrameChan, ownerVars, pc, hand,
                 pipeStats, solverStats, received, assessed, written>>

-----------------------------------------------------------------------------
\* main's stop: pipeline.Stop (clear running, cancel, close, wait), then the
\* interceptor, then the solver (clear running, cancel, wait).  Each wait ends
\* when the goroutines have, or with its time.After.

StopStep(from, to) ==
  /\ owner = from
  /\ owner' = to
  /\ UNCHANGED <<chanVars, pc, hand, pipeStats, solverStats, endVars>>

PipelineClearRunning ==
  /\ StopStep("started", "cancel")
  /\ running' = FALSE
  /\ UNCHANGED <<cancelled, closed, solverRunning, solverCancelled>>

PipelineCancel ==
  /\ StopStep("cancel", "close")
  /\ cancelled' = TRUE
  /\ UNCHANGED <<running, closed, solverRunning, solverCancelled>>

PipelineClose ==
  /\ StopStep("close", "wait")
  /\ closed' = TRUE
  /\ UNCHANGED <<running, cancelled, solverRunning, solverCancelled>>

PipelineWait ==
  /\ StopStep("wait", "stopSolver")
  /\ UNCHANGED <<running, cancelled, closed, solverRunning, solverCancelled>>

SolverClearRunning ==
  /\ StopStep("stopSolver", "cancelSolver")
  /\ solverRunning' = FALSE
  /\ UNCHANGED <<running, cancelled, closed, solverCancelled>>

SolverCancel ==
  /\ StopStep("cancelSolver", "waitSolver")
  /\ solverCancelled' = TRUE
  /\ UNCHANGED <<running, cancelled, closed, solverRunning>>

SolverWait ==
  /\ StopStep("waitSolver", "stopped")
  /\ UNCHANGED <<running, cancelled, closed, solverRunning, solverCancelled>>

ContinueStop ==
  \/ PipelineCancel \/ PipelineClose \/ PipelineWait
  \/ SolverClearRunning \/ SolverCancel \/ SolverWait

-----------------------------------------------------------------------------
DecoderStep(w) == LoopCheck(w) \/ LoopEnd(w) \/ TakeRaw(w) \/ Decode(w)
SolverStep(w)  == LoopCheck(w) \/ LoopEnd(w) \/ TakeDecoded(w) \/ Solve(w)
SolverLoopStep ==
  LoopCheck(SolverLoop) \/ LoopEnd(SolverLoop) \/ TakeDecoded(SolverLoop)
    \/ LoopSolveFails \/ LoopSolves
ErrorHandlerStep ==
  LoopCheck(ErrorHandler) \/ LoopEnd(ErrorHandler) \/ HandleOne(ErrorHandler)

Next ==
  \/ \E kind \in Kinds : Arrive(kind)
  \/ \E w \in Decoders : DecoderStep(w)
  \/ \E w \in Solvers : SolverStep(w)
  \/ SolverLoopStep \/ ErrorHandlerStep
  \/ Consume \/ handleErrors
  \/ PipelineClearRunning \/ ContinueStop

\* Every goroutine is scheduled, nobody is obliged to deliver or to stop.
Fairness ==
  /\ \A w \in Decoders : WF_vars(DecoderStep(w))
  /\ \A w \in Solvers : WF_vars(SolverStep(w))
  /\ WF_vars(SolverLoopStep) /\ WF_vars(ErrorHandlerStep)
  /\ WF_vars(Consume) /\ WF_vars(handleErrors)
  /\ WF_vars(ContinueStop)

Spec == Init /\ [][Next]_vars
FairSpec == Spec /\ Fairness

-----------------------------------------------------------------------------
\* The items that are somewhere in the program.
Elements(chan) == {chan[i] : i \in DOMAIN chan}
Held == {hand[w] : w \in Workers} \ {Nothing}
Queued == Elements(rawDataChan) \cup Elements(decodedChan) \cup Elements(hydroFrameChan)

\* What the program can tell of the items it received: still queued or held,
\* consumed, dropped and counted, or turned into an error.
Waiting ==
  Len(rawDataChan) + Len(decodedChan) + Len(hydroFrameChan)
    + Cardinality({w \in Workers : hand[w] # Nothing})
Consumed == Cardinality(assessed) + Cardinality(written)
Counted ==
  decodedDropped + frameDropped + outputDropped + errDropped + errorDropped
    + (errorChan + errorsHandled)
Accounted == Waiting + Consumed + Counted

TypeOK ==
  /\ rawDataChan \in Seq(Item) /\ Len(rawDataChan) <= RawBufferSize
  /\ decodedChan \in Seq(Item) /\ Len(decodedChan) <= ChannelSize
  /\ hydroFrameChan \in Seq(Item) /\ Len(hydroFrameChan) <= ChannelSize
  /\ errorChan \in 0 .. ErrorBufferSize
  /\ {running, cancelled, solverRunning, solverCancelled, closed} \subseteq BOOLEAN
  /\ owner \in {"started", "cancel", "close", "wait", "stopSolver",
               "cancelSolver", "waitSolver", "stopped"}
  /\ pc \in [Threads -> {"loop", "select", "work", "done"}]
  /\ hand \in [Workers -> Item \cup {Nothing}]
  /\ \A w \in Workers : hand[w] = Nothing <=> pc[w] # "work"
  /\ {decodedDropped, frameDropped, errDropped, outputDropped, errorDropped,
      totalFrames, failedFrames, received, errorsHandled} \subseteq Nat
  /\ assessed \subseteq Item /\ written \subseteq Item

\* While the program runs nothing is lost silently: every packet taken from a
\* gateway is queued, held by a worker, consumed, or counted as a drop or an
\* error (pipeline.go:111-230, solver.go:124-180).  A stop abandons at most
\* the one item each worker is handing on when it notices.
NothingLostSilently ==
  /\ Accounted <= received
  /\ ~cancelled => Accounted = received
  /\ received - Accounted <=
       Cardinality({w \in Workers : pc[w] = "done" /\ CancelledOf(w)})

\* No packet is processed twice: it is in one place, and once consumed it is
\* gone, however the workers and the two consumers interleave
\* (pipeline.go:111-199, cmd/gateway/main.go:110-139).
OnePlaceEach ==
  /\ assessed \cap (written \cup Queued \cup Held) = {}
  /\ written \cap (Queued \cup Held) = {}
  /\ Queued \cap Held = {}
  /\ \A v, w \in Workers : v # w /\ hand[v] # Nothing => hand[v] # hand[w]

\* While nobody stops the program, whatever has arrived is worked off: no bad
\* packet, full channel or refused temperature stalls a stage
\* (pipeline.go:111-199, solver.go:124-180).
EverythingWorkedOff ==
  <>[](owner = "started") => <>[](Queued = {} /\ Held = {} /\ errorChan = 0)

\* A stop does not need its timeouts: every goroutine of the pipeline and the
\* solver's loop end (pipeline.go:244-283, solver.go:396-421).
StopEndsWorkers ==
  /\ (owner = "wait") ~> (\A t \in Threads \ {SolverLoop} : pc[t] = "done")
  /\ (owner = "waitSolver") ~> (pc[SolverLoop] = "done")

\* A frame at the safety limit is assessed: when the program has worked
\* everything off, without dropping anything, each hot item that decoded has
\* been seen by the interceptor.
HotFramesAssessed ==
  (Queued = {} /\ Held = {} /\ decodedDropped = 0 /\ frameDropped = 0
   /\ outputDropped = 0 /\ ~cancelled)
     => \A item \in written : item.kind # "hot"
==============================================================================
