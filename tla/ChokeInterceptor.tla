--------------------------- MODULE ChokeInterceptor ---------------------------
(***************************************************************************)
(* The interceptor of internal/choke/interceptor.go with its sender and    *)
(* the valve at the far end: frames are taken from the input channel, each *)
(* is assessed, and an override is sent from within the loop, so that no   *)
(* frame is assessed while a send is under way.                            *)
(*                                                                         *)
(* The assessment is any decision the pressure admits (ThreatDecisions;    *)
(* SafetyController implements that promise).  Every decision that asks    *)
(* for an override is Critical or worse, so processFrame's other branch,   *)
(* sender.Send, is never taken and the sender's queue stays empty.         *)
(*                                                                         *)
(* The valve is external: a register that holds the last opening it read.  *)
(* The sender's packets are the openings they carry.  The counters of the  *)
(* interceptor's statistics are left out.                                  *)
(***************************************************************************)
EXTENDS ThreatDecisions, Sequences, FiniteSets

CONSTANTS Interceptor, SendLoop, NoPacket,
          Throttles,         \* openings ComputeRequiredOpening may return
          InitialOpening,    \* config.InitialOpening, and where the valve is
          MaxOutput,         \* capacity of outputChan
          RetryCount, MaxInFlight,
          MaxFaults          \* bound: network failures in a behaviour

ASSUME InterceptorAssumption ==
  /\ Throttles \subseteq RequiredOpenings
  /\ InitialOpening \in Opening
  /\ MaxOutput \in Nat
  /\ MaxFaults \in Nat
  /\ Interceptor # SendLoop
  /\ NoPacket \notin Opening
  /\ RetryCount \in Nat
  /\ MaxInFlight \in Nat \ {0}

Packets == Throttles \cup {LockdownOpening}

VARIABLES
  \* the interceptor
  ciRunning, ciCancelled, ciOwner,
  ciPc,            \* where processLoop is
  assessment,      \* of the frame in hand, or of the last one
  overrideSent,    \* OverrideSent of the last frame that had an override
  currentOpening,
  outputChan,      \* how many ChokeFrames are buffered
  \* the sender
  running, cancelled, closed, owner, overrideChan, resultChan, pc, packet,
  attempt, success, sentCount, failCount, wire, begun, writes,
  \* the environment
  register,        \* the valve's holding register
  faults,          \* network failures so far
  unreliable       \* a packet was lost, or was still in flight when its
                   \* attempt ended

ciOwnerVars == <<ciRunning, ciCancelled, ciOwner>>
senderOwnerVars == <<running, cancelled, closed, owner>>
senderVars == <<running, cancelled, closed, owner, overrideChan, resultChan, pc,
                packet, attempt, success, sentCount, failCount, wire, begun, writes>>
envVars == <<register, faults, unreliable>>
frameVars == <<assessment, overrideSent, currentOpening>>
vars == <<ciOwnerVars, ciPc, frameVars, outputChan, senderVars, envVars>>

Sender == INSTANCE OverrideSender WITH
            Callers <- {Interceptor}, MaxOverrideQueueSize <- 1, MaxResults <- 1,
            CounterModulus <- 1

-----------------------------------------------------------------------------
Init ==
  /\ ciRunning = FALSE /\ ciCancelled = FALSE /\ ciOwner = "new"
  /\ ciPc = "off"
  /\ assessment = Normal(InitialOpening)
  /\ overrideSent = TRUE
  /\ currentOpening = InitialOpening
  /\ outputChan = 0
  /\ Sender!Init
  /\ register = InitialOpening
  /\ faults = 0
  /\ unreliable = FALSE

\* Start: the sender first, then the loop.
Start ==
  /\ ciOwner = "new"
  /\ ciOwner' = "started"
  /\ ciRunning' = TRUE
  /\ ciPc' = "loop"
  /\ Sender!Start
  /\ UNCHANGED <<ciCancelled, frameVars, outputChan, envVars>>

\* Stop: clear running, cancel, stop the sender, wait for the loop (or for the
\* ten seconds of time.After).
StopClearRunning ==
  /\ ciOwner = "started"
  /\ ciOwner' = "cancel"
  /\ ciRunning' = FALSE
  /\ UNCHANGED <<ciCancelled, ciPc, frameVars, outputChan, senderVars, envVars>>

StopCancel ==
  /\ ciOwner = "cancel"
  /\ ciOwner' = "stopSender"
  /\ ciCancelled' = TRUE
  /\ UNCHANGED <<ciRunning, ciPc, frameVars, outputChan, senderVars, envVars>>

StopSender ==
  /\ ciOwner = "stopSender"
  /\ Sender!Stop
  /\ ciOwner' = IF owner' = "stopped" THEN "wait" ELSE ciOwner
  /\ UNCHANGED <<ciRunning, ciCancelled, ciPc, frameVars, outputChan, envVars>>

StopWait ==
  /\ ciOwner = "wait"
  /\ ciOwner' = "stopped"
  /\ UNCHANGED <<ciRunning, ciCancelled, ciPc, frameVars, outputChan,
                 senderVars, envVars>>

-----------------------------------------------------------------------------
\* processLoop.  A definition whose name ends in "_Faulty..." is a plausible bug
\* in the definition that follows it; no behaviour of Spec uses it.

LoopCheck_FaultyForever ==
  /\ ciPc = "loop"
  /\ ciPc' = "select"
  /\ UNCHANGED <<ciOwnerVars, frameVars, outputChan, senderVars, envVars>>

LoopCheck ==
  /\ ciPc = "loop"
  /\ ciPc' = IF ciRunning THEN "select" ELSE "done"
  /\ UNCHANGED <<ciOwnerVars, frameVars, outputChan, senderVars, envVars>>

LoopEnd ==
  /\ ciPc = "select"
  /\ ciCancelled
  /\ ciPc' = "done"
  /\ UNCHANGED <<ciOwnerVars, frameVars, outputChan, senderVars, envVars>>

MustOverride_FaultyElevated(a) == a.ThreatLevel >= ThreatElevated

MustOverride_FaultyUnchanged(a) ==
  a.RequiresOverride /\ a.RequiredOpening # currentOpening

MustOverride(a) == a.RequiresOverride

\* processFrame up to the override: assess and begin to send.
ProcessFrame(atLimit) ==
  /\ ciPc = "select"
  /\ assessment' \in Decisions(atLimit, currentOpening, Throttles)
  /\ IF MustOverride(assessment')
       THEN /\ ciPc' = "override"
            /\ Sender!EmergencySend(Interceptor, assessment'.RequiredOpening)
       ELSE /\ ciPc' = "output"
            /\ UNCHANGED senderVars
  /\ UNCHANGED <<ciOwnerVars, overrideSent, currentOpening, outputChan, envVars>>

FinishOverride_FaultyAlwaysSent ==
  /\ ciPc = "override"
  /\ Sender!Return(Interceptor)
  /\ ciPc' = "output"
  /\ overrideSent' = TRUE
  /\ currentOpening' = assessment.RequiredOpening
  /\ UNCHANGED <<ciOwnerVars, assessment, outputChan, envVars>>

\* EmergencySend has returned.  Sent or not, the opening is taken to be the
\* required one.
FinishOverride ==
  /\ ciPc = "override"
  /\ Sender!Return(Interceptor)
  /\ ciPc' = "output"
  /\ overrideSent' = success[Interceptor]
  /\ currentOpening' = assessment.RequiredOpening
  /\ UNCHANGED <<ciOwnerVars, assessment, outputChan, envVars>>

Output_FaultyOverfull ==
  /\ ciPc = "output"
  /\ ciPc' = "loop"
  /\ outputChan' \in (IF outputChan <= MaxOutput THEN {outputChan + 1} ELSE {outputChan})
                        \cup (IF ciCancelled THEN {outputChan} ELSE {})
  /\ UNCHANGED <<ciOwnerVars, frameVars, senderVars, envVars>>

\* A full output channel, or a done context, drops the ChokeFrame.
Output ==
  /\ ciPc = "output"
  /\ ciPc' = "loop"
  /\ outputChan' \in (IF outputChan < MaxOutput THEN {outputChan + 1} ELSE {outputChan})
                        \cup (IF ciCancelled THEN {outputChan} ELSE {})
  /\ UNCHANGED <<ciOwnerVars, frameVars, senderVars, envVars>>

\* chokeMonitor (cmd/gateway/main.go) logs what it receives.
Monitor ==
  /\ outputChan > 0
  /\ outputChan' = outputChan - 1
  /\ UNCHANGED <<ciOwnerVars, ciPc, frameVars, senderVars, envVars>>

-----------------------------------------------------------------------------
\* The sender's steps on behalf of processFrame, with the network's failures
\* counted, and the sender's own (idle) loop.

ciVars == <<ciOwnerVars, ciPc, frameVars, outputChan>>

SendAttempt ==
  /\ \/ Sender!DialOk(Interceptor)
     \/ Sender!WriteOk(Interceptor)
     \/ Sender!Count(Interceptor)
  /\ UNCHANGED <<ciVars, envVars>>

SendFault ==
  /\ faults < MaxFaults
  /\ faults' = faults + 1
  /\ Sender!DialFail(Interceptor) \/ Sender!WriteFail(Interceptor)
  /\ UNCHANGED <<ciVars, register, unreliable>>

\* The connection is given up with the packet delivered or not.
InFlight(t) == wire[packet[t]] > 0

SendRead ==
  /\ Sender!ReadOk(Interceptor)
  /\ unreliable' = (unreliable \/ InFlight(Interceptor))
  /\ UNCHANGED <<ciVars, register, faults>>

SendReadFault ==
  /\ faults < MaxFaults
  /\ faults' = faults + 1
  /\ Sender!ReadFail(Interceptor)
  /\ unreliable' = (unreliable \/ InFlight(Interceptor))
  /\ UNCHANGED <<ciVars, register>>

SenderLoop ==
  /\ Sender!LoopCheck \/ Sender!LoopEnd
  /\ UNCHANGED <<ciVars, envVars>>

\* The valve reads a packet off some connection, or the packet is lost.
Deliver(p) ==
  /\ Sender!Deliver(p)
  /\ register' = p
  /\ UNCHANGED <<ciVars, faults, unreliable>>

Lose(p) ==
  /\ faults < MaxFaults
  /\ faults' = faults + 1
  /\ Sender!Deliver(p)
  /\ unreliable' = TRUE
  /\ UNCHANGED <<ciVars, register>>

-----------------------------------------------------------------------------
Stop == StopClearRunning \/ StopCancel \/ StopSender \/ StopWait
Frame == \E atLimit \in BOOLEAN : ProcessFrame(atLimit)
Send == SendAttempt \/ SendFault \/ SendRead \/ SendReadFault

Next ==
  \/ Start \/ Stop
  \/ LoopCheck \/ LoopEnd \/ Frame \/ FinishOverride \/ Output \/ Monitor
  \/ Send \/ SenderLoop
  \/ \E p \in Packets : Deliver(p) \/ Lose(p)

(***************************************************************************)
(* Frames keep coming, the loop and the sends run, a written packet that   *)
(* is not lost is read by the valve.  With at most MaxFaults failures the  *)
(* network is eventually reliable.                                         *)
(***************************************************************************)
Fairness ==
  /\ WF_vars(LoopCheck \/ LoopEnd \/ Frame \/ FinishOverride \/ Output)
  /\ WF_vars(Send)
  /\ WF_vars(StopCancel \/ StopSender \/ StopWait)
  /\ \A p \in Packets : WF_vars(Deliver(p))

Spec == Init /\ [][Next]_vars
FairSpec == Spec /\ Fairness

-----------------------------------------------------------------------------
TypeOK ==
  /\ ciRunning \in BOOLEAN /\ ciCancelled \in BOOLEAN
  /\ ciOwner \in {"new", "started", "cancel", "stopSender", "wait", "stopped"}
  /\ ciPc \in {"off", "loop", "select", "override", "output", "done"}
  /\ assessment \in Decision
  /\ overrideSent \in BOOLEAN
  /\ currentOpening \in Packets \cup {InitialOpening}
  /\ outputChan \in 0 .. MaxOutput
  /\ Sender!TypeOK
  /\ register \in Packets \cup {InitialOpening}
  /\ faults \in 0 .. MaxFaults
  /\ unreliable \in BOOLEAN

\* As long as no packet was lost and no connection given up with its packet
\* still under way, an override reported as sent is in force at the valve, and
\* stays in force until the next one (interceptor.go:204-221, sender.go:153-231).
SentMeansInForce ==
  (~unreliable /\ overrideSent /\ ciPc # "override") => register = currentOpening

\* A valve that a lockdown has shut stays shut until a throttling override is
\* decided, however many calmer frames follow - unless the network delivers an
\* old packet late (interceptor.go:171-222, controller.go:150-176).
LockdownHolds ==
  [][(register = LockdownOpening /\ register' # LockdownOpening /\ ~unreliable)
       => assessment.ThreatLevel = ThreatCritical]_vars

\* When the threat persists - frame after frame at the limit - the valve is shut
\* in the end and stays shut, although sends fail, packets are lost and old
\* packets arrive late: each frame sends the lockdown again
\* (interceptor.go:171-222).
PersistentThreatShutsValve ==
  <>[](assessment = Imminent /\ ciOwner = "started")
    => <>[](register = LockdownOpening)

\* Stop ends the loop (interceptor.go:100-149): a send under way is finished
\* first, and no frame is taken any more.
StopEndsLoop == (ciOwner = "wait") ~> (ciPc = "done")

\* What the log reports as the choke valve's opening (cmd/gateway/main.go:405)
\* is the opening of the valve, once every override has been settled and nothing
\* is in flight.
ReportedOpeningIsValveOpening ==
  (ciPc # "override" /\ \A p \in Packets : wire[p] = 0) => register = currentOpening
==============================================================================
