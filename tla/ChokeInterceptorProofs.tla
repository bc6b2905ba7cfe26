------------------------ MODULE ChokeInterceptorProofs ------------------------
(***************************************************************************)
(* What the interceptor believes of the valve, for any retry count, any    *)
(* throttled openings and any number of faults and packets in flight.      *)
(***************************************************************************)
EXTENDS ChokeInterceptor, TLAPS

Threads == {Interceptor, SendLoop}
Labels == {"off", "idle", "enqueue", "true", "false", "panicked", "loop", "select", "done", "dial", "write",
           "read", "count", "emit", "returned"}

Typed ==
  /\ pc \in [Threads -> Labels]
  /\ packet \in [Threads -> Packets \cup {NoPacket}]
  /\ success \in [Threads -> BOOLEAN]
  /\ wire \in [Packets -> Nat]

\* The loop is not there before it is started.
Fresh == ciOwner = "new" => ciPc = "off"

\* The sender is at work exactly while processFrame waits for it, and its packet
\* is the opening that the assessment requires.
Attached ==
  /\ ciPc # "override" => pc[Interceptor] = "idle"
  /\ ciPc = "override" =>
       /\ pc[Interceptor] \in {"dial", "write", "read", "count", "returned"}
       /\ packet[Interceptor] = assessment.RequiredOpening
       /\ packet[Interceptor] \in Packets
       /\ pc[Interceptor] \in {"dial", "write", "read"} => ~success[Interceptor]
       /\ assessment.RequiredOpening # LockdownOpening => assessment.ThreatLevel = ThreatCritical

\* Unless the network is to blame, only the packet of the attempt under way can
\* reach the valve, and a copy that is no longer under way has reached it.
Carried ==
  /\ \A p \in Packets : wire[p] > 0 => pc[Interceptor] = "read" /\ p = packet[Interceptor]
  /\ pc[Interceptor] = "read" /\ wire[packet[Interceptor]] = 0 => register = packet[Interceptor]
  /\ pc[Interceptor] \in {"count", "returned"} /\ success[Interceptor] => register = packet[Interceptor]

IInv == Typed /\ Fresh /\ Attached /\ (~unreliable => Carried) /\ SentMeansInForce

-----------------------------------------------------------------------------
LEMMA InitIInv == Init => IInv
<1> SUFFICES ASSUME Init PROVE IInv
  OBVIOUS
<1>1. /\ pc = [t \in Threads |-> IF t = SendLoop THEN "off" ELSE "idle"]
      /\ packet = [t \in Threads |-> NoPacket] /\ success = [t \in Threads |-> FALSE]
      /\ wire = [p \in Packets |-> 0]
  BY DEF Init, Sender!Init, Sender!Threads, Threads
<1>2. pc[Interceptor] = "idle"
  BY <1>1, InterceptorAssumption DEF Threads
<1>3. Typed
  BY <1>1 DEF Typed, Labels
<1>4. Carried
  BY <1>1, <1>2 DEF Carried
<1> QED BY <1>2, <1>3, <1>4 DEF Init, IInv, Fresh, Attached, SentMeansInForce

\* Steps that leave the sender's work and the valve alone.
LEMMA QuietIInv ==
  ASSUME IInv, pc' \in [Threads -> Labels], pc'[Interceptor] = pc[Interceptor], Fresh',
         ciPc = "override" <=> ciPc' = "override",
         ciPc = "override" => assessment' = assessment,
         UNCHANGED <<overrideSent, currentOpening, packet, success, wire, register, unreliable>>
  PROVE  IInv'
<1>1. Typed'
  BY DEF IInv, Typed
<1>2. Attached'
  BY DEF IInv, Attached
<1>3. ~unreliable' => Carried'
  BY DEF IInv, Carried
<1> QED BY <1>1, <1>2, <1>3 DEF IInv, SentMeansInForce

LEMMA OwnerIInv ==
  ASSUME IInv, Start \/ Stop
  PROVE  IInv'
<1>1. CASE Start
  <2>1. /\ pc' = [pc EXCEPT ![SendLoop] = "loop"] /\ UNCHANGED <<packet, success, wire>>
        /\ ciOwner = "new" /\ ciOwner' = "started" /\ ciPc' = "loop"
        /\ UNCHANGED <<frameVars, envVars>>
    BY <1>1 DEF Start, Sender!Start, Sender!Goto
  <2>2. pc' \in [Threads -> Labels] /\ pc'[Interceptor] = pc[Interceptor]
    BY <2>1, InterceptorAssumption DEF IInv, Typed, Threads, Labels
  <2>3. ciPc = "off"
    BY <2>1 DEF IInv, Fresh
  <2> QED BY <2>1, <2>2, <2>3, QuietIInv DEF Fresh, frameVars, envVars
<1>2. CASE Stop
  <2>1. UNCHANGED <<ciPc, frameVars, envVars, pc, packet, success, wire>>
    BY <1>2
    DEF Stop, StopClearRunning, StopCancel, StopSender, StopWait, senderVars, Sender!Stop,
        Sender!StopClearRunning, Sender!StopCancel, Sender!StopClose, Sender!StopWait, Sender!callVars
  <2>2. ciOwner # "new"
    BY <1>2 DEF Stop, StopClearRunning, StopCancel, StopSender, StopWait
  <2>3. Fresh'
    BY <1>2 DEF Fresh, Stop, StopClearRunning, StopCancel, StopSender, StopWait
  <2>4. pc' \in [Threads -> Labels]
    BY <2>1 DEF IInv, Typed
  <2> QED BY <2>1, <2>3, <2>4, QuietIInv DEF frameVars, envVars
<1> QED BY <1>1, <1>2

\* The steps of processLoop that send nothing.
LEMMA LoopIInv ==
  ASSUME IInv, LoopCheck \/ LoopEnd \/ Output \/ Monitor
  PROVE  IInv'
<1>1. /\ UNCHANGED <<ciOwnerVars, frameVars, senderVars, envVars>>
      /\ \/ ciPc' = ciPc
         \/ ciPc \in {"loop", "select", "output"} /\ ciPc' \in {"select", "done", "loop"}
  BY DEF LoopCheck, LoopEnd, Output, Monitor
<1>2. Fresh'
  BY <1>1 DEF IInv, Fresh, ciOwnerVars
<1>3. pc' \in [Threads -> Labels]
  BY <1>1 DEF IInv, Typed, senderVars
<1> QED BY <1>1, <1>2, <1>3, QuietIInv DEF frameVars, senderVars, envVars

LEMMA SenderLoopIInv ==
  ASSUME IInv, SenderLoop
  PROVE  IInv'
<1>1. /\ \E label \in {"select", "done"} : pc' = [pc EXCEPT ![SendLoop] = label]
      /\ UNCHANGED <<ciVars, envVars, packet, success, wire>>
  BY DEF SenderLoop, Sender!LoopCheck, Sender!LoopEnd, Sender!Goto
<1>2. pc' \in [Threads -> Labels] /\ pc'[Interceptor] = pc[Interceptor]
  BY <1>1, InterceptorAssumption DEF IInv, Typed, Threads, Labels
<1>3. Fresh'
  BY <1>1 DEF IInv, Fresh, ciVars, ciOwnerVars
<1> QED BY <1>1, <1>2, <1>3, QuietIInv DEF ciVars, frameVars, envVars

-----------------------------------------------------------------------------
LEMMA DecisionFacts ==
  ASSUME NEW atLimit, NEW opening, NEW a \in Decisions(atLimit, opening, Throttles), MustOverride(a)
  PROVE  /\ a.RequiredOpening \in Packets
         /\ a.RequiredOpening # LockdownOpening => a.ThreatLevel = ThreatCritical
BY DEF Decisions, MustOverride, Imminent, Critical, Elevated, Normal, Packets

LEMMA FrameIInv ==
  ASSUME IInv, NEW atLimit \in BOOLEAN, ProcessFrame(atLimit)
  PROVE  IInv'
<1>1. /\ ciPc = "select" /\ UNCHANGED <<ciOwnerVars, overrideSent, currentOpening, envVars>>
      /\ assessment' \in Decisions(atLimit, currentOpening, Throttles)
      /\ pc[Interceptor] = "idle"
  BY DEF ProcessFrame, IInv, Attached
<1>2. CASE ~MustOverride(assessment')
  <2>1. ciPc' = "output" /\ UNCHANGED senderVars
    BY <1>2 DEF ProcessFrame
  <2>2. Fresh' /\ pc' \in [Threads -> Labels]
    BY <1>1, <2>1 DEF IInv, Fresh, Typed, ciOwnerVars, senderVars
  <2> QED BY <1>1, <2>1, <2>2, QuietIInv DEF envVars, senderVars
<1>3. CASE MustOverride(assessment')
  <2> DEFINE p == assessment'.RequiredOpening
  <2>1. /\ ciPc' = "override" /\ wire' = wire
        /\ pc' = [pc EXCEPT ![Interceptor] = "dial"] /\ packet' = [packet EXCEPT ![Interceptor] = p]
        /\ success' = [success EXCEPT ![Interceptor] = FALSE]
    BY <1>3 DEF ProcessFrame, Sender!EmergencySend, Sender!BeginSend, Sender!Enter, Sender!Goto
  <2>2. p \in Packets /\ (p # LockdownOpening => assessment'.ThreatLevel = ThreatCritical)
    BY <1>1, <1>3, DecisionFacts
  <2> HIDE DEF p
  <2>3. Typed' /\ pc'[Interceptor] = "dial" /\ packet'[Interceptor] = p /\ ~success'[Interceptor]
    BY <2>1, <2>2 DEF IInv, Typed, Threads, Labels
  <2>4. Attached' /\ Fresh'
    BY <1>1, <2>1, <2>2, <2>3 DEF Attached, Fresh, IInv, ciOwnerVars, p
  <2>5. ~unreliable' => Carried'
    BY <1>1, <2>1, <2>3 DEF IInv, Carried, envVars, Typed
  <2> QED BY <2>1, <2>3, <2>4, <2>5 DEF IInv, SentMeansInForce
<1> QED BY <1>2, <1>3

LEMMA FinishIInv ==
  ASSUME IInv, FinishOverride
  PROVE  IInv'
<1>1. /\ ciPc = "override" /\ ciPc' = "output" /\ UNCHANGED <<ciOwnerVars, assessment, envVars, wire>>
      /\ pc[Interceptor] \in {"returned", "true", "false"}
      /\ pc' = [pc EXCEPT ![Interceptor] = "idle"] /\ packet' = [packet EXCEPT ![Interceptor] = NoPacket]
      /\ success' = [success EXCEPT ![Interceptor] = FALSE]
      /\ overrideSent' = success[Interceptor] /\ currentOpening' = assessment.RequiredOpening
  BY DEF FinishOverride, Sender!Return, Sender!Enter, Sender!Goto
<1>2. pc[Interceptor] = "returned" /\ packet[Interceptor] = assessment.RequiredOpening
  BY <1>1 DEF IInv, Attached
<1>3. Typed' /\ pc'[Interceptor] = "idle"
  BY <1>1 DEF IInv, Typed, Threads, Labels
<1>4. Attached' /\ Fresh'
  BY <1>1, <1>3 DEF Attached, Fresh, IInv, ciOwnerVars
<1>5. ~unreliable' => Carried'
  BY <1>1, <1>2, <1>3 DEF IInv, Carried, envVars
<1>6. SentMeansInForce'
  BY <1>1, <1>2 DEF IInv, Carried, SentMeansInForce, envVars
<1> QED BY <1>3, <1>4, <1>5, <1>6 DEF IInv

-----------------------------------------------------------------------------
\* A step of the sender on behalf of processFrame.
LEMMA WorkIInv ==
  ASSUME IInv, NEW label \in {"dial", "write", "read", "count", "returned"},
         pc[Interceptor] \in {"dial", "write", "read", "count"},
         pc' = [pc EXCEPT ![Interceptor] = label],
         success' \in [Threads -> BOOLEAN], wire' \in [Packets -> Nat],
         label \in {"dial", "write", "read"} => ~success'[Interceptor],
         UNCHANGED <<ciVars, packet, register>>,
         ~unreliable' => ~unreliable /\ Carried'
  PROVE  IInv'
<1>1. Typed' /\ pc'[Interceptor] = label
  BY DEF IInv, Typed, Threads, Labels
<1>2. ciPc = "override"
  BY DEF IInv, Attached
<1>3. Attached'
  BY <1>1, <1>2 DEF IInv, Attached, ciVars, frameVars
<1> QED BY <1>1, <1>2, <1>3 DEF IInv, Fresh, SentMeansInForce, ciVars, ciOwnerVars, frameVars

LEMMA SendIInv ==
  ASSUME IInv, Send
  PROVE  IInv'
<1> DEFINE t == Interceptor
<1>1. /\ pc \in [Threads -> Labels] /\ packet \in [Threads -> Packets \cup {NoPacket}]
      /\ success \in [Threads -> BOOLEAN] /\ wire \in [Packets -> Nat] /\ t \in Threads
  BY DEF IInv, Typed, Threads
<1> USE <1>1
<1>0. /\ pc[t] \in {"dial", "write", "read"} => ~success[t]
      /\ pc[t] \in {"dial", "write", "read", "count"} => packet[t] \in Packets
  BY DEF IInv, Attached
<1>2. CASE SendAttempt /\ Sender!DialOk(t)
  <2>1. /\ pc[t] = "dial" /\ pc' = [pc EXCEPT ![t] = "write"]
        /\ UNCHANGED <<ciVars, envVars, packet, success, wire>>
    BY <1>2 DEF SendAttempt, Sender!DialOk, Sender!Goto
  <2>2. ~unreliable' => ~unreliable /\ Carried'
    BY <2>1 DEF IInv, Carried, envVars
  <2> QED BY <1>0, <2>1, <2>2, WorkIInv DEF envVars
<1>3. CASE SendAttempt /\ Sender!WriteOk(t)
  <2>1. /\ pc[t] = "write" /\ pc' = [pc EXCEPT ![t] = "read"]
        /\ wire' = [wire EXCEPT ![packet[t]] = @ + 1]
        /\ UNCHANGED <<ciVars, envVars, packet, success>>
    BY <1>3 DEF SendAttempt, Sender!WriteOk, Sender!Goto
  <2>2. packet[t] \in Packets
    BY <2>1 DEF IInv, Attached
  <2>3. wire' \in [Packets -> Nat] /\ wire'[packet[t]] > 0 /\ pc'[t] = "read"
    BY <2>1, <2>2
  <2>4. \A p \in Packets : p # packet[t] => wire'[p] = wire[p]
    BY <2>1
  <2>5. ~unreliable' => ~unreliable /\ Carried'
    BY <2>1, <2>3, <2>4 DEF IInv, Carried, envVars
  <2> QED BY <1>0, <2>1, <2>3, <2>5, WorkIInv DEF envVars
<1>4. CASE SendAttempt /\ Sender!Count(t)
  <2>1. /\ pc[t] = "count" /\ UNCHANGED <<ciVars, envVars, packet, success, wire>>
        /\ pc' = [pc EXCEPT ![t] = "returned"]
    BY <1>4, InterceptorAssumption DEF SendAttempt, Sender!Count, Sender!Goto
  <2>2. ~unreliable' => ~unreliable /\ Carried'
    BY <2>1 DEF IInv, Carried, envVars
  <2> QED BY <1>0, <2>1, <2>2, WorkIInv DEF envVars
\* A failed attempt is followed by another one or by the end.
<1>5. ASSUME Sender!Retry(t), wire' = wire, pc[t] \in {"dial", "write", "read"}, UNCHANGED <<ciVars, register>>,
             ~unreliable' => ~unreliable /\ \A p \in Packets : ~(wire[p] > 0)
      PROVE  IInv'
  <2>1. PICK label \in {"dial", "count"} : pc' = [pc EXCEPT ![t] = label]
    BY <1>5 DEF Sender!Retry, Sender!Goto
  <2>2. UNCHANGED <<packet, success>> /\ ~success[t]
    BY <1>0, <1>5 DEF Sender!Retry
  <2>3. ~unreliable' => ~unreliable /\ Carried'
    BY <1>5, <2>1, <2>2 DEF Carried
  <2> QED BY <1>5, <2>1, <2>2, <2>3, WorkIInv
<1>6. CASE SendFault
  <2>1. /\ pc[t] \in {"dial", "write"} /\ Sender!Retry(t) /\ wire' = wire
        /\ UNCHANGED <<ciVars, register, unreliable>>
    BY <1>6 DEF SendFault, Sender!DialFail, Sender!WriteFail
  <2>2. ~unreliable => \A p \in Packets : ~(wire[p] > 0)
    BY <2>1 DEF IInv, Carried
  <2> QED BY <1>5, <2>1, <2>2
<1>7. CASE SendReadFault
  <2>1. /\ pc[t] = "read" /\ Sender!Retry(t) /\ wire' = wire /\ UNCHANGED <<ciVars, register>>
        /\ unreliable' = (unreliable \/ wire[packet[t]] > 0)
    BY <1>7 DEF SendReadFault, Sender!ReadFail, InFlight
  <2>2. ~unreliable' => ~unreliable /\ \A p \in Packets : ~(wire[p] > 0)
    BY <2>1 DEF IInv, Carried
  <2> QED BY <1>5, <2>1, <2>2
<1>8. CASE SendRead
  <2>1. /\ pc[t] = "read" /\ pc' = [pc EXCEPT ![t] = "count"] /\ success' = [success EXCEPT ![t] = TRUE]
        /\ UNCHANGED <<ciVars, register, packet, wire>>
        /\ unreliable' = (unreliable \/ wire[packet[t]] > 0)
    BY <1>8 DEF SendRead, Sender!ReadOk, Sender!Goto, InFlight
  <2>2. ASSUME ~unreliable' PROVE Carried'
    <3>1. Carried /\ ~(wire[packet[t]] > 0) /\ packet[t] \in Packets
      BY <1>0, <2>1, <2>2 DEF IInv
    <3>2. wire[packet[t]] = 0
      BY <3>1
    <3> QED BY <2>1, <3>1, <3>2 DEF Carried
  <2> QED BY <1>0, <2>1, <2>2, WorkIInv
<1> QED BY <1>2, <1>3, <1>4, <1>6, <1>7, <1>8 DEF Send, SendAttempt

\* Whatever arrives is the packet of the attempt under way.
LEMMA DeliveryFacts ==
  ASSUME IInv, NEW p \in Packets, Sender!Deliver(p), ~unreliable
  PROVE  ciPc = "override" /\ pc[Interceptor] = "read" /\ p = assessment.RequiredOpening
<1>1. wire[p] > 0
  BY DEF Sender!Deliver
<1>2. pc[Interceptor] = "read" /\ p = packet[Interceptor]
  BY <1>1 DEF IInv, Carried
<1> QED BY <1>2 DEF IInv, Attached

LEMMA NetworkIInv ==
  ASSUME IInv, NEW p \in Packets, Deliver(p) \/ Lose(p)
  PROVE  IInv'
<1>1. /\ wire' = [wire EXCEPT ![p] = @ - 1] /\ wire[p] > 0 /\ UNCHANGED <<ciVars, pc, packet, success>>
      /\ (register' = p /\ unreliable' = unreliable) \/ unreliable'
  BY DEF Deliver, Lose, Sender!Deliver, Sender!callVars
<1>2. wire' \in [Packets -> Nat] /\ \A q \in Packets : wire'[q] > 0 => wire[q] > 0
  BY <1>1 DEF IInv, Typed
<1>3. Typed' /\ Fresh' /\ Attached'
  BY <1>1, <1>2 DEF IInv, Typed, Fresh, Attached, ciVars, ciOwnerVars, frameVars
<1>4. CASE unreliable'
  BY <1>3, <1>4 DEF IInv, SentMeansInForce
<1>5. CASE ~unreliable'
  <2>1. Deliver(p) /\ register' = p /\ ~unreliable /\ ciPc = "override" /\ pc[Interceptor] = "read"
        /\ p = packet[Interceptor]
    BY <1>1, <1>5, DeliveryFacts DEF Deliver, Lose, IInv, Attached
  <2>2. Carried'
    BY <1>1, <1>2, <2>1 DEF IInv, Carried
  <2> QED BY <1>1, <1>3, <2>1, <2>2 DEF IInv, SentMeansInForce, ciVars
<1> QED BY <1>4, <1>5

-----------------------------------------------------------------------------
LEMMA NextIInv == IInv /\ [Next]_vars => IInv'
<1> SUFFICES ASSUME IInv, [Next]_vars PROVE IInv'
  OBVIOUS
<1>1. CASE UNCHANGED vars
  <2>1. pc' \in [Threads -> Labels] /\ Fresh'
    BY <1>1 DEF IInv, Typed, Fresh, vars, ciOwnerVars, senderVars
  <2> QED BY <1>1, <2>1, QuietIInv DEF vars, frameVars, senderVars, envVars
<1> QED BY <1>1, OwnerIInv, LoopIInv, SenderLoopIInv, FrameIInv, FinishIInv, SendIInv, NetworkIInv
        DEF Next, Frame

LEMMA IInvHolds == Spec => []IInv
BY InitIInv, NextIInv, PTL DEF Spec

\* For any retry count and any number of faults: while no packet was lost and no
\* connection was given up with its packet under way, an override reported as
\* sent is what the valve's register holds (interceptor.go:204-221,
\* sender.go:153-231).
THEOREM SentOverrideInForce == Spec => []SentMeansInForce
<1>1. IInv => SentMeansInForce
  BY DEF IInv
<1> QED BY <1>1, IInvHolds, PTL

\* Only a throttling override reopens a valve that was shut, unless the network
\* delivers an old packet late (interceptor.go:171-222, controller.go:150-176).
THEOREM LockdownStays == Spec => LockdownHolds
<1> DEFINE Reopens == register = LockdownOpening /\ register' # LockdownOpening /\ ~unreliable
           Throttled == assessment.ThreatLevel = ThreatCritical
<1>1. IInv /\ [Next]_vars => [Reopens => Throttled]_vars
  <2> SUFFICES ASSUME IInv, [Next]_vars, Reopens PROVE Throttled
    OBVIOUS
  <2>1. PICK p \in Packets : Deliver(p)
    BY DEF Next, Start, Stop, StopClearRunning, StopCancel, StopSender, StopWait, LoopCheck, LoopEnd, Frame,
           ProcessFrame, FinishOverride, Output, Monitor, Send, SendAttempt, SendFault, SendRead, SendReadFault,
           SenderLoop, Lose, envVars, vars
  <2>2. register' = p /\ Sender!Deliver(p)
    BY <2>1 DEF Deliver
  <2>3. ciPc = "override" /\ p = assessment.RequiredOpening
    BY <2>2, DeliveryFacts
  <2> QED BY <2>2, <2>3 DEF IInv, Attached
<1> QED BY <1>1, IInvHolds, PTL DEF Spec, LockdownHolds

-----------------------------------------------------------------------------
\* Types.  The sender's loop never sends, and the interceptor's calls write at
\* most once an attempt.

Own ==
  /\ ciRunning \in BOOLEAN /\ ciCancelled \in BOOLEAN
  /\ ciOwner \in {"new", "started", "cancel", "stopSender", "wait", "stopped"}
  /\ ciPc \in {"off", "loop", "select", "override", "output", "done"}
  /\ assessment \in Decision
  /\ overrideSent \in BOOLEAN
  /\ currentOpening \in Packets \cup {InitialOpening}
  /\ outputChan \in 0 .. MaxOutput
  /\ register \in Packets \cup {InitialOpening}
  /\ faults \in 0 .. MaxFaults
  /\ unreliable \in BOOLEAN

SenderOwn ==
  /\ running \in BOOLEAN /\ cancelled \in BOOLEAN /\ closed \in BOOLEAN
  /\ owner \in {"new", "started", "cancel", "close", "wait", "stopped"}
  /\ overrideChan = <<>> /\ resultChan \in 0 .. 1

Counters == sentCount = 0 /\ failCount = 0 /\ begun = 0

Calls ==
  /\ pc[SendLoop] \in {"off", "loop", "select", "done"}
  /\ attempt \in [Threads -> 0 .. RetryCount]
  /\ writes \in [Threads -> 0 .. RetryCount + 1]
  /\ wire \in [Packets -> 0 .. MaxInFlight]
  /\ pc[Interceptor] \in {"dial", "write"} => writes[Interceptor] <= attempt[Interceptor]
  /\ pc[Interceptor] = "read" => writes[Interceptor] <= attempt[Interceptor] + 1

TInv == IInv /\ Own /\ SenderOwn /\ Counters /\ Calls

LEMMA OpeningFacts ==
  /\ Packets \subseteq Opening /\ InitialOpening \in Opening /\ LockdownOpening \in Packets
  /\ \A o \in Opening, l \in ThreatLevel, a, b \in BOOLEAN :
       [ThreatLevel |-> l, LockdownRequired |-> a, RequiresOverride |-> b, RequiredOpening |-> o] \in Decision
<1>1. RequiredOpenings \subseteq Opening /\ LockdownOpening \in Opening
  <2>1. ASSUME NEW o \in RequiredOpenings PROVE o \in Opening
    BY ONLY <2>1, SMT DEF RequiredOpenings, Opening, MinOpening, MaxOpening, LockdownOpening
  <2>2. RequiredOpenings \subseteq Opening
    BY ONLY <2>1
  <2>3. 0 \in 0 .. 1000
    BY SMT
  <2>4. LockdownOpening \in Opening
    BY ONLY <2>3, SMT DEF Opening, MaxOpening, LockdownOpening
  <2> QED BY ONLY <2>2, <2>4
<1>2. Packets \subseteq Opening /\ InitialOpening \in Opening /\ LockdownOpening \in Packets
  BY <1>1, InterceptorAssumption DEF Packets
<1>3. \A o \in Opening, l \in ThreatLevel, a, b \in BOOLEAN :
        [ThreatLevel |-> l, LockdownRequired |-> a, RequiresOverride |-> b, RequiredOpening |-> o] \in Decision
  BY DEF Decision
<1> QED BY <1>2, <1>3

LEMMA DecisionTyped ==
  ASSUME NEW atLimit \in BOOLEAN, NEW opening \in Opening, NEW a \in Decisions(atLimit, opening, Throttles)
  PROVE  a \in Decision
<1>1. {ThreatNormal, ThreatElevated, ThreatCritical, ThreatImminent} \subseteq ThreatLevel
  BY DEF ThreatLevel, ThreatNormal, ThreatElevated, ThreatCritical, ThreatImminent
<1>2. Throttles \subseteq Opening /\ LockdownOpening \in Opening
  BY OpeningFacts DEF Packets
<1>3. Imminent \in Decision
  BY <1>1, <1>2, OpeningFacts DEF Imminent
<1>4. Normal(opening) \in Decision
  BY <1>1, OpeningFacts DEF Normal
<1>5. \A o \in Throttles : Elevated(o) \in Decision /\ Critical(o) \in Decision
  BY <1>1, <1>2, OpeningFacts DEF Elevated, Critical
<1> QED BY <1>3, <1>4, <1>5 DEF Decisions

LEMMA InitTInv == Init => TInv
<1> SUFFICES ASSUME Init PROVE TInv
  OBVIOUS
<1> USE InterceptorAssumption
<1>1. SenderOwn /\ Counters
  <2>1. Sender!Init
    BY DEF Init
  <2>2. /\ running = FALSE /\ cancelled = FALSE /\ closed = FALSE /\ owner = "new" /\ overrideChan = <<>>
        /\ resultChan = 0 /\ sentCount = 0 /\ failCount = 0 /\ begun = 0
    BY <2>1 DEF Sender!Init
  <2>3. Counters
    BY <2>2 DEF Counters
  <2>4. 0 \in 0 .. 1
    OBVIOUS
  <2>5. resultChan \in 0 .. 1
    BY ONLY <2>2, <2>4
  <2>6. SenderOwn
    BY ONLY <2>2, <2>5 DEF SenderOwn
  <2> QED BY <2>3, <2>6
<1>2. Own
  <2>1. Normal(InitialOpening) \in Decision
    <3>1. ThreatNormal \in ThreatLevel
      BY DEF ThreatNormal, ThreatLevel, ThreatImminent
    <3> QED BY <3>1, OpeningFacts DEF Normal
  <2>2. 0 \in 0 .. MaxOutput /\ 0 \in 0 .. MaxFaults
    OBVIOUS
  <2>3. /\ outputChan \in 0 .. MaxOutput /\ faults \in 0 .. MaxFaults
        /\ overrideSent \in BOOLEAN /\ unreliable \in BOOLEAN /\ ciRunning \in BOOLEAN /\ ciCancelled \in BOOLEAN
    BY <2>2 DEF Init
  <2>4. assessment \in Decision
    BY <2>1 DEF Init
  <2>5. /\ ciOwner = "new" /\ ciPc = "off" /\ currentOpening = InitialOpening /\ register = InitialOpening
    BY DEF Init
  <2> QED BY <2>3, <2>4, <2>5 DEF Own
<1>3. Calls
  <2>1. /\ pc = [t \in Threads |-> IF t = SendLoop THEN "off" ELSE "idle"]
        /\ attempt = [t \in Threads |-> 0] /\ writes = [t \in Threads |-> 0]
        /\ wire = [p \in Packets |-> 0]
    BY DEF Init, Sender!Init, Sender!Threads, Threads
  <2> QED BY <2>1 DEF Calls, Threads
<1> QED BY <1>1, <1>2, <1>3, InitIInv DEF TInv

LEMMA OwnNext ==
  ASSUME TInv, [Next]_vars
  PROVE  Own'
<1> USE InterceptorAssumption DEF TInv, Own, envVars, ciVars, ciOwnerVars, frameVars
<1>1. CASE Start \/ Stop
  BY <1>1 DEF Start, Stop, StopClearRunning, StopCancel, StopSender, StopWait
<1>2. CASE LoopCheck \/ LoopEnd
  BY <1>2 DEF LoopCheck, LoopEnd
<1>3. CASE Output \/ Monitor
  BY <1>3 DEF Output, Monitor
<1>4. ASSUME NEW atLimit \in BOOLEAN, ProcessFrame(atLimit) PROVE Own'
  <2>1. assessment' \in Decisions(atLimit, currentOpening, Throttles) /\ currentOpening \in Opening
    BY <1>4, OpeningFacts DEF ProcessFrame
  <2>2. assessment' \in Decision
    BY <2>1, DecisionTyped
  <2> QED BY <1>4, <2>2 DEF ProcessFrame
<1>5. CASE FinishOverride
  <2>1. assessment.RequiredOpening \in Packets /\ success[Interceptor] \in BOOLEAN
    BY <1>5 DEF FinishOverride, IInv, Attached, Typed, Threads
  <2> QED BY <1>5, <2>1 DEF FinishOverride
<1>6. CASE Send \/ SenderLoop
  <2>1. UNCHANGED <<ciVars, register>>
    BY <1>6 DEF Send, SendAttempt, SendFault, SendRead, SendReadFault, SenderLoop
  <2>2. faults' \in 0 .. MaxFaults
    BY <1>6 DEF Send, SendAttempt, SendFault, SendRead, SendReadFault, SenderLoop
  <2>3. unreliable' \in BOOLEAN
    BY <1>6 DEF Send, SendAttempt, SendFault, SendRead, SendReadFault, SenderLoop, InFlight
  <2> QED BY <2>1, <2>2, <2>3
<1>7. ASSUME NEW p \in Packets, Deliver(p) \/ Lose(p) PROVE Own'
  <2>1. UNCHANGED ciVars
    BY <1>7 DEF Deliver, Lose
  <2>2. register' \in Packets \cup {InitialOpening}
    BY <1>7 DEF Deliver, Lose
  <2>3. faults' \in 0 .. MaxFaults
    <3>1. CASE Deliver(p)
      <4>1. faults' = faults
        BY <3>1 DEF Deliver
      <4> QED BY <4>1
    <3>2. CASE Lose(p)
      <4>1. faults < MaxFaults /\ faults' = faults + 1
        BY <3>2 DEF Lose
      <4>2. MaxFaults \in Nat /\ faults \in 0 .. MaxFaults
        OBVIOUS
      <4> QED BY ONLY <4>1, <4>2, SMT
    <3> QED BY <1>7, <3>1, <3>2
  <2>4. unreliable' \in BOOLEAN
    BY <1>7 DEF Deliver, Lose
  <2> QED BY <2>1, <2>2, <2>3, <2>4
<1>8. CASE UNCHANGED vars
  BY <1>8 DEF vars
<1> QED BY <1>1, <1>2, <1>3, <1>4, <1>5, <1>6, <1>7, <1>8 DEF Next, Frame

LEMMA SenderOwnNext ==
  ASSUME TInv, [Next]_vars
  PROVE  SenderOwn' /\ Counters'
<1>1. \A c \in {0} : Sender!Increment(c) = 0
  BY DEF Sender!Increment
<1> USE <1>1 DEF TInv, SenderOwn, Counters
<1>2. CASE UNCHANGED <<running, cancelled, closed, owner, overrideChan, resultChan, sentCount, failCount, begun>>
  BY <1>2
<1>3. CASE Start
  BY <1>3 DEF Start, Sender!Start, Sender!statVars
<1>4. CASE Stop
  BY <1>4
  DEF Stop, StopClearRunning, StopCancel, StopSender, StopWait, senderVars, Sender!Stop, Sender!StopClearRunning,
      Sender!StopCancel, Sender!StopClose, Sender!StopWait, Sender!statVars
<1>5. CASE Send
  BY <1>5
  DEF Send, SendAttempt, SendFault, SendRead, SendReadFault, Sender!DialOk, Sender!DialFail, Sender!WriteOk,
      Sender!WriteFail, Sender!ReadOk, Sender!ReadFail, Sender!Count, Sender!Retry, Sender!ownerVars,
      Sender!statVars
<1>6. ASSUME NEW atLimit \in BOOLEAN, ProcessFrame(atLimit) PROVE SenderOwn' /\ Counters'
  BY <1>6 DEF ProcessFrame, Sender!EmergencySend, Sender!BeginSend, Sender!ownerVars, senderVars
<1>7. CASE FinishOverride
  BY <1>7 DEF FinishOverride, Sender!Return, Sender!ownerVars, Sender!statVars
<1>8. CASE SenderLoop
  BY <1>8 DEF SenderLoop, Sender!LoopCheck, Sender!LoopEnd, Sender!ownerVars, Sender!statVars
<1>9. CASE LoopCheck \/ LoopEnd \/ Output \/ Monitor \/ UNCHANGED vars
  BY <1>2, <1>9 DEF LoopCheck, LoopEnd, Output, Monitor, senderVars, vars
<1>10. ASSUME NEW p \in Packets, Deliver(p) \/ Lose(p) PROVE SenderOwn' /\ Counters'
  BY <1>10 DEF Deliver, Lose, Sender!Deliver, Sender!ownerVars, Sender!statVars
<1> QED BY <1>3, <1>4, <1>5, <1>6, <1>7, <1>8, <1>9, <1>10 DEF Next, Frame

LEMMA CallsNext ==
  ASSUME TInv, [Next]_vars
  PROVE  Calls'
<1> DEFINE t == Interceptor
<1> USE InterceptorAssumption DEF TInv
<1>1. /\ pc \in [Threads -> Labels] /\ packet \in [Threads -> Packets \cup {NoPacket}]
      /\ t \in Threads /\ SendLoop \in Threads /\ t # SendLoop
  BY DEF IInv, Typed, Threads
<1>2. CASE UNCHANGED <<pc, attempt, writes, wire>>
  BY <1>2 DEF Calls
<1>3. CASE Start
  <2>1. pc' = [pc EXCEPT ![SendLoop] = "loop"] /\ UNCHANGED <<attempt, writes, wire>>
    BY <1>3 DEF Start, Sender!Start, Sender!Goto
  <2> QED BY <1>1, <2>1 DEF Calls
<1>4. CASE SenderLoop
  <2>1. \E label \in {"select", "done"} : pc' = [pc EXCEPT ![SendLoop] = label]
    BY <1>4 DEF SenderLoop, Sender!LoopCheck, Sender!LoopEnd, Sender!Goto
  <2>2. UNCHANGED <<attempt, writes, wire>>
    BY <1>4 DEF SenderLoop, Sender!LoopCheck, Sender!LoopEnd
  <2> QED BY <1>1, <2>1, <2>2 DEF Calls
<1>5. ASSUME NEW label \in {"dial", "idle"}, NEW p, Sender!Enter(t, label, p), wire' = wire PROVE Calls'
  <2>1. /\ pc' = [pc EXCEPT ![t] = label] /\ attempt' = [attempt EXCEPT ![t] = 0]
        /\ writes' = [writes EXCEPT ![t] = 0]
    BY <1>5 DEF Sender!Enter, Sender!Goto
  <2>2. /\ attempt' \in [Threads -> 0 .. RetryCount] /\ writes' \in [Threads -> 0 .. RetryCount + 1]
        /\ writes'[t] = 0 /\ attempt'[t] = 0
    BY <1>1, <2>1 DEF Calls
  <2> QED BY <1>1, <1>5, <2>1, <2>2 DEF Calls
<1>6. ASSUME NEW atLimit \in BOOLEAN, ProcessFrame(atLimit) PROVE Calls'
  <2>1. CASE UNCHANGED senderVars
    BY <1>2, <2>1 DEF senderVars
  <2>2. CASE Sender!EmergencySend(t, assessment'.RequiredOpening)
    BY <1>5, <2>2 DEF Sender!EmergencySend, Sender!BeginSend
  <2> QED BY <1>6, <2>1, <2>2 DEF ProcessFrame
<1>7. CASE FinishOverride
  BY <1>5, <1>7 DEF FinishOverride, Sender!Return
<1>8. CASE Send
  <2>1. ASSUME Sender!Retry(t), pc[t] \in {"dial", "write", "read"}, wire' = wire PROVE Calls'
    <3>1. writes' = writes /\ writes[t] <= attempt[t] + 1 /\ attempt[t] \in Nat /\ writes[t] \in Nat
      BY <1>1, <2>1 DEF Sender!Retry, Calls
    <3>2. CASE attempt' = [attempt EXCEPT ![t] = @ + 1] /\ pc' = [pc EXCEPT ![t] = "dial"] /\ attempt[t] < RetryCount
      <4>1. attempt' \in [Threads -> 0 .. RetryCount] /\ attempt'[t] = attempt[t] + 1
        BY <1>1, <3>1, <3>2 DEF Calls
      <4> QED BY <1>1, <2>1, <3>1, <3>2, <4>1 DEF Calls
    <3>3. CASE attempt' = attempt /\ pc' = [pc EXCEPT ![t] = "count"]
      BY <1>1, <2>1, <3>1, <3>3 DEF Calls
    <3> QED BY <2>1, <3>2, <3>3 DEF Sender!Retry, Sender!Goto
  <2>2. CASE SendFault \/ SendReadFault
    <3>1. Sender!Retry(t) /\ pc[t] \in {"dial", "write", "read"} /\ wire' = wire
      BY <2>2 DEF SendFault, SendReadFault, Sender!DialFail, Sender!WriteFail, Sender!ReadFail
    <3> QED BY <2>1, <3>1
  <2>3. CASE SendRead \/ (SendAttempt /\ ~Sender!WriteOk(t))
    <3>1. /\ UNCHANGED <<attempt, writes, wire>>
          /\ \/ pc[t] = "dial" /\ pc' = [pc EXCEPT ![t] = "write"]
             \/ pc' = [pc EXCEPT ![t] = "count"] \/ pc' = [pc EXCEPT ![t] = "returned"]
      BY <2>3, <1>1 DEF SendRead, SendAttempt, Sender!ReadOk, Sender!DialOk, Sender!Count, Sender!Goto
    <3> QED BY <1>1, <3>1 DEF Calls
  <2>4. CASE SendAttempt /\ Sender!WriteOk(t)
    <3>1. /\ pc[t] = "write" /\ pc' = [pc EXCEPT ![t] = "read"] /\ attempt' = attempt
          /\ wire' = [wire EXCEPT ![packet[t]] = @ + 1] /\ wire[packet[t]] < MaxInFlight
          /\ writes' = [writes EXCEPT ![t] = @ + 1]
      BY <2>4 DEF Sender!WriteOk, Sender!Goto
    <3>2. /\ packet[t] \in Packets /\ writes[t] <= attempt[t] /\ attempt[t] \in 0 .. RetryCount
          /\ writes[t] \in Nat
      BY <1>1, <3>1 DEF IInv, Attached, Calls
    <3>3. wire' \in [Packets -> 0 .. MaxInFlight]
      BY <3>1, <3>2 DEF Calls
    <3>4. writes' \in [Threads -> 0 .. RetryCount + 1] /\ writes'[t] = writes[t] + 1
      BY <1>1, <3>1, <3>2 DEF Calls
    <3> QED BY <1>1, <3>1, <3>2, <3>3, <3>4 DEF Calls
  <2> QED BY <1>8, <2>2, <2>3, <2>4 DEF Send
<1>9. ASSUME NEW p \in Packets, Deliver(p) \/ Lose(p) PROVE Calls'
  <2>1. /\ UNCHANGED <<pc, attempt, writes>> /\ wire[p] > 0 /\ wire' = [wire EXCEPT ![p] = @ - 1]
    BY <1>9 DEF Deliver, Lose, Sender!Deliver, Sender!callVars
  <2>2. wire' \in [Packets -> 0 .. MaxInFlight]
    BY <2>1 DEF Calls
  <2> QED BY <2>1, <2>2 DEF Calls
<1>10. CASE LoopCheck \/ LoopEnd \/ Output \/ Monitor \/ Stop \/ UNCHANGED vars
  BY <1>2, <1>10
  DEF LoopCheck, LoopEnd, Output, Monitor, Stop, StopClearRunning, StopCancel, StopSender, StopWait, senderVars,
      Sender!Stop, Sender!StopClearRunning, Sender!StopCancel, Sender!StopClose, Sender!StopWait,
      Sender!callVars, vars
<1> QED BY <1>3, <1>4, <1>6, <1>7, <1>8, <1>9, <1>10 DEF Next, Frame

\* Interceptor and sender keep their types together: the sender's queue stays
\* empty, its loop never sends, and a call writes at most once an attempt
\* (interceptor.go:151-246, sender.go:119-231).
THEOREM InterceptorTypeCorrect == Spec => []TypeOK
<1>1. TInv /\ [Next]_vars => TInv'
  BY NextIInv, OwnNext, SenderOwnNext, CallsNext DEF TInv
<1>2. TInv => TypeOK
  <2> SUFFICES ASSUME TInv PROVE TypeOK
    OBVIOUS
  <2>1. Sender!TypeOK
    <3>1. Sender!Threads = Threads
      BY DEF Sender!Threads, Threads
    <3>2. overrideChan \in Seq(Packets) /\ Len(overrideChan) <= 1
      BY DEF TInv, SenderOwn
    <3>3. {sentCount, failCount, begun} \subseteq 0 .. 1 - 1
      BY DEF TInv, Counters
    <3>4. \A t \in Threads : Sender!Sending(t) \/ pc[t] = "enqueue" => packet[t] \in Packets
      BY DEF TInv, IInv, Attached, Calls, Sender!Sending, Threads
    <3> QED BY <3>1, <3>2, <3>3, <3>4 DEF TInv, IInv, Typed, Labels, SenderOwn, Calls, Sender!TypeOK
  <2> QED BY <2>1 DEF TInv, Own, TypeOK
<1> QED BY InitTInv, <1>1, <1>2, PTL DEF Spec
==============================================================================
