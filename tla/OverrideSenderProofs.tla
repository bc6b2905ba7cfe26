------------------------- MODULE OverrideSenderProofs -------------------------
(***************************************************************************)
(* Theorems about OverrideSender, for every set of callers and packets and *)
(* every retry count, capacity and bound.                                  *)
(***************************************************************************)
EXTENDS OverrideSender, FiniteSetTheorems, TLAPS

\* What a send has done so far bounds what it has written, and settles what it
\* may report.
Tracked(t) ==
  /\ writes[t] <= attempt[t] + (IF pc[t] \in {"dial", "write"} THEN 0 ELSE 1)
  /\ pc[t] \in {"dial", "write", "read"} => ~success[t]
  /\ pc[t] = "read" => writes[t] >= 1
  /\ Finished(t) => IF success[t] THEN writes[t] >= 1 ELSE attempt[t] = RetryCount

IInv == TypeOK /\ \A t \in Threads : Tracked(t)

\* The types of the variables that describe calls, and of the others.
CallsTyped ==
  /\ pc \in [Threads -> {"off", "idle", "enqueue", "true", "false", "panicked",
                         "loop", "select", "done", "dial", "write", "read",
                         "count", "emit", "returned"}]
  /\ packet \in [Threads -> Packets \cup {NoPacket}]
  /\ \A t \in Threads : Sending(t) \/ pc[t] = "enqueue" => packet[t] \in Packets
  /\ attempt \in [Threads -> 0 .. RetryCount]
  /\ success \in [Threads -> BOOLEAN]
  /\ writes \in [Threads -> 0 .. RetryCount + 1]

OwnerTyped ==
  /\ running \in BOOLEAN /\ cancelled \in BOOLEAN /\ closed \in BOOLEAN
  /\ owner \in {"new", "started", "cancel", "close", "wait", "stopped"}

ChannelsTyped ==
  /\ overrideChan \in Seq(Packets) /\ Len(overrideChan) <= MaxOverrideQueueSize
  /\ resultChan \in 0 .. MaxResults

CountersTyped == {sentCount, failCount, begun} \subseteq 0 .. CounterModulus - 1

WireTyped == wire \in [Packets -> 0 .. MaxInFlight]

LEMMA TypeOKParts ==
  /\ TypeOK <=> OwnerTyped /\ ChannelsTyped /\ CallsTyped /\ CountersTyped /\ WireTyped
  /\ TypeOK' <=> OwnerTyped' /\ ChannelsTyped' /\ CallsTyped' /\ CountersTyped' /\ WireTyped'
BY DEF TypeOK, OwnerTyped, ChannelsTyped, CallsTyped, CountersTyped, WireTyped

\* A counter stays below its modulus.
LEMMA IncrementRange ==
  ASSUME NEW c \in 0 .. CounterModulus - 1
  PROVE  Increment(c) \in 0 .. CounterModulus - 1
BY SenderAssumption DEF Increment

------------------------------------------------------------------------------
\* Calls stay well typed and tracked: the steps that touch the local variables
\* of one thread t.  Every other thread keeps its own.

LEMMA RetryTracked ==
  ASSUME CallsTyped, NEW t \in Threads, \A u \in Threads : Tracked(u),
         pc[t] \in {"dial", "write", "read"}, Retry(t)
  PROVE  CallsTyped' /\ \A u \in Threads : Tracked(u)'
<1> USE SenderAssumption DEF CallsTyped
<1>1. /\ packet' = packet /\ success' = success /\ writes' = writes
      /\ ~success[t] /\ writes[t] <= attempt[t] + 1
      /\ writes[t] \in 0 .. RetryCount + 1 /\ attempt[t] \in 0 .. RetryCount
  BY DEF Retry, Tracked
<1>2. CASE attempt[t] < RetryCount
  <2>1. /\ attempt' = [attempt EXCEPT ![t] = @ + 1]
        /\ pc' = [pc EXCEPT ![t] = "dial"]
    BY <1>2 DEF Retry, Goto
  <2>2. CallsTyped'
    BY <1>1, <1>2, <2>1 DEF Sending
  <2>3. Tracked(t)'
    BY <1>1, <2>1 DEF Tracked, Finished
  <2>4. ASSUME NEW u \in Threads, u # t PROVE Tracked(u)'
    BY <1>1, <2>1, <2>4 DEF Tracked, Finished
  <2> QED BY <2>2, <2>3, <2>4
<1>3. CASE ~(attempt[t] < RetryCount)
  <2>1. /\ attempt' = attempt
        /\ pc' = [pc EXCEPT ![t] = "count"]
    BY <1>3 DEF Retry, Goto
  <2>2. CallsTyped'
    BY <1>1, <2>1 DEF Sending
  <2>3. Tracked(t)'
    BY <1>1, <1>3, <2>1 DEF Tracked, Finished
  <2>4. ASSUME NEW u \in Threads, u # t PROVE Tracked(u)'
    BY <1>1, <2>1, <2>4 DEF Tracked, Finished
  <2> QED BY <2>2, <2>3, <2>4
<1> QED BY <1>2, <1>3

\* A thread enters a label outside a send, or begins one, with fresh variables.
LEMMA EnterTracked ==
  ASSUME CallsTyped, NEW t \in Threads, \A u \in Threads : Tracked(u),
         NEW label \in {"idle", "loop", "dial"}, NEW p \in Packets \cup {NoPacket},
         label = "dial" => p \in Packets, Enter(t, label, p)
  PROVE  CallsTyped' /\ \A u \in Threads : Tracked(u)'
<1> USE SenderAssumption DEF CallsTyped
<1>1. /\ pc' = [pc EXCEPT ![t] = label]
      /\ packet' = [packet EXCEPT ![t] = p]
      /\ attempt' = [attempt EXCEPT ![t] = 0]
      /\ success' = [success EXCEPT ![t] = FALSE]
      /\ writes' = [writes EXCEPT ![t] = 0]
  BY DEF Enter, Goto
<1>2. CallsTyped'
  BY <1>1 DEF Sending
<1>3. Tracked(t)'
  BY <1>1 DEF Tracked, Finished
<1>4. ASSUME NEW u \in Threads, u # t PROVE Tracked(u)'
  BY <1>1, <1>4 DEF Tracked, Finished
<1> QED BY <1>2, <1>3, <1>4

\* A thread moves on to a label that is not a send's.
LEMMA GotoTracked ==
  ASSUME CallsTyped, NEW t \in Threads, \A u \in Threads : Tracked(u),
         NEW label \in {"true", "false", "panicked", "loop", "select", "done"},
         Goto(t, label), UNCHANGED <<packet, attempt, success, writes>>
  PROVE  CallsTyped' /\ \A u \in Threads : Tracked(u)'
<1> USE SenderAssumption DEF CallsTyped
<1>1. pc' = [pc EXCEPT ![t] = label]
  BY DEF Goto
<1>2. CallsTyped'
  BY <1>1 DEF Sending
<1>3. Tracked(t)'
  BY <1>1 DEF Tracked, Finished
<1>4. ASSUME NEW u \in Threads, u # t PROVE Tracked(u)'
  BY <1>1, <1>4 DEF Tracked, Finished
<1> QED BY <1>2, <1>3, <1>4

LEMMA CallsUntouched ==
  ASSUME CallsTyped, \A u \in Threads : Tracked(u), UNCHANGED callVars
  PROVE  CallsTyped' /\ \A u \in Threads : Tracked(u)'
BY DEF CallsTyped, Tracked, Finished, Sending, callVars

------------------------------------------------------------------------------
LEMMA InitIInv == Init => IInv
<1> USE SenderAssumption
<1>1. Init => TypeOK
  <2> SUFFICES ASSUME Init PROVE TypeOK
    OBVIOUS
  <2>1. CallsTyped
    BY DEF Init, CallsTyped, Sending
  <2>2. ChannelsTyped
    <3>1. overrideChan = <<>> /\ resultChan = 0
      BY DEF Init
    <3> QED BY <3>1 DEF ChannelsTyped
  <2>3. OwnerTyped
    BY DEF Init, OwnerTyped
  <2>4. CountersTyped /\ WireTyped
    BY DEF Init, CountersTyped, WireTyped
  <2> QED BY <2>1, <2>2, <2>3, <2>4, TypeOKParts
<1>2. Init => \A t \in Threads : Tracked(t)
  BY DEF Init, Tracked, Finished
<1> QED BY <1>1, <1>2 DEF IInv

LEMMA SendPacketIInv ==
  ASSUME IInv, NEW t \in Threads, SendPacket(t)
  PROVE  IInv'
<1> USE SenderAssumption
<1>1. /\ OwnerTyped /\ ChannelsTyped /\ CallsTyped /\ CountersTyped /\ WireTyped
      /\ \A u \in Threads : Tracked(u)
  BY TypeOKParts DEF IInv
<1>2. OwnerTyped' /\ ChannelsTyped'
  <2>1. UNCHANGED <<ownerVars, overrideChan, resultChan>>
    BY DEF SendPacket, DialOk, DialFail, WriteOk, WriteFail, ReadOk, ReadFail, Count, Retry
  <2> QED BY <1>1, <2>1 DEF OwnerTyped, ChannelsTyped, ownerVars
<1>3. CASE DialFail(t) \/ WriteFail(t) \/ ReadFail(t)
  <2>1. /\ pc[t] \in {"dial", "write", "read"} /\ Retry(t)
        /\ UNCHANGED <<wire, statVars>>
    BY <1>3 DEF DialFail, WriteFail, ReadFail, Retry
  <2>2. CallsTyped' /\ \A u \in Threads : Tracked(u)'
    BY <1>1, <2>1, RetryTracked
  <2>3. CountersTyped' /\ WireTyped'
    BY <1>1, <2>1 DEF CountersTyped, WireTyped, statVars
  <2> QED BY <1>2, <2>2, <2>3, TypeOKParts DEF IInv
<1>4. CASE DialOk(t)
  <2>1. /\ pc[t] = "dial" /\ pc' = [pc EXCEPT ![t] = "write"]
        /\ UNCHANGED <<packet, attempt, success, writes, statVars, wire>>
    BY <1>4 DEF DialOk, Goto
  <2>2. CallsTyped'
    BY <1>1, <2>1 DEF CallsTyped, Sending
  <2>3. ASSUME NEW u \in Threads PROVE Tracked(u)'
    BY <1>1, <2>1 DEF CallsTyped, Tracked, Finished
  <2>4. CountersTyped' /\ WireTyped'
    BY <1>1, <2>1 DEF CountersTyped, WireTyped, statVars
  <2> QED BY <1>2, <2>2, <2>3, <2>4, TypeOKParts DEF IInv
<1>5. CASE WriteOk(t)
  <2>1. /\ pc[t] = "write" /\ pc' = [pc EXCEPT ![t] = "read"]
        /\ writes' = [writes EXCEPT ![t] = @ + 1]
        /\ wire[packet[t]] < MaxInFlight
        /\ wire' = [wire EXCEPT ![packet[t]] = @ + 1]
        /\ UNCHANGED <<packet, attempt, success, statVars>>
    BY <1>5 DEF WriteOk, Goto
  <2>2. /\ writes[t] <= attempt[t] /\ writes[t] \in Nat /\ attempt[t] \in 0 .. RetryCount
        /\ packet[t] \in Packets
    BY <1>1, <2>1 DEF CallsTyped, Tracked, Sending
  <2>3. CallsTyped'
    BY <1>1, <2>1, <2>2 DEF CallsTyped, Sending
  <2>4. Tracked(t)'
    BY <1>1, <2>1, <2>2 DEF CallsTyped, Tracked, Finished
  <2>5. ASSUME NEW u \in Threads, u # t PROVE Tracked(u)'
    BY <1>1, <2>1, <2>5 DEF CallsTyped, Tracked, Finished
  <2>6. CountersTyped' /\ WireTyped'
    BY <1>1, <2>1, <2>2 DEF CountersTyped, WireTyped, statVars
  <2> QED BY <1>2, <2>3, <2>4, <2>5, <2>6, TypeOKParts DEF IInv
<1>6. CASE ReadOk(t)
  <2>1. /\ pc[t] = "read" /\ pc' = [pc EXCEPT ![t] = "count"]
        /\ success' = [success EXCEPT ![t] = TRUE]
        /\ UNCHANGED <<packet, attempt, writes, statVars, wire>>
    BY <1>6 DEF ReadOk, Goto
  <2>2. CallsTyped'
    BY <1>1, <2>1 DEF CallsTyped, Sending
  <2>3. ASSUME NEW u \in Threads PROVE Tracked(u)'
    BY <1>1, <2>1 DEF CallsTyped, Tracked, Finished
  <2>4. CountersTyped' /\ WireTyped'
    BY <1>1, <2>1 DEF CountersTyped, WireTyped, statVars
  <2> QED BY <1>2, <2>2, <2>3, <2>4, TypeOKParts DEF IInv
<1>7. CASE Count(t)
  <2>1. /\ pc[t] = "count"
        /\ pc' = [pc EXCEPT ![t] = IF t = SendLoop THEN "emit" ELSE "returned"]
        /\ UNCHANGED <<packet, attempt, success, writes, begun, wire>>
        /\ sentCount' \in {sentCount, Increment(sentCount)}
        /\ failCount' \in {failCount, Increment(failCount)}
    BY <1>7 DEF Count, Goto
  <2>2. CallsTyped'
    BY <1>1, <2>1 DEF CallsTyped, Sending
  <2>3. ASSUME NEW u \in Threads PROVE Tracked(u)'
    BY <1>1, <2>1 DEF CallsTyped, Tracked, Finished
  <2>4. CountersTyped' /\ WireTyped'
    BY <1>1, <2>1, IncrementRange DEF CountersTyped, WireTyped
  <2> QED BY <1>2, <2>2, <2>3, <2>4, TypeOKParts DEF IInv
<1> QED BY <1>3, <1>4, <1>5, <1>6, <1>7 DEF SendPacket

LEMMA CallerIInv ==
  ASSUME IInv, NEW t \in Callers, Caller(t)
  PROVE  IInv'
<1> USE SenderAssumption
<1>1. /\ OwnerTyped /\ ChannelsTyped /\ CallsTyped /\ CountersTyped /\ WireTyped
      /\ \A u \in Threads : Tracked(u)
      /\ t \in Threads
  BY TypeOKParts DEF IInv, Threads
<1>2. ASSUME NEW p \in Packets, EmergencySend(t, p) PROVE IInv'
  <2>1. /\ Enter(t, "dial", p)
        /\ begun' = Increment(begun)
        /\ UNCHANGED <<ownerVars, overrideChan, resultChan, sentCount, failCount, wire>>
    BY <1>2 DEF EmergencySend, BeginSend
  <2>2. CallsTyped' /\ \A u \in Threads : Tracked(u)'
    BY <1>1, <2>1, EnterTracked
  <2>3. CountersTyped'
    BY <1>1, <2>1, IncrementRange DEF CountersTyped
  <2>4. OwnerTyped' /\ ChannelsTyped' /\ WireTyped'
    BY <1>1, <2>1 DEF OwnerTyped, ChannelsTyped, WireTyped, ownerVars
  <2> QED BY <2>2, <2>3, <2>4, TypeOKParts DEF IInv
<1>3. ASSUME NEW p \in Packets, SendCheck(t, p) PROVE IInv'
  <2>1. /\ pc[t] = "idle"
        /\ pc' = [pc EXCEPT ![t] = IF running THEN "enqueue" ELSE "false"]
        /\ packet' = [packet EXCEPT ![t] = p]
        /\ UNCHANGED <<ownerVars, overrideChan, resultChan, attempt, success,
                       writes, statVars, wire>>
    BY <1>3 DEF SendCheck, Goto
  <2>2. CallsTyped'
    BY <1>1, <2>1 DEF CallsTyped, Sending
  <2>3. ASSUME NEW u \in Threads PROVE Tracked(u)'
    BY <1>1, <2>1 DEF CallsTyped, Tracked, Finished
  <2>4. OwnerTyped' /\ ChannelsTyped' /\ CountersTyped' /\ WireTyped'
    BY <1>1, <2>1
    DEF OwnerTyped, ChannelsTyped, CountersTyped, WireTyped, ownerVars, statVars
  <2> QED BY <2>2, <2>3, <2>4, TypeOKParts DEF IInv
<1>4. CASE SendEnqueue(t)
  <2>1. PICK label \in {"true", "false", "panicked"} : Goto(t, label)
    BY <1>4 DEF SendEnqueue
  <2>2. /\ pc[t] = "enqueue"
        /\ UNCHANGED <<ownerVars, resultChan, packet, attempt, success, writes,
                       statVars, wire>>
    BY <1>4 DEF SendEnqueue
  <2>3. CallsTyped' /\ \A u \in Threads : Tracked(u)'
    BY <1>1, <2>1, <2>2, GotoTracked
  <2>4. packet[t] \in Packets
    BY <1>1, <2>2 DEF CallsTyped
  <2>5. ChannelsTyped'
    BY <1>1, <1>4, <2>2, <2>4 DEF ChannelsTyped, SendEnqueue
  <2>6. OwnerTyped' /\ CountersTyped' /\ WireTyped'
    BY <1>1, <2>2 DEF OwnerTyped, CountersTyped, WireTyped, ownerVars, statVars
  <2> QED BY <2>3, <2>5, <2>6, TypeOKParts DEF IInv
<1>5. CASE Return(t)
  <2>1. /\ Enter(t, "idle", NoPacket)
        /\ UNCHANGED <<ownerVars, overrideChan, resultChan, statVars, wire>>
    BY <1>5 DEF Return
  <2>2. CallsTyped' /\ \A u \in Threads : Tracked(u)'
    BY <1>1, <2>1, EnterTracked
  <2>3. OwnerTyped' /\ ChannelsTyped' /\ CountersTyped' /\ WireTyped'
    BY <1>1, <2>1
    DEF OwnerTyped, ChannelsTyped, CountersTyped, WireTyped, ownerVars, statVars
  <2> QED BY <2>2, <2>3, TypeOKParts DEF IInv
<1> QED BY <1>2, <1>3, <1>4, <1>5 DEF Caller

LEMMA LoopIInv ==
  ASSUME IInv, Loop
  PROVE  IInv'
<1> USE SenderAssumption
<1>1. /\ OwnerTyped /\ ChannelsTyped /\ CallsTyped /\ CountersTyped /\ WireTyped
      /\ \A u \in Threads : Tracked(u)
      /\ SendLoop \in Threads
  BY TypeOKParts DEF IInv, Threads
<1>2. CASE LoopCheck \/ LoopEnd
  <2>1. PICK label \in {"select", "done"} : Goto(SendLoop, label)
    BY <1>2 DEF LoopCheck, LoopEnd
  <2>2. /\ pc[SendLoop] \in {"loop", "select"}
        /\ UNCHANGED <<ownerVars, overrideChan, resultChan, packet, attempt,
                       success, writes, statVars, wire>>
    BY <1>2 DEF LoopCheck, LoopEnd
  <2>3. CallsTyped' /\ \A u \in Threads : Tracked(u)'
    BY <1>1, <2>1, <2>2, GotoTracked
  <2>4. OwnerTyped' /\ ChannelsTyped' /\ CountersTyped' /\ WireTyped'
    BY <1>1, <2>2
    DEF OwnerTyped, ChannelsTyped, CountersTyped, WireTyped, ownerVars, statVars
  <2> QED BY <2>3, <2>4, TypeOKParts DEF IInv
<1>3. CASE LoopReceive
  <2>1. /\ overrideChan # <<>> /\ overrideChan' = Tail(overrideChan)
        /\ Enter(SendLoop, "dial", Head(overrideChan))
        /\ begun' = Increment(begun)
        /\ UNCHANGED <<ownerVars, resultChan, sentCount, failCount, wire>>
    BY <1>3 DEF LoopReceive, BeginSend
  <2>2. ChannelsTyped' /\ Head(overrideChan) \in Packets
    BY <1>1, <2>1 DEF ChannelsTyped
  <2>3. CallsTyped' /\ \A u \in Threads : Tracked(u)'
    BY <1>1, <2>1, <2>2, EnterTracked
  <2>4. CountersTyped'
    BY <1>1, <2>1, IncrementRange DEF CountersTyped
  <2>5. OwnerTyped' /\ WireTyped'
    BY <1>1, <2>1 DEF OwnerTyped, WireTyped, ownerVars
  <2> QED BY <2>2, <2>3, <2>4, <2>5, TypeOKParts DEF IInv
<1>4. CASE LoopEmit
  <2>1. /\ Enter(SendLoop, "loop", NoPacket)
        /\ UNCHANGED <<ownerVars, overrideChan, statVars, wire>>
    BY <1>4 DEF LoopEmit
  <2>2. CallsTyped' /\ \A u \in Threads : Tracked(u)'
    BY <1>1, <2>1, EnterTracked
  <2>3. ChannelsTyped'
    BY <1>1, <1>4 DEF ChannelsTyped, LoopEmit
  <2>4. OwnerTyped' /\ CountersTyped' /\ WireTyped'
    BY <1>1, <2>1 DEF OwnerTyped, CountersTyped, WireTyped, ownerVars, statVars
  <2> QED BY <2>2, <2>3, <2>4, TypeOKParts DEF IInv
<1> QED BY <1>2, <1>3, <1>4 DEF Loop

------------------------------------------------------------------------------
\* The owner's steps and the network's leave every call alone.
LEMMA OtherIInv ==
  ASSUME IInv,
         Start \/ Stop \/ (\E p \in Packets : Deliver(p)) \/ UNCHANGED vars
  PROVE  IInv'
<1> USE SenderAssumption
<1>1. /\ OwnerTyped /\ ChannelsTyped /\ CallsTyped /\ CountersTyped /\ WireTyped
      /\ \A u \in Threads : Tracked(u)
  BY TypeOKParts DEF IInv
<1>2. UNCHANGED <<overrideChan, resultChan, statVars>>
  BY DEF Start, Stop, StopClearRunning, StopCancel, StopClose, StopWait, Deliver, vars
<1>3. ChannelsTyped' /\ CountersTyped'
  BY <1>1, <1>2 DEF ChannelsTyped, CountersTyped, statVars
<1>4. OwnerTyped'
  BY <1>1
  DEF OwnerTyped, Start, Stop, StopClearRunning, StopCancel, StopClose, StopWait,
      Deliver, ownerVars, vars
<1>5. WireTyped'
  <2>1. CASE UNCHANGED wire
    BY <1>1, <2>1 DEF WireTyped
  <2>2. ASSUME NEW p \in Packets, Deliver(p) PROVE WireTyped'
    BY <1>1, <2>2 DEF WireTyped, Deliver
  <2> QED
    BY <2>1, <2>2 DEF Start, Stop, StopClearRunning, StopCancel, StopClose, StopWait, vars
<1>6. CallsTyped' /\ \A u \in Threads : Tracked(u)'
  <2>1. CASE Start
    <3>1. /\ SendLoop \in Threads /\ Goto(SendLoop, "loop")
          /\ UNCHANGED <<packet, attempt, success, writes>>
      BY <2>1 DEF Start, Threads
    <3> QED BY <1>1, <3>1, GotoTracked
  <2>2. CASE UNCHANGED callVars
    BY <1>1, <2>2, CallsUntouched
  <2> QED
    BY <2>1, <2>2
    DEF Stop, StopClearRunning, StopCancel, StopClose, StopWait, Deliver, vars
<1> QED BY <1>3, <1>4, <1>5, <1>6, TypeOKParts DEF IInv

\* IInv is an invariant: it holds at first and every step of Next keeps it.
LEMMA Inductive == Spec => []IInv
<1>1. IInv /\ [Next]_vars => IInv'
  BY SendPacketIInv, CallerIInv, LoopIInv, OtherIInv DEF Next
<1> QED BY InitIInv, <1>1, PTL DEF Spec

\* Every variable of the sender keeps its type; in particular no call makes
\* more than RetryCount + 1 attempts and no queue outgrows its capacity.
THEOREM SenderTypeCorrect == Spec => []TypeOK
<1>1. IInv => TypeOK
  BY DEF IInv
<1> QED BY <1>1, Inductive, PTL

------------------------------------------------------------------------------
\* Stop closes the queue only after it has cleared running, and nothing sets
\* running again.
ClosedMeansStopped ==
  /\ owner \in {"cancel", "close", "wait", "stopped"} => ~running
  /\ closed => owner \in {"wait", "stopped"}

LEMMA StopIsFinal == Spec => []ClosedMeansStopped
<1>1. Init => ClosedMeansStopped
  BY DEF Init, ClosedMeansStopped
<1>2. ClosedMeansStopped /\ [Next]_vars => ClosedMeansStopped'
  <2> SUFFICES ASSUME ClosedMeansStopped, [Next]_vars PROVE ClosedMeansStopped'
    OBVIOUS
  <2>1. CASE Start \/ Stop
    BY <2>1
    DEF ClosedMeansStopped, Start, Stop, StopClearRunning, StopCancel, StopClose, StopWait
  <2>2. CASE UNCHANGED ownerVars
    BY <2>2 DEF ClosedMeansStopped, ownerVars
  <2>3. ASSUME NEW t \in Threads, SendPacket(t) PROVE UNCHANGED ownerVars
    BY <2>3 DEF SendPacket, DialOk, DialFail, WriteOk, WriteFail, ReadOk, ReadFail, Count, Retry
  <2>4. ASSUME NEW t \in Callers, Caller(t) PROVE UNCHANGED ownerVars
    BY <2>4 DEF Caller, EmergencySend, SendCheck, SendEnqueue, Return
  <2>5. Loop => UNCHANGED ownerVars
    BY DEF Loop, LoopCheck, LoopReceive, LoopEnd, LoopEmit
  <2>6. ASSUME NEW p \in Packets, Deliver(p) PROVE UNCHANGED ownerVars
    BY <2>6 DEF Deliver
  <2>7. UNCHANGED vars => UNCHANGED ownerVars
    BY DEF vars
  <2> QED BY <2>1, <2>2, <2>3, <2>4, <2>5, <2>6, <2>7 DEF Next
<1> QED BY <1>1, <1>2, PTL DEF Spec

\* Once Stop has closed the queue, a caller that is not between Send's check and
\* its channel operation will never panic, however often it sends afterwards
\* (sender.go:88-117): the two need running, and ClosedMeansStopped excludes it.
THEOREM PanicNeedsRace == Spec => OnlyRacingSendPanics
<1> SUFFICES ASSUME NEW t \in Callers
             PROVE  Spec => [](closed /\ pc[t] \notin {"enqueue", "panicked"}
                                 => [](pc[t] # "panicked"))
  BY DEF OnlyRacingSendPanics
<1> DEFINE Safe == closed /\ pc[t] \notin {"enqueue", "panicked"}
<1>1. TypeOK /\ ClosedMeansStopped /\ Safe /\ [Next]_vars => Safe'
  <2> SUFFICES ASSUME TypeOK, ClosedMeansStopped, Safe, [Next]_vars PROVE Safe'
    OBVIOUS
  <2>1. /\ owner \in {"wait", "stopped"} /\ ~running
        /\ pc \in [Threads -> {"off", "idle", "enqueue", "true", "false", "panicked",
                               "loop", "select", "done", "dial", "write", "read",
                               "count", "emit", "returned"}]
        /\ t \in Threads /\ t # SendLoop
    BY SenderAssumption DEF ClosedMeansStopped, TypeOK, Threads
  <2>2. CASE Start \/ Stop
    BY <2>1, <2>2 DEF Start, Stop, StopClearRunning, StopCancel, StopClose, StopWait, callVars
  <2>3. ASSUME NEW u \in Threads, SendPacket(u) PROVE Safe'
    <3>1. /\ closed' = closed
          /\ \E label \in {"dial", "write", "read", "count", "emit", "returned"} :
               Goto(u, label)
      BY <2>3
      DEF SendPacket, DialOk, DialFail, WriteOk, WriteFail, ReadOk, ReadFail, Count,
          Retry, ownerVars
    <3> QED BY <2>1, <3>1 DEF Goto
  <2>4. ASSUME NEW u \in Callers, Caller(u) PROVE Safe'
    <3>1. closed' = closed /\ u \in Threads
      BY <2>4 DEF Caller, EmergencySend, SendCheck, SendEnqueue, Return, ownerVars, Threads
    <3>2. CASE u = t
      <4>1. \E label \in {"dial", "false", "idle"} : Goto(u, label)
        BY <2>1, <2>4, <3>2
        DEF Caller, EmergencySend, BeginSend, SendCheck, SendEnqueue, Return, Enter
      <4> QED BY <2>1, <3>1, <4>1 DEF Goto
    <3>3. CASE u # t
      <4>1. \E label : Goto(u, label)
        BY <2>4
        DEF Caller, EmergencySend, BeginSend, SendCheck, SendEnqueue, Return, Enter
      <4> QED BY <2>1, <3>1, <3>3, <4>1 DEF Goto
    <3> QED BY <3>2, <3>3
  <2>5. CASE Loop
    <3>1. closed' = closed /\ \E label : Goto(SendLoop, label)
      BY <2>5 DEF Loop, LoopCheck, LoopReceive, LoopEnd, LoopEmit, BeginSend, Enter, ownerVars
    <3> QED BY <2>1, <3>1 DEF Goto
  <2>6. ASSUME NEW p \in Packets, Deliver(p) PROVE Safe'
    BY <2>6 DEF Deliver, ownerVars, callVars
  <2>7. CASE UNCHANGED vars
    BY <2>7 DEF vars, ownerVars, callVars
  <2> QED BY <2>2, <2>3, <2>4, <2>5, <2>6, <2>7 DEF Next
<1>2. Safe => pc[t] # "panicked"
  OBVIOUS
<1> QED BY <1>1, <1>2, SenderTypeCorrect, StopIsFinal, PTL DEF Spec

------------------------------------------------------------------------------
\* The counters wrap, so the account of the calls is kept modulo the counters'
\* range.

LEMMA ModFacts ==
  ASSUME NEW m \in Nat \ {0}, NEW a \in Nat
  PROVE  a = m * (a \div m) + (a % m) /\ a % m \in 0 .. m - 1 /\ a \div m \in Nat
OBVIOUS

LEMMA ModUnique ==
  ASSUME NEW m \in Nat \ {0}, NEW q \in Nat, NEW r \in 0 .. m - 1
  PROVE  (m * q + r) % m = r
OBVIOUS

LEMMA ModRange ==
  ASSUME NEW m \in Nat \ {0}, NEW q \in Nat
  PROVE  m * (q + 1) = m * q + m /\ m * q \in Nat
OBVIOUS

LEMMA ModNext ==
  ASSUME NEW m \in Nat \ {0}, NEW a \in Nat
  PROVE  (a + 1) % m = ((a % m) + 1) % m
<1> DEFINE q == a \div m
           r == a % m
<1>1. a = m * q + r /\ r \in 0 .. m - 1 /\ q \in Nat
  BY ModFacts
<1>2. m * (q + 1) = m * q + m /\ m * q \in Nat
  BY <1>1, ModRange
<1> HIDE DEF q, r
<1>3. CASE r + 1 < m
  <2>1. r + 1 \in 0 .. m - 1 /\ a + 1 = m * q + (r + 1)
    BY <1>1, <1>2, <1>3
  <2>2. (m * q + (r + 1)) % m = r + 1
    BY <1>1, <2>1, ModUnique
  <2>3. (r + 1) % m = r + 1
    BY <2>1
  <2> QED BY <2>1, <2>2, <2>3 DEF r
<1>4. CASE r + 1 = m
  <2>1. q + 1 \in Nat /\ 0 \in 0 .. m - 1 /\ a + 1 = m * (q + 1) + 0
    BY <1>1, <1>2, <1>4
  <2>2. (m * (q + 1) + 0) % m = 0
    BY <2>1, ModUnique
  <2>3. (r + 1) % m = 0
    BY <1>4
  <2> QED BY <2>1, <2>2, <2>3 DEF r
<1> QED BY <1>1, <1>3, <1>4

LEMMA ModRound ==
  ASSUME NEW m \in Nat \ {0}, NEW a \in Nat
  PROVE  (a + m) % m = a % m
<1> DEFINE q == a \div m
           r == a % m
<1>1. a = m * q + r /\ r \in 0 .. m - 1 /\ q \in Nat
  BY ModFacts
<1>2. m * (q + 1) = m * q + m /\ m * q \in Nat
  BY <1>1, ModRange
<1> HIDE DEF q, r
<1>3. q + 1 \in Nat /\ a + m = m * (q + 1) + r
  BY <1>1, <1>2
<1>4. (m * (q + 1) + r) % m = r
  BY <1>1, <1>3, ModUnique
<1> QED BY <1>3, <1>4 DEF r

Active == {t \in Threads : Sending(t)}

\* A call that begins is one call more on both sides of the account.
LEMMA AccountBegins ==
  ASSUME CountersTyped, EveryCallCounted, IsFiniteSet(Active),
         Cardinality(Active') = Cardinality(Active) + 1, begun' = Increment(begun),
         UNCHANGED <<sentCount, failCount>>
  PROVE  EveryCallCounted'
<1> DEFINE n == Cardinality(Active)
           a == sentCount + failCount + n
<1>1. CounterModulus \in Nat \ {0} /\ sentCount \in Nat /\ failCount \in Nat /\ n \in Nat
  BY SenderAssumption, FS_CardinalityType DEF CountersTyped
<1>2. a % CounterModulus = begun
  BY DEF EveryCallCounted, Active
<1>3. a \in Nat /\ sentCount' + failCount' + Cardinality(Active') = a + 1
  BY <1>1
<1> HIDE DEF a
<1>4. (a + 1) % CounterModulus = ((a % CounterModulus) + 1) % CounterModulus
  BY <1>1, <1>3, ModNext
<1> QED BY <1>2, <1>3, <1>4 DEF EveryCallCounted, Active, Increment

\* One more in a counter, modulo its range.
LEMMA IncrementCases ==
  ASSUME NEW c \in 0 .. CounterModulus - 1
  PROVE  Increment(c) = c + 1 \/ (Increment(c) = 0 /\ c + 1 = CounterModulus)
<1>1. CounterModulus \in Nat \ {0}
  BY SenderAssumption
<1>2. CASE c + 1 = CounterModulus
  BY <1>1, <1>2 DEF Increment
<1>3. CASE c + 1 # CounterModulus
  <2>1. c + 1 \in 0 .. CounterModulus - 1
    BY <1>1, <1>3
  <2> QED BY <1>1, <2>1 DEF Increment
<1> QED BY <1>2, <1>3

LEMMA AccountEnds ==
  ASSUME CountersTyped, EveryCallCounted, IsFiniteSet(Active), Active # {},
         Cardinality(Active') = Cardinality(Active) - 1, begun' = begun,
         \/ sentCount' = Increment(sentCount) /\ failCount' = failCount
         \/ failCount' = Increment(failCount) /\ sentCount' = sentCount
  PROVE  EveryCallCounted'
<1> DEFINE n == Cardinality(Active)
           a == sentCount' + failCount' + Cardinality(Active')
<1>1. /\ CounterModulus \in Nat \ {0} /\ n \in Nat /\ n > 0
      /\ sentCount \in 0 .. CounterModulus - 1 /\ failCount \in 0 .. CounterModulus - 1
  <2>1. n \in Nat /\ n # 0
    BY FS_CardinalityType, FS_EmptySet
  <2> QED BY <2>1, SenderAssumption DEF CountersTyped
<1>2. (sentCount + failCount + n) % CounterModulus = begun
  BY DEF EveryCallCounted, Active
<1>3. sentCount' \in 0 .. CounterModulus - 1 /\ failCount' \in 0 .. CounterModulus - 1
  BY <1>1, IncrementRange
<1>4. a \in Nat
  BY <1>1, <1>3
<1>5. sentCount + failCount + n = a \/ sentCount + failCount + n = a + CounterModulus
  BY <1>1, IncrementCases
<1> HIDE DEF a
<1>6. (a + CounterModulus) % CounterModulus = a % CounterModulus
  BY <1>1, <1>4, ModRound
<1>7. a % CounterModulus = begun
  BY <1>2, <1>5, <1>6
<1> QED BY <1>7 DEF EveryCallCounted, Active, a

\* A thread that goes somewhere else is sending, or is not.
LEMMA ActiveMoves ==
  ASSUME CallsTyped, NEW t \in Threads, NEW label, Goto(t, label)
  PROVE  /\ IsFiniteSet(Active)
         /\ Active' = IF label \in {"dial", "write", "read", "count"} THEN Active \cup {t} ELSE Active \ {t}
<1>1. IsFiniteSet(Threads)
  BY SenderAssumption, FS_AddElement DEF Threads
<1>2. IsFiniteSet(Active)
  BY <1>1, FS_Subset DEF Active
<1>3. \A u \in Threads : pc'[u] = IF u = t THEN label ELSE pc[u]
  BY DEF CallsTyped, Goto
<1> QED BY <1>2, <1>3 DEF Active, Sending

\* The loop does nothing before it is started.
OffBeforeStart == owner = "new" => pc[SendLoop] = "off"

LEMMA OffNext == IInv /\ OffBeforeStart /\ [Next]_vars => OffBeforeStart'
<1> SUFFICES ASSUME IInv, OffBeforeStart, [Next]_vars, owner' = "new" PROVE pc'[SendLoop] = "off"
  BY DEF OffBeforeStart
<1>1. CallsTyped /\ SendLoop \in Threads /\ SendLoop \notin Callers
  BY TypeOKParts, SenderAssumption DEF IInv, Threads
<1>2. owner = "new" => pc[SendLoop] = "off"
  BY DEF OffBeforeStart
<1>3. ASSUME NEW t \in Threads, SendPacket(t) PROVE pc'[SendLoop] = "off"
  <2>1. owner' = owner /\ Sending(t) /\ \E label : Goto(t, label)
    BY <1>3
    DEF SendPacket, DialOk, DialFail, WriteOk, WriteFail, ReadOk, ReadFail, Retry, Count, Sending, ownerVars
  <2> QED BY <1>1, <1>2, <2>1 DEF Goto, Sending, CallsTyped
<1>4. ASSUME NEW t \in Callers, Caller(t) PROVE pc'[SendLoop] = "off"
  <2>1. owner' = owner /\ \E label : Goto(t, label)
    BY <1>4 DEF Caller, EmergencySend, SendCheck, SendEnqueue, Return, BeginSend, Enter, ownerVars
  <2> QED BY <1>1, <1>2, <2>1 DEF Goto, CallsTyped
<1>5. CASE Loop
  BY <1>2, <1>5 DEF Loop, LoopCheck, LoopReceive, LoopEnd, LoopEmit, ownerVars
<1>6. CASE Start \/ Stop
  BY <1>6 DEF Start, Stop, StopClearRunning, StopCancel, StopClose, StopWait
<1>7. CASE (\E p \in Packets : Deliver(p)) \/ UNCHANGED vars
  BY <1>2, <1>7 DEF Deliver, vars, callVars, ownerVars
<1> QED BY <1>3, <1>4, <1>5, <1>6, <1>7 DEF Next

LEMMA CountedNext == IInv /\ OffBeforeStart /\ EveryCallCounted /\ [Next]_vars => EveryCallCounted'
<1> SUFFICES ASSUME IInv, OffBeforeStart, EveryCallCounted, [Next]_vars PROVE EveryCallCounted'
  OBVIOUS
<1>1. CallsTyped /\ CountersTyped /\ SendLoop \in Threads /\ Callers \subseteq Threads
  BY TypeOKParts DEF IInv, Threads
<1>2. ASSUME NEW t \in Threads, NEW label, Goto(t, label), UNCHANGED statVars,
             Sending(t) <=> label \in {"dial", "write", "read", "count"}
      PROVE  EveryCallCounted'
  <2>1. Active' = Active
    BY <1>1, <1>2, ActiveMoves DEF Active
  <2> QED BY <1>2, <2>1 DEF EveryCallCounted, Active, statVars
<1>3. ASSUME NEW t \in Threads, NEW p, ~Sending(t), BeginSend(t, p) PROVE EveryCallCounted'
  <2>1. /\ Goto(t, "dial") /\ begun' = Increment(begun) /\ UNCHANGED <<sentCount, failCount>>
    BY <1>3 DEF BeginSend, Enter
  <2>2. IsFiniteSet(Active) /\ Active' = Active \cup {t} /\ t \notin Active
    BY <1>1, <1>3, <2>1, ActiveMoves DEF Active
  <2>3. Cardinality(Active') = Cardinality(Active) + 1
    BY <2>2, FS_AddElement
  <2> QED BY <1>1, <2>1, <2>2, <2>3, AccountBegins
<1>4. ASSUME NEW t \in Threads, SendPacket(t) PROVE EveryCallCounted'
  <2>1. CASE Count(t)
    <3>1. PICK label \in {"emit", "returned"} : Goto(t, label)
      BY <2>1 DEF Count
    <3>2. /\ pc[t] = "count" /\ begun' = begun
          /\ \/ sentCount' = Increment(sentCount) /\ failCount' = failCount
             \/ failCount' = Increment(failCount) /\ sentCount' = sentCount
      BY <2>1 DEF Count
    <3>3. IsFiniteSet(Active) /\ Active' = Active \ {t} /\ t \in Active
      BY <1>1, <3>1, <3>2, ActiveMoves DEF Active, Sending
    <3>4. Cardinality(Active') = Cardinality(Active) - 1
      BY <3>3, FS_RemoveElement
    <3> QED BY <1>1, <3>2, <3>3, <3>4, AccountEnds
  <2>2. CASE ~Count(t)
    <3>1. Sending(t) /\ UNCHANGED statVars
      BY <1>4, <2>2 DEF SendPacket, DialOk, DialFail, WriteOk, WriteFail, ReadOk, ReadFail, Retry, Sending
    <3>2. PICK label \in {"dial", "write", "read", "count"} : Goto(t, label)
      BY <1>4, <2>2 DEF SendPacket, DialOk, DialFail, WriteOk, WriteFail, ReadOk, ReadFail, Retry
    <3> QED BY <1>2, <3>1, <3>2
  <2> QED BY <2>1, <2>2
<1>5. ASSUME NEW t \in Callers, Caller(t) PROVE EveryCallCounted'
  <2>1. ASSUME NEW p \in Packets, EmergencySend(t, p) PROVE EveryCallCounted'
    BY <1>1, <1>3, <2>1 DEF EmergencySend, Sending
  <2>2. ASSUME NEW p \in Packets, SendCheck(t, p) PROVE EveryCallCounted'
    <3>1. PICK label \in {"enqueue", "false"} : Goto(t, label)
      BY <2>2 DEF SendCheck
    <3>2. ~Sending(t) /\ UNCHANGED statVars
      BY <2>2 DEF SendCheck, Sending
    <3> QED BY <1>1, <1>2, <3>1, <3>2
  <2>3. CASE SendEnqueue(t) \/ Return(t)
    <3>1. PICK label \in {"panicked", "true", "false", "idle"} : Goto(t, label)
      BY <2>3 DEF SendEnqueue, Return, Enter
    <3>2. ~Sending(t) /\ UNCHANGED statVars
      BY <2>3 DEF SendEnqueue, Return, Sending
    <3> QED BY <1>1, <1>2, <3>1, <3>2
  <2> QED BY <1>5, <2>1, <2>2, <2>3 DEF Caller
<1>6. CASE Loop
  <2>1. CASE LoopReceive
    BY <1>1, <1>3, <2>1 DEF LoopReceive, Sending
  <2>2. CASE LoopCheck \/ LoopEnd \/ LoopEmit
    <3>1. PICK label \in {"select", "done", "loop"} : Goto(SendLoop, label)
      BY <2>2 DEF LoopCheck, LoopEnd, LoopEmit, Enter
    <3>2. ~Sending(SendLoop) /\ UNCHANGED statVars
      BY <2>2 DEF LoopCheck, LoopEnd, LoopEmit, Sending
    <3> QED BY <1>1, <1>2, <3>1, <3>2
  <2> QED BY <1>6, <2>1, <2>2 DEF Loop
<1>7. CASE UNCHANGED <<pc, statVars>>
  BY <1>7 DEF EveryCallCounted, Sending, statVars
<1>8. CASE Stop \/ (\E p \in Packets : Deliver(p)) \/ UNCHANGED vars
  BY <1>7, <1>8 DEF Stop, StopClearRunning, StopCancel, StopClose, StopWait, Deliver, vars, callVars
<1>9. CASE Start
  <2>1. Goto(SendLoop, "loop") /\ ~Sending(SendLoop) /\ UNCHANGED statVars
    BY <1>9 DEF Start, OffBeforeStart, Sending
  <2> QED BY <1>1, <1>2, <2>1
<1> QED BY <1>4, <1>5, <1>6, <1>8, <1>9 DEF Next

\* However many goroutines send at once, the two counters and the calls still
\* under way add up, modulo the counters' range, to the calls that were begun
\* (sender.go:160-228).
THEOREM EveryCallIsCounted == Spec => []EveryCallCounted
<1>1. Init => OffBeforeStart /\ EveryCallCounted
  <2> SUFFICES ASSUME Init PROVE OffBeforeStart /\ EveryCallCounted
    OBVIOUS
  <2>1. Active = {}
    BY DEF Init, Active, Sending
  <2>2. (0 + 0 + 0) % CounterModulus = 0
    BY SenderAssumption
  <2> QED BY <2>1, <2>2, FS_EmptySet DEF Init, EveryCallCounted, Active, OffBeforeStart, Threads
<1> QED BY <1>1, OffNext, CountedNext, Inductive, PTL DEF Spec

------------------------------------------------------------------------------
\* The sender implements AbstractSender.  A step of one thread changes one call,
\* and Tracked says of that call what the abstract action's guard asks for.

\* What a thread holds of its call.
Local(t) == <<pc[t], packet[t], attempt[t], success[t]>>

\* A step of thread t leaves the calls of the others alone.
LEMMA OneCallMoves ==
  ASSUME NEW t \in Threads, \A u \in Threads \ {t} : Local(u)' = Local(u),
         NEW c, CallOf(t)' = c
  PROVE  Calls' = [Calls EXCEPT ![t] = c] /\ Calls[t] = CallOf(t)
<1>1. ASSUME NEW u \in Threads \ {t} PROVE CallOf(u)' = CallOf(u)
  BY <1>1 DEF CallOf, Local, Sending, Finished
<1> QED BY <1>1 DEF Calls

\* A step that leaves every call as it was.
LEMMA NoCallMoves ==
  ASSUME \A t \in Threads : CallOf(t)' = CallOf(t)
  PROVE  Calls' = Calls
BY DEF Calls

\* A step of thread t after which its call is what it was.
LEMMA SameCall ==
  ASSUME NEW t \in Threads, \A u \in Threads \ {t} : Local(u)' = Local(u),
         CallOf(t)' = CallOf(t)
  PROVE  Calls' = Calls
<1>1. ASSUME NEW u \in Threads \ {t} PROVE CallOf(u)' = CallOf(u)
  BY <1>1 DEF CallOf, Local, Sending, Finished
<1> QED BY <1>1, NoCallMoves

LEMMA InitPromise == Init => Promise!Init
<1> SUFFICES ASSUME Init PROVE Promise!Init
  OBVIOUS
<1>1. ASSUME NEW t \in Threads PROVE CallOf(t) = Promise!NoCall
  BY <1>1 DEF Init, CallOf, Sending, Finished, Promise!NoCall, Promise!Call
<1>2. Calls = [t \in Callers \cup {SendLoop} |-> Promise!NoCall]
  BY <1>1 DEF Calls, Threads
<1> QED BY <1>2 DEF Init, Promise!Init

\* A call that begins, in a thread that had none.
LEMMA BeginPromise ==
  ASSUME IInv, NEW t \in Threads, NEW p \in Packets, ~Sending(t), ~Finished(t),
         BeginSend(t, p), UNCHANGED wire,
         IF t = SendLoop
           THEN overrideChan # <<>> /\ p = Head(overrideChan) /\ overrideChan' = Tail(overrideChan)
           ELSE UNCHANGED overrideChan
  PROVE  Promise!Begin(t, p)
<1> DEFINE c == [stage |-> "trying", packet |-> p, abandoned |-> 0, written |-> FALSE]
<1>1. CallsTyped
  BY TypeOKParts DEF IInv
<1>2. /\ pc' = [pc EXCEPT ![t] = "dial"] /\ packet' = [packet EXCEPT ![t] = p]
      /\ attempt' = [attempt EXCEPT ![t] = 0] /\ success' = [success EXCEPT ![t] = FALSE]
      /\ UNCHANGED <<sentCount, failCount>>
  BY DEF BeginSend, Enter, Goto
<1>3. \A u \in Threads \ {t} : Local(u)' = Local(u)
  BY <1>1, <1>2 DEF Local, CallsTyped
<1>4. CallOf(t)' = c
  BY <1>1, <1>2 DEF CallOf, CallsTyped, Sending, Finished
<1>5. Calls' = [Calls EXCEPT ![t] = c] /\ Calls[t] = CallOf(t)
  BY <1>3, <1>4, OneCallMoves
<1>6. CallOf(t) = Promise!NoCall
  BY DEF CallOf, Promise!NoCall, Promise!Call
<1>7. c = Promise!Call("trying", p, 0, FALSE)
  BY DEF Promise!Call
<1> QED BY <1>2, <1>5, <1>6, <1>7 DEF Promise!Begin

\* A failed attempt is an abandoned one, whether or not it has written.
LEMMA RetryPromise ==
  ASSUME IInv, NEW t \in Threads, pc[t] \in {"dial", "write", "read"}, Retry(t),
         UNCHANGED wire
  PROVE  Promise!Abandon(t)
<1> DEFINE c == [stage |-> "trying", packet |-> packet[t], abandoned |-> attempt[t] + 1,
                 written |-> FALSE]
<1>1. CallsTyped /\ Tracked(t) /\ RetryCount \in Nat
  BY TypeOKParts, SenderAssumption DEF IInv
<1>2. /\ ~success[t] /\ attempt[t] \in 0 .. RetryCount /\ success' = success
      /\ packet' = packet /\ UNCHANGED <<overrideChan, sentCount, failCount>>
  BY <1>1 DEF Tracked, CallsTyped, Retry, statVars
<1>3. \A u \in Threads \ {t} : Local(u)' = Local(u)
  BY <1>1, <1>2 DEF Local, CallsTyped, Retry, Goto
<1>4. CallOf(t)' = c
  <2>1. CASE attempt[t] < RetryCount
    BY <1>1, <1>2, <2>1 DEF Retry, Goto, CallOf, CallsTyped, Sending, Finished
  <2>2. CASE ~(attempt[t] < RetryCount)
    BY <1>1, <1>2, <2>2 DEF Retry, Goto, CallOf, CallsTyped, Sending, Finished
  <2> QED BY <2>1, <2>2
<1>5. Calls' = [Calls EXCEPT ![t] = c] /\ Calls[t] = CallOf(t)
  BY <1>3, <1>4, OneCallMoves
<1>6. /\ CallOf(t) = [stage |-> "trying", packet |-> packet[t], abandoned |-> attempt[t],
                      written |-> pc[t] = "read"]
  BY <1>1, <1>2 DEF CallOf, Sending, Finished
<1>7. c = Promise!Call("trying", CallOf(t).packet, CallOf(t).abandoned + 1, FALSE)
  BY <1>6 DEF Promise!Call
<1>8. CallOf(t).stage = "trying" /\ CallOf(t).abandoned <= RetryCount
  BY <1>2, <1>6
<1> HIDE DEF c
<1> QED BY <1>2, <1>5, <1>7, <1>8 DEF Promise!Abandon

\* One step of sendPacket.
LEMMA SendPacketPromise ==
  ASSUME IInv, NEW t \in Threads, SendPacket(t)
  PROVE  \/ Promise!Write(t) \/ Promise!Abandon(t) \/ Promise!Report(t)
         \/ UNCHANGED Promise!vars
<1>1. CallsTyped /\ Tracked(t) /\ RetryCount \in Nat
  BY TypeOKParts, SenderAssumption DEF IInv
<1>2. CASE DialFail(t) \/ WriteFail(t) \/ ReadFail(t)
  <2>1. pc[t] \in {"dial", "write", "read"} /\ Retry(t) /\ UNCHANGED wire
    BY <1>2 DEF DialFail, WriteFail, ReadFail
  <2> QED BY <2>1, RetryPromise
<1>3. CASE DialOk(t) \/ ReadOk(t)
  <2>1. \A u \in Threads \ {t} : Local(u)' = Local(u)
    BY <1>1, <1>3 DEF DialOk, ReadOk, Goto, Local, CallsTyped
  <2>2. CallOf(t)' = CallOf(t)
    BY <1>1, <1>3 DEF DialOk, ReadOk, Goto, CallOf, CallsTyped, Tracked, Sending, Finished
  <2>3. Calls' = Calls
    BY <2>1, <2>2, SameCall
  <2>4. UNCHANGED <<overrideChan, sentCount, failCount, wire>>
    BY <1>3 DEF DialOk, ReadOk, statVars
  <2> QED BY <2>3, <2>4 DEF Promise!vars
<1>4. CASE WriteOk(t)
  <2> DEFINE c == [stage |-> "trying", packet |-> packet[t], abandoned |-> attempt[t],
                   written |-> TRUE]
  <2>1. /\ pc[t] = "write" /\ pc' = [pc EXCEPT ![t] = "read"] /\ ~success[t]
        /\ wire' = [wire EXCEPT ![packet[t]] = @ + 1] /\ attempt[t] \in 0 .. RetryCount
        /\ UNCHANGED <<overrideChan, packet, attempt, success, sentCount, failCount>>
    BY <1>1, <1>4 DEF WriteOk, Goto, Tracked, CallsTyped, statVars
  <2>2. \A u \in Threads \ {t} : Local(u)' = Local(u)
    BY <1>1, <2>1 DEF Local, CallsTyped
  <2>3. CallOf(t) = [stage |-> "trying", packet |-> packet[t], abandoned |-> attempt[t],
                     written |-> FALSE]
    BY <2>1 DEF CallOf, Sending, Finished
  <2>4. CallOf(t)' = c
    BY <1>1, <2>1, <2>3 DEF CallOf, CallsTyped, Sending, Finished
  <2>5. Calls' = [Calls EXCEPT ![t] = c] /\ Calls[t] = CallOf(t)
    BY <2>2, <2>4, OneCallMoves
  <2>6. /\ CallOf(t).stage = "trying" /\ ~CallOf(t).written
        /\ CallOf(t).packet = packet[t] /\ CallOf(t).abandoned <= RetryCount
    BY <2>1, <2>3
  <2>7. c = Promise!Call("trying", CallOf(t).packet, CallOf(t).abandoned, TRUE)
    BY <2>3 DEF Promise!Call
  <2> HIDE DEF c
  <2> QED BY <2>1, <2>5, <2>6, <2>7 DEF Promise!Write
<1>5. CASE Count(t)
  <2> DEFINE done == IF success[t] THEN "sent" ELSE "failed"
             c == [CallOf(t) EXCEPT !.stage = done]
  <2>1. /\ pc[t] = "count"
        /\ pc' = [pc EXCEPT ![t] = IF t = SendLoop THEN "emit" ELSE "returned"]
        /\ UNCHANGED <<overrideChan, packet, attempt, success, wire>>
        /\ success[t] \in BOOLEAN /\ (~success[t] => attempt[t] = RetryCount)
    BY <1>1, <1>5 DEF Count, Goto, CallsTyped, Tracked, Finished
  <2>2. \A u \in Threads \ {t} : Local(u)' = Local(u)
    BY <1>1, <2>1 DEF Local, CallsTyped
  <2>3. CallOf(t) = [stage |-> "trying", packet |-> packet[t],
                     abandoned |-> IF success[t] THEN attempt[t] ELSE RetryCount + 1,
                     written |-> success[t]]
    BY <1>1, <2>1 DEF CallOf, Sending, Finished
  <2>4. CallOf(t)' = c
    BY <1>1, <2>1, <2>3 DEF CallOf, CallsTyped, Sending, Finished
  <2>5. Calls' = [Calls EXCEPT ![t] = c] /\ Calls[t] = CallOf(t)
    BY <2>2, <2>4, OneCallMoves
  <2>6. /\ CallOf(t).stage = "trying"
        /\ success[t] => CallOf(t).written
        /\ ~success[t] => CallOf(t).abandoned = RetryCount + 1
    BY <2>3
  <2>7. CASE success[t]
    <3>1. sentCount' = Promise!Increment(sentCount) /\ UNCHANGED failCount
      BY <1>5, <2>7 DEF Count, Increment, Promise!Increment
    <3>2. Calls' = [Calls EXCEPT ![t].stage = "sent"]
      BY <2>5, <2>7
    <3> QED BY <2>1, <2>5, <2>6, <2>7, <3>1, <3>2 DEF Promise!Report
  <2>8. CASE ~success[t]
    <3>1. failCount' = Promise!Increment(failCount) /\ UNCHANGED sentCount
      BY <1>5, <2>8 DEF Count, Increment, Promise!Increment
    <3>2. Calls' = [Calls EXCEPT ![t].stage = "failed"]
      BY <2>5, <2>8
    <3> QED BY <2>1, <2>5, <2>6, <2>8, <3>1, <3>2 DEF Promise!Report
  <2> QED BY <2>7, <2>8
<1> QED BY <1>2, <1>3, <1>4, <1>5 DEF SendPacket

\* A call that returns.
LEMMA ReturnPromise ==
  ASSUME IInv, NEW t \in Threads, pc[t] \in {"returned", "emit"},
         NEW label \in {"idle", "loop"}, Enter(t, label, NoPacket),
         UNCHANGED <<overrideChan, sentCount, failCount, wire>>
  PROVE  Promise!Return(t)
<1>1. CallsTyped
  BY TypeOKParts DEF IInv
<1>2. \A u \in Threads \ {t} : Local(u)' = Local(u)
  BY <1>1 DEF Enter, Goto, Local, CallsTyped
<1>3. CallOf(t)' = Promise!NoCall
  BY <1>1 DEF Enter, Goto, CallOf, CallsTyped, Sending, Finished, Promise!NoCall, Promise!Call
<1>4. Calls' = [Calls EXCEPT ![t] = Promise!NoCall] /\ Calls[t] = CallOf(t)
  BY <1>2, <1>3, OneCallMoves
<1>5. CallOf(t).stage \in {"sent", "failed"}
  BY DEF CallOf, Sending, Finished
<1> QED BY <1>4, <1>5 DEF Promise!Return

\* A step of a thread that has no call and begins none.
LEMMA IdlePromise ==
  ASSUME IInv, NEW t \in Threads, ~Sending(t), ~Finished(t),
         NEW label \in {"off", "idle", "enqueue", "true", "false", "panicked",
                         "loop", "select", "done"},
         Goto(t, label),
         \A u \in Threads \ {t} : <<packet[u], attempt[u], success[u]>>'
                                      = <<packet[u], attempt[u], success[u]>>
  PROVE  Calls' = Calls
<1>1. CallsTyped
  BY TypeOKParts DEF IInv
<1>2. \A u \in Threads \ {t} : Local(u)' = Local(u)
  BY <1>1 DEF Goto, Local, CallsTyped
<1>3. CallOf(t)' = CallOf(t)
  BY <1>1 DEF Goto, CallOf, CallsTyped, Sending, Finished
<1> QED BY <1>2, <1>3, SameCall

\* One step of a caller outside sendPacket.
LEMMA CallerPromise ==
  ASSUME IInv, NEW t \in Callers, Caller(t)
  PROVE  \/ \E p \in Packets : Promise!Begin(t, p) \/ Promise!Accept(p)
         \/ Promise!Return(t) \/ UNCHANGED Promise!vars
<1>1. CallsTyped /\ t \in Threads /\ t # SendLoop
  BY TypeOKParts, SenderAssumption DEF IInv, Threads
<1>2. ASSUME NEW p \in Packets, EmergencySend(t, p) PROVE Promise!Begin(t, p)
  <2>1. /\ ~Sending(t) /\ ~Finished(t) /\ BeginSend(t, p)
        /\ UNCHANGED <<wire, overrideChan>>
    BY <1>2 DEF EmergencySend, Sending, Finished
  <2> QED BY <1>1, <2>1, BeginPromise
<1>3. ASSUME NEW p \in Packets, SendCheck(t, p) PROVE UNCHANGED Promise!vars
  <2>1. PICK label \in {"enqueue", "false"} : Goto(t, label)
    BY <1>3 DEF SendCheck
  <2>2. /\ ~Sending(t) /\ ~Finished(t) /\ packet' = [packet EXCEPT ![t] = p]
        /\ UNCHANGED <<attempt, success, overrideChan, sentCount, failCount, wire>>
    BY <1>3 DEF SendCheck, Sending, Finished, statVars
  <2>3. \A u \in Threads \ {t} : <<packet[u], attempt[u], success[u]>>'
                                     = <<packet[u], attempt[u], success[u]>>
    BY <1>1, <2>2 DEF CallsTyped
  <2>4. Calls' = Calls
    BY <1>1, <2>1, <2>2, <2>3, IdlePromise
  <2> QED BY <2>2, <2>4 DEF Promise!vars
<1>4. CASE SendEnqueue(t)
  <2>1. PICK label \in {"panicked", "true", "false"} : Goto(t, label)
    BY <1>4 DEF SendEnqueue
  <2>2. /\ ~Sending(t) /\ ~Finished(t) /\ pc[t] = "enqueue"
        /\ UNCHANGED <<packet, attempt, success, sentCount, failCount, wire>>
    BY <1>4 DEF SendEnqueue, Sending, Finished, statVars
  <2>3. Calls' = Calls
    BY <1>1, <2>1, <2>2, IdlePromise
  <2>4. packet[t] \in Packets
    BY <1>1, <2>2 DEF CallsTyped
  <2>5. \/ UNCHANGED overrideChan
        \/ /\ Len(overrideChan) < MaxOverrideQueueSize
           /\ overrideChan' = Append(overrideChan, packet[t])
    BY <1>4 DEF SendEnqueue
  <2> QED BY <2>2, <2>3, <2>4, <2>5 DEF Promise!vars, Promise!Accept
<1>5. CASE Return(t)
  <2>1. /\ Enter(t, "idle", NoPacket)
        /\ UNCHANGED <<overrideChan, sentCount, failCount, wire>>
    BY <1>5 DEF Return, statVars
  <2>2. CASE pc[t] = "returned"
    BY <1>1, <2>1, <2>2, ReturnPromise
  <2>3. CASE pc[t] # "returned"
    <3>1. ~Sending(t) /\ ~Finished(t) /\ Goto(t, "idle")
      BY <1>5, <2>1, <2>3 DEF Return, Sending, Finished, Enter
    <3>2. \A u \in Threads \ {t} : <<packet[u], attempt[u], success[u]>>'
                                       = <<packet[u], attempt[u], success[u]>>
      BY <1>1, <2>1 DEF CallsTyped, Enter
    <3>3. Calls' = Calls
      BY <1>1, <3>1, <3>2, IdlePromise
    <3> QED BY <2>1, <3>3 DEF Promise!vars
  <2> QED BY <2>2, <2>3
<1> QED BY <1>2, <1>3, <1>4, <1>5 DEF Caller

\* One step of the send loop outside sendPacket.
LEMMA LoopPromise ==
  ASSUME IInv, Loop
  PROVE  \/ \E p \in Packets : Promise!Begin(SendLoop, p)
         \/ Promise!Return(SendLoop) \/ UNCHANGED Promise!vars
<1>1. CallsTyped /\ ChannelsTyped /\ SendLoop \in Threads
  BY TypeOKParts DEF IInv, Threads
<1>2. CASE LoopCheck \/ LoopEnd
  <2>1. PICK label \in {"select", "done"} : Goto(SendLoop, label)
    BY <1>2 DEF LoopCheck, LoopEnd
  <2>2. /\ ~Sending(SendLoop) /\ ~Finished(SendLoop)
        /\ UNCHANGED <<packet, attempt, success, overrideChan, sentCount, failCount, wire>>
    BY <1>2 DEF LoopCheck, LoopEnd, Sending, Finished, statVars
  <2>3. Calls' = Calls
    BY <1>1, <2>1, <2>2, IdlePromise
  <2> QED BY <2>2, <2>3 DEF Promise!vars
<1>3. CASE LoopReceive
  <2>1. /\ ~Sending(SendLoop) /\ ~Finished(SendLoop) /\ overrideChan # <<>>
        /\ BeginSend(SendLoop, Head(overrideChan)) /\ overrideChan' = Tail(overrideChan)
        /\ UNCHANGED wire
    BY <1>3 DEF LoopReceive, Sending, Finished
  <2>2. Head(overrideChan) \in Packets
    BY <1>1, <2>1 DEF ChannelsTyped
  <2> QED BY <1>1, <2>1, <2>2, BeginPromise
<1>4. CASE LoopEmit
  <2>1. /\ pc[SendLoop] = "emit" /\ Enter(SendLoop, "loop", NoPacket)
        /\ UNCHANGED <<overrideChan, sentCount, failCount, wire>>
    BY <1>4 DEF LoopEmit, statVars
  <2> QED BY <1>1, <2>1, ReturnPromise
<1> QED BY <1>2, <1>3, <1>4 DEF Loop

\* The owner's steps change no call; the network's are the abstract ones.
LEMMA OtherPromise ==
  ASSUME IInv, OffBeforeStart,
         Start \/ Stop \/ (\E p \in Packets : Deliver(p)) \/ UNCHANGED vars
  PROVE  (\E p \in Packets : Promise!Deliver(p)) \/ UNCHANGED Promise!vars
<1>1. CASE Start
  <2>1. /\ Goto(SendLoop, "loop") /\ pc[SendLoop] = "off" /\ SendLoop \in Threads
        /\ UNCHANGED <<packet, attempt, success, overrideChan, sentCount, failCount, wire>>
    BY <1>1 DEF Start, OffBeforeStart, statVars, Threads
  <2>2. ~Sending(SendLoop) /\ ~Finished(SendLoop)
    BY <2>1 DEF Sending, Finished
  <2>3. Calls' = Calls
    BY <2>1, <2>2, IdlePromise
  <2> QED BY <2>1, <2>3 DEF Promise!vars
<1>2. CASE UNCHANGED callVars
  <2>1. Calls' = Calls
    BY <1>2 DEF Calls, CallOf, Sending, Finished, callVars
  <2>2. CASE Stop \/ UNCHANGED vars
    <3>1. UNCHANGED <<overrideChan, sentCount, failCount, wire>>
      BY <2>2 DEF Stop, StopClearRunning, StopCancel, StopClose, StopWait, vars, statVars
    <3> QED BY <2>1, <3>1 DEF Promise!vars
  <2>3. ASSUME NEW p \in Packets, Deliver(p) PROVE Promise!Deliver(p)
    BY <2>1, <2>3 DEF Deliver, Promise!Deliver, statVars
  <2>4. CASE Start
    BY <1>1, <2>4
  <2> QED BY <2>2, <2>3, <2>4
<1> QED
  BY <1>1, <1>2
  DEF Stop, StopClearRunning, StopCancel, StopClose, StopWait, Deliver, vars

\* The sender implements AbstractSender: whatever callers, loop, owner and network do,
\* each step is one of the promise's, or changes nothing it speaks of
\* (sender.go:111-228).
THEOREM SenderImplementsPromise == Spec => SenderKeepsPromise
<1>1. IInv /\ OffBeforeStart /\ [Next]_vars => [Promise!Next]_(Promise!vars)
  <2> SUFFICES ASSUME IInv, OffBeforeStart, [Next]_vars
               PROVE  Promise!Next \/ UNCHANGED Promise!vars
    OBVIOUS
  <2>1. ASSUME NEW t \in Threads, SendPacket(t)
        PROVE  Promise!Next \/ UNCHANGED Promise!vars
    BY <2>1, SendPacketPromise DEF Promise!Next, Threads
  <2>2. ASSUME NEW t \in Callers, Caller(t)
        PROVE  Promise!Next \/ UNCHANGED Promise!vars
    BY <2>2, CallerPromise DEF Promise!Next
  <2>3. CASE Loop
    BY <2>3, LoopPromise DEF Promise!Next
  <2>4. CASE Start \/ Stop \/ (\E p \in Packets : Deliver(p)) \/ UNCHANGED vars
    BY <2>4, OtherPromise DEF Promise!Next
  <2> QED BY <2>1, <2>2, <2>3, <2>4 DEF Next
<1>2. Init => OffBeforeStart
  BY DEF Init, OffBeforeStart, Threads
<1> QED BY <1>1, <1>2, InitPromise, OffNext, Inductive, PTL DEF Spec, SenderKeepsPromise
==============================================================================
