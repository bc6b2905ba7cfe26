---------------------------- MODULE OverrideSender ----------------------------
(***************************************************************************)
(* The override sender of internal/choke/sender.go: a queue drained by one *)
(* goroutine (sendLoop), an EmergencySend that bypasses the queue and runs *)
(* in its caller, and sendPacket, the retry loop both of them execute.     *)
(* One step is one blocking call of a goroutine: a dial, a write, a read,  *)
(* a channel operation, a counter update.                                  *)
(*                                                                         *)
(* The network and the valve are external.  Each attempt opens its own     *)
(* connection, so what was written on one connection may reach the valve   *)
(* after what was written later on another: "wire" is a bag.               *)
(***************************************************************************)
EXTENDS Integers, Sequences, FiniteSets

CONSTANTS Callers,            \* goroutines that call the sender
          SendLoop,           \* its own goroutine
          Packets,
          NoPacket,           \* a thread that holds no packet
          RetryCount,         \* config.RetryCount (3)
          MaxOverrideQueueSize, MaxResults,  \* capacities (256 and 256)
          MaxInFlight,        \* bound: packets the network holds at a time
          CounterModulus      \* counters wrap: 2^64

ASSUME SenderAssumption ==
  /\ IsFiniteSet(Callers) /\ SendLoop \notin Callers
  /\ NoPacket \notin Packets
  /\ RetryCount \in Nat
  /\ MaxOverrideQueueSize \in Nat \ {0}
  /\ MaxResults \in Nat \ {0}
  /\ MaxInFlight \in Nat \ {0}
  /\ CounterModulus \in Nat \ {0}

Threads == Callers \cup {SendLoop}

VARIABLES
  running,       \* atomic.Bool
  cancelled,     \* ctx is done
  closed,        \* overrideChan is closed
  owner,         \* where the goroutine that starts and stops the sender is
  overrideChan,  \* buffered channel
  resultChan,    \* how many results are buffered
  pc,            \* thread -> what it does next
  packet,        \* thread -> argument of its sendPacket
  attempt,       \* thread -> loop variable of sendPacket
  success,       \* thread -> result.Success
  sentCount, failCount,
  wire,          \* packet -> copies written and not yet read by the valve
  begun,         \* calls of sendPacket so far, and
  writes         \* thread -> writes of its current call (not in the code)

ownerVars == <<running, cancelled, closed, owner>>
callVars  == <<pc, packet, attempt, success, writes>>
statVars  == <<sentCount, failCount, begun>>
vars == <<ownerVars, overrideChan, resultChan, callVars, statVars, wire>>

Increment(counter) == (counter + 1) % CounterModulus

Goto(t, label) == pc' = [pc EXCEPT ![t] = label]

\* Go to a label with fresh local variables.
Enter(t, label, p) ==
  /\ Goto(t, label)
  /\ packet' = [packet EXCEPT ![t] = p]
  /\ attempt' = [attempt EXCEPT ![t] = 0]
  /\ success' = [success EXCEPT ![t] = FALSE]
  /\ writes' = [writes EXCEPT ![t] = 0]

-----------------------------------------------------------------------------
Init ==
  /\ running = FALSE /\ cancelled = FALSE /\ closed = FALSE
  /\ owner = "new"
  /\ overrideChan = <<>>
  /\ resultChan = 0
  /\ pc = [t \in Threads |-> IF t = SendLoop THEN "off" ELSE "idle"]
  /\ packet = [t \in Threads |-> NoPacket]
  /\ attempt = [t \in Threads |-> 0]
  /\ success = [t \in Threads |-> FALSE]
  /\ sentCount = 0 /\ failCount = 0 /\ begun = 0
  /\ wire = [p \in Packets |-> 0]
  /\ writes = [t \in Threads |-> 0]

-----------------------------------------------------------------------------
\* The owner: Start, then Stop in the order of its statements.

Start ==
  /\ owner = "new"
  /\ owner' = "started"
  /\ running' = TRUE
  /\ Goto(SendLoop, "loop")
  /\ UNCHANGED <<cancelled, closed, overrideChan, resultChan, packet, attempt,
                 success, writes, statVars, wire>>

StopClearRunning ==
  /\ owner = "started"
  /\ owner' = "cancel"
  /\ running' = FALSE
  /\ UNCHANGED <<cancelled, closed, overrideChan, resultChan, callVars, statVars, wire>>

StopCancel ==
  /\ owner = "cancel"
  /\ owner' = "close"
  /\ cancelled' = TRUE
  /\ UNCHANGED <<running, closed, overrideChan, resultChan, callVars, statVars, wire>>

StopClose ==
  /\ owner = "close"
  /\ owner' = "wait"
  /\ closed' = TRUE
  /\ UNCHANGED <<running, cancelled, overrideChan, resultChan, callVars, statVars, wire>>

\* wg.Wait(), or the five seconds of time.After have passed.
StopWait ==
  /\ owner = "wait"
  /\ owner' = "stopped"
  /\ UNCHANGED <<running, cancelled, closed, overrideChan, resultChan, callVars,
                 statVars, wire>>

-----------------------------------------------------------------------------
\* sendPacket, executed by a caller (EmergencySend) or by the send loop.  A
\* definition whose name ends in "_Faulty..." is a plausible bug in the one that
\* follows it; no behaviour of Spec uses it.

BeginSend(t, p) ==
  /\ Enter(t, "dial", p)
  /\ begun' = Increment(begun)
  /\ UNCHANGED <<sentCount, failCount>>

Retry_FaultyLastAttempt(t) ==
  /\ IF attempt[t] + 1 < RetryCount
       THEN /\ attempt' = [attempt EXCEPT ![t] = @ + 1]
            /\ Goto(t, "dial")
       ELSE /\ Goto(t, "count")
            /\ UNCHANGED attempt
  /\ UNCHANGED <<ownerVars, overrideChan, resultChan, packet, success, writes, statVars>>

\* A failed attempt: the next one, or the end of the loop.
Retry(t) ==
  /\ IF attempt[t] < RetryCount
       THEN /\ attempt' = [attempt EXCEPT ![t] = @ + 1]
            /\ Goto(t, "dial")
       ELSE /\ Goto(t, "count")
            /\ UNCHANGED attempt
  /\ UNCHANGED <<ownerVars, overrideChan, resultChan, packet, success, writes, statVars>>

DialOk(t) ==
  /\ pc[t] = "dial"
  /\ Goto(t, "write")
  /\ UNCHANGED <<ownerVars, overrideChan, resultChan, packet, attempt, success,
                 writes, statVars, wire>>

DialFail(t) ==
  /\ pc[t] = "dial"
  /\ Retry(t)
  /\ UNCHANGED wire

WriteOk(t) ==
  /\ pc[t] = "write"
  /\ wire[packet[t]] < MaxInFlight
  /\ wire' = [wire EXCEPT ![packet[t]] = @ + 1]
  /\ writes' = [writes EXCEPT ![t] = @ + 1]
  /\ Goto(t, "read")
  /\ UNCHANGED <<ownerVars, overrideChan, resultChan, packet, attempt, success, statVars>>

WriteFail(t) ==
  /\ pc[t] = "write"
  /\ Retry(t)
  /\ UNCHANGED wire

\* Any answer, or none within OverrideReadTimeout: both are a success.
ReadOk(t) ==
  /\ pc[t] = "read"
  /\ success' = [success EXCEPT ![t] = TRUE]
  /\ Goto(t, "count")
  /\ UNCHANGED <<ownerVars, overrideChan, resultChan, packet, attempt, writes, statVars, wire>>

\* The connection fails after the write: the packet may arrive all the same.
ReadFail(t) ==
  /\ pc[t] = "read"
  /\ Retry(t)
  /\ UNCHANGED wire

Count_FaultyNoFailure(t) ==
  /\ pc[t] = "count"
  /\ IF success[t] THEN sentCount' = Increment(sentCount) ELSE UNCHANGED sentCount
  /\ Goto(t, IF t = SendLoop THEN "emit" ELSE "returned")
  /\ UNCHANGED <<ownerVars, overrideChan, resultChan, packet, attempt, success,
                 writes, failCount, begun, wire>>

\* The counters after the loop; a caller has its result, the loop emits it.
Count(t) ==
  /\ pc[t] = "count"
  /\ IF success[t] THEN sentCount' = Increment(sentCount) /\ UNCHANGED failCount
                   ELSE failCount' = Increment(failCount) /\ UNCHANGED sentCount
  /\ Goto(t, IF t = SendLoop THEN "emit" ELSE "returned")
  /\ UNCHANGED <<ownerVars, overrideChan, resultChan, packet, attempt, success,
                 writes, begun, wire>>

-----------------------------------------------------------------------------
\* The callers.

EmergencySend(t, p) ==
  /\ pc[t] = "idle"
  /\ BeginSend(t, p)
  /\ UNCHANGED <<ownerVars, overrideChan, resultChan, wire>>

Return(t) ==
  /\ pc[t] \in {"returned", "true", "false"}
  /\ Enter(t, "idle", NoPacket)
  /\ UNCHANGED <<ownerVars, overrideChan, resultChan, statVars, wire>>

SendCheck_FaultyUnchecked(t, p) ==
  /\ pc[t] = "idle"
  /\ Goto(t, "enqueue")
  /\ packet' = [packet EXCEPT ![t] = p]
  /\ UNCHANGED <<ownerVars, overrideChan, resultChan, attempt, success, writes, statVars, wire>>

\* Send reads running ...
SendCheck(t, p) ==
  /\ pc[t] = "idle"
  /\ Goto(t, IF running THEN "enqueue" ELSE "false")
  /\ packet' = [packet EXCEPT ![t] = p]
  /\ UNCHANGED <<ownerVars, overrideChan, resultChan, attempt, success, writes, statVars, wire>>

SendEnqueue_FaultyOverfull(t) ==
  /\ pc[t] = "enqueue"
  /\ IF closed
       THEN Goto(t, "panicked") /\ UNCHANGED overrideChan
     ELSE IF Len(overrideChan) <= MaxOverrideQueueSize
       THEN Goto(t, "true") /\ overrideChan' = Append(overrideChan, packet[t])
     ELSE Goto(t, "false") /\ UNCHANGED overrideChan
  /\ UNCHANGED <<ownerVars, resultChan, packet, attempt, success, writes, statVars, wire>>

\* ... and then offers the packet: a full queue drops it, a channel that was
\* closed in between makes the send panic.
SendEnqueue(t) ==
  /\ pc[t] = "enqueue"
  /\ IF closed
       THEN Goto(t, "panicked") /\ UNCHANGED overrideChan
     ELSE IF Len(overrideChan) < MaxOverrideQueueSize
       THEN Goto(t, "true") /\ overrideChan' = Append(overrideChan, packet[t])
     ELSE Goto(t, "false") /\ UNCHANGED overrideChan
  /\ UNCHANGED <<ownerVars, resultChan, packet, attempt, success, writes, statVars, wire>>

-----------------------------------------------------------------------------
\* The send loop.

LoopCheck ==
  /\ pc[SendLoop] = "loop"
  /\ Goto(SendLoop, IF running THEN "select" ELSE "done")
  /\ UNCHANGED <<ownerVars, overrideChan, resultChan, packet, attempt, success,
                 writes, statVars, wire>>

\* select: a done context or a closed and empty queue ends the loop; when a
\* packet is queued as well, either case may be chosen.
LoopReceive ==
  /\ pc[SendLoop] = "select"
  /\ overrideChan # <<>>
  /\ BeginSend(SendLoop, Head(overrideChan))
  /\ overrideChan' = Tail(overrideChan)
  /\ UNCHANGED <<ownerVars, resultChan, wire>>

LoopEnd ==
  /\ pc[SendLoop] = "select"
  /\ cancelled \/ (closed /\ overrideChan = <<>>)
  /\ Goto(SendLoop, "done")
  /\ UNCHANGED <<ownerVars, overrideChan, resultChan, packet, attempt, success,
                 writes, statVars, wire>>

LoopEmit_FaultyBlocking ==
  /\ pc[SendLoop] = "emit"
  /\ resultChan < MaxResults
  /\ resultChan' = resultChan + 1
  /\ Enter(SendLoop, "loop", NoPacket)
  /\ UNCHANGED <<ownerVars, overrideChan, statVars, wire>>

\* emitResult does not wait: a full resultChan drops the result.
LoopEmit ==
  /\ pc[SendLoop] = "emit"
  /\ resultChan' = IF resultChan < MaxResults THEN resultChan + 1 ELSE resultChan
  /\ Enter(SendLoop, "loop", NoPacket)
  /\ UNCHANGED <<ownerVars, overrideChan, statVars, wire>>

-----------------------------------------------------------------------------
\* The network: a written packet reaches the valve, or is lost.
Deliver(p) ==
  /\ wire[p] > 0
  /\ wire' = [wire EXCEPT ![p] = @ - 1]
  /\ UNCHANGED <<ownerVars, overrideChan, resultChan, callVars, statVars>>

-----------------------------------------------------------------------------
Stop == StopClearRunning \/ StopCancel \/ StopClose \/ StopWait

SendPacket(t) ==
  \/ DialOk(t) \/ DialFail(t)
  \/ WriteOk(t) \/ WriteFail(t)
  \/ ReadOk(t) \/ ReadFail(t)
  \/ Count(t)

Caller(t) ==
  \/ \E p \in Packets : EmergencySend(t, p) \/ SendCheck(t, p)
  \/ SendEnqueue(t)
  \/ Return(t)

Loop == LoopCheck \/ LoopReceive \/ LoopEnd \/ LoopEmit

Next ==
  \/ Start
  \/ Stop
  \/ \E t \in Threads : SendPacket(t)
  \/ \E t \in Callers : Caller(t)
  \/ Loop
  \/ \E p \in Packets : Deliver(p)

(***************************************************************************)
(* Every blocking call of sendPacket has a deadline, so a send that has    *)
(* begun goes on; the loop is a runnable goroutine; a Stop that has begun  *)
(* goes on.  Nobody is obliged to call the sender or to stop it.           *)
(***************************************************************************)
Fairness ==
  /\ \A t \in Threads : WF_vars(SendPacket(t))
  /\ WF_vars(Loop)
  /\ WF_vars(StopCancel \/ StopClose \/ StopWait)

Spec == Init /\ [][Next]_vars
FairSpec == Spec /\ Fairness

-----------------------------------------------------------------------------
Sending(t)  == pc[t] \in {"dial", "write", "read", "count"}
Finished(t) == pc[t] \in {"count", "emit", "returned"}

TypeOK ==
  /\ running \in BOOLEAN /\ cancelled \in BOOLEAN /\ closed \in BOOLEAN
  /\ owner \in {"new", "started", "cancel", "close", "wait", "stopped"}
  /\ overrideChan \in Seq(Packets) /\ Len(overrideChan) <= MaxOverrideQueueSize
  /\ resultChan \in 0 .. MaxResults
  /\ pc \in [Threads -> {"off", "idle", "enqueue", "true", "false", "panicked",
                         "loop", "select", "done", "dial", "write", "read",
                         "count", "emit", "returned"}]
  /\ packet \in [Threads -> Packets \cup {NoPacket}]
  /\ \A t \in Threads : Sending(t) \/ pc[t] = "enqueue" => packet[t] \in Packets
  /\ attempt \in [Threads -> 0 .. RetryCount]
  /\ success \in [Threads -> BOOLEAN]
  /\ writes \in [Threads -> 0 .. RetryCount + 1]
  /\ {sentCount, failCount, begun} \subseteq 0 .. CounterModulus - 1
  /\ wire \in [Packets -> 0 .. MaxInFlight]

\* The call of sendPacket a thread is in, as its caller may think of it.
CallOf(t) ==
  IF Sending(t) \/ Finished(t)
    THEN [stage |-> IF Sending(t) THEN "trying" ELSE IF success[t] THEN "sent" ELSE "failed",
          packet |-> packet[t],
          abandoned |-> IF Finished(t) /\ ~success[t] THEN attempt[t] + 1 ELSE attempt[t],
          written |-> pc[t] = "read" \/ (Finished(t) /\ success[t])]
    ELSE [stage |-> "none", packet |-> NoPacket, abandoned |-> 0, written |-> FALSE]

Calls == [t \in Threads |-> CallOf(t)]

Promise == INSTANCE AbstractSender WITH accepted <- overrideChan, call <- Calls

\* Whatever callers and loop do at the same time, however attempts fail, and whenever
\* Stop is called: a packet is written at most once an attempt; it is reported as sent
\* only if the attempt that the call stopped at has written it, and as failed only
\* after every attempt; what Send accepted is sent in its order and once
\* (sender.go:111-228).
SenderKeepsPromise == Promise!Init /\ [][Promise!Next]_(Promise!vars)

\* Every call of sendPacket is counted once, as sent or as failed, by whichever
\* goroutine made it (sender.go:224-228).
EveryCallCounted ==
  (sentCount + failCount + Cardinality({t \in Threads : Sending(t)}))
     % CounterModulus = begun

\* Only a Send that was already past its check of running when Stop cleared it
\* can hit the closed channel (sender.go:88-117): once Stop has closed it, a
\* caller that is not in the middle of a Send will never panic.
OnlyRacingSendPanics ==
  \A t \in Callers :
    [](closed /\ pc[t] \notin {"enqueue", "panicked"} => [](pc[t] # "panicked"))

\* The loop does its work as long as it may: while nobody stops the sender, a
\* queued packet makes it begin another send, although nobody reads Results()
\* (sender.go:134-151, 233-238); and Stop does not rely on its five-second time-out,
\* for the loop ends whatever is still queued (sender.go:88-109, 139-150).
QueueServed ==
  /\ (owner = "started" /\ overrideChan # <<>>)
       ~> (owner # "started" \/ pc[SendLoop] = "dial")
  /\ (owner = "wait") ~> (pc[SendLoop] = "done")
==============================================================================
