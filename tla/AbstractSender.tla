---------------------------- MODULE AbstractSender ----------------------------
(***************************************************************************)
(* What OverrideSender promises its callers.  A packet that Send accepted  *)
(* is sent in its turn, by the loop; one given to EmergencySend at once.   *)
(* A call makes up to RetryCount + 1 attempts, each writes at most one     *)
(* copy of the packet and is abandoned at most once.  It is reported as    *)
(* sent only if the attempt it stopped at has written its copy, and as     *)
(* failed only if all attempts were abandoned, and is counted once.        *)
(***************************************************************************)
EXTENDS Integers, Sequences

CONSTANTS Callers, SendLoop, Packets, NoPacket, RetryCount,
          MaxOverrideQueueSize, CounterModulus

VARIABLES accepted,   \* what Send has accepted, in its order
          call,       \* thread -> its call of sendPacket
          sentCount, failCount,
          wire        \* packet -> copies on their way to the valve

vars == <<accepted, call, sentCount, failCount, wire>>

Call(stage, p, abandoned, written) ==
  [stage |-> stage, packet |-> p, abandoned |-> abandoned, written |-> written]

NoCall == Call("none", NoPacket, 0, FALSE)

Increment(counter) == (counter + 1) % CounterModulus

Init ==
  /\ accepted = <<>>
  /\ call = [t \in Callers \cup {SendLoop} |-> NoCall]
  /\ sentCount = 0 /\ failCount = 0
  /\ wire = [p \in Packets |-> 0]

Accept(p) ==
  /\ Len(accepted) < MaxOverrideQueueSize
  /\ accepted' = Append(accepted, p)
  /\ UNCHANGED <<call, sentCount, failCount, wire>>

Begin(t, p) ==
  /\ call[t] = NoCall
  /\ call' = [call EXCEPT ![t] = Call("trying", p, 0, FALSE)]
  /\ IF t = SendLoop THEN accepted # <<>> /\ p = Head(accepted) /\ accepted' = Tail(accepted)
                     ELSE UNCHANGED accepted
  /\ UNCHANGED <<sentCount, failCount, wire>>

Write(t) ==
  /\ call[t].stage = "trying" /\ ~call[t].written /\ call[t].abandoned <= RetryCount
  /\ call' = [call EXCEPT ![t] = Call("trying", @.packet, @.abandoned, TRUE)]
  /\ wire' = [wire EXCEPT ![call[t].packet] = @ + 1]
  /\ UNCHANGED <<accepted, sentCount, failCount>>

Abandon(t) ==
  /\ call[t].stage = "trying" /\ call[t].abandoned <= RetryCount
  /\ call' = [call EXCEPT ![t] = Call("trying", @.packet, @.abandoned + 1, FALSE)]
  /\ UNCHANGED <<accepted, sentCount, failCount, wire>>

Report(t) ==
  /\ call[t].stage = "trying"
  /\ \/ /\ call[t].written
        /\ call' = [call EXCEPT ![t].stage = "sent"]
        /\ sentCount' = Increment(sentCount) /\ UNCHANGED failCount
     \/ /\ call[t].abandoned = RetryCount + 1
        /\ call' = [call EXCEPT ![t].stage = "failed"]
        /\ failCount' = Increment(failCount) /\ UNCHANGED sentCount
  /\ UNCHANGED <<accepted, wire>>

Return(t) ==
  /\ call[t].stage \in {"sent", "failed"}
  /\ call' = [call EXCEPT ![t] = NoCall]
  /\ UNCHANGED <<accepted, sentCount, failCount, wire>>

Deliver(p) ==
  /\ wire[p] > 0
  /\ wire' = [wire EXCEPT ![p] = @ - 1]
  /\ UNCHANGED <<accepted, call, sentCount, failCount>>

Next ==
  \/ \E p \in Packets : Accept(p) \/ Deliver(p)
  \/ \E t \in Callers \cup {SendLoop} :
       \/ \E p \in Packets : Begin(t, p)
       \/ Write(t) \/ Abandon(t) \/ Report(t) \/ Return(t)
==============================================================================
