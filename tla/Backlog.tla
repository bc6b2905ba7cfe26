------------------------------- MODULE Backlog -------------------------------
(***************************************************************************)
(* The way of a pressure from the decoder to the safety controller.  The   *)
(* decoder stamps it with the time (protocol/decoder.go:129) and the solver *)
(* keeps the stamp, but Assess takes the time anew (controller.go:90).     *)
(* Between the two lie the solver workers, which may overtake each other,  *)
(* and a channel in which frames wait while the interceptor sends an       *)
(* override.  Nobody resets the controller.                                *)
(***************************************************************************)
EXTENDS SafetyController
Seqs == INSTANCE SequencesExt

CONSTANTS SolverWorkers, FrameBufferSize,
          MaxFrames, MaxTime    \* bounds: frames that are decoded, ticks

ASSUME BacklogAssumption ==
  /\ {SolverWorkers, FrameBufferSize} \subseteq Nat \ {0}
  /\ {MaxFrames, MaxTime} \subseteq Nat
  /\ 0 .. MaxTime \subseteq Gaps

VARIABLES now, assessedAt,   \* ticks: the time, and that of the last assessment
          decodedCount,
          decoded,           \* frames waiting for a solver worker or in its hands
          hydroFrameChan,
          stamps             \* the stamps of the frames in samples

backlogVars == <<vars, now, assessedAt, decodedCount, decoded, hydroFrameChan, stamps>>

BacklogInit ==
  /\ Init
  /\ now = 0 /\ assessedAt = 0 /\ decodedCount = 0
  /\ decoded = <<>> /\ hydroFrameChan = <<>> /\ stamps = <<>>

Tick ==
  /\ now < MaxTime
  /\ now' = now + 1
  /\ UNCHANGED <<vars, assessedAt, decodedCount, decoded, hydroFrameChan, stamps>>

Decode(p) ==
  /\ decodedCount < MaxFrames
  /\ decodedCount' = decodedCount + 1
  /\ decoded' = Append(decoded, [stamp |-> now, pressure |-> p])
  /\ UNCHANGED <<vars, now, assessedAt, hydroFrameChan, stamps>>

\* A worker takes the oldest frame, but it need not be the first to be done.  A
\* frame that the channel has no room for is dropped.
Solve(i) ==
  /\ i \in DOMAIN decoded
  /\ decoded' = Seqs!RemoveAt(decoded, i)
  /\ hydroFrameChan' = IF Len(hydroFrameChan) < FrameBufferSize
                       THEN Append(hydroFrameChan, decoded[i]) ELSE hydroFrameChan
  /\ UNCHANGED <<vars, now, assessedAt, decodedCount, stamps>>

AssessNext ==
  /\ hydroFrameChan # <<>>
  /\ \E opening \in Openings, demand \in Demands :
       Assess(Head(hydroFrameChan).pressure, now - assessedAt, opening, demand, 2 * demand)
  /\ hydroFrameChan' = Tail(hydroFrameChan)
  /\ assessedAt' = now
  /\ stamps' = Last(Append(stamps, Head(hydroFrameChan).stamp), MaxSamples)
  /\ UNCHANGED <<now, decodedCount, decoded>>

BacklogNext ==
  \/ Tick \/ AssessNext
  \/ \E p \in Pressures : Decode(p)
  \/ \E i \in 1 .. SolverWorkers : Solve(i)

BacklogSpec == BacklogInit /\ [][BacklogNext]_backlogVars

-----------------------------------------------------------------------------
\* Steeper than the least slope that detectNonlinearSurge takes for a surge.
Steep(rise, ticks) == 10 * rise > 3 * SurgeThreshold * ticks

\* The controller measures slopes between the instants at which it happens to see
\* the frames (controller.go:90, 213, 245).  A valve that it shuts below the limit
\* is shut for a reason all the same: between two neighbouring samples of its
\* window the pressure really rose steeply, or they came in the wrong order, or the
\* second waited less long than the first, as when a backlog is worked off.
LockdownHasCause ==
  LET win   == Last(samples, Window)
      taken == Last(stamps, Window)
  IN  (AssessedBelowLimit /\ lastAssessment.LockdownRequired) =>
        \E i \in 2 .. Len(win) :
          LET apart == taken[i] - taken[i - 1]
          IN  \/ apart >= 0 /\ Steep(win[i].pressure - win[i - 1].pressure, apart)
              \/ apart < 0
              \/ win[i].gap < apart
==============================================================================
