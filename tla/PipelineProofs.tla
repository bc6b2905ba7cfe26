---------------------------- MODULE PipelineProofs ----------------------------
(***************************************************************************)
(* The pipeline's accounts and the uniqueness of its items, for any number *)
(* of workers and items and channels of any size.                          *)
(***************************************************************************)
EXTENDS Pipeline, FiniteSetTheorems, TLAPS

Distinct(chan) == \A i, j \in 1 .. Len(chan) : chan[i] = chan[j] => i = j

Raw     == Elements(rawDataChan)
Decoded == Elements(decodedChan)
Frames  == Elements(hydroFrameChan)

\* A packet is in one place, and is there once.
OnceOnly ==
  /\ Distinct(rawDataChan) /\ Distinct(decodedChan) /\ Distinct(hydroFrameChan)
  /\ Raw \cap Decoded = {} /\ Raw \cap Frames = {} /\ Decoded \cap Frames = {}
  /\ OnePlaceEach

\* The numbers that have been given out.
Numbered ==
  \A item \in Queued \cup Held \cup assessed \cup written : item.id <= received

Busy == {w \in Workers : hand[w] # Nothing}
Lost == {w \in Workers : pc[w] = "done" /\ CancelledOf(w)}

\* main stops the pipeline before the solver.
Ordered ==
  /\ owner \notin {"started", "cancel"} => cancelled
  /\ solverCancelled => cancelled

IInv ==
  /\ TypeOK /\ IsFiniteSet(assessed) /\ IsFiniteSet(written)
  /\ OnceOnly /\ Numbered /\ Ordered /\ NothingLostSilently

------------------------------------------------------------------------------
\* The type invariant in parts.
Counters ==
  /\ errorChan \in 0 .. ErrorBufferSize
  /\ {decodedDropped, frameDropped, errDropped, outputDropped, errorDropped, totalFrames, failedFrames,
      errorsHandled} \subseteq Nat

ChansTyped ==
  /\ rawDataChan \in Seq(Item) /\ Len(rawDataChan) <= RawBufferSize
  /\ decodedChan \in Seq(Item) /\ Len(decodedChan) <= ChannelSize
  /\ hydroFrameChan \in Seq(Item) /\ Len(hydroFrameChan) <= ChannelSize

HandsTyped ==
  /\ pc \in [Threads -> {"loop", "select", "work", "done"}]
  /\ hand \in [Workers -> Item \cup {Nothing}]
  /\ \A w \in Workers : hand[w] = Nothing <=> pc[w] # "work"

RestTyped ==
  /\ {running, cancelled, solverRunning, solverCancelled, closed} \subseteq BOOLEAN
  /\ owner \in {"started", "cancel", "close", "wait", "stopSolver",
               "cancelSolver", "waitSolver", "stopped"}
  /\ received \in Nat /\ assessed \subseteq Item /\ written \subseteq Item

LEMMA TypeOKParts ==
  /\ TypeOK <=> Counters /\ ChansTyped /\ HandsTyped /\ RestTyped
  /\ TypeOK' <=> Counters' /\ ChansTyped' /\ HandsTyped' /\ RestTyped'
BY DEF TypeOK, Counters, ChansTyped, HandsTyped, RestTyped

LEMMA ThreadFacts ==
  /\ Workers \subseteq Threads /\ ErrorHandler \in Threads /\ ErrorHandler \notin Workers
  /\ Decoders \subseteq Workers /\ Solvers \subseteq Workers /\ SolverLoop \in Workers
  /\ SolverLoop \notin Decoders \cup Solvers /\ IsFiniteSet(Workers)
  /\ Nothing \notin Item
<1>1. IsFiniteSet(Decoders \cup Solvers)
  BY PipelineAssumption, FS_Union
<1>2. IsFiniteSet((Decoders \cup Solvers) \cup {SolverLoop})
  BY <1>1, FS_AddElement
<1> QED BY <1>2, PipelineAssumption DEF Workers, Threads, Item

LEMMA InitIInv == Init => IInv
<1> SUFFICES ASSUME Init PROVE IInv
  OBVIOUS
<1>1. Raw = {} /\ Decoded = {} /\ Frames = {} /\ Queued = {} /\ Held = {} /\ Busy = {}
  BY DEF Init, Raw, Decoded, Frames, Queued, Held, Busy, Elements
<1>2. TypeOK
  <2>1. <<>> \in Seq(Item) /\ Len(<<>>) = 0
    OBVIOUS
  <2>2. pc \in [Threads -> {"loop", "select", "work", "done"}]
    BY DEF Init
  <2>3. \A w \in Workers : hand[w] = Nothing /\ pc[w] # "work"
    BY ThreadFacts DEF Init
  <2>4. 0 <= RawBufferSize /\ 0 <= ChannelSize /\ 0 \in 0 .. ErrorBufferSize
    BY PipelineAssumption
  <2>5. hand \in [Workers -> Item \cup {Nothing}]
    BY DEF Init
  <2>6. /\ rawDataChan \in Seq(Item) /\ decodedChan \in Seq(Item) /\ hydroFrameChan \in Seq(Item)
        /\ Len(rawDataChan) = 0 /\ Len(decodedChan) = 0 /\ Len(hydroFrameChan) = 0
    BY <2>1 DEF Init
  <2>7. /\ {running, cancelled, solverRunning, solverCancelled, closed} \subseteq BOOLEAN
        /\ assessed \subseteq Item /\ written \subseteq Item
        /\ \A w \in Workers : hand[w] = Nothing <=> pc[w] # "work"
    BY <2>3 DEF Init
  <2> QED BY <2>2, <2>4, <2>5, <2>6, <2>7 DEF Init, TypeOK
<1>3. OnceOnly
  BY <1>1 DEF Init, OnceOnly, OnePlaceEach, Distinct
<1>4. Numbered /\ Ordered
  BY <1>1 DEF Init, Numbered, Ordered
<1>5. NothingLostSilently
  <2>1. Accounted = 0
    <3>1. Waiting = 0
      BY <1>1, FS_EmptySet DEF Init, Waiting, Busy
    <3>2. Consumed = 0 /\ Counted = 0
      BY FS_EmptySet DEF Init, Consumed, Counted
    <3> QED BY <3>1, <3>2 DEF Accounted
  <2>2. Cardinality(Lost) \in Nat
    BY ThreadFacts, FS_Subset, FS_CardinalityType DEF Lost
  <2> QED BY <2>1, <2>2 DEF Init, NothingLostSilently, Lost
<1> QED BY <1>2, <1>3, <1>4, <1>5, FS_EmptySet DEF IInv, Init

------------------------------------------------------------------------------
\* Channels.

LEMMA Appended ==
  ASSUME NEW s \in Seq(Item), NEW x \in Item
  PROVE  /\ Append(s, x) \in Seq(Item) /\ Len(Append(s, x)) = Len(s) + 1
         /\ Elements(Append(s, x)) = Elements(s) \cup {x}
         /\ Distinct(s) /\ x \notin Elements(s) => Distinct(Append(s, x))
<1>1. Append(s, x) \in Seq(Item) /\ Len(Append(s, x)) = Len(s) + 1 /\ Len(s) \in Nat
  OBVIOUS
<1>2. \A i \in 1 .. Len(s) + 1 : Append(s, x)[i] = IF i = Len(s) + 1 THEN x ELSE s[i]
  OBVIOUS
<1>3. DOMAIN s = 1 .. Len(s) /\ DOMAIN Append(s, x) = 1 .. Len(s) + 1
  BY <1>1
<1>4. \A i \in 1 .. Len(s) + 1 : i = Len(s) + 1 \/ i \in 1 .. Len(s)
  BY <1>1
<1>5. \A i \in 1 .. Len(s) : i \in 1 .. Len(s) + 1 /\ i # Len(s) + 1
  BY <1>1
<1>6. Len(s) + 1 \in 1 .. Len(s) + 1
  BY <1>1
<1>7. Elements(Append(s, x)) = Elements(s) \cup {x}
  BY <1>2, <1>3, <1>4, <1>5, <1>6 DEF Elements
<1>8. Distinct(s) /\ x \notin Elements(s) => Distinct(Append(s, x))
  BY <1>1, <1>2, <1>3, <1>4 DEF Elements, Distinct
<1> QED BY <1>1, <1>7, <1>8

LEMMA Removed ==
  ASSUME NEW s \in Seq(Item), s # <<>>
  PROVE  /\ Head(s) \in Item /\ Head(s) \in Elements(s)
         /\ Tail(s) \in Seq(Item) /\ Len(Tail(s)) = Len(s) - 1 /\ Len(s) > 0
         /\ Distinct(s) => Elements(Tail(s)) = Elements(s) \ {Head(s)} /\ Distinct(Tail(s))
<1>1. Len(s) \in Nat /\ Len(s) > 0 /\ Tail(s) \in Seq(Item) /\ Len(Tail(s)) = Len(s) - 1
  OBVIOUS
<1>2. /\ Head(s) = s[1] /\ Head(s) \in Item
      /\ \A i \in 1 .. Len(s) - 1 : Tail(s)[i] = s[i + 1]
  OBVIOUS
<1>3. DOMAIN s = 1 .. Len(s) /\ DOMAIN Tail(s) = 1 .. Len(s) - 1
  BY <1>1
<1>4. 1 \in 1 .. Len(s) /\ \A i \in 1 .. Len(s) - 1 : i + 1 \in 1 .. Len(s) /\ i + 1 # 1
  BY <1>1
<1>5. \A i \in 1 .. Len(s) : i = 1 \/ (i - 1 \in 1 .. Len(s) - 1 /\ (i - 1) + 1 = i)
  BY <1>1
<1>6. Head(s) \in Elements(s)
  BY <1>2, <1>3, <1>4 DEF Elements
<1>7. ASSUME Distinct(s) PROVE Elements(Tail(s)) = Elements(s) \ {Head(s)}
  <2>1. ASSUME NEW i \in 1 .. Len(s) - 1 PROVE Tail(s)[i] \in Elements(s) \ {Head(s)}
    BY <1>2, <1>3, <1>4, <1>7 DEF Elements, Distinct
  <2>2. ASSUME NEW i \in 1 .. Len(s), s[i] # Head(s) PROVE s[i] \in Elements(Tail(s))
    <3>1. i # 1
      BY <1>2, <2>2
    <3>2. i - 1 \in 1 .. Len(s) - 1 /\ (i - 1) + 1 = i
      BY <1>5, <3>1
    <3>3. Tail(s)[i - 1] = s[i]
      BY <1>2, <3>2
    <3> QED BY <1>3, <3>2, <3>3 DEF Elements
  <2> QED BY <1>3, <2>1, <2>2 DEF Elements
<1>8. ASSUME Distinct(s), NEW i \in 1 .. Len(s) - 1, NEW j \in 1 .. Len(s) - 1, Tail(s)[i] = Tail(s)[j]
      PROVE  i = j
  <2>1. i + 1 = j + 1
    BY <1>2, <1>4, <1>8 DEF Distinct
  <2> QED BY <2>1
<1> QED BY <1>1, <1>2, <1>6, <1>7, <1>8 DEF Distinct

LEMMA AllItems ==
  ASSUME IInv PROVE Queued \cup Held \cup assessed \cup written \subseteq Item
<1>1. ASSUME NEW s \in Seq(Item) PROVE Elements(s) \subseteq Item
  <2>1. \A i \in DOMAIN s : s[i] \in Item
    OBVIOUS
  <2> QED BY <2>1 DEF Elements
<1>2. /\ rawDataChan \in Seq(Item) /\ decodedChan \in Seq(Item) /\ hydroFrameChan \in Seq(Item)
      /\ hand \in [Workers -> Item \cup {Nothing}] /\ assessed \subseteq Item /\ written \subseteq Item
  BY DEF IInv, TypeOK
<1>3. Queued \subseteq Item
  BY <1>1, <1>2 DEF Queued
<1>4. Held \subseteq Item
  BY <1>2 DEF Held
<1> QED BY <1>2, <1>3, <1>4

------------------------------------------------------------------------------
\* Hands.

LEMMA HandFilled ==
  ASSUME IInv, NEW w \in Workers, pc[w] # "work", NEW x \in Item, x \notin Held,
         hand' = [hand EXCEPT ![w] = x]
  PROVE  /\ hand' \in [Workers -> Item \cup {Nothing}]
         /\ \A v \in Workers : hand'[v] = IF v = w THEN x ELSE hand[v]
         /\ Held' = Held \cup {x}
         /\ Cardinality(Busy') = Cardinality(Busy) + 1 /\ Cardinality(Busy) \in Nat
         /\ \A v, u \in Workers : v # u /\ hand'[v] # Nothing => hand'[v] # hand'[u]
<1>1. /\ hand \in [Workers -> Item \cup {Nothing}] /\ hand[w] = Nothing
      /\ \A v, u \in Workers : v # u /\ hand[v] # Nothing => hand[v] # hand[u]
  BY DEF IInv, TypeOK, OnceOnly, OnePlaceEach
<1>2. /\ \A v \in Workers : hand'[v] = IF v = w THEN x ELSE hand[v]
      /\ hand' \in [Workers -> Item \cup {Nothing}]
  BY <1>1
<1>3. Held' = Held \cup {x} /\ Busy' = Busy \cup {w} /\ w \notin Busy
  BY <1>1, <1>2, ThreadFacts DEF Held, Busy
<1>4. IsFiniteSet(Busy)
  BY ThreadFacts, FS_Subset DEF Busy
<1>5. \A v, u \in Workers : v # u /\ hand'[v] # Nothing => hand'[v] # hand'[u]
  BY <1>1, <1>2 DEF Held
<1> QED BY <1>2, <1>3, <1>4, <1>5, FS_AddElement, FS_CardinalityType

LEMMA HandEmptied ==
  ASSUME IInv, NEW w \in Workers, pc[w] = "work", hand' = [hand EXCEPT ![w] = Nothing]
  PROVE  /\ hand' \in [Workers -> Item \cup {Nothing}] /\ hand[w] \in Item
         /\ \A v \in Workers : hand'[v] = IF v = w THEN Nothing ELSE hand[v]
         /\ hand[w] \in Held /\ Held' = Held \ {hand[w]}
         /\ Cardinality(Busy') = Cardinality(Busy) - 1 /\ Cardinality(Busy) \in Nat
         /\ \A v, u \in Workers : v # u /\ hand'[v] # Nothing => hand'[v] # hand'[u]
<1>1. /\ hand \in [Workers -> Item \cup {Nothing}] /\ hand[w] # Nothing
      /\ \A v, u \in Workers : v # u /\ hand[v] # Nothing => hand[v] # hand[u]
  BY DEF IInv, TypeOK, OnceOnly, OnePlaceEach
<1>2. /\ \A v \in Workers : hand'[v] = IF v = w THEN Nothing ELSE hand[v]
      /\ hand' \in [Workers -> Item \cup {Nothing}]
  BY <1>1
<1>3. hand[w] \in Held /\ Busy' = Busy \ {w} /\ w \in Busy
  BY <1>1, <1>2 DEF Held, Busy
<1>4. Held' = Held \ {hand[w]}
  BY <1>1, <1>2 DEF Held
<1>5. IsFiniteSet(Busy)
  BY ThreadFacts, FS_Subset DEF Busy
<1>6. \A v, u \in Workers : v # u /\ hand'[v] # Nothing => hand'[v] # hand'[u]
  BY <1>1, <1>2
<1> QED BY <1>1, <1>2, <1>3, <1>4, <1>5, <1>6, FS_RemoveElement, FS_CardinalityType

------------------------------------------------------------------------------
\* Accounts.

LEMMA AccountTypes ==
  ASSUME IInv
  PROVE  /\ Len(rawDataChan) \in Nat /\ Len(decodedChan) \in Nat /\ Len(hydroFrameChan) \in Nat
         /\ Cardinality(Busy) \in Nat /\ Cardinality(assessed) \in Nat /\ Cardinality(written) \in Nat
         /\ decodedDropped \in Nat /\ frameDropped \in Nat /\ outputDropped \in Nat
         /\ errorsHandled \in Nat /\ errDropped \in Nat /\ errorDropped \in Nat
         /\ errorChan \in Nat /\ received \in Nat /\ Cardinality(Lost) \in Nat
         /\ Waiting \in Nat /\ Consumed \in Nat /\ Counted \in Nat
         /\ Accounted = Waiting + Consumed + Counted /\ Accounted \in Nat
<1>1. /\ rawDataChan \in Seq(Item) /\ decodedChan \in Seq(Item) /\ hydroFrameChan \in Seq(Item)
      /\ errorChan \in Nat
  BY PipelineAssumption DEF IInv, TypeOK
<1>2. IsFiniteSet(Busy) /\ IsFiniteSet(Lost)
  BY ThreadFacts, FS_Subset DEF Busy, Lost
<1>3. /\ Len(rawDataChan) \in Nat /\ Len(decodedChan) \in Nat /\ Len(hydroFrameChan) \in Nat
      /\ Cardinality(Busy) \in Nat /\ Cardinality(assessed) \in Nat /\ Cardinality(written) \in Nat
      /\ Cardinality(Lost) \in Nat
  BY <1>1, <1>2, FS_CardinalityType DEF IInv
<1>4. /\ decodedDropped \in Nat /\ frameDropped \in Nat /\ outputDropped \in Nat
      /\ errorsHandled \in Nat /\ errDropped \in Nat /\ errorDropped \in Nat /\ received \in Nat
  BY DEF IInv, TypeOK
<1>5. /\ Waiting \in Nat /\ Consumed \in Nat /\ Counted \in Nat
      /\ Accounted = Waiting + Consumed + Counted /\ Accounted \in Nat
  BY <1>1, <1>3, <1>4 DEF Accounted, Waiting, Consumed, Counted, Busy
<1> QED BY <1>1, <1>3, <1>4, <1>5

\* The difference between what came and what is accounted for stays as it is.
LEMMA BooksKept ==
  ASSUME IInv, NEW n \in {0, 1}, received' = received + n, Accounted' = Accounted + n,
         cancelled => cancelled', Lost \subseteq Lost'
  PROVE  NothingLostSilently'
<1>1. IsFiniteSet(Lost')
  BY ThreadFacts, FS_Subset DEF Lost
<1>2. Cardinality(Lost) <= Cardinality(Lost') /\ Cardinality(Lost') \in Nat
  BY <1>1, FS_Subset, FS_CardinalityType
<1>3. Accounted \in Nat /\ received \in Nat /\ Cardinality(Lost) \in Nat
  BY AccountTypes
<1>4. /\ Accounted <= received /\ (~cancelled => Accounted = received)
      /\ received - Accounted <= Cardinality(Lost)
  BY DEF IInv, NothingLostSilently, Lost
<1>5. Accounted' <= received' /\ received' - Accounted' <= Cardinality(Lost')
  BY <1>2, <1>3, <1>4
<1>6. ~cancelled' => Accounted' = received'
  BY <1>3, <1>4
<1> QED BY <1>5, <1>6 DEF NothingLostSilently, Lost

\* A worker that notices the stop gives up its item.
LEMMA BooksLoss ==
  ASSUME IInv, NEW w \in Workers, w \notin Lost, w \in Lost', Lost \subseteq Lost',
         Accounted' = Accounted - 1, received' = received, cancelled'
  PROVE  NothingLostSilently'
<1>1. IsFiniteSet(Lost') /\ IsFiniteSet(Lost)
  BY ThreadFacts, FS_Subset DEF Lost
<1>2. Cardinality(Lost \cup {w}) = Cardinality(Lost) + 1 /\ IsFiniteSet(Lost \cup {w})
  BY <1>1, FS_AddElement
<1>3. Cardinality(Lost) + 1 <= Cardinality(Lost') /\ Cardinality(Lost') \in Nat
  BY <1>1, <1>2, FS_Subset, FS_CardinalityType
<1>4. Accounted \in Nat /\ received \in Nat /\ Cardinality(Lost) \in Nat
  BY AccountTypes
<1>5. Accounted <= received /\ received - Accounted <= Cardinality(Lost)
  BY DEF IInv, NothingLostSilently, Lost
<1>6. Accounted' <= received' /\ received' - Accounted' <= Cardinality(Lost')
  BY <1>3, <1>4, <1>5
<1> QED BY <1>6 DEF NothingLostSilently, Lost

------------------------------------------------------------------------------
\* Steps that move no item.

LEMMA QuietIInv ==
  ASSUME IInv, TypeOK', Ordered', cancelled => cancelled', Lost \subseteq Lost', Counted' = Counted,
         UNCHANGED <<rawDataChan, decodedChan, hydroFrameChan, hand, received, assessed, written>>
  PROVE  IInv'
<1>1. OnceOnly' /\ Numbered'
  <2>1. Raw' = Raw /\ Decoded' = Decoded /\ Frames' = Frames /\ Queued' = Queued /\ Held' = Held
    BY DEF Raw, Decoded, Frames, Queued, Held
  <2>2. Distinct(rawDataChan)' /\ Distinct(decodedChan)' /\ Distinct(hydroFrameChan)'
    BY DEF IInv, OnceOnly, Distinct
  <2> QED BY <2>1, <2>2 DEF IInv, OnceOnly, OnePlaceEach, Numbered
<1>2. Accounted' = Accounted + 0 /\ received' = received + 0
  <2>1. Waiting' = Waiting /\ Consumed' = Consumed
    BY DEF Waiting, Consumed
  <2>2. Accounted' = Accounted
    BY <2>1 DEF Accounted
  <2>3. Accounted \in Nat /\ received \in Nat
    BY AccountTypes
  <2> QED BY <2>2, <2>3
<1>3. NothingLostSilently'
  BY <1>2, BooksKept
<1> QED BY <1>1, <1>3 DEF IInv

LEMMA LoopIInv ==
  ASSUME IInv, NEW t \in Threads, LoopCheck(t) \/ LoopEnd(t)
  PROVE  IInv'
<1> USE ThreadFacts
<1>1. /\ pc[t] \in {"loop", "select"}
      /\ UNCHANGED <<chanVars, ownerVars, hand, pipeStats, solverStats, endVars>>
  BY DEF LoopCheck, LoopEnd
<1>2. PICK label \in {"select", "done"} : Goto(t, label)
  BY DEF LoopCheck, LoopEnd
<1>3. /\ pc' \in [Threads -> {"loop", "select", "work", "done"}]
      /\ \A u \in Threads : pc'[u] = IF u = t THEN label ELSE pc[u]
  BY <1>2 DEF Goto, IInv, TypeOK
<1> USE <1>1 DEF chanVars, ownerVars, pipeStats, solverStats, endVars
<1>4. TypeOK'
  <2>1. \A w \in Workers : hand'[w] = Nothing <=> pc'[w] # "work"
    BY <1>3 DEF IInv, TypeOK
  <2> QED BY <1>3, <2>1 DEF IInv, TypeOK
<1>5. Ordered' /\ Counted' = Counted
  BY DEF IInv, Ordered, Counted
<1>6. Lost \subseteq Lost'
  BY <1>3 DEF Lost, CancelledOf
<1> QED BY <1>4, <1>5, <1>6, QuietIInv

LEMMA ErrorIInv ==
  ASSUME IInv, HandleOne(ErrorHandler) \/ handleErrors
  PROVE  IInv'
<1> USE ThreadFacts
<1>1. /\ errorChan > 0 /\ errorChan' = errorChan - 1 /\ errorsHandled' = errorsHandled + 1
      /\ UNCHANGED <<rawDataChan, decodedChan, hydroFrameChan, ownerVars, hand, pipeStats, solverStats,
                     received, assessed, written>>
      /\ pc' = pc \/ (pc[ErrorHandler] = "select" /\ Goto(ErrorHandler, "loop"))
  BY DEF HandleOne, handleErrors
<1>2. /\ pc' \in [Threads -> {"loop", "select", "work", "done"}]
      /\ \A w \in Workers : pc'[w] = pc[w]
  BY <1>1 DEF Goto, IInv, TypeOK
<1> USE <1>1 DEF ownerVars, pipeStats, solverStats
<1>3. errorChan' \in 0 .. ErrorBufferSize /\ errorsHandled' \in Nat
  <2>1. ErrorBufferSize \in Nat
    BY PipelineAssumption
  <2>2. errorChan \in 0 .. ErrorBufferSize /\ errorsHandled \in Nat
    BY DEF IInv, TypeOK
  <2> QED BY <2>1, <2>2
<1>4. TypeOK'
  <2>1. \A w \in Workers : hand'[w] = Nothing <=> pc'[w] # "work"
    BY <1>2 DEF IInv, TypeOK
  <2>2. HandsTyped'
    BY <1>2, <2>1 DEF HandsTyped, IInv, TypeOK
  <2>3. Counters'
    BY <1>3 DEF Counters, IInv, TypeOK
  <2>4. ChansTyped' /\ RestTyped'
    BY DEF ChansTyped, RestTyped, IInv, TypeOK
  <2> QED BY <2>2, <2>3, <2>4, TypeOKParts
<1>5. Counted' = Counted
  <2>1. errorChan' + errorsHandled' = errorChan + errorsHandled
    <3>1. errorChan \in Nat /\ errorsHandled \in Nat
      BY AccountTypes
    <3> QED BY <3>1
  <2> QED BY <2>1 DEF Counted
<1>6. Ordered' /\ Lost \subseteq Lost'
  BY <1>2 DEF IInv, Ordered, Lost, CancelledOf
<1> QED BY <1>4, <1>5, <1>6, QuietIInv

LEMMA StopIInv ==
  ASSUME IInv, PipelineClearRunning \/ ContinueStop
  PROVE  IInv'
<1> USE DEF PipelineClearRunning, ContinueStop, PipelineCancel, PipelineClose, PipelineWait,
            SolverClearRunning, SolverCancel, SolverWait, StopStep
<1>1. /\ UNCHANGED <<chanVars, pc, hand, pipeStats, solverStats, endVars>>
      /\ owner' \in {"cancel", "close", "wait", "stopSolver", "cancelSolver", "waitSolver", "stopped"}
  OBVIOUS
<1>2. /\ running' \in {running, FALSE} /\ cancelled' \in {cancelled, TRUE} /\ closed' \in {closed, TRUE}
      /\ solverRunning' \in {solverRunning, FALSE} /\ solverCancelled' \in {solverCancelled, TRUE}
  OBVIOUS
<1>3. Ordered'
  BY DEF IInv, Ordered
<1>4. cancelled => cancelled'
  OBVIOUS
<1>5. solverCancelled => solverCancelled'
  OBVIOUS
<1> USE <1>1 DEF chanVars, pipeStats, solverStats, endVars
<1>6. TypeOK'
  <2>1. {running', cancelled', solverRunning', solverCancelled', closed'} \subseteq BOOLEAN
    BY <1>2 DEF IInv, TypeOK
  <2> QED BY <2>1 DEF IInv, TypeOK
<1>7. Counted' = Counted
  BY DEF Counted
<1>8. Lost \subseteq Lost'
  BY <1>4, <1>5 DEF Lost, CancelledOf
<1> QED BY <1>3, <1>4, <1>6, <1>7, <1>8, QuietIInv

------------------------------------------------------------------------------
\* Steps that move an item.

LEMMA ArriveIInv ==
  ASSUME IInv, NEW kind \in Kinds, Arrive(kind)
  PROVE  IInv'
<1> DEFINE item == [id |-> received + 1, kind |-> kind]
<1>1. /\ Len(rawDataChan) < RawBufferSize /\ received < MaxRaw /\ received' = received + 1
      /\ rawDataChan' = Append(rawDataChan, item)
      /\ UNCHANGED <<decodedChan, hydroFrameChan, errorChan, ownerVars, pc, hand, pipeStats, solverStats,
                     errorsHandled, assessed, written>>
  BY DEF Arrive
<1>2. received \in Nat /\ MaxRaw \in Nat /\ RawBufferSize \in Nat /\ rawDataChan \in Seq(Item)
  BY PipelineAssumption DEF IInv, TypeOK
<1>3. item \in Item /\ item.id = received + 1
  <2>1. received + 1 \in 1 .. MaxRaw
    BY <1>1, <1>2
  <2> QED BY <2>1 DEF Item
<1>4. \A other \in Queued \cup Held \cup assessed \cup written : other # item
  <2>1. ASSUME NEW other \in Queued \cup Held \cup assessed \cup written, other = item PROVE FALSE
    <3>1. other.id <= received
      BY DEF IInv, Numbered
    <3> QED BY <1>2, <1>3, <2>1, <3>1
  <2> QED BY <2>1
<1> HIDE DEF item
<1>5. /\ rawDataChan' \in Seq(Item) /\ Len(rawDataChan') = Len(rawDataChan) + 1
      /\ Raw' = Raw \cup {item} /\ Distinct(rawDataChan')
  BY <1>1, <1>2, <1>3, <1>4, Appended DEF Raw, IInv, OnceOnly, Queued
<1> USE <1>1, <1>5 DEF ownerVars, pipeStats, solverStats
<1>6. TypeOK'
  <2>1. Len(rawDataChan') <= RawBufferSize
    BY <1>2
  <2>2. received' \in Nat
    BY <1>2
  <2>3. ChansTyped' /\ RestTyped'
    BY <2>1, <2>2 DEF ChansTyped, RestTyped, IInv, TypeOK
  <2>4. Counters' /\ HandsTyped'
    BY DEF Counters, HandsTyped, IInv, TypeOK
  <2> QED BY <2>3, <2>4, TypeOKParts
<1>7. /\ Decoded' = Decoded /\ Frames' = Frames /\ Held' = Held
      /\ Queued = Raw \cup Decoded \cup Frames /\ Queued' = Queued \cup {item}
  BY DEF Decoded, Frames, Held, Queued, Raw
<1>8. OnceOnly'
  <2>1. OnePlaceEach'
    BY <1>4, <1>7 DEF IInv, OnceOnly, OnePlaceEach
  <2>2. Raw' \cap Decoded' = {} /\ Raw' \cap Frames' = {} /\ Decoded' \cap Frames' = {}
    BY <1>4, <1>7 DEF IInv, OnceOnly
  <2> QED BY <2>1, <2>2 DEF IInv, OnceOnly
<1>9. Numbered'
  <2>1. ASSUME NEW other \in Queued' \cup Held' \cup assessed' \cup written' PROVE other.id <= received'
    <3>1. CASE other = item
      BY <1>2, <1>3, <3>1
    <3>2. CASE other # item
      <4>1. other \in Queued \cup Held \cup assessed \cup written /\ other \in Item
        BY <1>7, <3>2, AllItems
      <4>2. other.id <= received /\ other.id \in Nat
        BY <4>1 DEF IInv, Numbered, Item
      <4> QED BY <1>2, <4>2
    <3> QED BY <3>1, <3>2
  <2> QED BY <2>1 DEF Numbered
<1>10. NothingLostSilently'
  <2>1. Waiting' = Waiting + 1 /\ Consumed' = Consumed /\ Counted' = Counted
    <3>1. Busy' = Busy
      BY DEF Busy
    <3>2. Waiting' = Waiting + 1
      <4>1. /\ Len(rawDataChan) \in Nat /\ Len(decodedChan) \in Nat /\ Len(hydroFrameChan) \in Nat
            /\ Cardinality(Busy) \in Nat
        BY AccountTypes
      <4> QED BY <3>1, <4>1 DEF Waiting, Busy
    <3>3. Consumed' = Consumed /\ Counted' = Counted
      BY DEF Consumed, Counted
    <3> QED BY <3>2, <3>3
  <2>2. Accounted' = Accounted + 1
    <3>1. Waiting \in Nat /\ Consumed \in Nat /\ Counted \in Nat
      BY AccountTypes
    <3> QED BY <2>1, <3>1 DEF Accounted
  <2>3. Lost' = Lost
    BY DEF Lost, CancelledOf
  <2> QED BY <2>2, <2>3, BooksKept
<1>11. Ordered'
  BY DEF IInv, Ordered
<1> QED BY <1>6, <1>8, <1>9, <1>10, <1>11 DEF IInv

\* Whatever a step does to the thread that makes it: it worked, or will work.
LEMMA WorkerMoves ==
  ASSUME IInv, NEW w \in Workers, NEW label \in {"loop", "work", "done"}, Goto(w, label),
         UNCHANGED ownerVars, pc[w] # "done"
  PROVE  /\ pc' \in [Threads -> {"loop", "select", "work", "done"}]
         /\ \A u \in Threads : pc'[u] = IF u = w THEN label ELSE pc[u]
         /\ Lost \subseteq Lost' /\ w \notin Lost /\ Ordered' /\ (cancelled' <=> cancelled)
         /\ label = "done" /\ CancelledOf(w) => w \in Lost' /\ cancelled
<1> USE ThreadFacts DEF ownerVars
<1>1. /\ pc' \in [Threads -> {"loop", "select", "work", "done"}]
      /\ \A u \in Threads : pc'[u] = IF u = w THEN label ELSE pc[u]
  BY DEF Goto, IInv, TypeOK
<1>2. Lost \subseteq Lost' /\ w \notin Lost
  BY <1>1 DEF Lost, CancelledOf
<1>3. label = "done" /\ CancelledOf(w) => w \in Lost' /\ cancelled
  BY <1>1 DEF Lost, CancelledOf, IInv, Ordered
<1> QED BY <1>1, <1>2, <1>3 DEF IInv, Ordered

LEMMA TakeRawIInv ==
  ASSUME IInv, NEW w \in Workers, TakeRaw(w)
  PROVE  IInv'
<1> DEFINE x == Head(rawDataChan)
<1>1. /\ pc[w] = "select" /\ rawDataChan # <<>> /\ hand' = [hand EXCEPT ![w] = x]
      /\ rawDataChan' = Tail(rawDataChan) /\ Goto(w, "work")
      /\ UNCHANGED <<decodedChan, hydroFrameChan, errorChan, ownerVars, pipeStats, solverStats, endVars>>
  BY DEF TakeRaw
<1>2. /\ x \in Item /\ x \in Raw /\ Raw' = Raw \ {x} /\ Distinct(rawDataChan')
      /\ rawDataChan' \in Seq(Item) /\ Len(rawDataChan') = Len(rawDataChan) - 1
  BY <1>1, Removed DEF Raw, IInv, OnceOnly, TypeOK
<1> HIDE DEF x
<1> USE <1>1, <1>2 DEF ownerVars, pipeStats, solverStats, endVars
<1>3. Queued = Raw \cup Decoded \cup Frames
  BY DEF Queued, Raw, Decoded, Frames
<1>4. x \notin Held
  BY <1>3 DEF IInv, OnceOnly, OnePlaceEach
<1>5. /\ hand' \in [Workers -> Item \cup {Nothing}]
      /\ \A v \in Workers : hand'[v] = IF v = w THEN x ELSE hand[v]
      /\ Held' = Held \cup {x}
      /\ Cardinality(Busy') = Cardinality(Busy) + 1
      /\ \A v, u \in Workers : v # u /\ hand'[v] # Nothing => hand'[v] # hand'[u]
  BY <1>4, HandFilled
<1>6. /\ pc' \in [Threads -> {"loop", "select", "work", "done"}]
      /\ \A u \in Threads : pc'[u] = IF u = w THEN "work" ELSE pc[u]
      /\ Lost \subseteq Lost' /\ Ordered'
  BY WorkerMoves
<1>7. TypeOK'
  <2>1. Len(rawDataChan') <= RawBufferSize
    BY PipelineAssumption, AccountTypes DEF IInv, TypeOK
  <2>2. \A v \in Workers : hand'[v] = Nothing <=> pc'[v] # "work"
    BY <1>5, <1>6, ThreadFacts DEF IInv, TypeOK
  <2> QED BY <1>5, <1>6, <2>1, <2>2 DEF IInv, TypeOK
<1>8. Decoded' = Decoded /\ Frames' = Frames /\ Queued' = Raw' \cup Decoded \cup Frames
  BY DEF Queued, Raw, Decoded, Frames
<1>9. OnceOnly'
  <2>1. Queued' = Queued \ {x}
    BY <1>3, <1>8 DEF IInv, OnceOnly
  <2>2. OnePlaceEach'
    BY <1>3, <1>5, <2>1 DEF IInv, OnceOnly, OnePlaceEach
  <2> QED BY <1>8, <2>2 DEF IInv, OnceOnly
<1>10. Numbered'
  BY <1>3, <1>5, <1>8 DEF IInv, Numbered
<1>11. NothingLostSilently'
  <2>1. Waiting' = Waiting
    BY <1>5, AccountTypes DEF Waiting, Busy
  <2>2. Consumed' = Consumed /\ Counted' = Counted
    BY DEF Consumed, Counted
  <2>3. Accounted' = Accounted + 0 /\ received' = received + 0
    <3>1. Accounted' = Accounted
      BY <2>1, <2>2 DEF Accounted
    <3>2. Accounted \in Nat /\ received \in Nat
      BY AccountTypes
    <3> QED BY <3>1, <3>2
  <2> QED BY <1>6, <2>3, BooksKept
<1> QED BY <1>6, <1>7, <1>9, <1>10, <1>11 DEF IInv

LEMMA TakeDecodedIInv ==
  ASSUME IInv, NEW w \in Workers, TakeDecoded(w)
  PROVE  IInv'
<1> DEFINE x == Head(decodedChan)
<1>1. /\ pc[w] = "select" /\ decodedChan # <<>> /\ hand' = [hand EXCEPT ![w] = x]
      /\ decodedChan' = Tail(decodedChan) /\ Goto(w, "work")
      /\ UNCHANGED <<rawDataChan, hydroFrameChan, errorChan, ownerVars, pipeStats, solverStats, endVars>>
  BY DEF TakeDecoded
<1>2. /\ x \in Item /\ x \in Decoded /\ Decoded' = Decoded \ {x} /\ Distinct(decodedChan')
      /\ decodedChan' \in Seq(Item) /\ Len(decodedChan') = Len(decodedChan) - 1
  BY <1>1, Removed DEF Decoded, IInv, OnceOnly, TypeOK
<1> HIDE DEF x
<1> USE <1>1, <1>2 DEF ownerVars, pipeStats, solverStats, endVars
<1>3. Queued = Raw \cup Decoded \cup Frames
  BY DEF Queued, Raw, Decoded, Frames
<1>4. x \notin Held
  BY <1>3 DEF IInv, OnceOnly, OnePlaceEach
<1>5. /\ hand' \in [Workers -> Item \cup {Nothing}]
      /\ \A v \in Workers : hand'[v] = IF v = w THEN x ELSE hand[v]
      /\ Held' = Held \cup {x}
      /\ Cardinality(Busy') = Cardinality(Busy) + 1
      /\ \A v, u \in Workers : v # u /\ hand'[v] # Nothing => hand'[v] # hand'[u]
  BY <1>4, HandFilled
<1>6. /\ pc' \in [Threads -> {"loop", "select", "work", "done"}]
      /\ \A u \in Threads : pc'[u] = IF u = w THEN "work" ELSE pc[u]
      /\ Lost \subseteq Lost' /\ Ordered'
  BY WorkerMoves
<1>7. TypeOK'
  <2>1. Len(decodedChan') <= ChannelSize
    BY PipelineAssumption, AccountTypes DEF IInv, TypeOK
  <2>2. \A v \in Workers : hand'[v] = Nothing <=> pc'[v] # "work"
    BY <1>5, <1>6, ThreadFacts DEF IInv, TypeOK
  <2> QED BY <1>5, <1>6, <2>1, <2>2 DEF IInv, TypeOK
<1>8. Raw' = Raw /\ Frames' = Frames /\ Queued' = Raw \cup Decoded' \cup Frames
  BY DEF Queued, Raw, Decoded, Frames
<1>9. OnceOnly'
  <2>1. Queued' = Queued \ {x}
    BY <1>3, <1>8 DEF IInv, OnceOnly
  <2>2. OnePlaceEach'
    BY <1>3, <1>5, <2>1 DEF IInv, OnceOnly, OnePlaceEach
  <2> QED BY <1>8, <2>2 DEF IInv, OnceOnly
<1>10. Numbered'
  BY <1>3, <1>5, <1>8 DEF IInv, Numbered
<1>11. NothingLostSilently'
  <2>1. Waiting' = Waiting
    BY <1>5, AccountTypes DEF Waiting, Busy
  <2>2. Consumed' = Consumed /\ Counted' = Counted
    BY DEF Consumed, Counted
  <2>3. Accounted' = Accounted + 0 /\ received' = received + 0
    <3>1. Accounted' = Accounted
      BY <2>1, <2>2 DEF Accounted
    <3>2. Accounted \in Nat /\ received \in Nat
      BY AccountTypes
    <3> QED BY <3>1, <3>2
  <2> QED BY <1>6, <2>3, BooksKept
<1> QED BY <1>6, <1>7, <1>9, <1>10, <1>11 DEF IInv

\* A worker drops its item and counts it, or gives it up because of the stop.
LEMMA GivenUpIInv ==
  ASSUME IInv, NEW w \in Workers, NEW label \in {"loop", "done"}, pc[w] = "work", PutDown(w, label),
         UNCHANGED <<rawDataChan, decodedChan, hydroFrameChan, ownerVars, received, assessed, written>>,
         Counters',
         \/ label = "loop" /\ Counted' = Counted + 1
         \/ label = "done" /\ CancelledOf(w) /\ Counted' = Counted
  PROVE  IInv'
<1>1. Goto(w, label) /\ hand' = [hand EXCEPT ![w] = Nothing]
  BY DEF PutDown
<1> USE <1>1 DEF ownerVars
<1>2. /\ hand' \in [Workers -> Item \cup {Nothing}] /\ hand[w] \in Item
      /\ \A v \in Workers : hand'[v] = IF v = w THEN Nothing ELSE hand[v]
      /\ hand[w] \in Held /\ Held' = Held \ {hand[w]}
      /\ Cardinality(Busy') = Cardinality(Busy) - 1
      /\ \A v, u \in Workers : v # u /\ hand'[v] # Nothing => hand'[v] # hand'[u]
  BY HandEmptied
<1>3. /\ pc' \in [Threads -> {"loop", "select", "work", "done"}]
      /\ \A u \in Threads : pc'[u] = IF u = w THEN label ELSE pc[u]
      /\ Lost \subseteq Lost' /\ w \notin Lost /\ Ordered' /\ (cancelled' <=> cancelled)
      /\ label = "done" /\ CancelledOf(w) => w \in Lost' /\ cancelled
  BY WorkerMoves
<1>4. TypeOK'
  <2>1. \A v \in Workers : hand'[v] = Nothing <=> pc'[v] # "work"
    BY <1>2, <1>3, ThreadFacts DEF IInv, TypeOK
  <2>2. HandsTyped'
    BY <1>2, <1>3, <2>1 DEF HandsTyped
  <2>3. ChansTyped' /\ RestTyped'
    BY DEF ChansTyped, RestTyped, IInv, TypeOK
  <2> QED BY <2>2, <2>3, TypeOKParts
<1>5. Raw' = Raw /\ Decoded' = Decoded /\ Frames' = Frames /\ Queued' = Queued
  BY DEF Queued, Raw, Decoded, Frames
<1>6. OnceOnly'
  <2>1. OnePlaceEach'
    BY <1>2, <1>5 DEF IInv, OnceOnly, OnePlaceEach
  <2>2. Distinct(rawDataChan)' /\ Distinct(decodedChan)' /\ Distinct(hydroFrameChan)'
    BY DEF IInv, OnceOnly, Distinct
  <2> QED BY <1>5, <2>1, <2>2 DEF IInv, OnceOnly
<1>7. Numbered'
  BY <1>2, <1>5 DEF IInv, Numbered
<1>8. NothingLostSilently'
  <2>1. Waiting' = Waiting - 1
    <3>1. /\ Len(rawDataChan) \in Nat /\ Len(decodedChan) \in Nat /\ Len(hydroFrameChan) \in Nat
          /\ Cardinality(Busy) \in Nat
      BY AccountTypes
    <3> QED BY <1>2, <3>1 DEF Waiting, Busy
  <2>2. Consumed' = Consumed
    BY DEF Consumed
  <2>3. /\ Waiting \in Nat /\ Consumed \in Nat /\ Counted \in Nat /\ received \in Nat
        /\ Accounted = Waiting + Consumed + Counted
    BY AccountTypes
  <2>4. CASE label = "loop" /\ Counted' = Counted + 1
    <3>1. Accounted' = Accounted + 0 /\ received' = received + 0
      BY <2>1, <2>2, <2>3, <2>4 DEF Accounted
    <3> QED BY <1>3, <3>1, BooksKept
  <2>5. CASE label = "done" /\ CancelledOf(w) /\ Counted' = Counted
    <3>1. Accounted' = Accounted - 1
      BY <2>1, <2>2, <2>3, <2>5 DEF Accounted
    <3> QED BY <1>3, <2>5, <3>1, BooksLoss
  <2> QED BY <2>4, <2>5
<1> QED BY <1>3, <1>4, <1>6, <1>7, <1>8 DEF IInv

\* A decoder hands its item on.
LEMMA DecodedIInv ==
  ASSUME IInv, NEW w \in Workers, pc[w] = "work", PutDown(w, "loop"), Len(decodedChan) < ChannelSize,
         decodedChan' = Append(decodedChan, hand[w]),
         UNCHANGED <<rawDataChan, hydroFrameChan, errorChan, ownerVars, pipeStats, solverStats, endVars>>
  PROVE  IInv'
<1> DEFINE x == hand[w]
<1>1. Goto(w, "loop") /\ hand' = [hand EXCEPT ![w] = Nothing]
  BY DEF PutDown
<1> USE <1>1 DEF ownerVars, pipeStats, solverStats, endVars
<1>2. /\ hand' \in [Workers -> Item \cup {Nothing}] /\ x \in Item
      /\ \A v \in Workers : hand'[v] = IF v = w THEN Nothing ELSE hand[v]
      /\ x \in Held /\ Held' = Held \ {x}
      /\ Cardinality(Busy') = Cardinality(Busy) - 1
      /\ \A v, u \in Workers : v # u /\ hand'[v] # Nothing => hand'[v] # hand'[u]
  BY HandEmptied
<1>3. /\ pc' \in [Threads -> {"loop", "select", "work", "done"}]
      /\ \A u \in Threads : pc'[u] = IF u = w THEN "loop" ELSE pc[u]
      /\ Lost \subseteq Lost' /\ Ordered' /\ (cancelled' <=> cancelled)
  BY WorkerMoves
<1>4. Queued = Raw \cup Decoded \cup Frames /\ x \notin Raw \cup Decoded \cup Frames
  BY <1>2 DEF Queued, Raw, Decoded, Frames, IInv, OnceOnly, OnePlaceEach
<1>5. /\ decodedChan' \in Seq(Item) /\ Len(decodedChan') = Len(decodedChan) + 1
      /\ Decoded' = Decoded \cup {x} /\ Distinct(decodedChan')
  BY <1>2, <1>4, Appended DEF Decoded, IInv, OnceOnly, TypeOK
<1> HIDE DEF x
<1>6. TypeOK'
  <2>1. Len(decodedChan') <= ChannelSize
    BY <1>5, PipelineAssumption, AccountTypes
  <2>2. \A v \in Workers : hand'[v] = Nothing <=> pc'[v] # "work"
    BY <1>2, <1>3, ThreadFacts DEF IInv, TypeOK
  <2> QED BY <1>2, <1>3, <1>5, <2>1, <2>2 DEF IInv, TypeOK
<1>7. Raw' = Raw /\ Frames' = Frames /\ Queued' = Queued \cup {x}
  BY <1>4, <1>5 DEF Queued, Raw, Decoded, Frames
<1>8. OnceOnly'
  <2>1. OnePlaceEach'
    BY <1>2, <1>7 DEF IInv, OnceOnly, OnePlaceEach
  <2>2. Raw' \cap Decoded' = {} /\ Raw' \cap Frames' = {} /\ Decoded' \cap Frames' = {}
    BY <1>4, <1>5, <1>7 DEF IInv, OnceOnly
  <2>3. Distinct(rawDataChan)' /\ Distinct(hydroFrameChan)'
    BY DEF IInv, OnceOnly, Distinct
  <2> QED BY <1>5, <2>1, <2>2, <2>3 DEF IInv, OnceOnly
<1>9. Numbered'
  BY <1>2, <1>7 DEF IInv, Numbered
<1>10. NothingLostSilently'
  <2>1. Waiting' = Waiting
    BY <1>2, <1>5, AccountTypes DEF Waiting, Busy
  <2>2. Consumed' = Consumed /\ Counted' = Counted
    BY DEF Consumed, Counted
  <2>3. Accounted' = Accounted + 0 /\ received' = received + 0
    <3>1. Accounted' = Accounted
      BY <2>1, <2>2 DEF Accounted
    <3>2. Accounted \in Nat /\ received \in Nat
      BY AccountTypes
    <3> QED BY <3>1, <3>2
  <2> QED BY <1>3, <2>3, BooksKept
<1> QED BY <1>3, <1>6, <1>8, <1>9, <1>10 DEF IInv

\* A solver hands its item on.
LEMMA SolvedIInv ==
  ASSUME IInv, NEW w \in Workers, pc[w] = "work", PutDown(w, "loop"), Len(hydroFrameChan) < ChannelSize,
         hydroFrameChan' = Append(hydroFrameChan, hand[w]), Counters', Counted' = Counted,
         UNCHANGED <<rawDataChan, decodedChan, ownerVars, endVars>>
  PROVE  IInv'
<1> DEFINE x == hand[w]
<1>1. Goto(w, "loop") /\ hand' = [hand EXCEPT ![w] = Nothing]
  BY DEF PutDown
<1> USE <1>1 DEF ownerVars, endVars
<1>2. /\ hand' \in [Workers -> Item \cup {Nothing}] /\ x \in Item
      /\ \A v \in Workers : hand'[v] = IF v = w THEN Nothing ELSE hand[v]
      /\ x \in Held /\ Held' = Held \ {x}
      /\ Cardinality(Busy') = Cardinality(Busy) - 1
      /\ \A v, u \in Workers : v # u /\ hand'[v] # Nothing => hand'[v] # hand'[u]
  BY HandEmptied
<1>3. /\ pc' \in [Threads -> {"loop", "select", "work", "done"}]
      /\ \A u \in Threads : pc'[u] = IF u = w THEN "loop" ELSE pc[u]
      /\ Lost \subseteq Lost' /\ Ordered' /\ (cancelled' <=> cancelled)
  BY WorkerMoves
<1>4. Queued = Raw \cup Decoded \cup Frames /\ x \notin Raw \cup Decoded \cup Frames
  BY <1>2 DEF Queued, Raw, Decoded, Frames, IInv, OnceOnly, OnePlaceEach
<1>5. /\ hydroFrameChan' \in Seq(Item) /\ Len(hydroFrameChan') = Len(hydroFrameChan) + 1
      /\ Frames' = Frames \cup {x} /\ Distinct(hydroFrameChan')
  BY <1>2, <1>4, Appended DEF Frames, IInv, OnceOnly, TypeOK
<1> HIDE DEF x
<1>6. TypeOK'
  <2>1. Len(hydroFrameChan') <= ChannelSize
    <3>1. ChannelSize \in Nat /\ Len(hydroFrameChan) \in Nat
      BY PipelineAssumption, AccountTypes
    <3> QED BY <1>5, <3>1
  <2>2. \A v \in Workers : hand'[v] = Nothing <=> pc'[v] # "work"
    BY <1>2, <1>3, ThreadFacts DEF IInv, TypeOK
  <2>3. ChansTyped'
    BY <1>5, <2>1 DEF ChansTyped, IInv, TypeOK
  <2>4. HandsTyped'
    BY <1>2, <1>3, <2>2 DEF HandsTyped
  <2>5. RestTyped'
    BY DEF RestTyped, IInv, TypeOK
  <2> QED BY <2>3, <2>4, <2>5, TypeOKParts
<1>7. Raw' = Raw /\ Decoded' = Decoded /\ Queued' = Queued \cup {x}
  BY <1>4, <1>5 DEF Queued, Raw, Decoded, Frames
<1>8. OnceOnly'
  <2>1. OnePlaceEach'
    BY <1>2, <1>7 DEF IInv, OnceOnly, OnePlaceEach
  <2>2. Raw' \cap Decoded' = {} /\ Raw' \cap Frames' = {} /\ Decoded' \cap Frames' = {}
    BY <1>4, <1>5, <1>7 DEF IInv, OnceOnly
  <2>3. Distinct(rawDataChan)' /\ Distinct(decodedChan)'
    BY DEF IInv, OnceOnly, Distinct
  <2> QED BY <1>5, <2>1, <2>2, <2>3 DEF IInv, OnceOnly
<1>9. Numbered'
  BY <1>2, <1>7 DEF IInv, Numbered
<1>10. NothingLostSilently'
  <2>1. Waiting' = Waiting
    <3>1. /\ Len(rawDataChan) \in Nat /\ Len(decodedChan) \in Nat /\ Len(hydroFrameChan) \in Nat
          /\ Cardinality(Busy) \in Nat
      BY AccountTypes
    <3> QED BY <1>2, <1>5, <3>1 DEF Waiting, Busy
  <2>2. Consumed' = Consumed
    BY DEF Consumed
  <2>3. Accounted' = Accounted + 0 /\ received' = received + 0
    <3>1. Accounted' = Accounted
      BY <2>1, <2>2 DEF Accounted
    <3>2. Accounted \in Nat /\ received \in Nat
      BY AccountTypes
    <3> QED BY <3>1, <3>2
  <2> QED BY <1>3, <2>3, BooksKept
<1> QED BY <1>3, <1>6, <1>8, <1>9, <1>10 DEF IInv

\* One drop or one error more is one item more that is counted.
LEMMA CountedOnce ==
  ASSUME IInv,
         \/ decodedDropped' = decodedDropped + 1 /\ UNCHANGED <<frameDropped, outputDropped, errDropped, errorDropped, errorChan, errorsHandled>>
         \/ frameDropped' = frameDropped + 1 /\ UNCHANGED <<decodedDropped, outputDropped, errDropped, errorDropped, errorChan, errorsHandled>>
         \/ outputDropped' = outputDropped + 1 /\ UNCHANGED <<decodedDropped, frameDropped, errDropped, errorDropped, errorChan, errorsHandled>>
         \/ errDropped' = errDropped + 1 /\ UNCHANGED <<decodedDropped, frameDropped, outputDropped, errorDropped, errorChan, errorsHandled>>
         \/ errorDropped' = errorDropped + 1 /\ UNCHANGED <<decodedDropped, frameDropped, outputDropped, errDropped, errorChan, errorsHandled>>
         \/ errorChan' = errorChan + 1 /\ UNCHANGED <<decodedDropped, frameDropped, outputDropped, errDropped, errorDropped, errorsHandled>>
  PROVE  Counted' = Counted + 1
<1>1. /\ decodedDropped \in Nat /\ frameDropped \in Nat /\ outputDropped \in Nat
      /\ errorsHandled \in Nat /\ errDropped \in Nat /\ errorDropped \in Nat /\ errorChan \in Nat
  BY AccountTypes
<1>2. CASE decodedDropped' = decodedDropped + 1 /\ UNCHANGED <<frameDropped, outputDropped, errDropped, errorDropped, errorChan, errorsHandled>>
  BY <1>1, <1>2 DEF Counted
<1>3. CASE frameDropped' = frameDropped + 1 /\ UNCHANGED <<decodedDropped, outputDropped, errDropped, errorDropped, errorChan, errorsHandled>>
  BY <1>1, <1>3 DEF Counted
<1>4. CASE outputDropped' = outputDropped + 1 /\ UNCHANGED <<decodedDropped, frameDropped, errDropped, errorDropped, errorChan, errorsHandled>>
  BY <1>1, <1>4 DEF Counted
<1>5. CASE errDropped' = errDropped + 1 /\ UNCHANGED <<decodedDropped, frameDropped, outputDropped, errorDropped, errorChan, errorsHandled>>
  BY <1>1, <1>5 DEF Counted
<1>6. CASE errorDropped' = errorDropped + 1 /\ UNCHANGED <<decodedDropped, frameDropped, outputDropped, errDropped, errorChan, errorsHandled>>
  BY <1>1, <1>6 DEF Counted
<1>7. CASE errorChan' = errorChan + 1 /\ UNCHANGED <<decodedDropped, frameDropped, outputDropped, errDropped, errorDropped, errorsHandled>>
  BY <1>1, <1>7 DEF Counted
<1> QED BY <1>2, <1>3, <1>4, <1>5, <1>6, <1>7

LEMMA CounterTypes ==
  ASSUME IInv
  PROVE  Counters /\ \A c \in Nat : c + 1 \in Nat
BY DEF IInv, TypeOK, Counters

LEMMA SendErrorIInv ==
  ASSUME IInv, NEW w \in Workers, pc[w] = "work", SendError(w)
  PROVE  IInv'
<1>1. /\ PutDown(w, "loop")
      /\ UNCHANGED <<rawDataChan, decodedChan, hydroFrameChan, ownerVars, decodedDropped, frameDropped,
                     solverStats, endVars>>
      /\ \/ errorChan < ErrorBufferSize /\ errorChan' = errorChan + 1 /\ errDropped' = errDropped
         \/ errorChan' = errorChan /\ errDropped' = errDropped + 1
  BY DEF SendError
<1> USE <1>1 DEF solverStats, endVars
<1>2. Counters'
  <2>1. /\ ErrorBufferSize \in Nat /\ errorChan \in Nat /\ errorChan \in 0 .. ErrorBufferSize
        /\ errDropped \in Nat
    BY PipelineAssumption, CounterTypes, AccountTypes DEF Counters
  <2>2. errorChan' \in 0 .. ErrorBufferSize /\ errDropped' \in Nat
    BY <2>1
  <2> QED BY <2>2, CounterTypes DEF Counters
<1>3. Counted' = Counted + 1
  BY CountedOnce
<1> QED BY <1>2, <1>3, GivenUpIInv

LEMMA DecodeIInv ==
  ASSUME IInv, NEW w \in Decoders, Decode(w)
  PROVE  IInv'
<1>1. pc[w] = "work" /\ w \in Workers /\ (CancelledOf(w) <=> cancelled)
  BY ThreadFacts DEF Decode, CancelledOf
<1>2. CASE SendError(w)
  BY <1>1, <1>2, SendErrorIInv
<1>3. CASE /\ Offer(w, decodedChan, cancelled, decodedDropped)
           /\ UNCHANGED <<rawDataChan, hydroFrameChan, errorChan, ownerVars, frameDropped, errDropped,
                          solverStats, endVars>>
  <2> USE <1>3 DEF pipeStats
  <2>1. CASE /\ Len(decodedChan) < ChannelSize /\ decodedChan' = Append(decodedChan, hand[w])
             /\ PutDown(w, "loop") /\ UNCHANGED decodedDropped
    BY <1>1, <2>1, DecodedIInv
  <2>2. CASE cancelled /\ PutDown(w, "done") /\ UNCHANGED <<decodedChan, decodedDropped>>
    <3>1. Counters' /\ Counted' = Counted
      BY <2>2, CounterTypes DEF Counters, Counted, solverStats, endVars
    <3> QED BY <1>1, <2>2, <3>1, GivenUpIInv DEF endVars
  <2>3. CASE decodedDropped' = decodedDropped + 1 /\ PutDown(w, "loop") /\ UNCHANGED decodedChan
    <3>1. Counters'
      BY <2>3, CounterTypes DEF Counters, solverStats, endVars
    <3>2. Counted' = Counted + 1
      BY <2>3, CountedOnce DEF solverStats, endVars
    <3> QED BY <1>1, <2>3, <3>1, <3>2, GivenUpIInv DEF endVars
  <2> QED BY <2>1, <2>2, <2>3 DEF Offer
<1> QED BY <1>2, <1>3 DEF Decode

LEMMA SolveIInv ==
  ASSUME IInv, NEW w \in Solvers, Solve(w)
  PROVE  IInv'
<1>1. pc[w] = "work" /\ w \in Workers /\ (CancelledOf(w) <=> cancelled)
  BY ThreadFacts DEF Solve, CancelledOf
<1>2. CASE SendError(w)
  BY <1>1, <1>2, SendErrorIInv
<1>3. CASE /\ Offer(w, hydroFrameChan, cancelled, frameDropped)
           /\ UNCHANGED <<rawDataChan, decodedChan, errorChan, ownerVars, decodedDropped, errDropped,
                          solverStats, endVars>>
  <2> USE <1>3 DEF solverStats, endVars
  <2>1. CASE /\ Len(hydroFrameChan) < ChannelSize /\ hydroFrameChan' = Append(hydroFrameChan, hand[w])
             /\ PutDown(w, "loop") /\ UNCHANGED frameDropped
    <3>1. Counters' /\ Counted' = Counted
      BY <2>1, CounterTypes DEF Counters, Counted
    <3> QED BY <1>1, <2>1, <3>1, SolvedIInv
  <2>2. CASE cancelled /\ PutDown(w, "done") /\ UNCHANGED <<hydroFrameChan, frameDropped>>
    <3>1. Counters' /\ Counted' = Counted
      BY <2>2, CounterTypes DEF Counters, Counted
    <3> QED BY <1>1, <2>2, <3>1, GivenUpIInv
  <2>3. CASE frameDropped' = frameDropped + 1 /\ PutDown(w, "loop") /\ UNCHANGED hydroFrameChan
    <3>1. Counters'
      BY <2>3, CounterTypes DEF Counters
    <3>2. Counted' = Counted + 1
      BY <2>3, CountedOnce
    <3> QED BY <1>1, <2>3, <3>1, <3>2, GivenUpIInv
  <2> QED BY <2>1, <2>2, <2>3 DEF Offer
<1> QED BY <1>2, <1>3 DEF Solve

LEMMA LoopFailsIInv ==
  ASSUME IInv, LoopSolveFails
  PROVE  IInv'
<1> DEFINE w == SolverLoop
<1>1. /\ pc[w] = "work" /\ w \in Workers /\ (CancelledOf(w) <=> solverCancelled)
      /\ failedFrames' = failedFrames + 1
      /\ UNCHANGED <<rawDataChan, decodedChan, hydroFrameChan, ownerVars, pipeStats, outputDropped,
                     totalFrames, endVars>>
  BY ThreadFacts DEF LoopSolveFails, CancelledOf
<1>2. failedFrames' \in Nat
  BY <1>1, CounterTypes DEF Counters
<1> USE <1>1, <1>2 DEF pipeStats, endVars
<1>3. CASE /\ errorChan < ErrorBufferSize /\ errorChan' = errorChan + 1 /\ PutDown(w, "loop")
           /\ UNCHANGED errorDropped
  <2>1. Counters'
    <3>1. ErrorBufferSize \in Nat /\ errorChan \in Nat
      BY PipelineAssumption, AccountTypes
    <3>2. errorChan' \in 0 .. ErrorBufferSize
      BY <1>3, <3>1
    <3> QED BY <1>3, <3>2, CounterTypes DEF Counters
  <2>2. Counted' = Counted + 1
    BY <1>3, CountedOnce
  <2> QED BY <1>3, <2>1, <2>2, GivenUpIInv
<1>4. CASE solverCancelled /\ PutDown(w, "done") /\ UNCHANGED <<errorChan, errorDropped>>
  <2>1. Counters' /\ Counted' = Counted
    BY <1>4, CounterTypes DEF Counters, Counted
  <2> QED BY <1>4, <2>1, GivenUpIInv
<1>5. CASE errorDropped' = errorDropped + 1 /\ PutDown(w, "loop") /\ UNCHANGED errorChan
  <2>1. Counters'
    BY <1>5, CounterTypes DEF Counters
  <2>2. Counted' = Counted + 1
    BY <1>5, CountedOnce
  <2> QED BY <1>5, <2>1, <2>2, GivenUpIInv
<1> QED BY <1>3, <1>4, <1>5 DEF LoopSolveFails

LEMMA LoopSolvesIInv ==
  ASSUME IInv, LoopSolves
  PROVE  IInv'
<1> DEFINE w == SolverLoop
<1>1. /\ pc[w] = "work" /\ w \in Workers /\ (CancelledOf(w) <=> solverCancelled)
      /\ totalFrames' = totalFrames + 1
      /\ Offer(w, hydroFrameChan, solverCancelled, outputDropped)
      /\ UNCHANGED <<rawDataChan, decodedChan, errorChan, ownerVars, pipeStats, errorDropped, failedFrames,
                     endVars>>
  BY ThreadFacts DEF LoopSolves, CancelledOf
<1>2. totalFrames' \in Nat
  BY <1>1, CounterTypes DEF Counters
<1> USE <1>1, <1>2 DEF pipeStats, endVars
<1>3. CASE /\ Len(hydroFrameChan) < ChannelSize /\ hydroFrameChan' = Append(hydroFrameChan, hand[w])
           /\ PutDown(w, "loop") /\ UNCHANGED outputDropped
  <2>1. Counters' /\ Counted' = Counted
    BY <1>3, CounterTypes DEF Counters, Counted
  <2> QED BY <1>3, <2>1, SolvedIInv
<1>4. CASE solverCancelled /\ PutDown(w, "done") /\ UNCHANGED <<hydroFrameChan, outputDropped>>
  <2>1. Counters' /\ Counted' = Counted
    BY <1>4, CounterTypes DEF Counters, Counted
  <2> QED BY <1>4, <2>1, GivenUpIInv
<1>5. CASE outputDropped' = outputDropped + 1 /\ PutDown(w, "loop") /\ UNCHANGED hydroFrameChan
  <2>1. Counters'
    BY <1>5, CounterTypes DEF Counters
  <2>2. Counted' = Counted + 1
    BY <1>5, CountedOnce
  <2> QED BY <1>5, <2>1, <2>2, GivenUpIInv
<1> QED BY <1>3, <1>4, <1>5 DEF Offer

LEMMA ConsumeIInv ==
  ASSUME IInv, Consume
  PROVE  IInv'
<1> DEFINE x == Head(hydroFrameChan)
<1>1. /\ hydroFrameChan # <<>> /\ hydroFrameChan' = Tail(hydroFrameChan)
      /\ \/ assessed' = assessed \cup {x} /\ UNCHANGED written
         \/ written' = written \cup {x} /\ UNCHANGED assessed
      /\ UNCHANGED <<rawDataChan, decodedChan, errorChan, ownerVars, pc, hand, pipeStats, solverStats,
                     received, errorsHandled>>
  BY DEF Consume
<1>2. /\ x \in Item /\ x \in Frames /\ Frames' = Frames \ {x} /\ Distinct(hydroFrameChan')
      /\ hydroFrameChan' \in Seq(Item) /\ Len(hydroFrameChan') = Len(hydroFrameChan) - 1
  BY <1>1, Removed DEF Frames, IInv, OnceOnly, TypeOK
<1> HIDE DEF x
<1> USE <1>1, <1>2 DEF ownerVars, pipeStats, solverStats
<1>3. Queued = Raw \cup Decoded \cup Frames
  BY DEF Queued, Raw, Decoded, Frames
<1>4. x \notin Raw /\ x \notin Decoded /\ x \notin Held /\ x \notin assessed /\ x \notin written
  BY <1>3 DEF IInv, OnceOnly, OnePlaceEach
<1>5. /\ Raw' = Raw /\ Decoded' = Decoded /\ Held' = Held /\ Busy' = Busy
      /\ Queued' = Raw \cup Decoded \cup Frames'
  BY DEF Queued, Raw, Decoded, Frames, Held, Busy
<1>6. Queued' = Queued \ {x}
  BY <1>3, <1>4, <1>5
<1>7. TypeOK'
  <2>1. Len(hydroFrameChan') <= ChannelSize
    BY PipelineAssumption, AccountTypes DEF IInv, TypeOK
  <2>2. assessed' \subseteq Item /\ written' \subseteq Item
    BY DEF IInv, TypeOK
  <2> QED BY <2>1, <2>2 DEF IInv, TypeOK
<1>8. OnceOnly'
  <2>1. OnePlaceEach'
    BY <1>4, <1>5, <1>6 DEF IInv, OnceOnly, OnePlaceEach
  <2>2. Distinct(rawDataChan)' /\ Distinct(decodedChan)'
    BY DEF IInv, OnceOnly, Distinct
  <2> QED BY <1>5, <2>1, <2>2 DEF IInv, OnceOnly
<1>9. Numbered'
  BY <1>3, <1>5, <1>6 DEF IInv, Numbered
<1>10. /\ IsFiniteSet(assessed') /\ IsFiniteSet(written') /\ Consumed' = Consumed + 1
  <2>1. IsFiniteSet(assessed) /\ IsFiniteSet(written)
    BY DEF IInv
  <2>2. Cardinality(assessed) \in Nat /\ Cardinality(written) \in Nat
    BY AccountTypes
  <2>3. ASSUME NEW taken, IsFiniteSet(taken), x \notin taken
        PROVE  IsFiniteSet(taken \cup {x}) /\ Cardinality(taken \cup {x}) = Cardinality(taken) + 1
    BY <2>3, FS_AddElement
  <2>4. CASE assessed' = assessed \cup {x} /\ UNCHANGED written
    <3>1. IsFiniteSet(assessed') /\ Cardinality(assessed') = Cardinality(assessed) + 1
      BY <1>4, <2>1, <2>3, <2>4
    <3>2. Cardinality(written') = Cardinality(written)
      BY <2>4
    <3> QED BY <2>1, <2>2, <3>1, <3>2, <2>4 DEF Consumed
  <2>5. CASE written' = written \cup {x} /\ UNCHANGED assessed
    <3>1. IsFiniteSet(written') /\ Cardinality(written') = Cardinality(written) + 1
      BY <1>4, <2>1, <2>3, <2>5
    <3>2. Cardinality(assessed') = Cardinality(assessed)
      BY <2>5
    <3> QED BY <2>1, <2>2, <3>1, <3>2, <2>5 DEF Consumed
  <2> QED BY <2>4, <2>5
<1>11. NothingLostSilently'
  <2>1. Waiting' = Waiting - 1
    BY <1>5, AccountTypes DEF Waiting, Busy
  <2>2. Counted' = Counted
    BY DEF Counted
  <2>3. Waiting \in Nat /\ Consumed \in Nat /\ Counted \in Nat /\ received \in Nat
    BY AccountTypes
  <2>4. Accounted' = Accounted + 0 /\ received' = received + 0
    BY <1>10, <2>1, <2>2, <2>3 DEF Accounted
  <2>5. Lost' = Lost
    BY DEF Lost, CancelledOf
  <2> QED BY <2>4, <2>5, BooksKept
<1>12. Ordered'
  BY DEF IInv, Ordered
<1> QED BY <1>7, <1>8, <1>9, <1>10, <1>11, <1>12 DEF IInv

------------------------------------------------------------------------------
LEMMA NextIInv == IInv /\ [Next]_vars => IInv'
<1> SUFFICES ASSUME IInv, [Next]_vars PROVE IInv'
  OBVIOUS
<1> USE ThreadFacts
<1>1. ASSUME NEW kind \in Kinds, Arrive(kind) PROVE IInv'
  BY <1>1, ArriveIInv
<1>2. ASSUME NEW w \in Decoders, DecoderStep(w) PROVE IInv'
  BY <1>2, LoopIInv, TakeRawIInv, DecodeIInv DEF DecoderStep
<1>3. ASSUME NEW w \in Solvers, SolverStep(w) PROVE IInv'
  BY <1>3, LoopIInv, TakeDecodedIInv, SolveIInv DEF SolverStep
<1>4. CASE SolverLoopStep
  BY <1>4, LoopIInv, TakeDecodedIInv, LoopFailsIInv, LoopSolvesIInv DEF SolverLoopStep
<1>5. CASE ErrorHandlerStep
  BY <1>5, LoopIInv, ErrorIInv DEF ErrorHandlerStep
<1>6. CASE Consume \/ handleErrors
  BY <1>6, ConsumeIInv, ErrorIInv
<1>7. CASE PipelineClearRunning \/ ContinueStop
  BY <1>7, StopIInv
<1>8. CASE UNCHANGED vars
  <2> USE <1>8 DEF vars, chanVars, ownerVars, pipeStats, solverStats, endVars
  <2>1. TypeOK'
    BY DEF IInv, TypeOK
  <2>2. Ordered' /\ Counted' = Counted /\ Lost' = Lost
    BY DEF IInv, Ordered, Counted, Lost, CancelledOf
  <2> QED BY <2>1, <2>2, QuietIInv
<1> QED BY <1>1, <1>2, <1>3, <1>4, <1>5, <1>6, <1>7, <1>8 DEF Next

LEMMA IInvHolds == Spec => []IInv
BY InitIInv, NextIInv, PTL DEF Spec

\* The channels stay within their capacity, and a worker that works holds an
\* item (pipeline.go:111-199, solver.go:124-180).
THEOREM PipelineTypeCorrect == Spec => []TypeOK
<1>1. IInv => TypeOK
  BY DEF IInv
<1> QED BY <1>1, IInvHolds, PTL

\* Any number of workers, in any order, lose nothing that is not counted while
\* the program runs, and at most one item each when it stops
\* (pipeline.go:111-230, solver.go:124-180).
THEOREM EverythingAccounted == Spec => []NothingLostSilently
<1>1. IInv => NothingLostSilently
  BY DEF IInv
<1> QED BY <1>1, IInvHolds, PTL

\* Competing receivers never process one packet twice (pipeline.go:111-199,
\* solver.go:124-180, cmd/gateway/main.go:110-139).
THEOREM OnePlaceOnly == Spec => []OnePlaceEach
<1>1. IInv => OnePlaceEach
  BY DEF IInv, OnceOnly
<1> QED BY <1>1, IInvHolds, PTL
==============================================================================
