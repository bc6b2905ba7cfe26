# Verification of the thermal-recovery flow gateway

TLA+ models of the gateway program in this repository, the TLC runs that check
them, and TLAPS proofs of their most important properties. Paths below are
relative to the repository's root.

## 1. The system

The program collects Modbus frames from wells, computes a two-phase flow from
each, writes the results out, and watches the pressure: when it is about to
exceed a safety limit, the program shuts or throttles the well's choke valve by
sending a Modbus write of its own.

```
 TCPGateway ──┐
              ├─> rawDataChan ─> decoder workers ─> decodedChan ─┬─> solver workers ─┐
 SerialGateway┘                                                  └─> solver's loop ──┴─> frameChan
                                                                                          │
             errors ─> errorChan ─> pipeline.errorHandler OR main.handleErrors            ├─> FrameOutput
                                                                                          └─> ChokeInterceptor
 ChokeInterceptor: SafetyController.Assess ─> OverrideSender ─> TCP ─> valve
                   └─> chokeChan ─> main.chokeMonitor
```

A Go channel gives a value to one receiver. Where the picture says OR, two
goroutines receive from one channel.

### Components

| Component | State | Operations | What makes it hard | What makes it correct |
|---|---|---|---|---|
| Safety controller, `internal/choke/controller.go` | sample buffer, last assessment, two counters, all under a mutex | `Assess`, `Reset`, getters | regression over irregular instants, equal instants, a trimmed buffer, four levels that depend on two estimates | an estimate is a slope the pressure had; no override without cause; a breach is never missed on a steady ramp |
| Valve sizing, `valve.go` | none | `ComputeRequiredOpening`, `SolveChokeFlow` | early returns, clamping | result in [0.001, 1] |
| Override packets, `modbus_override.go` | sequence number | `Build...Override` | encoding | register value is the opening in permille |
| Override sender, `sender.go` | `running`, context, queue, result channel, counters | `Start`, `Stop`, `Send`, `EmergencySend`, `sendLoop` | retries on fresh connections, timeouts taken as success, callers beside the loop, close against send | results and counters tell the truth; Stop ends the loop |
| Choke interceptor, `interceptor.go` | `running`, context, `currentOpening`, counters | `Start`, `Stop`, `processLoop`, `processFrame` | blocking send inside the loop, late packets, failed sends | an override reported as sent is in force; a lasting threat shuts the valve |
| Pipeline, `internal/pipeline/pipeline.go` | channels, `running`, context, drop counters | workers, error handler, `Stop` | many workers, full channels, shutdown | nothing is lost uncounted, nothing is processed twice, everything is worked off |
| Drift-flux solver, `internal/driftflux/solver.go` | `running`, context, statistics | `Solve`, `processLoop`, `Stop` | rival of the solver workers for the same input | statistics are complete |
| TCP gateway, `internal/gateway/tcp.go` | listener, connection map, `WaitGroup` | `Start`, accept loop, handlers, cleanup, `Stop` | check-then-insert, reused addresses, late accepts, waiting | the limit holds; Stop closes everything and does not crash |
| Serial gateway, `internal/gateway/serial.go` | port, frame buffer, counters | `Start`, `readLoop`, `Write`, `Stop` | cutting by silence, by size, by overflow and by errors; a port set to nil under its users | no byte lost or doubled; a packet is a frame when the line is read in time |
| Frame output, `internal/frame/output.go` | file, CSV writer, listener, clients | `Start`, accept loop, monitors, `broadcast`, flush loop, `Stop` | three goroutines that remove the same client, writes without a deadline, a writer shared without a lock | every client gets every frame, in order, or is removed; `Stop` ends everything |
| Decoder, `internal/protocol/decoder.go` | counters | `DecodeModbusRTU`, `ExtractSensorData`, `StreamDecode` | packets that are pieces of frames, several frames, or damaged | what leaves the decoder was sent by a sensor |
| CRC-16, `internal/crc/crc16.go` | a table | `CRC16Modbus`, `ValidateCRC16`, `AppendCRC16` | byte order; table against definition | accepts what is not damaged, and only that |
| Steam properties, configuration, logger, panic recovery | a file, a counter | | | |
| Application, `cmd/gateway/main.go` | the components | `init`, `start`, `stop`, statistics | order of stop | what is stopped last has nobody left sending to it |

The hazards these components are exposed to are listed in `PROJECT.json`, each
at its line and with the properties that would notice it.

## 2. The modules

```
 ThreatDecisions ─┬─ SafetyAssessment ── SafetyController ─┬─ MCSafetyController
                  │                         │              └─ Backlog ─┬─ MCBacklog
                  ├─ AbstractController <───┘ (refinement)             └─ SafetyControllerProofs
                  └─ ChokeInterceptor ─┬─ MCChokeInterceptor
                         │ INSTANCE    └─ ChokeInterceptorProofs
                    OverrideSender ─┬─ MCOverrideSender
                         │          └─ OverrideSenderProofs
                    AbstractSender (refinement)

 SerialGateway ─┐
 CRC16 ─ Decoder┴─ SerialIngest ─┬─ MCSerialIngest
                                 └─ SerialIngestProofs

 AbstractBroadcast <── FrameOutput ─┬─ MCFrameOutput
        (refinement)                └─ FrameOutputProofs

 Pipeline ─┬─ MCPipeline            TCPGateway ─┬─ MCTCPGateway
           └─ PipelineProofs                    └─ TCPGatewayProofs

 Induction ── SafetyControllerProofs, SerialIngestProofs
```

* **ThreatDecisions**: the four levels and the decisions an assessment may take.
  The interceptor's model knows nothing else of the controller.
* **AbstractController**: what the controller promises: a pressure at the limit
  is answered with a lockdown and nothing else; each override is counted once;
  `Reset` clears the counters.
* **SafetyAssessment**: the decision switch of `Assess` with
  `detectNonlinearSurge`, `predictPressure` and the time to breach, over
  fractions with cross-multiplied comparisons, so exact and without rounding.
  Pressures are in MPa, instants in ticks of 20 ms, which makes every default
  threshold a whole number (limit 35 MPa, horizon 5 ticks, `MaxDerivative` 2 and
  `SurgeThreshold` 1 MPa per tick). Openings are in permille, the unit of the
  valve's register. The gas dynamics of `ComputeRequiredOpening` are abstracted
  to a demand, an input of the action; its early returns and its clamp are kept.
* **SafetyController**: the buffer and the two estimators. `Assess` and `Reset`
  hold a mutex and are one action each. `history`, the untrimmed list of the
  samples, is not in the code; properties compare the buffer with it.
* **AbstractSender**: what the sender promises its callers. What `Send` accepted is
  sent by the loop, in that order and once each; a call writes at most one
  copy an attempt, may abandon an attempt before or after the write, and is
  reported as sent only if the attempt it stopped at has written, as failed only when
  all `RetryCount + 1` were abandoned; each report is counted. A promise of delivery
  would be wrong: a packet reported as sent may be lost, one reported as failed may
  arrive, several times.
* **OverrideSender**: one action per blocking call of a goroutine: dial, write,
  read, channel operation, counter. `wire` counts, for each packet, the copies
  written and not yet read by the valve; being a bag, it delivers in any order,
  as separate connections do. `begun` and `writes` are not in the code. `CallOf`
  maps a thread's program counter and local variables to its call in
  AbstractSender; the attempt that ends at `count` without success is abandoned
  there, although the loop variable is not incremented.
* **ChokeInterceptor**: the processing loop, with the sender as an `INSTANCE`
  (the interceptor is its only caller), a register for the valve and a bounded
  number of network faults. Every decision that asks for an override is at least
  Critical, so `EmergencySend` is always taken and the sender's queue remains
  empty; the branch with `Send` is dead code and has no action. `unreliable`
  records that a packet was lost or was still on its way when its attempt ended.
* **Pipeline**: workers, the solver's own loop, the two consumers, the two
  readers of the error channel and the order in which `main` stops them. An item
  has one of four kinds: garbled, cold (refused by `Solve`), hot (at the limit),
  calm.
* **TCPGateway**: accept loop, handlers, map and `Stop`, followed by the closing
  of the pipeline's channel, at the grain of single accesses to shared state.
  `cleanupConnection` is one operation that handlers and `Stop` run, in three
  steps. The waiter is the goroutine that calls `wg.Wait`; when the counter has
  reached zero it is woken, and it panics if the counter has been raised before
  it runs.
* **Backlog** composes the decoder's stamping, the solver workers, the frame
  channel and SafetyController. The decoder stamps a frame and the solver keeps
  the stamp, but `Assess` takes the time anew; the workers overtake each other
  and frames wait in the channel while an override is sent. `stamps` remembers
  the stamps of the controller's samples and is not in the code.
* **SerialGateway**: one action per statement of `readLoop` that touches shared
  state, and `Stop` with the closing of the pipeline's channel. The line is
  external: bursts of the frames' bytes, noise, pauses. Time appears only as
  `quiet` (more than `idleTimeout` since the last read) and `pause` (the same for
  the line itself). `sent`, `dispatched` and `untimely` are not in the code.
* **CRC16**: the checksum, its table, validation and appending. A word is the
  set of its bits, so that the prover can reason about XOR and shifts.
* **Decoder**: what `DecodeModbusRTU` and `ExtractSensorData` make of a packet
  and which counters it raises, as operators over packets; **SerialIngest** joins
  it to the gateway through `rawData`, as one decoder worker does.
* **Induction** models nothing. It holds induction over the naturals and over
  intervals, and the existence of recursively defined functions, stated about sets
  and functions so that the provers can apply them.
* **AbstractBroadcast**: what the output promises its clients. A client that has
  joined receives every frame from then on, once and in order, until it leaves;
  no frame starts before every member has the previous one; there are never more
  members than the limit.
* **FrameOutput**: the five kinds of goroutine of `output.go`. A client's write
  blocks if the client has stopped reading, as there is no deadline;
  `cleanupClient` is one operation in two steps that monitors, `broadcast` and
  `Stop` run. A line of the file is `RowLength` numbered pieces, of equal number
  for each frame, which is an abstraction. CSV rows go through the `bufio.Writer` of
  4096 bytes, about twenty rows, under `csv.NewWriter` (`output.go:170`); it is modelled
  with its buffer of `BufferSize` pieces, its position and its lasting error. Three
  threads use it without a lock (`Writers`): `processLoop`, which flushes it itself
  when it is full (line 511), the flush loop (line 601), and `Stop` after a time-out
  (line 199). Every access to its memory and every write to the file is a step
  of its own. The model keeps two facts of the code that are easily overlooked: in
  CSV format clients get nothing (`serializeCSV` returns no data), and a file that
  cannot be written is closed for good.

  Since a flush writes the buffer before it empties it, two flushes at once, or a
  flush beside a row, can put rows into the file twice, in pieces or not at all, or
  end with `io.ErrShortWrite`, after which the writer refuses every row. The
  history variable `raced` records that two threads have been in the writer at
  once, and what is said of the file is said of behaviours in which they have not
  been. With a ticker and frames at a high rate that is a matter of luck; the
  repository promises nothing about it, so it is described here and is not a finding.

Actions have the names of the functions they model, or `Function` + what the
step does. `PROJECT.json` maps each definition to its lines. A definition whose
name ends in `_Faulty...` is a plausible bug in the definition after it. No
specification uses it; each one, put in place of the original, makes TLC find
the property it is meant for violated.

## 3. The runs

Deadlock is checked for the controller; the other systems stop for good after
`Stop`, or when their bounds are used up, so there `CHECK_DEADLOCK FALSE` is set.

| Run | Bounds | What it shows |
|---|---|---|
| controller | window 3, buffer 3, 6 pressures, gaps 0, 1, 2 ticks, 4 assessments between resets | estimates, decision switch, refinement of AbstractController |
| backlog | 3 frames, 3 pressures, 2 solver workers, channel of 2, 8 instants | what a lockdown below the limit can rest on |
| sender | 1 caller beside the loop, 1 packet, queue 2, results 1, 1 retry, counters modulo 2 | refinement of AbstractSender, counters under concurrency, service of the queue, end of the loop, who may panic |
| interceptor | 1 throttled opening, 1 retry, 2 faults, 2 copies in flight | interceptor's belief against the valve; a lasting threat shuts the valve; Stop ends the loop |
| reported_opening | same | *violated*: finding 1 |
| pipeline | 1 decoder, 1 solver worker, the solver's loop, channels of 1, 2 items | accounting and uniqueness, progress, end of the workers |
| hot_frames | same | *violated*: finding 2 |
| tcp | 2 connections, 2 addresses, limit 1, back-off after 1 error | limit, Stop, panics, closing after Stop, accepting until Stop |
| tcp_limit | 4 connections, 3 addresses, limit 2 | *violated*: finding 3 |
| tcp_crash | 2 connections, 2 addresses | *violated*: finding 4 |
| serial | 2 frames of 6 bytes, bursts of 3, buffer 10, dispatch at 8, channel of 1, 1 damaged byte, 1 failing call | framing, decoding, what noise and delay can do |
| output | 2 clients, limit 1, 2 frames of 2 pieces, CSV buffer of 3 pieces, 1 failing write | refinement of AbstractBroadcast, file, progress, Stop |

Why the bounds suffice:

* Controller: with four assessments and a buffer of three, the buffer is filled
  and trimmed. The pressures 20, 25, 28, 29, 30, 36 reach every level: 36 is at
  the limit, 30 above the warning level, 20-25-30 a ramp that breaches, 25-29-28
  a surge that slows down. A gap of 0 gives two samples of one instant.
* Backlog: three frames fill the window once. 26-30-34 is a rise that is not
  steep when the frames are two ticks and more apart, and is one when a backlog is
  assessed at once. Each of the three causes named in the property is needed:
  without any one of them the property is violated.
* Sender: a queue of two places is empty, in use and full within three calls; one
  retry has a first, a last and no further attempt; the caller and the loop are
  in `sendPacket` at a time. Counters modulo 2 wrap. The proofs below cover any
  number of callers, retries and places.
* Interceptor: two faults make a send fail or an old packet arrive after a new
  one. Two copies in flight is what one retry can leave. The proofs cover any number
  of faults, retries and copies.
* Pipeline: with single places every channel is full behind one item and drops
  the other; two items keep both rivals for `decodedChan`, which are different
  code, busy at a time. The proofs cover any number of workers, places and items.
* TCP: with limit 1 and two connections the limit is reached and exceeded, and an
  address comes back; the proofs cover any number of connections, addresses and any
  limit. Finding 3 needs a fourth connection.
* Serial: two frames can be cut, glued, damaged and lost in either order. The
  second does not fit in the buffer behind the first (10 bytes), and 8 of its bytes
  are enough for a cut by size; a channel of one place is full behind one packet.
* Output: one client goes away and the other stops reading, and with room for
  one, one of them is refused or comes after the other. The three configurations
  are: clients without a file, a JSON file, a CSV file with its flush loop; the
  parts meet only in `processLoop`, which works on them one after the other. Stop's
  ten seconds run out in the two with a file (`slow`), where the handling of the
  file is what may go wrong then. A buffer of three pieces is full in the middle of
  the second row, so `processLoop` flushes it there, alone or beside the ticker's
  flush, and the end of the row is left for `Stop`. With room for one client TLC
  never has two members in one list; that, and any number of clients, frames, pieces and
  places in the buffer, is covered by the proofs below only.

### Properties

Each module with runs of its own has one type invariant. The others:

* *SlopeWithinChords*: the first derivative lies between the least and the
  greatest slope of neighbouring samples. *TrimmingInvisible*: an unbounded
  buffer would give the same estimates. *RampDecidedExactly*: on a steady ramp,
  lockdown if and only if the ramp is a surge that reaches the limit within the
  horizon. *CriticalOnlyWhenDecelerating*: throttling is reached only when the
  second derivative is negative, since every other breach within the horizon is
  also predicted at the limit and locks the valve down. *OverrideNeedsSamples*:
  nothing below the limit is decided from samples before a `Reset`.
  *PromiseKept*: refinement of AbstractController.
* *LockdownHasCause* (Backlog): a lockdown below the limit rests on a rise that
  was steep when it was measured, on frames in the wrong order, or on one that
  waited less long than its predecessor. The last two are artefacts: the
  controller's clock is not the decoder's.
* *SenderKeepsPromise* (OverrideSender): refinement of AbstractSender, so a result
  says what happened on the wire, for whichever of caller and loop made the call. With
  one packet the run cannot see the order of the queue; the theorem is about any
  number. *EveryCallCounted*: each call is counted once. *OnlyRacingSendPanics*: only
  a `Send` that overlaps `Stop` can panic. *QueueServed*: while nobody stops the
  sender, what is queued is sent; after `Stop` the loop ends.
* *SentMeansInForce*: as long as `unreliable` is false, an override reported as
  sent is what the register holds. *LockdownHolds*: only a throttling override
  reopens a valve that was shut, however many calmer frames follow.
  *PersistentThreatShutsValve* and *StopEndsLoop* are liveness properties.
* *NothingLostSilently*, *OnePlaceEach*, *EverythingWorkedOff*,
  *StopEndsWorkers* (Pipeline).
* *LimitKept*, *StopLeavesNoReader*, *PanicNeedsTimeout*, *AllClosedAfterStop*,
  *AcceptingGoesOn* (TCPGateway). The first two are stated for behaviours in
  which no map entry has been overwritten; finding 3 shows what happens
  otherwise.
* *Conserved*: packets, buffers and line together are what was sent. Whether
  what is left in `frameBuffer` at `Stop` is handed on is not part of it.
  *FramesIntact*: if bytes are read in time and frames begin after a pause, every
  packet ends where a frame ends. *IntegrityKept*: a datum that leaves the decoder
  was sent, whatever noise did. *NoiseHasCause*: on an undisturbed line a noise
  count comes from a late read, a missing pause or `Stop`. *EveryFrameDecoded*
  (liveness): an undisturbed line that is read in time is decoded completely,
  its last frame included. (`idleTimeout` is 5 ms, while Modbus separates frames
  by 3.5 characters, 4 ms at 9600 baud and 1.75 ms above 19200: frames that follow each other at the
  shortest distance allowed are glued, fail validation and count as noise.)
* *LockstepBroadcast*: refinement of AbstractBroadcast. *FileComplete*: unless two
  goroutines have been in the CSV writer at once, the file is at every moment the
  beginning of the stream of frames, each once and in order, wherever the buffer was
  full, a ticker came or a write failed half way; and after a `Stop` that did not
  time out, without a failed write, it has every frame to its last piece.
  *OutputGoesOn*: a client that stops
  reading is dropped as idle, with one exception that the code allows and the
  property names: if it has sent something before, its monitor waits for the lock
  that `broadcast` holds during the write (`output.go:329`, `575`), nobody finds it
  idle, and the whole output stands still until `Stop`. *StopEndsAll*: `Stop`
  ends every goroutine, that one included.

### Fairness

Only goroutines that exist are fair, and each only weakly: Go's scheduler is
preemptive and starves no runnable goroutine. Every blocking call assumed to end
has a deadline in the code (`ConnectTimeout`, `WriteTimeout`,
`OverrideReadTimeout`, the idle time-out of a connection or client, the serial
port's read time-out) or is a `select` with a default; the output's write to a
client has none and is not assumed to end. A `Stop` that has begun goes on;
nobody is obliged to begin one, to call the sender, to connect, to send, to
transmit or to deliver a frame. Of a closed listener it is assumed that `Accept`
fails. Of the serial line it is assumed that time passes (`Silence`) and that the
decoder worker takes packets. In ChokeInterceptor the loop's receive is fair, i.e.
frames keep coming, and a packet that is not lost is read by the valve; with a
bounded number of faults the network is reliable in the end.
*PersistentThreatShutsValve* needs both: its premise is that the frames, from
some point on, are at the limit.

### Findings

1. `interceptor.go:221` sets `currentOpening` after a failed send. The
   statistics then report an opening that the valve does not have, and the next
   assessment works with it. (*ReportedOpeningIsValveOpening*)
2. `main.go:129` and `main.go:139` give one channel to the output and to the
   interceptor. A frame at the limit may be written and never assessed.
   (*HotFramesAssessed*)
3. `tcp.go:230` deletes by address. A connection that reuses the address of one
   not yet cleaned up loses its entry, and more connections than the limit are
   served. (*ConnectionLimit*)
4. `tcp.go:264` waits while the accept loop may still add. `WaitGroup.Wait` can
   panic in a goroutine without `recover`, which ends the process during
   shutdown. (*StopSurvives*)

## 4. The proofs

What is proved holds for all values of the constants that satisfy the named
assumptions of the modules.

**SafetyControllerProofs**, from `ThresholdsAssumption` (positive thresholds) and
`ControllerAssumption` (`MinSamplesForDeriv <= MaxSamples` and
`2 <= Window <= MaxSamples`; the program always runs with the 3, 10 and 64 of
`DefaultSafetyConfig`, the configuration file does not set them):

* `TypeCorrect`: `Spec => []TypeOK`. `TypeOK` is inductive by itself because it
  says that the buffer is the tail of the history; the lemma on `Last` shows
  that trimming after appending gives the tail of the longer history.
* `ControllerKeepsPromise`: the refinement. Initial states are the same; each
  `Assess` takes a decision of `Decisions`, by cases of the switch, and each
  `Reset` is the abstract one.
* `EarlyOverrideImpossible`: `Spec => []OverrideNeedsSamples`. Before the
  controller has enough samples both derivatives are zero, and then nothing but
  a pressure at the limit asks for an override. Needs `TypeCorrect`, to know
  that a short history is the whole buffer.
* `TrimmingNeverSeen`: `Spec => []TrimmingInvisible`. The last `Window` of the
  last `MaxSamples` samples are the last `Window` of all of them (`LastOfLast`), and
  there are enough of one exactly if there are enough of the other.
* `SlopeStaysWithinChords`: `Spec => []SlopeWithinChords`. The four sums of the
  regression are unfolded by induction over the samples. If every chord of the
  window lies below a slope, then times and values minus the line of that slope
  move against each other, so their covariance is not positive; a sample added
  behind the others keeps it so (`LineBelow`, `SlopeBelow`), and by symmetry for a
  slope below all chords.
* `CriticalDecelerates` and `LinearTrendDecidedExactly`: two facts of integer
  arithmetic about the switch, for every pressure and every pair of derivatives.
* `CriticalOnlyBeforeTurning`: `Spec => []CriticalOnlyWhenDecelerating`. The
  invariant `DecidedFromSamples` says that the last assessment is the
  switch's decision for the derivatives of the buffer as it is now;
  `CriticalDecelerates` does the rest.
* `RampsDecidedExactly`: `Spec => []RampDecidedExactly`. On a window whose samples
  lie on one line, the slopes of all chords are that of the line, so the first
  derivative is exact and the second, the slope of those slopes, is zero; then
  `LinearTrendDecidedExactly`.
* `LockdownsHaveCause`: `BacklogSpec => []LockdownHasCause`. `BacklogIInv`
  carries `TypeOK` and `DecidedFromSamples` over to the composition, whose steps are
  the controller's or leave it alone, and says that there is one stamp for each
  sample. A surge is a slope that lies between those of the chords
  (`SlopeStaysWithinChords`), so some chord is steep (`SurgeIsSteep`), and a chord
  that is steep at the controller and not at the well has frames in the wrong order or
  a wait that has become shorter.

**OverrideSenderProofs**, from `SenderAssumption`:

* `IInv` = `TypeOK` and, for each thread, `Tracked(t)`: where the thread is in
  `sendPacket` determines how many attempts it has behind it and how many
  packets it has written. `TypeOK` alone is not inductive (the bound on `writes`
  needs the bound by `attempt`).
* `SenderTypeCorrect`: from `IInv`.
* `SenderImplementsPromise`: the refinement of AbstractSender. A step of one thread
  changes the call of that thread only (`OneCallMoves`), and `Tracked` gives the
  guard of the abstract action: before a report, that a success is at an
  attempt that has written, and that a failure is at the last one. Dial and read
  are stutters; a failed dial, write or read is `Abandon`, whichever attempt it is.
* `PanicNeedsRace`: `Spec => OnlyRacingSendPanics`, a statement about the future
  of each caller. Once the queue is closed `running` is false for good
  (`StopIsFinal`); from there no step takes a caller that is not already between
  the two halves of `Send` to the panic.
* `EveryCallIsCounted`: beginning a send adds one to both sides of the account,
  counting one moves it from the sends under way to a counter. Both are lemmas
  of arithmetic modulo the counters' range (`AccountBegins`, `AccountEnds`);
  everything else leaves the set of sending threads alone, `Start` because the
  loop is off before it (`OffBeforeStart`).

**ChokeInterceptorProofs**, from `InterceptorAssumption`:

* `SentOverrideInForce` and `LockdownStays`, the safety of the valve. `IInv`
  relates three parties. `Attached`: the sender works exactly while
  `processFrame` waits, and its packet is the opening that the assessment
  requires. `Carried`, unless the network is to blame: no packet is under way but
  that of the attempt that is waiting for its answer, and if that one is no longer
  under way the register holds it. Without `Carried` nothing is known of the
  register between the write and the counter. A packet that reaches the valve is
  therefore the one of the current assessment (`DeliveryFacts`), which asks for a
  lockdown or is Critical.
* `InterceptorTypeCorrect`. `TypeOK` holds the sender's own type invariant for
  the instance that the interceptor drives; `TInv` adds to `IInv` the types of both,
  that the sender's queue stays empty and its loop sends nothing (the
  interceptor calls `SendOverride` directly), that the counters stay 0 (they are
  taken modulo 1 in this composition), and that a call has written at most once an
  attempt, which bounds `writes`.

**TCPGatewayProofs**, from `GatewayAssumption`:

* `GatewayTypeCorrect`, `LimitIsKept`, `NoReaderAfterStop` and
  `PanicOnlyAfterTimeout` rest on one invariant: `TypeOK` (with the WaitGroup's
  counter equal to the number of live handlers); the phases of `Start` and `Stop`
  (`Phased`); that a waiter that has returned leaves no handler reading or
  handing on (`Waited`); which of handler and `Stop` cleans up a connection, and what
  that says of its socket (`Lived`); that a connection whose entry nobody has deleted
  owns the entry of its address, as long as nothing was overwritten (`Mapped`); and
  that whoever still reads from an open socket is on `Stop`'s list (`Listed`). `LimitKept` follows by an injection from the
  served connections into the used addresses, of which there are never more than
  the limit. Once the process has crashed, only that it has crashed is kept.
* `NoEntryForgotten` and `EverythingClosedAtEnd`, the safety half of
  *AllClosedAfterStop*: an entry of the map has somebody who is going to delete
  it, and when all have ended nothing is open and nothing in the map. They hold for
  overwritten entries and a `Stop` that gave up as well, so they cannot use
  `Mapped` and `Listed`. `Tidy`, on top of `IInv`, says that a connection without a
  handler is closed or in the accept loop's hand (`Ended`), and that each entry is
  under the address of its own connection, which has a handler or a cleaner at it
  (`Owned`).

**PipelineProofs**, from `PipelineAssumption`:

* `PipelineTypeCorrect`, `OnePlaceOnly`, `EverythingAccounted`. `OnePlaceEach`
  looks at sets, so a packet queued twice in one channel would not be seen; the
  invariant says in addition that no channel holds a packet twice, that the
  channels share none (`OnceOnly`), and that every number is at most `received`
  (`Numbered`), so that an arrival is new. The accounts are moved by two lemmas:
  `BooksKept`, for the steps that keep the difference between received and
  accounted for, and `BooksLoss`, for a worker that gives up its item because its
  context is done; that the solver's context is done only after the pipeline's
  (`Ordered`) makes the loss impossible before the stop.

**SerialIngestProofs**. The theorems about the checksum assume nothing; a word is
a set of bits.

* `TableIsBitwise`: a step with the table is eight rounds of the polynomial.
* `FrameLeavesZero`: the loop, run over a frame with its checksum behind it, ends
  with zero.
* `NoiseIsFiltered`, `GluedFramesRefused`: damage in one byte or in two
  neighbouring ones is found, and two frames in one packet are refused, for
  frames of any length. `Run(s, bytes)` says that `s` holds the register after
  each of the bytes. Shifting is linear over XOR (`Shift` of a difference is the
  difference of the shifts), so the receiver's register differs from the sender's by
  what the damage alone leaves; only zero is shifted to zero, so once they
  differ they do to the end; and eight shifts are injective on bytes, so a second
  damaged byte cannot undo the first. That is shown for each position of the frame
  by induction over an interval.

Those about the ingest path rest on `SerialAssumption` (a read and the size that
calls for a dispatch are at most the size of the frame buffer: 4096 and 256
against 4096, `serial.go:17`, `18`, `93` and `165`) and `IngestAssumption` (what is on the wire
are bytes):

* `IngestTypeCorrect`, `BytesConserved`: `Core` holds the types (`Flags`,
  `Stored`, `Counted`), which buffers are in use where (`Phased`), *Conserved*, and
  that whatever is in the channel has been dispatched (`PassedOn`). Many actions move
  bytes in the same way, so each is first shown to be one of seven moves between
  wire, line, read buffer, frame buffer and packets (`AllMoves`); what a move does
  to the concatenation of all of them follows from `FlattenAppend`.
* `FramesStayIntact`: `Spec => []FramesIntact`, for wires whose frames have 1 to
  `DispatchSize` bytes (`FramesFit`; 256 bytes is the longest frame that Modbus
  has). As long as nothing is late (`InTime`), `Timely` says that what has been
  dispatched ends where a frame ends; that the place where a silence was seen,
  which is going to be the next cut, does too; and that no frame ends between the
  two or behind the second. The buffer then
  never holds more than one frame (`HeldWithinFrame`), and when its size calls for a
  dispatch the frame is complete (`FrameEndsSoon`). *FramesIntact* says nothing about a silence that
  has been seen and not yet acted upon; without it no step between is provable.
* `PacketsAreTheFrames`: for the same wires, the packets are the first frames of the
  wire in their order, each with the bytes that arrived of it (`Framed`). A packet
  is one frame, as its two ends are ends of frames with none between
  (`CutIsFrame`, `FrameBetween`), and it is the next one, as no two frames end at one
  place (`PositionsDiffer`).
* `NoiseNeedsCause`: `Spec => []NoiseHasCause`, for wires that fit and whose frames
  have a correct checksum (`SoundWire`). On an undisturbed line a packet of
  `Framed` is the frame itself (`Clean`).
* `TimelyDataIsSent`: for the same wires, *IntegrityKept* as long as nothing is late
  and no frame has been damaged in more than one byte or two neighbouring ones
  (`LightlyDamaged`), whatever the number of damaged frames. It joins `Framed` with `NoiseIsFiltered`:
  what the decoder accepts of one lightly damaged frame is that frame
  (`AcceptedIsFrame`).
* `SentPacketsAreHandled`: in every behaviour, a packet the channel took is
  decoded or still there (`Handled`).
* `NoFrameIsLost`: the safety half of *EveryFrameDecoded*, from `Framed`, `Clean`,
  `Handled` and *Conserved*. When line, buffers and channel are empty again,
  the packets end where the wire ends, so there is one for each frame.
* `IntegrityIsKept`: `Spec => []IntegrityKept`, however late the reads are. Then a
  packet can be any piece of the stream, and a 16-bit checksum accepts one such
  piece in 65536 (or a frame whose registers contain a frame), so there are wires for
  which it is false. The hypothesis `CollisionFree` excludes just these: no contiguous
  piece of the stream, damaged by at most `MaxNoise` bytes, passes for a datum that was
  not sent. It speaks of the wire alone; what is proved is that the program can make
  nothing else, whatever it cuts, glues, drops or repeats. `Whole` says that what has
  come over the line differs from the stream at no more than `noise` places
  (`OnStream`), and that each packet is a contiguous piece of it (`Pieces`). TLC
  evaluates the hypothesis for the wire of the run (`MCCollisionFree`).

**FrameOutputProofs**, from `OutputAssumption`:

* `OutputTypeCorrect`: `Spec => []TypeOK`, from the invariants of the two theorems
  below, that no piece in the CSV writer's buffer is of a later frame than the last that
  the bounds allow (`FileSized`), and that the set of clients in the map is finite and
  within the limit (`Membership`).
* `OutputKeepsPromise`: the refinement of AbstractBroadcast. `IInv` has the types
  (`Typed`), the phases of start and stop (`Phased`), what a client's place in the map
  and its goroutine say of its connection (`Lived`), and that each client in the map has all frames since it
  joined, save the current one if it is still ahead in `broadcast`'s list
  (`UpToDate`). Without the last two, a client removed by its monitor while the list is
  worked off could not be told from one that is skipped.
* `FileIsComplete`: `Spec => []FileComplete`, for every length of a row, size of the
  buffer and number of frames. `FileInv` has the types (`Data`) and who can be where
  (`Placed`); a `Stop` in time closes the file when every goroutine has ended
  (`Ended`); without a race one thread at most is in the writer, and nobody is when
  `Stop` has finished with it (`Alone`); the file is in order (`InOrder`); an error
  stems from a failed write and nobody is between two steps of a flush
  after one (`Failed`); what has been given to the writer is in the file or, behind it, in the
  buffer, save between the write of a flush and the reset of the buffer, when it is in
  both (`Kept`); and JSON lines go to the file at once (`Direct`). The property
  speaks of the file alone; what makes the next write continue where the last one ended
  is that the buffer does (`Kept`), which in turn needs that no other thread has
  touched it (`Alone`). Of a step inside the writer it is shown once that it
  leaves everything but its own thread's part of this as it was (`WriterStep`,
  `WriterFileInv`); each step then has to keep `Intact`.

Every invariant and every action property of the passing runs is stated by a
theorem. Left to TLC is liveness under fairness, which needs ENABLED:
*PersistentThreatShutsValve*, *StopEndsLoop*, *QueueServed*, *EverythingWorkedOff*,
*StopEndsWorkers*, *AllClosedAfterStop*, *AcceptingGoesOn*, *EveryFrameDecoded*,
*OutputGoesOn* and *StopEndsAll*. What two of them promise once everything has come to
rest is proved (`EverythingClosedAtEnd`, `NoFrameIsLost`); that it comes to rest is not.

## 5. What is not modelled

* Floating-point numerics: `SolveChokeFlow`, `solveDriftFlux`, steam properties,
  the conversion of registers to numbers. The controller's own arithmetic is exact
  in the model, so rounding is not seen. The overflow of the logged time to
  breach (`controller.go:135`) is not either; it cannot influence a decision,
  since a surge has a slope far from zero.
* Code that the program never runs: `Enabled = false` in the interceptor, its
  setters and `Broadcast`, `StreamDecode`, the serial gateway's `Write`,
  `Results()`, and a second `Start` after `Stop`.
* Statistics that no property is about: the counters of the gateways, of the
  interceptor and of the output (`framesWritten` stays 0 in CSV format). The
  solver's statistics are in Pipeline; they count the frames of its own loop and
  not those of the pipeline's solver workers.
* The layout of JSON, CSV and binary frames, and of the Modbus packets.
* `Stop` sets `listener`, `port` and the writers to nil while loops use them. The
  loops test for nil first; a loop that is caught between test and use panics, and
  `SafeGoWG` recovers: the goroutine ends, as it would have done at its next look
  at `running`.
* A panic in a processing loop ends that loop for good (`defer func() {
  SafeRecover() }()` recovers nothing, `SafeGo` recovers and does not restart).
  The models have no panics other than sends on closed channels and the
  `WaitGroup`'s.
* Configuration, logger: no control of interest.

## 6. Plan

Done, in the order of importance for the valve: SafetyController, OverrideSender,
ChokeInterceptor, Pipeline, TCPGateway, Backlog, FrameOutput, SerialGateway with
Decoder and CRC16, and proofs of every safety property of theirs.

Left:

1. GatewayLifecycle: start and stop of all components, with failures of start.
2. The valve's side: what a refused or wrapped register value does, and the
   ordering of overrides on separate connections as a property of its own.
