------------------------------ MODULE FrameOutput ------------------------------
(***************************************************************************)
(* The output of internal/frame/output.go: the accept loop, a monitor for  *)
(* each client, the loop that writes frames to the file and to all         *)
(* clients, the loop that flushes the CSV file, and Stop.                  *)
(*                                                                         *)
(* A frame is its number.  JSON and binary lines go to the file and to the *)
(* clients; CSV rows go to a buffered writer, and as serializeCSV returns  *)
(* no data, never to a client.  The flush loop has nothing to flush in the *)
(* other formats and is started here for CSV alone.                        *)
(*                                                                         *)
(* In the file and in the buffer a line is RowLength pieces, numbered      *)
(* consecutively from the first frame's: a write that fails, or a buffer   *)
(* that is full, may cut it between any two.                               *)
(*                                                                         *)
(* The WaitGroup's counter is the number of live goroutines.  Clients are  *)
(* added to it by the accept loop, which is counted itself, so it never    *)
(* rises again from zero.                                                  *)
(*                                                                         *)
(* A definition whose name ends in "_Faulty..." is a plausible bug in the  *)
(* definition that follows it; no behaviour of Spec uses it.               *)
(***************************************************************************)
EXTENDS Integers, Sequences, FiniteSets
LOCAL INSTANCE FiniteSetsExt

CONSTANTS Clients,              \* bound: the connections that are ever accepted
          Habits,               \* client -> what it may do: send something, stop
                                \* reading, go away
          Accepter, Process, Flusher, Stopper,
          None,
          Configs,              \* [csv, file, tcp, slow]: the format; whether there
                                \* is a file; whether clients are served; bound:
                                \* whether the time Stop waits can run out
          MaxClients,
          RowLength,            \* the pieces of a line
          BufferSize,           \* the pieces that fit in the CSV writer's buffer
          MaxFrames, MaxFaults  \* bounds: frames, failures of the file

ASSUME OutputAssumption ==
  /\ IsFiniteSet(Clients) /\ Habits \in [Clients -> SUBSET {"sends", "stalls", "departs"}]
  /\ Accepter \notin {Process, Flusher, Stopper} /\ Process \notin {Flusher, Stopper}
  /\ Flusher # Stopper
  /\ {Accepter, Process, Flusher, Stopper, None} \cap Clients = {}
  /\ Configs \subseteq [csv : BOOLEAN, file : BOOLEAN, tcp : BOOLEAN, slow : BOOLEAN]
  /\ {MaxClients, RowLength, BufferSize} \subseteq Nat \ {0}
  /\ {MaxFrames, MaxFaults} \subseteq Nat

Loops   == Clients \cup {Accepter, Process, Flusher}
Threads == Loops \cup {Stopper}
Writers == {Process, Flusher, Stopper}  \* the threads that use the CSV writer

VARIABLES
  config, running, cancelled,
  listener,          \* "open" or "nil"
  tcpClients,        \* the clients in the map
  inHand,            \* the connection that was accepted last
  pc,
  sock,              \* client -> "unused", "open", "reset" by the peer, "closed"
  closed,            \* client -> the flag of that name
  active,            \* client -> active since its read deadline was set
  stalled,           \* clients that have stopped reading
  frame,             \* number of the last frame that was serialized
  toWrite, current,  \* the clients left to write to; the one being written to
  toClose, closing,  \* the same for Stop's snapshot
  fileClosed,
  file,              \* the pieces in the file
  buffer, buffered,  \* the CSV writer's buffer; how much of it is in use
  taken,             \* writer -> how much of it that thread's flush writes out
  part,              \* the pieces of the row being written that have been buffered
  place,             \* buffered, where the process loop has put the last one
  csvError,          \* the CSV writer's error, which it keeps for good
  raced,             \* two threads have been in the CSV writer at once
  faults, timedOut,
  received, first    \* client -> frames written to it, the first it can get

acceptVars == <<listener, inHand>>
clientVars == <<tcpClients, sock, closed, stalled, first>>
writeVars  == <<frame, toWrite, current, received>>
csvVars    == <<buffer, buffered, taken, part, place, csvError, raced>>
fileVars   == <<fileClosed, file, faults, csvVars>>
stopVars   == <<running, cancelled, toClose, closing, timedOut>>
vars == <<config, acceptVars, clientVars, active, writeVars, fileVars, stopVars, pc>>

Goto(t, label) == pc' = [pc EXCEPT ![t] = label]

Init ==
  /\ config \in Configs
  /\ running = FALSE /\ cancelled = FALSE /\ listener = "nil"
  /\ tcpClients = {} /\ inHand = None
  /\ pc = [t \in Threads |-> IF t = Stopper THEN "new" ELSE "off"]
  /\ sock = [c \in Clients |-> "unused"] /\ closed = [c \in Clients |-> FALSE]
  /\ active = [c \in Clients |-> FALSE] /\ stalled = {}
  /\ frame = 0 /\ toWrite = {} /\ current = None
  /\ toClose = {} /\ closing = None
  /\ fileClosed = ~config.file /\ file = <<>>
  /\ buffer = [i \in 1 .. BufferSize |-> 0] /\ buffered = 0
  /\ taken = [t \in Writers |-> 0] /\ part = 0 /\ place = 0
  /\ csvError = FALSE /\ raced = FALSE /\ faults = 0 /\ timedOut = FALSE
  /\ received = [c \in Clients |-> <<>>] /\ first = [c \in Clients |-> 0]

\* The frames that have been published to the clients: the last frame is not until
\* broadcast has looked at the clients.
Published ==
  CASE config.csv -> 0
    [] ~config.csv /\ pc[Process] \in {"file", "snapshot"} -> frame - 1
    [] OTHER -> frame

\* A file that cannot be opened ends the start; a listener that cannot be opened
\* is only logged, and is the same as a configuration without clients.
Start ==
  /\ pc[Stopper] = "new"
  /\ running' = TRUE
  /\ listener' = IF config.tcp THEN "open" ELSE "nil"
  /\ pc' = [pc EXCEPT ![Stopper] = "started", ![Process] = "loop",
                      ![Accepter] = IF config.tcp THEN "loop" ELSE "off",
                      ![Flusher] = IF config.csv /\ config.file THEN "loop" ELSE "off"]
  /\ UNCHANGED <<config, inHand, clientVars, active, writeVars, fileVars,
                 cancelled, toClose, closing, timedOut>>

-----------------------------------------------------------------------------
\* acceptTCPClients.

acceptRest == <<config, clientVars, active, writeVars, fileVars, stopVars>>

AcceptCheck ==
  /\ pc[Accepter] = "loop"
  /\ Goto(Accepter, IF running /\ ~cancelled THEN "accept" ELSE "done")
  /\ UNCHANGED <<acceptRest, acceptVars>>

\* Stop closes the listener and sets it to nil beside the loop, which sees it and
\* returns, or panics; SafeGoWG ends the goroutine in good order.
ListenerGone ==
  /\ pc[Accepter] = "accept" /\ listener = "nil"
  /\ Goto(Accepter, "done")
  /\ UNCHANGED <<acceptRest, acceptVars>>

AcceptOk(c) ==
  /\ pc[Accepter] = "accept" /\ listener = "open" /\ sock[c] = "unused"
  /\ sock' = [sock EXCEPT ![c] = "open"]
  /\ inHand' = c
  /\ Goto(Accepter, "admit")
  /\ UNCHANGED <<config, listener, tcpClients, closed, stalled, first, active, writeVars,
                 fileVars, stopVars>>

\* The pause after more than ten errors only delays the next look at running.
AcceptFail ==
  /\ pc[Accepter] = "accept"
  /\ Goto(Accepter, "loop")
  /\ UNCHANGED <<acceptRest, acceptVars>>

Refuse ==
  /\ pc[Accepter] = "admit" /\ Cardinality(tcpClients) >= MaxClients
  /\ sock' = [sock EXCEPT ![inHand] = "closed"] /\ inHand' = None
  /\ Goto(Accepter, "loop")
  /\ UNCHANGED <<config, listener, tcpClients, closed, stalled, first, active, writeVars,
                 fileVars, stopVars>>

Admit_FaultyOffByOne ==
  /\ pc[Accepter] = "admit" /\ Cardinality(tcpClients) <= MaxClients
  /\ tcpClients' = tcpClients \cup {inHand}
  /\ first' = [first EXCEPT ![inHand] = Published + 1]
  /\ pc' = [pc EXCEPT ![Accepter] = "loop", ![inHand] = "loop"] /\ inHand' = None
  /\ UNCHANGED <<config, listener, sock, closed, stalled, active, writeVars, fileVars, stopVars>>

\* A new client is active at first, but its first read deadline is set later.
Admit ==
  /\ pc[Accepter] = "admit" /\ Cardinality(tcpClients) < MaxClients
  /\ tcpClients' = tcpClients \cup {inHand}
  /\ first' = [first EXCEPT ![inHand] = Published + 1]
  /\ pc' = [pc EXCEPT ![Accepter] = "loop", ![inHand] = "loop"] /\ inHand' = None
  /\ UNCHANGED <<config, listener, sock, closed, stalled, active, writeVars, fileVars, stopVars>>

acceptTCPClients == AcceptCheck \/ ListenerGone \/ Refuse \/ Admit

-----------------------------------------------------------------------------
\* monitorTCPClient.

monitorRest == <<config, acceptVars, clientVars, writeVars, fileVars, stopVars>>

\* SetReadDeadline fails on a closed connection.
MonitorCheck(c) ==
  /\ pc[c] = "loop"
  /\ IF running /\ ~cancelled /\ sock[c] # "closed"
       THEN Goto(c, "read") ELSE Goto(c, "cleanup")
  /\ active' = [active EXCEPT ![c] = FALSE]
  /\ UNCHANGED monitorRest

\* The client sends something.
ReadData(c) ==
  /\ pc[c] = "read" /\ sock[c] = "open" /\ "sends" \in Habits[c]
  /\ Goto(c, "lock")
  /\ UNCHANGED <<monitorRest, active>>

\* client.mu, which broadcast holds while it writes to the client.
MarkActive(c) ==
  /\ pc[c] = "lock" /\ ~(pc[Process] = "write" /\ current = c)
  /\ active' = [active EXCEPT ![c] = TRUE]
  /\ Goto(c, "loop")
  /\ UNCHANGED monitorRest

\* The deadline has passed: the client is idle unless a frame has been written to
\* it since the deadline was set.
ReadTimeout(c) ==
  /\ pc[c] = "read" /\ sock[c] \in {"open", "reset"}
  /\ Goto(c, IF active[c] THEN "loop" ELSE "cleanup")
  /\ UNCHANGED <<monitorRest, active>>

ReadFails(c) ==
  /\ pc[c] = "read" /\ sock[c] \in {"reset", "closed"}
  /\ Goto(c, "cleanup")
  /\ UNCHANGED <<monitorRest, active>>

-----------------------------------------------------------------------------
\* cleanupClient, run by a monitor for its client, by broadcast for one it cannot
\* write to, and by Stop.  Close makes a write that is blocked on the client fail.

Target(t) == CASE t = Process -> current [] t = Stopper -> closing [] OTHER -> t
Leave(t)  == Goto(t, CASE t = Process -> "next" [] t = Stopper -> "next" [] OTHER -> "done")

cleanupRest == <<config, acceptVars, first, writeVars, fileVars, stopVars>>

CleanupOnce(t) ==
  /\ pc[t] = "cleanup"
  /\ IF closed[Target(t)] THEN Leave(t) ELSE Goto(t, "remove")
  /\ closed' = [closed EXCEPT ![Target(t)] = TRUE]
  /\ UNCHANGED <<cleanupRest, tcpClients, sock, active, stalled>>

CleanupRemove_FaultyLocked(t) ==
  /\ pc[t] = "remove" /\ pc[Process] # "write"
  /\ tcpClients' = tcpClients \ {Target(t)}
  /\ sock' = [sock EXCEPT ![Target(t)] = "closed"]
  /\ stalled' = stalled \ {Target(t)} /\ active' = [active EXCEPT ![Target(t)] = FALSE]
  /\ Leave(t)
  /\ UNCHANGED <<cleanupRest, closed>>

\* What was known of the client is of no use afterwards.  A write that had the client
\* in its list succeeds before the connection is closed and fails afterwards.
CleanupRemove(t) ==
  /\ pc[t] = "remove"
  /\ tcpClients' = tcpClients \ {Target(t)}
  /\ sock' = [sock EXCEPT ![Target(t)] = "closed"]
  /\ stalled' = stalled \ {Target(t)} /\ active' = [active EXCEPT ![Target(t)] = FALSE]
  /\ Leave(t)
  /\ UNCHANGED <<cleanupRest, closed>>

Cleanup(t) == CleanupOnce(t) \/ CleanupRemove(t)

monitorTCPClient(c) ==
  \/ MonitorCheck(c) \/ ReadData(c) \/ MarkActive(c) \/ ReadTimeout(c) \/ ReadFails(c)
  \/ Cleanup(c)

-----------------------------------------------------------------------------
\* processLoop.

ProcessCheck ==
  /\ pc[Process] = "loop"
  /\ Goto(Process, IF running THEN "select" ELSE "done")
  /\ UNCHANGED <<config, acceptVars, clientVars, active, writeVars, fileVars, stopVars>>

Cancelled ==
  /\ pc[Process] = "select" /\ cancelled
  /\ Goto(Process, "done")
  /\ UNCHANGED <<config, acceptVars, clientVars, active, writeVars, fileVars, stopVars>>

\* In Write or Flush of the CSV writer, or about to close the file under it.
InWriter(t) == pc[t] \in {"row", "count", "flush", "writeout", "compare", "reset", "close"}

\* The thread enters the CSV writer.  Nothing keeps another one from being there.
Enter(t) == raced' = (raced \/ \E u \in Writers \ {t} : InWriter(u))

\* A frame, or one that cannot be serialized and is dropped.
Receive ==
  /\ pc[Process] = "select"
  /\ \/ /\ frame < MaxFrames
        /\ frame' = frame + 1
        /\ Goto(Process, IF config.csv THEN "row" ELSE "file")
        /\ IF config.csv THEN Enter(Process) ELSE UNCHANGED raced
     \/ Goto(Process, "loop") /\ UNCHANGED <<frame, raced>>
  /\ UNCHANGED <<config, acceptVars, clientVars, active, toWrite, current, received, fileClosed,
                 file, faults, buffer, buffered, taken, part, place, csvError, stopVars>>

\* The pieces of a frame's line.
Row(f) == [i \in 1 .. RowLength |-> (f - 1) * RowLength + i]

\* writeToFile.  After a failed write the file is closed for good.
WriteToFile ==
  /\ pc[Process] = "file"
  /\ \/ fileClosed /\ UNCHANGED <<file, fileClosed, faults>>
     \/ ~fileClosed /\ file' = file \o Row(frame) /\ UNCHANGED <<fileClosed, faults>>
     \/ /\ ~fileClosed /\ faults < MaxFaults /\ faults' = faults + 1
        /\ \E k \in 0 .. RowLength - 1 : file' = file \o SubSeq(Row(frame), 1, k)
        /\ fileClosed' = TRUE
  /\ Goto(Process, "snapshot")
  /\ UNCHANGED <<config, acceptVars, clientVars, active, writeVars, csvVars, stopVars>>

-----------------------------------------------------------------------------
\* serializeCSV, and the bufio.Writer that csv.Writer writes to.  The process loop
\* puts the row into the buffer; when it is full it flushes it itself.  The flush
\* loop and Stop flush it too, and nothing but their timing keeps them apart: what
\* is one step below is one access to the writer's memory, or one write to the file.

csvRest == <<config, acceptVars, clientVars, active, writeVars, fileClosed, stopVars>>

\* Stop sets csvWriter to nil at last, and without a file it always is.
NoWriter == ~config.file \/ pc[Stopper] = "done"

\* The row is complete, or cannot be written.
RowEnds ==
  /\ pc[Process] = "row" /\ (csvError \/ part = RowLength \/ (part = 0 /\ NoWriter))
  /\ part' = 0 /\ Goto(Process, "loop")
  /\ UNCHANGED <<csvRest, file, faults, buffer, buffered, taken, place, csvError, raced>>

RowGoesOn == pc[Process] = "row" /\ ~csvError /\ part < RowLength /\ (part = 0 => ~NoWriter)

RowFull ==
  /\ RowGoesOn /\ buffered >= BufferSize
  /\ Goto(Process, "flush")
  /\ UNCHANGED <<csvRest, file, faults, csvVars>>

\* The next piece goes to the end of the buffer ...
RowCopy ==
  /\ RowGoesOn /\ buffered < BufferSize
  /\ buffer' = [buffer EXCEPT ![buffered + 1] = Row(frame)[part + 1]] /\ place' = buffered
  /\ Goto(Process, "count")
  /\ UNCHANGED <<csvRest, file, faults, buffered, taken, part, csvError, raced>>

\* ... and is counted.  A flush that empties the buffer meanwhile does so before the
\* count is read again, or after.
RowCount ==
  /\ pc[Process] = "count"
  /\ \E n \in {place, buffered} : buffered' = n + 1
  /\ part' = part + 1 /\ place' = 0
  /\ Goto(Process, "row")
  /\ UNCHANGED <<csvRest, file, faults, buffer, taken, csvError, raced>>

serializeCSV == RowEnds \/ RowFull \/ RowCopy \/ RowCount

Return(t) ==
  /\ Goto(t, CASE t = Process -> "row" [] t = Flusher -> "loop" [] t = Stopper -> "close")
  /\ taken' = [taken EXCEPT ![t] = 0]

FlushTake(t) ==
  /\ pc[t] = "flush"
  /\ IF csvError \/ buffered = 0
       THEN Return(t)
       ELSE Goto(t, "writeout") /\ taken' = [taken EXCEPT ![t] = buffered]
  /\ UNCHANGED <<csvRest, file, faults, buffer, buffered, part, place, csvError, raced>>

FlushWrite(t) ==
  /\ pc[t] = "writeout" /\ pc[Stopper] # "done"
  /\ file' = file \o SubSeq(buffer, 1, taken[t])
  /\ Goto(t, "compare")
  /\ UNCHANGED <<csvRest, faults, csvVars>>

\* What was written is dropped from the buffer, and the error is kept.  It may be more
\* than there is in the buffer by now; after the error nobody looks at it again.
Drop(k) ==
  /\ buffer' = [i \in 1 .. BufferSize |-> IF i + k <= buffered THEN buffer[i + k] ELSE buffer[i]]
  /\ buffered' = buffered - k
  /\ csvError' = TRUE

FlushFails(t) ==
  /\ pc[t] = "writeout"
  /\ IF pc[Stopper] = "done"
       THEN Drop(0) /\ UNCHANGED <<file, faults>>
       ELSE /\ faults < MaxFaults /\ faults' = faults + 1
            /\ \E k \in 0 .. taken[t] - 1 : file' = file \o SubSeq(buffer, 1, k) /\ Drop(k)
  /\ Return(t)
  /\ UNCHANGED <<csvRest, part, place, raced>>

\* If the buffer has grown since, the writer takes the write for a short one.
FlushCompare(t) ==
  /\ pc[t] = "compare"
  /\ IF taken[t] < buffered
       THEN Drop(taken[t]) /\ Return(t)
       ELSE Goto(t, "reset") /\ UNCHANGED <<buffer, buffered, taken, csvError>>
  /\ UNCHANGED <<csvRest, file, faults, part, place, raced>>

FlushReset(t) ==
  /\ pc[t] = "reset"
  /\ buffered' = 0
  /\ Return(t)
  /\ UNCHANGED <<csvRest, file, faults, buffer, part, place, csvError, raced>>

Flush(t) == FlushTake(t) \/ FlushWrite(t) \/ FlushFails(t) \/ FlushCompare(t) \/ FlushReset(t)

\* Stop has set csvWriter to nil.  Who looks again passes it by; who has looked before
\* panics, and SafeGoWG ends the goroutine in good order.
WriterGone(t) ==
  /\ pc[Stopper] = "done"
  /\ (t = Process /\ pc[t] = "row" /\ part = 0) \/ (t = Flusher /\ pc[t] = "flush")
  /\ Goto(t, "loop") \/ Goto(t, "done")
  /\ UNCHANGED <<csvRest, file, faults, csvVars>>

-----------------------------------------------------------------------------
\* broadcastToTCPClients.

broadcastRest == <<config, acceptVars, clientVars, fileVars, stopVars, frame>>

Snapshot ==
  /\ pc[Process] = "snapshot"
  /\ toWrite' = tcpClients
  /\ Goto(Process, "next")
  /\ UNCHANGED <<broadcastRest, active, current, received>>

NextClient(c) ==
  /\ pc[Process] = "next" /\ c \in toWrite
  /\ toWrite' = toWrite \ {c} /\ current' = c
  /\ Goto(Process, IF closed[c] THEN "next" ELSE "write")
  /\ UNCHANGED <<broadcastRest, active, received>>

Broadcasted ==
  /\ pc[Process] = "next" /\ toWrite = {}
  /\ Goto(Process, "loop") /\ current' = None
  /\ UNCHANGED <<broadcastRest, active, toWrite, received>>

\* Without a deadline: the write waits for a client that does not read.
Write ==
  /\ pc[Process] = "write" /\ sock[current] \in {"open", "reset"} /\ current \notin stalled
  /\ received' = [received EXCEPT ![current] = Append(@, frame)]
  /\ active' = [active EXCEPT ![current] = TRUE]
  /\ Goto(Process, "next")
  /\ UNCHANGED <<broadcastRest, toWrite, current>>

WriteFails_FaultyKeepsClient ==
  /\ pc[Process] = "write" /\ sock[current] \in {"reset", "closed"}
  /\ Goto(Process, "next")
  /\ UNCHANGED <<broadcastRest, active, toWrite, current, received>>

WriteFails ==
  /\ pc[Process] = "write" /\ sock[current] \in {"reset", "closed"}
  /\ Goto(Process, "cleanup")
  /\ UNCHANGED <<broadcastRest, active, toWrite, current, received>>

processLoop ==
  \/ ProcessCheck \/ Cancelled \/ Receive \/ WriteToFile
  \/ serializeCSV \/ Flush(Process) \/ WriterGone(Process)
  \/ Snapshot \/ Broadcasted \/ Write \/ WriteFails \/ Cleanup(Process)
  \/ \E c \in Clients : NextClient(c)

-----------------------------------------------------------------------------
\* flushLoop.

FlushCheck ==
  /\ pc[Flusher] = "loop"
  /\ Goto(Flusher, IF running /\ ~cancelled THEN "tick" ELSE "done")
  /\ UNCHANGED <<csvRest, file, faults, csvVars>>

FlushCancelled ==
  /\ pc[Flusher] = "tick" /\ cancelled
  /\ Goto(Flusher, "done")
  /\ UNCHANGED <<csvRest, file, faults, csvVars>>

Tick ==
  /\ pc[Flusher] = "tick"
  /\ IF fileClosed THEN Goto(Flusher, "loop") /\ UNCHANGED raced
                   ELSE Goto(Flusher, "flush") /\ Enter(Flusher)
  /\ UNCHANGED <<csvRest, file, faults, buffer, buffered, taken, part, place, csvError>>

flushLoop == FlushCheck \/ FlushCancelled \/ Tick \/ Flush(Flusher) \/ WriterGone(Flusher)

-----------------------------------------------------------------------------
\* Stop.

stopRest == <<config, clientVars, active, writeVars, inHand>>

StopClearRunning ==
  /\ pc[Stopper] = "started"
  /\ running' = FALSE /\ Goto(Stopper, "cancel")
  /\ UNCHANGED <<stopRest, listener, fileVars, cancelled, toClose, closing, timedOut>>

StopCancel ==
  /\ pc[Stopper] = "cancel"
  /\ cancelled' = TRUE
  /\ Goto(Stopper, IF listener = "nil" THEN "snapshot" ELSE "listener")
  /\ UNCHANGED <<stopRest, listener, fileVars, running, toClose, closing, timedOut>>

StopListener ==
  /\ pc[Stopper] = "listener"
  /\ listener' = "nil" /\ Goto(Stopper, "snapshot")
  /\ UNCHANGED <<stopRest, fileVars, stopVars>>

StopSnapshot_FaultyNobody ==
  /\ pc[Stopper] = "snapshot"
  /\ toClose' = {} /\ Goto(Stopper, "next")
  /\ UNCHANGED <<stopRest, listener, fileVars, running, cancelled, closing, timedOut>>

StopSnapshot ==
  /\ pc[Stopper] = "snapshot"
  /\ toClose' = tcpClients /\ Goto(Stopper, "next")
  /\ UNCHANGED <<stopRest, listener, fileVars, running, cancelled, closing, timedOut>>

StopNext(c) ==
  /\ pc[Stopper] = "next" /\ c \in toClose
  /\ toClose' = toClose \ {c} /\ closing' = c /\ Goto(Stopper, "cleanup")
  /\ UNCHANGED <<stopRest, listener, fileVars, running, cancelled, timedOut>>

AllEnded == \A t \in Loops : pc[t] \in {"off", "done"}

\* The WaitGroup is at zero, or ten seconds have passed.
StopWait ==
  /\ pc[Stopper] = "next" /\ toClose = {} /\ (AllEnded \/ config.slow)
  /\ timedOut' = ~AllEnded /\ Goto(Stopper, "file") /\ closing' = None
  /\ UNCHANGED <<stopRest, listener, fileVars, running, cancelled, toClose>>

StopFile_FaultyNoFlush ==
  /\ pc[Stopper] = "file"
  /\ fileClosed' = TRUE
  /\ Goto(Stopper, "done")
  /\ UNCHANGED <<stopRest, listener, file, faults, csvVars, stopVars>>

\* safeCloseFile flushes the CSV writer before it closes the file.
StopFile ==
  /\ pc[Stopper] = "file"
  /\ fileClosed' = TRUE
  /\ IF config.csv /\ ~fileClosed THEN Goto(Stopper, "flush") /\ Enter(Stopper)
                                  ELSE Goto(Stopper, "done") /\ UNCHANGED raced
  /\ UNCHANGED <<stopRest, listener, file, faults, buffer, buffered, taken, part, place,
                 csvError, stopVars>>

StopClose ==
  /\ pc[Stopper] = "close"
  /\ Goto(Stopper, "done")
  /\ UNCHANGED <<stopRest, listener, fileVars, stopVars>>

StopGoesOn ==
  \/ StopCancel \/ StopListener \/ StopSnapshot \/ Cleanup(Stopper) \/ StopWait
  \/ StopFile \/ Flush(Stopper) \/ StopClose
  \/ \E c \in Clients : StopNext(c)

-----------------------------------------------------------------------------
\* The clients: one goes away, one stops reading.

PeerReset(c) ==
  /\ sock[c] = "open" /\ "departs" \in Habits[c]
  /\ sock' = [sock EXCEPT ![c] = "reset"]
  /\ UNCHANGED <<config, acceptVars, tcpClients, closed, stalled, first, active, writeVars,
                 fileVars, stopVars, pc>>

Stall(c) ==
  /\ sock[c] = "open" /\ "stalls" \in Habits[c] /\ c \notin stalled
  /\ stalled' = stalled \cup {c}
  /\ UNCHANGED <<config, acceptVars, tcpClients, sock, closed, first, active, writeVars,
                 fileVars, stopVars, pc>>

Next ==
  \/ Start \/ acceptTCPClients \/ AcceptFail
  \/ \E c \in Clients : AcceptOk(c) \/ monitorTCPClient(c) \/ PeerReset(c) \/ Stall(c)
  \/ processLoop \/ flushLoop \/ StopClearRunning \/ StopGoesOn

(***************************************************************************)
(* The goroutines run, a read deadline passes, a closed listener refuses.  *)
(* Nobody need connect, send, read, stop or deliver a frame.               *)
(***************************************************************************)
Fairness ==
  /\ WF_vars(acceptTCPClients) /\ WF_vars(listener = "nil" /\ AcceptFail)
  /\ \A c \in Clients : WF_vars(monitorTCPClient(c))
  /\ WF_vars(processLoop) /\ WF_vars(flushLoop)
  /\ WF_vars(StopGoesOn)

Spec == Init /\ [][Next]_vars /\ Fairness

-----------------------------------------------------------------------------
\* The values the variables take.  A client in the map has been admitted and its
\* connection has been open, and nobody is in the map twice.
TypeOK ==
  /\ config \in Configs /\ {running, cancelled, fileClosed, csvError, raced, timedOut} \subseteq BOOLEAN
  /\ listener \in {"open", "nil"}
  /\ tcpClients \subseteq {c \in Clients : first[c] > 0}
  /\ Cardinality(tcpClients) <= MaxClients
  /\ {inHand, current, closing} \subseteq Clients \cup {None}
  /\ sock \in [Clients -> {"unused", "open", "reset", "closed"}]
  /\ {closed, active} \subseteq [Clients -> BOOLEAN]
  /\ stalled \subseteq Clients /\ toWrite \cup toClose \subseteq Clients
  /\ frame \in 0 .. MaxFrames /\ faults \in 0 .. MaxFaults
  /\ buffer \in [1 .. BufferSize -> 0 .. MaxFrames * RowLength]
  /\ buffered \in Int /\ buffered <= BufferSize
  /\ taken \in [Writers -> 0 .. BufferSize] /\ part \in 0 .. RowLength
  /\ DOMAIN pc = Threads

Status(c) ==
  CASE first[c] = 0 -> "out"
    [] first[c] > 0 /\ ~closed[c] -> "member"
    [] first[c] > 0 /\ closed[c] /\ sock[c] # "closed" -> "leaving"
    [] OTHER -> "gone"

Abstract == INSTANCE AbstractBroadcast
              WITH published <- Published, status <- [c \in Clients |-> Status(c)]

\* A client that is in the map gets every frame from the first broadcast after it
\* was added, each once and in order, until it is removed, and the next frame does
\* not start before every such client has the one before; although the list of
\* clients is copied, clients come and go while it is worked off, and a monitor,
\* broadcast and Stop may remove the same client at once (output.go:335, 559).
LockstepBroadcast == Abstract!Init /\ [][Abstract!Next]_(Abstract!vars)

\* As long as no two goroutines have been in the CSV writer at once, the file is the
\* beginning of the stream of frames, each once and in order, wherever the buffer was
\* full, a ticker came or a write failed half way; and after a Stop that did not time
\* out, if no write has failed, every frame that was taken from the channel is in it
\* to its last piece, what was left in the CSV buffer included (output.go:194, 482, 589).
FileComplete ==
  ~raced =>
    /\ \A i \in 1 .. Len(file) : file[i] = i
    /\ pc[Stopper] = "done" /\ ~timedOut /\ config.file /\ faults = 0 =>
         Len(file) = frame * RowLength

\* One client cannot hold up the output for good by not reading: its monitor finds
\* it idle and closes the connection under the write.  The one case in which it
\* does not is that the client has sent something, for then the monitor waits for
\* the lock that broadcast holds during the write (output.go:329, 575).
OutputGoesOn ==
  pc[Process] = "write" ~> (pc[Process] # "write" \/ pc[current] = "lock")

\* Once Stop has begun every goroutine ends and Stop returns, whatever they were
\* doing: a write or a read is ended by closing the connection, also that of a
\* client which was accepted after Stop had looked at the map (output.go:618).
StopEndsAll == pc[Stopper] = "cancel" ~> (AllEnded /\ pc[Stopper] = "done")
==============================================================================
