------------------------------ MODULE TCPGateway ------------------------------
(***************************************************************************)
(* The TCP gateway of internal/gateway/tcp.go: the accept loop, one        *)
(* handler goroutine per connection, the map of connections keyed by       *)
(* remote address, and Stop, followed by what cmd/gateway/main.go does     *)
(* next: pipeline.Stop closes the channel the handlers send to.            *)
(*                                                                         *)
(* A connection is one accepted socket.  Two connections may have the same *)
(* remote address, but not at one time as far as the kernel can tell: the  *)
(* address is free again once the peer has reset the first connection or   *)
(* its handler has closed it.                                              *)
(*                                                                         *)
(* Broadcast has no caller and is left out.  A definition whose name ends  *)
(* in "_Faulty..." is a plausible bug in the definition that follows it;   *)
(* no behaviour of Spec uses it.                                           *)
(***************************************************************************)
EXTENDS Integers, FiniteSets

CONSTANTS Conns,           \* bound: the connections that are ever accepted
          Addrs,           \* remote addresses
          Accepter, Stopper, \* the accept loop; main, which calls Stop
          None,
          MaxConnections, AcceptBackoffThreshold

ASSUME GatewayAssumption ==
  /\ IsFiniteSet(Conns) /\ IsFiniteSet(Addrs)
  /\ Accepter \notin Conns /\ Stopper \notin Conns /\ Accepter # Stopper
  /\ None \notin Conns /\ None \notin Addrs
  /\ MaxConnections \in Nat \ {0}
  /\ AcceptBackoffThreshold \in Nat

Threads == Conns \cup {Accepter, Stopper}

VARIABLES
  running, cancelled,
  listening,       \* the listener is open
  connections,     \* address -> the connection in the map, or None
  wg,              \* counter of the WaitGroup, and
  waiter,          \* the goroutine Stop starts to wait for it
  acceptErrors,
  pc,              \* thread -> what it does next
  inHand,          \* the connection the accept loop holds
  sock, addr,      \* connection -> state of its socket, remote address
  closed,          \* connection -> the flag of that name
  toClose, closing, \* Stop's snapshot, and the connection it is closing
  chanClosed,      \* pipeline.Stop has closed rawDataChan
  panicked,        \* a handler has sent on the closed channel
  crashed,         \* the process is gone
  timedOut,        \* Stop has returned with handlers still running
  overwritten      \* an entry of the map was overwritten (not in the code)

acceptVars == <<connections, acceptErrors, inHand, addr, overwritten>>
stopVars   == <<running, cancelled, listening, toClose, closing, chanClosed, timedOut>>
waitVars   == <<wg, waiter, crashed>>
connVars   == <<sock, closed>>
vars == <<acceptVars, stopVars, waitVars, connVars, pc, panicked>>

Goto(t, label) == pc' = [pc EXCEPT ![t] = label]

Init ==
  /\ running = FALSE /\ cancelled = FALSE /\ listening = FALSE
  /\ connections = [a \in Addrs |-> None]
  /\ wg = 0 /\ waiter = "none"
  /\ acceptErrors = 0
  /\ pc = [t \in Threads |-> IF t = Stopper THEN "new" ELSE "off"]
  /\ inHand = None
  /\ sock = [k \in Conns |-> "unused"] /\ addr = [k \in Conns |-> None]
  /\ closed = [k \in Conns |-> FALSE]
  /\ toClose = {} /\ closing = None
  /\ chanClosed = FALSE /\ panicked = FALSE /\ crashed = FALSE
  /\ timedOut = FALSE /\ overwritten = FALSE

Start ==
  /\ pc[Stopper] = "new"
  /\ running' = TRUE /\ listening' = TRUE
  /\ pc' = [pc EXCEPT ![Stopper] = "started", ![Accepter] = "loop"]
  /\ UNCHANGED <<acceptVars, waitVars, connVars, cancelled, toClose, closing,
                 chanClosed, timedOut, panicked>>

-----------------------------------------------------------------------------
\* acceptConnections.

AcceptCheck ==
  /\ pc[Accepter] = "loop"
  /\ Goto(Accepter, IF running /\ ~cancelled THEN "accept" ELSE "done")
  /\ UNCHANGED <<acceptVars, stopVars, waitVars, connVars, panicked>>

AcceptOk(k, a) ==
  /\ pc[Accepter] = "accept" /\ listening
  /\ sock[k] = "unused"
  /\ \A other \in Conns : sock[other] = "open" => addr[other] # a
  /\ sock' = [sock EXCEPT ![k] = "open"]
  /\ addr' = [addr EXCEPT ![k] = a]
  /\ inHand' = k
  /\ acceptErrors' = 0
  /\ Goto(Accepter, "limit")
  /\ UNCHANGED <<connections, overwritten, stopVars, waitVars, closed, panicked>>

AcceptFail_FaultyGivesUp ==
  /\ pc[Accepter] = "accept"
  /\ acceptErrors' = IF acceptErrors > AcceptBackoffThreshold THEN acceptErrors
                     ELSE acceptErrors + 1
  /\ Goto(Accepter, IF ~running \/ acceptErrors' > AcceptBackoffThreshold
                    THEN "done" ELSE "loop")
  /\ UNCHANGED <<connections, inHand, addr, overwritten, stopVars, waitVars,
                 connVars, panicked>>

\* Accept fails: the listener is closed, or the system refuses.  Past the
\* threshold the loop backs off; the counter is only compared with it, and
\* does not grow any more in the model.
AcceptFail ==
  /\ pc[Accepter] = "accept"
  /\ IF ~running THEN Goto(Accepter, "done") /\ UNCHANGED acceptErrors
     ELSE /\ acceptErrors' = IF acceptErrors > AcceptBackoffThreshold
                             THEN acceptErrors ELSE acceptErrors + 1
          /\ Goto(Accepter, IF acceptErrors' > AcceptBackoffThreshold
                            THEN "backoff" ELSE "loop")
  /\ UNCHANGED <<connections, inHand, addr, overwritten, stopVars, waitVars,
                 connVars, panicked>>

Backoff ==
  /\ pc[Accepter] = "backoff"
  /\ Goto(Accepter, "loop") \/ (cancelled /\ Goto(Accepter, "done"))
  /\ UNCHANGED <<acceptVars, stopVars, waitVars, connVars, panicked>>

ConnectionCount == Cardinality({a \in Addrs : connections[a] # None})

Limit_FaultyOffByOne ==
  /\ pc[Accepter] = "limit"
  /\ IF ConnectionCount > MaxConnections
       THEN sock' = [sock EXCEPT ![inHand] = "closed"] /\ Goto(Accepter, "loop")
       ELSE Goto(Accepter, "insert") /\ UNCHANGED sock
  /\ UNCHANGED <<acceptVars, stopVars, waitVars, closed, panicked>>

\* A connection over the limit is closed at once.
Limit ==
  /\ pc[Accepter] = "limit"
  /\ IF ConnectionCount >= MaxConnections
       THEN sock' = [sock EXCEPT ![inHand] = "closed"] /\ Goto(Accepter, "loop")
       ELSE Goto(Accepter, "insert") /\ UNCHANGED sock
  /\ UNCHANGED <<acceptVars, stopVars, waitVars, closed, panicked>>

Insert ==
  /\ pc[Accepter] = "insert"
  /\ overwritten' = (overwritten \/ connections[addr[inHand]] # None)
  /\ connections' = [connections EXCEPT ![addr[inHand]] = inHand]
  /\ Goto(Accepter, "spawn")
  /\ UNCHANGED <<acceptErrors, inHand, addr, stopVars, waitVars, connVars, panicked>>

Spawn ==
  /\ pc[Accepter] = "spawn"
  /\ wg' = wg + 1
  /\ pc' = [pc EXCEPT ![Accepter] = "loop", ![inHand] = "loop"]
  /\ UNCHANGED <<acceptVars, stopVars, waiter, crashed, connVars, panicked>>

-----------------------------------------------------------------------------
\* handleConnection.

HandlerCheck_FaultyUnchecked(k) ==
  /\ pc[k] = "loop"
  /\ Goto(k, "read")
  /\ UNCHANGED <<acceptVars, stopVars, waitVars, connVars, panicked>>

HandlerCheck(k) ==
  /\ pc[k] = "loop"
  /\ Goto(k, IF running /\ ~cancelled THEN "read" ELSE "cleanup")
  /\ UNCHANGED <<acceptVars, stopVars, waitVars, connVars, panicked>>

\* SetReadDeadline and Read: data, the deadline (after which an idle connection
\* is given up), the end of the stream or an error.
Read(k) ==
  /\ pc[k] = "read"
  /\ \/ sock[k] = "open" /\ Goto(k, "send")
     \/ sock[k] = "open" /\ Goto(k, "loop")
     \/ Goto(k, "cleanup")
  /\ UNCHANGED <<acceptVars, stopVars, waitVars, connVars, panicked>>

\* The select that hands the bytes on, or drops them at a full channel; a send
\* on the closed channel panics, and the deferred cleanup runs all the same.
Hand(k) ==
  /\ pc[k] = "send"
  /\ \/ ~chanClosed /\ Goto(k, "loop") /\ UNCHANGED panicked
     \/ cancelled /\ Goto(k, "cleanup") /\ UNCHANGED panicked
     \/ chanClosed /\ Goto(k, "cleanup") /\ panicked' = TRUE
  /\ UNCHANGED <<acceptVars, stopVars, waitVars, connVars>>

Exit_FaultyNoDone(k) ==
  /\ pc[k] = "exit"
  /\ Goto(k, "gone")
  /\ UNCHANGED <<acceptVars, stopVars, waitVars, connVars, panicked>>

\* wg.Done in SafeGoWG.
Exit(k) ==
  /\ pc[k] = "exit"
  /\ Goto(k, "gone")
  /\ wg' = wg - 1
  /\ waiter' = IF wg' = 0 /\ waiter = "waiting" THEN "woken" ELSE waiter
  /\ UNCHANGED <<acceptVars, stopVars, crashed, connVars, panicked>>

-----------------------------------------------------------------------------
\* cleanupConnection, run by a handler for its own connection and by Stop for
\* each connection of its snapshot.

Target(t) == IF t = Stopper THEN closing ELSE t
Leave(t)  == Goto(t, IF t = Stopper THEN "next" ELSE "exit")

CleanupOnce_FaultyInverted(t) ==
  /\ pc[t] = "cleanup"
  /\ IF closed[Target(t)] THEN Goto(t, "close") ELSE Leave(t)
  /\ closed' = [closed EXCEPT ![Target(t)] = TRUE]
  /\ UNCHANGED <<acceptVars, stopVars, waitVars, sock, panicked>>

CleanupOnce(t) ==
  /\ pc[t] = "cleanup"
  /\ IF closed[Target(t)] THEN Leave(t) ELSE Goto(t, "close")
  /\ closed' = [closed EXCEPT ![Target(t)] = TRUE]
  /\ UNCHANGED <<acceptVars, stopVars, waitVars, sock, panicked>>

CleanupClose(t) ==
  /\ pc[t] = "close"
  /\ sock' = [sock EXCEPT ![Target(t)] = "closed"]
  /\ Goto(t, "delete")
  /\ UNCHANGED <<acceptVars, stopVars, waitVars, closed, panicked>>

\* Deletes the entry of the address, whichever connection is in it by now.
CleanupDelete(t) ==
  /\ pc[t] = "delete"
  /\ connections' = [connections EXCEPT ![addr[Target(t)]] = None]
  /\ Leave(t)
  /\ UNCHANGED <<acceptErrors, inHand, addr, overwritten, stopVars, waitVars,
                 connVars, panicked>>

Cleanup(t) == CleanupOnce(t) \/ CleanupClose(t) \/ CleanupDelete(t)

-----------------------------------------------------------------------------
\* Stop, and pipeline.Stop after it.

StopClearRunning ==
  /\ pc[Stopper] = "started"
  /\ Goto(Stopper, "cancel")
  /\ running' = FALSE
  /\ UNCHANGED <<acceptVars, waitVars, connVars, cancelled, listening, toClose,
                 closing, chanClosed, timedOut, panicked>>

StopCancel ==
  /\ pc[Stopper] = "cancel"
  /\ Goto(Stopper, "listener")
  /\ cancelled' = TRUE
  /\ UNCHANGED <<acceptVars, waitVars, connVars, running, listening, toClose,
                 closing, chanClosed, timedOut, panicked>>

StopListener ==
  /\ pc[Stopper] = "listener"
  /\ Goto(Stopper, "snapshot")
  /\ listening' = FALSE
  /\ UNCHANGED <<acceptVars, waitVars, connVars, running, cancelled, toClose,
                 closing, chanClosed, timedOut, panicked>>

StopSnapshot ==
  /\ pc[Stopper] = "snapshot"
  /\ Goto(Stopper, "next")
  /\ toClose' = {connections[a] : a \in Addrs} \ {None}
  /\ UNCHANGED <<acceptVars, waitVars, connVars, running, cancelled, listening,
                 closing, chanClosed, timedOut, panicked>>

StopNext(k) ==
  /\ pc[Stopper] = "next" /\ k \in toClose
  /\ Goto(Stopper, "cleanup")
  /\ toClose' = toClose \ {k} /\ closing' = k
  /\ UNCHANGED <<acceptVars, waitVars, connVars, running, cancelled, listening,
                 chanClosed, timedOut, panicked>>

StopStartWait ==
  /\ pc[Stopper] = "next" /\ toClose = {}
  /\ Goto(Stopper, "wait")
  /\ waiter' = "started"
  /\ UNCHANGED <<acceptVars, stopVars, wg, crashed, connVars, panicked>>

StopReturn_FaultyNoWait ==
  /\ pc[Stopper] = "wait"
  /\ Goto(Stopper, "stopped")
  /\ UNCHANGED <<acceptVars, waitVars, connVars, running, cancelled, listening,
                 toClose, closing, chanClosed, timedOut, panicked>>

\* The waiter has returned, or ten seconds have passed.
StopReturn ==
  /\ pc[Stopper] = "wait"
  /\ Goto(Stopper, "stopped")
  /\ timedOut' = (waiter # "returned")
  /\ UNCHANGED <<acceptVars, waitVars, connVars, running, cancelled, listening,
                 toClose, closing, chanClosed, panicked>>

PipelineClose ==
  /\ pc[Stopper] = "stopped"
  /\ Goto(Stopper, "done")
  /\ chanClosed' = TRUE
  /\ UNCHANGED <<acceptVars, waitVars, connVars, running, cancelled, listening,
                 toClose, closing, timedOut, panicked>>

\* WaitGroup.Wait in a plain goroutine.  A waiter that is woken looks at the
\* counter once more, and panics when it has been raised again; nothing in that
\* goroutine recovers, so the process ends.
WaitCall ==
  /\ waiter = "started"
  /\ waiter' = IF wg = 0 THEN "returned" ELSE "waiting"
  /\ UNCHANGED <<acceptVars, stopVars, wg, crashed, connVars, pc, panicked>>

WaitWoken ==
  /\ waiter = "woken"
  /\ IF wg = 0 THEN waiter' = "returned" /\ UNCHANGED <<crashed, pc>>
               ELSE /\ waiter' = "panicked" /\ crashed' = TRUE
                    /\ pc' = [t \in Threads |-> "killed"]
  /\ UNCHANGED <<acceptVars, stopVars, wg, connVars, panicked>>

-----------------------------------------------------------------------------
\* The peer resets its connection; the kernel forgets it, the program has not
\* noticed yet.
PeerReset(k) ==
  /\ sock[k] = "open"
  /\ sock' = [sock EXCEPT ![k] = "reset"]
  /\ UNCHANGED <<acceptVars, stopVars, waitVars, closed, pc, panicked>>

-----------------------------------------------------------------------------
AcceptLoop == AcceptCheck \/ Backoff \/ Limit \/ Insert \/ Spawn
Handler(k) == HandlerCheck(k) \/ Read(k) \/ Hand(k) \/ Cleanup(k) \/ Exit(k)
StopGoesOn ==
  \/ StopCancel \/ StopListener \/ StopSnapshot
  \/ \E k \in Conns : StopNext(k)
  \/ Cleanup(Stopper)
  \/ StopStartWait \/ StopReturn \/ PipelineClose
Wait == WaitCall \/ WaitWoken

Next ==
  \/ Start \/ AcceptLoop \/ AcceptFail
  \/ \E k \in Conns, a \in Addrs : AcceptOk(k, a)
  \/ \E k \in Conns : Handler(k) \/ PeerReset(k)
  \/ StopClearRunning \/ StopGoesOn \/ Wait

(***************************************************************************)
(* The goroutines run; a read has a deadline, so it ends; a closed         *)
(* listener refuses.  Nobody need connect, send, reset or stop.            *)
(***************************************************************************)
Fairness ==
  /\ WF_vars(AcceptLoop)
  /\ WF_vars(~listening /\ AcceptFail)
  /\ \A k \in Conns : WF_vars(Handler(k))
  /\ WF_vars(StopGoesOn)
  /\ WF_vars(Wait)

Spec == Init /\ [][Next]_vars
FairSpec == Spec /\ Fairness

-----------------------------------------------------------------------------
\* The connections that have a handler and whose socket is not closed.
Served == {k \in Conns : pc[k] \notin {"off", "gone", "killed"} /\ sock[k] # "closed"}

TypeOK ==
  /\ {running, cancelled, listening, chanClosed, panicked, crashed, timedOut,
      overwritten} \subseteq BOOLEAN
  /\ connections \in [Addrs -> Conns \cup {None}]
  /\ ~crashed => wg = Cardinality({k \in Conns : pc[k] \notin {"off", "gone"}})
  /\ waiter \in {"none", "started", "waiting", "woken", "returned", "panicked"}
  /\ acceptErrors \in 0 .. AcceptBackoffThreshold + 1
  /\ pc \in [Threads -> {"off", "new", "started", "loop", "accept", "limit",
                         "insert", "spawn", "backoff", "read", "send", "cleanup",
                         "close", "delete", "exit", "gone", "cancel", "listener",
                         "snapshot", "next", "wait", "stopped", "done", "killed"}]
  /\ inHand \in Conns \cup {None} /\ closing \in Conns \cup {None}
  /\ sock \in [Conns -> {"unused", "open", "reset", "closed"}]
  /\ addr \in [Conns -> Addrs \cup {None}]
  /\ closed \in [Conns -> BOOLEAN]
  /\ toClose \subseteq Conns

\* The connection limit holds between the check and the map, whatever handlers
\* clean up meanwhile (tcp.go:124-147, 215-234), as long as no address has come
\* back before its old entry was deleted.
LimitKept == ~overwritten => Cardinality(Served) <= MaxConnections

\* Stop leaves nobody waiting for a peer (tcp.go:98-213, 236-276): when it waits
\* for the handlers, none of them reads from an open socket - not even the
\* handler of a connection that was accepted too late for Stop's snapshot.
StopLeavesNoReader ==
  (~overwritten /\ pc[Stopper] \in {"wait", "stopped", "done"})
    => \A k \in Conns : pc[k] = "read" => sock[k] # "open"

\* A handler hits the channel that pipeline.Stop closes only if Stop had to give
\* up waiting for it (tcp.go:204-210, 262-272; cmd/gateway/main.go:245-276).
PanicNeedsTimeout == panicked => timedOut

\* After Stop every connection is closed in the end, the ones that were dropped
\* from the map by mistake as well: their reads have deadlines
\* (tcp.go:160-194, 215-276).
AllClosedAfterStop ==
  (pc[Stopper] = "wait") ~> (crashed \/ \A k \in Conns : sock[k] \in {"unused", "closed"})

\* Neither refused connections nor a series of accept errors ends the accept
\* loop: until Stop is called it always gets back to Accept (tcp.go:98-129).
AcceptingGoesOn ==
  (pc[Stopper] = "started") ~> (pc[Accepter] = "accept" \/ pc[Stopper] # "started")

\* The log says that connections over the limit are rejected (tcp.go:125): no
\* more than MaxConnections live ones are ever served.
ConnectionLimit == Cardinality({k \in Served : sock[k] = "open"}) <= MaxConnections

\* main recovers whatever panic stopping the gateway may raise
\* (cmd/gateway/main.go:246-253): stopping does not end the process.
StopSurvives == ~crashed
==============================================================================
