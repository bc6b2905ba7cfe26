--------------------------- MODULE TCPGatewayProofs ---------------------------
(***************************************************************************)
(* The limit of the TCP gateway and its Stop, for any number of            *)
(* connections and addresses and any limit.                                *)
(***************************************************************************)
EXTENDS TCPGateway, FiniteSetTheorems, TLAPS

Live == {k \in Conns : pc[k] \notin {"off", "gone"}}
Used == {a \in Addrs : connections[a] # None}

\* The accept loop has put the connection into the map.
Inserted(k) == pc[k] # "off" \/ (pc[Accepter] = "spawn" /\ inHand = k)

\* One of the two that may clean up the connection is at it.
HandlerCleans(k) == pc[k] \in {"close", "delete"}
StopCleans(k)    == closing = k /\ pc[Stopper] \in {"close", "delete"}

\* Nobody has deleted the entry of the connection yet.
Held(k) == Inserted(k) /\ (~closed[k] \/ HandlerCleans(k) \/ StopCleans(k))

Phased ==
  /\ pc[Stopper] \in {"new", "started", "cancel", "listener", "snapshot", "next", "cleanup",
                      "close", "delete", "wait", "stopped", "done"}
  /\ pc[Accepter] \in {"off", "loop", "accept", "limit", "insert", "spawn", "backoff", "done"}
  /\ \A k \in Conns : pc[k] \in {"off", "loop", "read", "send", "cleanup", "close", "delete",
                                 "exit", "gone"}
  /\ running => pc[Stopper] = "started"
  /\ pc[Stopper] = "new" => pc[Accepter] = "off"
  /\ pc[Stopper] \in {"wait", "stopped", "done"} => toClose = {}

\* What is known of the handlers when Stop has waited for them.
Waited ==
  /\ waiter # "none" => pc[Stopper] \in {"wait", "stopped", "done"}
  /\ waiter # "panicked"
  /\ chanClosed => pc[Stopper] = "done"
  /\ pc[Stopper] \in {"stopped", "done"} /\ ~timedOut => waiter = "returned"
  /\ waiter = "returned" => \A k \in Conns : pc[k] \notin {"read", "send"}

\* The life of a connection.
Lived ==
  /\ pc[Accepter] \in {"limit", "insert", "spawn"} =>
       /\ inHand \in Conns /\ pc[inHand] = "off"
       /\ addr[inHand] \in Addrs /\ sock[inHand] # "unused"
  /\ \A k \in Conns :
       /\ Inserted(k) => addr[k] \in Addrs /\ sock[k] # "unused"
       /\ closed[k] => Inserted(k)
       /\ closed[k] /\ sock[k] # "closed" =>
            pc[k] = "close" \/ (closing = k /\ pc[Stopper] = "close")
       /\ HandlerCleans(k) => closed[k] /\ ~StopCleans(k)
       /\ StopCleans(k) => closed[k]
  /\ \A a \in Addrs : connections[a] # None => Inserted(connections[a])
  /\ \A k \in toClose : Inserted(k)
  /\ pc[Stopper] \in {"cleanup", "close", "delete"} => closing \in Conns /\ Inserted(closing)

Mapped ==
  /\ Cardinality(Used) <= MaxConnections
  /\ pc[Accepter] = "insert" => Cardinality(Used) < MaxConnections
  /\ ~overwritten => \A k \in Conns : Held(k) => connections[addr[k]] = k

\* After Stop's snapshot whoever reads from an open socket is still on Stop's list.
Listed ==
  ~overwritten /\ pc[Stopper] \in {"next", "cleanup", "close", "delete", "wait", "stopped", "done"}
    => \A k \in Conns : pc[k] = "read" /\ sock[k] = "open" =>
         k \in toClose \/ (closing = k /\ pc[Stopper] \in {"cleanup", "close"})

Core == Phased /\ Waited /\ Lived /\ Mapped /\ Listed

IInv ==
  /\ TypeOK
  /\ crashed => waiter = "panicked" /\ \A t \in Threads : pc[t] = "killed"
  /\ panicked => timedOut /\ chanClosed
  /\ ~crashed => Core

Labels == {"off", "new", "started", "loop", "accept", "limit", "insert", "spawn", "backoff", "read",
           "send", "cleanup", "close", "delete", "exit", "gone", "cancel", "listener", "snapshot",
           "next", "wait", "stopped", "done", "killed"}

------------------------------------------------------------------------------
LEMMA ThreadFacts ==
  /\ Conns \subseteq Threads /\ Accepter \in Threads /\ Stopper \in Threads
  /\ Accepter # Stopper /\ Accepter \notin Conns /\ Stopper \notin Conns
  /\ None \notin Conns
BY GatewayAssumption DEF Threads

LEMMA InitIInv == Init => IInv
<1> SUFFICES ASSUME Init PROVE IInv
  OBVIOUS
<1>1. /\ \A t \in Threads \ {Stopper} : pc[t] = "off"
      /\ pc[Stopper] = "new"
  BY ThreadFacts DEF Init
<1>2. \A k \in Conns : pc[k] = "off" /\ ~closed[k] /\ sock[k] = "unused" /\ ~Inserted(k)
  BY <1>1, ThreadFacts DEF Init, Inserted
<1>3. TypeOK
  <2>1. {k \in Conns : pc[k] \notin {"off", "gone"}} = {}
    BY <1>2
  <2>2. wg = Cardinality({k \in Conns : pc[k] \notin {"off", "gone"}})
    BY <2>1, FS_EmptySet DEF Init
  <2>3. pc \in [Threads -> Labels]
    BY DEF Init, Labels
  <2>4. acceptErrors \in 0 .. AcceptBackoffThreshold + 1
    BY GatewayAssumption DEF Init
  <2> QED BY <2>2, <2>3, <2>4 DEF Init, TypeOK, Labels
<1>4. Phased /\ Waited
  BY <1>1, <1>2, ThreadFacts DEF Init, Phased, Waited
<1>5. Lived
  BY <1>1, <1>2, ThreadFacts DEF Init, Lived, HandlerCleans, StopCleans
<1>6. Mapped
  <2>1. Used = {}
    BY DEF Used, Init
  <2>2. Cardinality(Used) = 0
    BY <2>1, FS_EmptySet
  <2> QED BY <1>1, <1>2, <2>2, ThreadFacts, GatewayAssumption DEF Init, Mapped, Held
<1>7. Listed
  BY <1>1 DEF Listed
<1> QED BY <1>3, <1>4, <1>5, <1>6, <1>7 DEF IInv, Core, Init

\* One thread moves, and no handler begins or ends.
LEMMA Moved ==
  ASSUME IInv, NEW t \in Threads, NEW label \in Labels, Goto(t, label),
         t \in Conns => {pc[t], label} \cap {"off", "gone"} = {}
  PROVE  /\ pc' \in [Threads -> Labels] /\ Live' = Live
         /\ \A u \in Threads : pc'[u] = IF u = t THEN label ELSE pc[u]
<1>1. pc \in [Threads -> Labels]
  BY DEF IInv, TypeOK, Labels
<1>2. pc' = [pc EXCEPT ![t] = label]
  BY DEF Goto
<1>3. \A u \in Threads : pc'[u] = IF u = t THEN label ELSE pc[u]
  BY <1>1, <1>2
<1>4. \A k \in Conns : pc'[k] \in {"off", "gone"} <=> pc[k] \in {"off", "gone"}
  BY <1>3, ThreadFacts
<1> QED BY <1>1, <1>2, <1>3, <1>4 DEF Live

------------------------------------------------------------------------------
\* The accept loop.

LEMMA AcceptQuietIInv ==
  ASSUME IInv, ~crashed, AcceptCheck \/ Backoff \/ AcceptFail
  PROVE  IInv'
<1> USE ThreadFacts
<1>1. PICK label \in {"accept", "done", "loop", "backoff"} : Goto(Accepter, label)
  BY DEF AcceptCheck, Backoff, AcceptFail
<1>2. /\ UNCHANGED <<stopVars, waitVars, connVars, connections, inHand, addr, overwritten, panicked>>
      /\ pc[Accepter] \in {"loop", "accept", "backoff"}
      /\ acceptErrors' \in 0 .. AcceptBackoffThreshold + 1
  BY GatewayAssumption DEF AcceptCheck, Backoff, AcceptFail, acceptVars, IInv, TypeOK
<1>3. /\ pc' \in [Threads -> Labels] /\ Live' = Live
      /\ \A u \in Threads : pc'[u] = IF u = Accepter THEN label ELSE pc[u]
  BY <1>1, Moved DEF Labels
<1>4. TypeOK'
  BY <1>2, <1>3 DEF IInv, TypeOK, Live, Labels, stopVars, waitVars, connVars
<1> USE <1>2, <1>3 DEF IInv, Core, stopVars, waitVars, connVars
<1>5. Phased' /\ Waited'
  BY DEF Phased, Waited
<1>6. \A k \in Conns : /\ Inserted(k)' <=> Inserted(k)
                       /\ HandlerCleans(k)' <=> HandlerCleans(k)
                       /\ StopCleans(k)' <=> StopCleans(k)
  BY DEF Inserted, HandlerCleans, StopCleans
<1>7. Lived'
  BY <1>6 DEF Lived, TypeOK
<1>8. Mapped'
  BY <1>6 DEF Mapped, Held, Used
<1>9. Listed'
  BY DEF Listed
<1> QED BY <1>4, <1>5, <1>7, <1>8, <1>9

LEMMA AcceptOkIInv ==
  ASSUME IInv, ~crashed, NEW k \in Conns, NEW a \in Addrs, AcceptOk(k, a)
  PROVE  IInv'
<1> USE ThreadFacts
<1>1. /\ pc[Accepter] = "accept" /\ Goto(Accepter, "limit") /\ sock[k] = "unused"
      /\ sock' = [sock EXCEPT ![k] = "open"] /\ addr' = [addr EXCEPT ![k] = a]
      /\ inHand' = k /\ acceptErrors' = 0
      /\ UNCHANGED <<connections, overwritten, stopVars, waitVars, closed, panicked>>
  BY DEF AcceptOk
<1>2. /\ pc' \in [Threads -> Labels] /\ Live' = Live
      /\ \A u \in Threads : pc'[u] = IF u = Accepter THEN "limit" ELSE pc[u]
  BY <1>1, Moved DEF Labels
<1>3. ~Inserted(k) /\ pc[k] = "off"
  BY <1>1 DEF IInv, Core, Lived, Inserted
<1>4. TypeOK'
  <2>1. sock' \in [Conns -> {"unused", "open", "reset", "closed"}] /\ addr' \in [Conns -> Addrs \cup {None}]
    BY <1>1 DEF IInv, TypeOK
  <2>2. acceptErrors' \in 0 .. AcceptBackoffThreshold + 1 /\ inHand' \in Conns \cup {None}
    BY <1>1, GatewayAssumption
  <2>3. ~crashed' => wg' = Cardinality({k2 \in Conns : pc'[k2] \notin {"off", "gone"}})
    BY <1>1, <1>2 DEF IInv, TypeOK, Live, stopVars, waitVars
  <2> QED BY <1>1, <1>2, <2>1, <2>2, <2>3 DEF IInv, TypeOK, Labels, stopVars, waitVars
<1> USE <1>1, <1>2 DEF IInv, Core, stopVars, waitVars
<1>5. Phased' /\ Waited'
  BY DEF Phased, Waited
<1>6. \A j \in Conns : /\ Inserted(j)' <=> Inserted(j)
                       /\ HandlerCleans(j)' <=> HandlerCleans(j)
                       /\ StopCleans(j)' <=> StopCleans(j)
                       /\ sock'[j] = (IF j = k THEN "open" ELSE sock[j])
                       /\ addr'[j] = (IF j = k THEN a ELSE addr[j])
  BY DEF Inserted, HandlerCleans, StopCleans, TypeOK
<1>7. Lived'
  BY <1>3, <1>6 DEF Lived, TypeOK
<1>8. Mapped'
  BY <1>3, <1>6 DEF Mapped, Held, Used
<1>9. Listed'
  BY <1>3, <1>6 DEF Listed
<1> QED BY <1>4, <1>5, <1>7, <1>8, <1>9

LEMMA LimitIInv ==
  ASSUME IInv, ~crashed, Limit
  PROVE  IInv'
<1> USE ThreadFacts
<1>1. PICK label \in {"loop", "insert"} :
        /\ Goto(Accepter, label)
        /\ label = "insert" => ConnectionCount < MaxConnections /\ sock' = sock
        /\ label = "loop" => sock' = [sock EXCEPT ![inHand] = "closed"]
  <2>1. ConnectionCount \in Nat /\ MaxConnections \in Nat
    BY GatewayAssumption, FS_Subset, FS_CardinalityType DEF ConnectionCount
  <2> QED BY <2>1 DEF Limit
<1>2. /\ pc[Accepter] = "limit"
      /\ UNCHANGED <<acceptVars, stopVars, waitVars, closed, panicked>>
  BY DEF Limit
<1>3. /\ pc' \in [Threads -> Labels] /\ Live' = Live
      /\ \A u \in Threads : pc'[u] = IF u = Accepter THEN label ELSE pc[u]
  BY <1>1, Moved DEF Labels
<1>4. inHand \in Conns /\ pc[inHand] = "off" /\ ~Inserted(inHand)
  BY <1>2 DEF IInv, Core, Lived, Inserted
<1>5. \A j \in Conns : sock'[j] = sock[j] \/ (j = inHand /\ sock'[j] = "closed")
  BY <1>1, <1>4 DEF IInv, TypeOK
<1>6. TypeOK'
  BY <1>1, <1>2, <1>3, <1>4 DEF IInv, TypeOK, Live, Labels, acceptVars, stopVars, waitVars
<1> USE <1>2, <1>3 DEF IInv, Core, acceptVars, stopVars, waitVars
<1>7. Phased' /\ Waited'
  BY DEF Phased, Waited
<1>8. \A j \in Conns : /\ Inserted(j)' <=> Inserted(j)
                       /\ HandlerCleans(j)' <=> HandlerCleans(j)
                       /\ StopCleans(j)' <=> StopCleans(j)
  BY DEF Inserted, HandlerCleans, StopCleans
<1>9. Lived'
  BY <1>4, <1>5, <1>8 DEF Lived, TypeOK
<1>10. Mapped'
  <2>1. Used' = Used /\ ConnectionCount = Cardinality(Used)
    BY DEF Used, ConnectionCount
  <2>2. ~overwritten => \A j \in Conns : Held(j)' => connections[addr[j]] = j
    BY <1>8 DEF Mapped, Held
  <2> QED BY <1>1, <2>1, <2>2 DEF Mapped
<1>11. Listed'
  BY <1>5 DEF Listed
<1> QED BY <1>6, <1>7, <1>9, <1>10, <1>11

LEMMA InsertIInv ==
  ASSUME IInv, ~crashed, Insert
  PROVE  IInv'
<1> USE ThreadFacts
<1> DEFINE a == addr[inHand]
<1>1. /\ pc[Accepter] = "insert" /\ Goto(Accepter, "spawn")
      /\ connections' = [connections EXCEPT ![a] = inHand]
      /\ ~overwritten' => ~overwritten /\ connections[a] = None
      /\ overwritten' \in BOOLEAN
      /\ UNCHANGED <<acceptErrors, inHand, addr, stopVars, waitVars, connVars, panicked>>
  BY DEF Insert
<1>2. /\ pc' \in [Threads -> Labels] /\ Live' = Live
      /\ \A u \in Threads : pc'[u] = IF u = Accepter THEN "spawn" ELSE pc[u]
  BY <1>1, Moved DEF Labels
<1>3. /\ inHand \in Conns /\ pc[inHand] = "off" /\ ~Inserted(inHand) /\ a \in Addrs
      /\ sock[inHand] # "unused"
  BY <1>1 DEF IInv, Core, Lived, Inserted
<1>4. TypeOK'
  BY <1>1, <1>2, <1>3 DEF IInv, TypeOK, Live, Labels, stopVars, waitVars, connVars
<1> HIDE DEF a
<1> USE <1>1, <1>2 DEF IInv, Core, stopVars, waitVars, connVars
<1>5. Phased' /\ Waited'
  BY DEF Phased, Waited
<1>6. \A j \in Conns : /\ Inserted(j)' <=> Inserted(j) \/ j = inHand
                       /\ HandlerCleans(j)' <=> HandlerCleans(j)
                       /\ StopCleans(j)' <=> StopCleans(j)
  BY <1>3 DEF Inserted, HandlerCleans, StopCleans
<1>7. \A b \in Addrs : connections'[b] = IF b = a THEN inHand ELSE connections[b]
  BY <1>3 DEF TypeOK
<1>8. Lived'
  BY <1>3, <1>6, <1>7 DEF Lived, TypeOK, a
<1>9. Mapped'
  <2>1. Used' = Used \cup {a}
    BY <1>3, <1>7 DEF Used
  <2>2. IsFiniteSet(Used) /\ Cardinality(Used) \in Nat /\ Cardinality(Used) < MaxConnections
    BY GatewayAssumption, FS_Subset, FS_CardinalityType DEF Used, Mapped
  <2>3. Cardinality(Used') \in {Cardinality(Used), Cardinality(Used) + 1}
    BY <2>1, <2>2, FS_AddElement
  <2>4. Cardinality(Used') <= MaxConnections
    BY <2>2, <2>3, GatewayAssumption
  <2>5. ASSUME ~overwritten', NEW j \in Conns, Held(j)' PROVE connections'[addr[j]] = j
    <3>1. CASE j = inHand
      BY <1>3, <1>7, <3>1 DEF a
    <3>2. CASE j # inHand
      <4>1. Held(j) /\ addr[j] \in Addrs
        BY <1>6, <2>5, <3>2 DEF Held, Lived
      <4>2. connections[addr[j]] = j
        BY <2>5, <4>1 DEF Mapped
      <4>3. addr[j] # a
        BY <2>5, <4>2
      <4> QED BY <1>7, <4>1, <4>2, <4>3
    <3> QED BY <3>1, <3>2
  <2> QED BY <2>4, <2>5 DEF Mapped
<1>10. Listed'
  BY DEF Listed
<1> QED BY <1>4, <1>5, <1>8, <1>9, <1>10

LEMMA SpawnIInv ==
  ASSUME IInv, ~crashed, Spawn
  PROVE  IInv'
<1> USE ThreadFacts
<1>1. /\ pc[Accepter] = "spawn" /\ wg' = wg + 1
      /\ pc' = [pc EXCEPT ![Accepter] = "loop", ![inHand] = "loop"]
      /\ UNCHANGED <<acceptVars, stopVars, waiter, crashed, connVars, panicked>>
  BY DEF Spawn
<1>2. /\ inHand \in Conns /\ pc[inHand] = "off" /\ Inserted(inHand) /\ addr[inHand] \in Addrs
      /\ sock[inHand] # "unused"
  BY <1>1 DEF IInv, Core, Lived, Inserted
<1>3. /\ pc' \in [Threads -> Labels]
      /\ \A u \in Threads : pc'[u] = IF u \in {Accepter, inHand} THEN "loop" ELSE pc[u]
  BY <1>1, <1>2 DEF IInv, TypeOK, Labels
<1>4. TypeOK'
  <2>1. Live' = Live \cup {inHand} /\ inHand \notin Live
    BY <1>2, <1>3 DEF Live
  <2>2. IsFiniteSet(Live)
    BY GatewayAssumption, FS_Subset DEF Live
  <2>3. wg' = Cardinality(Live')
    <3>1. wg = Cardinality(Live)
      BY DEF IInv, TypeOK, Live
    <3> QED BY <1>1, <2>1, <2>2, <3>1, FS_AddElement
  <2> QED BY <1>1, <1>3, <2>3 DEF IInv, TypeOK, Live, Labels, acceptVars, stopVars, connVars
<1> USE <1>1, <1>2, <1>3 DEF IInv, Core, acceptVars, stopVars, connVars
<1>5. Phased' /\ Waited'
  BY DEF Phased, Waited
<1>6. \A j \in Conns : /\ Inserted(j)' <=> Inserted(j)
                       /\ HandlerCleans(j)' <=> HandlerCleans(j)
                       /\ StopCleans(j)' <=> StopCleans(j)
  BY DEF Inserted, HandlerCleans, StopCleans
<1>7. Lived'
  BY <1>6 DEF Lived, TypeOK
<1>8. Mapped'
  BY <1>6 DEF Mapped, Held, Used
<1>9. Listed'
  BY DEF Listed
<1> QED BY <1>4, <1>5, <1>7, <1>8, <1>9

------------------------------------------------------------------------------
\* The handlers.

LEMMA HandlerQuietIInv ==
  ASSUME IInv, ~crashed, NEW k \in Conns, HandlerCheck(k) \/ Read(k) \/ Hand(k)
  PROVE  IInv'
<1> USE ThreadFacts
<1>1. PICK label \in {"loop", "read", "send", "cleanup"} :
        /\ Goto(k, label)
        /\ label = "read" => running
        /\ label = "send" => pc[k] = "read"
  BY DEF HandlerCheck, Read, Hand
<1>2. /\ UNCHANGED <<acceptVars, stopVars, waitVars, connVars>>
      /\ pc[k] \in {"loop", "read", "send"}
      /\ panicked' = panicked \/ (panicked' = TRUE /\ chanClosed /\ pc[k] = "send")
  BY DEF HandlerCheck, Read, Hand
<1>3. /\ pc' \in [Threads -> Labels] /\ Live' = Live
      /\ \A u \in Threads : pc'[u] = IF u = k THEN label ELSE pc[u]
  BY <1>1, <1>2, Moved DEF Labels
<1>4. TypeOK'
  BY <1>2, <1>3 DEF IInv, TypeOK, Live, Labels, acceptVars, stopVars, waitVars, connVars
<1> USE <1>2, <1>3 DEF IInv, Core, acceptVars, stopVars, waitVars, connVars
<1>5. panicked' => timedOut /\ chanClosed
  BY DEF Waited
<1>6. Phased' /\ Waited'
  <2>1. Phased'
    BY DEF Phased
  <2>2. waiter = "returned" => label \notin {"read", "send"}
    BY <1>1 DEF Phased, Waited
  <2> QED BY <2>1, <2>2 DEF Waited
<1>7. \A j \in Conns : /\ Inserted(j)' <=> Inserted(j)
                       /\ HandlerCleans(j)' <=> HandlerCleans(j)
                       /\ StopCleans(j)' <=> StopCleans(j)
  BY DEF Inserted, HandlerCleans, StopCleans
<1>8. Lived'
  <2>1. pc'[Accepter] \in {"limit", "insert", "spawn"} => pc'[inHand] = "off"
    BY DEF Lived
  <2> QED BY <1>7, <2>1 DEF Lived, TypeOK
<1>9. Mapped'
  BY <1>7 DEF Mapped, Held, Used
<1>10. Listed'
  BY <1>1 DEF Listed, Phased
<1> QED BY <1>4, <1>5, <1>6, <1>8, <1>9, <1>10

LEMMA ExitIInv ==
  ASSUME IInv, ~crashed, NEW k \in Conns, Exit(k)
  PROVE  IInv'
<1> USE ThreadFacts
<1>1. /\ pc[k] = "exit" /\ Goto(k, "gone") /\ wg' = wg - 1
      /\ waiter' = IF wg' = 0 /\ waiter = "waiting" THEN "woken" ELSE waiter
      /\ UNCHANGED <<acceptVars, stopVars, crashed, connVars, panicked>>
  BY DEF Exit
<1>2. /\ pc' \in [Threads -> Labels]
      /\ \A u \in Threads : pc'[u] = IF u = k THEN "gone" ELSE pc[u]
  BY <1>1 DEF IInv, TypeOK, Labels, Goto
<1>3. TypeOK'
  <2>1. Live' = Live \ {k} /\ k \in Live
    BY <1>1, <1>2 DEF Live
  <2>2. IsFiniteSet(Live)
    BY GatewayAssumption, FS_Subset DEF Live
  <2>3. wg' = Cardinality(Live')
    <3>1. wg = Cardinality(Live)
      BY DEF IInv, TypeOK, Live
    <3> QED BY <1>1, <2>1, <2>2, <3>1, FS_RemoveElement
  <2> QED BY <1>1, <1>2, <2>3 DEF IInv, TypeOK, Live, Labels, acceptVars, stopVars, connVars
<1> USE <1>1, <1>2 DEF IInv, Core, acceptVars, stopVars, connVars
<1>4. Phased' /\ Waited'
  BY DEF Phased, Waited
<1>5. \A j \in Conns : /\ Inserted(j)' <=> Inserted(j)
                       /\ HandlerCleans(j)' <=> HandlerCleans(j)
                       /\ StopCleans(j)' <=> StopCleans(j)
  BY DEF Inserted, HandlerCleans, StopCleans
<1>6. Lived'
  <2>1. pc'[Accepter] \in {"limit", "insert", "spawn"} => pc'[inHand] = "off"
    BY DEF Lived
  <2> QED BY <1>5, <2>1 DEF Lived, TypeOK
<1>7. Mapped'
  BY <1>5 DEF Mapped, Held, Used
<1>8. Listed'
  BY DEF Listed
<1> QED BY <1>3, <1>4, <1>6, <1>7, <1>8

------------------------------------------------------------------------------
\* cleanupConnection, by a handler or by Stop.

Cleaners == Conns \cup {Stopper}

LEMMA TargetInserted ==
  ASSUME IInv, ~crashed, NEW t \in Cleaners, pc[t] \in {"cleanup", "close", "delete"}
  PROVE  /\ Target(t) \in Conns /\ Inserted(Target(t))
         /\ addr[Target(t)] \in Addrs /\ sock[Target(t)] # "unused"
         /\ pc[t] \in {"close", "delete"} => closed[Target(t)]
         /\ t \in Threads /\ t # Accepter
BY ThreadFacts DEF IInv, Core, Lived, Cleaners, Target, Inserted, HandlerCleans, StopCleans

\* Who cleans up moves on, and everything else that concerns threads is as before.
LEMMA CleanerMoves ==
  ASSUME IInv, ~crashed, NEW t \in Cleaners, pc[t] \in {"cleanup", "close", "delete"},
         NEW label \in {"close", "delete", "next", "exit"},
         label = "next" => t = Stopper, label = "exit" => t # Stopper, Goto(t, label),
         UNCHANGED <<acceptErrors, inHand, addr, overwritten, stopVars, waitVars, panicked>>
  PROVE  /\ pc' \in [Threads -> Labels] /\ Live' = Live
         /\ \A u \in Threads : pc'[u] = IF u = t THEN label ELSE pc[u]
         /\ Phased' /\ Waited'
         /\ \A j \in Conns : /\ Inserted(j)' <=> Inserted(j)
                             /\ t # j => (HandlerCleans(j)' <=> HandlerCleans(j))
                             /\ t # Stopper => (StopCleans(j)' <=> StopCleans(j))
         /\ Target(t)' = Target(t)
<1> USE ThreadFacts DEF stopVars, waitVars
<1>1. /\ pc' \in [Threads -> Labels] /\ Live' = Live
      /\ \A u \in Threads : pc'[u] = IF u = t THEN label ELSE pc[u]
  BY TargetInserted, Moved DEF Labels, Cleaners
<1>2. Phased'
  BY <1>1, TargetInserted DEF IInv, Core, Phased, Cleaners
<1>3. Waited'
  BY <1>1, TargetInserted DEF IInv, Core, Waited, Cleaners
<1>4. \A j \in Conns : /\ Inserted(j)' <=> Inserted(j)
                       /\ t # j => (HandlerCleans(j)' <=> HandlerCleans(j))
                       /\ t # Stopper => (StopCleans(j)' <=> StopCleans(j))
  BY <1>1, TargetInserted DEF Inserted, HandlerCleans, StopCleans, Cleaners
<1> QED BY <1>1, <1>2, <1>3, <1>4 DEF Target

LEMMA CleanupOnceIInv ==
  ASSUME IInv, ~crashed, NEW t \in Cleaners, CleanupOnce(t)
  PROVE  IInv'
<1> USE ThreadFacts
<1>1. PICK k \in Conns : k = Target(t) /\ Inserted(k)
  BY TargetInserted DEF CleanupOnce
<1>2. PICK label \in {"close", "next", "exit"} :
        /\ Goto(t, label)
        /\ label = "close" <=> ~closed[k]
        /\ label = "next" => t = Stopper
        /\ label = "exit" => t # Stopper
  BY <1>1 DEF CleanupOnce, Leave
<1>3. /\ pc[t] = "cleanup" /\ closed' = [closed EXCEPT ![k] = TRUE]
      /\ UNCHANGED <<acceptVars, stopVars, waitVars, sock, panicked>>
  BY <1>1 DEF CleanupOnce
<1>4. /\ pc' \in [Threads -> Labels] /\ Live' = Live
      /\ \A u \in Threads : pc'[u] = IF u = t THEN label ELSE pc[u]
      /\ Phased' /\ Waited'
      /\ \A j \in Conns : /\ Inserted(j)' <=> Inserted(j)
                          /\ t # j => (HandlerCleans(j)' <=> HandlerCleans(j))
                          /\ t # Stopper => (StopCleans(j)' <=> StopCleans(j))
  BY <1>2, <1>3, CleanerMoves DEF acceptVars
<1>5. \A j \in Conns : closed'[j] = (closed[j] \/ j = k)
  BY <1>3 DEF IInv, TypeOK
<1>6. TypeOK'
  BY <1>3, <1>4 DEF IInv, TypeOK, Live, Labels, acceptVars, stopVars, waitVars
<1>7. /\ t # Stopper => t = k
      /\ t = Stopper => closing = k
  BY <1>1 DEF Target
<1> USE <1>3, <1>4 DEF IInv, Core, acceptVars, stopVars, waitVars
<1>8. Lived'
  <2>1. ASSUME NEW j \in Conns
        PROVE  /\ HandlerCleans(j)' => closed'[j] /\ ~StopCleans(j)'
               /\ StopCleans(j)' => closed'[j]
    <3>1. CASE j # k
      <4>1. t # j /\ (HandlerCleans(j)' <=> HandlerCleans(j))
        BY <1>7, <3>1, ThreadFacts
      <4>2. StopCleans(j)' => StopCleans(j)
        BY <1>7, <3>1 DEF StopCleans
      <4> QED BY <1>5, <4>1, <4>2 DEF Lived
    <3>2. CASE j = k /\ t = Stopper
      <4>1. HandlerCleans(k)' <=> HandlerCleans(k)
        BY <3>2
      <4>2. HandlerCleans(k) => ~StopCleans(k)'
        BY <1>2, <3>2 DEF Lived, StopCleans
      <4> QED BY <1>5, <3>2, <4>1, <4>2
    <3>3. CASE j = k /\ t # Stopper
      <4>1. StopCleans(k)' <=> StopCleans(k)
        BY <3>3
      <4>2. StopCleans(k) => ~HandlerCleans(k)'
        BY <1>2, <1>7, <3>3 DEF Lived, HandlerCleans
      <4> QED BY <1>5, <3>3, <4>1, <4>2
    <3> QED BY <3>1, <3>2, <3>3
  <2>2. ASSUME NEW j \in Conns, closed'[j], sock'[j] # "closed"
        PROVE  (pc[j] = "close" \/ (closing = j /\ pc[Stopper] = "close"))'
    <3>1. CASE closed[j]
      <4>1. pc[j] = "close" \/ (closing = j /\ pc[Stopper] = "close")
        BY <2>2, <3>1 DEF Lived
      <4> QED BY <4>1
    <3>2. CASE ~closed[j]
      BY <1>2, <1>5, <1>7, <2>2, <3>2
    <3> QED BY <3>1, <3>2
  <2>3. pc'[Accepter] \in {"limit", "insert", "spawn"} => pc'[inHand] = "off"
    BY <1>1, <1>7 DEF Lived, Inserted
  <2>4. pc'[Stopper] \in {"cleanup", "close", "delete"} => closing \in Conns /\ Inserted(closing)
    BY <1>1, <1>2, <1>7 DEF Lived
  <2>5. \A j \in Conns : /\ Inserted(j)' => addr'[j] \in Addrs /\ sock'[j] # "unused"
                         /\ closed'[j] => Inserted(j)'
    BY <1>1, <1>5 DEF Lived
  <2>6. pc'[Accepter] = pc[Accepter]
    BY TargetInserted
  <2>7. pc'[Accepter] \in {"limit", "insert", "spawn"} =>
          inHand \in Conns /\ addr[inHand] \in Addrs /\ sock[inHand] # "unused"
    BY <2>6 DEF Lived
  <2>8. /\ \A a \in Addrs : connections'[a] # None => Inserted(connections[a])'
        /\ \A j \in toClose' : Inserted(j)'
    BY DEF Lived, TypeOK
  <2> QED BY <1>1, <1>4, <2>1, <2>2, <2>3, <2>4, <2>5, <2>7, <2>8 DEF Lived
<1>9. Mapped'
  <2>1. ASSUME NEW j \in Conns, Held(j)' PROVE Held(j)
    <3>1. CASE ~closed[j]
      BY <2>1, <3>1 DEF Held
    <3>2. CASE closed[j]
      <4>1. closed'[j] /\ Inserted(j) /\ (HandlerCleans(j)' \/ StopCleans(j)')
        BY <1>5, <2>1, <3>2 DEF Held
      <4>2. HandlerCleans(j)' => HandlerCleans(j)
        BY <1>2, <1>7, <3>2 DEF HandlerCleans
      <4>3. StopCleans(j)' => StopCleans(j)
        BY <1>2, <1>7, <3>2 DEF StopCleans
      <4> QED BY <4>1, <4>2, <4>3 DEF Held
    <3> QED BY <3>1, <3>2
  <2>2. pc'[Accepter] = pc[Accepter] /\ Used' = Used
    BY TargetInserted DEF Used
  <2> QED BY <2>1, <2>2 DEF Mapped
<1>10. Listed'
  <2>1. CASE t # Stopper
    BY <2>1 DEF Listed, Cleaners
  <2>2. CASE t = Stopper
    <3>1. ASSUME label = "next", pc[k] = "read" PROVE sock[k] = "closed"
      BY <1>2, <2>2, <3>1 DEF Lived
    <3> QED BY <1>2, <1>7, <2>2, <3>1 DEF Listed
  <2> QED BY <2>1, <2>2
<1> QED BY <1>4, <1>6, <1>8, <1>9, <1>10

LEMMA CleanupCloseIInv ==
  ASSUME IInv, ~crashed, NEW t \in Cleaners, CleanupClose(t)
  PROVE  IInv'
<1> USE ThreadFacts
<1>1. PICK k \in Conns : k = Target(t) /\ Inserted(k) /\ closed[k]
  BY TargetInserted DEF CleanupClose
<1>2. /\ pc[t] = "close" /\ Goto(t, "delete") /\ sock' = [sock EXCEPT ![k] = "closed"]
      /\ UNCHANGED <<acceptVars, stopVars, waitVars, closed, panicked>>
  BY <1>1 DEF CleanupClose
<1>3. /\ pc' \in [Threads -> Labels] /\ Live' = Live
      /\ \A u \in Threads : pc'[u] = IF u = t THEN "delete" ELSE pc[u]
      /\ Phased' /\ Waited'
      /\ \A j \in Conns : Inserted(j)' <=> Inserted(j)
  BY <1>2, CleanerMoves DEF acceptVars
<1>4. \A j \in Conns : /\ HandlerCleans(j)' <=> HandlerCleans(j)
                       /\ StopCleans(j)' <=> StopCleans(j)
  BY <1>2, <1>3 DEF HandlerCleans, StopCleans, stopVars
<1>5. \A j \in Conns : sock'[j] = IF j = k THEN "closed" ELSE sock[j]
  BY <1>2 DEF IInv, TypeOK
<1>6. TypeOK'
  BY <1>2, <1>3 DEF IInv, TypeOK, Live, Labels, acceptVars, stopVars, waitVars
<1>7. /\ t # Stopper => t = k
      /\ t = Stopper => closing = k
  BY <1>1 DEF Target
<1> USE <1>2, <1>3 DEF IInv, Core, acceptVars, stopVars, waitVars
<1>8. Lived'
  <2>1. pc'[Accepter] \in {"limit", "insert", "spawn"} => pc'[inHand] = "off"
    BY <1>1, <1>7 DEF Lived, Inserted
  <2>2. ASSUME NEW j \in Conns, closed'[j], sock'[j] # "closed"
        PROVE  (pc[j] = "close" \/ (closing = j /\ pc[Stopper] = "close"))'
    BY <1>5, <1>7, <2>2 DEF Lived
  <2>3. pc'[Accepter] = pc[Accepter]
    BY TargetInserted
  <2>4. pc'[Accepter] \in {"limit", "insert", "spawn"} =>
          inHand \in Conns /\ addr[inHand] \in Addrs /\ sock'[inHand] # "unused"
    BY <1>5, <2>3 DEF Lived
  <2>5. ASSUME NEW j \in Conns
        PROVE  /\ Inserted(j)' => addr'[j] \in Addrs /\ sock'[j] # "unused"
               /\ closed'[j] => Inserted(j)'
               /\ HandlerCleans(j)' => closed'[j] /\ ~StopCleans(j)'
               /\ StopCleans(j)' => closed'[j]
    BY <1>4, <1>5 DEF Lived
  <2>6. /\ \A a \in Addrs : connections'[a] # None => Inserted(connections[a])'
        /\ \A j \in toClose' : Inserted(j)'
    BY DEF Lived, TypeOK
  <2>7. pc'[Stopper] \in {"cleanup", "close", "delete"} => closing \in Conns /\ Inserted(closing)
    BY <1>1, <1>7 DEF Lived
  <2> QED BY <2>1, <2>2, <2>4, <2>5, <2>6, <2>7 DEF Lived
<1>9. Mapped'
  <2>1. pc'[Accepter] = pc[Accepter] /\ Used' = Used
    BY TargetInserted DEF Used
  <2>2. \A j \in Conns : Held(j)' => Held(j)
    BY <1>4 DEF Held
  <2> QED BY <2>1, <2>2 DEF Mapped
<1>10. Listed'
  BY <1>5, <1>7 DEF Listed, Cleaners
<1> QED BY <1>3, <1>6, <1>8, <1>9, <1>10

LEMMA CleanupDeleteIInv ==
  ASSUME IInv, ~crashed, NEW t \in Cleaners, CleanupDelete(t)
  PROVE  IInv'
<1> USE ThreadFacts
<1>1. PICK k \in Conns : k = Target(t) /\ Inserted(k) /\ closed[k] /\ addr[k] \in Addrs
  BY TargetInserted DEF CleanupDelete
<1>2. PICK label \in {"next", "exit"} :
        /\ Goto(t, label)
        /\ label = "next" <=> t = Stopper
  BY DEF CleanupDelete, Leave
<1>3. /\ pc[t] = "delete" /\ connections' = [connections EXCEPT ![addr[k]] = None]
      /\ UNCHANGED <<acceptErrors, inHand, addr, overwritten, stopVars, waitVars, connVars, panicked>>
  BY <1>1 DEF CleanupDelete
<1>4. /\ pc' \in [Threads -> Labels] /\ Live' = Live
      /\ \A u \in Threads : pc'[u] = IF u = t THEN label ELSE pc[u]
      /\ Phased' /\ Waited'
      /\ \A j \in Conns : Inserted(j)' <=> Inserted(j)
  BY <1>2, <1>3, CleanerMoves
<1>5. \A a \in Addrs : connections'[a] = IF a = addr[k] THEN None ELSE connections[a]
  BY <1>1, <1>3 DEF IInv, TypeOK
<1>6. TypeOK'
  BY <1>1, <1>3, <1>4 DEF IInv, TypeOK, Live, Labels, stopVars, waitVars, connVars
<1>7. /\ t # Stopper => t = k
      /\ t = Stopper => closing = k
  BY <1>1 DEF Target
<1> USE <1>3, <1>4 DEF IInv, Core, stopVars, waitVars, connVars
<1>8. \A j \in Conns : /\ HandlerCleans(j)' <=> HandlerCleans(j) /\ j # t
                       /\ StopCleans(j)' <=> StopCleans(j) /\ t # Stopper
  BY <1>2 DEF HandlerCleans, StopCleans, Cleaners
<1>9. sock[k] = "closed"
  BY <1>1, <1>7 DEF Lived, HandlerCleans, StopCleans, Cleaners
<1>10. Lived'
  <2>1. pc'[Accepter] \in {"limit", "insert", "spawn"} => pc'[inHand] = "off"
    BY <1>1, <1>7 DEF Lived, Inserted
  <2>2. ASSUME NEW j \in Conns, closed'[j], sock'[j] # "closed"
        PROVE  (pc[j] = "close" \/ (closing = j /\ pc[Stopper] = "close"))'
    BY <1>7, <1>9, <2>2 DEF Lived
  <2>3. pc'[Accepter] = pc[Accepter]
    BY TargetInserted
  <2>4. pc'[Accepter] \in {"limit", "insert", "spawn"} =>
          inHand \in Conns /\ addr[inHand] \in Addrs /\ sock'[inHand] # "unused"
    BY <2>3 DEF Lived
  <2>5. ASSUME NEW j \in Conns
        PROVE  /\ Inserted(j)' => addr'[j] \in Addrs /\ sock'[j] # "unused"
               /\ closed'[j] => Inserted(j)'
               /\ HandlerCleans(j)' => closed'[j] /\ ~StopCleans(j)'
               /\ StopCleans(j)' => closed'[j]
    BY <1>8 DEF Lived
  <2>6. ASSUME NEW a \in Addrs, connections'[a] # None PROVE Inserted(connections[a])'
    <3>1. connections'[a] = connections[a] /\ connections[a] \in Conns
      BY <1>5, <2>6 DEF TypeOK
    <3>2. Inserted(connections[a])
      BY <2>6, <3>1 DEF Lived
    <3>3. ASSUME NEW j \in Conns, j = connections[a], j = connections'[a]
          PROVE  Inserted(connections[a])'
      BY <3>2, <3>3 DEF Inserted
    <3> QED BY <3>1, <3>3
  <2>7. \A j \in toClose' : Inserted(j)'
    BY DEF Lived, TypeOK
  <2>8. pc'[Stopper] \in {"cleanup", "close", "delete"} => closing \in Conns /\ Inserted(closing)
    BY <1>1, <1>2, <1>7 DEF Lived
  <2> QED BY <2>1, <2>2, <2>4, <2>5, <2>6, <2>7, <2>8 DEF Lived
<1>11. Mapped'
  <2>1. pc'[Accepter] = pc[Accepter] /\ Used' \subseteq Used
    BY <1>5, TargetInserted DEF Used
  <2>2. Cardinality(Used') <= Cardinality(Used) /\ Cardinality(Used') \in Nat /\ Cardinality(Used) \in Nat
    BY <2>1, GatewayAssumption, FS_Subset, FS_CardinalityType DEF Used
  <2>3. ASSUME ~overwritten, NEW j \in Conns, Held(j)' PROVE connections'[addr[j]] = j
    <3>1. Held(j) /\ j # k /\ addr[j] \in Addrs
      BY <1>1, <1>7, <1>8, <2>3 DEF Held, Lived, StopCleans, HandlerCleans, Cleaners
    <3>2. Held(k)
      BY <1>1, <1>7 DEF Held, StopCleans, HandlerCleans, Cleaners
    <3>3. connections[addr[j]] = j /\ connections[addr[k]] = k
      BY <2>3, <3>1, <3>2 DEF Mapped
    <3> QED BY <1>5, <3>1, <3>3
  <2> QED BY <2>1, <2>2, <2>3, GatewayAssumption DEF Mapped
<1>12. Listed'
  BY <1>2, <1>7, <1>9 DEF Listed, Cleaners
<1> QED BY <1>4, <1>6, <1>10, <1>11, <1>12

------------------------------------------------------------------------------
\* Stop, the waiter, and the peers.

LEMMA StartIInv ==
  ASSUME IInv, ~crashed, Start
  PROVE  IInv'
<1> USE ThreadFacts
<1>1. /\ pc[Stopper] = "new" /\ running' = TRUE /\ listening' = TRUE
      /\ pc' = [pc EXCEPT ![Stopper] = "started", ![Accepter] = "loop"]
      /\ UNCHANGED <<acceptVars, waitVars, connVars, cancelled, toClose, closing,
                     chanClosed, timedOut, panicked>>
  BY DEF Start
<1>2. /\ pc' \in [Threads -> Labels]
      /\ \A u \in Threads : pc'[u] = CASE u = Stopper -> "started" [] u = Accepter -> "loop"
                                       [] OTHER -> pc[u]
  BY <1>1 DEF IInv, TypeOK, Labels
<1>3. TypeOK'
  <2>1. Live' = Live
    BY <1>2 DEF Live
  <2> QED BY <1>1, <1>2, <2>1 DEF IInv, TypeOK, Live, Labels, acceptVars, waitVars, connVars
<1> USE <1>1, <1>2 DEF IInv, Core, acceptVars, waitVars, connVars
<1>4. Phased' /\ Waited'
  BY DEF Phased, Waited
<1>5. \A j \in Conns : /\ Inserted(j)' <=> Inserted(j)
                       /\ HandlerCleans(j)' <=> HandlerCleans(j)
                       /\ StopCleans(j)' <=> StopCleans(j)
  BY DEF Inserted, HandlerCleans, StopCleans, Phased
<1>6. Lived'
  BY <1>5 DEF Lived, TypeOK
<1>7. Mapped'
  BY <1>5 DEF Mapped, Held, Used
<1>8. Listed'
  BY DEF Listed
<1> QED BY <1>3, <1>4, <1>6, <1>7, <1>8

\* Stop before it looks at the map.
LEMMA StopBeginsIInv ==
  ASSUME IInv, ~crashed, StopClearRunning \/ StopCancel \/ StopListener
  PROVE  IInv'
<1> USE ThreadFacts
<1>1. PICK label \in {"cancel", "listener", "snapshot"} : Goto(Stopper, label)
  BY DEF StopClearRunning, StopCancel, StopListener
<1>2. /\ pc[Stopper] \in {"started", "cancel", "listener"}
      /\ UNCHANGED <<acceptVars, waitVars, connVars, toClose, closing, chanClosed, timedOut, panicked>>
  BY DEF StopClearRunning, StopCancel, StopListener
<1>3. ~running' /\ {running', cancelled', listening'} \subseteq BOOLEAN
  <2>1. running' = FALSE \/ (running' = running /\ pc[Stopper] # "started")
    BY DEF StopClearRunning, StopCancel, StopListener
  <2>2. cancelled' \in {cancelled, TRUE} /\ listening' \in {listening, FALSE}
    BY DEF StopClearRunning, StopCancel, StopListener
  <2>3. ~running'
    BY <2>1 DEF IInv, Core, Phased
  <2>4. {running', cancelled', listening'} \subseteq BOOLEAN
    BY <2>1, <2>2 DEF IInv, TypeOK
  <2> QED BY <2>3, <2>4
<1>4. /\ pc' \in [Threads -> Labels] /\ Live' = Live
      /\ \A u \in Threads : pc'[u] = IF u = Stopper THEN label ELSE pc[u]
  BY <1>1, Moved DEF Labels
<1>5. TypeOK'
  BY <1>2, <1>3, <1>4 DEF IInv, TypeOK, Live, Labels, acceptVars, waitVars, connVars
<1> USE <1>2, <1>4 DEF IInv, Core, acceptVars, waitVars, connVars
<1>6. Phased' /\ Waited'
  BY <1>3 DEF Phased, Waited
<1>7. \A j \in Conns : /\ Inserted(j)' <=> Inserted(j)
                       /\ HandlerCleans(j)' <=> HandlerCleans(j)
                       /\ StopCleans(j)' <=> StopCleans(j)
  BY DEF Inserted, HandlerCleans, StopCleans
<1>8. Lived'
  BY <1>7 DEF Lived, TypeOK
<1>9. Mapped'
  BY <1>7 DEF Mapped, Held, Used
<1>10. Listed'
  BY DEF Listed
<1> QED BY <1>5, <1>6, <1>8, <1>9, <1>10

LEMMA StopSnapshotIInv ==
  ASSUME IInv, ~crashed, StopSnapshot
  PROVE  IInv'
<1> USE ThreadFacts
<1>1. /\ pc[Stopper] = "snapshot" /\ Goto(Stopper, "next")
      /\ toClose' = {connections[a] : a \in Addrs} \ {None}
      /\ UNCHANGED <<acceptVars, waitVars, connVars, running, cancelled, listening,
                     closing, chanClosed, timedOut, panicked>>
  BY DEF StopSnapshot
<1>2. /\ pc' \in [Threads -> Labels] /\ Live' = Live
      /\ \A u \in Threads : pc'[u] = IF u = Stopper THEN "next" ELSE pc[u]
  BY <1>1, Moved DEF Labels
<1>3. toClose' \subseteq Conns /\ \A j \in toClose' : Inserted(j)
  BY <1>1 DEF IInv, TypeOK, Core, Lived
<1>4. TypeOK'
  BY <1>1, <1>2, <1>3 DEF IInv, TypeOK, Live, Labels, acceptVars, waitVars, connVars
<1> USE <1>1, <1>2 DEF IInv, Core, acceptVars, waitVars, connVars
<1>5. Phased' /\ Waited'
  BY DEF Phased, Waited
<1>6. \A j \in Conns : /\ Inserted(j)' <=> Inserted(j)
                       /\ HandlerCleans(j)' <=> HandlerCleans(j)
                       /\ StopCleans(j)' <=> StopCleans(j)
  BY DEF Inserted, HandlerCleans, StopCleans
<1>7. Lived'
  BY <1>3, <1>6 DEF Lived, TypeOK
<1>8. Mapped'
  BY <1>6 DEF Mapped, Held, Used
<1>9. Listed'
  <2>1. ASSUME ~overwritten, NEW j \in Conns, pc[j] = "read", sock[j] = "open"
        PROVE  j \in toClose'
    <3>1. Inserted(j) /\ ~closed[j] /\ addr[j] \in Addrs
      BY <2>1 DEF Inserted, Lived
    <3>2. connections[addr[j]] = j
      BY <2>1, <3>1 DEF Mapped, Held
    <3> QED BY <3>1, <3>2
  <2> QED BY <2>1 DEF Listed
<1> QED BY <1>4, <1>5, <1>7, <1>8, <1>9

LEMMA StopNextIInv ==
  ASSUME IInv, ~crashed, NEW k \in Conns, StopNext(k)
  PROVE  IInv'
<1> USE ThreadFacts
<1>1. /\ pc[Stopper] = "next" /\ k \in toClose /\ Goto(Stopper, "cleanup")
      /\ toClose' = toClose \ {k} /\ closing' = k
      /\ UNCHANGED <<acceptVars, waitVars, connVars, running, cancelled, listening,
                     chanClosed, timedOut, panicked>>
  BY DEF StopNext
<1>2. /\ pc' \in [Threads -> Labels] /\ Live' = Live
      /\ \A u \in Threads : pc'[u] = IF u = Stopper THEN "cleanup" ELSE pc[u]
  BY <1>1, Moved DEF Labels
<1>3. TypeOK'
  BY <1>1, <1>2 DEF IInv, TypeOK, Live, Labels, acceptVars, waitVars, connVars
<1> USE <1>1, <1>2 DEF IInv, Core, acceptVars, waitVars, connVars
<1>4. Phased' /\ Waited'
  BY DEF Phased, Waited
<1>5. \A j \in Conns : /\ Inserted(j)' <=> Inserted(j)
                       /\ HandlerCleans(j)' <=> HandlerCleans(j)
                       /\ StopCleans(j)' <=> StopCleans(j)
  BY DEF Inserted, HandlerCleans, StopCleans
<1>6. Lived'
  BY <1>5 DEF Lived, TypeOK
<1>7. Mapped'
  BY <1>5 DEF Mapped, Held, Used
<1>8. Listed'
  BY DEF Listed
<1> QED BY <1>3, <1>4, <1>6, <1>7, <1>8

LEMMA StopEndsIInv ==
  ASSUME IInv, ~crashed, StopStartWait \/ StopReturn \/ PipelineClose
  PROVE  IInv'
<1> USE ThreadFacts
<1>1. PICK label \in {"wait", "stopped", "done"} :
        /\ Goto(Stopper, label)
        /\ label = "wait" <=> pc[Stopper] = "next"
        /\ label = "stopped" <=> pc[Stopper] = "wait"
        /\ label = "done" <=> pc[Stopper] = "stopped"
  BY DEF StopStartWait, StopReturn, PipelineClose
<1>2. /\ pc[Stopper] \in {"next", "wait", "stopped"}
      /\ UNCHANGED <<acceptVars, connVars, wg, crashed, running, cancelled, listening, toClose, closing,
                     panicked>>
      /\ IF pc[Stopper] = "next" THEN waiter' = "started" /\ toClose = {} ELSE waiter' = waiter
      /\ IF pc[Stopper] = "wait" THEN timedOut' = (waiter # "returned") ELSE timedOut' = timedOut
      /\ IF pc[Stopper] = "stopped" THEN chanClosed' = TRUE ELSE chanClosed' = chanClosed
  BY DEF StopStartWait, StopReturn, PipelineClose, stopVars, waitVars
<1>3. /\ pc' \in [Threads -> Labels] /\ Live' = Live
      /\ \A u \in Threads : pc'[u] = IF u = Stopper THEN label ELSE pc[u]
  BY <1>1, Moved DEF Labels
<1>4. TypeOK'
  <2>1. {timedOut', chanClosed'} \subseteq BOOLEAN
    BY <1>2 DEF IInv, TypeOK
  <2> QED BY <1>2, <1>3, <2>1 DEF IInv, TypeOK, Live, Labels, acceptVars, connVars
<1> USE <1>2, <1>3 DEF IInv, Core, acceptVars, connVars
<1>5. panicked' => timedOut' /\ chanClosed'
  BY DEF Waited
<1>6. Phased'
  BY DEF Phased
<1>7. Waited'
  BY <1>1 DEF Waited, Phased
<1>8. \A j \in Conns : /\ Inserted(j)' <=> Inserted(j)
                       /\ HandlerCleans(j)' <=> HandlerCleans(j)
                       /\ StopCleans(j)' <=> StopCleans(j)
  BY DEF Inserted, HandlerCleans, StopCleans
<1>9. Lived'
  BY <1>8 DEF Lived, TypeOK
<1>10. Mapped'
  BY <1>8 DEF Mapped, Held, Used
<1>11. Listed'
  BY DEF Listed
<1> QED BY <1>4, <1>5, <1>6, <1>7, <1>9, <1>10, <1>11

LEMMA WaitIInv ==
  ASSUME IInv, ~crashed, Wait
  PROVE  IInv'
<1> USE ThreadFacts
<1>1. CASE WaitWoken /\ wg # 0
  <2>1. /\ waiter' = "panicked" /\ crashed' = TRUE /\ pc' = [t \in Threads |-> "killed"]
        /\ UNCHANGED <<acceptVars, stopVars, wg, connVars, panicked>>
    BY <1>1 DEF WaitWoken
  <2>2. TypeOK'
    BY <2>1 DEF IInv, TypeOK, acceptVars, stopVars, connVars
  <2> QED BY <2>1, <2>2 DEF IInv, stopVars
<1>2. CASE ~(WaitWoken /\ wg # 0)
  <2>1. /\ UNCHANGED <<acceptVars, stopVars, wg, crashed, connVars, pc, panicked>>
        /\ waiter' \in {"returned", "waiting"} /\ waiter \in {"started", "woken"}
        /\ waiter' = "returned" => wg = 0
    BY <1>2 DEF Wait, WaitCall, WaitWoken
  <2>2. TypeOK'
    BY <2>1 DEF IInv, TypeOK, acceptVars, stopVars, connVars
  <2>3. wg = 0 => Live = {}
    BY GatewayAssumption, FS_Subset, FS_EmptySet DEF IInv, TypeOK, Live
  <2>4. waiter' = "returned" => \A k \in Conns : pc[k] \notin {"read", "send"}
    BY <2>1, <2>3 DEF Live
  <2> USE <2>1 DEF IInv, Core, acceptVars, stopVars, connVars
  <2>5. Phased'
    BY DEF Phased
  <2>6. Waited'
    BY <2>4 DEF Waited
  <2>7. \A j \in Conns : /\ Inserted(j)' <=> Inserted(j)
                         /\ HandlerCleans(j)' <=> HandlerCleans(j)
                         /\ StopCleans(j)' <=> StopCleans(j)
    BY DEF Inserted, HandlerCleans, StopCleans
  <2>8. Lived'
    BY <2>7 DEF Lived, TypeOK
  <2>9. Mapped'
    BY <2>7 DEF Mapped, Held, Used
  <2>10. Listed'
    BY DEF Listed
  <2> QED BY <2>2, <2>5, <2>6, <2>8, <2>9, <2>10
<1> QED BY <1>1, <1>2

LEMMA PeerResetIInv ==
  ASSUME IInv, NEW k \in Conns, PeerReset(k)
  PROVE  IInv'
<1> USE ThreadFacts
<1>1. /\ sock[k] = "open" /\ sock' = [sock EXCEPT ![k] = "reset"]
      /\ UNCHANGED <<acceptVars, stopVars, waitVars, closed, pc, panicked>>
  BY DEF PeerReset
<1>2. TypeOK'
  BY <1>1 DEF IInv, TypeOK, acceptVars, stopVars, waitVars
<1> USE <1>1 DEF IInv, Core, acceptVars, stopVars, waitVars
<1>3. \A j \in Conns : sock'[j] = IF j = k THEN "reset" ELSE sock[j]
  BY DEF TypeOK
<1>4. ASSUME ~crashed PROVE Core'
  <2> USE <1>4
  <2>1. Phased' /\ Waited'
    BY DEF Phased, Waited
  <2>2. \A j \in Conns : /\ Inserted(j)' <=> Inserted(j)
                         /\ HandlerCleans(j)' <=> HandlerCleans(j)
                         /\ StopCleans(j)' <=> StopCleans(j)
    BY DEF Inserted, HandlerCleans, StopCleans
  <2>3. Lived'
    BY <1>3, <2>2 DEF Lived, TypeOK
  <2>4. Mapped'
    BY <2>2 DEF Mapped, Held, Used
  <2>5. Listed'
    BY <1>3 DEF Listed
  <2> QED BY <2>1, <2>3, <2>4, <2>5
<1> QED BY <1>2, <1>4

------------------------------------------------------------------------------
LEMMA NextIInv == IInv /\ [Next]_vars => IInv'
<1> SUFFICES ASSUME IInv, [Next]_vars PROVE IInv'
  OBVIOUS
<1>1. ASSUME NEW k \in Conns, PeerReset(k) PROVE IInv'
  BY <1>1, PeerResetIInv
<1>2. CASE UNCHANGED vars
  <2>1. TypeOK' /\ Phased' = Phased /\ Waited' = Waited
    BY <1>2 DEF vars, acceptVars, stopVars, waitVars, connVars, IInv, TypeOK, Phased, Waited
  <2>2. \A j \in Conns : /\ Inserted(j)' <=> Inserted(j)
                         /\ HandlerCleans(j)' <=> HandlerCleans(j)
                         /\ StopCleans(j)' <=> StopCleans(j)
    BY <1>2 DEF vars, acceptVars, stopVars, Inserted, HandlerCleans, StopCleans
  <2>3. ~crashed => Lived' /\ Mapped' /\ Listed'
    BY <1>2, <2>2
    DEF vars, acceptVars, stopVars, waitVars, connVars, IInv, TypeOK, Core, Lived, Mapped, Listed, Held,
        Used
  <2> QED BY <1>2, <2>1, <2>3 DEF IInv, Core, vars, stopVars, waitVars
<1>3. CASE crashed /\ Next
  <2>1. pc[Accepter] = "killed" /\ pc[Stopper] = "killed" /\ \A k \in Conns : pc[k] = "killed"
    BY <1>3, ThreadFacts DEF IInv
  <2>2. waiter = "panicked"
    BY <1>3 DEF IInv
  <2>3. \E k \in Conns : PeerReset(k)
    BY <1>3, <2>1, <2>2
    DEF Next, Start, AcceptLoop, AcceptCheck, Backoff, Limit, Insert, Spawn, AcceptFail, AcceptOk,
        Handler, HandlerCheck, Read, Hand, Exit, Cleanup, CleanupOnce, CleanupClose, CleanupDelete,
        StopClearRunning, StopGoesOn, StopCancel, StopListener, StopSnapshot, StopNext, StopStartWait,
        StopReturn, PipelineClose, Wait, WaitCall, WaitWoken
  <2> QED BY <1>1, <2>3
<1>4. CASE ~crashed /\ (Start \/ AcceptLoop \/ AcceptFail)
  BY <1>4, StartIInv, AcceptQuietIInv, LimitIInv, InsertIInv, SpawnIInv DEF AcceptLoop
<1>5. ASSUME ~crashed, NEW k \in Conns, NEW a \in Addrs, AcceptOk(k, a) PROVE IInv'
  BY <1>5, AcceptOkIInv
<1>6. ASSUME ~crashed, NEW t \in Cleaners, Cleanup(t) PROVE IInv'
  BY <1>6, CleanupOnceIInv, CleanupCloseIInv, CleanupDeleteIInv DEF Cleanup
<1>7. ASSUME ~crashed, NEW k \in Conns, Handler(k) PROVE IInv'
  BY <1>6, <1>7, HandlerQuietIInv, ExitIInv DEF Handler, Cleaners
<1>8. CASE ~crashed /\ (StopClearRunning \/ StopGoesOn)
  BY <1>6, <1>8, StopBeginsIInv, StopSnapshotIInv, StopNextIInv, StopEndsIInv DEF StopGoesOn, Cleaners
<1>9. CASE ~crashed /\ Wait
  BY <1>9, WaitIInv
<1> QED BY <1>1, <1>2, <1>3, <1>4, <1>5, <1>7, <1>8, <1>9 DEF Next

LEMMA IInvHolds == Spec => []IInv
BY InitIInv, NextIInv, PTL DEF Spec

\* The variables keep their types, and the WaitGroup's counter is the number of
\* handlers that have been started and have not ended (tcp.go:147, 160-163).
THEOREM GatewayTypeCorrect == Spec => []TypeOK
<1>1. IInv => TypeOK
  BY DEF IInv
<1> QED BY <1>1, IInvHolds, PTL

\* As long as no address has come back before its old entry was deleted, no more
\* connections are served than MaxConnections, although handlers and Stop clean up
\* between the check and the insertion (tcp.go:124-147, 215-234).
THEOREM LimitIsKept == Spec => []LimitKept
<1>1. ASSUME IInv, ~overwritten PROVE Cardinality(Served) <= MaxConnections
  <2>1. CASE crashed
    <3>1. Served = {}
      BY <1>1, <2>1, ThreadFacts DEF IInv, Served
    <3> QED BY <3>1, FS_EmptySet, GatewayAssumption
  <2>2. CASE ~crashed
    <3> USE <1>1, <2>2 DEF IInv, Core
    <3>1. \A k \in Served : addr[k] \in Addrs /\ connections[addr[k]] = k
      <4>1. ASSUME NEW k \in Served PROVE addr[k] \in Addrs /\ Held(k)
        BY <4>1 DEF Served, Inserted, Held, Lived, HandlerCleans, StopCleans
      <4> QED BY <4>1 DEF Mapped, Served
    <3> DEFINE f == [k \in Served |-> addr[k]]
    <3>2. f \in Injection(Served, Used)
      <4>1. \A k \in Served : f[k] \in Used
        BY <3>1, GatewayAssumption DEF Used, Served
      <4>2. \A k, j \in Served : f[k] = f[j] => k = j
        BY <3>1
      <4> QED BY <4>1, <4>2 DEF Injection, IsInjective
    <3> HIDE DEF f
    <3>3. IsFiniteSet(Used) /\ IsFiniteSet(Served)
      BY GatewayAssumption, FS_Subset DEF Used, Served
    <3>4. Cardinality(Served) <= Cardinality(Used)
      BY <3>2, <3>3, FS_Injection DEF ExistsInjection
    <3>5. Cardinality(Served) \in Nat /\ Cardinality(Used) \in Nat
      BY <3>3, FS_CardinalityType
    <3> QED BY <3>4, <3>5, GatewayAssumption DEF Mapped
  <2> QED BY <2>1, <2>2
<1>2. IInv => LimitKept
  BY <1>1 DEF LimitKept
<1> QED BY <1>2, IInvHolds, PTL

\* When Stop waits, no handler reads from an open socket, the handler of a
\* connection that was accepted too late for Stop's snapshot included
\* (tcp.go:98-213, 236-276).
THEOREM NoReaderAfterStop == Spec => []StopLeavesNoReader
<1>1. IInv => StopLeavesNoReader
  <2> SUFFICES ASSUME IInv, ~overwritten, pc[Stopper] \in {"wait", "stopped", "done"},
                      NEW k \in Conns, pc[k] = "read", sock[k] = "open", crashed \/ Core
               PROVE  FALSE
    BY DEF StopLeavesNoReader, IInv
  <2>1. ~crashed
    BY ThreadFacts DEF IInv
  <2> QED BY <2>1 DEF Core, Listed, Phased
<1> QED BY <1>1, IInvHolds, PTL

\* A handler sends on the channel that pipeline.Stop has closed only after a Stop
\* that gave up waiting (tcp.go:204-210, 262-272).
THEOREM PanicOnlyAfterTimeout == Spec => []PanicNeedsTimeout
<1>1. IInv => PanicNeedsTimeout
  BY DEF IInv, PanicNeedsTimeout
<1> QED BY <1>1, IInvHolds, PTL

------------------------------------------------------------------------------
\* Nothing is forgotten.

InHand(k) == pc[Accepter] \in {"limit", "insert", "spawn"} /\ inHand = k

\* A connection that has no handler is closed, or the accept loop holds it; one whose
\* handler has ended has been marked.
Ended ==
  \A k \in Conns : /\ pc[k] = "off" => sock[k] \in {"unused", "closed"} \/ InHand(k)
                   /\ pc[k] \in {"exit", "gone"} => closed[k]

\* Each entry is under the address of its connection, and somebody is going to delete it.
Owned ==
  \A a \in Addrs : connections[a] # None => addr[connections[a]] = a /\ Held(connections[a])

Tidy == ~crashed => Ended /\ Owned

\* A step that neither accepts nor cleans up.
LEMMA QuietTidy ==
  ASSUME IInv, Ended, Owned, ~crashed,
         UNCHANGED <<connections, addr, closed, inHand>>,
         \A j \in Conns : /\ sock'[j] = sock[j] \/ sock'[j] = "closed" \/ (sock[j] = "open" /\ sock'[j] = "reset")
                          /\ pc[j] = "off" <=> pc'[j] = "off"
                          /\ HandlerCleans(j)' <=> HandlerCleans(j)
                          /\ pc'[j] \in {"exit", "gone"} => pc[j] \in {"exit", "gone"}
                          /\ StopCleans(j) => StopCleans(j)'
                          /\ InHand(j) => InHand(j)' \/ sock'[j] = "closed",
         pc[Accepter] = "spawn" => pc'[Accepter] = "spawn"
  PROVE  Ended' /\ Owned'
<1>1. Ended'
  BY DEF Ended, IInv, TypeOK
<1>2. \A j \in Conns : Held(j) => Held(j)'
  BY DEF Held, Inserted
<1>3. \A a \in Addrs : connections[a] # None => connections[a] \in Conns
  BY DEF IInv, TypeOK
<1>4. ASSUME NEW a \in Addrs, connections[a] # None PROVE addr[connections[a]] = a /\ Held(connections[a])'
  <2>1. PICK j : j = connections[a]
    OBVIOUS
  <2>2. j \in Conns /\ addr[j] = a /\ Held(j)
    BY <1>3, <1>4, <2>1 DEF Owned
  <2>3. Held(j)'
    BY <1>2, <2>2
  <2> QED BY <2>1, <2>2, <2>3 DEF Held, Inserted, HandlerCleans, StopCleans
<1>5. Owned'
  BY <1>4 DEF Owned, Held, Inserted, HandlerCleans, StopCleans
<1> QED BY <1>1, <1>5

LEMMA AcceptLoopTidy ==
  ASSUME IInv, Ended, Owned, ~crashed, Start \/ AcceptCheck \/ Backoff \/ AcceptFail \/ Limit
  PROVE  Ended' /\ Owned'
<1> USE ThreadFacts
<1>1. /\ pc \in [Threads -> Labels] /\ sock \in [Conns -> {"unused", "open", "reset", "closed"}]
      /\ Phased /\ Lived
  BY DEF IInv, TypeOK, Labels, Core
<1>2. /\ UNCHANGED <<connections, addr, closed, inHand, closing>>
      /\ \A j \in Conns : pc'[j] = pc[j]
      /\ pc[Stopper] # "new" => pc'[Stopper] = pc[Stopper]
      /\ pc[Accepter] \notin {"insert", "spawn"}
      /\ \A j \in Conns : sock'[j] = sock[j] \/ sock'[j] = "closed"
      /\ \A j \in Conns : InHand(j) => InHand(j)' \/ sock'[j] = "closed"
  <2>1. CASE Limit
    <3>1. pc[Accepter] = "limit" /\ inHand \in Conns
      BY <1>1, <2>1 DEF Limit, Lived
    <3> QED BY <1>1, <2>1, <3>1 DEF Limit, Goto, InHand, acceptVars, stopVars
  <2>2. CASE Start
    BY <1>1, <2>2 DEF Start, InHand, acceptVars, connVars, Phased
  <2>3. CASE AcceptCheck \/ Backoff \/ AcceptFail
    BY <1>1, <2>3 DEF AcceptCheck, Backoff, AcceptFail, InHand, acceptVars, stopVars, connVars, Goto
  <2> QED BY <2>1, <2>2, <2>3
<1>3. \A j \in Conns : /\ HandlerCleans(j)' <=> HandlerCleans(j)
                       /\ StopCleans(j) => StopCleans(j)'
  BY <1>2 DEF HandlerCleans, StopCleans
<1> QED BY <1>2, <1>3, QuietTidy

LEMMA HandlerTidy ==
  ASSUME IInv, Ended, Owned, ~crashed, NEW k \in Conns,
         HandlerCheck(k) \/ Read(k) \/ Hand(k) \/ Exit(k) \/ PeerReset(k)
  PROVE  Ended' /\ Owned'
<1> USE ThreadFacts
<1>1. /\ pc \in [Threads -> Labels] /\ sock \in [Conns -> {"unused", "open", "reset", "closed"}]
  BY DEF IInv, TypeOK, Labels
<1>2. /\ UNCHANGED <<connections, addr, closed, inHand, closing>>
      /\ pc'[Stopper] = pc[Stopper] /\ pc'[Accepter] = pc[Accepter]
      /\ \A j \in Conns : sock'[j] = sock[j] \/ (sock[j] = "open" /\ sock'[j] = "reset")
      /\ \A j \in Conns : /\ pc[j] = "off" <=> pc'[j] = "off"
                          /\ HandlerCleans(j)' <=> HandlerCleans(j)
                          /\ pc'[j] \in {"exit", "gone"} => pc[j] \in {"exit", "gone"}
  BY <1>1 DEF HandlerCheck, Read, Hand, Exit, PeerReset, HandlerCleans, acceptVars, stopVars, connVars, Goto
<1>3. \A j \in Conns : (StopCleans(j) => StopCleans(j)') /\ (InHand(j) => InHand(j)')
  BY <1>2 DEF StopCleans, InHand
<1> QED BY <1>2, <1>3, QuietTidy

LEMMA StopTidy ==
  ASSUME IInv, Ended, Owned, ~crashed, ~crashed',
         \/ StopClearRunning \/ StopCancel \/ StopListener \/ StopSnapshot \/ \E k \in Conns : StopNext(k)
         \/ StopStartWait \/ StopReturn \/ PipelineClose \/ Wait \/ UNCHANGED vars
  PROVE  Ended' /\ Owned'
<1> USE ThreadFacts
<1>1. pc \in [Threads -> Labels]
  BY DEF IInv, TypeOK, Labels
<1>2. /\ UNCHANGED <<connections, addr, closed, inHand, sock>>
      /\ \A j \in Conns : pc'[j] = pc[j]
      /\ pc'[Accepter] = pc[Accepter]
      /\ pc[Stopper] \in {"close", "delete"} => UNCHANGED closing /\ pc'[Stopper] = pc[Stopper]
  BY <1>1
  DEF StopClearRunning, StopCancel, StopListener, StopSnapshot, StopNext, StopStartWait, StopReturn,
      PipelineClose, Wait, WaitCall, WaitWoken, acceptVars, stopVars, connVars, vars, Goto
<1>3. \A j \in Conns : /\ HandlerCleans(j)' <=> HandlerCleans(j)
                       /\ StopCleans(j) => StopCleans(j)'
                       /\ InHand(j) => InHand(j)'
  BY <1>2 DEF HandlerCleans, StopCleans, InHand
<1> QED BY <1>2, <1>3, QuietTidy

LEMMA AcceptedTidy ==
  ASSUME IInv, Ended, Owned, ~crashed, NEW k \in Conns, NEW a \in Addrs, AcceptOk(k, a)
  PROVE  Ended' /\ Owned'
<1> USE ThreadFacts
<1>1. /\ pc[Accepter] = "accept" /\ pc' = [pc EXCEPT ![Accepter] = "limit"] /\ sock[k] = "unused"
      /\ sock' = [sock EXCEPT ![k] = "open"] /\ addr' = [addr EXCEPT ![k] = a]
      /\ inHand' = k
      /\ UNCHANGED <<connections, closing, closed>>
  BY DEF AcceptOk, Goto, stopVars
<1>2. /\ pc \in [Threads -> Labels] /\ sock \in [Conns -> {"unused", "open", "reset", "closed"}]
      /\ connections \in [Addrs -> Conns \cup {None}] /\ addr \in [Conns -> Addrs \cup {None}] /\ Lived
  BY DEF IInv, TypeOK, Labels, Core
<1>3. /\ pc'[Accepter] = "limit" /\ \A u \in Conns \cup {Stopper} : pc'[u] = pc[u]
      /\ \A j \in Conns \ {k} : sock'[j] = sock[j] /\ addr'[j] = addr[j]
  BY <1>1, <1>2
<1>4. Ended'
  BY <1>1, <1>3 DEF Ended, InHand
<1>5. ~Inserted(k)
  BY <1>1, <1>2 DEF Lived, Inserted
<1>6. ASSUME NEW b \in Addrs, connections[b] # None
      PROVE  addr'[connections[b]] = b /\ Held(connections[b])'
  <2>1. PICK j : j = connections[b]
    OBVIOUS
  <2>2. j \in Conns /\ addr[j] = b /\ Held(j)
    BY <1>2, <1>6, <2>1 DEF Owned
  <2>3. j # k
    BY <1>5, <2>2 DEF Held
  <2>4. addr'[j] = b /\ Held(j)'
    BY <1>1, <1>3, <2>2, <2>3 DEF Held, Inserted, HandlerCleans, StopCleans
  <2> QED BY <1>1, <2>1, <2>4 DEF Held, Inserted, HandlerCleans, StopCleans
<1>7. Owned'
  BY <1>1, <1>6 DEF Owned, Held, Inserted, HandlerCleans, StopCleans
<1> QED BY <1>4, <1>7

LEMMA InsertTidy ==
  ASSUME IInv, Ended, Owned, ~crashed, Insert
  PROVE  Ended' /\ Owned'
<1> USE ThreadFacts
<1>1. /\ pc[Accepter] = "insert" /\ pc' = [pc EXCEPT ![Accepter] = "spawn"]
      /\ connections' = [connections EXCEPT ![addr[inHand]] = inHand]
      /\ UNCHANGED <<inHand, addr, closing, closed, sock>>
  BY DEF Insert, Goto, stopVars, connVars
<1>2. /\ pc \in [Threads -> Labels] /\ connections \in [Addrs -> Conns \cup {None}] /\ Lived
  BY DEF IInv, TypeOK, Labels, Core
<1>3. pc'[Accepter] = "spawn" /\ \A u \in Conns \cup {Stopper} : pc'[u] = pc[u]
  BY <1>1, <1>2
<1>4. Ended'
  BY <1>1, <1>3 DEF Ended, InHand
<1>5. inHand \in Conns /\ addr[inHand] \in Addrs /\ ~Inserted(inHand) /\ ~closed[inHand]
  BY <1>1, <1>2 DEF Lived, Inserted
<1>6. ASSUME NEW b \in Addrs, connections'[b] # None
      PROVE  \E j \in Conns : j = connections'[b] /\ addr'[j] = b /\ Held(j)'
  <2>1. CASE b = addr[inHand]
    <3>1. connections'[b] = inHand
      BY <1>1, <1>2, <2>1
    <3>2. Inserted(inHand)' /\ ~closed'[inHand]
      BY <1>1, <1>3, <1>5 DEF Inserted
    <3> QED BY <1>1, <1>5, <2>1, <3>1, <3>2 DEF Held
  <2>2. CASE b # addr[inHand]
    <3>1. PICK j \in Conns : j = connections[b] /\ j = connections'[b]
      BY <1>1, <1>2, <1>6, <2>2
    <3>2. addr[j] = b /\ Held(j)
      BY <1>6, <3>1 DEF Owned
    <3>3. Held(j)'
      BY <1>1, <1>3, <3>2 DEF Held, Inserted, HandlerCleans, StopCleans
    <3> QED BY <1>1, <3>1, <3>2, <3>3
  <2> QED BY <2>1, <2>2
<1>7. Owned'
  BY <1>6 DEF Owned, Held, Inserted, HandlerCleans, StopCleans
<1> QED BY <1>4, <1>7

LEMMA SpawnTidy ==
  ASSUME IInv, Ended, Owned, ~crashed, Spawn
  PROVE  Ended' /\ Owned'
<1> USE ThreadFacts
<1>1. /\ pc[Accepter] = "spawn" /\ pc' = [pc EXCEPT ![Accepter] = "loop", ![inHand] = "loop"]
      /\ UNCHANGED <<connections, inHand, addr, closing, closed, sock>>
  BY DEF Spawn, acceptVars, stopVars, connVars
<1>2. /\ pc \in [Threads -> Labels] /\ connections \in [Addrs -> Conns \cup {None}] /\ Lived
  BY DEF IInv, TypeOK, Labels, Core
<1>3. inHand \in Conns /\ pc[inHand] = "off"
  BY <1>1, <1>2 DEF Lived
<1>4. pc'[inHand] = "loop" /\ \A u \in (Conns \cup {Stopper}) \ {inHand} : pc'[u] = pc[u]
  BY <1>1, <1>2, <1>3
<1>5. Ended'
  BY <1>1, <1>3, <1>4 DEF Ended, InHand
<1>6. ASSUME NEW b \in Addrs, connections'[b] # None
      PROVE  \E j \in Conns : j = connections'[b] /\ addr'[j] = b /\ Held(j)'
  <2>1. PICK j \in Conns : j = connections[b] /\ addr[j] = b /\ Held(j)
    BY <1>1, <1>2, <1>6 DEF Owned
  <2>2. Held(j)'
    BY <1>1, <1>3, <1>4, <2>1 DEF Held, Inserted, HandlerCleans, StopCleans
  <2> QED BY <1>1, <2>1, <2>2
<1>7. Owned'
  BY <1>6 DEF Owned, Held, Inserted, HandlerCleans, StopCleans
<1> QED BY <1>5, <1>7

LEMMA CleanupTidy ==
  ASSUME IInv, Ended, Owned, ~crashed, NEW t \in Cleaners, Cleanup(t)
  PROVE  Ended' /\ Owned'
<1> USE ThreadFacts
<1>1. PICK k \in Conns : k = Target(t) /\ Inserted(k) /\ addr[k] \in Addrs /\ t \in Threads /\ t # Accepter
  BY TargetInserted DEF Cleanup, CleanupOnce, CleanupClose, CleanupDelete
<1>2. /\ pc \in [Threads -> Labels] /\ connections \in [Addrs -> Conns \cup {None}] /\ Lived
      /\ sock \in [Conns -> {"unused", "open", "reset", "closed"}] /\ closed \in [Conns -> BOOLEAN]
  BY DEF IInv, TypeOK, Labels, Core
<1>3. /\ t # Stopper => t = k
      /\ t = Stopper => closing = k
  BY <1>1 DEF Target
<1>4. PICK label \in {"close", "delete", "next", "exit"} :
        /\ pc' = [pc EXCEPT ![t] = label]
        /\ label = "exit" => t # Stopper
        /\ label = "close" <=> (pc[t] = "cleanup" /\ ~closed[k])
        /\ label = "delete" <=> pc[t] = "close"
  BY <1>1 DEF Cleanup, CleanupOnce, CleanupClose, CleanupDelete, Leave, Goto
<1>5. /\ UNCHANGED <<inHand, addr, closing>> /\ pc[t] \in {"cleanup", "close", "delete"}
      /\ \A j \in Conns : closed'[j] = (closed[j] \/ (j = k /\ pc[t] = "cleanup"))
      /\ \A j \in Conns : sock'[j] = sock[j] \/ sock'[j] = "closed"
      /\ \A b \in Addrs : connections'[b] = IF pc[t] = "delete" /\ b = addr[k] THEN None ELSE connections[b]
  <2>1. CASE CleanupOnce(t)
    BY <1>1, <1>2, <2>1 DEF CleanupOnce, acceptVars, stopVars
  <2>2. CASE CleanupClose(t)
    BY <1>1, <1>2, <2>2 DEF CleanupClose, acceptVars, stopVars
  <2>3. CASE CleanupDelete(t)
    BY <1>1, <1>2, <2>3 DEF CleanupDelete, stopVars, connVars
  <2> QED BY <2>1, <2>2, <2>3 DEF Cleanup
<1>6. pc'[t] = label /\ \A u \in Threads \ {t} : pc'[u] = pc[u]
  BY <1>1, <1>2, <1>4
<1>7. Ended'
  <2>1. label = "exit" => closed'[k] /\ t = k
    <3>1. pc[t] = "delete" => closed[k]
      BY <1>1, <1>3, TargetInserted
    <3> QED BY <1>3, <1>4, <1>5, <3>1
  <2>2. ASSUME NEW j \in Conns
        PROVE  /\ pc'[j] = "off" => sock'[j] \in {"unused", "closed"} \/ InHand(j)'
               /\ pc'[j] \in {"exit", "gone"} => closed'[j]
    <3>1. CASE j = t
      BY <1>3, <1>4, <1>6, <2>1, <3>1
    <3>2. CASE j # t
      <4>1. pc'[j] = pc[j] /\ pc'[Accepter] = pc[Accepter]
        BY <1>1, <1>6, <3>2
      <4> QED BY <1>5, <4>1 DEF Ended, InHand
    <3> QED BY <3>1, <3>2
  <2> QED BY <2>2 DEF Ended
<1>8. ASSUME NEW b \in Addrs, connections'[b] # None
      PROVE  \E j \in Conns : j = connections'[b] /\ addr'[j] = b /\ Held(j)'
  <2>1. connections'[b] = connections[b] /\ ~(pc[t] = "delete" /\ b = addr[k])
    BY <1>5, <1>8
  <2>2. PICK j \in Conns : j = connections[b] /\ addr[j] = b /\ Held(j)
    BY <1>2, <1>8, <2>1 DEF Owned
  <2>3. Inserted(j)'
    BY <1>1, <1>4, <1>5, <1>6, <2>2 DEF Held, Inserted
  <2>4. ~closed'[j] \/ HandlerCleans(j)' \/ StopCleans(j)'
    <3>1. CASE j # k
      <4>1. t # j /\ closed'[j] = closed[j]
        BY <1>2, <1>3, <1>5, <3>1
      <4>2. pc'[j] = pc[j] /\ (StopCleans(j) => StopCleans(j)')
        BY <1>3, <1>5, <1>6, <3>1, <4>1 DEF StopCleans
      <4> QED BY <2>2, <4>1, <4>2 DEF Held, HandlerCleans
    <3>2. CASE j = k
      <4>1. pc[t] # "delete"
        BY <2>1, <2>2, <3>2
      <4>2. label \in {"close", "delete"} => HandlerCleans(k)' \/ StopCleans(k)'
        BY <1>3, <1>5, <1>6 DEF HandlerCleans, StopCleans
      <4>3. CASE label \in {"close", "delete"}
        BY <3>2, <4>2, <4>3
      <4>4. CASE label \notin {"close", "delete"}
        <5>1. pc[t] = "cleanup" /\ closed[k]
          BY <1>4, <1>5, <4>1, <4>4
        <5>2. HandlerCleans(k) => HandlerCleans(k)'
          BY <1>3, <1>6, <5>1 DEF HandlerCleans
        <5>3. StopCleans(k) => StopCleans(k)'
          BY <1>3, <1>5, <1>6, <5>1 DEF StopCleans
        <5> QED BY <2>2, <3>2, <5>1, <5>2, <5>3 DEF Held
      <4> QED BY <4>3, <4>4
    <3> QED BY <3>1, <3>2
  <2>5. Held(j)'
    BY <2>3, <2>4 DEF Held
  <2> QED BY <1>5, <2>1, <2>2, <2>5
<1>9. Owned'
  BY <1>8 DEF Owned, Held, Inserted, HandlerCleans, StopCleans
<1> QED BY <1>7, <1>9

LEMMA NextTidy == IInv /\ Tidy /\ [Next]_vars => Tidy'
<1> SUFFICES ASSUME IInv, Tidy, [Next]_vars, ~crashed' PROVE Ended' /\ Owned'
  BY DEF Tidy
<1>1. ~crashed
  <2>1. crashed => crashed'
    BY DEF Next, Start, AcceptLoop, AcceptCheck, Backoff, Limit, Insert, Spawn, AcceptFail, AcceptOk,
           Handler, HandlerCheck, Read, Hand, Exit, Cleanup, CleanupOnce, CleanupClose, CleanupDelete,
           StopClearRunning, StopGoesOn, StopCancel, StopListener, StopSnapshot, StopNext, StopStartWait,
           StopReturn, PipelineClose, Wait, WaitCall, WaitWoken, PeerReset, waitVars, vars
  <2> QED BY <2>1
<1>2. Ended /\ Owned
  BY <1>1 DEF Tidy
<1>3. ASSUME NEW k \in Conns, Handler(k) \/ PeerReset(k) PROVE Ended' /\ Owned'
  BY <1>1, <1>2, <1>3, HandlerTidy, CleanupTidy DEF Handler, Cleaners
<1>4. ASSUME NEW k \in Conns, NEW a \in Addrs, AcceptOk(k, a) PROVE Ended' /\ Owned'
  BY <1>1, <1>2, <1>4, AcceptedTidy
<1>5. CASE Start \/ AcceptLoop \/ AcceptFail
  BY <1>1, <1>2, <1>5, AcceptLoopTidy, InsertTidy, SpawnTidy DEF AcceptLoop
<1>6. CASE StopClearRunning \/ StopGoesOn \/ Wait \/ UNCHANGED vars
  BY <1>1, <1>2, <1>6, StopTidy, CleanupTidy DEF StopGoesOn, Cleaners
<1> QED BY <1>3, <1>4, <1>5, <1>6 DEF Next

LEMMA InitTidy == Init => Tidy
<1> SUFFICES ASSUME Init PROVE Ended /\ Owned
  BY DEF Tidy
<1>1. \A k \in Conns : pc[k] = "off" /\ sock[k] = "unused"
  BY ThreadFacts DEF Init
<1>2. \A a \in Addrs : connections[a] = None
  BY DEF Init
<1> QED BY <1>1, <1>2 DEF Ended, Owned

LEMMA TidyHolds == Spec => [](IInv /\ Tidy)
BY InitIInv, NextIInv, InitTidy, NextTidy, PTL DEF Spec


\* No entry of the map is forgotten, although it is deleted by address and by whoever
\* comes first, a handler or Stop: as long as it is there, it is under its connection's
\* address, and either a handler is still going to clean up or one of the two is at it.
\* So no connection that has gone takes up room under the limit (tcp.go:124-147, 215-234).
EntriesAreOwned ==
  ~crashed => \A a \in Addrs : connections[a] # None =>
    \E k \in Conns : /\ connections[a] = k /\ addr[k] = a
                     /\ \/ pc[k] \in {"loop", "read", "send", "cleanup", "close", "delete"}
                        \/ pc[Accepter] = "spawn" /\ inHand = k
                        \/ closing = k /\ pc[Stopper] \in {"close", "delete"}

\* The safety half of AllClosedAfterStop: once Stop has returned and accept loop and
\* handlers have ended, every connection that was ever accepted is closed and the map
\* is empty, even if an entry was overwritten or Stop gave up waiting
\* (tcp.go:98-147, 160-194, 215-276).
NothingLeftAtEnd ==
  /\ ~crashed
  /\ pc[Stopper] = "done" /\ pc[Accepter] = "done" /\ \A k \in Conns : pc[k] \in {"off", "gone"}
  => /\ \A k \in Conns : sock[k] \in {"unused", "closed"}
     /\ \A a \in Addrs : connections[a] = None

\* Every entry of the map has somebody who is going to delete it (tcp.go:124-147, 215-234).
THEOREM NoEntryForgotten == Spec => []EntriesAreOwned
<1>1. ASSUME IInv, Tidy, ~crashed, NEW a \in Addrs, connections[a] # None
      PROVE  \E k \in Conns : /\ connections[a] = k /\ addr[k] = a
                              /\ \/ pc[k] \in {"loop", "read", "send", "cleanup", "close", "delete"}
                                 \/ pc[Accepter] = "spawn" /\ inHand = k
                                 \/ closing = k /\ pc[Stopper] \in {"close", "delete"}
  <2>1. PICK k \in Conns : connections[a] = k /\ addr[k] = a /\ Held(k)
    BY <1>1 DEF Tidy, Owned, IInv, TypeOK
  <2>2. pc[k] \in {"off", "loop", "read", "send", "cleanup", "close", "delete", "exit", "gone"}
    BY <1>1 DEF IInv, Core, Phased
  <2>3. pc[k] \in {"exit", "gone"} => closed[k]
    BY <1>1 DEF Tidy, Ended
  <2> QED BY <2>1, <2>2, <2>3 DEF Held, Inserted, HandlerCleans, StopCleans
<1>2. IInv /\ Tidy => EntriesAreOwned
  BY <1>1 DEF EntriesAreOwned
<1> QED BY <1>2, TidyHolds, PTL

\* When everybody has ended, nothing is left open and nothing in the map
\* (tcp.go:98-147, 160-194, 215-276).
THEOREM EverythingClosedAtEnd == Spec => []NothingLeftAtEnd
<1>1. ASSUME IInv, Tidy, ~crashed, pc[Stopper] = "done", pc[Accepter] = "done",
             \A k \in Conns : pc[k] \in {"off", "gone"}
      PROVE  (\A k \in Conns : sock[k] \in {"unused", "closed"}) /\ \A a \in Addrs : connections[a] = None
  <2>1. Ended /\ Owned /\ Lived
    BY <1>1 DEF Tidy, IInv, Core
  <2>2. ASSUME NEW k \in Conns PROVE sock[k] \in {"unused", "closed"}
    BY <1>1, <2>1 DEF Ended, InHand, Lived
  <2>3. ASSUME NEW a \in Addrs, connections[a] # None PROVE FALSE
    <3>1. connections[a] \in Conns /\ Held(connections[a])
      BY <1>1, <2>1, <2>3 DEF Owned, IInv, TypeOK
    <3> QED BY <1>1, <2>1, <3>1 DEF Ended, Held, Inserted, HandlerCleans, StopCleans
  <2> QED BY <2>2, <2>3
<1>2. IInv /\ Tidy => NothingLeftAtEnd
  BY <1>1 DEF NothingLeftAtEnd
<1> QED BY <1>2, TidyHolds, PTL

==============================================================================
