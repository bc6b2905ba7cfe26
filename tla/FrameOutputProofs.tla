--------------------------- MODULE FrameOutputProofs ---------------------------
(***************************************************************************)
(* Theorems about FrameOutput, for every set of clients, every length of a *)
(* row, every size of the CSV buffer and every bound on frames, members    *)
(* and failures: it implements AbstractBroadcast; unless two goroutines    *)
(* were in the CSV writer at once, the file is in order, and complete      *)
(* after an orderly Stop; and the variables keep their types.              *)
(***************************************************************************)
EXTENDS FrameOutput, FiniteSetTheorems, TLAPS

Admitted(c) == first[c] > 0
NextFor(c)  == first[c] + Len(received[c])

\* The threads that run cleanupClient.
Cleaners == Clients \cup {Process, Stopper}

Broadcasting == {"next", "write", "cleanup", "remove"}
Rowing       == {"row", "count", "flush", "writeout", "compare", "reset"}

Typed ==
  /\ config \in [csv : BOOLEAN, file : BOOLEAN, tcp : BOOLEAN, slow : BOOLEAN]
  /\ tcpClients \subseteq Clients
  /\ sock \in [Clients -> {"unused", "open", "reset", "closed"}]
  /\ closed \in [Clients -> BOOLEAN]
  /\ first \in [Clients -> Nat] /\ received \in [Clients -> Seq(Nat)]
  /\ frame \in Nat
  /\ toWrite \subseteq Clients /\ toClose \subseteq Clients
  /\ DOMAIN pc = Threads

\* Where the process loop is, and what it has in hand there.
Phased ==
  /\ pc[Stopper] = "new" => pc[Process] = "off"
  /\ config.csv => pc[Process] \notin {"file", "snapshot"} \cup Broadcasting
  /\ pc[Process] \in {"file", "snapshot"} => frame > 0
  /\ toWrite # {} => pc[Process] \in Broadcasting
  /\ pc[Process] \in {"write", "cleanup", "remove"} =>
       current \in Clients /\ Admitted(current) /\ current \notin toWrite
  /\ pc[Stopper] \in {"cleanup", "remove"} => closing \in Clients /\ Admitted(closing)

\* The life of a client, as far as its connection and its place in the map go.
Lived ==
  /\ pc[Accepter] = "admit" =>
       inHand \in Clients /\ ~Admitted(inHand) /\ sock[inHand] \in {"open", "reset"}
  /\ \A c \in Clients :
       /\ ~Admitted(c) => ~closed[c] /\ received[c] = <<>> /\ pc[c] = "off"
       /\ sock[c] = "unused" => ~Admitted(c)
       /\ Admitted(c) /\ sock[c] = "closed" => closed[c]
       /\ Admitted(c) /\ ~closed[c] => c \in tcpClients
       /\ c \in tcpClients \cup toWrite \cup toClose => Admitted(c)
  /\ \A t \in Cleaners : pc[t] = "remove" => closed[Target(t)]

\* The client has still to get the frame that is being broadcast.
Awaits(c) ==
  c \in toWrite \/ (pc[Process] \in {"write", "cleanup"} /\ current = c)

\* Every client in the map has all frames but, perhaps, that one.
UpToDate ==
  /\ \A c \in Clients : Admitted(c) /\ ~closed[c] =>
       NextFor(c) = IF Awaits(c) THEN Published ELSE Published + 1
  /\ pc[Process] = "write" => NextFor(current) = Published

IInv == Typed /\ Phased /\ Lived /\ UpToDate

------------------------------------------------------------------------------
\* What the steps below use of the constants.
LEMMA ThreadFacts ==
  /\ Clients \subseteq Threads /\ Cleaners \subseteq Threads
  /\ {Accepter, Process, Flusher, Stopper} \subseteq Threads
  /\ Accepter # Process /\ Accepter # Flusher /\ Accepter # Stopper
  /\ Process # Flusher /\ Process # Stopper /\ Flusher # Stopper
  /\ \A c \in Clients : c # Accepter /\ c # Process /\ c # Flusher /\ c # Stopper /\ c # None
BY OutputAssumption DEF Threads, Loops, Cleaners

LEMMA InitIInv == Init => IInv
<1> SUFFICES ASSUME Init PROVE IInv
  OBVIOUS
<1>1. Typed
  BY OutputAssumption DEF Init, Typed
<1>2. pc = [t \in Threads |-> IF t = Stopper THEN "new" ELSE "off"]
  BY DEF Init
<1>3. \A t \in Threads : t # Stopper => pc[t] = "off"
  BY <1>2
<1>4. pc[Stopper] = "new" /\ pc[Process] = "off" /\ pc[Accepter] = "off"
  BY <1>2, ThreadFacts
<1>5. Phased
  BY <1>4 DEF Init, Phased, Broadcasting
<1>6. Lived
  BY <1>3, <1>4, ThreadFacts DEF Init, Lived, Admitted, Cleaners
<1>7. UpToDate
  BY <1>4 DEF Init, UpToDate, Admitted
<1> QED BY <1>1, <1>5, <1>6, <1>7 DEF IInv

------------------------------------------------------------------------------
\* The variables that IInv speaks of, apart from pc.
core == <<config, tcpClients, sock, closed, first, received, frame, toWrite, current>>

\* What goes on in the CSV writer touches none of them.
LEMMA WriterUnseen ==
  ASSUME serializeCSV \/ \E t \in Writers : Flush(t) \/ WriterGone(t)
  PROVE  UNCHANGED core /\ UNCHANGED <<acceptVars, stopVars, active>>
<1>1. UNCHANGED csvRest
  BY DEF serializeCSV, RowEnds, RowFull, RowCopy, RowCount, Flush, FlushTake, FlushWrite,
     FlushFails, FlushCompare, FlushReset, WriterGone
<1> QED BY <1>1 DEF csvRest, core, clientVars, writeVars

\* Where a flush leads to.
LEMMA FlushLabels ==
  ASSUME NEW t \in Writers, Flush(t)
  PROVE  /\ pc[t] \in {"flush", "writeout", "compare", "reset"}
         /\ \E label : /\ Goto(t, label)
                       /\ \/ label \in {"writeout", "compare", "reset"}
                          \/ label = "row" /\ t = Process
                          \/ label = "loop" /\ t = Flusher
                          \/ label = "close" /\ t = Stopper
<1>1. pc[t] \in {"flush", "writeout", "compare", "reset"}
  BY DEF Flush, FlushTake, FlushWrite, FlushFails, FlushCompare, FlushReset
<1>2. Return(t) \/ \E label \in {"writeout", "compare", "reset"} : Goto(t, label)
  BY DEF Flush, FlushTake, FlushWrite, FlushFails, FlushCompare, FlushReset
<1>3. CASE Return(t)
  BY <1>1, <1>3 DEF Return, Writers
<1> QED BY <1>1, <1>2, <1>3

LEMMA RowLabels ==
  ASSUME serializeCSV \/ Flush(Process) \/ WriterGone(Process)
  PROVE  /\ pc[Process] \in Rowing
         /\ \E label \in Rowing \cup {"loop", "done"} : Goto(Process, label)
<1>1. CASE serializeCSV
  BY <1>1 DEF serializeCSV, RowEnds, RowFull, RowCopy, RowCount, RowGoesOn, Rowing
<1>2. CASE Flush(Process)
  BY <1>2, FlushLabels, ThreadFacts DEF Writers, Rowing
<1>3. CASE WriterGone(Process)
  BY <1>3, ThreadFacts DEF WriterGone, Rowing
<1> QED BY <1>1, <1>2, <1>3

\* A step that moves one thread other than Process and touches none of them.
LEMMA OtherMoves ==
  ASSUME IInv, NEW t \in Threads \ {Process}, NEW label, Goto(t, label),
         label \notin {"admit", "remove", "new"},
         t = Stopper => label # "cleanup",
         t \in Clients => pc[t] # "off",
         UNCHANGED core, toClose' \subseteq toClose,
         t = Stopper \/ closing' = closing,
         t = Accepter \/ inHand' = inHand
  PROVE  IInv'
<1> USE ThreadFacts DEF core
<1>1. \A u \in Threads : pc'[u] = IF u = t THEN label ELSE pc[u]
  BY DEF Goto, IInv, Typed
<1>2. pc'[Process] = pc[Process] /\ DOMAIN pc' = Threads
  BY <1>1 DEF Goto, IInv, Typed
<1>3. Typed'
  BY <1>2 DEF IInv, Typed
<1>4. Phased'
  BY <1>1, <1>2 DEF IInv, Phased, Admitted
<1>5. Lived'
  <2>1. (pc[Accepter] = "admit" =>
          inHand \in Clients /\ ~Admitted(inHand) /\ sock[inHand] \in {"open", "reset"})'
    BY <1>1 DEF IInv, Lived, Admitted
  <2>2. ASSUME NEW c \in Clients
        PROVE  /\ (~Admitted(c) => ~closed[c] /\ received[c] = <<>> /\ pc[c] = "off")'
               /\ (sock[c] = "unused" => ~Admitted(c))'
               /\ (Admitted(c) /\ sock[c] = "closed" => closed[c])'
               /\ (Admitted(c) /\ ~closed[c] => c \in tcpClients)'
               /\ (c \in tcpClients \cup toWrite \cup toClose => Admitted(c))'
    BY <1>1 DEF IInv, Lived, Admitted
  <2>3. ASSUME NEW u \in Cleaners, pc'[u] = "remove" PROVE closed'[Target(u)']
    <3>1. u # t /\ pc[u] = "remove"
      BY <1>1, <2>3
    <3>2. Target(u)' = Target(u)
      BY <3>1 DEF Target
    <3> QED BY <3>1, <3>2 DEF IInv, Lived
  <2> QED BY <2>1, <2>2, <2>3 DEF Lived
<1>6. UpToDate'
  BY <1>2 DEF IInv, UpToDate, Admitted, NextFor, Awaits, Published
<1> QED BY <1>3, <1>4, <1>5, <1>6 DEF IInv

LEMMA AcceptIInv ==
  ASSUME IInv, acceptTCPClients \/ AcceptFail
  PROVE  IInv'
<1> USE ThreadFacts
<1>1. CASE AcceptCheck \/ ListenerGone \/ AcceptFail
  <2>1. \E label \in {"accept", "done", "loop"} : Goto(Accepter, label)
    BY <1>1 DEF AcceptCheck, ListenerGone, AcceptFail
  <2>2. UNCHANGED core /\ UNCHANGED <<toClose, closing, inHand>>
    BY <1>1 DEF AcceptCheck, ListenerGone, AcceptFail, acceptRest, acceptVars, core,
         clientVars, writeVars, stopVars
  <2> QED BY <2>1, <2>2, OtherMoves
<1>2. CASE Refuse
  <2>1. /\ pc[Accepter] = "admit" /\ Goto(Accepter, "loop")
        /\ sock' = [sock EXCEPT ![inHand] = "closed"]
        /\ UNCHANGED <<config, tcpClients, closed, first, received, frame, toWrite, current,
                       toClose, closing>>
    BY <1>2 DEF Refuse, writeVars, stopVars
  <2>2. inHand \in Clients /\ ~Admitted(inHand)
    BY <2>1 DEF IInv, Lived
  <2>3. \A u \in Threads : pc'[u] = IF u = Accepter THEN "loop" ELSE pc[u]
    BY <2>1 DEF Goto, IInv, Typed
  <2>4. Typed'
    BY <2>1 DEF IInv, Typed, Goto
  <2>5. Phased'
    BY <2>1, <2>3 DEF IInv, Phased, Admitted
  <2>6. Lived'
    <3>1. \A u \in Cleaners : Target(u)' = Target(u)
      BY <2>1 DEF Target
    <3> QED BY <2>1, <2>2, <2>3, <3>1 DEF IInv, Typed, Lived, Admitted, Cleaners
  <2>7. UpToDate'
    BY <2>1, <2>3 DEF IInv, UpToDate, Admitted, NextFor, Awaits, Published
  <2> QED BY <2>4, <2>5, <2>6, <2>7 DEF IInv
<1>3. CASE Admit
  <2>1. /\ pc[Accepter] = "admit"
        /\ tcpClients' = tcpClients \cup {inHand}
        /\ first' = [first EXCEPT ![inHand] = Published + 1]
        /\ pc' = [pc EXCEPT ![Accepter] = "loop", ![inHand] = "loop"]
        /\ UNCHANGED <<config, sock, closed, received, frame, toWrite, current, toClose, closing>>
    BY <1>3 DEF Admit, writeVars, stopVars
  <2>2. inHand \in Clients /\ ~Admitted(inHand) /\ sock[inHand] \in {"open", "reset"}
    BY <2>1 DEF IInv, Lived
  <2>3. \A u \in Threads : pc'[u] = IF u \in {Accepter, inHand} THEN "loop" ELSE pc[u]
    BY <2>1, <2>2 DEF IInv, Typed
  <2>4. pc'[Process] = pc[Process] /\ Published' = Published
    BY <2>1, <2>2, <2>3 DEF Published
  <2>5. Published \in Nat
    BY DEF Published, IInv, Typed, Phased
  <2>6. Typed'
    BY <2>1, <2>2, <2>5 DEF IInv, Typed
  <2>7. \A c \in Clients : Admitted(c)' <=> (Admitted(c) \/ c = inHand)
    BY <2>1, <2>2, <2>5 DEF Admitted, IInv, Typed
  <2>8. Phased'
    BY <2>1, <2>2, <2>3, <2>4, <2>7 DEF IInv, Phased
  <2>9. Lived'
    <3>1. \A u \in Cleaners : Target(u)' = Target(u)
      BY <2>1 DEF Target
    <3>2. ~(pc[Accepter] = "admit")'
      BY <2>3
    <3>3. ASSUME NEW c \in Clients
          PROVE  /\ (~Admitted(c) => ~closed[c] /\ received[c] = <<>> /\ pc[c] = "off")'
                 /\ (sock[c] = "unused" => ~Admitted(c))'
                 /\ (Admitted(c) /\ sock[c] = "closed" => closed[c])'
                 /\ (Admitted(c) /\ ~closed[c] => c \in tcpClients)'
                 /\ (c \in tcpClients \cup toWrite \cup toClose => Admitted(c))'
      <4>1. CASE c = inHand
        BY <2>1, <2>2, <2>7, <4>1 DEF IInv, Lived
      <4>2. CASE c # inHand
        BY <2>1, <2>3, <2>7, <4>2 DEF IInv, Lived
      <4> QED BY <4>1, <4>2
    <3>4. \A u \in Cleaners : pc'[u] = "remove" => pc[u] = "remove"
      BY <2>3
    <3>5. \A u \in Cleaners : pc'[u] = "remove" => closed'[Target(u)']
      BY <2>1, <3>1, <3>4 DEF IInv, Lived
    <3> QED BY <3>2, <3>3, <3>5 DEF Lived
  <2>10. UpToDate'
    <3>1. \A c \in Clients : Awaits(c)' = Awaits(c)
      BY <2>1, <2>4 DEF Awaits
    <3>2. ~Awaits(inHand)
      BY <2>2 DEF Awaits, IInv, Phased, Lived
    <3>3. \A c \in Clients : c = inHand => NextFor(c)' = Published + 1
      <4>1. first'[inHand] = Published + 1 /\ received'[inHand] = <<>>
        BY <2>1, <2>2 DEF IInv, Typed, Lived
      <4> QED BY <2>5, <4>1 DEF NextFor
    <3>4. \A c \in Clients : c # inHand => NextFor(c)' = NextFor(c)
      BY <2>1 DEF NextFor, IInv, Typed
    <3>5. pc[Process] = "write" => current' = current /\ current \in Clients /\ current # inHand
      BY <2>1, <2>2 DEF IInv, Phased
    <3>6. (pc[Process] = "write" => NextFor(current) = Published)'
      BY <2>4, <3>4, <3>5 DEF IInv, UpToDate, NextFor
    <3>7. ASSUME NEW c \in Clients, Admitted(c)', ~closed'[c]
          PROVE  NextFor(c)' = IF Awaits(c)' THEN Published' ELSE Published' + 1
      <4>1. CASE c = inHand
        BY <2>4, <3>1, <3>2, <3>3, <4>1
      <4>2. CASE c # inHand
        BY <2>1, <2>4, <2>7, <3>1, <3>4, <3>7, <4>2 DEF IInv, UpToDate
      <4> QED BY <4>1, <4>2
    <3> QED BY <3>6, <3>7 DEF UpToDate
  <2> QED BY <2>6, <2>8, <2>9, <2>10 DEF IInv
<1> QED BY <1>1, <1>2, <1>3 DEF acceptTCPClients

LEMMA AcceptOkIInv ==
  ASSUME IInv, NEW k \in Clients, AcceptOk(k)
  PROVE  IInv'
<1> USE ThreadFacts
<1>1. /\ pc[Accepter] = "accept" /\ sock[k] = "unused" /\ Goto(Accepter, "admit")
      /\ sock' = [sock EXCEPT ![k] = "open"] /\ inHand' = k
      /\ UNCHANGED <<config, tcpClients, closed, first, received, frame, toWrite, current,
                     toClose, closing>>
  BY DEF AcceptOk, writeVars, stopVars
<1>2. \A u \in Threads : pc'[u] = IF u = Accepter THEN "admit" ELSE pc[u]
  BY <1>1 DEF Goto, IInv, Typed
<1>3. Typed'
  BY <1>1 DEF IInv, Typed, Goto
<1>4. Phased'
  BY <1>1, <1>2 DEF IInv, Phased, Admitted
<1>5. Lived'
  <2>1. \A u \in Cleaners : Target(u)' = Target(u)
    BY <1>1 DEF Target
  <2> QED BY <1>1, <1>2, <2>1 DEF IInv, Typed, Lived, Admitted, Cleaners
<1>6. UpToDate'
  BY <1>1, <1>2 DEF IInv, UpToDate, Admitted, NextFor, Awaits, Published
<1> QED BY <1>3, <1>4, <1>5, <1>6 DEF IInv

------------------------------------------------------------------------------
\* cleanupClient, whoever runs it.

LEMMA TargetIsClient ==
  ASSUME IInv, NEW t \in Cleaners, pc[t] \in {"cleanup", "remove"}
  PROVE  Target(t) \in Clients /\ Admitted(Target(t))
BY ThreadFacts DEF Target, Cleaners, IInv, Phased, Lived

\* The target's connection or its flag changes, in a state where the client is closed
\* afterwards; t leaves for a label that is not one of a client's.
LEMMA CleanupIInv ==
  ASSUME IInv, NEW t \in Cleaners, Cleanup(t)
  PROVE  IInv'
<1> USE ThreadFacts
<1> DEFINE k == Target(t)
<1>1. k \in Clients /\ Admitted(k)
  BY TargetIsClient DEF Cleanup, CleanupOnce, CleanupRemove
<1>2. PICK c \in Clients : c = k /\ Admitted(c)
  BY <1>1
<1> HIDE DEF k
<1>3. UNCHANGED <<config, first, received, frame, toWrite, current, toClose, closing, inHand>>
  BY DEF Cleanup, CleanupOnce, CleanupRemove, cleanupRest, writeVars, stopVars, acceptVars
<1>4. PICK label \in {"next", "done", "remove"} : Goto(t, label)
  BY DEF Cleanup, CleanupOnce, CleanupRemove, Leave
<1>5. \A u \in Threads : pc'[u] = IF u = t THEN label ELSE pc[u]
  BY <1>4 DEF Goto, IInv, Typed
<1>6. pc[t] \in {"cleanup", "remove"}
  BY DEF Cleanup, CleanupOnce, CleanupRemove
<1>7. t \in {Process, Stopper} => label \in {"next", "remove"}
  BY <1>4, <1>5 DEF Cleanup, CleanupOnce, CleanupRemove, Leave, Goto, IInv, Typed
<1>8. closed' = [closed EXCEPT ![c] = TRUE]
  <2>1. CASE CleanupOnce(t)
    BY <1>2, <2>1 DEF CleanupOnce, k
  <2>2. CASE CleanupRemove(t)
    BY <1>2, <2>2 DEF CleanupRemove, k, IInv, Lived, Typed
  <2> QED BY <2>1, <2>2 DEF Cleanup
<1>9. /\ \/ sock' = sock \/ sock' = [sock EXCEPT ![c] = "closed"]
      /\ tcpClients' = tcpClients \/ tcpClients' = tcpClients \ {c}
  BY <1>2 DEF Cleanup, CleanupOnce, CleanupRemove, k
<1>10. Published' = Published
  BY <1>3, <1>5, <1>6, <1>7 DEF Published
<1>11. Typed'
  BY <1>3, <1>4, <1>8, <1>9 DEF IInv, Typed, Goto
<1>12. Phased'
  BY <1>3, <1>5, <1>6, <1>7 DEF IInv, Phased, Admitted, Broadcasting
<1>13. Lived'
  <2>1. (pc[Accepter] = "admit" =>
          inHand \in Clients /\ ~Admitted(inHand) /\ sock[inHand] \in {"open", "reset"})'
    BY <1>2, <1>3, <1>5, <1>9 DEF IInv, Lived, Typed, Admitted, Cleaners
  <2>2. ASSUME NEW d \in Clients
        PROVE  /\ (~Admitted(d) => ~closed[d] /\ received[d] = <<>> /\ pc[d] = "off")'
               /\ (sock[d] = "unused" => ~Admitted(d))'
               /\ (Admitted(d) /\ sock[d] = "closed" => closed[d])'
               /\ (Admitted(d) /\ ~closed[d] => d \in tcpClients)'
               /\ (d \in tcpClients \cup toWrite \cup toClose => Admitted(d))'
    <3>1. Admitted(d)' = Admitted(d) /\ received'[d] = received[d]
      BY <1>3 DEF Admitted
    <3>2. CASE d = c
      BY <1>2, <1>3, <1>8, <1>9, <3>1, <3>2 DEF IInv, Lived, Typed
    <3>3. CASE d # c
      <4>1. /\ sock'[d] = sock[d] /\ closed'[d] = closed[d]
            /\ d \in tcpClients' <=> d \in tcpClients
        BY <1>8, <1>9, <3>3 DEF IInv, Typed
      <4>2. ~Admitted(d) => d # t
        BY <1>6 DEF IInv, Lived
      <4> QED BY <1>3, <1>5, <3>1, <4>1, <4>2 DEF IInv, Lived
    <3> QED BY <3>2, <3>3
  <2>3. ASSUME NEW u \in Cleaners, pc'[u] = "remove" PROVE closed'[Target(u)']
    <3>1. Target(u)' = Target(u)
      BY <1>3 DEF Target
    <3>2. CASE u = t
      BY <1>2, <1>8, <3>1, <3>2 DEF k, IInv, Typed
    <3>3. CASE u # t
      <4>1. closed[Target(u)] /\ Target(u) \in Clients
        BY <1>5, <2>3, <3>3, TargetIsClient DEF IInv, Lived
      <4> QED BY <1>8, <3>1, <4>1 DEF IInv, Typed
    <3> QED BY <3>2, <3>3
  <2> QED BY <2>1, <2>2, <2>3 DEF Lived
<1>14. UpToDate'
  <2>1. ASSUME NEW d \in Clients, Admitted(d)', ~closed'[d]
        PROVE  NextFor(d)' = IF Awaits(d)' THEN Published' ELSE Published' + 1
    <3>1. d # c /\ ~closed[d] /\ Admitted(d) /\ NextFor(d)' = NextFor(d)
      BY <1>3, <1>8, <2>1 DEF IInv, Typed, Admitted, NextFor
    <3>2. Awaits(d)' = Awaits(d)
      <4>1. CASE t = Process
        BY <1>2, <1>3, <1>5, <1>7, <3>1, <4>1 DEF Awaits, k, Target
      <4>2. CASE t # Process
        BY <1>3, <1>5, <4>2 DEF Awaits
      <4> QED BY <4>1, <4>2
    <3> QED BY <1>10, <3>1, <3>2 DEF IInv, UpToDate
  <2>2. (pc[Process] = "write" => NextFor(current) = Published)'
    BY <1>3, <1>5, <1>7, <1>10 DEF IInv, UpToDate, NextFor
  <2> QED BY <2>1, <2>2 DEF UpToDate
<1> QED BY <1>11, <1>12, <1>13, <1>14 DEF IInv

LEMMA MonitorIInv ==
  ASSUME IInv, NEW c \in Clients, monitorTCPClient(c)
  PROVE  IInv'
<1> USE ThreadFacts
<1>1. CASE Cleanup(c)
  BY <1>1, CleanupIInv DEF Cleaners
<1>2. CASE MonitorCheck(c) \/ ReadData(c) \/ MarkActive(c) \/ ReadTimeout(c) \/ ReadFails(c)
  <2>1. \E label \in {"read", "cleanup", "lock", "loop"} : Goto(c, label)
    BY <1>2 DEF MonitorCheck, ReadData, MarkActive, ReadTimeout, ReadFails
  <2>2. UNCHANGED core /\ UNCHANGED <<toClose, closing, inHand>>
    BY <1>2 DEF MonitorCheck, ReadData, MarkActive, ReadTimeout, ReadFails, monitorRest,
         acceptVars, core, clientVars, writeVars, stopVars
  <2>3. pc[c] # "off"
    BY <1>2 DEF MonitorCheck, ReadData, MarkActive, ReadTimeout, ReadFails
  <2> QED BY <2>1, <2>2, <2>3, OtherMoves
<1> QED BY <1>1, <1>2 DEF monitorTCPClient

------------------------------------------------------------------------------
\* processLoop.  What all its steps but those of cleanupClient have in common.

LEMMA ProcessLived ==
  ASSUME IInv, NEW label, label # "remove", Goto(Process, label),
         UNCHANGED <<tcpClients, sock, closed, first, toClose, closing, inHand>>,
         \A c \in Clients : ~Admitted(c) => received'[c] = received[c],
         toWrite' \subseteq toWrite \cup tcpClients
  PROVE  Lived'
<1> USE ThreadFacts
<1>1. \A u \in Threads : pc'[u] = IF u = Process THEN label ELSE pc[u]
  BY DEF Goto, IInv, Typed
<1>2. (pc[Accepter] = "admit" =>
          inHand \in Clients /\ ~Admitted(inHand) /\ sock[inHand] \in {"open", "reset"})'
  BY <1>1 DEF IInv, Lived, Admitted
<1>3. ASSUME NEW c \in Clients
      PROVE  /\ (~Admitted(c) => ~closed[c] /\ received[c] = <<>> /\ pc[c] = "off")'
             /\ (sock[c] = "unused" => ~Admitted(c))'
             /\ (Admitted(c) /\ sock[c] = "closed" => closed[c])'
             /\ (Admitted(c) /\ ~closed[c] => c \in tcpClients)'
             /\ (c \in tcpClients \cup toWrite \cup toClose => Admitted(c))'
  <2>1. Admitted(c)' = Admitted(c)
    BY DEF Admitted
  <2> QED BY <1>1, <2>1 DEF IInv, Lived
<1>4. ASSUME NEW u \in Cleaners, pc'[u] = "remove" PROVE closed'[Target(u)']
  <2>1. u # Process /\ pc[u] = "remove"
    BY <1>1, <1>4
  <2>2. Target(u)' = Target(u)
    BY <2>1 DEF Target
  <2> QED BY <2>1, <2>2 DEF IInv, Lived
<1> QED BY <1>2, <1>3, <1>4 DEF Lived

\* Outside a broadcast no client awaits a frame.
LEMMA NobodyAwaits ==
  ASSUME IInv, pc[Process] \notin Broadcasting, NEW c \in Clients
  PROVE  ~Awaits(c)
BY DEF IInv, Phased, Awaits, Broadcasting

\* The rest of a member that is up to date, when neither it nor what was published
\* to it changes.
LEMMA ProcessIInv ==
  ASSUME IInv, processLoop
  PROVE  IInv'
<1> USE ThreadFacts
<1> DEFINE others == <<tcpClients, sock, closed, first, toClose, closing, inHand, config>>
<1>1. ASSUME NEW label, Goto(Process, label)
      PROVE  \A u \in Threads : pc'[u] = IF u = Process THEN label ELSE pc[u]
  BY <1>1 DEF Goto, IInv, Typed
<1>2. CASE \/ ProcessCheck \/ Cancelled \/ WriteToFile
           \/ serializeCSV \/ Flush(Process) \/ WriterGone(Process)
  <2>1. /\ UNCHANGED others /\ UNCHANGED <<received, frame, toWrite, current>>
        /\ pc[Process] \in {"loop", "select", "file"} \cup Rowing
    <3>1. CASE ProcessCheck \/ Cancelled \/ WriteToFile
      BY <3>1 DEF ProcessCheck, Cancelled, WriteToFile, acceptVars, clientVars, writeVars, stopVars
    <3>2. CASE serializeCSV \/ Flush(Process) \/ WriterGone(Process)
      BY <3>2, WriterUnseen, RowLabels DEF core, Writers, acceptVars, stopVars
    <3> QED BY <1>2, <3>1, <3>2
  <2>2. PICK label \in {"select", "done", "loop", "snapshot"} \cup Rowing :
           /\ Goto(Process, label)
           /\ pc[Process] = "file" <=> label = "snapshot"
    <3>1. CASE ProcessCheck \/ Cancelled \/ WriteToFile
      BY <3>1 DEF ProcessCheck, Cancelled, WriteToFile
    <3>2. CASE serializeCSV \/ Flush(Process) \/ WriterGone(Process)
      BY <3>2, RowLabels DEF Rowing
    <3> QED BY <1>2, <3>1, <3>2
  <2>3. Typed'
    BY <2>1, <2>2 DEF IInv, Typed, Goto
  <2>4. pc[Process] \notin Broadcasting /\ label \notin Broadcasting
    BY <2>1, <2>2 DEF Rowing, Broadcasting
  <2>5. Lived'
    BY <2>1, <2>2, <2>4, ProcessLived DEF Broadcasting
  <2>6. Phased'
    <3>1. label \in {"file", "snapshot"} => ~config.csv /\ frame > 0
      BY <2>1, <2>2 DEF IInv, Phased, Rowing
    <3>2. pc'[Process] = label /\ pc'[Stopper] = pc[Stopper]
      BY <1>1, <2>2
    <3>3. toWrite = {} /\ pc[Stopper] # "new"
      BY <2>1, <2>4 DEF IInv, Phased, Rowing
    <3> QED BY <2>1, <2>4, <3>1, <3>2, <3>3 DEF IInv, Phased, Admitted, Broadcasting
  <2>7. Published' = Published
    BY <1>1, <2>1, <2>2 DEF Published, Rowing
  <2>8. UpToDate'
    BY <1>1, <2>1, <2>2, <2>4, <2>7 DEF IInv, UpToDate, Admitted, NextFor, Awaits, Broadcasting
  <2> QED BY <2>3, <2>5, <2>6, <2>8 DEF IInv
<1>3. CASE Receive
  <2>1. /\ UNCHANGED others /\ UNCHANGED <<received, toWrite, current>>
        /\ pc[Process] = "select"
    BY <1>3 DEF Receive, acceptVars, clientVars, stopVars
  <2>2. PICK label \in {"loop", "row", "file"} :
           /\ Goto(Process, label)
           /\ IF label = "loop" THEN frame' = frame ELSE frame' = frame + 1
           /\ config.csv => label # "file"
           /\ ~config.csv => label # "row"
    BY <1>3 DEF Receive
  <2>3. Typed'
    BY <2>1, <2>2 DEF IInv, Typed, Goto
  <2>4. Phased'
    BY <1>1, <2>1, <2>2 DEF IInv, Typed, Phased, Admitted, Broadcasting
  <2>5. Lived'
    BY <2>1, <2>2, ProcessLived
  <2>6. Published' = Published
    BY <1>1, <2>1, <2>2 DEF Published, IInv, Typed
  <2>7. UpToDate'
    BY <1>1, <2>1, <2>2, <2>6 DEF IInv, UpToDate, Admitted, NextFor, Awaits
  <2> QED BY <2>3, <2>4, <2>5, <2>7 DEF IInv
<1>4. CASE Snapshot
  <2>1. /\ UNCHANGED others /\ UNCHANGED <<received, frame, current>>
        /\ pc[Process] = "snapshot" /\ Goto(Process, "next") /\ toWrite' = tcpClients
    BY <1>4 DEF Snapshot, broadcastRest, acceptVars, clientVars, stopVars
  <2>2. Typed'
    BY <2>1 DEF IInv, Typed, Goto
  <2>3. Phased'
    BY <1>1, <2>1 DEF IInv, Phased, Admitted, Broadcasting
  <2>4. Lived'
    BY <2>1, ProcessLived
  <2>5. Published = frame - 1 /\ Published' = frame
    BY <1>1, <2>1 DEF Published, IInv, Phased
  <2>6. ASSUME NEW c \in Clients, Admitted(c)', ~closed'[c]
        PROVE  NextFor(c)' = IF Awaits(c)' THEN Published' ELSE Published' + 1
    <3>1. Admitted(c) /\ ~closed[c] /\ NextFor(c)' = NextFor(c)
      BY <2>1, <2>6 DEF Admitted, NextFor
    <3>2. ~Awaits(c)
      BY <2>1, NobodyAwaits DEF Broadcasting
    <3>3. Awaits(c)'
      BY <2>1, <3>1 DEF Awaits, IInv, Lived
    <3> QED BY <2>5, <3>1, <3>2, <3>3 DEF IInv, UpToDate, Typed
  <2>7. UpToDate'
    BY <1>1, <2>1, <2>6 DEF UpToDate
  <2> QED BY <2>2, <2>3, <2>4, <2>7 DEF IInv
<1>5. ASSUME NEW k \in Clients, NextClient(k) PROVE IInv'
  <2>1. /\ UNCHANGED others /\ UNCHANGED <<received, frame>>
        /\ pc[Process] = "next" /\ k \in toWrite /\ toWrite' = toWrite \ {k} /\ current' = k
        /\ Goto(Process, IF closed[k] THEN "next" ELSE "write")
    BY <1>5 DEF NextClient, broadcastRest, acceptVars, clientVars, stopVars
  <2>2. Typed'
    BY <2>1 DEF IInv, Typed, Goto
  <2>3. Phased'
    BY <1>1, <2>1 DEF IInv, Phased, Lived, Admitted, Broadcasting
  <2>4. Lived'
    <3>1. \E label : label # "remove" /\ Goto(Process, label)
      BY <2>1
    <3> QED BY <2>1, <3>1, ProcessLived
  <2>5. Published' = Published
    BY <1>1, <2>1 DEF Published
  <2>6. ASSUME NEW c \in Clients, Admitted(c)', ~closed'[c]
        PROVE  NextFor(c)' = IF Awaits(c)' THEN Published' ELSE Published' + 1
    <3>1. Admitted(c) /\ ~closed[c] /\ NextFor(c)' = NextFor(c)
      BY <2>1, <2>6 DEF Admitted, NextFor
    <3>2. Awaits(c)' = Awaits(c)
      BY <1>1, <2>1, <3>1 DEF Awaits
    <3> QED BY <2>5, <3>1, <3>2 DEF IInv, UpToDate
  <2>7. (pc[Process] = "write" => NextFor(current) = Published)'
    <3>1. SUFFICES ASSUME ~closed[k] PROVE NextFor(k) = Published
      BY <1>1, <2>1, <2>5 DEF NextFor
    <3> QED BY <2>1, <3>1 DEF IInv, UpToDate, Lived, Awaits
  <2> QED BY <2>2, <2>3, <2>4, <2>6, <2>7 DEF IInv, UpToDate
<1>6. CASE Broadcasted
  <2>1. /\ UNCHANGED others /\ UNCHANGED <<received, frame, toWrite>>
        /\ pc[Process] = "next" /\ toWrite = {} /\ Goto(Process, "loop")
    BY <1>6 DEF Broadcasted, broadcastRest, acceptVars, clientVars, stopVars
  <2>2. Typed'
    BY <2>1 DEF IInv, Typed, Goto
  <2>3. Phased'
    BY <1>1, <2>1 DEF IInv, Phased, Admitted, Broadcasting
  <2>4. Lived'
    BY <2>1, ProcessLived
  <2>5. UpToDate'
    BY <1>1, <2>1 DEF IInv, UpToDate, Admitted, NextFor, Awaits, Published
  <2> QED BY <2>2, <2>3, <2>4, <2>5 DEF IInv
<1>7. CASE Write
  <2>1. /\ UNCHANGED others /\ UNCHANGED <<frame, toWrite, current>>
        /\ pc[Process] = "write" /\ Goto(Process, "next")
        /\ received' = [received EXCEPT ![current] = Append(@, frame)]
    BY <1>7 DEF Write, broadcastRest, acceptVars, clientVars, stopVars
  <2>2. current \in Clients /\ Admitted(current) /\ current \notin toWrite
    BY <2>1 DEF IInv, Phased
  <2>3. Typed'
    BY <2>1, <2>2 DEF IInv, Typed, Goto
  <2>4. Phased'
    BY <1>1, <2>1 DEF IInv, Phased, Admitted, Broadcasting
  <2>5. Lived'
    BY <2>1, <2>2, ProcessLived DEF IInv, Typed
  <2>6. Published' = Published
    BY <1>1, <2>1 DEF Published
  <2>7. ASSUME NEW c \in Clients, Admitted(c)', ~closed'[c]
        PROVE  NextFor(c)' = IF Awaits(c)' THEN Published' ELSE Published' + 1
    <3>1. Admitted(c) /\ ~closed[c]
      BY <2>1, <2>7 DEF Admitted
    <3>2. CASE c = current
      <4>1. received'[c] = Append(received[c], frame) /\ received[c] \in Seq(Nat)
        BY <2>1, <3>2 DEF IInv, Typed
      <4>2. Len(received'[c]) = Len(received[c]) + 1
        BY <4>1 DEF IInv, Typed
      <4>3. NextFor(c)' = NextFor(c) + 1
        BY <2>1, <4>1, <4>2 DEF NextFor, IInv, Typed
      <4>4. ~Awaits(c)'
        BY <1>1, <2>1, <2>2, <3>2 DEF Awaits
      <4>5. NextFor(c) = Published
        BY <2>1, <3>2 DEF IInv, UpToDate, NextFor
      <4> QED BY <2>6, <4>3, <4>4, <4>5
    <3>3. CASE c # current
      <4>1. NextFor(c)' = NextFor(c) /\ Awaits(c)' = Awaits(c)
        BY <1>1, <2>1, <3>3 DEF NextFor, Awaits, IInv, Typed
      <4> QED BY <2>6, <3>1, <4>1 DEF IInv, UpToDate
    <3> QED BY <3>2, <3>3
  <2>8. UpToDate'
    BY <1>1, <2>1, <2>7 DEF UpToDate
  <2> QED BY <2>3, <2>4, <2>5, <2>8 DEF IInv
<1>8. CASE WriteFails
  <2>1. /\ UNCHANGED others /\ UNCHANGED <<received, frame, toWrite, current>>
        /\ pc[Process] = "write" /\ Goto(Process, "cleanup")
    BY <1>8 DEF WriteFails, broadcastRest, acceptVars, clientVars, stopVars
  <2>2. Typed'
    BY <2>1 DEF IInv, Typed, Goto
  <2>3. Phased'
    BY <1>1, <2>1 DEF IInv, Phased, Admitted, Broadcasting
  <2>4. Lived'
    BY <2>1, ProcessLived
  <2>5. UpToDate'
    BY <1>1, <2>1 DEF IInv, UpToDate, Admitted, NextFor, Awaits, Published
  <2> QED BY <2>2, <2>3, <2>4, <2>5 DEF IInv
<1>9. CASE Cleanup(Process)
  BY <1>9, CleanupIInv DEF Cleaners
<1> QED BY <1>2, <1>3, <1>4, <1>5, <1>6, <1>7, <1>8, <1>9 DEF processLoop

------------------------------------------------------------------------------
\* The flush loop, Stop, Start and the clients.

LEMMA FlushIInv ==
  ASSUME IInv, flushLoop
  PROVE  IInv'
<1>1. \E label \in {"tick", "done", "loop", "flush", "writeout", "compare", "reset"} :
        Goto(Flusher, label)
  <2>1. CASE FlushCheck \/ FlushCancelled \/ Tick \/ WriterGone(Flusher)
    BY <2>1 DEF FlushCheck, FlushCancelled, Tick, WriterGone
  <2>2. CASE Flush(Flusher)
    BY <2>2, FlushLabels, ThreadFacts DEF Writers
  <2> QED BY <2>1, <2>2 DEF flushLoop
<1>2. UNCHANGED core /\ UNCHANGED <<toClose, closing, inHand>>
  <2>1. CASE FlushCheck \/ FlushCancelled \/ Tick
    BY <2>1 DEF FlushCheck, FlushCancelled, Tick, csvRest, acceptVars, core, clientVars,
         writeVars, stopVars
  <2>2. CASE Flush(Flusher) \/ WriterGone(Flusher)
    BY <2>2, WriterUnseen DEF acceptVars, stopVars, Writers
  <2> QED BY <2>1, <2>2 DEF flushLoop
<1> QED BY <1>1, <1>2, ThreadFacts, OtherMoves

LEMMA StopIInv ==
  ASSUME IInv, StopClearRunning \/ StopGoesOn
  PROVE  IInv'
<1> USE ThreadFacts
<1>1. CASE \/ StopClearRunning \/ StopCancel \/ StopListener \/ StopSnapshot \/ StopWait
           \/ StopFile \/ StopClose
  <2>1. \E label \in {"cancel", "listener", "snapshot", "next", "file", "flush", "done"} :
          Goto(Stopper, label)
    BY <1>1 DEF StopClearRunning, StopCancel, StopListener, StopSnapshot, StopWait, StopFile,
         StopClose
  <2>2. UNCHANGED core /\ inHand' = inHand
    BY <1>1 DEF StopClearRunning, StopCancel, StopListener, StopSnapshot, StopWait, StopFile,
         StopClose, stopRest, core, clientVars, writeVars, stopVars
  <2>3. CASE ~StopSnapshot
    <3>1. toClose' = toClose
      BY <1>1, <2>3
      DEF StopClearRunning, StopCancel, StopListener, StopWait, StopFile, StopClose, stopRest,
          stopVars
    <3> QED BY <2>1, <2>2, <3>1, OtherMoves
  <2>4. CASE StopSnapshot
    <3>1. toClose' = tcpClients /\ Goto(Stopper, "next")
      BY <2>4 DEF StopSnapshot
    <3>2. \A u \in Threads : pc'[u] = IF u = Stopper THEN "next" ELSE pc[u]
      BY <3>1 DEF Goto, IInv, Typed
    <3>3. Typed'
      BY <2>2, <3>1 DEF core, IInv, Typed, Goto
    <3>4. Phased'
      BY <2>2, <3>2 DEF core, IInv, Phased, Admitted
    <3>5. Lived'
      <4>1. (pc[Accepter] = "admit" =>
              inHand \in Clients /\ ~Admitted(inHand) /\ sock[inHand] \in {"open", "reset"})'
        BY <2>2, <3>2 DEF core, IInv, Lived, Admitted
      <4>2. ASSUME NEW c \in Clients
            PROVE  /\ (~Admitted(c) => ~closed[c] /\ received[c] = <<>> /\ pc[c] = "off")'
                   /\ (sock[c] = "unused" => ~Admitted(c))'
                   /\ (Admitted(c) /\ sock[c] = "closed" => closed[c])'
                   /\ (Admitted(c) /\ ~closed[c] => c \in tcpClients)'
                   /\ (c \in tcpClients \cup toWrite \cup toClose => Admitted(c))'
        BY <2>2, <3>1, <3>2 DEF core, IInv, Lived, Admitted
      <4>3. ASSUME NEW u \in Cleaners, pc'[u] = "remove" PROVE closed'[Target(u)']
        <5>1. u # Stopper /\ pc[u] = "remove" /\ Target(u)' = Target(u)
          BY <2>2, <3>2, <4>3 DEF Target, core
        <5> QED BY <2>2, <5>1 DEF core, IInv, Lived
      <4> QED BY <4>1, <4>2, <4>3 DEF Lived
    <3>6. UpToDate'
      BY <2>2, <3>2 DEF core, IInv, UpToDate, Admitted, NextFor, Awaits, Published
    <3> QED BY <3>3, <3>4, <3>5, <3>6 DEF IInv
  <2> QED BY <2>3, <2>4
<1>2. ASSUME NEW k \in Clients, StopNext(k) PROVE IInv'
  <2>1. /\ UNCHANGED core /\ inHand' = inHand
        /\ k \in toClose /\ toClose' = toClose \ {k} /\ closing' = k /\ Goto(Stopper, "cleanup")
    BY <1>2 DEF StopNext, stopRest, core, clientVars, writeVars
  <2>2. \A u \in Threads : pc'[u] = IF u = Stopper THEN "cleanup" ELSE pc[u]
    BY <2>1 DEF Goto, IInv, Typed
  <2>3. Typed'
    BY <2>1 DEF core, IInv, Typed, Goto
  <2>4. Phased'
    BY <2>1, <2>2 DEF core, IInv, Phased, Lived, Admitted
  <2>5. Lived'
    <3>1. (pc[Accepter] = "admit" =>
            inHand \in Clients /\ ~Admitted(inHand) /\ sock[inHand] \in {"open", "reset"})'
      BY <2>1, <2>2 DEF core, IInv, Lived, Admitted
    <3>2. ASSUME NEW c \in Clients
          PROVE  /\ (~Admitted(c) => ~closed[c] /\ received[c] = <<>> /\ pc[c] = "off")'
                 /\ (sock[c] = "unused" => ~Admitted(c))'
                 /\ (Admitted(c) /\ sock[c] = "closed" => closed[c])'
                 /\ (Admitted(c) /\ ~closed[c] => c \in tcpClients)'
                 /\ (c \in tcpClients \cup toWrite \cup toClose => Admitted(c))'
      BY <2>1, <2>2 DEF core, IInv, Lived, Admitted
    <3>3. ASSUME NEW u \in Cleaners, pc'[u] = "remove" PROVE closed'[Target(u)']
      <4>1. u # Stopper /\ pc[u] = "remove" /\ Target(u)' = Target(u)
        BY <2>1, <2>2, <3>3 DEF Target, core
      <4> QED BY <2>1, <4>1 DEF core, IInv, Lived
    <3> QED BY <3>1, <3>2, <3>3 DEF Lived
  <2>6. UpToDate'
    BY <2>1, <2>2 DEF core, IInv, UpToDate, Admitted, NextFor, Awaits, Published
  <2> QED BY <2>3, <2>4, <2>5, <2>6 DEF IInv
<1>3. CASE Cleanup(Stopper)
  BY <1>3, CleanupIInv DEF Cleaners
<1>4. CASE Flush(Stopper)
  <2>1. \E label \in {"writeout", "compare", "reset", "close"} : Goto(Stopper, label)
    BY <1>4, FlushLabels DEF Writers
  <2>2. UNCHANGED core /\ UNCHANGED <<toClose, closing, inHand>>
    BY <1>4, WriterUnseen DEF acceptVars, stopVars, Writers
  <2> QED BY <2>1, <2>2, OtherMoves
<1> QED BY <1>1, <1>2, <1>3, <1>4 DEF StopGoesOn

LEMMA StartIInv ==
  ASSUME IInv, Start
  PROVE  IInv'
<1> USE ThreadFacts
<1>1. /\ UNCHANGED core /\ UNCHANGED <<toClose, closing, inHand>>
      /\ pc[Stopper] = "new" /\ pc[Process] = "off"
  BY DEF Start, core, clientVars, writeVars, IInv, Phased
<1>2. /\ DOMAIN pc' = Threads
      /\ pc'[Process] = "loop" /\ pc'[Stopper] = "started" /\ pc'[Accepter] \in {"loop", "off"}
      /\ \A c \in Clients : pc'[c] = pc[c]
  BY DEF Start, IInv, Typed
<1>3. Typed'
  BY <1>1, <1>2 DEF core, IInv, Typed
<1>4. Phased'
  BY <1>1, <1>2 DEF core, IInv, Phased, Broadcasting
<1>5. Lived'
  BY <1>1, <1>2 DEF core, IInv, Lived, Admitted, Cleaners, Target
<1>6. UpToDate'
  BY <1>1, <1>2 DEF core, IInv, UpToDate, Admitted, NextFor, Awaits, Published
<1> QED BY <1>3, <1>4, <1>5, <1>6 DEF IInv

\* The steps that move no thread.
LEMMA ClientIInv ==
  ASSUME IInv, (\E c \in Clients : PeerReset(c) \/ Stall(c)) \/ UNCHANGED vars
  PROVE  IInv'
<1> USE ThreadFacts
<1>1. /\ UNCHANGED <<config, tcpClients, closed, first, received, frame, toWrite, current,
                     toClose, closing, inHand, pc>>
      /\ \/ sock' = sock
         \/ \E c \in Clients : sock[c] = "open" /\ sock' = [sock EXCEPT ![c] = "reset"]
  BY DEF PeerReset, Stall, vars, acceptVars, clientVars, writeVars, stopVars
<1>2. Typed'
  BY <1>1 DEF IInv, Typed
<1>3. Phased'
  BY <1>1 DEF IInv, Phased, Admitted
<1>4. Lived'
  BY <1>1 DEF IInv, Typed, Lived, Admitted, Target
<1>5. UpToDate'
  BY <1>1 DEF IInv, UpToDate, Admitted, NextFor, Awaits, Published
<1> QED BY <1>2, <1>3, <1>4, <1>5 DEF IInv

LEMMA NextIInv == IInv /\ [Next]_vars => IInv'
BY AcceptIInv, AcceptOkIInv, MonitorIInv, ProcessIInv, FlushIInv, StopIInv, StartIInv, ClientIInv
DEF Next

LEMMA IInvHolds == Spec => []IInv
BY InitIInv, NextIInv, PTL DEF Spec

------------------------------------------------------------------------------
\* The refinement.  Nothing a client is promised changes in a step like this.
LEMMA Unseen ==
  ASSUME UNCHANGED <<sock, closed, received, first, Published>>
  PROVE  UNCHANGED Abstract!vars
BY DEF Abstract!vars, Status

LEMMA CleanupRefines ==
  ASSUME IInv, NEW t \in Cleaners, Cleanup(t)
  PROVE  [Abstract!Next]_(Abstract!vars)
<1> USE ThreadFacts
<1> DEFINE k == Target(t)
<1>1. PICK c \in Clients : c = k /\ Admitted(c)
  BY TargetIsClient DEF Cleanup, CleanupOnce, CleanupRemove
<1>2. /\ UNCHANGED <<config, first, received, frame>>
      /\ pc[t] \in {"cleanup", "remove"}
      /\ \E label : Goto(t, label) /\ (t = Process => label \in {"next", "remove"})
  BY DEF Cleanup, CleanupOnce, CleanupRemove, cleanupRest, writeVars, Leave
<1>3. Published' = Published
  BY <1>2 DEF Published, Goto, IInv, Typed
<1>4. CASE CleanupOnce(t)
  <2>1. sock' = sock /\ closed' = [closed EXCEPT ![c] = TRUE]
    BY <1>1, <1>4 DEF CleanupOnce
  <2>2. CASE closed[c]
    <3>1. closed' = closed
      BY <2>1, <2>2 DEF IInv, Typed
    <3> QED BY <1>2, <1>3, <2>1, <3>1, Unseen
  <2>3. CASE ~closed[c]
    <3>1. sock[c] # "closed"
      BY <1>1, <2>3 DEF IInv, Lived
    <3>2. Status(c) = "member" /\ Status(c)' = "leaving"
      BY <1>1, <1>2, <2>1, <2>3, <3>1 DEF Status, Admitted, IInv, Typed
    <3>3. \A d \in Clients : d # c => Status(d)' = Status(d)
      BY <1>2, <2>1 DEF Status, IInv, Typed
    <3>4. Abstract!Leave(c)
      BY <1>2, <1>3, <3>2, <3>3 DEF Abstract!Leave
    <3> QED BY <3>4 DEF Abstract!Next
  <2> QED BY <2>2, <2>3
<1>5. CASE CleanupRemove(t)
  <2>1. closed' = closed /\ sock' = [sock EXCEPT ![c] = "closed"] /\ closed[c]
    BY <1>1, <1>5 DEF CleanupRemove, IInv, Lived
  <2>2. CASE sock[c] = "closed"
    <3>1. sock' = sock
      BY <2>1, <2>2 DEF IInv, Typed
    <3> QED BY <1>2, <1>3, <2>1, <3>1, Unseen
  <2>3. CASE sock[c] # "closed"
    <3>1. Status(c) = "leaving" /\ Status(c)' = "gone"
      BY <1>1, <1>2, <2>1, <2>3 DEF Status, Admitted, IInv, Typed
    <3>2. \A d \in Clients : d # c => Status(d)' = Status(d)
      BY <1>2, <2>1 DEF Status, IInv, Typed
    <3>3. Abstract!Leave(c)
      BY <1>2, <1>3, <3>1, <3>2 DEF Abstract!Leave
    <3> QED BY <3>3 DEF Abstract!Next
  <2> QED BY <2>2, <2>3
<1> QED BY <1>4, <1>5 DEF Cleanup

\* A client that is admitted joins: there is room, as every member is in the map.
LEMMA AdmitRefines ==
  ASSUME IInv, Admit
  PROVE  [Abstract!Next]_(Abstract!vars)
<1> USE ThreadFacts
<1>1. PICK c \in Clients : c = inHand /\ ~Admitted(c) /\ sock[c] # "closed"
  BY DEF Admit, IInv, Lived
<1>2. /\ first' = [first EXCEPT ![c] = Published + 1]
      /\ pc' = [pc EXCEPT ![Accepter] = "loop", ![c] = "loop"]
      /\ UNCHANGED <<config, sock, closed, received, frame>>
  BY <1>1 DEF Admit, writeVars
<1>3. Published' = Published /\ Published \in Nat
  <2>1. pc'[Process] = pc[Process]
    BY <1>2 DEF IInv, Typed
  <2> QED BY <1>2, <2>1 DEF Published, IInv, Typed, Phased
<1>4. Status(c) = "out" /\ Status(c)' = "member"
  BY <1>1, <1>2, <1>3 DEF Status, Admitted, IInv, Typed, Lived
<1>5. \A d \in Clients : d # c => Status(d)' = Status(d)
  BY <1>2 DEF Status, IInv, Typed
<1>6. Abstract!Members \subseteq tcpClients
  BY DEF Abstract!Members, Status, Admitted, IInv, Lived
<1>7. Cardinality(Abstract!Members) < MaxClients
  <2>1. IsFiniteSet(tcpClients)
    BY FS_Subset, OutputAssumption DEF IInv, Typed
  <2>2. Cardinality(Abstract!Members) <= Cardinality(tcpClients)
    BY <1>6, <2>1, FS_Subset
  <2>3. Cardinality(Abstract!Members) \in Nat /\ Cardinality(tcpClients) \in Nat
    BY <1>6, <2>1, FS_Subset, FS_CardinalityType
  <2>4. Cardinality(tcpClients) < MaxClients
    BY DEF Admit
  <2> QED BY <2>2, <2>3, <2>4, OutputAssumption
<1>8. Abstract!Join(c)
  <2>1. [d \in Clients |-> Status(d)]' = [[d \in Clients |-> Status(d)] EXCEPT ![c] = "member"]
    BY <1>4, <1>5
  <2>2. [d \in Clients |-> Status(d)][c] = "out"
    BY <1>4
  <2>3. UNCHANGED <<Published, received>>
    BY <1>2, <1>3
  <2>4. Abstract!Cardinality(Abstract!Members) = Cardinality(Abstract!Members)
    BY DEF Abstract!Cardinality, Cardinality
  <2> QED BY <1>2, <1>7, <2>1, <2>2, <2>3, <2>4 DEF Abstract!Join
<1> QED BY <1>8 DEF Abstract!Next

\* Taking the snapshot publishes the frame; every member has the one before.
LEMMA SnapshotRefines ==
  ASSUME IInv, Snapshot
  PROVE  [Abstract!Next]_(Abstract!vars)
<1> USE ThreadFacts
<1>1. /\ pc[Process] = "snapshot" /\ pc' = [pc EXCEPT ![Process] = "next"]
      /\ UNCHANGED <<config, sock, closed, first, received, frame>>
  BY DEF Snapshot, Goto, broadcastRest, clientVars
<1>2. Published = frame - 1 /\ Published' = frame /\ frame \in Nat
  BY <1>1 DEF Published, IInv, Typed, Phased
<1>3. ASSUME NEW c \in Abstract!Members
      PROVE  Abstract!NextFor(c) = Published + 1
  <2>1. c \in Clients /\ Admitted(c) /\ ~closed[c]
    BY <1>3 DEF Abstract!Members, Status, Admitted
  <2>2. ~Awaits(c)
    BY <1>1, <2>1, NobodyAwaits DEF Broadcasting
  <2> QED BY <2>1, <2>2 DEF IInv, UpToDate, NextFor, Abstract!NextFor
<1>4. \A c \in Clients : Status(c)' = Status(c)
  BY <1>1 DEF Status
<1>5. Abstract!Publish
  BY <1>1, <1>2, <1>3, <1>4 DEF Abstract!Publish
<1> QED BY <1>5 DEF Abstract!Next

\* A successful write delivers to its client the frame it is waiting for.
LEMMA WriteRefines ==
  ASSUME IInv, Write
  PROVE  [Abstract!Next]_(Abstract!vars)
<1> USE ThreadFacts
<1>1. /\ pc[Process] = "write" /\ pc' = [pc EXCEPT ![Process] = "next"]
      /\ UNCHANGED <<config, sock, closed, first, frame>>
      /\ received' = [received EXCEPT ![current] = Append(@, frame)]
      /\ sock[current] # "closed"
  BY DEF Write, Goto, broadcastRest, clientVars
<1>2. PICK c \in Clients : c = current /\ Admitted(c)
  BY <1>1 DEF IInv, Phased
<1>3. Published = frame /\ Published' = frame
  BY <1>1 DEF Published, IInv, Typed, Phased, Broadcasting
<1>4. NextFor(c) = frame
  BY <1>1, <1>2, <1>3 DEF IInv, UpToDate, NextFor
<1>5. Status(c) \in {"member", "leaving"}
  BY <1>1, <1>2 DEF Status, Admitted, IInv, Typed
<1>6. \A d \in Clients : Status(d)' = Status(d)
  BY <1>1 DEF Status
<1>7. Abstract!Deliver(c)
  <2>1. Abstract!NextFor(c) = frame /\ frame <= Published
    BY <1>3, <1>4 DEF Abstract!NextFor, NextFor, IInv, Typed
  <2>2. received' = [received EXCEPT ![c] = Append(@, Abstract!NextFor(c))]
    BY <1>1, <1>2, <2>1
  <2>3. [d \in Clients |-> Status(d)]' = [d \in Clients |-> Status(d)]
    BY <1>6
  <2>4. [d \in Clients |-> Status(d)][c] \in {"member", "leaving"}
    BY <1>5
  <2> QED BY <1>1, <1>3, <2>1, <2>2, <2>3, <2>4 DEF Abstract!Deliver
<1> QED BY <1>7 DEF Abstract!Next

\* The other steps of the process loop leave the promise alone; a frame that has
\* been received is not published yet.
LEMMA ProcessRefines ==
  ASSUME IInv, processLoop
  PROVE  [Abstract!Next]_(Abstract!vars)
<1> USE ThreadFacts
<1>1. CASE Snapshot
  BY <1>1, SnapshotRefines
<1>2. CASE Write
  BY <1>2, WriteRefines
<1>3. CASE Cleanup(Process)
  BY <1>3, CleanupRefines DEF Cleaners
<1>4. CASE Receive
  <2>1. /\ UNCHANGED <<config, sock, closed, received, first>> /\ pc[Process] = "select"
        /\ \/ frame' = frame + 1 /\ pc' = [pc EXCEPT ![Process] = IF config.csv THEN "row" ELSE "file"]
           \/ frame' = frame /\ pc' = [pc EXCEPT ![Process] = "loop"]
    BY <1>4 DEF Receive, Goto, clientVars
  <2>2. Published' = Published
    BY <2>1 DEF Published, IInv, Typed
  <2> QED BY <2>1, <2>2, Unseen
<1>5. CASE ProcessCheck \/ Cancelled \/ WriteToFile \/ Broadcasted \/ WriteFails
            \/ \E c \in Clients : NextClient(c)
  <2>1. UNCHANGED <<config, sock, closed, received, first, frame>>
    BY <1>5 DEF ProcessCheck, Cancelled, WriteToFile, Broadcasted, WriteFails,
         NextClient, broadcastRest, clientVars, writeVars
  <2>2. \/ /\ pc[Process] = "file" /\ Goto(Process, "snapshot")
        \/ /\ pc[Process] \in {"loop", "select", "next", "write"}
           /\ \E label \in {"loop", "select", "done", "next", "write", "cleanup"} :
                Goto(Process, label)
    BY <1>5 DEF ProcessCheck, Cancelled, WriteToFile, Broadcasted, WriteFails, NextClient
  <2>3. Published' = Published
    BY <2>1, <2>2 DEF Published, Goto, IInv, Typed
  <2> QED BY <2>1, <2>3, Unseen
<1>6. CASE serializeCSV \/ Flush(Process) \/ WriterGone(Process)
  <2>1. UNCHANGED <<config, sock, closed, received, first, frame>>
    BY <1>6, WriterUnseen DEF core, Writers
  <2>2. pc[Process] \in Rowing /\ \E label \in Rowing \cup {"loop", "done"} : Goto(Process, label)
    BY <1>6, RowLabels
  <2>3. Published' = Published
    BY <2>1, <2>2 DEF Published, Goto, Rowing, IInv, Typed
  <2> QED BY <2>1, <2>3, Unseen
<1> QED BY <1>1, <1>2, <1>3, <1>4, <1>5, <1>6 DEF processLoop

\* Steps of the other threads that no client can see.
LEMMA OthersRefine ==
  ASSUME IInv,
         \/ AcceptCheck \/ ListenerGone \/ Refuse \/ AcceptFail \/ flushLoop \/ Start
         \/ StopClearRunning \/ StopCancel \/ StopListener \/ StopSnapshot \/ StopWait \/ StopFile
         \/ Flush(Stopper) \/ StopClose
         \/ \E c \in Clients :
              \/ AcceptOk(c) \/ StopNext(c) \/ PeerReset(c) \/ Stall(c)
              \/ MonitorCheck(c) \/ ReadData(c) \/ MarkActive(c) \/ ReadTimeout(c) \/ ReadFails(c)
  PROVE  UNCHANGED Abstract!vars
<1> USE ThreadFacts
<1>1. /\ UNCHANGED <<config, closed, received, first, frame>>
      /\ \/ sock' = sock
         \/ Refuse \/ \E d \in Clients : AcceptOk(d) \/ PeerReset(d)
  <2>1. CASE Flush(Flusher) \/ WriterGone(Flusher) \/ Flush(Stopper)
    BY <2>1, WriterUnseen DEF core, Writers
  <2>2. CASE FlushCheck \/ FlushCancelled \/ Tick
    BY <2>2 DEF FlushCheck, FlushCancelled, Tick, csvRest, clientVars, writeVars
  <2>3. CASE ~flushLoop /\ ~Flush(Stopper)
    BY <2>3 DEF AcceptCheck, ListenerGone, Refuse, AcceptFail, Start, StopClearRunning, StopCancel,
       StopListener, StopSnapshot, StopWait, StopFile, StopClose, AcceptOk, StopNext, PeerReset,
       Stall, MonitorCheck, ReadData, MarkActive, ReadTimeout, ReadFails, acceptRest,
       monitorRest, stopRest, clientVars, writeVars
  <2> QED BY <2>1, <2>2, <2>3 DEF flushLoop
<1>2. \/ pc' = pc
      \/ \E t \in Threads \ {Process} : \E label : Goto(t, label)
      \/ pc[Process] = "off" /\ pc'[Process] = "loop"
  <2>1. CASE Start
    BY <2>1 DEF Start, IInv, Typed, Phased
  <2>2. CASE AcceptCheck \/ ListenerGone \/ Refuse \/ AcceptFail \/ \E c \in Clients : AcceptOk(c)
    BY <2>2 DEF AcceptCheck, ListenerGone, Refuse, AcceptFail, AcceptOk
  <2>3. CASE flushLoop \/ Flush(Stopper)
    BY <2>3, FlushLabels DEF flushLoop, FlushCheck, FlushCancelled, Tick, WriterGone, Writers
  <2>4. CASE StopClearRunning \/ StopCancel \/ StopListener \/ StopSnapshot \/ StopWait \/ StopFile
             \/ StopClose \/ \E c \in Clients : StopNext(c)
    BY <2>4 DEF StopClearRunning, StopCancel, StopListener, StopSnapshot, StopWait, StopFile,
       StopClose, StopNext
  <2>5. CASE \E c \in Clients : MonitorCheck(c) \/ ReadData(c) \/ MarkActive(c)
                                \/ ReadTimeout(c) \/ ReadFails(c)
    BY <2>5 DEF MonitorCheck, ReadData, MarkActive, ReadTimeout, ReadFails
  <2>6. CASE \E c \in Clients : PeerReset(c) \/ Stall(c)
    BY <2>6 DEF PeerReset, Stall
  <2> QED BY <2>1, <2>2, <2>3, <2>4, <2>5, <2>6
<1>3. Published' = Published
  BY <1>1, <1>2 DEF Published, Goto, IInv, Typed
<1>4. ASSUME NEW c \in Clients PROVE Status(c)' = Status(c)
  <2>1. sock'[c] # sock[c] => first[c] = 0 \/ "closed" \notin {sock[c], sock'[c]}
    <3>1. CASE sock' = sock
      BY <3>1
    <3>2. CASE Refuse
      <4>1. sock' = [sock EXCEPT ![inHand] = "closed"] /\ inHand \in Clients /\ first[inHand] = 0
        BY <3>2 DEF Refuse, IInv, Typed, Lived, Admitted
      <4> QED BY <4>1 DEF IInv, Typed
    <3>3. ASSUME NEW d \in Clients, AcceptOk(d) \/ PeerReset(d)
          PROVE  sock'[c] # sock[c] => first[c] = 0 \/ "closed" \notin {sock[c], sock'[c]}
      BY <3>3 DEF AcceptOk, PeerReset, IInv, Typed, Lived, Admitted
    <3> QED BY <1>1, <3>1, <3>2, <3>3
  <2> QED BY <1>1, <2>1 DEF Status, IInv, Typed
<1> QED BY <1>1, <1>3, <1>4 DEF Abstract!vars

LEMMA NextRefines == IInv /\ [Next]_vars => [Abstract!Next]_(Abstract!vars)
<1> SUFFICES ASSUME IInv, [Next]_vars PROVE [Abstract!Next]_(Abstract!vars)
  OBVIOUS
<1>1. CASE Admit
  BY <1>1, AdmitRefines
<1>2. CASE processLoop
  BY <1>2, ProcessRefines
<1>3. CASE Cleanup(Stopper)
  BY <1>3, CleanupRefines DEF Cleaners
<1>4. ASSUME NEW c \in Clients, Cleanup(c) PROVE [Abstract!Next]_(Abstract!vars)
  BY <1>4, CleanupRefines DEF Cleaners
<1>5. CASE UNCHANGED vars
  BY <1>5, Unseen DEF vars, clientVars, writeVars, Published
<1> QED
  BY <1>1, <1>2, <1>3, <1>4, <1>5, OthersRefine
  DEF Next, acceptTCPClients, monitorTCPClient, StopGoesOn

\* The output implements AbstractBroadcast: whoever is in the map when a broadcast
\* begins has received every frame since it was added, although monitors, broadcast
\* and Stop remove clients while the list is worked off (output.go:335, 559).
THEOREM OutputKeepsPromise == Spec => LockstepBroadcast
<1>1. Init => Abstract!Init
  <2> SUFFICES ASSUME Init PROVE Abstract!Init
    OBVIOUS
  <2>1. pc[Process] = "off"
    BY ThreadFacts DEF Init
  <2>2. Published = 0
    BY <2>1 DEF Init, Published
  <2>3. \A c \in Clients : Status(c) = "out"
    BY DEF Init, Status
  <2> QED BY <2>2, <2>3 DEF Init, Abstract!Init
<1> QED BY <1>1, IInvHolds, NextRefines, PTL DEF Spec, LockstepBroadcast

------------------------------------------------------------------------------
\* The file.

\* The pieces of all frames up to f.
Total(f) == f * RowLength

InRow    == pc[Process] \in Rowing
Emptying == \E t \in Writers : pc[t] \in {"compare", "reset"}

\* The pieces that have been given to writeToFile or put into the CSV writer's buffer.
Given ==
  CASE InRow -> Total(frame) - RowLength + part
    [] pc[Process] = "file" -> Total(frame) - RowLength
    [] OTHER -> Total(frame)

\* After a Stop that has timed out nothing is promised.
Promised == ~(pc[Stopper] = "done" /\ timedOut)

Closing == pc[Stopper] = "done" \/ InWriter(Stopper)

\* What the variables hold.
Data ==
  /\ file \in Seq(Nat) /\ faults \in Nat
  /\ buffer \in [1 .. BufferSize -> Nat] /\ buffered \in Int /\ place \in Int
  /\ taken \in [Writers -> 0 .. BufferSize] /\ part \in 0 .. RowLength
  /\ buffered <= BufferSize
  /\ ~csvError => buffered >= 0 /\ (pc[Process] = "count" => place >= 0)
  /\ pc[Process] = "count" => part < RowLength /\ buffered < BufferSize /\ place < BufferSize
  /\ ~InRow => part = 0

\* Who can be where.
Placed ==
  /\ InRow => config.csv /\ frame > 0
  /\ pc[Flusher] # "off" => config.csv /\ config.file /\ pc[Stopper] # "new"
  /\ InWriter(Stopper) => config.csv /\ config.file
  /\ Closing => fileClosed
  /\ fileClosed /\ config.csv /\ config.file => Closing
  /\ ~config.file => fileClosed

Ended ==
  /\ (Closing \/ pc[Stopper] = "file") /\ ~timedOut => AllEnded
  /\ timedOut => Closing \/ pc[Stopper] = "file"

\* One thread at a time is in the CSV writer, and none when Stop is through with it.
Alone ==
  ~raced =>
    /\ \A t, u \in Writers : InWriter(t) /\ InWriter(u) => t = u
    /\ NoWriter => /\ InRow => pc[Process] = "row" /\ part = 0
                   /\ ~InWriter(Flusher)

InOrder == ~raced => \A i \in 1 .. Len(file) : file[i] = i

\* An error comes from the file, and nobody goes on after it.
Failed ==
  ~raced /\ csvError =>
    faults # 0 /\ \A t \in Writers : pc[t] \notin {"writeout", "compare", "reset"}

\* What is not in the file yet is in the buffer, except after it has been written out.
Kept ==
  ~raced /\ ~csvError /\ config.csv /\ config.file /\ Promised =>
    /\ Emptying => Len(file) = Given
    /\ ~Emptying => /\ Len(file) + buffered = Given
                    /\ \A i \in 1 .. buffered : buffer[i] = Len(file) + i
    /\ \A t \in Writers : pc[t] \in {"writeout", "compare"} => taken[t] = buffered
    /\ pc[Process] = "count" => place = buffered /\ buffer[buffered + 1] = Given + 1
    /\ pc[Stopper] \in {"close", "done"} => buffered = 0

\* JSON and binary lines go to the file at once.
Direct ==
  ~config.csv =>
    /\ ~fileClosed => Len(file) = Given
    /\ config.file /\ faults = 0 => /\ Promised => Len(file) = Given
                                    /\ pc[Stopper] # "done" => ~fileClosed

FileInv == Data /\ Placed /\ Ended /\ Alone /\ InOrder /\ Failed /\ Kept /\ Direct

------------------------------------------------------------------------------
\* Pieces and their numbers.

LEMMA TotalStep ==
  \A f \in Nat : Total(f) \in Nat /\ Total(f + 1) = Total(f) + RowLength
<1> SUFFICES ASSUME NEW f \in Nat
             PROVE  f * RowLength \in Nat /\ (f + 1) * RowLength = f * RowLength + RowLength
  BY DEF Total
<1> QED BY OutputAssumption

LEMMA RowPieces ==
  ASSUME NEW f \in Nat, f > 0
  PROVE  /\ Total(f) - RowLength \in Nat
         /\ Row(f) \in Seq(Nat) /\ Len(Row(f)) = RowLength
         /\ \A i \in 1 .. RowLength : Row(f)[i] = Total(f) - RowLength + i
<1>1. PICK g \in Nat : g = f - 1 /\ f = g + 1
  <2>1. f - 1 \in Nat /\ f = (f - 1) + 1
    OBVIOUS
  <2> QED BY <2>1
<1>2. Total(f) = Total(g) + RowLength /\ Total(g) \in Nat /\ RowLength \in Nat
  BY <1>1, TotalStep, OutputAssumption
<1>3. Row(f) = [i \in 1 .. RowLength |-> Total(g) + i]
  BY <1>1 DEF Row, Total
<1>4. \A i \in 1 .. RowLength : Total(g) + i \in Nat
  BY <1>2
<1> QED BY <1>2, <1>3, <1>4

LEMMA Concat ==
  ASSUME NEW s \in Seq(Nat), NEW q \in Seq(Nat)
  PROVE  /\ s \o q \in Seq(Nat) /\ Len(s \o q) = Len(s) + Len(q)
         /\ Len(s) \in Nat /\ Len(q) \in Nat
         /\ \A i \in 1 .. Len(s) + Len(q) :
              (s \o q)[i] = IF i <= Len(s) THEN s[i] ELSE q[i - Len(s)]
OBVIOUS

\* A write of the first pieces of r to the file.
LEMMA Written ==
  ASSUME NEW s \in Seq(Nat), NEW r \in Seq(Nat), NEW k \in 0 .. Len(r)
  PROVE  /\ s \o SubSeq(r, 1, k) \in Seq(Nat) /\ Len(s \o SubSeq(r, 1, k)) = Len(s) + k
         /\ (\A i \in 1 .. Len(s) : s[i] = i) /\ (\A i \in 1 .. k : r[i] = Len(s) + i) =>
              \A i \in 1 .. Len(s \o SubSeq(r, 1, k)) : (s \o SubSeq(r, 1, k))[i] = i
<1>1. PICK q : q = SubSeq(r, 1, k)
  OBVIOUS
<1>2. q \in Seq(Nat) /\ Len(q) = k /\ \A i \in 1 .. k : q[i] = r[i]
  <2>1. k \in Nat /\ Len(r) \in Nat /\ k <= Len(r)
    OBVIOUS
  <2>2. q = [i \in 1 .. k |-> r[i]]
    BY <1>1, <2>1
  <2>3. \A i \in 1 .. k : r[i] \in Nat
    BY <2>1
  <2> QED BY <2>1, <2>2, <2>3
<1>3. /\ s \o q \in Seq(Nat) /\ Len(s \o q) = Len(s) + k /\ Len(s) \in Nat /\ k \in Nat
      /\ \A i \in 1 .. Len(s) + k : (s \o q)[i] = IF i <= Len(s) THEN s[i] ELSE q[i - Len(s)]
  BY <1>2, Concat
<1>4. ASSUME \A i \in 1 .. Len(s) : s[i] = i, \A i \in 1 .. k : r[i] = Len(s) + i,
             NEW i \in 1 .. Len(s) + k
      PROVE  (s \o q)[i] = i
  <2>1. (s \o q)[i] = IF i <= Len(s) THEN s[i] ELSE q[i - Len(s)]
    BY <1>3
  <2>2. CASE i <= Len(s)
    BY <1>3, <1>4, <2>1, <2>2
  <2>3. CASE ~(i <= Len(s))
    <3>1. i - Len(s) \in 1 .. k
      BY <1>3, <2>3
    <3>2. q[i - Len(s)] = Len(s) + (i - Len(s))
      BY <1>2, <1>4, <3>1
    <3> QED BY <1>3, <2>1, <2>3, <3>2
  <2> QED BY <2>2, <2>3
<1> QED BY <1>1, <1>3, <1>4

LEMMA BufferSeq == Data => buffer \in Seq(Nat) /\ Len(buffer) = BufferSize
<1> SUFFICES ASSUME Data PROVE buffer \in Seq(Nat) /\ Len(buffer) = BufferSize
  OBVIOUS
<1>1. buffer \in [1 .. BufferSize -> Nat] /\ BufferSize \in Nat
  BY OutputAssumption DEF Data
<1> QED BY <1>1

LEMMA GivenType ==
  ASSUME IInv, Data, Placed
  PROVE  Given \in Nat
<1>1. Total(frame) \in Nat /\ part \in Nat
  <2>1. frame \in Nat /\ part \in 0 .. RowLength
    BY DEF IInv, Typed, Data
  <2>2. part \in Nat
    BY <2>1, OutputAssumption
  <2> QED BY <2>1, <2>2, TotalStep
<1>2. CASE InRow \/ pc[Process] = "file"
  <2>1. frame \in Nat /\ frame > 0
    BY <1>2 DEF IInv, Typed, Phased, Placed
  <2>2. Total(frame) - RowLength \in Nat
    BY <2>1, RowPieces
  <2> QED BY <1>1, <1>2, <2>2 DEF Given
<1>3. CASE ~(InRow \/ pc[Process] = "file")
  BY <1>1, <1>3 DEF Given
<1> QED BY <1>2, <1>3

------------------------------------------------------------------------------
LEMMA InitFileInv == Init => FileInv
<1> SUFFICES ASSUME Init PROVE FileInv
  OBVIOUS
<1>1. pc[Stopper] = "new" /\ pc[Process] = "off" /\ pc[Flusher] = "off"
  BY ThreadFacts DEF Init
<1>2. ~InRow /\ (\A t \in Writers : ~InWriter(t)) /\ ~Emptying /\ ~Closing
  BY <1>1 DEF InRow, Rowing, Writers, InWriter, Emptying, Closing
<1>3. /\ file = <<>> /\ buffered = 0 /\ frame = 0 /\ part = 0 /\ place = 0 /\ faults = 0
      /\ ~timedOut /\ ~csvError /\ (fileClosed <=> ~config.file) /\ config.file \in BOOLEAN
      /\ buffer = [i \in 1 .. BufferSize |-> 0] /\ taken = [t \in Writers |-> 0]
  BY OutputAssumption DEF Init
<1>4. Given = 0
  BY <1>1, <1>2, <1>3, OutputAssumption DEF Given, Total
<1>5. Data /\ Placed
  BY <1>1, <1>2, <1>3, OutputAssumption DEF Data, Placed, Writers
<1>6. Ended /\ Alone /\ Failed
  BY <1>1, <1>2, <1>3 DEF Ended, Alone, Failed, Writers
<1>7. InOrder /\ Direct
  BY <1>1, <1>3, <1>4 DEF InOrder, Direct
<1>8. Kept
  <2>1. Len(file) = 0 /\ \A t \in Writers : pc[t] \notin {"writeout", "compare"}
    BY <1>2, <1>3 DEF InWriter
  <2> QED BY <1>1, <1>2, <1>3, <1>4, <2>1 DEF Kept
<1> QED BY <1>5, <1>6, <1>7, <1>8 DEF FileInv

\* A thread that is still running has not ended.
LEMMA Running ==
  ASSUME NEW t \in Loops, pc[t] \notin {"off", "done"}
  PROVE  ~AllEnded
BY DEF AllEnded

\* The labels at which a thread has to do with the file.
Places == {"row", "count", "flush", "writeout", "compare", "reset", "close", "file"}

\* A step that concerns neither the file nor what is about to be written to it.
Aside ==
  /\ UNCHANGED <<config, fileVars, frame, timedOut>>
  /\ \A t \in Writers : pc'[t] = pc[t] \/ {pc[t], pc'[t]} \cap Places = {}
  /\ pc'[Stopper] = "done" <=> pc[Stopper] = "done"
  /\ pc'[Stopper] = "new" => pc[Stopper] = "new"
  /\ pc'[Flusher] # "off" => \/ pc[Flusher] # "off"
                             \/ config.csv /\ config.file /\ pc'[Stopper] # "new"
  /\ AllEnded => AllEnded' \/ pc[Stopper] \notin {"done"} \cup Places

LEMMA AsideFileInv ==
  ASSUME FileInv, Aside
  PROVE  FileInv'
<1> USE DEF Aside, fileVars, csvVars
<1>1. \A t \in Writers, l \in Places : pc'[t] = l <=> pc[t] = l
  BY DEF Places
<1>2. Process \in Writers /\ Flusher \in Writers /\ Stopper \in Writers
  BY DEF Writers
<1>3. /\ InRow' = InRow /\ Emptying' = Emptying
      /\ \A t \in Writers : InWriter(t)' = InWriter(t)
  <2>1. \A t \in Writers : InWriter(t)' = InWriter(t)
    BY <1>1 DEF InWriter, Places
  <2>2. InRow' = InRow
    BY <1>1, <1>2 DEF InRow, Rowing, Places
  <2>3. \A t \in Writers : pc'[t] \in {"compare", "reset"} <=> pc[t] \in {"compare", "reset"}
    BY <1>1 DEF Places
  <2> QED BY <2>1, <2>2, <2>3 DEF Emptying
<1>4. /\ pc'[Process] = "file" <=> pc[Process] = "file"
      /\ pc'[Process] = "count" <=> pc[Process] = "count"
      /\ pc'[Stopper] = "file" <=> pc[Stopper] = "file"
      /\ pc'[Stopper] = "close" <=> pc[Stopper] = "close"
      /\ pc'[Process] = "row" <=> pc[Process] = "row"
  BY <1>1, <1>2 DEF Places
<1>5. Promised' = Promised /\ Closing' = Closing /\ NoWriter' = NoWriter
  BY <1>2, <1>3 DEF Promised, Closing, NoWriter
<1>6. Given' = Given
  BY <1>3, <1>4 DEF Given
<1>7. Data' /\ Placed'
  BY <1>2, <1>3, <1>4, <1>5 DEF FileInv, Data, Placed
<1>8. Ended'
  <2>1. Closing \/ pc[Stopper] = "file" => pc[Stopper] \in {"done"} \cup Places
    BY DEF Closing, InWriter, Places
  <2> QED BY <1>4, <1>5, <2>1 DEF FileInv, Ended
<1>9. Alone'
  BY <1>2, <1>3, <1>4, <1>5 DEF FileInv, Alone
<1>10. InOrder' /\ Direct'
  BY <1>5, <1>6 DEF FileInv, InOrder, Direct
<1>11. Failed'
  BY <1>1 DEF FileInv, Failed, Places
<1>12. Kept'
  <2>1. \A t \in Writers : pc'[t] \in {"writeout", "compare"} <=> pc[t] \in {"writeout", "compare"}
    BY <1>1 DEF Places
  <2> QED BY <1>3, <1>4, <1>5, <1>6, <2>1 DEF FileInv, Kept
<1> QED BY <1>7, <1>8, <1>9, <1>10, <1>11, <1>12 DEF FileInv

\* One thread moves.
LEMMA AsideMove ==
  ASSUME IInv, FileInv, NEW t \in Threads, NEW label, Goto(t, label),
         UNCHANGED <<config, fileVars, frame, timedOut>>,
         t \in Loops => pc[t] \notin {"off", "done"},
         t \in Writers => {pc[t], label} \cap Places = {},
         t = Stopper => {pc[Stopper], label} \cap {"new", "done"} = {}
  PROVE  Aside
<1>1. \A u \in Threads : pc'[u] = IF u = t THEN label ELSE pc[u]
  BY DEF Goto, IInv, Typed
<1>2. AllEnded => AllEnded'
  BY <1>1, ThreadFacts DEF AllEnded, Threads, Loops
<1>3. pc'[Flusher] # "off" => pc[Flusher] # "off"
  BY <1>1, ThreadFacts DEF Loops
<1> QED BY <1>1, <1>2, <1>3, ThreadFacts DEF Aside, Writers

LEMMA AcceptAside ==
  ASSUME IInv, FileInv, acceptTCPClients \/ AcceptFail \/ \E c \in Clients : AcceptOk(c)
  PROVE  Aside
<1>1. UNCHANGED <<config, fileVars, frame, timedOut>> /\ pc[Accepter] \notin {"off", "done"}
  BY DEF acceptTCPClients, AcceptCheck, ListenerGone, Refuse, Admit, AcceptFail, AcceptOk, acceptRest,
     writeVars, stopVars
<1>2. CASE Admit
  <2>1. /\ inHand \in Clients
        /\ pc' = [pc EXCEPT ![Accepter] = "loop", ![inHand] = "loop"]
    BY <1>2 DEF Admit, IInv, Lived
  <2>2. /\ pc'[Process] = pc[Process] /\ pc'[Stopper] = pc[Stopper] /\ pc'[Flusher] = pc[Flusher]
    BY <2>1, ThreadFacts DEF IInv, Typed
  <2>3. ~AllEnded
    BY <1>1, Running DEF Loops
  <2> QED BY <1>1, <2>2, <2>3 DEF Aside, Writers
<1>3. CASE ~Admit
  <2>1. \E label : Goto(Accepter, label)
    BY <1>3 DEF acceptTCPClients, AcceptCheck, ListenerGone, Refuse, AcceptFail, AcceptOk
  <2> QED BY <1>1, <2>1, ThreadFacts, AsideMove DEF Writers
<1> QED BY <1>2, <1>3

LEMMA MonitorAside ==
  ASSUME IInv, FileInv, NEW c \in Clients, monitorTCPClient(c)
  PROVE  Aside
<1>1. UNCHANGED <<config, fileVars, frame, timedOut>> /\ pc[c] \notin {"off", "done"}
  BY DEF monitorTCPClient, MonitorCheck, ReadData, MarkActive, ReadTimeout, ReadFails, Cleanup,
     CleanupOnce, CleanupRemove, monitorRest, cleanupRest, writeVars, stopVars
<1>2. \E label : Goto(c, label)
  BY DEF monitorTCPClient, MonitorCheck, ReadData, MarkActive, ReadTimeout, ReadFails, Cleanup,
     CleanupOnce, CleanupRemove, Leave
<1> QED BY <1>1, <1>2, ThreadFacts, AsideMove DEF Writers

LEMMA StartAside ==
  ASSUME IInv, FileInv, Start
  PROVE  Aside
<1>1. /\ UNCHANGED <<config, fileVars, frame, timedOut>>
      /\ pc[Stopper] = "new" /\ pc[Process] = "off"
  BY DEF Start, writeVars, IInv, Phased
<1>2. pc[Flusher] = "off"
  BY <1>1 DEF FileInv, Data, Placed
<1>3. /\ pc'[Stopper] = "started" /\ pc'[Process] = "loop" /\ pc'[Flusher] \in {"loop", "off"}
      /\ pc'[Flusher] = "loop" => config.csv /\ config.file
  BY ThreadFacts DEF Start, IInv, Typed
<1> QED BY <1>1, <1>2, <1>3 DEF Aside, Places, Writers

LEMMA ClientAside ==
  ASSUME (\E c \in Clients : PeerReset(c) \/ Stall(c)) \/ UNCHANGED vars
  PROVE  Aside
BY DEF PeerReset, Stall, vars, stopVars, writeVars, Aside, AllEnded

\* Stop before it waits for the goroutines.
LEMMA StopAside ==
  ASSUME IInv, FileInv,
         \/ StopClearRunning \/ StopCancel \/ StopListener \/ StopSnapshot \/ Cleanup(Stopper)
         \/ \E c \in Clients : StopNext(c)
  PROVE  Aside
<1>1. /\ UNCHANGED <<config, fileVars, frame, timedOut>>
      /\ pc[Stopper] \in {"started", "cancel", "listener", "snapshot", "next", "cleanup", "remove"}
  BY DEF StopClearRunning, StopCancel, StopListener, StopSnapshot, StopNext, Cleanup,
     CleanupOnce, CleanupRemove, cleanupRest, stopRest, writeVars, stopVars
<1>2. \E label \in {"cancel", "listener", "snapshot", "next", "cleanup", "remove"} :
        Goto(Stopper, label)
  BY ThreadFacts
  DEF StopClearRunning, StopCancel, StopListener, StopSnapshot, StopNext, Cleanup,
      CleanupOnce, CleanupRemove, Leave
<1>3. Stopper \notin Loops
  BY ThreadFacts DEF Loops
<1> QED BY <1>1, <1>2, <1>3, ThreadFacts, AsideMove DEF Places

\* The process loop, except where it takes a frame and stores it.
LEMMA ProcessAside ==
  ASSUME IInv, FileInv,
         \/ ProcessCheck \/ Cancelled \/ Snapshot \/ Broadcasted \/ Write \/ WriteFails
         \/ Cleanup(Process) \/ \E c \in Clients : NextClient(c)
  PROVE  Aside
<1>1. /\ UNCHANGED <<config, fileVars, frame, timedOut>>
      /\ pc[Process] \in {"loop", "select", "snapshot", "next", "write", "cleanup", "remove"}
  BY DEF ProcessCheck, Cancelled, Snapshot, NextClient, Broadcasted, Write,
     WriteFails, Cleanup, CleanupOnce, CleanupRemove, cleanupRest, broadcastRest, writeVars,
     stopVars
<1>2. \E label \in {"loop", "select", "done", "next", "write", "cleanup", "remove"} :
        Goto(Process, label)
  BY ThreadFacts
  DEF ProcessCheck, Cancelled, Snapshot, NextClient, Broadcasted, Write,
      WriteFails, Cleanup, CleanupOnce, CleanupRemove, Leave
<1> QED BY <1>1, <1>2, ThreadFacts, AsideMove DEF Loops, Places

LEMMA FlushAside ==
  ASSUME IInv, FileInv, FlushCheck \/ FlushCancelled
  PROVE  Aside
<1>1. UNCHANGED <<config, fileVars, frame, timedOut>> /\ pc[Flusher] \in {"loop", "tick"}
  BY DEF FlushCheck, FlushCancelled, csvRest, writeVars, stopVars, fileVars
<1>2. \E label \in {"tick", "done"} : Goto(Flusher, label)
  BY DEF FlushCheck, FlushCancelled
<1> QED BY <1>1, <1>2, ThreadFacts, AsideMove DEF Loops, Places


------------------------------------------------------------------------------
\* Who is in the CSV writer.

\* Who is in the writer is alone there if nobody has raced, and is not too late.
LEMMA Inside ==
  ASSUME IInv, FileInv, NEW t \in Writers, InWriter(t), pc[t] = "close" => t = Stopper
  PROVE  /\ config.csv /\ (t = Process => InRow)
         /\ t # Stopper => ~AllEnded /\ (pc[Stopper] = "done" => ~Promised)
         /\ ~raced => /\ \A u \in Writers \ {t} : ~InWriter(u)
                      /\ Emptying <=> pc[t] \in {"compare", "reset"}
                      /\ ~(t = Process /\ pc[t] = "row" /\ part = 0) =>
                           config.file /\ pc[Stopper] # "done"
<1> USE ThreadFacts DEF Writers
<1>1. t = Process => InRow
  BY DEF InWriter, InRow, Rowing
<1>2. config.csv
  BY <1>1 DEF FileInv, Placed, InWriter
<1>3. t # Stopper => ~AllEnded
  BY Running DEF Loops, InWriter
<1>4. t # Stopper /\ pc[Stopper] = "done" => ~Promised
  BY <1>3 DEF FileInv, Ended, Promised, Closing
<1>5. ASSUME ~raced PROVE \A u \in Writers \ {t} : ~InWriter(u)
  BY <1>5 DEF FileInv, Alone
<1>6. ASSUME ~raced PROVE Emptying <=> pc[t] \in {"compare", "reset"}
  BY <1>5, <1>6 DEF Emptying, InWriter
<1>7. ASSUME ~raced, ~(t = Process /\ pc[t] = "row" /\ part = 0)
      PROVE  config.file /\ pc[Stopper] # "done"
  <2>1. t # Stopper => ~NoWriter
    BY <1>1, <1>7 DEF FileInv, Alone
  <2>2. CASE t = Stopper
    BY <2>2 DEF FileInv, Placed, InWriter
  <2> QED BY <2>1, <2>2 DEF NoWriter
<1> QED BY <1>1, <1>2, <1>3, <1>4, <1>5, <1>6, <1>7

\* A step of a thread that is in the writer.
WriterMove(t, label) ==
  /\ InWriter(t) /\ Goto(t, label) /\ label \notin {"file", "off"}
  /\ UNCHANGED <<config, frame, fileClosed, raced, timedOut>>
  /\ pc[t] = "close" => t = Stopper
  /\ t = Process \/ part' = part
  /\ t = Process => label \in Rowing \cup {"loop", "done"}
  /\ t = Stopper => label \in {"writeout", "compare", "reset", "close", "done"}
  /\ t = Process /\ ~raced /\ NoWriter => label \notin Rowing

LEMMA WriterStep ==
  ASSUME IInv, FileInv, NEW t \in Writers, NEW label, WriterMove(t, label)
  PROVE  /\ Placed' /\ Ended' /\ Alone' /\ Direct'
         /\ Promised' => Promised
         /\ \A u \in Threads : pc'[u] = IF u = t THEN label ELSE pc[u]
         /\ t # Process => Given' = Given /\ InRow' = InRow
         /\ t = Process => (InRow' <=> label \in Rowing)
         /\ ~raced => /\ \A u \in Writers \ {t} :
                           ~InWriter(u) /\ pc'[u] \notin {"writeout", "compare", "reset", "count", "close"}
                      /\ Emptying' <=> label \in {"compare", "reset"}
<1> USE ThreadFacts DEF WriterMove
<1>1. \A u \in Threads : pc'[u] = IF u = t THEN label ELSE pc[u]
  BY DEF Goto, IInv, Typed
<1>2. Process \in Writers /\ Flusher \in Writers /\ Stopper \in Writers /\ Writers \subseteq Threads
  BY DEF Writers
<1>3. \A u \in Writers \ {t} : pc'[u] = pc[u] /\ InWriter(u)' = InWriter(u)
  BY <1>1, <1>2 DEF InWriter
<1>4. pc'[t] = label
  BY <1>1, <1>2
<1>5. /\ config.csv /\ (t = Process => InRow) /\ (t # Stopper => ~AllEnded)
      /\ ~raced => \A u \in Writers \ {t} : ~InWriter(u)
  BY Inside
<1>6. /\ t # Process => Given' = Given /\ InRow' = InRow
      /\ t = Process => (InRow' <=> label \in Rowing)
  <2>1. CASE t = Process
    BY <1>4, <2>1 DEF InRow
  <2>2. CASE t # Process
    <3>1. pc'[Process] = pc[Process]
      BY <1>2, <1>3, <2>2
    <3> QED BY <2>2, <3>1 DEF Given, InRow
  <2> QED BY <2>1, <2>2
<1>7. Closing' = Closing
  <2>1. CASE t = Stopper
    BY <1>4, <2>1 DEF Closing, InWriter
  <2>2. CASE t # Stopper
    BY <1>2, <1>3, <2>2 DEF Closing
  <2> QED BY <2>1, <2>2
<1>8. Placed'
  <2>1. (InRow => config.csv /\ frame > 0)'
    BY <1>5, <1>6 DEF FileInv, Placed
  <2>2. (pc[Flusher] # "off" => config.csv /\ config.file /\ pc[Stopper] # "new")'
    <3>1. pc'[Flusher] # "off" => pc[Flusher] # "off"
      BY <1>2, <1>3, <1>4 DEF InWriter
    <3>2. pc'[Stopper] = "new" => pc[Stopper] = "new"
      BY <1>2, <1>3, <1>4
    <3> QED BY <3>1, <3>2 DEF FileInv, Placed
  <2>3. (InWriter(Stopper) => config.csv /\ config.file)'
    BY <1>2, <1>3 DEF FileInv, Placed
  <2> QED BY <1>7, <2>1, <2>2, <2>3 DEF FileInv, Placed
<1>9. Ended'
  <2>1. pc'[Stopper] = "file" <=> pc[Stopper] = "file"
    BY <1>2, <1>3, <1>4 DEF InWriter
  <2>2. t = Stopper => AllEnded' = AllEnded
    BY <1>1 DEF AllEnded, Loops, Threads
  <2> QED BY <1>5, <1>7, <2>1, <2>2 DEF FileInv, Ended
<1>10. Promised' => Promised
  <2>1. t = Stopper => pc[Stopper] # "done"
    BY DEF InWriter
  <2> QED BY <1>2, <1>3, <2>1 DEF Promised
<1>11. Direct'
  BY <1>5 DEF Direct
<1>12. ASSUME ~raced
       PROVE  /\ \A u \in Writers \ {t} :
                   ~InWriter(u) /\ pc'[u] \notin {"writeout", "compare", "reset", "count", "close"}
              /\ Emptying' <=> label \in {"compare", "reset"}
  <2>1. \A u \in Writers \ {t} : ~InWriter(u) /\ pc'[u] = pc[u]
    BY <1>3, <1>5, <1>12
  <2>2. \A u \in Writers \ {t} : pc'[u] \notin {"writeout", "compare", "reset", "count", "close"}
    BY <2>1 DEF InWriter
  <2>3. Emptying' <=> label \in {"compare", "reset"}
    BY <1>4, <2>2 DEF Emptying
  <2> QED BY <2>1, <2>2, <2>3
<1>13. Alone'
  <2> SUFFICES ASSUME ~raced PROVE Alone'
    BY DEF Alone
  <2>1. \A u \in Writers \ {t} : ~InWriter(u)'
    BY <1>3, <1>5
  <2>2. ASSUME NoWriter' PROVE (InRow' => pc'[Process] = "row" /\ part' = 0) /\ ~InWriter(Flusher)'
    <3>1. CASE t = Stopper
      <4>1. ~InWriter(Process)' /\ ~InWriter(Flusher)'
        BY <1>2, <2>1, <3>1
      <4> QED BY <4>1 DEF InRow, InWriter, Rowing
    <3>2. CASE t = Process
      <4>1. NoWriter /\ ~InWriter(Flusher)'
        BY <1>2, <1>3, <2>1, <2>2, <3>2 DEF NoWriter
      <4> QED BY <1>6, <3>2, <4>1
    <3>3. CASE t = Flusher
      <4>1. NoWriter
        BY <1>2, <1>3, <2>2, <3>3 DEF NoWriter
      <4> QED BY <3>3, <4>1 DEF FileInv, Alone
    <3> QED BY <3>1, <3>2, <3>3 DEF Writers
  <2> QED BY <2>1, <2>2 DEF Alone
<1> QED BY <1>1, <1>6, <1>8, <1>9, <1>10, <1>11, <1>12, <1>13

\* What Kept says when only t is in the writer.
Intact(t) ==
  /\ pc[t] \in {"compare", "reset"} => Len(file) = Given
  /\ pc[t] \notin {"compare", "reset"} => /\ Len(file) + buffered = Given
                                          /\ \A i \in 1 .. buffered : buffer[i] = Len(file) + i
  /\ pc[t] \in {"writeout", "compare"} => taken[t] = buffered
  /\ pc[t] = "count" => place = buffered /\ buffer[buffered + 1] = Given + 1
  /\ t = Stopper /\ pc[t] \in {"close", "done"} => buffered = 0

LEMMA IntactNow ==
  ASSUME IInv, FileInv, NEW t \in Writers, InWriter(t), pc[t] = "close" => t = Stopper,
         pc[t] = "count" => t = Process,
         ~raced, ~csvError, config.file, pc[Stopper] # "done"
  PROVE  Intact(t)
<1>1. config.csv /\ (Emptying <=> pc[t] \in {"compare", "reset"})
  BY Inside
<1>2. Promised
  BY DEF Promised
<1> QED BY <1>1, <1>2 DEF FileInv, Kept, Intact

LEMMA WriterFileInv ==
  ASSUME IInv, FileInv, NEW t \in Writers, NEW label, WriterMove(t, label),
         {pc[t], label} \cap {"count"} # {} => t = Process,
         Data', InOrder', csvError => csvError',
         ~raced /\ csvError' => faults' # 0 /\ label \notin {"writeout", "compare", "reset"},
         ~raced /\ ~csvError' /\ config.file /\ pc[Stopper] # "done" /\ Intact(t) => Intact(t)'
  PROVE  FileInv'
<1> USE ThreadFacts
<1>1. /\ Placed' /\ Ended' /\ Alone' /\ Direct' /\ (Promised' => Promised)
      /\ \A u \in Threads : pc'[u] = IF u = t THEN label ELSE pc[u]
      /\ ~raced => /\ \A u \in Writers \ {t} :
                        ~InWriter(u) /\ pc'[u] \notin {"writeout", "compare", "reset", "count", "close"}
                   /\ Emptying' <=> label \in {"compare", "reset"}
  BY WriterStep
<1>2. InWriter(t) /\ (pc[t] = "close" => t = Stopper) /\ UNCHANGED <<config, raced>>
  BY DEF WriterMove
<1>3. Writers \subseteq Threads /\ Process \in Writers /\ Stopper \in Writers /\ pc'[t] = label
  BY <1>1 DEF Writers
<1>4. Failed'
  <2> SUFFICES ASSUME ~raced, csvError' PROVE Failed'
    BY <1>2 DEF Failed
  <2>1. \A u \in Writers : pc'[u] \notin {"writeout", "compare", "reset"}
    BY <1>1, <1>3
  <2> QED BY <2>1 DEF Failed
<1>5. Kept'
  <2> SUFFICES ASSUME ~raced, ~csvError', config.csv, config.file, Promised' PROVE Kept'
    BY <1>2 DEF Kept
  <2>1. pc[Stopper] # "done"
    <3>1. CASE t = Stopper
      BY <1>2, <3>1 DEF InWriter
    <3>2. CASE t # Stopper
      BY <1>1, <1>2, <3>2, Inside
    <3> QED BY <3>1, <3>2
  <2>2. Intact(t)
    BY <1>2, <2>1, IntactNow
  <2>3. Intact(t)'
    BY <2>1, <2>2
  <2>4. \A u \in Writers \ {t} : pc'[u] \notin {"writeout", "compare", "count", "close"}
    BY <1>1
  <2>5. t # Stopper => pc'[Stopper] \notin {"close", "done"}
    BY <1>1, <1>3, <2>1, <2>4
  <2>6. t # Process => pc'[Process] # "count"
    BY <1>3, <2>4
  <2> QED BY <1>1, <1>3, <2>3, <2>4, <2>5, <2>6 DEF Kept, Intact
<1> QED BY <1>1, <1>4, <1>5 DEF FileInv

------------------------------------------------------------------------------
\* The row.

LEMMA RowEndsFileInv ==
  ASSUME IInv, FileInv, RowEnds
  PROVE  FileInv'
<1> USE ThreadFacts
<1>1. /\ pc[Process] = "row" /\ Goto(Process, "loop") /\ part' = 0
      /\ csvError \/ part = RowLength \/ (part = 0 /\ NoWriter)
      /\ UNCHANGED <<config, frame, fileClosed, timedOut>>
      /\ UNCHANGED <<file, faults, buffer, buffered, taken, place, csvError, raced>>
  BY DEF RowEnds, csvRest, writeVars, stopVars
<1>2. Process \in Writers /\ WriterMove(Process, "loop") /\ InRow /\ ~InRow'
  BY <1>1 DEF Writers, WriterMove, InWriter, Rowing, InRow, Goto, IInv, Typed
<1>3. pc'[Process] = "loop"
  BY <1>1 DEF Goto, IInv, Typed
<1>4. Data'
  BY <1>1, <1>2, <1>3, OutputAssumption DEF FileInv, Data
<1>5. InOrder'
  BY <1>1 DEF FileInv, InOrder
<1>6. ASSUME ~raced, ~csvError', config.file, pc[Stopper] # "done", Intact(Process)
      PROVE  Intact(Process)'
  <2>1. part = RowLength
    BY <1>1, <1>6 DEF NoWriter
  <2>2. Given = Total(frame) - RowLength + RowLength /\ Given' = Total(frame)
    BY <1>1, <1>2, <1>3, <2>1 DEF Given
  <2>3. Given' = Given
    <3>1. Total(frame) \in Nat /\ RowLength \in Nat
      BY TotalStep, OutputAssumption DEF IInv, Typed
    <3> HIDE DEF Total
    <3> QED BY <2>2, <3>1
  <2> QED BY <1>1, <1>3, <1>6, <2>3 DEF Intact
<1> QED BY <1>1, <1>2, <1>4, <1>5, <1>6, WriterFileInv DEF FileInv, Failed

LEMMA RowFullFileInv ==
  ASSUME IInv, FileInv, RowFull
  PROVE  FileInv'
<1> USE ThreadFacts
<1>1. /\ pc[Process] = "row" /\ Goto(Process, "flush") /\ ~csvError /\ (part = 0 => ~NoWriter)
      /\ UNCHANGED <<config, frame, fileClosed, timedOut>>
      /\ UNCHANGED <<file, faults, buffer, buffered, taken, part, place, csvError, raced>>
  BY DEF RowFull, RowGoesOn, csvRest, csvVars, writeVars, stopVars
<1>2. Process \in Writers /\ InWriter(Process) /\ InRow
  BY <1>1 DEF Writers, InWriter, InRow, Rowing
<1>3. pc'[Process] = "flush" /\ InRow'
  BY <1>1 DEF Goto, IInv, Typed, InRow, Rowing
<1>4. ~(~raced /\ NoWriter)
  BY <1>1, <1>2 DEF FileInv, Alone
<1>5. WriterMove(Process, "flush")
  BY <1>1, <1>2, <1>4 DEF WriterMove, Rowing
<1>6. Data' /\ InOrder'
  BY <1>1, <1>2, <1>3 DEF FileInv, Data, InOrder
<1>7. Given' = Given
  BY <1>1, <1>2, <1>3 DEF Given
<1>8. Intact(Process) => Intact(Process)'
  BY <1>1, <1>3, <1>7 DEF Intact
<1> QED BY <1>1, <1>2, <1>5, <1>6, <1>8, WriterFileInv DEF FileInv, Failed

LEMMA RowCopyFileInv ==
  ASSUME IInv, FileInv, RowCopy
  PROVE  FileInv'
<1> USE ThreadFacts
<1>1. /\ pc[Process] = "row" /\ Goto(Process, "count") /\ ~csvError /\ (part = 0 => ~NoWriter)
      /\ part < RowLength /\ buffered < BufferSize /\ place' = buffered
      /\ buffer' = [buffer EXCEPT ![buffered + 1] = Row(frame)[part + 1]]
      /\ UNCHANGED <<config, frame, fileClosed, timedOut>>
      /\ UNCHANGED <<file, faults, buffered, taken, part, csvError, raced>>
  BY DEF RowCopy, RowGoesOn, csvRest, writeVars, stopVars
<1>2. Process \in Writers /\ InWriter(Process) /\ InRow
  BY <1>1 DEF Writers, InWriter, InRow, Rowing
<1>3. pc'[Process] = "count" /\ InRow'
  BY <1>1 DEF Goto, IInv, Typed, InRow, Rowing
<1>4. ~(~raced /\ NoWriter)
  BY <1>1, <1>2 DEF FileInv, Alone
<1>5. WriterMove(Process, "count")
  BY <1>1, <1>2, <1>4 DEF WriterMove, Rowing
<1>6. Given = Total(frame) - RowLength + part /\ Given' = Given
  BY <1>1, <1>2, <1>3 DEF Given
<1>7. PICK piece : piece = Row(frame)[part + 1]
  OBVIOUS
<1>8. piece = Given + 1 /\ piece \in Nat /\ Given \in Nat
  <2>1. frame \in Nat /\ frame > 0 /\ part \in 0 .. RowLength /\ RowLength \in Nat
    BY <1>2, OutputAssumption DEF IInv, Typed, FileInv, Data, Placed
  <2>2. part + 1 \in 1 .. RowLength /\ part \in Nat
    BY <1>1, <2>1
  <2>3. piece = Total(frame) - RowLength + (part + 1) /\ Total(frame) - RowLength \in Nat
    BY <1>7, <2>1, <2>2, RowPieces
  <2>4. PICK n : n = Total(frame) - RowLength
    OBVIOUS
  <2>5. piece = n + (part + 1) /\ Given = n + part /\ n \in Nat
    BY <1>6, <2>3, <2>4
  <2> QED BY <2>2, <2>5
<1>9. /\ buffer \in [1 .. BufferSize -> Nat] /\ buffered \in Int /\ BufferSize \in Nat
      /\ ~csvError => buffered >= 0
  BY OutputAssumption DEF FileInv, Data
<1>10. Data'
  <2>1. buffer' \in [1 .. BufferSize -> Nat]
    BY <1>1, <1>7, <1>8, <1>9
  <2> QED BY <1>1, <1>2, <1>3, <1>9, <2>1 DEF FileInv, Data
<1>11. InOrder'
  BY <1>1 DEF FileInv, InOrder
<1>12. ASSUME Intact(Process) PROVE Intact(Process)'
  <2>1. Len(file) + buffered = Given /\ \A i \in 1 .. buffered : buffer[i] = Len(file) + i
    BY <1>1, <1>12 DEF Intact
  <2>2. buffered + 1 \in 1 .. BufferSize /\ buffered >= 0
    BY <1>1, <1>9
  <2>3. buffer'[buffered + 1] = Given + 1
    BY <1>1, <1>7, <1>8, <1>9, <2>2
  <2>4. \A i \in 1 .. buffered : buffer'[i] = buffer[i]
    BY <1>1, <1>9, <2>2
  <2> QED BY <1>1, <1>3, <1>6, <2>1, <2>3, <2>4 DEF Intact
<1> QED BY <1>1, <1>2, <1>5, <1>10, <1>11, <1>12, WriterFileInv

LEMMA RowCountFileInv ==
  ASSUME IInv, FileInv, RowCount
  PROVE  FileInv'
<1> USE ThreadFacts
<1>1. /\ pc[Process] = "count" /\ Goto(Process, "row") /\ part' = part + 1 /\ place' = 0
      /\ buffered' = place + 1 \/ buffered' = buffered + 1
      /\ UNCHANGED <<config, frame, fileClosed, timedOut>>
      /\ UNCHANGED <<file, faults, buffer, taken, csvError, raced>>
  BY DEF RowCount, csvRest, writeVars, stopVars
<1>2. Process \in Writers /\ InWriter(Process) /\ InRow
  BY <1>1 DEF Writers, InWriter, InRow, Rowing
<1>3. pc'[Process] = "row" /\ InRow'
  BY <1>1 DEF Goto, IInv, Typed, InRow, Rowing
<1>4. ~(~raced /\ NoWriter)
  BY <1>1, <1>2 DEF FileInv, Alone
<1>5. WriterMove(Process, "row")
  BY <1>1, <1>2, <1>4 DEF WriterMove, Rowing
<1>6. /\ part \in 0 .. RowLength /\ part < RowLength /\ RowLength \in Nat /\ BufferSize \in Nat
      /\ buffered \in Int /\ place \in Int /\ buffered < BufferSize /\ place < BufferSize
      /\ ~csvError => buffered >= 0 /\ place >= 0
  BY <1>1, OutputAssumption DEF FileInv, Data
<1>7. Data'
  <2>1. part' \in 0 .. RowLength
    BY <1>1, <1>6
  <2>2. buffered' \in Int /\ buffered' <= BufferSize /\ (~csvError => buffered' >= 0)
    BY <1>1, <1>6
  <2> QED BY <1>1, <1>3, <2>1, <2>2 DEF FileInv, Data
<1>8. InOrder'
  BY <1>1 DEF FileInv, InOrder
<1>9. Given' = Given + 1
  <2>1. Given = Total(frame) - RowLength + part /\ Given' = Total(frame) - RowLength + (part + 1)
    BY <1>1, <1>2, <1>3 DEF Given
  <2>2. Total(frame) \in Nat /\ RowLength \in Nat /\ part \in Nat
    BY <1>6, TotalStep DEF IInv, Typed
  <2> HIDE DEF Total
  <2> QED BY <2>1, <2>2
<1>10. ASSUME Intact(Process) PROVE Intact(Process)'
  <2>1. /\ Len(file) + buffered = Given /\ place = buffered /\ buffer[buffered + 1] = Given + 1
        /\ \A i \in 1 .. buffered : buffer[i] = Len(file) + i
    BY <1>1, <1>10 DEF Intact
  <2>2. Len(file) \in Nat
    BY DEF FileInv, Data
  <2>3. buffered' = buffered + 1
    BY <1>1, <2>1
  <2>4. Len(file) + (buffered + 1) = Given + 1
    BY <1>6, <2>1, <2>2
  <2>5. ASSUME NEW i \in 1 .. buffered + 1 PROVE buffer[i] = Len(file) + i
    <3>1. CASE i = buffered + 1
      BY <2>1, <2>4, <3>1
    <3>2. CASE i # buffered + 1
      BY <1>6, <2>1, <3>2
    <3> QED BY <3>1, <3>2
  <2> QED BY <1>1, <1>3, <1>9, <2>3, <2>4, <2>5 DEF Intact
<1> QED BY <1>1, <1>2, <1>5, <1>7, <1>8, <1>10, WriterFileInv DEF FileInv, Failed

------------------------------------------------------------------------------
\* The flushes.

\* Where a thread goes on after a flush.
Back(t) == CASE t = Process -> "row" [] t = Flusher -> "loop" [] t = Stopper -> "close"

LEMMA BackLabel ==
  /\ \A t \in Writers : Back(t) \notin {"count", "writeout", "compare", "reset", "done"}
  /\ Back(Process) = "row" /\ Back(Flusher) = "loop" /\ Back(Stopper) = "close"
BY ThreadFacts DEF Back, Writers

LEMMA FlushFacts ==
  ASSUME IInv, FileInv, NEW t \in Writers, NEW label, Goto(t, label), UNCHANGED csvRest,
         UNCHANGED <<raced, part>>,
         pc[t] \in {"flush", "writeout", "compare", "reset"},
         label \in {"writeout", "compare", "reset", Back(t)}
  PROVE  /\ WriterMove(t, label) /\ pc'[t] = label /\ Given' = Given
         /\ ~raced => config.csv /\ config.file /\ pc[Stopper] # "done"
         /\ pc'[Process] = "count" => pc[Process] = "count"
         /\ (~InRow)' => part' = 0
<1> USE ThreadFacts
<1>1. UNCHANGED <<config, frame, fileClosed, timedOut>>
  BY DEF csvRest, writeVars, stopVars
<1>2. InWriter(t) /\ ~(pc[t] = "row")
  BY DEF InWriter
<1>3. ~raced => config.csv /\ config.file /\ pc[Stopper] # "done"
  BY <1>2, Inside
<1>4. /\ t = Process => label \in Rowing
      /\ t = Flusher => label \in {"writeout", "compare", "reset", "loop"}
      /\ t = Stopper => label \in {"writeout", "compare", "reset", "close"}
      /\ label \notin {"file", "off", "count"}
  BY BackLabel DEF Rowing, Writers
<1>5. WriterMove(t, label)
  <2>1. t = Process /\ ~raced /\ NoWriter => label \notin Rowing
    BY <1>3 DEF NoWriter
  <2> QED BY <1>1, <1>2, <1>4, <2>1 DEF WriterMove
<1>6. pc'[t] = label /\ (t # Process => Given' = Given /\ InRow' = InRow)
  BY <1>5, WriterStep DEF Writers, Threads
<1>7. t = Process => InRow /\ InRow' /\ Given' = Given
  BY <1>1, <1>4, <1>6 DEF InRow, Given, Rowing
<1>8. pc'[Process] = "count" => pc[Process] = "count"
  <2>1. t # Process => pc'[Process] = pc[Process]
    BY <1>5, WriterStep
  <2> QED BY <1>4, <1>6, <2>1
<1>9. (~InRow)' => part' = 0
  BY <1>6, <1>7 DEF FileInv, Data
<1> QED BY <1>3, <1>5, <1>6, <1>7, <1>8, <1>9

LEMMA FlushTakeFileInv ==
  ASSUME IInv, FileInv, NEW t \in Writers, FlushTake(t)
  PROVE  FileInv'
<1>1. /\ pc[t] = "flush" /\ InWriter(t)
      /\ UNCHANGED csvRest /\ UNCHANGED <<raced, part>>
      /\ UNCHANGED <<file, faults, buffer, buffered, place, csvError>>
      /\ \/ (csvError \/ buffered = 0) /\ Goto(t, Back(t)) /\ taken' = [taken EXCEPT ![t] = 0]
         \/ ~csvError /\ Goto(t, "writeout") /\ taken' = [taken EXCEPT ![t] = buffered]
  BY DEF FlushTake, Return, InWriter, Back
<1>2. /\ taken \in [Writers -> 0 .. BufferSize] /\ buffered \in Int /\ buffered <= BufferSize
      /\ BufferSize \in Nat /\ (~csvError => buffered >= 0)
  BY OutputAssumption DEF FileInv, Data
<1>3. taken' \in [Writers -> 0 .. BufferSize]
  BY <1>1, <1>2
<1>4. InOrder'
  BY <1>1 DEF FileInv, InOrder
<1>5. CASE Goto(t, "writeout") /\ ~csvError /\ taken' = [taken EXCEPT ![t] = buffered]
  <2>1. /\ WriterMove(t, "writeout") /\ pc'[t] = "writeout" /\ Given' = Given
        /\ pc'[Process] = "count" => pc[Process] = "count"
        /\ (~InRow)' => part' = 0
    BY <1>1, <1>5, FlushFacts
  <2>2. Data'
    BY <1>1, <1>3, <2>1 DEF FileInv, Data
  <2>3. taken'[t] = buffered
    BY <1>2, <1>5
  <2>4. Intact(t) => Intact(t)'
    BY <1>1, <2>1, <2>3 DEF Intact
  <2> QED BY <1>1, <1>4, <1>5, <2>1, <2>2, <2>4, WriterFileInv
<1>6. CASE (csvError \/ buffered = 0) /\ Goto(t, Back(t)) /\ taken' = [taken EXCEPT ![t] = 0]
  <2>1. /\ WriterMove(t, Back(t)) /\ pc'[t] = Back(t) /\ Given' = Given
        /\ pc'[Process] = "count" => pc[Process] = "count"
        /\ (~InRow)' => part' = 0
    BY <1>1, <1>6, FlushFacts
  <2>2. Data'
    BY <1>1, <1>3, <2>1 DEF FileInv, Data
  <2>3. ~csvError /\ Intact(t) => Intact(t)'
    BY <1>1, <1>6, <2>1, BackLabel DEF Intact
  <2> QED BY <1>1, <1>4, <1>6, <2>1, <2>2, <2>3, BackLabel, WriterFileInv DEF FileInv, Failed
<1> QED BY <1>1, <1>5, <1>6

\* What a write finds in the buffer.
LEMMA WriteoutFacts ==
  ASSUME IInv, FileInv, NEW t \in Writers, pc[t] = "writeout"
  PROVE  /\ buffer \in Seq(Nat) /\ Len(buffer) = BufferSize /\ file \in Seq(Nat)
         /\ taken[t] \in 0 .. BufferSize
         /\ ~raced => /\ \A i \in 1 .. taken[t] : buffer[i] = Len(file) + i
                      /\ \A i \in 1 .. Len(file) : file[i] = i
<1>1. InWriter(t)
  BY DEF InWriter
<1>2. ASSUME ~raced PROVE \A i \in 1 .. taken[t] : buffer[i] = Len(file) + i
  <2>1. config.file /\ pc[Stopper] # "done" /\ ~csvError
    BY <1>1, <1>2, Inside DEF FileInv, Failed
  <2>2. Intact(t)
    BY <1>1, <1>2, <2>1, IntactNow
  <2> QED BY <2>2 DEF Intact
<1> QED BY <1>2, BufferSeq DEF FileInv, Data, InOrder

LEMMA FlushWriteFileInv ==
  ASSUME IInv, FileInv, NEW t \in Writers, FlushWrite(t)
  PROVE  FileInv'
<1>1. /\ pc[t] = "writeout" /\ pc[Stopper] # "done" /\ Goto(t, "compare")
      /\ file' = file \o SubSeq(buffer, 1, taken[t])
      /\ UNCHANGED csvRest /\ UNCHANGED <<raced, part>>
      /\ UNCHANGED <<faults, buffer, buffered, taken, place, csvError>>
  BY DEF FlushWrite, csvVars
<1>2. /\ WriterMove(t, "compare") /\ pc'[t] = "compare" /\ Given' = Given
      /\ pc'[Process] = "count" => pc[Process] = "count"
      /\ (~InRow)' => part' = 0
  BY <1>1, FlushFacts
<1>3. /\ buffer \in Seq(Nat) /\ Len(buffer) = BufferSize /\ file \in Seq(Nat)
      /\ taken[t] \in 0 .. BufferSize
      /\ ~raced => /\ \A i \in 1 .. taken[t] : buffer[i] = Len(file) + i
                   /\ \A i \in 1 .. Len(file) : file[i] = i
  BY <1>1, WriteoutFacts
<1>4. PICK n : n = taken[t]
  OBVIOUS
<1>5. /\ file' \in Seq(Nat) /\ Len(file') = Len(file) + n
      /\ ~raced => \A i \in 1 .. Len(file') : file'[i] = i
  BY <1>1, <1>3, <1>4, Written
<1>6. Data'
  BY <1>1, <1>2, <1>5 DEF FileInv, Data
<1>7. InOrder'
  BY <1>1, <1>5 DEF InOrder
<1>8. Intact(t) => Intact(t)'
  BY <1>1, <1>2, <1>4, <1>5 DEF Intact
<1> QED BY <1>1, <1>2, <1>6, <1>7, <1>8, WriterFileInv DEF FileInv, Failed

\* After a write that failed or was taken for a short one.
LEMMA DropFileInv ==
  ASSUME IInv, FileInv, NEW t \in Writers, pc[t] \in {"writeout", "compare"}, Return(t),
         NEW k \in 0 .. taken[t], Drop(k),
         UNCHANGED csvRest, UNCHANGED <<part, place, raced>>, file' \in Seq(Nat), faults' \in Nat,
         ~raced => faults' # 0, InOrder'
  PROVE  FileInv'
<1>1. Goto(t, Back(t)) /\ taken' = [taken EXCEPT ![t] = 0]
  BY DEF Return, Back
<1>2. /\ WriterMove(t, Back(t)) /\ pc'[t] = Back(t)
      /\ pc'[Process] = "count" => pc[Process] = "count"
      /\ (~InRow)' => part' = 0
  BY <1>1, FlushFacts
<1>3. /\ taken \in [Writers -> 0 .. BufferSize] /\ buffered \in Int /\ buffered <= BufferSize
      /\ BufferSize \in Nat /\ buffer \in [1 .. BufferSize -> Nat] /\ k \in Nat
  BY OutputAssumption DEF FileInv, Data
<1>4. /\ buffered' = buffered - k /\ csvError'
      /\ buffer' = [i \in 1 .. BufferSize |-> IF i + k <= buffered THEN buffer[i + k] ELSE buffer[i]]
  BY DEF Drop
<1>5. buffer' \in [1 .. BufferSize -> Nat]
  <2>1. ASSUME NEW i \in 1 .. BufferSize
        PROVE  (IF i + k <= buffered THEN buffer[i + k] ELSE buffer[i]) \in Nat
    BY <1>3
  <2> QED BY <1>4, <2>1
<1>6. taken' \in [Writers -> 0 .. BufferSize]
  BY <1>1, <1>3
<1>7. /\ buffered' \in Int /\ buffered' <= BufferSize
      /\ buffered < BufferSize => buffered' < BufferSize
  BY <1>3, <1>4
<1>8. Data'
  BY <1>2, <1>4, <1>5, <1>6, <1>7 DEF FileInv, Data
<1> QED BY <1>2, <1>4, <1>8, BackLabel, WriterFileInv

LEMMA FlushFailsFileInv ==
  ASSUME IInv, FileInv, NEW t \in Writers, FlushFails(t)
  PROVE  FileInv'
<1>1. /\ pc[t] = "writeout" /\ Return(t) /\ UNCHANGED csvRest /\ UNCHANGED <<part, place, raced>>
  BY DEF FlushFails
<1>2. /\ buffer \in Seq(Nat) /\ Len(buffer) = BufferSize /\ file \in Seq(Nat) /\ faults \in Nat
      /\ taken[t] \in 0 .. BufferSize /\ BufferSize \in Nat
      /\ ~raced => /\ \A i \in 1 .. taken[t] : buffer[i] = Len(file) + i
                   /\ \A i \in 1 .. Len(file) : file[i] = i
  BY <1>1, WriteoutFacts, OutputAssumption DEF FileInv, Data
<1>3. CASE pc[Stopper] = "done"
  <2>1. Drop(0) /\ UNCHANGED <<file, faults>>
    BY <1>3 DEF FlushFails
  <2>2. raced
    BY <1>1, <1>3, Inside DEF InWriter
  <2>3. InOrder' /\ 0 \in 0 .. taken[t]
    BY <1>1, <1>2, <2>2 DEF InOrder
  <2> QED BY <1>1, <1>2, <2>1, <2>2, <2>3, DropFileInv
<1>4. CASE pc[Stopper] # "done"
  <2>1. PICK k \in 0 .. taken[t] - 1 : file' = file \o SubSeq(buffer, 1, k) /\ Drop(k)
    BY <1>4 DEF FlushFails
  <2>2. faults' = faults + 1
    BY <1>4 DEF FlushFails
  <2>3. k \in 0 .. taken[t] /\ k \in 0 .. Len(buffer) /\ \A i \in 1 .. k : i \in 1 .. taken[t]
    BY <1>2, <2>1
  <2>4. /\ file' \in Seq(Nat)
        /\ ~raced => \A i \in 1 .. Len(file') : file'[i] = i
    BY <1>2, <2>1, <2>3, Written
  <2>5. faults' \in Nat /\ faults' # 0
    BY <1>2, <2>2
  <2>6. InOrder'
    BY <1>1, <2>4 DEF InOrder
  <2> QED BY <1>1, <2>1, <2>3, <2>4, <2>5, <2>6, DropFileInv
<1> QED BY <1>3, <1>4

LEMMA FlushCompareFileInv ==
  ASSUME IInv, FileInv, NEW t \in Writers, FlushCompare(t)
  PROVE  FileInv'
<1>1. /\ pc[t] = "compare" /\ InWriter(t) /\ UNCHANGED csvRest
      /\ UNCHANGED <<file, faults, part, place, raced>>
      /\ \/ taken[t] < buffered /\ Drop(taken[t]) /\ Return(t)
         \/ Goto(t, "reset") /\ UNCHANGED <<buffer, buffered, taken, csvError>>
  BY DEF FlushCompare, InWriter
<1>2. InOrder'
  BY <1>1 DEF FileInv, InOrder
<1>3. taken[t] \in 0 .. BufferSize /\ BufferSize \in Nat /\ buffered \in Int
  BY OutputAssumption DEF FileInv, Data
<1>4. CASE taken[t] < buffered /\ Drop(taken[t]) /\ Return(t)
  <2>1. raced
    <3> SUFFICES ASSUME ~raced PROVE FALSE
      OBVIOUS
    <3>1. config.file /\ pc[Stopper] # "done" /\ ~csvError
      BY <1>1, Inside DEF FileInv, Failed
    <3>2. taken[t] = buffered
      BY <1>1, <3>1, IntactNow DEF Intact
    <3> QED BY <1>3, <1>4, <3>2
  <2>2. taken[t] \in 0 .. taken[t] /\ file' \in Seq(Nat) /\ faults' \in Nat
    BY <1>1, <1>3 DEF FileInv, Data
  <2> QED BY <1>1, <1>2, <1>4, <2>1, <2>2, DropFileInv
<1>5. CASE Goto(t, "reset") /\ UNCHANGED <<buffer, buffered, taken, csvError>>
  <2>1. /\ WriterMove(t, "reset") /\ pc'[t] = "reset" /\ Given' = Given
        /\ pc'[Process] = "count" => pc[Process] = "count"
        /\ (~InRow)' => part' = 0
    BY <1>1, <1>5, FlushFacts
  <2>2. Data'
    BY <1>1, <1>5, <2>1 DEF FileInv, Data
  <2>3. Intact(t) => Intact(t)'
    BY <1>1, <1>5, <2>1 DEF Intact
  <2> QED BY <1>1, <1>2, <1>5, <2>1, <2>2, <2>3, WriterFileInv DEF FileInv, Failed
<1> QED BY <1>1, <1>4, <1>5

LEMMA FlushResetFileInv ==
  ASSUME IInv, FileInv, NEW t \in Writers, FlushReset(t)
  PROVE  FileInv'
<1>1. /\ pc[t] = "reset" /\ InWriter(t) /\ UNCHANGED csvRest /\ buffered' = 0
      /\ Goto(t, Back(t)) /\ taken' = [taken EXCEPT ![t] = 0]
      /\ UNCHANGED <<file, faults, buffer, part, place, csvError, raced>>
  BY DEF FlushReset, Return, Back, InWriter
<1>2. /\ WriterMove(t, Back(t)) /\ pc'[t] = Back(t) /\ Given' = Given
      /\ pc'[Process] = "count" => pc[Process] = "count"
      /\ (~InRow)' => part' = 0
  BY <1>1, FlushFacts
<1>3. taken' \in [Writers -> 0 .. BufferSize] /\ BufferSize \in Nat /\ BufferSize > 0
  BY <1>1, OutputAssumption DEF FileInv, Data
<1>4. Data'
  BY <1>1, <1>2, <1>3 DEF FileInv, Data
<1>5. InOrder'
  BY <1>1 DEF FileInv, InOrder
<1>6. Len(file) \in Nat
  BY DEF FileInv, Data
<1>7. Intact(t) => Intact(t)'
  BY <1>1, <1>2, <1>6, BackLabel DEF Intact
<1> QED BY <1>1, <1>2, <1>4, <1>5, <1>7, BackLabel, WriterFileInv DEF FileInv, Failed

LEMMA FlushFileInv ==
  ASSUME IInv, FileInv, NEW t \in Writers, Flush(t)
  PROVE  FileInv'
BY FlushTakeFileInv, FlushWriteFileInv, FlushFailsFileInv, FlushCompareFileInv, FlushResetFileInv
DEF Flush

LEMMA WriterGoneFileInv ==
  ASSUME IInv, FileInv, NEW t \in {Process, Flusher}, WriterGone(t)
  PROVE  FileInv'
<1> USE ThreadFacts
<1>1. /\ pc[Stopper] = "done" /\ t \in Writers /\ t # Stopper /\ InWriter(t)
      /\ (t = Process /\ pc[t] = "row" /\ part = 0) \/ (t = Flusher /\ pc[t] = "flush")
      /\ UNCHANGED csvRest /\ UNCHANGED <<raced, part>>
      /\ UNCHANGED <<file, faults, buffer, buffered, taken, place, csvError>>
  BY DEF WriterGone, InWriter, Writers, csvVars
<1>2. PICK label \in {"loop", "done"} : Goto(t, label)
  BY DEF WriterGone
<1>3. UNCHANGED <<config, frame, fileClosed, timedOut>>
  BY <1>1 DEF csvRest, writeVars, stopVars
<1>4. WriterMove(t, label)
  BY <1>1, <1>2, <1>3 DEF WriterMove, Rowing
<1>5. \A u \in Threads : pc'[u] = IF u = t THEN label ELSE pc[u]
  BY <1>4, <1>1, WriterStep
<1>6. Data'
  <2>1. t = Process => part = 0
    BY <1>1
  <2>2. t = Flusher => InRow' = InRow
    BY <1>5 DEF InRow
  <2>3. pc'[Process] = "count" => pc[Process] = "count"
    BY <1>5
  <2> QED BY <1>1, <2>1, <2>2, <2>3 DEF FileInv, Data
<1>7. InOrder'
  BY <1>1 DEF FileInv, InOrder
<1> QED BY <1>1, <1>2, <1>4, <1>6, <1>7, WriterFileInv DEF FileInv, Failed

LEMMA StopCloseFileInv ==
  ASSUME IInv, FileInv, StopClose
  PROVE  FileInv'
<1> USE ThreadFacts
<1>1. /\ pc[Stopper] = "close" /\ Goto(Stopper, "done") /\ Stopper \in Writers /\ InWriter(Stopper)
      /\ UNCHANGED <<config, frame, fileClosed, timedOut>> /\ UNCHANGED <<raced, part>>
      /\ UNCHANGED <<file, faults, buffer, buffered, taken, place, csvError>>
  BY DEF StopClose, stopRest, writeVars, stopVars, fileVars, csvVars, InWriter, Writers
<1>2. WriterMove(Stopper, "done")
  BY <1>1 DEF WriterMove
<1>3. pc'[Process] = pc[Process] /\ pc'[Stopper] = "done" /\ Given' = Given /\ InRow' = InRow
  BY <1>1, <1>2, WriterStep
<1>4. Data' /\ InOrder'
  BY <1>1, <1>3 DEF FileInv, Data, InOrder
<1>5. Intact(Stopper) => Intact(Stopper)'
  BY <1>1, <1>3 DEF Intact
<1> QED BY <1>1, <1>2, <1>4, <1>5, WriterFileInv DEF FileInv, Failed

------------------------------------------------------------------------------
\* The steps that enter the CSV writer, write to the file directly, or let Stop pass.

\* Who enters it while somebody is there has raced.
LEMMA EnterFacts ==
  ASSUME IInv, FileInv, NEW t \in Writers, ~InWriter(t), Enter(t), NEW label, Goto(t, label),
         label \in {"row", "flush"}
  PROVE  /\ \A u \in Threads : pc'[u] = IF u = t THEN label ELSE pc[u]
         /\ ~raced' => /\ ~raced /\ \A u \in Writers : ~InWriter(u)
                       /\ \A u \in Writers \ {t} : ~InWriter(u)' /\ pc'[u] = pc[u]
                       /\ ~Emptying /\ ~Emptying'
                       /\ \A u \in Writers : pc'[u] \notin {"writeout", "compare", "reset", "count", "close"}
<1>1. \A u \in Threads : pc'[u] = IF u = t THEN label ELSE pc[u]
  BY DEF Goto, IInv, Typed
<1>2. Writers \subseteq Threads
  BY DEF Writers, Threads, Loops
<1>3. ASSUME ~raced'
      PROVE  /\ ~raced /\ \A u \in Writers : ~InWriter(u)
             /\ \A u \in Writers \ {t} : ~InWriter(u)' /\ pc'[u] = pc[u]
             /\ ~Emptying /\ ~Emptying'
             /\ \A u \in Writers : pc'[u] \notin {"writeout", "compare", "reset", "count", "close"}
  <2>1. ~raced /\ \A u \in Writers : ~InWriter(u)
    BY <1>3 DEF Enter
  <2>2. \A u \in Writers \ {t} : ~InWriter(u)' /\ pc'[u] = pc[u]
    BY <1>1, <1>2, <2>1 DEF InWriter
  <2>3. \A u \in Writers : pc'[u] \notin {"writeout", "compare", "reset", "count", "close"}
    BY <1>1, <1>2, <2>1 DEF InWriter
  <2>4. ~Emptying /\ ~Emptying'
    BY <2>1, <2>3 DEF Emptying, InWriter
  <2> QED BY <2>1, <2>2, <2>3, <2>4
<1> QED BY <1>1, <1>3

LEMMA ReceiveFileInv ==
  ASSUME IInv, FileInv, Receive
  PROVE  FileInv'
<1> USE ThreadFacts
<1>1. /\ pc[Process] = "select" /\ Process \in Writers /\ Process \in Loops
      /\ UNCHANGED <<config, fileClosed, timedOut>>
      /\ UNCHANGED <<file, faults, buffer, buffered, taken, part, place, csvError>>
  BY DEF Receive, Writers, Loops, stopVars
<1>2. ~InWriter(Process) /\ ~InRow /\ ~AllEnded
  BY <1>1, Running DEF InWriter, InRow, Rowing
<1>3. Given = Total(frame)
  BY <1>1, <1>2 DEF Given
<1>4. frame \in Nat /\ Total(frame) \in Nat /\ RowLength \in Nat /\ part = 0
      /\ Total(frame + 1) = Total(frame) + RowLength
  BY <1>2, TotalStep, OutputAssumption DEF IInv, Typed, FileInv, Data
<1>5. InOrder /\ (raced => raced') => InOrder'
  BY <1>1 DEF InOrder
<1>6. CASE frame' = frame + 1 /\ config.csv /\ Goto(Process, "row") /\ Enter(Process)
  <2>1. /\ \A u \in Threads : pc'[u] = IF u = Process THEN "row" ELSE pc[u]
        /\ ~raced' => /\ ~raced /\ \A u \in Writers : ~InWriter(u)
                      /\ \A u \in Writers \ {Process} : ~InWriter(u)' /\ pc'[u] = pc[u]
                      /\ ~Emptying /\ ~Emptying'
                      /\ \A u \in Writers :
                           pc'[u] \notin {"writeout", "compare", "reset", "count", "close"}
    BY <1>1, <1>2, <1>6, EnterFacts
  <2>2. pc'[Process] = "row" /\ pc'[Stopper] = pc[Stopper] /\ pc'[Flusher] = pc[Flusher]
    BY <2>1
  <2>3. InRow' /\ Promised' = Promised /\ Closing' = Closing
    BY <1>1, <2>2 DEF InRow, Rowing, Promised, Closing, InWriter
  <2>4. Given' = Given
    <3>1. Given' = Total(frame + 1) - RowLength + 0
      BY <1>1, <1>4, <1>6, <2>3 DEF Given
    <3> HIDE DEF Total
    <3> QED BY <1>3, <1>4, <3>1
  <2>5. Data'
    BY <1>1, <1>2, <2>2, <2>3 DEF FileInv, Data
  <2>6. Placed'
    BY <1>1, <1>4, <1>6, <2>2, <2>3 DEF FileInv, Placed, InWriter
  <2>7. Ended'
    BY <1>1, <1>2, <2>2, <2>3 DEF FileInv, Ended
  <2>8. Alone'
    <3> SUFFICES ASSUME ~raced' PROVE Alone'
      BY DEF Alone
    <3>1. \A u \in Writers \ {Process} : ~InWriter(u)'
      BY <2>1
    <3>2. ~InWriter(Flusher)'
      BY <3>1 DEF Writers
    <3> QED BY <1>1, <1>4, <2>2, <3>1, <3>2 DEF Alone
  <2>9. InOrder' /\ Direct'
    BY <1>1, <1>5, <1>6, <2>1 DEF FileInv, Direct, Enter
  <2>10. Failed'
    BY <1>1, <2>1 DEF FileInv, Failed
  <2>11. Kept'
    <3> SUFFICES ASSUME ~raced', ~csvError, config.csv, config.file, Promised PROVE Kept'
      BY <1>1, <2>3 DEF Kept
    <3>1. Len(file) + buffered = Given /\ \A i \in 1 .. buffered : buffer[i] = Len(file) + i
      BY <2>1 DEF FileInv, Kept
    <3>2. pc[Stopper] # "done"
      BY <1>2 DEF FileInv, Ended, Promised, Closing
    <3> QED BY <1>1, <2>1, <2>2, <2>4, <3>1, <3>2 DEF Kept, Writers
  <2> QED BY <2>5, <2>6, <2>7, <2>8, <2>9, <2>10, <2>11 DEF FileInv
<1>7. CASE frame' = frame + 1 /\ ~config.csv /\ Goto(Process, "file") /\ UNCHANGED raced
  <2>1. \A u \in Threads : pc'[u] = IF u = Process THEN "file" ELSE pc[u]
    BY <1>7 DEF Goto, IInv, Typed
  <2>2. pc'[Process] = "file" /\ pc'[Stopper] = pc[Stopper] /\ pc'[Flusher] = pc[Flusher]
    BY <2>1
  <2>3. /\ ~InRow' /\ Promised' = Promised /\ Closing' = Closing
        /\ \A u \in Writers : InWriter(u)' = InWriter(u)
    BY <1>1, <2>2 DEF InRow, Rowing, Promised, Closing, InWriter, Writers
  <2>4. Given' = Given
    <3>1. Given' = Total(frame + 1) - RowLength
      BY <1>7, <2>2, <2>3 DEF Given
    <3> HIDE DEF Total
    <3> QED BY <1>3, <1>4, <3>1
  <2>5. Data'
    BY <1>1, <1>4, <2>2, <2>3 DEF FileInv, Data
  <2>6. Placed' /\ Ended'
    BY <1>1, <1>2, <2>2, <2>3 DEF FileInv, Placed, Ended, InWriter
  <2>7. Alone'
    BY <1>1, <1>7, <2>2, <2>3 DEF FileInv, Alone, NoWriter, Writers
  <2>8. InOrder' /\ Direct'
    BY <1>1, <1>5, <1>7, <2>2, <2>3, <2>4 DEF FileInv, Direct
  <2>9. Failed'
    <3>1. \A u \in Writers : pc'[u] \in {"writeout", "compare", "reset"} => pc'[u] = pc[u]
      BY <1>1, <2>2 DEF Writers
    <3> QED BY <1>1, <1>7, <3>1 DEF FileInv, Failed
  <2>10. Kept'
    BY <1>1, <1>7 DEF Kept
  <2> QED BY <2>5, <2>6, <2>7, <2>8, <2>9, <2>10 DEF FileInv
<1>8. CASE Goto(Process, "loop") /\ UNCHANGED <<frame, raced>>
  <2>1. UNCHANGED <<config, fileVars, frame, timedOut>>
    BY <1>1, <1>8 DEF fileVars, csvVars
  <2>2. Aside
    BY <1>1, <1>8, <2>1, AsideMove DEF Places
  <2> QED BY <2>2, AsideFileInv
<1> QED BY <1>6, <1>7, <1>8 DEF Receive, IInv, Typed

LEMMA WriteToFileFileInv ==
  ASSUME IInv, FileInv, WriteToFile
  PROVE  FileInv'
<1> USE ThreadFacts
<1>1. /\ pc[Process] = "file" /\ Goto(Process, "snapshot") /\ Process \in Loops
      /\ UNCHANGED <<config, frame, timedOut>>
      /\ UNCHANGED <<buffer, buffered, taken, part, place, csvError, raced>>
  BY DEF WriteToFile, Loops, writeVars, csvVars, stopVars
<1>2. ~config.csv /\ frame \in Nat /\ frame > 0 /\ ~AllEnded
  BY <1>1, Running DEF IInv, Typed, Phased
<1>3. /\ pc'[Process] = "snapshot" /\ pc'[Stopper] = pc[Stopper] /\ pc'[Flusher] = pc[Flusher]
  BY <1>1 DEF Goto, IInv, Typed
<1>4. /\ ~InRow /\ ~InRow' /\ Promised' = Promised /\ Closing' = Closing
      /\ \A u \in Writers : InWriter(u)' = InWriter(u)
  BY <1>1, <1>3 DEF InRow, Rowing, Promised, Closing, InWriter, Writers
<1>5. Given = Total(frame) - RowLength /\ Given' = Total(frame)
  BY <1>1, <1>3, <1>4 DEF Given
<1>6. /\ Row(frame) \in Seq(Nat) /\ Len(Row(frame)) = RowLength
      /\ \A i \in 1 .. RowLength : Row(frame)[i] = Given + i
      /\ Given \in Nat /\ Given' = Given + RowLength /\ RowLength \in Nat
  <2>1. RowLength \in Nat /\ Total(frame) \in Nat
    BY <1>2, TotalStep, OutputAssumption
  <2>2. /\ Row(frame) \in Seq(Nat) /\ Len(Row(frame)) = RowLength
        /\ \A i \in 1 .. RowLength : Row(frame)[i] = Given + i
        /\ Given \in Nat
    BY <1>2, <1>5, RowPieces
  <2> HIDE DEF Total
  <2>3. Given' = Given + RowLength
    BY <1>5, <2>1
  <2> QED BY <2>1, <2>2, <2>3
<1>7. file \in Seq(Nat) /\ faults \in Nat /\ (~fileClosed => Len(file) = Given)
  BY <1>2 DEF FileInv, Data, Direct
<1>8. /\ file' \in Seq(Nat) /\ faults' \in Nat
      /\ InOrder => InOrder'
      /\ \/ fileClosed /\ UNCHANGED <<file, fileClosed, faults>>
         \/ ~fileClosed /\ Len(file') = Given' /\ UNCHANGED <<fileClosed, faults>>
         \/ faults' # 0 /\ fileClosed'
  <2>1. CASE fileClosed /\ UNCHANGED <<file, fileClosed, faults>>
    BY <1>1, <1>7, <2>1 DEF InOrder
  <2>2. ASSUME NEW k \in 0 .. RowLength, ~fileClosed, file' = file \o SubSeq(Row(frame), 1, k)
        PROVE  /\ file' \in Seq(Nat) /\ Len(file') = Len(file) + k
               /\ InOrder => InOrder'
    <3>1. PICK r \in Seq(Nat) : r = Row(frame) /\ Len(r) = RowLength
      BY <1>6
    <3>2. ASSUME NEW i \in 1 .. k PROVE r[i] = Len(file) + i
      <4>1. i \in 1 .. RowLength
        BY <1>6, <2>2
      <4> QED BY <1>6, <1>7, <2>2, <3>1, <4>1
    <3> QED BY <1>1, <1>7, <2>2, <3>1, <3>2, Written DEF InOrder
  <2>3. CASE ~fileClosed /\ file' = file \o Row(frame) /\ UNCHANGED <<fileClosed, faults>>
    <3>1. Row(frame) = SubSeq(Row(frame), 1, RowLength)
      BY <1>6
    <3>2. RowLength \in 0 .. RowLength
      BY <1>6
    <3> QED BY <1>6, <1>7, <2>2, <2>3, <3>1, <3>2
  <2>4. CASE /\ ~fileClosed /\ faults' = faults + 1 /\ fileClosed'
             /\ \E k \in 0 .. RowLength - 1 : file' = file \o SubSeq(Row(frame), 1, k)
    <3>1. PICK k \in 0 .. RowLength - 1 : file' = file \o SubSeq(Row(frame), 1, k)
      BY <2>4
    <3>2. k \in 0 .. RowLength
      BY <1>6, <3>1
    <3>3. file' \in Seq(Nat) /\ (InOrder => InOrder')
      BY <2>2, <2>4, <3>1, <3>2
    <3>4. faults' \in Nat /\ faults' # 0 /\ fileClosed'
      BY <1>7, <2>4
    <3> QED BY <3>3, <3>4
  <2> QED BY <2>1, <2>3, <2>4 DEF WriteToFile
<1>9. Data'
  BY <1>1, <1>3, <1>4, <1>8 DEF FileInv, Data
<1>10. fileClosed => fileClosed'
  BY <1>8
<1>11. Placed' /\ Ended'
  BY <1>1, <1>2, <1>3, <1>4, <1>8, <1>10 DEF FileInv, Placed, Ended, InWriter
<1>12. Alone'
  BY <1>1, <1>3, <1>4 DEF FileInv, Alone, NoWriter, Writers
<1>13. Failed'
  <2>1. \A u \in Writers : pc'[u] \in {"writeout", "compare", "reset"} => pc'[u] = pc[u]
    BY <1>3 DEF Writers
  <2>2. faults # 0 => faults' # 0
    BY <1>8
  <2> QED BY <1>1, <2>1, <2>2 DEF FileInv, Failed
<1>14. Kept'
  BY <1>1, <1>2 DEF Kept
<1>15. Direct'
  <2>1. Promised /\ config.file /\ faults = 0 => ~fileClosed
    <3>1. Promised => pc[Stopper] # "done"
      BY <1>2 DEF FileInv, Ended, Promised, Closing
    <3> QED BY <1>2, <3>1 DEF FileInv, Direct
  <2>2. pc[Stopper] # "done" => Promised
    BY DEF Promised
  <2> QED BY <1>1, <1>3, <1>4, <1>8, <2>1, <2>2 DEF FileInv, Direct
<1> QED BY <1>8, <1>9, <1>11, <1>12, <1>13, <1>14, <1>15 DEF FileInv

LEMMA TickFileInv ==
  ASSUME IInv, FileInv, Tick
  PROVE  FileInv'
<1> USE ThreadFacts
<1>1. /\ pc[Flusher] = "tick" /\ Flusher \in Writers /\ Flusher \in Loops
      /\ UNCHANGED <<config, frame, fileClosed, timedOut>>
      /\ UNCHANGED <<file, faults, buffer, buffered, taken, part, place, csvError>>
  BY DEF Tick, csvRest, writeVars, stopVars, Writers, Loops
<1>2. CASE fileClosed /\ Goto(Flusher, "loop") /\ UNCHANGED raced
  <2>1. UNCHANGED <<config, fileVars, frame, timedOut>>
    BY <1>1, <1>2 DEF fileVars, csvVars
  <2>2. Aside
    BY <1>1, <1>2, <2>1, AsideMove DEF Places
  <2> QED BY <2>2, AsideFileInv
<1>3. CASE ~fileClosed /\ Goto(Flusher, "flush") /\ Enter(Flusher)
  <2>1. ~InWriter(Flusher) /\ ~AllEnded
    BY <1>1, Running DEF InWriter
  <2>2. /\ \A u \in Threads : pc'[u] = IF u = Flusher THEN "flush" ELSE pc[u]
        /\ ~raced' => /\ ~raced /\ \A u \in Writers : ~InWriter(u)
                      /\ \A u \in Writers \ {Flusher} : ~InWriter(u)' /\ pc'[u] = pc[u]
                      /\ ~Emptying /\ ~Emptying'
                      /\ \A u \in Writers :
                           pc'[u] \notin {"writeout", "compare", "reset", "count", "close"}
    BY <1>1, <1>3, <2>1, EnterFacts
  <2>3. pc'[Process] = pc[Process] /\ pc'[Stopper] = pc[Stopper] /\ pc'[Flusher] = "flush"
    BY <2>2
  <2>4. InRow' = InRow /\ Promised' = Promised /\ Closing' = Closing /\ Given' = Given
    BY <1>1, <2>3 DEF InRow, Promised, Closing, InWriter, Given
  <2>5. config.csv /\ config.file /\ ~Closing
    BY <1>1, <1>3 DEF FileInv, Placed
  <2>6. Data' /\ Placed' /\ Ended'
    BY <1>1, <2>1, <2>3, <2>4 DEF FileInv, Data, Placed, Ended, InWriter
  <2>7. Alone'
    <3> SUFFICES ASSUME ~raced' PROVE Alone'
      BY DEF Alone
    <3>1. \A u \in Writers \ {Flusher} : ~InWriter(u)'
      BY <2>2
    <3>2. ~NoWriter'
      BY <1>1, <2>3, <2>5 DEF NoWriter, Closing
    <3> QED BY <3>1, <3>2 DEF Alone
  <2>8. InOrder' /\ Direct'
    BY <1>1, <1>3, <2>5 DEF FileInv, InOrder, Direct, Enter
  <2>9. Failed'
    BY <1>1, <2>2 DEF FileInv, Failed
  <2>10. Kept'
    <3> SUFFICES ASSUME ~raced', ~csvError, config.csv, config.file, Promised PROVE Kept'
      BY <1>1, <2>4 DEF Kept
    <3>1. Len(file) + buffered = Given /\ \A i \in 1 .. buffered : buffer[i] = Len(file) + i
      BY <2>2 DEF FileInv, Kept
    <3>2. pc[Stopper] # "done"
      BY <2>5 DEF Closing
    <3> QED BY <1>1, <2>2, <2>3, <2>4, <3>1, <3>2 DEF Kept, Writers
  <2> QED BY <2>6, <2>7, <2>8, <2>9, <2>10 DEF FileInv
<1> QED BY <1>2, <1>3 DEF Tick

LEMMA StopWaitFileInv ==
  ASSUME IInv, FileInv, StopWait
  PROVE  FileInv'
<1> USE ThreadFacts
<1>1. /\ pc[Stopper] = "next" /\ Goto(Stopper, "file") /\ timedOut' = ~AllEnded
      /\ UNCHANGED <<config, frame, fileVars>>
  BY DEF StopWait, stopRest, writeVars
<1>2. \A u \in Threads : pc'[u] = IF u = Stopper THEN "file" ELSE pc[u]
  BY <1>1 DEF Goto, IInv, Typed
<1>3. pc'[Stopper] = "file" /\ pc'[Process] = pc[Process] /\ pc'[Flusher] = pc[Flusher]
  BY <1>2
<1>4. /\ AllEnded' = AllEnded /\ Given' = Given /\ InRow' = InRow /\ ~Closing /\ ~Closing'
      /\ Promised /\ Promised' /\ NoWriter' = NoWriter
      /\ \A u \in Writers : InWriter(u)' = InWriter(u)
  <2>1. AllEnded' = AllEnded
    BY <1>2 DEF AllEnded, Loops, Threads
  <2>2. Given' = Given /\ InRow' = InRow
    BY <1>1, <1>3 DEF Given, InRow, fileVars, csvVars
  <2>3. \A u \in Writers : InWriter(u)' = InWriter(u)
    BY <1>1, <1>3 DEF InWriter, Writers
  <2> QED BY <1>1, <1>3, <2>1, <2>2, <2>3 DEF Closing, Promised, NoWriter, InWriter
<1>5. \A u \in Writers, l \in {"writeout", "compare", "reset", "count"} : pc'[u] = l <=> pc[u] = l
  BY <1>1, <1>3 DEF Writers
<1>6. Emptying' = Emptying
  BY <1>5 DEF Emptying
<1> USE DEF fileVars, csvVars
<1>7. Data'
  BY <1>1, <1>3, <1>4 DEF FileInv, Data
<1>8. Placed' /\ Ended'
  BY <1>1, <1>3, <1>4 DEF FileInv, Placed, Ended, InWriter
<1>9. Alone'
  BY <1>1, <1>3, <1>4 DEF FileInv, Alone, Writers
<1>10. InOrder' /\ Direct'
  BY <1>1, <1>3, <1>4 DEF FileInv, InOrder, Direct
<1>11. Failed' /\ Kept'
  <2>1. Process \in Writers
    BY DEF Writers
  <2>2. Failed'
    BY <1>1, <1>5 DEF FileInv, Failed
  <2>3. Kept'
    BY <1>1, <1>3, <1>4, <1>5, <1>6, <2>1 DEF FileInv, Kept
  <2> QED BY <2>2, <2>3
<1> QED BY <1>7, <1>8, <1>9, <1>10, <1>11 DEF FileInv

LEMMA StopFileFileInv ==
  ASSUME IInv, FileInv, StopFile
  PROVE  FileInv'
<1> USE ThreadFacts
<1>1. /\ pc[Stopper] = "file" /\ Stopper \in Writers /\ ~InWriter(Stopper) /\ ~Closing /\ Promised
      /\ UNCHANGED <<config, frame, timedOut>> /\ fileClosed' = TRUE
      /\ UNCHANGED <<file, faults, buffer, buffered, taken, part, place, csvError>>
  BY DEF StopFile, stopRest, writeVars, stopVars, Writers, InWriter, Closing, Promised
<1>2. ASSUME NEW label, Goto(Stopper, label)
      PROVE  /\ \A u \in Threads : pc'[u] = IF u = Stopper THEN label ELSE pc[u]
             /\ pc'[Process] = pc[Process] /\ pc'[Flusher] = pc[Flusher] /\ pc'[Stopper] = label
             /\ AllEnded' = AllEnded /\ Given' = Given /\ InRow' = InRow
  <2>1. \A u \in Threads : pc'[u] = IF u = Stopper THEN label ELSE pc[u]
    BY <1>2 DEF Goto, IInv, Typed
  <2>2. pc'[Process] = pc[Process]
    BY <2>1
  <2>3. AllEnded' = AllEnded
    BY <2>1 DEF AllEnded, Loops, Threads
  <2>4. Given' = Given /\ InRow' = InRow
    BY <1>1, <2>2 DEF Given, InRow
  <2> QED BY <2>1, <2>3, <2>4
<1>3. CASE config.csv /\ ~fileClosed /\ Goto(Stopper, "flush") /\ Enter(Stopper)
  <2>1. /\ pc'[Process] = pc[Process] /\ pc'[Flusher] = pc[Flusher] /\ pc'[Stopper] = "flush"
        /\ AllEnded' = AllEnded /\ Given' = Given /\ InRow' = InRow
    BY <1>2, <1>3
  <2>2. ~raced' => /\ ~raced /\ \A u \in Writers : ~InWriter(u)
                   /\ \A u \in Writers \ {Stopper} : ~InWriter(u)' /\ pc'[u] = pc[u]
                   /\ ~Emptying /\ ~Emptying'
                   /\ \A u \in Writers :
                        pc'[u] \notin {"writeout", "compare", "reset", "count", "close"}
    BY <1>1, <1>3, EnterFacts
  <2>3. InWriter(Stopper)' /\ Closing' /\ config.file
    BY <1>3, <2>1 DEF InWriter, Closing, FileInv, Placed
  <2>4. Data' /\ Placed' /\ Ended'
    BY <1>1, <1>3, <2>1, <2>3 DEF FileInv, Data, Placed, Ended
  <2>5. Alone'
    <3> SUFFICES ASSUME ~raced' PROVE Alone'
      BY DEF Alone
    <3>1. \A u \in Writers \ {Stopper} : ~InWriter(u)'
      BY <2>2
    <3>2. ~NoWriter'
      BY <1>1, <2>1, <2>3 DEF NoWriter
    <3> QED BY <3>1, <3>2 DEF Alone
  <2>6. InOrder' /\ Direct'
    BY <1>1, <1>3 DEF FileInv, InOrder, Direct, Enter
  <2>7. Failed'
    BY <1>1, <2>2 DEF FileInv, Failed
  <2>8. Kept'
    <3> SUFFICES ASSUME ~raced', ~csvError PROVE Kept'
      BY <1>1 DEF Kept
    <3>1. Len(file) + buffered = Given /\ \A i \in 1 .. buffered : buffer[i] = Len(file) + i
      BY <1>1, <1>3, <2>2, <2>3 DEF FileInv, Kept
    <3> QED BY <1>1, <2>1, <2>2, <3>1 DEF Kept, Writers
  <2> QED BY <2>4, <2>5, <2>6, <2>7, <2>8 DEF FileInv
<1>4. CASE ~(config.csv /\ ~fileClosed) /\ Goto(Stopper, "done") /\ UNCHANGED raced
  <2>1. /\ pc'[Process] = pc[Process] /\ pc'[Flusher] = pc[Flusher] /\ pc'[Stopper] = "done"
        /\ AllEnded' = AllEnded /\ Given' = Given /\ InRow' = InRow
    BY <1>2, <1>4
  <2>2. ~(config.csv /\ config.file)
    BY <1>1, <1>4 DEF FileInv, Placed
  <2>3. /\ InWriter(Process)' = InWriter(Process) /\ InWriter(Flusher)' = InWriter(Flusher)
        /\ ~InWriter(Stopper)' /\ Closing'
    BY <2>1 DEF InWriter, Closing
  <2>4. Data' /\ Placed' /\ Ended'
    BY <1>1, <2>1, <2>2, <2>3 DEF FileInv, Data, Placed, Ended
  <2>5. ~InWriter(Flusher) /\ (InRow => ~config.file)
    BY <2>2 DEF FileInv, Placed, InWriter
  <2>6. Alone'
    <3> SUFFICES ASSUME ~raced PROVE Alone'
      BY <1>4 DEF Alone
    <3>1. InRow => pc[Process] = "row" /\ part = 0
      BY <2>5 DEF FileInv, Alone, NoWriter
    <3> QED BY <1>1, <2>1, <2>3, <2>5, <3>1 DEF Alone, Writers
  <2>7. InOrder' /\ Direct'
    BY <1>1, <1>4, <2>1 DEF FileInv, InOrder, Direct
  <2>8. Failed'
    <3>1. \A u \in Writers : pc'[u] \in {"writeout", "compare", "reset"} => pc'[u] = pc[u]
      BY <2>1 DEF Writers
    <3> QED BY <1>1, <1>4, <3>1 DEF FileInv, Failed
  <2>9. Kept'
    BY <1>1, <2>2 DEF Kept
  <2> QED BY <2>4, <2>6, <2>7, <2>8, <2>9 DEF FileInv
<1> QED BY <1>3, <1>4 DEF StopFile

------------------------------------------------------------------------------
LEMMA NextFileInv == IInv /\ FileInv /\ [Next]_vars => FileInv'
<1> SUFFICES ASSUME IInv, FileInv, [Next]_vars PROVE FileInv'
  OBVIOUS
<1>1. CASE Aside
  BY <1>1, AsideFileInv
<1>2. CASE Receive \/ WriteToFile \/ Tick
  BY <1>2, ReceiveFileInv, WriteToFileFileInv, TickFileInv
<1>3. CASE serializeCSV
  BY <1>3, RowEndsFileInv, RowFullFileInv, RowCopyFileInv, RowCountFileInv DEF serializeCSV
<1>4. CASE \E t \in Writers : Flush(t)
  BY <1>4, FlushFileInv
<1>5. CASE WriterGone(Process) \/ WriterGone(Flusher)
  BY <1>5, WriterGoneFileInv
<1>6. CASE StopWait \/ StopFile \/ StopClose
  BY <1>6, StopWaitFileInv, StopFileFileInv, StopCloseFileInv
<1>7. CASE processLoop
  BY <1>1, <1>2, <1>3, <1>4, <1>5, <1>7, ProcessAside DEF processLoop, Writers
<1>8. CASE acceptTCPClients \/ AcceptFail \/ \E c \in Clients : AcceptOk(c)
  BY <1>1, <1>8, AcceptAside
<1>9. CASE \E c \in Clients : monitorTCPClient(c)
  BY <1>1, <1>9, MonitorAside
<1>10. CASE Start
  BY <1>1, <1>10, StartAside
<1>11. CASE (\E c \in Clients : PeerReset(c) \/ Stall(c)) \/ UNCHANGED vars
  BY <1>1, <1>11, ClientAside
<1>12. CASE flushLoop
  BY <1>1, <1>2, <1>4, <1>5, <1>12, FlushAside DEF flushLoop, Writers
<1>13. CASE StopClearRunning \/ StopGoesOn
  BY <1>1, <1>4, <1>6, <1>13, StopAside DEF StopGoesOn, Writers
<1> QED BY <1>7, <1>8, <1>9, <1>10, <1>11, <1>12, <1>13 DEF Next

LEMMA FileInvHolds == Spec => []FileInv
BY InitFileInv, NextFileInv, IInvHolds, PTL DEF Spec

\* As long as no two goroutines have been in the CSV writer at once, the file is the
\* beginning of the stream of frames, each once and in order, wherever the buffer was
\* full, a ticker came or a write failed half way; and after a Stop that did not time
\* out, if no write has failed, every frame that was taken from the channel is in it
\* to its last piece, what was left in the CSV buffer included (output.go:194, 482, 589).
THEOREM FileIsComplete == Spec => []FileComplete
<1>1. IInv /\ FileInv => FileComplete
  <2> SUFFICES ASSUME IInv, FileInv, ~raced
               PROVE  /\ \A i \in 1 .. Len(file) : file[i] = i
                      /\ pc[Stopper] = "done" /\ ~timedOut /\ config.file /\ faults = 0 =>
                           Len(file) = frame * RowLength
    BY DEF FileComplete
  <2>1. \A i \in 1 .. Len(file) : file[i] = i
    BY DEF FileInv, InOrder
  <2>2. ASSUME pc[Stopper] = "done", ~timedOut, config.file, faults = 0
        PROVE  Len(file) = frame * RowLength
    <3>1. Promised /\ AllEnded /\ ~csvError
      BY <2>2 DEF Promised, FileInv, Ended, Closing, Failed
    <3>2. pc[Process] \in {"off", "done"} /\ pc[Flusher] \in {"off", "done"}
      BY <3>1 DEF AllEnded, Loops
    <3>3. Given = frame * RowLength
      BY <3>2 DEF Given, InRow, Rowing, Total
    <3>4. CASE config.csv
      <4>1. ~Emptying
        BY <2>2, <3>2 DEF Emptying, Writers
      <4>2. Len(file) + buffered = Given /\ buffered = 0 /\ Len(file) \in Nat
        BY <2>2, <3>1, <3>4, <4>1 DEF FileInv, Kept, Data
      <4> QED BY <3>3, <4>2
    <3>5. CASE ~config.csv
      BY <2>2, <3>1, <3>3, <3>5 DEF FileInv, Direct
    <3> QED BY <3>4, <3>5
  <2> QED BY <2>1, <2>2
<1> QED BY <1>1, IInvHolds, FileInvHolds, PTL

------------------------------------------------------------------------------
\* What Data does not bound.
FileSized ==
  /\ frame \in 0 .. MaxFrames /\ faults \in 0 .. MaxFaults
  /\ \A i \in 1 .. BufferSize : buffer[i] <= MaxFrames * RowLength

LEMMA Monotonic ==
  ASSUME NEW f \in 0 .. MaxFrames
  PROVE  Total(f) <= MaxFrames * RowLength /\ MaxFrames * RowLength \in Nat
<1>1. \A m, n, r \in Nat : m <= n => m * r <= n * r /\ n * r \in Nat
  OBVIOUS
<1>2. f \in Nat /\ MaxFrames \in Nat /\ RowLength \in Nat /\ f <= MaxFrames
  BY OutputAssumption
<1> QED BY <1>1, <1>2 DEF Total

LEMMA DropSized ==
  ASSUME FileInv, FileSized, NEW k \in Nat, Drop(k)
  PROVE  \A i \in 1 .. BufferSize : buffer'[i] <= MaxFrames * RowLength
<1> SUFFICES ASSUME NEW i \in 1 .. BufferSize PROVE buffer'[i] <= MaxFrames * RowLength
  OBVIOUS
<1>1. buffered \in Int /\ buffered <= BufferSize /\ BufferSize \in Nat
  BY OutputAssumption DEF FileInv, Data
<1>2. buffer'[i] = IF i + k <= buffered THEN buffer[i + k] ELSE buffer[i]
  BY DEF Drop
<1>3. i + k <= buffered => i + k \in 1 .. BufferSize
  BY <1>1
<1> QED BY <1>2, <1>3 DEF FileSized

LEMMA NextFileSized ==
  ASSUME IInv, FileInv, FileSized, [Next]_vars
  PROVE  FileSized'
<1> USE ThreadFacts DEF FileSized
<1>1. CASE Aside
  BY <1>1 DEF Aside, fileVars, csvVars
<1>2. CASE Receive
  BY <1>2, OutputAssumption DEF Receive
<1>3. CASE WriteToFile
  BY <1>3, OutputAssumption DEF WriteToFile, writeVars, csvVars
<1>4. CASE Tick
  BY <1>4 DEF Tick, csvRest, writeVars
<1>5. CASE serializeCSV
  <2>1. CASE RowEnds \/ RowFull \/ RowCount
    BY <2>1 DEF RowEnds, RowFull, RowCount, csvRest, writeVars, csvVars
  <2>2. CASE RowCopy
    <3>1. /\ frame' = frame /\ faults' = faults /\ part < RowLength /\ pc[Process] = "row"
          /\ buffer' = [buffer EXCEPT ![buffered + 1] = Row(frame)[part + 1]]
      BY <2>2 DEF RowCopy, RowGoesOn, csvRest, writeVars
    <3>2. frame > 0 /\ part \in 0 .. RowLength /\ RowLength \in Nat /\ frame \in Nat
      BY <3>1, OutputAssumption DEF FileInv, Data, Placed, InRow, Rowing
    <3>3. PICK piece : piece = Row(frame)[part + 1]
      OBVIOUS
    <3>4. piece <= MaxFrames * RowLength
      <4>1. part + 1 \in 1 .. RowLength
        BY <3>1, <3>2
      <4>2. piece = Total(frame) - RowLength + (part + 1) /\ Total(frame) \in Nat
        BY <3>2, <3>3, <4>1, RowPieces, TotalStep
      <4>3. Total(frame) <= MaxFrames * RowLength /\ MaxFrames * RowLength \in Nat
        BY Monotonic
      <4>4. PICK n, m : n = Total(frame) /\ m = MaxFrames * RowLength
        OBVIOUS
      <4>5. piece = n - RowLength + (part + 1) /\ n \in Nat /\ n <= m /\ m \in Nat
        BY <4>2, <4>3, <4>4
      <4>6. piece <= m
        BY <3>2, <4>1, <4>5
      <4> QED BY <4>4, <4>6
    <3>5. buffer \in [1 .. BufferSize -> Nat]
      BY DEF FileInv, Data
    <3>6. \A i \in 1 .. BufferSize : buffer'[i] = buffer[i] \/ buffer'[i] = piece
      BY <3>1, <3>3, <3>5
    <3> QED BY <3>1, <3>4, <3>6
  <2> QED BY <1>5, <2>1, <2>2 DEF serializeCSV
<1>6. CASE \E t \in Writers : Flush(t)
  <2>1. PICK t \in Writers : Flush(t)
    BY <1>6
  <2>2. CASE FlushTake(t) \/ FlushWrite(t) \/ FlushReset(t)
    BY <2>2 DEF FlushTake, FlushWrite, FlushReset, csvRest, writeVars, csvVars
  <2>3. taken[t] \in Nat /\ faults \in Nat
    BY OutputAssumption DEF FileInv, Data
  <2>4. CASE FlushFails(t)
    <3>1. frame' = frame /\ faults' \in 0 .. MaxFaults
      BY <2>3, <2>4, OutputAssumption DEF FlushFails, csvRest, writeVars
    <3>2. \E k \in Nat : Drop(k)
      BY <2>3, <2>4 DEF FlushFails
    <3> QED BY <3>1, <3>2, DropSized
  <2>5. CASE FlushCompare(t)
    <3>1. frame' = frame /\ faults' = faults /\ (Drop(taken[t]) \/ buffer' = buffer)
      BY <2>5 DEF FlushCompare, csvRest, writeVars
    <3> QED BY <2>3, <3>1, DropSized
  <2> QED BY <2>1, <2>2, <2>4, <2>5 DEF Flush
<1>7. CASE WriterGone(Process) \/ WriterGone(Flusher)
  BY <1>7 DEF WriterGone, csvRest, writeVars, csvVars
<1>8. CASE StopWait \/ StopFile \/ StopClose
  BY <1>8 DEF StopWait, StopFile, StopClose, stopRest, writeVars, fileVars, csvVars
<1>9. CASE processLoop
  BY <1>1, <1>2, <1>3, <1>5, <1>6, <1>7, <1>9, ProcessAside DEF processLoop, Writers
<1>10. CASE acceptTCPClients \/ AcceptFail \/ \E c \in Clients : AcceptOk(c)
  BY <1>1, <1>10, AcceptAside
<1>11. CASE \E c \in Clients : monitorTCPClient(c)
  BY <1>1, <1>11, MonitorAside
<1>12. CASE Start
  BY <1>1, <1>12, StartAside
<1>13. CASE (\E c \in Clients : PeerReset(c) \/ Stall(c)) \/ UNCHANGED vars
  BY <1>1, <1>13, ClientAside
<1>14. CASE flushLoop
  BY <1>1, <1>4, <1>6, <1>7, <1>14, FlushAside DEF flushLoop, Writers
<1>15. CASE StopClearRunning \/ StopGoesOn
  BY <1>1, <1>6, <1>8, <1>15, StopAside DEF StopGoesOn, Writers
<1> QED BY <1>9, <1>10, <1>11, <1>12, <1>13, <1>14, <1>15 DEF Next

\* The variables that Typed and Data leave out.
Membership ==
  /\ config \in Configs /\ {running, cancelled, fileClosed, csvError, raced, timedOut} \subseteq BOOLEAN
  /\ listener \in {"open", "nil"}
  /\ Cardinality(tcpClients) <= MaxClients
  /\ {inHand, current, closing} \subseteq Clients \cup {None}
  /\ active \in [Clients -> BOOLEAN] /\ stalled \subseteq Clients

\* Who leaves makes room.
LEMMA FewerClients ==
  ASSUME Typed, Cardinality(tcpClients) <= MaxClients, tcpClients' \subseteq tcpClients
  PROVE  Cardinality(tcpClients') <= MaxClients
<1>1. IsFiniteSet(tcpClients)
  BY OutputAssumption, FS_Subset DEF Typed
<1>2. /\ Cardinality(tcpClients') <= Cardinality(tcpClients)
      /\ Cardinality(tcpClients') \in Nat /\ Cardinality(tcpClients) \in Nat
  BY <1>1, FS_Subset, FS_CardinalityType
<1> QED BY <1>2, OutputAssumption

LEMMA WriterMembership ==
  ASSUME Membership, serializeCSV \/ \E t \in Writers : Flush(t) \/ WriterGone(t)
  PROVE  Membership'
<1>1. UNCHANGED csvRest /\ raced' = raced /\ (csvError' = csvError \/ csvError' = TRUE)
  BY DEF serializeCSV, RowEnds, RowFull, RowCopy, RowCount, Flush, FlushTake, FlushWrite,
     FlushFails, FlushCompare, FlushReset, Drop, WriterGone, csvVars
<1>2. UNCHANGED <<config, running, cancelled, fileClosed, timedOut, listener, tcpClients, inHand,
                  current, closing, active, stalled>>
  BY <1>1 DEF csvRest, acceptVars, clientVars, writeVars, stopVars
<1>3. csvError' \in BOOLEAN /\ raced' \in BOOLEAN
  BY <1>1 DEF Membership
<1> QED BY <1>2, <1>3 DEF Membership

LEMMA NextMembership ==
  ASSUME IInv, Membership, [Next]_vars
  PROVE  Membership'
<1> USE DEF Membership
<1>1. Typed
  BY DEF IInv
<1>2. config' = config
  <2>1. ASSUME NEW t, Cleanup(t) PROVE config' = config
    BY <2>1 DEF Cleanup, CleanupOnce, CleanupRemove, cleanupRest
  <2>2. CASE Start \/ acceptTCPClients \/ AcceptFail \/ \E c \in Clients : AcceptOk(c)
    BY <2>2 DEF Start, acceptTCPClients, AcceptCheck, ListenerGone, Refuse, Admit, AcceptFail, AcceptOk, acceptRest
  <2>3. CASE \E c \in Clients : monitorTCPClient(c) \/ PeerReset(c) \/ Stall(c)
    BY <2>1, <2>3 DEF monitorTCPClient, MonitorCheck, ReadData, MarkActive, ReadTimeout, ReadFails,
                      PeerReset, Stall, monitorRest
  <2>4. CASE processLoop
    <3>1. CASE serializeCSV \/ Flush(Process) \/ WriterGone(Process)
      BY <3>1, WriterUnseen DEF Writers, core
    <3> QED BY <2>1, <2>4, <3>1
            DEF processLoop, ProcessCheck, Cancelled, Receive, WriteToFile, Snapshot,
                NextClient, Broadcasted, Write, WriteFails, broadcastRest
  <2>5. CASE flushLoop
    <3>1. CASE Flush(Flusher) \/ WriterGone(Flusher)
      BY <3>1, WriterUnseen DEF Writers, core
    <3> QED BY <2>5, <3>1 DEF flushLoop, FlushCheck, FlushCancelled, Tick, csvRest
  <2>6. CASE StopClearRunning \/ StopGoesOn
    <3>1. CASE Flush(Stopper)
      BY <3>1, WriterUnseen DEF Writers, core
    <3> QED BY <2>1, <2>6, <3>1
            DEF StopClearRunning, StopGoesOn, StopCancel, StopListener, StopSnapshot, StopNext,
                StopWait, StopFile, StopClose, stopRest
  <2>7. CASE UNCHANGED vars
    BY <2>7 DEF vars
  <2> QED BY <2>2, <2>3, <2>4, <2>5, <2>6, <2>7 DEF Next
<1> USE DEF acceptVars, clientVars, writeVars, fileVars, csvVars, stopVars
<1>3. ASSUME NEW t, Cleanup(t) PROVE Membership'
  <2>1. /\ tcpClients' \subseteq tcpClients /\ stalled' \subseteq stalled
        /\ active' \in [Clients -> BOOLEAN]
        /\ UNCHANGED <<config, running, cancelled, fileClosed, csvError, raced, timedOut, listener,
                       inHand, current, closing>>
    BY <1>3 DEF Cleanup, CleanupOnce, CleanupRemove, cleanupRest
  <2>2. Cardinality(tcpClients') <= MaxClients
    BY <1>1, <2>1, FewerClients
  <2> QED BY <2>1, <2>2
<1>4. CASE Start
  BY <1>4 DEF Start
<1>5. CASE acceptTCPClients \/ AcceptFail \/ \E c \in Clients : AcceptOk(c)
  <2>1. CASE AcceptCheck \/ ListenerGone \/ AcceptFail \/ Refuse \/ \E c \in Clients : AcceptOk(c)
    BY <2>1 DEF AcceptCheck, ListenerGone, AcceptFail, Refuse, AcceptOk, acceptRest
  <2>2. CASE Admit
    <3>1. IsFiniteSet(tcpClients)
      BY <1>1, OutputAssumption, FS_Subset DEF Typed
    <3>2. Cardinality(tcpClients \cup {inHand}) <= MaxClients
      <4>1. /\ Cardinality(tcpClients) \in Nat /\ Cardinality(tcpClients) < MaxClients
            /\ Cardinality(tcpClients \cup {inHand}) \in {Cardinality(tcpClients), Cardinality(tcpClients) + 1}
        BY <2>2, <3>1, FS_AddElement, FS_CardinalityType DEF Admit
      <4> QED BY <4>1, OutputAssumption
    <3> QED BY <2>2, <3>2 DEF Admit
  <2> QED BY <1>5, <2>1, <2>2 DEF acceptTCPClients
<1>6. CASE \E c \in Clients : monitorTCPClient(c) \/ PeerReset(c) \/ Stall(c)
  BY <1>3, <1>6 DEF monitorTCPClient, MonitorCheck, ReadData, MarkActive, ReadTimeout, ReadFails,
                    PeerReset, Stall, monitorRest
<1>7. CASE processLoop
  <2>1. CASE ProcessCheck \/ Cancelled \/ WriteToFile
    BY <2>1 DEF ProcessCheck, Cancelled, WriteToFile
  <2>4. CASE Receive
    BY <2>4 DEF Receive, Enter
  <2>5. CASE serializeCSV \/ Flush(Process) \/ WriterGone(Process)
    BY <2>5, WriterMembership DEF Writers
  <2>2. CASE Snapshot \/ Broadcasted \/ Write \/ WriteFails
    BY <2>2 DEF Snapshot, Broadcasted, Write, WriteFails, broadcastRest
  <2>3. ASSUME NEW c \in Clients, NextClient(c) PROVE Membership'
    BY <2>3 DEF NextClient, broadcastRest
  <2> QED BY <1>3, <1>7, <2>1, <2>2, <2>3, <2>4, <2>5 DEF processLoop
<1>8. CASE flushLoop
  <2>1. CASE FlushCheck \/ FlushCancelled
    BY <2>1 DEF FlushCheck, FlushCancelled, csvRest
  <2>2. CASE Tick
    BY <2>2 DEF Tick, Enter, csvRest
  <2>3. CASE Flush(Flusher) \/ WriterGone(Flusher)
    BY <2>3, WriterMembership DEF Writers
  <2> QED BY <1>8, <2>1, <2>2, <2>3 DEF flushLoop
<1>9. CASE StopClearRunning \/ StopCancel \/ StopListener \/ StopSnapshot
  BY <1>9 DEF StopClearRunning, StopCancel, StopListener, StopSnapshot, stopRest
<1>10. CASE StopWait \/ StopClose \/ \E c \in Clients : StopNext(c)
  BY <1>10 DEF StopWait, StopClose, StopNext, stopRest
<1>12. CASE StopFile
  BY <1>12 DEF StopFile, Enter, stopRest
<1>13. CASE Flush(Stopper)
  BY <1>13, WriterMembership DEF Writers
<1>11. CASE UNCHANGED vars
  BY <1>11 DEF vars
<1> QED BY <1>3, <1>4, <1>5, <1>6, <1>7, <1>8, <1>9, <1>10, <1>11, <1>12, <1>13
       DEF Next, StopGoesOn

\* The variables keep their types, whoever comes, goes, fails or stops: nobody is
\* in the map who was not admitted, and the map never holds more than MaxClients
\* clients, although it is looked at and added to in two steps of one loop while
\* others take clients out of it (output.go:241-291, 575-590).
THEOREM OutputTypeCorrect == Spec => []TypeOK
<1>1. Init => FileSized /\ Membership
  <2> SUFFICES ASSUME Init PROVE FileSized /\ Membership
    OBVIOUS
  <2>1. pc[Process] = "off"
    BY ThreadFacts DEF Init
  <2>2. FileSized
    BY <2>1, Monotonic, OutputAssumption DEF Init, FileSized
  <2>3. Cardinality(tcpClients) = 0
    BY FS_EmptySet DEF Init
  <2>4. config.file \in BOOLEAN
    BY OutputAssumption DEF Init
  <2>5. Cardinality(tcpClients) <= MaxClients
    BY <2>3, OutputAssumption
  <2>6. {running, cancelled, fileClosed, csvError, raced, timedOut} \subseteq BOOLEAN
    BY <2>4, Zenon DEF Init
  <2>7. /\ config \in Configs /\ listener \in {"open", "nil"}
        /\ {inHand, current, closing} \subseteq Clients \cup {None}
        /\ active \in [Clients -> BOOLEAN] /\ stalled \subseteq Clients
    BY DEF Init
  <2> QED BY <2>2, <2>5, <2>6, <2>7 DEF Membership
<1>2. IInv /\ FileInv /\ FileSized /\ Membership /\ [Next]_vars => FileSized' /\ Membership'
  BY NextFileSized, NextMembership
<1>3. IInv /\ FileInv /\ FileSized /\ Membership => TypeOK
  <2> SUFFICES ASSUME IInv, FileInv, FileSized, Membership PROVE TypeOK
    OBVIOUS
  <2>1. PICK top : top = MaxFrames * RowLength
    OBVIOUS
  <2>2. buffer \in [1 .. BufferSize -> Nat] /\ \A i \in 1 .. BufferSize : buffer[i] <= top
    BY <2>1 DEF FileInv, Data, FileSized
  <2>3. top \in Nat
    BY <2>1, OutputAssumption
  <2>4. buffer \in [1 .. BufferSize -> 0 .. top]
    BY <2>2, <2>3
  <2>5. /\ frame \in 0 .. MaxFrames /\ faults \in 0 .. MaxFaults
        /\ buffered \in Int /\ buffered <= BufferSize
        /\ taken \in [Writers -> 0 .. BufferSize] /\ part \in 0 .. RowLength
    BY DEF FileInv, Data, FileSized
  <2>6. /\ tcpClients \subseteq {c \in Clients : first[c] > 0}
        /\ sock \in [Clients -> {"unused", "open", "reset", "closed"}]
        /\ closed \in [Clients -> BOOLEAN]
        /\ toWrite \cup toClose \subseteq Clients /\ DOMAIN pc = Threads
    BY DEF IInv, Typed, Lived, Admitted
  <2> QED BY <2>1, <2>4, <2>5, <2>6 DEF Membership, TypeOK
<1> QED BY <1>1, <1>2, <1>3, IInvHolds, FileInvHolds, PTL DEF Spec
===============================================================================
