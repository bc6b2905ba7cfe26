--------------------------- MODULE AbstractBroadcast ---------------------------
(***************************************************************************)
(* What FrameOutput promises its TCP clients.  A client that has joined    *)
(* receives every frame published from then on, each once and in order,    *)
(* until it leaves; no frame is published while a member has not received  *)
(* the one before; and there are never more than MaxClients members.       *)
(***************************************************************************)
EXTENDS Integers, Sequences, FiniteSets

CONSTANTS Clients, MaxClients

VARIABLES published,   \* number of frames so far
          status,      \* client -> "out", "member", "leaving", "gone"
          first,       \* client -> number of the first frame it is to receive
          received     \* client -> the numbers of the frames it has received

vars == <<published, status, first, received>>

NextFor(c) == first[c] + Len(received[c])
Members == {c \in Clients : status[c] = "member"}

Init ==
  /\ published = 0
  /\ status = [c \in Clients |-> "out"]
  /\ first = [c \in Clients |-> 0]
  /\ received = [c \in Clients |-> <<>>]

Publish ==
  /\ \A c \in Members : NextFor(c) = published + 1
  /\ published' = published + 1
  /\ UNCHANGED <<status, first, received>>

Join(c) ==
  /\ status[c] = "out" /\ Cardinality(Members) < MaxClients
  /\ status' = [status EXCEPT ![c] = "member"]
  /\ first' = [first EXCEPT ![c] = published + 1]
  /\ UNCHANGED <<published, received>>

Deliver(c) ==
  /\ status[c] \in {"member", "leaving"} /\ NextFor(c) <= published
  /\ received' = [received EXCEPT ![c] = Append(@, NextFor(c))]
  /\ UNCHANGED <<published, status, first>>

Leave(c) ==
  /\ \/ status[c] = "member" /\ status' = [status EXCEPT ![c] = "leaving"]
     \/ status[c] = "leaving" /\ status' = [status EXCEPT ![c] = "gone"]
  /\ UNCHANGED <<published, first, received>>

Next == Publish \/ \E c \in Clients : Join(c) \/ Deliver(c) \/ Leave(c)

Spec == Init /\ [][Next]_vars
==============================================================================
