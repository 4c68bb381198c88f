--------------------------- MODULE TcpServerProofs ---------------------------
(* Safety of TcpServer for every number of clients, slots and texts: the types, *)
(* that every receive thread reads its own connection, and that what is printed *)
(* of a client is what it has written, in order and once.                       *)
EXTENDS TcpServer, SelectionProofs

USE TcpServerAssumption

(***************************************************************************)
(* The invariant.  A connection is in one place: the queue of accept or one*)
(* slot.  main writes a slot before it creates the thread that reads it,   *)
(* and never again, so it does not matter how late the thread reads its    *)
(* argument.                                                               *)
(***************************************************************************)
Unread == {"off", "none", "start"}
RxPC == {"off", "none", "start", "test", "read", "push", "done"}
CPC == {"connect", "launch", "set", "loop", "write"} \union Ended

Types ==
  /\ client_count \in 0 .. MaxClients
  /\ conn_fds \in [Slots -> Clients \union {NoClient}]
  /\ rpc \in [Slots -> RxPC]
  /\ rfd \in [Slots -> Clients \union {NoClient}]
  /\ waiting \in Seq(Clients)
  /\ cpc \in [Clients -> CPC]

SlotsInUse ==
  \A s \in Slots :
    /\ s <= client_count <=> conn_fds[s] # NoClient
    /\ s > client_count => rpc[s] = "off"

Arguments ==
  \A s \in Slots : rfd[s] = IF rpc[s] \in Unread THEN NoClient ELSE conn_fds[s]

Connected == {c \in Clients : cpc[c] # "connect"}

OnePlace ==
  /\ \A i \in 1 .. Len(waiting) : waiting[i] \in Connected
  /\ \A i, j \in 1 .. Len(waiting) : i # j => waiting[i] # waiting[j]
  /\ \A s \in Slots : conn_fds[s] \in Connected \union {NoClient}
  /\ \A s, t \in Slots : s # t /\ conn_fds[s] # NoClient => conn_fds[s] # conn_fds[t]
  /\ \A s \in Slots : \A i \in 1 .. Len(waiting) : conn_fds[s] # waiting[i]

IInv == Types /\ SlotsInUse /\ Arguments /\ OnePlace

LEMMA InitOK == Init => IInv
<1> SUFFICES ASSUME Init PROVE IInv
  OBVIOUS
<1> USE DEF Init, Slots
<1>1. Types
  BY DEF Types, RxPC, CPC
<1>2. SlotsInUse /\ Arguments
  BY DEF SlotsInUse, Arguments, Unread
<1>3. OnePlace
  BY DEF OnePlace, Connected
<1> QED
  BY <1>1, <1>2, <1>3 DEF IInv

(* Steps that leave connections and arguments alone. *)
LEMMA SameOK ==
  ASSUME IInv, UNCHANGED <<client_count, conn_fds, rpc, rfd, waiting, cpc>>
  PROVE  IInv'
BY DEF IInv, Types, SlotsInUse, Arguments, OnePlace, Connected

(* accept moves the first connection that waits into the first free slot. *)
LEMMA AcceptOK == ASSUME IInv, Accept PROVE IInv'
<1> USE DEF IInv, Accept
<1>1. CASE UNCHANGED <<conn_fds, rpc, client_count, waiting>>
  BY <1>1, SameOK DEF cli
<1>2. CASE /\ client_count < MaxClients /\ waiting # <<>>
           /\ conn_fds' = [conn_fds EXCEPT ![client_count + 1] = Head(waiting)]
           /\ \E l \in Created : rpc' = [rpc EXCEPT ![client_count + 1] = l]
           /\ client_count' = client_count + 1
           /\ waiting' = Tail(waiting)
  <2> DEFINE f == client_count + 1
  <2>1. PICK l \in {"start", "none"} : rpc' = [rpc EXCEPT ![f] = l]
    BY <1>2 DEF Created
  <2>2. UNCHANGED <<rfd, cpc>>
    BY DEF cli
  <2>3. f \in Slots /\ Head(waiting) \in Clients
    BY <1>2 DEF Types, Slots
  <2>4. /\ waiting' \in Seq(Clients)
        /\ Len(waiting') = Len(waiting) - 1
        /\ \A i \in 1 .. Len(waiting') : waiting'[i] = waiting[i + 1]
        /\ 1 \in 1 .. Len(waiting) /\ Head(waiting) = waiting[1]
    BY <1>2 DEF Types
  <2>5. Types'
    BY <1>2, <2>1, <2>2, <2>3, <2>4 DEF Types, RxPC
  <2>6. SlotsInUse'
    BY <1>2, <2>1, <2>3 DEF Types, SlotsInUse, Slots
  <2>7. Arguments'
    <3>1. rpc[f] = "off" /\ rfd[f] = NoClient
      BY <2>3 DEF SlotsInUse, Arguments, Unread, Types, Slots
    <3> QED
      BY <1>2, <2>1, <2>2, <2>3, <3>1 DEF Arguments, Unread, Types
  <2>8. OnePlace'
    <3>a. \A i \in 1 .. Len(waiting)' :
            i + 1 \in 1 .. Len(waiting) /\ waiting'[i] = waiting[i + 1]
      BY <2>4 DEF Types
    <3>b. \A i \in 1 .. Len(waiting)' : waiting'[i] \in Connected'
      BY <2>2, <3>a DEF OnePlace, Connected
    <3>1. \A i, j \in 1 .. Len(waiting)' : i # j => waiting'[i] # waiting'[j]
      <4> TAKE i, j \in 1 .. Len(waiting)'
      <4>1. i \in Int /\ j \in Int
        OBVIOUS
      <4>2. i # j => i + 1 # j + 1
        BY <4>1
      <4> QED
        BY <3>a, <4>2 DEF OnePlace
    <3>2. \A s \in Slots : conn_fds'[s] = IF s = f THEN waiting[1] ELSE conn_fds[s]
      BY <1>2, <2>3, <2>4 DEF Types
    <3>3. waiting[1] \in Connected'
      BY <2>2, <2>4 DEF OnePlace, Connected
    <3>4. \A s \in Slots : conn_fds'[s] \in (Connected \union {NoClient})'
      BY <2>2, <3>2, <3>3 DEF OnePlace, Connected
    <3>5. \A s, t \in Slots : s # t /\ conn_fds'[s] # NoClient => conn_fds'[s] # conn_fds'[t]
      BY <2>4, <3>2 DEF OnePlace
    <3>6. \A s \in Slots : \A i \in 1 .. Len(waiting)' : conn_fds'[s] # waiting'[i]
      <4> TAKE s \in Slots
      <4> TAKE i \in 1 .. Len(waiting)'
      <4>1. i + 1 \in 1 .. Len(waiting) /\ i + 1 # 1 /\ waiting'[i] = waiting[i + 1]
        BY <2>4 DEF Types
      <4> QED
        BY <2>4, <3>2, <4>1 DEF OnePlace
    <3> QED
      BY <3>b, <3>1, <3>4, <3>5, <3>6 DEF OnePlace
  <2> QED
    BY <2>5, <2>6, <2>7, <2>8
<1> QED
  BY <1>1, <1>2

(* When the server ends, nothing waits any more. *)
LEMMA ExitOK == ASSUME IInv, Exit PROVE IInv'
<1> USE DEF IInv, Exit, thr, cli
<1>1. waiting' = <<>> /\ UNCHANGED <<client_count, conn_fds, rpc, rfd, cpc>>
  OBVIOUS
<1>2. Types'
  BY <1>1 DEF Types
<1>3. SlotsInUse' /\ Arguments'
  BY <1>1 DEF SlotsInUse, Arguments
<1>4. OnePlace'
  BY <1>1 DEF OnePlace, Connected
<1> QED
  BY <1>2, <1>3, <1>4

LEMMA ServerMainOK == ASSUME IInv, ServerMain PROVE IInv'
<1>1. CASE Loop \/ AcceptFails \/ Drain \/ SendQuit \/ JoinAndClose
  BY <1>1, SameOK DEF Loop, AcceptFails, Drain, SendQuit, JoinAndClose, thr, cli, net
<1> QED
  BY <1>1, AcceptOK, ExitOK DEF ServerMain

(* A thread takes its argument from its own slot, whatever main does by then. *)
LEMMA ReceiveOK == ASSUME IInv, NEW s \in Slots, Receive(s) PROVE IInv'
<1> USE DEF IInv
<1>1. UNCHANGED <<client_count, conn_fds, waiting, cpc>>
  BY DEF Receive, RecvStart, RecvTest, RecvRead, RecvPush, srv, net, cli
<1>2. PICK l \in RxPC \ Unread : rpc' = [rpc EXCEPT ![s] = l]
  BY DEF Receive, RecvStart, RecvTest, RecvRead, RecvPush, RxPC, Unread
<1>3. rpc[s] \notin {"off", "none"}
  BY DEF Receive, RecvStart, RecvTest, RecvRead, RecvPush
<1>4. rfd'[s] = conn_fds[s] /\ rfd' = [rfd EXCEPT ![s] = conn_fds[s]]
  <2>1. CASE RecvStart(s)
    BY <2>1 DEF RecvStart, ReadArg, Types
  <2>2. CASE RecvTest(s) \/ RecvRead(s) \/ RecvPush(s)
    <3>1. rfd' = rfd /\ rpc[s] \notin Unread
      BY <2>2 DEF RecvTest, RecvRead, RecvPush, Unread
    <3> QED
      BY <3>1 DEF Arguments, Types
  <2> QED
    BY <2>1, <2>2 DEF Receive
<1>5. Types'
  BY <1>1, <1>2, <1>4 DEF Types
<1>6. SlotsInUse'
  BY <1>1, <1>2, <1>3 DEF SlotsInUse, Types
<1>7. Arguments'
  BY <1>1, <1>2, <1>4 DEF Arguments, Types
<1>8. OnePlace'
  BY <1>1 DEF OnePlace, Connected
<1> QED
  BY <1>5, <1>6, <1>7, <1>8

(* A client connects once. *)
LEMMA ConnectOK == ASSUME IInv, NEW c \in Clients, Connect(c) PROVE IInv'
<1> USE DEF IInv
<1>1. UNCHANGED <<client_count, conn_fds, rpc, rfd>>
  BY DEF Connect, srv, thr
<1>2. c \notin Connected
  BY DEF Connect, Connected
<1>3. PICK l \in {"launch", "failed"} : cpc' = [cpc EXCEPT ![c] = l]
  BY DEF Connect
<1>4. Connected \subseteq Connected' /\ c \in Connected'
  BY <1>3 DEF Connected, Types
<1>5. SlotsInUse' /\ Arguments'
  BY <1>1 DEF SlotsInUse, Arguments
<1>6. cpc' \in [Clients -> CPC]
  BY <1>3 DEF Types, CPC, Ended
<1>7. CASE waiting' = waiting
  <2>1. Types'
    BY <1>1, <1>6, <1>7 DEF Types
  <2>2. OnePlace'
    BY <1>1, <1>4, <1>7 DEF OnePlace
  <2> QED
    BY <1>5, <2>1, <2>2
<1>8. CASE waiting' = Append(waiting, c)
  <2>1. /\ waiting' \in Seq(Clients)
        /\ Len(waiting') = Len(waiting) + 1
        /\ \A i \in 1 .. Len(waiting) : waiting'[i] = waiting[i]
        /\ waiting'[Len(waiting) + 1] = c
    BY <1>8 DEF Types
  <2>2. \A i \in 1 .. Len(waiting)' :
          \/ i \in 1 .. Len(waiting) /\ waiting'[i] = waiting[i]
          \/ i = Len(waiting) + 1 /\ waiting'[i] = c
    BY <2>1 DEF Types
  <2>3. Types'
    BY <1>1, <1>6, <2>1 DEF Types
  <2>4. OnePlace'
    <3>1. \A i \in 1 .. Len(waiting)' : waiting'[i] \in Connected'
      BY <1>4, <2>2 DEF OnePlace
    <3>2. \A i, j \in 1 .. Len(waiting)' : i # j => waiting'[i] # waiting'[j]
      BY <1>2, <2>2 DEF OnePlace
    <3>3. \A s \in Slots : conn_fds'[s] \in (Connected \union {NoClient})'
      BY <1>1, <1>4 DEF OnePlace
    <3>4. \A s \in Slots : \A i \in 1 .. Len(waiting)' : conn_fds'[s] # waiting'[i]
      BY <1>1, <1>2, <2>2 DEF OnePlace
    <3> QED
      BY <1>1, <3>1, <3>2, <3>3, <3>4 DEF OnePlace
  <2> QED
    BY <1>5, <2>3, <2>4
<1> QED
  BY <1>7, <1>8 DEF Connect

(* No client ever goes back to where it connects. *)
LEMMA ClientOK ==
  ASSUME IInv, NEW c \in Clients,
         \/ Launch(c) \/ SetRunning(c) \/ ClientLoop(c) \/ ClientWrite(c)
         \/ ClientRx(c) \/ Kill(c)
  PROVE  IInv'
<1> USE DEF IInv
<1>1. UNCHANGED <<client_count, conn_fds, rpc, rfd, waiting>>
  BY DEF Launch, SetRunning, ClientLoop, ClientWrite, ClientRx, ClientRxTest, ClientRxRead,
     Kill, srv, thr, net
<1>2. \/ cpc' = cpc
      \/ \E l \in CPC \ {"connect"} : cpc' = [cpc EXCEPT ![c] = l]
  BY DEF Launch, SetRunning, ClientLoop, ClientWrite, ClientRx, ClientRxTest, ClientRxRead,
     Kill, CPC, Ended
<1>3. cpc' \in [Clients -> CPC] /\ Connected \subseteq Connected'
  BY <1>2 DEF Types, Connected
<1>4. Types' /\ SlotsInUse' /\ Arguments'
  BY <1>1, <1>3 DEF Types, SlotsInUse, Arguments
<1>5. OnePlace'
  BY <1>1, <1>3 DEF OnePlace
<1> QED
  BY <1>4, <1>5

LEMMA NextOK == IInv /\ [Next]_vars => IInv'
<1> SUFFICES ASSUME IInv, [Next]_vars PROVE IInv'
  OBVIOUS
<1>1. CASE UNCHANGED vars
  BY <1>1, SameOK DEF vars, srv, thr, net, cli
<1>2. CASE SigInt
  BY <1>2, SameOK DEF SigInt, thr, net, cli
<1> QED
  BY <1>1, <1>2, ServerMainOK, ReceiveOK, ConnectOK, ClientOK DEF Next, ClientMain

(* Connections, slots and arguments always fit together. *)
THEOREM IInvAlways == Spec => []IInv
<1> QED
  BY InitOK, NextOK, PTL DEF Spec

(* No two threads read one connection, and none reads another one's, although a
   thread takes its argument from memory that main goes on to use. *)
THEOREM OwnConnections == Spec => []OwnConnection
<1>1. IInv => OwnConnection
  <2> SUFFICES ASSUME IInv, NEW s \in Slots, rpc[s] \notin {"off", "none", "start"}
               PROVE  /\ rfd[s] \in Clients
                      /\ rfd[s] = conn_fds[s]
                      /\ \A t \in Slots \ {s} : rfd[t] # rfd[s]
    BY DEF OwnConnection
  <2>1. rfd[s] = conn_fds[s] /\ conn_fds[s] # NoClient
    BY DEF IInv, Types, SlotsInUse, Arguments, Unread, Slots
  <2>2. rfd[s] \in Clients
    BY <2>1 DEF IInv, Types
  <2>3. \A t \in Slots \ {s} : rfd[t] \in {NoClient, conn_fds[t]}
    BY DEF IInv, Arguments
  <2> QED
    BY <2>1, <2>2, <2>3 DEF IInv, OnePlace
<1> QED
  BY <1>1, IInvAlways, PTL

-----------------------------------------------------------------------------
(***************************************************************************)
(* The types of the other variables.  The index of the shutdown stays in   *)
(* its range because it never passes client_count, which has stopped       *)
(* growing.                                                                *)
(***************************************************************************)
ServerTypes ==
  /\ bound \in BOOLEAN
  /\ spc \in {"loop", "accept", "drain", "refused", "quit", "join", "done"}
  /\ is_running \in BOOLEAN
  /\ slot \in 1 .. MaxClients + 1
  /\ slot <= client_count + 1
  /\ spc = "join" => slot <= client_count

TextTypes ==
  /\ buf \in [Slots -> Seq(Texts)]
  /\ message_queue \in Seq(Texts)
  /\ printed \in [Clients -> Seq(Texts)]
  /\ up \in [Clients -> Seq(Texts)]

ClientTypes ==
  /\ sopen \subseteq Clients
  /\ quit \subseteq Clients
  /\ crun \in [Clients -> BOOLEAN]
  /\ crx \in [Clients -> {"off", "test", "read", "done"}]
  /\ nsent \in [Clients -> 0 .. MaxTexts]
  /\ late \in [Clients -> 0 .. 2]

LEMMA InitTypes == Init => ServerTypes /\ TextTypes /\ ClientTypes
<1> SUFFICES ASSUME Init PROVE ServerTypes /\ TextTypes /\ ClientTypes
  OBVIOUS
<1> USE DEF Init
<1>1. ServerTypes
  <2>1. slot \in 1 .. MaxClients + 1 /\ slot <= client_count + 1
    OBVIOUS
  <2> QED
    BY <2>1 DEF ServerTypes, Listens
<1>2. TextTypes
  BY DEF TextTypes
<1>3. ClientTypes
  <2>1. /\ sopen \subseteq Clients /\ quit \subseteq Clients
        /\ crun \in [Clients -> BOOLEAN]
        /\ crx \in [Clients -> {"off", "test", "read", "done"}]
    OBVIOUS
  <2>2. nsent \in [Clients -> 0 .. MaxTexts] /\ late \in [Clients -> 0 .. 2]
    OBVIOUS
  <2> QED
    BY <2>1, <2>2 DEF ClientTypes
<1> QED
  BY <1>1, <1>2, <1>3

(* The connection in a slot that is in use, and the one a thread reads. *)
LEMMA InUse ==
  ASSUME IInv
  PROVE  /\ \A s \in Slots : s <= client_count => conn_fds[s] \in Connected
         /\ \A s \in Slots : rfd[s] # NoClient => rfd[s] = conn_fds[s] /\ rpc[s] \notin Unread
         /\ \A s \in Slots : rpc[s] \notin Unread => rfd[s] \in Clients
         /\ \A s, t \in Slots : rfd[s] = rfd[t] /\ rfd[s] # NoClient => s = t
<1>1. \A s \in Slots : s <= client_count => conn_fds[s] \in Connected
  BY DEF IInv, SlotsInUse, OnePlace
<1>2. \A s \in Slots : rfd[s] # NoClient => rfd[s] = conn_fds[s] /\ rpc[s] \notin Unread
  BY DEF IInv, Arguments
<1>3. \A s \in Slots : rpc[s] \notin Unread => conn_fds[s] \in Clients
  <2> TAKE s \in Slots
  <2>1. rpc[s] \notin Unread => s <= client_count
    BY DEF IInv, Types, SlotsInUse, Unread, Slots
  <2> QED
    BY <1>1, <2>1 DEF Connected
<1>4. \A s, t \in Slots : rfd[s] = rfd[t] /\ rfd[s] # NoClient => s = t
  BY <1>2 DEF IInv, OnePlace
<1> QED
  BY <1>1, <1>2, <1>3, <1>4 DEF IInv, Arguments

LEMMA ServerTypesOK ==
  ASSUME IInv, ServerTypes, [Next]_vars
  PROVE  ServerTypes'
<1> USE DEF ServerTypes
<1>1. client_count \in 0 .. MaxClients
  BY DEF IInv, Types
<1>2. CASE UNCHANGED srv
  BY <1>2 DEF srv
<1>3. CASE Loop \/ AcceptFails \/ Drain \/ SigInt
  BY <1>3 DEF Loop, AcceptFails, Drain, SigInt
<1>4. CASE Accept
  <2>1. UNCHANGED <<bound, is_running, slot>> /\ spc' = "drain"
    BY <1>4 DEF Accept
  <2>2. client_count' \in {client_count, client_count + 1}
    BY <1>4 DEF Accept
  <2>3. client_count \in Int /\ slot \in Int /\ slot <= client_count + 1
    BY <1>1
  <2>4. CASE client_count' = client_count
    BY <2>1, <2>4
  <2>5. CASE client_count' = client_count + 1
    <3>1. slot <= client_count' + 1
      BY <2>3, <2>5
    <3> QED
      BY <2>1, <3>1
  <2> QED
    BY <2>2, <2>4, <2>5
<1>5. CASE SendQuit
  BY <1>5 DEF SendQuit
<1>6. CASE JoinAndClose
  <2>1. UNCHANGED <<bound, is_running, client_count>> /\ spc' = "quit"
    BY <1>6 DEF JoinAndClose
  <2>2. slot' = slot + 1 /\ slot <= client_count
    BY <1>6 DEF JoinAndClose
  <2>3. slot' \in 1 .. MaxClients + 1 /\ slot' <= client_count + 1
    BY <1>1, <2>2
  <2> QED
    BY <2>1, <2>3
<1>7. CASE Exit
  BY <1>7 DEF Exit
<1>8. \/ UNCHANGED srv
      \/ Loop \/ AcceptFails \/ Drain \/ SigInt
      \/ Accept \/ SendQuit \/ JoinAndClose \/ Exit
  BY Zenon DEF Next, vars, ServerMain, Receive, RecvStart, RecvTest, RecvRead, RecvPush,
     ClientMain, Connect, Launch, SetRunning, ClientLoop, ClientWrite,
     ClientRx, ClientRxTest, ClientRxRead, Kill
<1> QED
  BY <1>2, <1>3, <1>4, <1>5, <1>6, <1>7, <1>8

(* A text that is written has the type of a text, whatever the types are. *)
LEMMA TextOK ==
  ASSUME ClientTypes, NEW c \in Clients, nsent[c] < MaxTexts
  PROVE  /\ [src |-> c, no |-> nsent[c] + 1] \in Texts
         /\ nsent[c] + 1 \in 0 .. MaxTexts
<1>1. nsent[c] \in 0 .. MaxTexts /\ MaxTexts \in Nat
  BY DEF ClientTypes
<1>2. nsent[c] + 1 \in 1 .. MaxTexts /\ nsent[c] + 1 \in 0 .. MaxTexts
  BY <1>1
<1> QED
  BY <1>2 DEF Texts

LEMMA Pieces ==
  ASSUME NEW X, NEW q \in Seq(X)
  PROVE  \A n \in 1 .. Len(q) : /\ SubSeq(q, 1, n) \in Seq(X)
                                /\ SubSeq(q, n + 1, Len(q)) \in Seq(X)
                                /\ SubSeq(q, 1, n) \o SubSeq(q, n + 1, Len(q)) = q
<1> TAKE n \in 1 .. Len(q)
<1>1. n \in Nat /\ n <= Len(q) /\ Len(q) \in Nat
  OBVIOUS
<1>2. SubSeq(q, 1, n) \in Seq(X) /\ Len(SubSeq(q, 1, n)) = n
  BY <1>1
<1>3. SubSeq(q, n + 1, Len(q)) \in Seq(X) /\ Len(SubSeq(q, n + 1, Len(q))) = Len(q) - n
  BY <1>1
<1>4. SubSeq(q, 1, n) \o SubSeq(q, n + 1, Len(q)) = q
  BY <1>1, <1>2, <1>3
<1> QED
  BY <1>2, <1>3, <1>4

LEMMA OfFacts ==
  ASSUME NEW c
  PROVE  /\ \A q \in Seq(Texts) : Of(c, q) \in Seq(Texts)
         /\ \A p, q \in Seq(Texts) : Of(c, p \o q) = Of(c, p) \o Of(c, q)
         /\ Of(c, <<>>) = <<>>
<1> DEFINE S == [src : {c}, no : Nat]
<1> HIDE DEF S
<1>1. \A q \in Seq(Texts) : Keep(q, S) \in Seq(Texts)
  BY KeepSeq
<1>2. \A p, q \in Seq(Texts) : Keep(p \o q, S) = Keep(p, S) \o Keep(q, S)
  BY KeepConcat
<1>3. Keep(<<>>, S) = <<>>
  BY KeepNone
<1> QED
  BY <1>1, <1>2, <1>3, Zenon DEF Of, S

LEMMA TextTypesOK ==
  ASSUME IInv, TextTypes, ClientTypes, [Next]_vars
  PROVE  TextTypes'
<1> USE DEF TextTypes
<1>1. CASE UNCHANGED <<buf, out, up>>
  BY <1>1 DEF out
<1>2. CASE Drain
  <2>1. \A c \in Clients : printed[c] \o Of(c, message_queue) \in Seq(Texts)
    <3> TAKE c \in Clients
    <3>1. Of(c, message_queue) \in Seq(Texts)
      BY OfFacts
    <3>2. printed[c] \in Seq(Texts)
      OBVIOUS
    <3> QED
      BY <3>1, <3>2
  <2>2. printed' \in [Clients -> Seq(Texts)]
    BY <1>2, <2>1 DEF Drain
  <2>3. message_queue' \in Seq(Texts) /\ UNCHANGED <<buf, up>>
    BY <1>2 DEF Drain, thr, net
  <2> QED
    BY <2>2, <2>3
<1>3. CASE JoinAndClose
  <2>1. UNCHANGED <<buf, message_queue, printed>>
    BY <1>3 DEF JoinAndClose, thr, out
  <2>2. up' = [up EXCEPT ![conn_fds[slot]] = <<>>] /\ <<>> \in Seq(Texts)
    BY <1>3 DEF JoinAndClose
  <2> QED
    BY <2>1, <2>2
<1>4. CASE Exit
  BY <1>4 DEF Exit, thr
<1>5. ASSUME NEW s \in Slots, RecvRead(s) PROVE TextTypes'
  <2>1. UNCHANGED <<message_queue, printed>>
    BY <1>5 DEF RecvRead, out
  <2>2. CASE UNCHANGED <<buf, up>>
    BY <2>1, <2>2
  <2>3. CASE \E n \in 1 .. Len(up[rfd[s]]) :
               /\ buf' = [buf EXCEPT ![s] = SubSeq(up[rfd[s]], 1, n)]
               /\ up' = [up EXCEPT ![rfd[s]] = SubSeq(@, n + 1, Len(@))]
    <3>1. rfd[s] \in Clients
      BY <1>5, InUse DEF RecvRead, Unread
    <3>2. up[rfd[s]] \in Seq(Texts)
      BY <3>1
    <3>3. PICK n \in 1 .. Len(up[rfd[s]]) :
            /\ buf' = [buf EXCEPT ![s] = SubSeq(up[rfd[s]], 1, n)]
            /\ up' = [up EXCEPT ![rfd[s]] = SubSeq(up[rfd[s]], n + 1, Len(up[rfd[s]]))]
      BY <2>3, <3>1
    <3>4. /\ SubSeq(up[rfd[s]], 1, n) \in Seq(Texts)
          /\ SubSeq(up[rfd[s]], n + 1, Len(up[rfd[s]])) \in Seq(Texts)
      BY <3>2, Pieces
    <3> QED
      BY <2>1, <3>3, <3>4
  <2> QED
    BY <1>5, <2>2, <2>3 DEF RecvRead
<1>6. ASSUME NEW s \in Slots, RecvPush(s) PROVE TextTypes'
  <2>1. message_queue' \in Seq(Texts)
    <3>1. buf[s] \in Seq(Texts)
      OBVIOUS
    <3> QED
      BY <1>6, <3>1 DEF RecvPush
  <2>2. UNCHANGED <<printed, up>>
    BY <1>6 DEF RecvPush, net
  <2>3. buf' \in [Slots -> Seq(Texts)]
    BY <1>6 DEF RecvPush
  <2> QED
    BY <2>1, <2>2, <2>3
<1>7. ASSUME NEW c \in Clients, ClientWrite(c) PROVE TextTypes'
  <2>1. UNCHANGED <<buf, message_queue, printed>>
    BY <1>7 DEF ClientWrite, thr, out
  <2>2. CASE UNCHANGED up
    BY <2>1, <2>2
  <2>3. CASE /\ nsent[c] < MaxTexts
             /\ up' = [up EXCEPT ![c] = Append(@, [src |-> c, no |-> nsent[c] + 1])]
    <3> DEFINE m == [src |-> c, no |-> nsent[c] + 1]
    <3>1. m \in Texts
      BY <2>3, TextOK
    <3> HIDE DEF m
    <3>2. up' = [up EXCEPT ![c] = Append(up[c], m)]
      BY <2>3 DEF m
    <3>3. Append(up[c], m) \in Seq(Texts)
      BY <3>1
    <3> QED
      BY <2>1, <3>2, <3>3
  <2> QED
    BY <1>7, <2>2, <2>3 DEF ClientWrite
<1>8. \/ UNCHANGED <<buf, out, up>>
      \/ Drain \/ JoinAndClose \/ Exit
      \/ \E s \in Slots : RecvRead(s) \/ RecvPush(s)
      \/ \E c \in Clients : ClientWrite(c)
  BY Zenon DEF Next, vars, thr, net, ServerMain, Loop, Accept, AcceptFails, SendQuit, SigInt,
     Receive, RecvStart, RecvTest, ClientMain, Connect, Launch, SetRunning, ClientLoop,
     ClientRx, ClientRxTest, ClientRxRead, Kill
<1> QED
  BY <1>1, <1>2, <1>3, <1>4, <1>5, <1>6, <1>7, <1>8

LEMMA ClientTypesOK ==
  ASSUME IInv, ServerTypes, ClientTypes, [Next]_vars
  PROVE  ClientTypes'
<1> USE DEF ClientTypes
<1>1. CASE UNCHANGED <<sopen, quit, crun, crx, nsent, late>>
  BY <1>1
<1>2. CASE SendQuit
  <2>1. UNCHANGED <<sopen, crun, crx, nsent, late>>
    BY <1>2 DEF SendQuit, cli
  <2>2. slot \in Slots /\ slot <= client_count
    BY <1>2 DEF SendQuit, ServerTypes, IInv, Types, Slots
  <2>3. conn_fds[slot] \in Clients
    BY <2>2, InUse DEF Connected
  <2>4. quit' \subseteq Clients
    BY <1>2, <2>3 DEF SendQuit
  <2> QED
    BY <2>1, <2>4
<1>3. CASE JoinAndClose \/ Exit
  <2>1. UNCHANGED <<quit, crun, crx, nsent, late>> /\ sopen' \subseteq sopen
    BY <1>3 DEF JoinAndClose, Exit, cli
  <2> QED
    BY <2>1
<1>4. ASSUME NEW c \in Clients, ClientWrite(c) PROVE ClientTypes'
  <2>1. UNCHANGED <<sopen, quit, crun>>
    BY <1>4 DEF ClientWrite
  <2>2. crx' \in [Clients -> {"off", "test", "read", "done"}]
    BY <1>4 DEF ClientWrite
  <2>3. nsent' \in [Clients -> 0 .. MaxTexts]
    <3>1. CASE UNCHANGED nsent
      BY <3>1
    <3>2. CASE nsent[c] < MaxTexts /\ nsent' = [nsent EXCEPT ![c] = @ + 1]
      BY <3>2, TextOK
    <3> QED
      BY <1>4, <3>1, <3>2 DEF ClientWrite
  <2>4. late' \in [Clients -> 0 .. 2]
    <3>1. CASE UNCHANGED late
      BY <3>1
    <3>2. CASE late[c] < 2 /\ late' = [late EXCEPT ![c] = @ + 1]
      <4>1. late[c] + 1 \in 0 .. 2
        BY <3>2
      <4> QED
        BY <3>2, <4>1
    <3> QED
      BY <1>4, <3>1, <3>2 DEF ClientWrite
  <2> QED
    BY <2>1, <2>2, <2>3, <2>4
<1>5. ASSUME NEW c \in Clients,
             Connect(c) \/ Launch(c) \/ SetRunning(c) \/ ClientLoop(c) \/ ClientRx(c) \/ Kill(c)
      PROVE  ClientTypes'
  <2>1. sopen' \subseteq sopen \union {c} /\ quit' \subseteq quit /\ UNCHANGED <<nsent, late>>
    BY <1>5 DEF Connect, Launch, SetRunning, ClientLoop, ClientRx, ClientRxTest, ClientRxRead,
       Kill, net
  <2>2. crun' = crun \/ \E b \in BOOLEAN : crun' = [crun EXCEPT ![c] = b]
    BY <1>5 DEF Connect, Launch, SetRunning, ClientLoop, ClientRx, ClientRxTest, ClientRxRead,
       Kill
  <2>3. crx' = crx \/ \E l \in {"test", "read", "done"} : crx' = [crx EXCEPT ![c] = l]
    BY <1>5 DEF Connect, Launch, SetRunning, ClientLoop, ClientRx, ClientRxTest, ClientRxRead,
       Kill
  <2>4. sopen' \subseteq Clients /\ quit' \subseteq Clients
    BY <2>1
  <2>5. crun' \in [Clients -> BOOLEAN]
    BY <2>2
  <2>6. crx' \in [Clients -> {"off", "test", "read", "done"}]
    BY <2>3
  <2>7. nsent' \in [Clients -> 0 .. MaxTexts] /\ late' \in [Clients -> 0 .. 2]
    BY <2>1
  <2> QED
    BY <2>4, <2>5, <2>6, <2>7
<1>6. \/ UNCHANGED <<sopen, quit, crun, crx, nsent, late>>
      \/ SendQuit \/ JoinAndClose \/ Exit
      \/ \E c \in Clients : ClientMain(c) \/ ClientRx(c) \/ Kill(c)
  BY Zenon DEF Next, vars, net, cli, ServerMain, Loop, Accept, AcceptFails, Drain, SigInt,
     Receive, RecvStart, RecvTest, RecvRead, RecvPush
<1> QED
  BY <1>1, <1>2, <1>3, <1>4, <1>5, <1>6 DEF ClientMain

TypeInv == IInv /\ ServerTypes /\ TextTypes /\ ClientTypes

LEMMA TypeInvAlways == Spec => []TypeInv
<1>1. Init => TypeInv
  BY InitOK, InitTypes DEF TypeInv
<1>2. TypeInv /\ [Next]_vars => TypeInv'
  BY NextOK, ServerTypesOK, TextTypesOK, ClientTypesOK DEF TypeInv
<1> QED
  BY <1>1, <1>2, PTL DEF Spec

(* Every variable keeps its type: no slot past MaxClients is written, and the
   shutdown never looks at one. *)
THEOREM TypeCorrect == Spec => []TypeOK
<1>1. TypeInv => TypeOK
  <2> SUFFICES ASSUME TypeInv PROVE TypeOK
    OBVIOUS
  <2>1. \A s \in Slots : conn_fds[s] \in Clients <=> s <= client_count
    <3>1. \A s \in Slots : conn_fds[s] \in Clients <=> conn_fds[s] # NoClient
      BY DEF TypeInv, IInv, Types
    <3> QED
      BY <3>1 DEF TypeInv, IInv, SlotsInUse
  <2> QED
    BY <2>1 DEF TypeInv, IInv, Types, ServerTypes, TextTypes, ClientTypes, TypeOK, RxPC, CPC
<1> QED
  BY <1>1, TypeInvAlways, PTL

-----------------------------------------------------------------------------
(***************************************************************************)
(* The stream of a client.  A thread holds texts of its own connection and *)
(* only between read and push, so what is in flight can be laid end to end:*)
(* printed, queued, in the thread, in the socket.  Every step moves the    *)
(* front of one part to the back of the one before it.  That ends when the *)
(* server closes the connection, which it does after it has printed for the*)
(* last time: from then on only what is printed counts.                    *)
(***************************************************************************)
TextsOf(c) == [src : {c}, no : 1 .. MaxTexts]

Streams ==
  /\ \A s \in Slots : rpc[s] # "push" => buf[s] = <<>>
  /\ \A s \in Slots : buf[s] \in Seq(TextsOf(rfd[s]))
  /\ \A c \in Clients : up[c] \in Seq(TextsOf(c))

Written(c) == [n \in 1 .. nsent[c] |-> [src |-> c, no |-> n]]
Arrived(c) == Cat(Cat(Cat(printed[c], Of(c, message_queue)), InThread(c)), up[c])
Whole(c) == Arrived(c) = Written(c)

Open(c) ==
  \/ c \in sopen
  \/ cpc[c] = "connect" /\ spc # "done"
  \/ spc \in {"loop", "accept", "drain", "refused"}

Intact == \A c \in Clients : IF Open(c) THEN Whole(c) ELSE IsPrefix(printed[c], Written(c))

LEMMA OfOwn ==
  /\ \A c : \A q \in Seq(TextsOf(c)) : Of(c, q) = q
  /\ \A c, d : c # d => \A q \in Seq(TextsOf(d)) : Of(c, q) = <<>>
<1>1. ASSUME NEW c, NEW q \in Seq(TextsOf(c)) PROVE Of(c, q) = q
  <2> DEFINE S == [src : {c}, no : Nat]
  <2>1. TextsOf(c) \subseteq S
    BY DEF TextsOf
  <2> HIDE DEF S
  <2>2. q \in Seq(S)
    BY <2>1
  <2> QED
    BY <2>2, KeepAll, Zenon DEF Of, S
<1>2. ASSUME NEW c, NEW d, c # d, NEW q \in Seq(TextsOf(d)) PROVE Of(c, q) = <<>>
  <2> DEFINE S == [src : {c}, no : Nat]
  <2>1. \A m \in TextsOf(d) : m \notin S
    BY <1>2 DEF TextsOf
  <2> HIDE DEF S
  <2>2. Keep(q, S) = <<>>
    BY <2>1, KeepNothing
  <2> QED
    BY <2>2, Zenon DEF Of, S
<1> QED
  BY <1>1, <1>2

(* What the thread of a client holds. *)
LEMMA InThreadOf ==
  ASSUME IInv, NEW c \in Clients, NEW s \in Slots, rfd[s] = c
  PROVE  InThread(c) = buf[s]
<1> DEFINE mine == {t \in Slots : rfd[t] = c /\ buf[t] # <<>>}
<1>1. \A t \in Slots : rfd[t] = c => t = s
  BY InUse DEF IInv, Types
<1>2. CASE buf[s] = <<>>
  <2>1. mine = {}
    BY <1>1, <1>2
  <2> QED
    BY <1>2, <2>1 DEF InThread
<1>3. CASE buf[s] # <<>>
  <2>1. mine = {s}
    BY <1>1, <1>3
  <2>2. (CHOOSE t \in mine : TRUE) = s
    BY <2>1
  <2> QED
    BY <2>1, <2>2 DEF InThread
<1> QED
  BY <1>2, <1>3

InThreads == \A c \in Clients, s \in Slots : rfd[s] = c => InThread(c) = buf[s]

LEMMA InThreadsOK == IInv => InThreads
BY InThreadOf DEF InThreads

(* The same of the next state. *)
LEMMA InThreadsNext == IInv' => InThreads'
BY InThreadsOK, PTL

(* Steps that change neither a thread of the client nor what it holds. *)
LEMMA InThreadSame ==
  ASSUME NEW c \in Clients,
         \A s \in Slots : (rfd'[s] = c /\ buf'[s] # <<>>) <=> (rfd[s] = c /\ buf[s] # <<>>),
         \A s \in Slots : rfd[s] = c /\ buf[s] # <<>> => buf'[s] = buf[s]
  PROVE  InThread(c)' = InThread(c)
<1> DEFINE mine == {t \in Slots : rfd[t] = c /\ buf[t] # <<>>}
           new == {t \in Slots : rfd'[t] = c /\ buf'[t] # <<>>}
           one == CHOOSE t \in mine : TRUE
<1>1. new = mine
  OBVIOUS
<1>2. mine # {} => buf'[one] = buf[one]
  <2> SUFFICES ASSUME mine # {} PROVE buf'[one] = buf[one]
    OBVIOUS
  <2>1. one \in mine
    OBVIOUS
  <2> QED
    BY <2>1
<1>3. InThread(c) = IF mine = {} THEN <<>> ELSE buf[one]
  BY DEF InThread
<1>4. InThread(c)' = IF new = {} THEN <<>> ELSE buf'[CHOOSE t \in new : TRUE]
  BY DEF InThread
<1> HIDE DEF mine, new
<1> QED
  BY <1>1, <1>2, <1>3, <1>4

LEMMA InThreadSeq ==
  ASSUME TextTypes, NEW c \in Clients
  PROVE  InThread(c) \in Seq(Texts)
<1> DEFINE mine == {t \in Slots : rfd[t] = c /\ buf[t] # <<>>}
           one == CHOOSE t \in mine : TRUE
<1>1. mine # {} => one \in Slots
  OBVIOUS
<1>2. mine # {} => buf[one] \in Seq(Texts)
  BY <1>1 DEF TextTypes
<1>3. InThread(c) = IF mine = {} THEN <<>> ELSE buf[one]
  BY DEF InThread
<1>4. <<>> \in Seq(Texts)
  OBVIOUS
<1> HIDE DEF mine, one
<1> QED
  BY <1>2, <1>3, <1>4

(* The prefix of what was written that has been printed. *)
LEMMA PrefixOfCat ==
  ASSUME NEW X, NEW p \in Seq(X), NEW q \in Seq(X)
  PROVE  IsPrefix(p, p \o q)
<1>1. Len(p) <= Len(p \o q)
  OBVIOUS
<1>2. SubSeq(p, 1, Len(p)) = p
  OBVIOUS
<1>3. SubSeq(p \o q, 1, Len(p)) = p
  OBVIOUS
<1> QED
  BY <1>1, <1>2, <1>3 DEF IsPrefix

LEMMA WholePrefix ==
  ASSUME TextTypes, NEW c \in Clients, Whole(c)
  PROVE  IsPrefix(printed[c], Written(c))
<1> DEFINE p == printed[c]
           q == Of(c, message_queue)
           r == InThread(c)
           u == up[c]
<1>1. p \in Seq(Texts) /\ q \in Seq(Texts) /\ r \in Seq(Texts) /\ u \in Seq(Texts)
  BY OfFacts, InThreadSeq DEF TextTypes
<1>2. Cat(Cat(Cat(p, q), r), u) = Written(c)
  BY DEF Whole, Arrived
<1> HIDE DEF p, q, r, u
<1>3. /\ Cat(q, Cat(r, u)) \in Seq(Texts)
      /\ Cat(Cat(Cat(p, q), r), u) = Cat(p, Cat(q, Cat(r, u)))
  BY <1>1, CatOfFour
<1>4. IsPrefix(p, Cat(p, Cat(q, Cat(r, u))))
  BY <1>1, <1>3, PrefixOfCat DEF Cat
<1> QED
  BY <1>2, <1>3, <1>4 DEF p

LEMMA InitStreams == Init => Streams /\ Intact
<1> SUFFICES ASSUME Init PROVE Streams /\ Intact
  OBVIOUS
<1>1. Streams
  BY DEF Init, Streams
<1>2. ASSUME NEW c \in Clients PROVE Open(c) /\ Whole(c)
  <2>1. Open(c)
    BY DEF Init, Open
  <2>2. Written(c) = <<>>
    BY DEF Init, Written
  <2>3. printed[c] = <<>> /\ up[c] = <<>> /\ message_queue = <<>>
    BY DEF Init
  <2>4. InThread(c) = <<>>
    BY DEF Init, InThread
  <2>5. Cat(<<>>, <<>>) = <<>>
    BY DEF Cat
  <2> QED
    BY <2>1, <2>2, <2>3, <2>4, <2>5, OfFacts, Zenon DEF Whole, Arrived
<1> QED
  BY <1>1, <1>2 DEF Intact

LEMMA OwnPieces ==
  ASSUME IInv, Streams, NEW s \in Slots, RecvRead(s),
         NEW n \in 1 .. Len(up[rfd[s]])
  PROVE  /\ rfd[s] \in Clients
         /\ SubSeq(up[rfd[s]], 1, n) \in Seq(TextsOf(rfd[s]))
         /\ SubSeq(up[rfd[s]], n + 1, Len(up[rfd[s]])) \in Seq(TextsOf(rfd[s]))
         /\ SubSeq(up[rfd[s]], 1, n) \o SubSeq(up[rfd[s]], n + 1, Len(up[rfd[s]])) = up[rfd[s]]
<1>1. rfd[s] \in Clients
  BY InUse DEF RecvRead, Unread
<1>2. up[rfd[s]] \in Seq(TextsOf(rfd[s]))
  BY <1>1 DEF Streams
<1> QED
  BY <1>1, <1>2, Pieces

LEMMA StreamsOK ==
  ASSUME TypeInv, Streams, [Next]_vars
  PROVE  Streams'
<1> USE DEF Streams
<1>0. /\ rpc \in [Slots -> RxPC] /\ rfd \in [Slots -> Clients \union {NoClient}]
      /\ buf \in [Slots -> Seq(Texts)] /\ up \in [Clients -> Seq(Texts)]
  BY DEF TypeInv, IInv, Types, TextTypes
<1>1. CASE UNCHANGED <<thr, up>>
  BY <1>1 DEF thr
<1>2. CASE Accept
  <2>1. UNCHANGED <<rfd, buf, up>>
    BY <1>2 DEF Accept
  <2>2. \A s \in Slots : rpc[s] = "push" => rpc'[s] = "push"
    <3>1. CASE UNCHANGED rpc
      BY <3>1
    <3>2. CASE client_count < MaxClients
               /\ \E l \in Created : rpc' = [rpc EXCEPT ![client_count + 1] = l]
      <4>1. \A s \in Slots : s # client_count + 1 => rpc'[s] = rpc[s]
        BY <3>2, <1>0
      <4>2. client_count + 1 \in Slots => rpc[client_count + 1] = "off"
        BY <3>2 DEF TypeInv, IInv, SlotsInUse, Types
      <4> QED
        BY <4>1, <4>2
    <3> QED
      BY <1>2, <3>1, <3>2 DEF Accept
  <2> QED
    BY <2>1, <2>2
<1>3. CASE JoinAndClose \/ Exit
  <2>1. UNCHANGED thr
    BY <1>3 DEF JoinAndClose, Exit
  <2>2. \A c \in Clients : up'[c] = up[c] \/ up'[c] = <<>>
    BY <1>3, <1>0 DEF JoinAndClose, Exit
  <2>3. \A c \in Clients : up'[c] \in Seq(TextsOf(c))
    <3>1. \A c : <<>> \in Seq(TextsOf(c))
      OBVIOUS
    <3> QED
      BY <2>2, <3>1, Zenon
  <2> QED
    BY <2>1, <2>3 DEF thr
<1>4. ASSUME NEW s \in Slots, RecvStart(s) PROVE Streams'
  <2>1. UNCHANGED <<buf, up>> /\ rpc[s] = "start" /\ rpc' = [rpc EXCEPT ![s] = "test"]
        /\ \A t \in Slots \ {s} : rfd'[t] = rfd[t]
    BY <1>4, <1>0 DEF RecvStart, net
  <2>2. buf'[s] = <<>> /\ <<>> \in Seq(TextsOf(rfd'[s]))
    BY <2>1
  <2>3. \A t \in Slots : rpc'[t] # "push" => buf'[t] = <<>>
    BY <1>0, <2>1, <2>2
  <2>4. \A t \in Slots : buf'[t] \in Seq(TextsOf(rfd'[t]))
    BY <2>1, <2>2, Zenon
  <2> QED
    BY <2>1, <2>3, <2>4
<1>5. ASSUME NEW s \in Slots, RecvTest(s) PROVE Streams'
  BY <1>5, <1>0 DEF RecvTest, net
<1>6. ASSUME NEW s \in Slots, RecvRead(s) PROVE Streams'
  <2>1. UNCHANGED rfd /\ rpc[s] = "read" /\ \A t \in Slots \ {s} : rpc'[t] = rpc[t]
    BY <1>6, <1>0 DEF RecvRead
  <2>2. CASE UNCHANGED <<buf, up>>
    BY <2>1, <2>2
  <2>3. ASSUME NEW n \in 1 .. Len(up[rfd[s]]),
               buf' = [buf EXCEPT ![s] = SubSeq(up[rfd[s]], 1, n)],
               up' = [up EXCEPT ![rfd[s]] = SubSeq(@, n + 1, Len(@))],
               rpc' = [rpc EXCEPT ![s] = "push"]
        PROVE  Streams'
    <3> DEFINE a == SubSeq(up[rfd[s]], 1, n)
               b == SubSeq(up[rfd[s]], n + 1, Len(up[rfd[s]]))
    <3>1. /\ rfd[s] \in Clients
          /\ a \in Seq(TextsOf(rfd[s])) /\ b \in Seq(TextsOf(rfd[s]))
      BY <1>6, OwnPieces DEF TypeInv
    <3>2. buf' = [buf EXCEPT ![s] = a] /\ up' = [up EXCEPT ![rfd[s]] = b]
      BY <2>3, <3>1
    <3> HIDE DEF a, b
    <3>3. \A t \in Slots : rpc'[t] # "push" => buf'[t] = <<>>
      BY <1>0, <2>1, <2>3, <3>2
    <3>4. \A t \in Slots : buf'[t] \in Seq(TextsOf(rfd'[t]))
      BY <1>0, <2>1, <3>1, <3>2
    <3>5. \A c \in Clients : up'[c] \in Seq(TextsOf(c))
      BY <1>0, <3>1, <3>2
    <3> QED
      BY <3>3, <3>4, <3>5
  <2> QED
    BY <1>6, <2>2, <2>3 DEF RecvRead
<1>7. ASSUME NEW s \in Slots, RecvPush(s) PROVE Streams'
  <2>1. /\ UNCHANGED <<rfd, up>>
        /\ buf' = [buf EXCEPT ![s] = <<>>]
        /\ \A t \in Slots \ {s} : rpc'[t] = rpc[t]
    BY <1>7, <1>0 DEF RecvPush, net
  <2> QED
    BY <1>0, <2>1
<1>8. ASSUME NEW c \in Clients, ClientWrite(c) PROVE Streams'
  <2>1. UNCHANGED thr
    BY <1>8 DEF ClientWrite
  <2>2. CASE UNCHANGED up
    BY <2>1, <2>2 DEF thr
  <2>3. CASE /\ nsent[c] < MaxTexts
             /\ up' = [up EXCEPT ![c] = Append(@, [src |-> c, no |-> nsent[c] + 1])]
    <3> DEFINE m == [src |-> c, no |-> nsent[c] + 1]
    <3>1. m \in TextsOf(c)
      BY <2>3, TextOK DEF TypeInv, Texts, TextsOf
    <3> HIDE DEF m
    <3>2. up' = [up EXCEPT ![c] = Append(up[c], m)]
      BY <2>3 DEF m
    <3>3. Append(up[c], m) \in Seq(TextsOf(c))
      BY <3>1
    <3>4. \A d \in Clients : up'[d] \in Seq(TextsOf(d))
      BY <1>0, <3>2, <3>3
    <3> QED
      BY <2>1, <3>4 DEF thr
  <2> QED
    BY <1>8, <2>2, <2>3 DEF ClientWrite
<1>9. \/ UNCHANGED <<thr, up>>
      \/ Accept \/ JoinAndClose \/ Exit
      \/ \E s \in Slots : Receive(s)
      \/ \E c \in Clients : ClientWrite(c)
  BY Zenon DEF Next, vars, net, ServerMain, Loop, AcceptFails, Drain, SendQuit, SigInt,
     ClientMain, Connect, Launch, SetRunning, ClientLoop,
     ClientRx, ClientRxTest, ClientRxRead, Kill
<1> QED
  BY <1>1, <1>2, <1>3, <1>4, <1>5, <1>6, <1>7, <1>8, <1>9 DEF Receive

(* The parts of a stream laid end to end, and the moves between them. *)
Line(p, q, r, u) == Cat(Cat(Cat(p, q), r), u)

LEMMA Moves ==
  ASSUME NEW X, NEW p \in Seq(X), NEW q \in Seq(X), NEW r \in Seq(X), NEW u \in Seq(X)
  PROVE  /\ Line(p, q, <<>>, Cat(r, u)) = Line(p, q, r, u)
         /\ Line(p, Cat(q, r), <<>>, u) = Line(p, q, r, u)
         /\ Line(Cat(p, q), <<>>, r, u) = Line(p, q, r, u)
         /\ \A m \in X : Line(p, q, r, Add(u, m)) = Add(Line(p, q, r, u), m)
<1>1. Cat(p, q) \in Seq(X) /\ Cat(Cat(p, q), r) \in Seq(X)
  BY CatLaws
<1>2. Cat(Cat(p, q), <<>>) = Cat(p, q) /\ Cat(Cat(p, q), Cat(r, u)) = Cat(Cat(Cat(p, q), r), u)
  BY <1>1, CatLaws
<1>3. Cat(p, Cat(q, r)) = Cat(Cat(p, q), r) /\ Cat(Cat(Cat(p, q), r), <<>>) = Cat(Cat(p, q), r)
  BY <1>1, CatLaws
<1>4. \A m \in X : Cat(Cat(Cat(p, q), r), Add(u, m)) = Add(Cat(Cat(Cat(p, q), r), u), m)
  BY <1>1, CatLaws
<1> QED
  BY <1>2, <1>3, <1>4, Zenon DEF Line

LEMMA ArrivedLine ==
  ASSUME NEW c
  PROVE  Arrived(c) = Line(printed[c], Of(c, message_queue), InThread(c), up[c])
BY Zenon DEF Arrived, Line

LEMMA PartsSeq ==
  ASSUME TypeInv, NEW c \in Clients
  PROVE  /\ printed[c] \in Seq(Texts) /\ Of(c, message_queue) \in Seq(Texts)
         /\ InThread(c) \in Seq(Texts) /\ up[c] \in Seq(Texts)
BY OfFacts, InThreadSeq DEF TypeInv, TextTypes

(* A step that leaves the stream of c as long as it counts, and the count of its
   texts and what is printed of it. *)
LEMMA IntactKept ==
  ASSUME TypeInv, NEW c \in Clients,
         IF Open(c) THEN Whole(c) ELSE IsPrefix(printed[c], Written(c)),
         Open(c)' => Open(c) /\ Arrived(c)' = Arrived(c),
         nsent'[c] = nsent[c], printed'[c] = printed[c]
  PROVE  IF Open(c)' THEN Whole(c)' ELSE IsPrefix(printed[c], Written(c))'
<1>1. Written(c)' = Written(c)
  BY DEF Written
<1>2. CASE Open(c)'
  BY <1>1, <1>2 DEF Whole
<1>3. CASE ~Open(c)'
  <2>1. IsPrefix(printed[c], Written(c))
    BY WholePrefix DEF TypeInv
  <2>2. IsPrefix(printed[c], Written(c))' = IsPrefix(printed'[c], Written(c)')
    OBVIOUS
  <2> QED
    BY <1>1, <1>3, <2>1, <2>2
<1> QED
  BY <1>2, <1>3

(* The server prints the queue: its front part moves to the screen. *)
LEMMA DrainIntact ==
  ASSUME TypeInv, Intact, Drain, NEW c \in Clients
  PROVE  Open(c)' /\ Whole(c)'
<1> DEFINE p == printed[c]
           q == Of(c, message_queue)
           r == InThread(c)
           u == up[c]
<1>1. Open(c) /\ Open(c)'
  BY DEF Drain, Open
<1>2. Written(c)' = Written(c)
  BY DEF Drain, cli, Written
<1>3. InThread(c)' = r /\ up'[c] = u
  <2>1. UNCHANGED <<rfd, buf, up>>
    BY DEF Drain, thr, net
  <2> QED
    BY <2>1, InThreadSame
<1>4. printed'[c] = Cat(p, q)
  BY DEF Drain, Cat
<1>5. Of(c, message_queue)' = <<>>
  <2>1. message_queue' = <<>>
    BY DEF Drain
  <2> QED
    BY <2>1, OfFacts
<1>6. Arrived(c)' = Line(Cat(p, q), <<>>, r, u)
  BY <1>3, <1>4, <1>5, Zenon DEF Arrived, Line
<1>7. p \in Seq(Texts) /\ q \in Seq(Texts) /\ r \in Seq(Texts) /\ u \in Seq(Texts)
  BY PartsSeq
<1>8. Arrived(c) = Line(p, q, r, u)
  BY ArrivedLine
<1> HIDE DEF p, q, r, u
<1>9. Line(Cat(p, q), <<>>, r, u) = Line(p, q, r, u)
  BY <1>7, Moves
<1>10. Arrived(c)' = Arrived(c)
  BY <1>6, <1>8, <1>9
<1> QED
  BY <1>1, <1>2, <1>10 DEF Intact, Whole

(* A thread reads from its socket. *)
LEMMA ReadMoves ==
  ASSUME TypeInv, TypeInv', Streams, NEW s \in Slots, RecvRead(s), NEW c \in Clients
  PROVE  Arrived(c)' = Arrived(c)
<1>1. UNCHANGED <<rfd, message_queue, printed>> /\ rpc[s] = "read"
  BY DEF RecvRead, out
<1>2. Of(c, message_queue)' = Of(c, message_queue) /\ printed'[c] = printed[c]
  BY <1>1
<1>3. buf[s] = <<>>
  BY <1>1 DEF Streams
<1>0. buf \in [Slots -> Seq(Texts)] /\ up \in [Clients -> Seq(Texts)]
  BY DEF TypeInv, TextTypes
<1>4. CASE UNCHANGED <<buf, up>>
  <2>1. InThread(c)' = InThread(c)
    BY <1>1, <1>4, InThreadSame
  <2> QED
    BY <1>2, <1>4, <2>1, Zenon DEF Arrived
<1>5. ASSUME NEW n \in 1 .. Len(up[rfd[s]]),
             buf' = [buf EXCEPT ![s] = SubSeq(up[rfd[s]], 1, n)],
             up' = [up EXCEPT ![rfd[s]] = SubSeq(@, n + 1, Len(@))]
      PROVE  Arrived(c)' = Arrived(c)
  <2> DEFINE a == SubSeq(up[rfd[s]], 1, n)
             b == SubSeq(up[rfd[s]], n + 1, Len(up[rfd[s]]))
             p == printed[c]
             q == Of(c, message_queue)
  <2>0. rfd[s] \in Clients /\ up[rfd[s]] \in Seq(Texts)
    BY <1>0, InUse DEF TypeInv, RecvRead, Unread
  <2>1. a \in Seq(Texts) /\ b \in Seq(Texts) /\ Cat(a, b) = up[rfd[s]]
    BY <2>0, Pieces DEF Cat
  <2>2. buf' = [buf EXCEPT ![s] = a] /\ up' = [up EXCEPT ![rfd[s]] = b]
    BY <1>5, <2>0
  <2>3. p \in Seq(Texts) /\ q \in Seq(Texts)
    BY PartsSeq
  <2>4. Arrived(c) = Line(p, q, InThread(c), up[c])
    BY ArrivedLine
  <2>5. Arrived(c)' = Line(p, q, InThread(c)', up'[c])
    BY <1>2, Zenon DEF Arrived, Line
  <2> HIDE DEF a, b, p, q
  <2>6. CASE rfd[s] = c
    <3>1. InThread(c) = <<>>
      BY <1>3, <2>6, InThreadOf DEF TypeInv
    <3>2. rfd'[s] = c /\ buf'[s] = a
      BY <1>1, <1>0, <2>2, <2>6
    <3>3. InThread(c)' = a
      BY <3>2, InThreadsNext DEF TypeInv, InThreads
    <3>4. up'[c] = b /\ up[c] = Cat(a, b)
      BY <1>0, <2>1, <2>2, <2>6
    <3>5. Line(p, q, <<>>, Cat(a, b)) = Line(p, q, a, b)
      BY <2>1, <2>3, Moves
    <3> QED
      BY <2>4, <2>5, <3>1, <3>3, <3>4, <3>5
  <2>7. CASE rfd[s] # c
    <3>1. up'[c] = up[c]
      BY <1>0, <2>2, <2>7
    <3>2. \A t \in Slots : rfd[t] = c => buf'[t] = buf[t]
      BY <1>0, <2>2, <2>7
    <3>3. InThread(c)' = InThread(c)
      BY <1>1, <3>2, InThreadSame
    <3> QED
      BY <2>4, <2>5, <3>1, <3>3
  <2> QED
    BY <2>6, <2>7
<1> QED
  BY <1>4, <1>5 DEF RecvRead

(* A thread puts what it has read behind the queue, under the lock. *)
LEMMA PushMoves ==
  ASSUME TypeInv, TypeInv', Streams, NEW s \in Slots, RecvPush(s), NEW c \in Clients
  PROVE  Arrived(c)' = Arrived(c)
<1> DEFINE x == buf[s]
           p == printed[c]
           q == Of(c, message_queue)
           u == up[c]
           r == InThread(c)
<1>1. /\ UNCHANGED <<rfd, printed, up>> /\ rpc[s] = "push"
      /\ message_queue' = message_queue \o x
      /\ buf' = [buf EXCEPT ![s] = <<>>]
  BY DEF RecvPush, net
<1>2. buf \in [Slots -> Seq(Texts)] /\ message_queue \in Seq(Texts)
  BY DEF TypeInv, TextTypes
<1>3. rfd[s] \in Clients
  BY <1>1, InUse DEF TypeInv, Unread
<1>4. x \in Seq(Texts) /\ x \in Seq(TextsOf(rfd[s]))
  BY <1>2 DEF Streams
<1>5. Of(c, message_queue)' = Cat(q, Of(c, x))
  <2>1. Of(c, message_queue \o x) = q \o Of(c, x)
    BY <1>2, <1>4, OfFacts
  <2> QED
    BY <1>1, <2>1 DEF Cat
<1>6. p \in Seq(Texts) /\ q \in Seq(Texts) /\ u \in Seq(Texts) /\ r \in Seq(Texts)
  BY PartsSeq
<1>7. Arrived(c) = Line(p, q, r, u)
  BY ArrivedLine
<1>8. Arrived(c)' = Line(p, Cat(q, Of(c, x)), InThread(c)', u)
  BY <1>1, <1>5, Zenon DEF Arrived, Line
<1>9. CASE rfd[s] = c
  <2>1. Of(c, x) = x
    BY <1>4, <1>9, OfOwn
  <2>2. r = x
    BY <1>9, InThreadOf DEF TypeInv
  <2>3. rfd'[s] = c /\ buf'[s] = <<>>
    BY <1>1, <1>2, <1>9
  <2>4. InThread(c)' = <<>>
    BY <2>3, InThreadsNext DEF TypeInv, InThreads
  <2> HIDE DEF p, q, u, x, r
  <2>5. Line(p, Cat(q, x), <<>>, u) = Line(p, q, x, u)
    BY <1>4, <1>6, Moves
  <2> QED
    BY <1>7, <1>8, <2>1, <2>2, <2>4, <2>5
<1>10. CASE rfd[s] # c
  <2>1. Of(c, x) = <<>>
    BY <1>4, <1>10, OfOwn
  <2>2. \A t \in Slots : rfd[t] = c => buf'[t] = buf[t]
    BY <1>1, <1>2, <1>10
  <2>3. InThread(c)' = r
    BY <1>1, <2>2, InThreadSame
  <2> HIDE DEF p, q, u, x, r
  <2>4. Cat(q, <<>>) = q
    BY <1>6, CatLaws
  <2> QED
    BY <1>7, <1>8, <2>1, <2>3, <2>4
<1> QED
  BY <1>9, <1>10

(* A client writes one text more; the other streams are not touched. *)
LEMMA WriteIntact ==
  ASSUME TypeInv, Intact, NEW d \in Clients, ClientWrite(d), NEW c \in Clients
  PROVE  IF Open(c)' THEN Whole(c)' ELSE IsPrefix(printed[c], Written(c))'
<1>1. UNCHANGED <<spc, sopen, rfd, buf, message_queue, printed>>
  BY DEF ClientWrite, srv, thr, out
<1>2. InThread(c)' = InThread(c)
  BY <1>1, InThreadSame
<1>3. Of(c, message_queue)' = Of(c, message_queue) /\ printed'[c] = printed[c]
  BY <1>1
<1>4. cpc'[c] = "connect" => cpc[c] = "connect"
  BY DEF ClientWrite, TypeInv, IInv, Types
<1>5. Open(c)' => Open(c)
  BY <1>1, <1>4 DEF Open
<1>6. CASE up'[c] = up[c] /\ nsent'[c] = nsent[c]
  <2>1. Arrived(c)' = Arrived(c)
    BY <1>2, <1>3, <1>6, Zenon DEF Arrived
  <2> QED
    BY <1>3, <1>5, <1>6, <2>1, IntactKept DEF Intact
<1>7. CASE /\ c \in sopen /\ nsent[c] < MaxTexts
           /\ up'[c] = Append(up[c], [src |-> c, no |-> nsent[c] + 1])
           /\ nsent'[c] = nsent[c] + 1
  <2> DEFINE m == [src |-> c, no |-> nsent[c] + 1]
             p == printed[c]
             q == Of(c, message_queue)
             r == InThread(c)
             u == up[c]
  <2>1. Open(c) /\ Open(c)'
    BY <1>1, <1>7 DEF Open
  <2>2. m \in Texts
    BY <1>7, TextOK DEF TypeInv
  <2>3. p \in Seq(Texts) /\ q \in Seq(Texts) /\ r \in Seq(Texts) /\ u \in Seq(Texts)
    BY PartsSeq
  <2>4. Arrived(c) = Line(p, q, r, u)
    BY ArrivedLine
  <2>5. Arrived(c)' = Line(p, q, r, Add(u, m))
    BY <1>2, <1>3, <1>7, Zenon DEF Arrived, Line, Add
  <2>6. Line(p, q, r, Add(u, m)) = Add(Line(p, q, r, u), m)
    <3> HIDE DEF m, p, q, r, u
    <3> QED
      BY <2>2, <2>3, Moves
  <2>7. Written(c)' = Append(Written(c), m)
    <3>1. nsent[c] \in Nat
      BY DEF TypeInv, ClientTypes
    <3>2. Written(c)' = [n \in 1 .. nsent[c] + 1 |-> [src |-> c, no |-> n]]
      BY <1>7 DEF Written
    <3>3. Written(c) = [n \in 1 .. nsent[c] |-> [src |-> c, no |-> n]]
      BY DEF Written
    <3> QED
      BY <3>1, <3>2, <3>3
  <2>8. Whole(c)
    BY <2>1 DEF Intact
  <2> HIDE DEF m, p, q, r, u
  <2>9. Arrived(c)' = Append(Arrived(c), m)
    BY <2>4, <2>5, <2>6 DEF Add
  <2> QED
    BY <2>1, <2>7, <2>8, <2>9 DEF Whole
<1>8. \/ up'[c] = up[c] /\ nsent'[c] = nsent[c]
      \/ /\ c \in sopen /\ nsent[c] < MaxTexts
         /\ up'[c] = Append(up[c], [src |-> c, no |-> nsent[c] + 1])
         /\ nsent'[c] = nsent[c] + 1
  BY DEF ClientWrite, TypeInv, TextTypes, ClientTypes
<1> QED
  BY <1>6, <1>7, <1>8

LEMMA IntactOK ==
  ASSUME TypeInv, TypeInv', Streams, Intact, [Next]_vars
  PROVE  Intact'
<1> SUFFICES ASSUME NEW c \in Clients
             PROVE  IF Open(c)' THEN Whole(c)' ELSE IsPrefix(printed[c], Written(c))'
  BY DEF Intact
<1>1. IF Open(c) THEN Whole(c) ELSE IsPrefix(printed[c], Written(c))
  BY DEF Intact
<1>2. CASE Drain
  BY <1>2, DrainIntact
<1>3. CASE JoinAndClose
  <2>1. /\ UNCHANGED <<rfd, buf, message_queue, printed, nsent, cpc>>
        /\ spc = "join" /\ spc' = "quit"
        /\ sopen' = sopen \ {conn_fds[slot]}
        /\ up' = [up EXCEPT ![conn_fds[slot]] = <<>>]
    BY <1>3 DEF JoinAndClose, thr, out, cli
  <2>2. CASE c = conn_fds[slot]
    <3>1. slot \in Slots /\ slot <= client_count
      BY <2>1 DEF TypeInv, ServerTypes, IInv, Types, Slots
    <3>2. cpc[c] # "connect"
      BY <2>2, <3>1, InUse DEF TypeInv, Connected
    <3>3. ~Open(c)'
      BY <2>1, <2>2, <3>2 DEF Open
    <3> QED
      BY <1>1, <2>1, <3>3, IntactKept
  <2>3. CASE c # conn_fds[slot]
    <3>1. up'[c] = up[c] /\ (Open(c)' => Open(c))
      BY <2>1, <2>3 DEF Open, TypeInv, TextTypes
    <3>2. InThread(c)' = InThread(c)
      BY <2>1, InThreadSame
    <3>3. Arrived(c)' = Arrived(c)
      BY <2>1, <3>1, <3>2, Zenon DEF Arrived
    <3> QED
      BY <1>1, <2>1, <3>1, <3>3, IntactKept
  <2> QED
    BY <2>2, <2>3
<1>4. CASE Exit
  <2>1. UNCHANGED <<printed, nsent>> /\ spc' = "done" /\ sopen' = {}
    BY <1>4 DEF Exit, cli
  <2>2. ~Open(c)'
    BY <2>1 DEF Open
  <2> QED
    BY <1>1, <2>1, <2>2, IntactKept
<1>5. ASSUME NEW s \in Slots, RecvRead(s) \/ RecvPush(s)
      PROVE  IF Open(c)' THEN Whole(c)' ELSE IsPrefix(printed[c], Written(c))'
  <2>1. Arrived(c)' = Arrived(c)
    BY <1>5, ReadMoves, PushMoves
  <2>2. UNCHANGED <<spc, sopen, cpc, nsent, printed>>
    BY <1>5 DEF RecvRead, RecvPush, srv, net, cli, out
  <2>3. Open(c)' = Open(c)
    BY <2>2 DEF Open
  <2> QED
    BY <1>1, <2>1, <2>2, <2>3, IntactKept
<1>6. ASSUME NEW d \in Clients, ClientWrite(d)
      PROVE  IF Open(c)' THEN Whole(c)' ELSE IsPrefix(printed[c], Written(c))'
  BY <1>6, WriteIntact
<1>7. CASE /\ UNCHANGED <<buf, message_queue, printed, up, nsent>>
           /\ InThread(c)' = InThread(c)
           /\ Open(c)' => Open(c)
  <2>1. Arrived(c)' = Arrived(c)
    BY <1>7, Zenon DEF Arrived
  <2> QED
    BY <1>1, <1>7, <2>1, IntactKept
<1>8. CASE UNCHANGED <<thr, out, up, cli, spc, sopen>>
  <2>1. InThread(c)' = InThread(c)
    BY <1>8, InThreadSame DEF thr
  <2>2. Open(c)' = Open(c)
    BY <1>8 DEF Open, cli
  <2> QED
    BY <1>7, <1>8, <2>1, <2>2 DEF thr, out, cli
<1>9. CASE Loop \/ Accept \/ AcceptFails \/ SendQuit \/ SigInt
  <2>1. UNCHANGED <<rfd, buf, out, up, cli, sopen>>
    BY <1>9 DEF Loop, Accept, AcceptFails, SendQuit, SigInt, thr, net
  <2>2. InThread(c)' = InThread(c)
    BY <2>1, InThreadSame
  <2>3. /\ spc' = "done" => spc = "done"
        /\ spc' \in {"loop", "accept", "drain", "refused"} =>
             spc \in {"loop", "accept", "drain", "refused"}
    BY <1>9 DEF Loop, Accept, AcceptFails, SendQuit, SigInt
  <2>4. spc' # "done" => spc # "done"
    BY <1>9 DEF Loop, Accept, AcceptFails, SendQuit, SigInt
  <2>5. Open(c)' => Open(c)
    BY <2>1, <2>3, <2>4 DEF Open, cli
  <2> QED
    BY <1>7, <2>1, <2>2, <2>5 DEF out, cli
<1>10. ASSUME NEW s \in Slots, RecvStart(s) \/ RecvTest(s)
       PROVE  IF Open(c)' THEN Whole(c)' ELSE IsPrefix(printed[c], Written(c))'
  <2>1. UNCHANGED <<buf, out, up, cli, spc, sopen>>
    BY <1>10 DEF RecvStart, RecvTest, srv, net
  <2>2. \A t \in Slots : rfd'[t] = rfd[t] \/ buf[t] = <<>>
    BY <1>10 DEF RecvStart, RecvTest, Streams, TypeInv, IInv, Types
  <2>3. InThread(c)' = InThread(c)
    BY <2>1, <2>2, InThreadSame
  <2>4. Open(c)' = Open(c)
    BY <2>1 DEF Open, cli
  <2> QED
    BY <1>7, <2>1, <2>3, <2>4 DEF out, cli
<1>11. ASSUME NEW d \in Clients,
              \/ Connect(d) \/ Launch(d) \/ SetRunning(d) \/ ClientLoop(d)
              \/ ClientRx(d) \/ Kill(d)
       PROVE  IF Open(c)' THEN Whole(c)' ELSE IsPrefix(printed[c], Written(c))'
  <2>1. UNCHANGED <<thr, out, up, nsent, spc>>
    BY <1>11 DEF Connect, Launch, SetRunning, ClientLoop, ClientRx, ClientRxTest,
       ClientRxRead, Kill, srv, net
  <2>2. InThread(c)' = InThread(c)
    BY <2>1, InThreadSame DEF thr
  <2>3. cpc'[c] = "connect" => cpc[c] = "connect"
    BY <1>11 DEF Connect, Launch, SetRunning, ClientLoop, ClientRx, ClientRxTest,
       ClientRxRead, Kill, TypeInv, IInv, Types, Ended
  <2>4. c \in sopen' => c \in sopen \/ (cpc[c] = "connect" /\ spc # "done")
    BY <1>11 DEF Connect, Launch, SetRunning, ClientLoop, ClientRx, ClientRxTest,
       ClientRxRead, Kill, net
  <2>5. Open(c)' => Open(c)
    BY <2>1, <2>3, <2>4 DEF Open
  <2> QED
    BY <1>7, <2>1, <2>2, <2>5 DEF thr, out
<1>12. CASE UNCHANGED vars
  BY <1>8, <1>12 DEF vars, srv, net
<1> QED
  BY <1>2, <1>3, <1>4, <1>5, <1>6, <1>9, <1>10, <1>11, <1>12
     DEF Next, ServerMain, Receive, ClientMain

(* What a client has written is printed once and in order, for any number of
   clients, threads and texts, and whatever is interrupted or killed. *)
THEOREM StreamsIntact == Spec => []StreamIntact
<1>1. Init => Streams /\ Intact
  BY InitStreams
<1>2. TypeInv /\ TypeInv' /\ Streams /\ Intact /\ [Next]_vars => Streams' /\ Intact'
  BY StreamsOK, IntactOK
<1>3. TypeInv /\ Intact => StreamIntact
  <2> SUFFICES ASSUME TypeInv, Intact, NEW c \in Clients
               PROVE  IF c \in sopen THEN Whole(c) ELSE IsPrefix(printed[c], Written(c))
    BY Zenon DEF StreamIntact, Whole, Arrived, Written, Cat
  <2>1. CASE Open(c)
    BY <2>1, WholePrefix DEF Intact, TypeInv
  <2>2. CASE ~Open(c)
    BY <2>2 DEF Intact, Open
  <2> QED
    BY <2>1, <2>2
<1> QED
  BY <1>1, <1>2, <1>3, TypeInvAlways, PTL DEF Spec
=============================================================================
