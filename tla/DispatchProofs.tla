--------------------------- MODULE DispatchProofs ---------------------------
(***************************************************************************)
(* Safety of Dispatch for every number of clients and every bound.  In     *)
(* this order: the types and what may be where (IInv), garbage (GarbageOK),*)
(* the order of messages (Orderly, Attached, Ordered), Quits (Free,        *)
(* Origin), and the step simulation of Mailbox (Written).                  *)
(***************************************************************************)
EXTENDS Dispatch, SequenceTheorems, SelectionProofs, TLAPS

USE DispatchAssumption

LEMMA SlotFacts ==
  /\ Server \in Procs /\ Clients \subseteq Procs /\ Server \notin Clients
  /\ ServerType \in 1 .. ServerType /\ Clients \subseteq 1 .. ServerType
  /\ ServerType \notin Clients
  /\ Procs = {Server} \union Clients
  /\ Junk \notin Message
  /\ Junk.src \notin Procs
BY DEF Server, Procs, Clients, ServerType, Junk, Message

LEMMA NextDestOK ==
  ASSUME NEW c \in Clients, dest \in [Clients -> 0 .. N]
  PROVE  NextDest(c) \in Clients /\ NextDest(c) # c
BY DEF NextDest, Succ, Clients

(* The kernel's queue: every call keeps the messages where they belong. *)
KernelOK == Kernel!QueueTypeOK /\ CarriedOK

LEMMA CarriedFacts ==
  /\ \A t \in 1 .. ServerType : Carried(t) \subseteq Slot
  /\ \A p \in Procs : RecvType(p) \in 1 .. ServerType
  /\ \A p \in Procs : Stored(p) \subseteq Slot
  /\ Carried(ServerType) = FromClients /\ FromClients \subseteq Slot
  /\ RecvType(Server) = ServerType
  /\ \A c \in Clients : /\ RecvType(c) = c
                        /\ Carried(c) = {m \in Message : m.dst = c}
BY SlotFacts DEF Carried, Stored, FromClients, Slot, RecvType

LEMMA MsgSndOK ==
  ASSUME KernelOK, NEW id, NEW t \in 1 .. ServerType, NEW m \in Carried(t),
         Kernel!MsgSnd(id, t, m)
  PROVE  KernelOK'
<1> USE DEF KernelOK, Kernel!MsgSnd
<1>1. m \in Slot
  BY CarriedFacts
<1>2. qid' \in Nat /\ qnum' \in Int
  BY DEF Kernel!QueueTypeOK
<1>3. exists' \in BOOLEAN
  BY DEF Kernel!QueueTypeOK
<1>4. mq' \in [1 .. ServerType -> Seq(Slot)]
  BY <1>1 DEF Kernel!QueueTypeOK
<1>5. CarriedOK'
  BY DEF Kernel!QueueTypeOK, CarriedOK
<1> QED
  BY <1>2, <1>3, <1>4, <1>5 DEF Kernel!QueueTypeOK

LEMMA MsgRcvOK ==
  ASSUME KernelOK, NEW id, NEW t \in 1 .. ServerType, Kernel!MsgRcv(id, t)
  PROVE  KernelOK' /\ Head(mq[t]) \in Carried(t)
<1> USE DEF KernelOK, Kernel!MsgRcv
<1>1. qid' \in Nat /\ qnum' \in Int
  BY DEF Kernel!QueueTypeOK
<1>2. exists' \in BOOLEAN
  BY DEF Kernel!QueueTypeOK
<1>3. mq' \in [1 .. ServerType -> Seq(Slot)]
  BY DEF Kernel!QueueTypeOK
<1>4. CarriedOK'
  BY DEF Kernel!QueueTypeOK, CarriedOK
<1>5. Head(mq[t]) \in Carried(t)
  BY DEF CarriedOK
<1> QED
  BY <1>1, <1>2, <1>3, <1>4, <1>5 DEF Kernel!QueueTypeOK

LEMMA NoMessagesOK ==
  /\ Kernel!NoMessages \in [1 .. ServerType -> Seq(Slot)]
  /\ \A t \in 1 .. ServerType : Kernel!NoMessages[t] \in Seq(Carried(t))
BY DEF Kernel!NoMessages

LEMMA SameQueueOK ==
  ASSUME KernelOK, UNCHANGED qvars
  PROVE  KernelOK'
BY Zenon DEF KernelOK, CarriedOK, Kernel!QueueTypeOK, qvars

LEMMA MsgFailOK ==
  ASSUME KernelOK, NEW id, Kernel!MsgFail(id)
  PROVE  KernelOK'
BY SameQueueOK DEF Kernel!MsgFail, Kernel!qvars, qvars

LEMMA EmptiedOK ==
  ASSUME qid' \in Nat, exists' \in BOOLEAN, mq' = Kernel!NoMessages, qnum' = 0
  PROVE  KernelOK'
BY NoMessagesOK DEF KernelOK, CarriedOK, Kernel!QueueTypeOK

LEMMA MsgGetOK ==
  ASSUME KernelOK, Kernel!MsgGet
  PROVE  KernelOK' /\ qid' \in Nat
<1>1. CASE UNCHANGED Kernel!qvars
  BY <1>1, SameQueueOK DEF Kernel!qvars, qvars, KernelOK, Kernel!QueueTypeOK
<1>2. CASE qid' = qid + 1 /\ exists' = TRUE /\ mq' = Kernel!NoMessages /\ qnum' = 0
  <2>1. qid' \in Nat
    BY <1>2 DEF KernelOK, Kernel!QueueTypeOK
  <2>2. exists' \in BOOLEAN
    BY <1>2
  <2> QED
    BY <1>2, <2>1, <2>2, EmptiedOK
<1> QED
  BY <1>1, <1>2 DEF Kernel!MsgGet

LEMMA MsgRmidOK ==
  ASSUME KernelOK, NEW id, Kernel!MsgRmid(id)
  PROVE  KernelOK'
<1>1. CASE exists' = FALSE /\ mq' = Kernel!NoMessages /\ qnum' = 0 /\ UNCHANGED qid
  <2>1. qid' \in Nat
    BY <1>1 DEF KernelOK, Kernel!QueueTypeOK
  <2>2. exists' \in BOOLEAN
    BY <1>1
  <2> QED
    BY <1>1, <2>1, <2>2, EmptiedOK
<1>2. CASE Kernel!MsgFail(id)
  BY <1>2, MsgFailOK
<1> QED
  BY <1>1, <1>2 DEF Kernel!MsgRmid

THEOREM InitIInv == Init => IInv
<1> SUFFICES ASSUME Init PROVE IInv
  OBVIOUS
<1> USE SlotFacts DEF Init
<1>1. TypeOK
  <2>1. Kernel!QueueTypeOK
    <3>1. Kernel!NoMessages \in [1 .. ServerType -> Seq(Slot)]
      BY DEF Kernel!NoMessages
    <3>2. qid \in Nat /\ qnum \in Int
      BY DEF Kernel!QueueInit
    <3>3. exists \in BOOLEAN
      BY DEF Kernel!QueueInit
    <3>4. mq \in [1 .. ServerType -> Seq(Slot)]
      BY <3>1 DEF Kernel!QueueInit
    <3> QED
      BY <3>2, <3>3, <3>4 DEF Kernel!QueueTypeOK
  <2>2. quitNo \in Clients /\ kills \in Nat /\ hand \in Slot
    BY DEF Clients, Slot
  <2>3. 0 \in 0 .. N /\ 0 \in 0 .. SeqMod - 1
    OBVIOUS
  <2>4. /\ dest \in [Clients -> 0 .. N]
        /\ sent \in [Clients -> [Clients -> 0 .. SeqMod - 1]]
        /\ shown \in [Clients -> [Clients -> 0 .. SeqMod - 1]]
    BY <2>3
  <2>5. /\ msgid \in [Procs -> Nat \union {-1}]
        /\ is_running \in [Procs -> BOOLEAN]
        /\ starts \in [Procs -> Nat]
    OBVIOUS
  <2>6. mpc \in [Procs -> MainPC] /\ rpc \in [Procs -> RecvPC]
    BY DEF MainPC, RecvPC
  <2>7. rmsg \in [Procs -> Slot] /\ queue \in [Procs -> Seq(Slot)]
    BY DEF Slot
  <2> QED
    BY <2>1, <2>2, <2>4, <2>5, <2>6, <2>7
       DEF TypeOK, ProcTypes, DataTypes, CountTypes
<1>2. CarriedOK
  BY DEF CarriedOK, Kernel!QueueInit, Kernel!NoMessages
<1>3. StoredOK
  BY DEF StoredOK
<1>4. ReceivedOK /\ HandOK /\ PopNonEmpty
  BY DEF ReceivedOK, HandOK, PopNonEmpty
<1> QED
  BY <1>1, <1>2, <1>3, <1>4 DEF IInv

(* Pushing what a queue may store keeps all queues in order. *)
LEMMA PushOK ==
  ASSUME StoredOK, DataTypes, NEW p \in Procs, NEW m \in Stored(p),
         queue' = [queue EXCEPT ![p] = Append(@, m)]
  PROVE  StoredOK'
<1>1. queue[p] \in Seq(Stored(p))
  BY DEF StoredOK
<1>2. Append(queue[p], m) \in Seq(Stored(p))
  BY <1>1, AppendProperties
<1> QED
  BY <1>2 DEF StoredOK, DataTypes

(* The end of a process, and a failed msgrcv, leave the data in order. *)
LEMMA GoneOK ==
  ASSUME DataTypes, NEW p \in Procs, Gone(p)
  PROVE  DataTypes'
<1> USE SlotFacts DEF DataTypes, Gone
<1>1. rmsg' \in [Procs -> Slot]
  BY DEF Slot
<1>2. queue' \in [Procs -> Seq(Slot)]
  OBVIOUS
<1>3. hand' \in Slot /\ quitNo' \in Clients
  BY DEF Slot, Clients
<1>4. dest' \in [Clients -> 0 .. N]
  <2>1. CASE p = Server
    BY <2>1
  <2>2. CASE p # Server
    BY <2>2
  <2> QED
    BY <2>1, <2>2
<1> QED
  BY <1>1, <1>2, <1>3, <1>4

LEMMA RecvFailedOK ==
  ASSUME DataTypes, ReceivedOK, ProcTypes, NEW p \in Procs, RecvFailed(p)
  PROVE  rmsg' \in [Procs -> Slot] /\ ReceivedOK'
<1> USE SlotFacts, CarriedFacts DEF DataTypes, ProcTypes, RecvFailed, ReceivedOK,
        GotoRecv
<1>1. CASE p = Server
  BY <1>1
<1>2. CASE p # Server
  <2>1. PICK m \in {rmsg[p], Junk} : rmsg' = [rmsg EXCEPT ![p] = m]
    BY <1>2
  <2>2. m \in Slot /\ m \in Carried(RecvType(p)) \union {Junk}
    BY <2>1 DEF Slot
  <2>3. rpc'[Server] = rpc[Server]
    BY <1>2
  <2> QED
    BY <1>2, <2>1, <2>2, <2>3
<1> QED
  BY <1>1, <1>2

LEMMA ModOK == \A n \in 0 .. SeqMod - 1 : (n + 1) % SeqMod \in 0 .. SeqMod - 1
OBVIOUS

LEMMA NumberOK ==
  ASSUME CountTypes, NEW s \in Clients, NEW d \in Clients
  PROVE  sent[s][d] \in 0 .. SeqMod - 1
BY DEF CountTypes

LEMMA NumberedOK ==
  ASSUME DataTypes, CountTypes, NEW c \in Clients, Numbered(c)
  PROVE  /\ dest' \in [Clients -> 0 .. N]
         /\ sent' \in [Clients -> [Clients -> 0 .. SeqMod - 1]]
<1> USE DEF Numbered
<1>1. NextDest(c) \in Clients /\ NextDest(c) \in 0 .. N
  BY NextDestOK DEF DataTypes, Clients
<1>2. dest' \in [Clients -> 0 .. N]
  BY <1>1 DEF DataTypes
<1>3. (sent[c][NextDest(c)] + 1) % SeqMod \in 0 .. SeqMod - 1
  BY <1>1, ModOK DEF CountTypes
<1>4. sent' \in [Clients -> [Clients -> 0 .. SeqMod - 1]]
  BY <1>1, <1>3 DEF CountTypes
<1> QED
  BY <1>2, <1>4

LEMMA StartStep ==
  ASSUME IInv, NEW p \in Procs, Start(p)
  PROVE  IInv'
<1> USE SlotFacts, CarriedFacts DEF IInv, TypeOK, KernelOK, Start, GotoMain, GotoRecv, vars, qvars, procs, data, ghost, env
<1>1. KernelOK'
  BY SameQueueOK, MsgGetOK
<1>2. ProcTypes'
  <2>1. msgid' \in [Procs -> Nat \union {-1}]
    BY MsgGetOK DEF ProcTypes
  <2>2. is_running' \in [Procs -> BOOLEAN]
    BY DEF ProcTypes
  <2>3. mpc' \in [Procs -> MainPC] /\ rpc' \in [Procs -> RecvPC]
    BY DEF ProcTypes, MainPC, RecvPC
  <2> QED
    BY <2>1, <2>2, <2>3 DEF ProcTypes
<1>3. DataTypes'
  BY DEF DataTypes
<1>4. CountTypes'
  BY DEF CountTypes
<1>5. StoredOK'
  BY DEF StoredOK, DataTypes
<1>6. ReceivedOK'
  BY DEF ReceivedOK, DataTypes, ProcTypes
<1>7. HandOK'
  BY DEF HandOK, ProcTypes
<1>8. PopNonEmpty'
  BY DEF PopNonEmpty, DataTypes, ProcTypes
<1> QED
  BY <1>1, <1>2, <1>3, <1>4, <1>5, <1>6, <1>7, <1>8

LEMMA ClientLaunchStep ==
  ASSUME IInv, NEW c \in Clients, ClientLaunch(c)
  PROVE  IInv'
<1> USE SlotFacts, CarriedFacts DEF IInv, TypeOK, KernelOK, ClientLaunch, GotoMain, GotoRecv, vars, qvars, procs, data, ghost, env
<1>1. KernelOK'
  BY SameQueueOK
<1>2. ProcTypes'
  <2>1. msgid' \in [Procs -> Nat \union {-1}]
    BY DEF ProcTypes
  <2>2. is_running' \in [Procs -> BOOLEAN]
    BY DEF ProcTypes
  <2>3. mpc' \in [Procs -> MainPC] /\ rpc' \in [Procs -> RecvPC]
    BY DEF ProcTypes, MainPC, RecvPC
  <2> QED
    BY <2>1, <2>2, <2>3 DEF ProcTypes
<1>3. DataTypes'
  BY DEF DataTypes
<1>4. CountTypes'
  BY DEF CountTypes
<1>5. StoredOK'
  BY DEF StoredOK, DataTypes
<1>6. ReceivedOK'
  BY DEF ReceivedOK, DataTypes, ProcTypes
<1>7. HandOK'
  BY DEF HandOK, ProcTypes
<1>8. PopNonEmpty'
  BY DEF PopNonEmpty, DataTypes, ProcTypes
<1> QED
  BY <1>1, <1>2, <1>3, <1>4, <1>5, <1>6, <1>7, <1>8

LEMMA ServerLaunchStep ==
  ASSUME IInv, ServerLaunch
  PROVE  IInv'
<1> USE SlotFacts, CarriedFacts DEF IInv, TypeOK, KernelOK, ServerLaunch, GotoMain, GotoRecv, vars, qvars, procs, data, ghost, env
<1>1. KernelOK'
  BY SameQueueOK
<1>2. ProcTypes'
  BY DEF ProcTypes, MainPC, RecvPC
<1>3. DataTypes'
  BY DEF DataTypes
<1>4. CountTypes'
  BY DEF CountTypes
<1>5. StoredOK'
  BY DEF StoredOK, DataTypes
<1>6. ReceivedOK'
  BY DEF ReceivedOK, DataTypes, ProcTypes
<1>7. HandOK'
  BY DEF HandOK, ProcTypes
<1>8. PopNonEmpty'
  BY DEF PopNonEmpty, DataTypes, ProcTypes
<1> QED
  BY <1>1, <1>2, <1>3, <1>4, <1>5, <1>6, <1>7, <1>8

LEMMA ClientLoopStep ==
  ASSUME IInv, NEW c \in Clients, ClientLoop(c)
  PROVE  IInv'
<1> USE SlotFacts, CarriedFacts DEF IInv, TypeOK, KernelOK, ClientLoop, GotoMain, vars, qvars, procs, data, ghost, env
<1>1. KernelOK'
  BY SameQueueOK
<1>2. ProcTypes'
  BY DEF ProcTypes, MainPC, RecvPC
<1>3. DataTypes'
  BY DEF DataTypes
<1>4. CountTypes'
  BY DEF CountTypes
<1>5. StoredOK'
  BY DEF StoredOK, DataTypes
<1>6. ReceivedOK'
  BY DEF ReceivedOK, DataTypes, ProcTypes
<1>7. HandOK'
  BY DEF HandOK, ProcTypes
<1>8. PopNonEmpty'
  BY DEF PopNonEmpty, DataTypes, ProcTypes
<1> QED
  BY <1>1, <1>2, <1>3, <1>4, <1>5, <1>6, <1>7, <1>8

LEMMA ClientDrainStep ==
  ASSUME IInv, NEW c \in Clients, ClientDrain(c)
  PROVE  IInv'
<1> USE SlotFacts, CarriedFacts DEF IInv, TypeOK, KernelOK, ClientDrain, GotoMain, vars, qvars, procs, data, ghost, env
<1>1. KernelOK'
  BY SameQueueOK
<1>2. ProcTypes'
  BY DEF ProcTypes, MainPC, RecvPC
<1>3. DataTypes'
  BY DEF DataTypes
<1>4. CountTypes'
  BY DEF CountTypes
<1>5. StoredOK'
  BY DEF StoredOK, DataTypes
<1>6. ReceivedOK'
  BY DEF ReceivedOK, DataTypes, ProcTypes
<1>7. HandOK'
  BY DEF HandOK, ProcTypes
<1>8. PopNonEmpty'
  BY DEF PopNonEmpty, DataTypes, ProcTypes
<1> QED
  BY <1>1, <1>2, <1>3, <1>4, <1>5, <1>6, <1>7, <1>8

LEMMA ClientPopStep ==
  ASSUME IInv, NEW c \in Clients, ClientPop(c)
  PROVE  IInv'
<1> USE SlotFacts, CarriedFacts DEF IInv, TypeOK, KernelOK, ClientPop, GotoMain, vars, qvars, procs, data, ghost, env
<1>1. KernelOK'
  BY SameQueueOK
<1>2. ProcTypes'
  BY DEF ProcTypes, MainPC, RecvPC
<1>3. DataTypes'
  <2>1. queue' \in [Procs -> Seq(Slot)]
    BY DEF DataTypes
  <2> QED
    BY <2>1 DEF DataTypes
<1>4. CountTypes'
  <2> DEFINE m == Head(queue[c])
  <2>1. m \in Stored(c)
    BY DEF StoredOK
  <2>2. CASE m.src \in Clients
    <3>1. m.seq \in 0 .. SeqMod - 1
      BY <2>1, <2>2 DEF Stored, FromClients, Message
    <3>2. (m.seq + 1) % SeqMod \in 0 .. SeqMod - 1
      BY <3>1, ModOK
    <3>3. shown' \in [Clients -> [Clients -> 0 .. SeqMod - 1]]
      BY <2>2, <3>2 DEF CountTypes
    <3> QED
      BY <3>3 DEF CountTypes
  <2>3. CASE m.src \notin Clients
    BY <2>3 DEF CountTypes
  <2> QED
    BY <2>2, <2>3
<1>5. StoredOK'
  BY DEF StoredOK, DataTypes
<1>6. ReceivedOK'
  BY DEF ReceivedOK, DataTypes, ProcTypes
<1>7. HandOK'
  BY DEF HandOK, ProcTypes
<1>8. PopNonEmpty'
  BY DEF PopNonEmpty, DataTypes, ProcTypes
<1> QED
  BY <1>1, <1>2, <1>3, <1>4, <1>5, <1>6, <1>7, <1>8

LEMMA ClientSendStep ==
  ASSUME IInv, NEW c \in Clients, ClientSend(c)
  PROVE  IInv'
<1> USE SlotFacts, CarriedFacts DEF IInv, TypeOK, KernelOK, ClientSend, Numbered, GotoMain, vars, qvars, procs, data, ghost, env
<1>1. KernelOK'
  <2> DEFINE m == [src |-> c, dst |-> NextDest(c), seq |-> sent[c][NextDest(c)]]
  <2>1. NextDest(c) \in Clients
    BY NextDestOK DEF DataTypes
  <2>2. sent[c][NextDest(c)] \in 0 .. SeqMod - 1
    BY <2>1, NumberOK
  <2>3. m \in Carried(ServerType)
    BY <2>1, <2>2 DEF FromClients, Message
  <2>4. CASE Kernel!MsgSnd(msgid[c], ServerType, m)
    BY <2>3, <2>4, MsgSndOK
  <2>5. CASE Kernel!MsgFail(msgid[c])
    BY <2>5, MsgFailOK
  <2>6. CASE UNCHANGED qvars
    BY <2>6, SameQueueOK
  <2> QED
    BY <2>4, <2>5, <2>6
<1>2. ProcTypes'
  BY DEF ProcTypes, MainPC, RecvPC
<1>3. DataTypes'
  BY NumberedOK DEF DataTypes
<1>4. CountTypes'
  BY NumberedOK DEF CountTypes
<1>5. StoredOK'
  BY DEF StoredOK, DataTypes
<1>6. ReceivedOK'
  BY DEF ReceivedOK, DataTypes, ProcTypes
<1>7. HandOK'
  BY DEF HandOK, ProcTypes
<1>8. PopNonEmpty'
  BY DEF PopNonEmpty, DataTypes, ProcTypes
<1> QED
  BY <1>1, <1>2, <1>3, <1>4, <1>5, <1>6, <1>7, <1>8

LEMMA JoinAndRemoveStep ==
  ASSUME IInv, NEW p \in Procs, JoinAndRemove(p)
  PROVE  IInv'
<1> USE SlotFacts, CarriedFacts DEF IInv, TypeOK, KernelOK, JoinAndRemove, Gone, GotoMain, vars, qvars, procs, data, ghost, env
<1>1. KernelOK'
  BY MsgRmidOK
<1>2. ProcTypes'
  BY DEF ProcTypes, MainPC, RecvPC
<1>3. DataTypes'
  BY GoneOK
<1>4. CountTypes'
  BY DEF CountTypes
<1>5. StoredOK'
  BY DEF StoredOK, DataTypes
<1>6. ReceivedOK'
  BY DEF ReceivedOK, DataTypes, ProcTypes
<1>7. HandOK'
  BY DEF HandOK, ProcTypes
<1>8. PopNonEmpty'
  BY DEF PopNonEmpty, DataTypes, ProcTypes
<1> QED
  BY <1>1, <1>2, <1>3, <1>4, <1>5, <1>6, <1>7, <1>8

LEMMA RecvTestStep ==
  ASSUME IInv, NEW p \in Procs, RecvTest(p)
  PROVE  IInv'
<1> USE SlotFacts, CarriedFacts DEF IInv, TypeOK, KernelOK, RecvTest, GotoRecv, vars, qvars, procs, data, ghost, env
<1>1. KernelOK'
  BY SameQueueOK
<1>2. ProcTypes'
  BY DEF ProcTypes, MainPC, RecvPC
<1>3. DataTypes'
  BY DEF DataTypes
<1>4. CountTypes'
  BY DEF CountTypes
<1>5. StoredOK'
  BY DEF StoredOK, DataTypes
<1>6. ReceivedOK'
  BY DEF ReceivedOK, DataTypes, ProcTypes
<1>7. HandOK'
  BY DEF HandOK, ProcTypes
<1>8. PopNonEmpty'
  BY DEF PopNonEmpty, DataTypes, ProcTypes
<1> QED
  BY <1>1, <1>2, <1>3, <1>4, <1>5, <1>6, <1>7, <1>8

LEMMA RecvStep ==
  ASSUME IInv, NEW p \in Procs, Recv(p)
  PROVE  IInv'
<1> USE SlotFacts, CarriedFacts DEF IInv, TypeOK, KernelOK, Recv, RecvFailed, GotoRecv, vars, qvars, procs, data, ghost, env
<1>1. KernelOK'
  BY MsgRcvOK, MsgFailOK
<1>2. ProcTypes'
  BY DEF ProcTypes, MainPC, RecvPC
<1>3. DataTypes'
  <2>1. CASE Kernel!MsgRcv(msgid[p], RecvType(p)) /\ rmsg' = [rmsg EXCEPT ![p] = Head(mq[RecvType(p)])]
    <3>1. Head(mq[RecvType(p)]) \in Slot
      BY <2>1, MsgRcvOK
    <3>2. rmsg' \in [Procs -> Slot]
      BY <2>1, <3>1 DEF DataTypes
    <3> QED
      BY <3>2 DEF DataTypes
  <2>2. CASE RecvFailed(p)
    BY <2>2, RecvFailedOK DEF DataTypes
  <2> QED
    BY <2>1, <2>2
<1>4. CountTypes'
  BY DEF CountTypes
<1>5. StoredOK'
  BY DEF StoredOK, DataTypes
<1>6. ReceivedOK'
  <2>1. CASE Kernel!MsgRcv(msgid[p], RecvType(p)) /\ rmsg' = [rmsg EXCEPT ![p] = Head(mq[RecvType(p)])]
    <3>1. Head(mq[RecvType(p)]) \in Carried(RecvType(p))
      BY <2>1, MsgRcvOK
    <3>2. p # Server => rpc'[Server] = rpc[Server]
      BY <2>1 DEF ProcTypes
    <3> QED
      BY <2>1, <3>1, <3>2 DEF ReceivedOK, DataTypes
  <2>2. CASE RecvFailed(p)
    BY <2>2, RecvFailedOK
  <2> QED
    BY <2>1, <2>2
<1>7. HandOK'
  BY DEF HandOK, ProcTypes
<1>8. PopNonEmpty'
  BY DEF PopNonEmpty, DataTypes, ProcTypes
<1> QED
  BY <1>1, <1>2, <1>3, <1>4, <1>5, <1>6, <1>7, <1>8

LEMMA RecvGotStep ==
  ASSUME IInv, NEW p \in Procs, RecvGot(p)
  PROVE  IInv'
<1> USE SlotFacts, CarriedFacts DEF IInv, TypeOK, KernelOK, RecvGot, Push, GotoRecv, vars, qvars, procs, data, ghost, env
<1>1. KernelOK'
  BY SameQueueOK
<1>2. ProcTypes'
  BY DEF ProcTypes, MainPC, RecvPC
<1>3. DataTypes'
  <2>1. rmsg[p] \in Slot /\ queue[p] \in Seq(Slot)
    BY DEF DataTypes
  <2>2. queue' \in [Procs -> Seq(Slot)]
    <3>1. CASE UNCHANGED queue
      BY <3>1 DEF DataTypes
    <3>2. CASE queue' = [queue EXCEPT ![p] = Append(@, rmsg[p])]
      BY <2>1, <3>2 DEF DataTypes
    <3> QED
      BY <3>1, <3>2
  <2>3. rmsg' \in [Procs -> Slot]
    BY DEF DataTypes, Slot
  <2> QED
    BY <2>2, <2>3 DEF DataTypes
<1>4. CountTypes'
  BY DEF CountTypes
<1>5. StoredOK'
  <2>1. CASE ~(p \in Clients /\ IsQuit(rmsg[p]))
    <3>1. CASE p = Server
      <4>1. rmsg[p] \in FromClients
        BY <3>1 DEF ReceivedOK
      <4> QED
        BY <2>1, <3>1, <4>1, PushOK DEF Stored
    <3>2. CASE p \in Clients
      <4>1. rmsg[p] \in {Junk} \union {m \in Message : m.dst = p}
        BY <3>2 DEF ReceivedOK
      <4>2. rmsg[p] # Junk => rmsg[p].src \in Clients
        BY <2>1, <3>2, <4>1 DEF IsQuit, Message
      <4>3. rmsg[p] \in Stored(p)
        BY <3>2, <4>1, <4>2 DEF Stored, FromClients
      <4> QED
        BY <2>1, <4>3, PushOK
    <3> QED
      BY <3>1, <3>2
  <2>2. CASE p \in Clients /\ IsQuit(rmsg[p])
    BY <2>2 DEF StoredOK
  <2> QED
    BY <2>1, <2>2
<1>6. ReceivedOK'
  BY DEF ReceivedOK, DataTypes, ProcTypes
<1>7. HandOK'
  BY DEF HandOK, ProcTypes
<1>8. PopNonEmpty'
  BY DEF PopNonEmpty, DataTypes, ProcTypes
<1> QED
  BY <1>1, <1>2, <1>3, <1>4, <1>5, <1>6, <1>7, <1>8

LEMMA ServerLoopStep ==
  ASSUME IInv, ServerLoop
  PROVE  IInv'
<1> USE SlotFacts, CarriedFacts DEF IInv, TypeOK, KernelOK, ServerLoop, GotoMain, vars, qvars, procs, data, ghost, env
<1>1. KernelOK'
  BY SameQueueOK
<1>2. ProcTypes'
  BY DEF ProcTypes, MainPC, RecvPC
<1>3. DataTypes'
  BY DEF DataTypes
<1>4. CountTypes'
  BY DEF CountTypes
<1>5. StoredOK'
  BY DEF StoredOK, DataTypes
<1>6. ReceivedOK'
  BY DEF ReceivedOK, DataTypes, ProcTypes
<1>7. HandOK'
  BY DEF HandOK, ProcTypes
<1>8. PopNonEmpty'
  BY DEF PopNonEmpty, DataTypes, ProcTypes
<1> QED
  BY <1>1, <1>2, <1>3, <1>4, <1>5, <1>6, <1>7, <1>8

LEMMA ServerTakeStep ==
  ASSUME IInv, ServerTake
  PROVE  IInv'
<1> USE SlotFacts, CarriedFacts DEF IInv, TypeOK, KernelOK, ServerTake, GotoMain, vars, qvars, procs, data, ghost, env
<1>1. KernelOK'
  BY SameQueueOK
<1>2. ProcTypes'
  BY DEF ProcTypes, MainPC, RecvPC
<1>3. DataTypes'
  <2>1. CASE queue[Server] = <<>>
    BY <2>1 DEF DataTypes
  <2>2. CASE queue[Server] # <<>>
    <3>1. queue[Server] \in Seq(Slot)
      BY DEF DataTypes
    <3>2. Head(queue[Server]) \in Slot /\ Tail(queue[Server]) \in Seq(Slot)
      BY <2>2, <3>1, HeadTailProperties
    <3>3. hand' \in Slot
      BY <2>2, <3>2 DEF DataTypes
    <3>4. queue' \in [Procs -> Seq(Slot)]
      BY <2>2, <3>2 DEF DataTypes
    <3> QED
      BY <3>3, <3>4 DEF DataTypes
  <2> QED
    BY <2>1, <2>2
<1>4. CountTypes'
  BY DEF CountTypes
<1>5. StoredOK'
  <2>1. CASE queue[Server] = <<>>
    BY <2>1 DEF StoredOK
  <2>2. CASE queue[Server] # <<>>
    <3>1. queue[Server] \in Seq(Stored(Server))
      BY DEF StoredOK
    <3>2. Tail(queue[Server]) \in Seq(Stored(Server))
      BY <2>2, <3>1, HeadTailProperties
    <3> QED
      BY <2>2, <3>2 DEF StoredOK, DataTypes
  <2> QED
    BY <2>1, <2>2
<1>6. ReceivedOK'
  BY DEF ReceivedOK, DataTypes, ProcTypes
<1>7. HandOK'
  <2>1. CASE queue[Server] = <<>>
    BY <2>1 DEF HandOK, ProcTypes
  <2>2. CASE queue[Server] # <<>>
    <3>1. queue[Server] \in Seq(FromClients)
      BY DEF StoredOK, Stored
    <3>2. Head(queue[Server]) \in FromClients
      BY <2>2, <3>1, HeadTailProperties
    <3> QED
      BY <2>2, <3>2 DEF HandOK
  <2> QED
    BY <2>1, <2>2
<1>8. PopNonEmpty'
  BY DEF PopNonEmpty, DataTypes, ProcTypes
<1> QED
  BY <1>1, <1>2, <1>3, <1>4, <1>5, <1>6, <1>7, <1>8

LEMMA ServerForwardStep ==
  ASSUME IInv, ServerForward
  PROVE  IInv'
<1> USE SlotFacts, CarriedFacts DEF IInv, TypeOK, KernelOK, ServerForward, GotoMain, vars, qvars, procs, data, ghost, env
<1>1. KernelOK'
  <2>1. hand \in FromClients
    BY DEF HandOK
  <2>2. hand.dst \in Clients /\ hand \in Carried(hand.dst)
    BY <2>1 DEF FromClients, Message
  <2>3. CASE Kernel!MsgSnd(msgid[Server], hand.dst, hand)
    BY <2>2, <2>3, MsgSndOK
  <2>4. CASE Kernel!MsgFail(msgid[Server])
    BY <2>4, MsgFailOK
  <2> QED
    BY <2>3, <2>4
<1>2. ProcTypes'
  BY DEF ProcTypes, MainPC, RecvPC
<1>3. DataTypes'
  BY DEF DataTypes, Slot
<1>4. CountTypes'
  BY DEF CountTypes
<1>5. StoredOK'
  BY DEF StoredOK, DataTypes
<1>6. ReceivedOK'
  BY DEF ReceivedOK, DataTypes, ProcTypes
<1>7. HandOK'
  BY DEF HandOK, ProcTypes
<1>8. PopNonEmpty'
  BY DEF PopNonEmpty, DataTypes, ProcTypes
<1> QED
  BY <1>1, <1>2, <1>3, <1>4, <1>5, <1>6, <1>7, <1>8

LEMMA ServerQuitStep ==
  ASSUME IInv, ServerQuit
  PROVE  IInv'
<1> USE SlotFacts, CarriedFacts DEF IInv, TypeOK, KernelOK, ServerQuit, QuitNext, GotoMain, vars, qvars, procs, data, ghost, env
<1>1. KernelOK'
  <2>1. quitNo \in Clients
    BY DEF DataTypes
  <2>2. Quit(quitNo) \in Carried(quitNo)
    BY <2>1 DEF Quit, Message
  <2>3. CASE Kernel!MsgSnd(msgid[Server], quitNo, Quit(quitNo))
    BY <2>1, <2>2, <2>3, MsgSndOK
  <2>4. CASE Kernel!MsgFail(msgid[Server])
    BY <2>4, MsgFailOK
  <2> QED
    BY <2>3, <2>4
<1>2. ProcTypes'
  BY DEF ProcTypes, MainPC, RecvPC
<1>3. DataTypes'
  <2>1. quitNo' \in Clients
    BY DEF DataTypes, Clients
  <2> QED
    BY <2>1 DEF DataTypes
<1>4. CountTypes'
  BY DEF CountTypes
<1>5. StoredOK'
  BY DEF StoredOK, DataTypes
<1>6. ReceivedOK'
  BY DEF ReceivedOK, DataTypes, ProcTypes
<1>7. HandOK'
  BY DEF HandOK, ProcTypes
<1>8. PopNonEmpty'
  BY DEF PopNonEmpty, DataTypes, ProcTypes
<1> QED
  BY <1>1, <1>2, <1>3, <1>4, <1>5, <1>6, <1>7, <1>8

LEMMA SigIntStep ==
  ASSUME IInv, NEW p \in Procs, SigInt(p)
  PROVE  IInv'
<1> USE SlotFacts, CarriedFacts DEF IInv, TypeOK, KernelOK, SigInt, RecvInterrupted, RecvFailed, SendInterrupted, Numbered, QuitNext, GotoMain, GotoRecv, vars, qvars, procs, data, ghost, env
<1>1. KernelOK'
  BY SameQueueOK
<1>2. ProcTypes'
  BY DEF ProcTypes, MainPC, RecvPC
<1>3. DataTypes'
  <2>1. CASE UNCHANGED <<rmsg, hand, quitNo, dest>>
    BY <2>1 DEF DataTypes
  <2>2. CASE RecvInterrupted(p)
    BY <2>2, RecvFailedOK DEF DataTypes
  <2>3. CASE SendInterrupted(p)
    <3>1. CASE p \in Clients /\ Numbered(p) /\ UNCHANGED <<hand, quitNo, rmsg>>
      BY <3>1, NumberedOK DEF DataTypes
    <3>2. CASE hand' = Junk /\ UNCHANGED <<quitNo, dest, rmsg>>
      BY <3>2 DEF DataTypes, Slot
    <3>3. CASE QuitNext /\ UNCHANGED <<hand, dest, rmsg>>
      <4>1. quitNo' \in Clients
        BY <3>3 DEF DataTypes, Clients
      <4> QED
        BY <3>3, <4>1 DEF DataTypes
    <3> QED
      BY <2>3, <3>1, <3>2, <3>3
  <2> QED
    BY <2>1, <2>2, <2>3
<1>4. CountTypes'
  <2>1. CASE UNCHANGED sent
    BY <2>1 DEF CountTypes
  <2>2. CASE p \in Clients /\ Numbered(p)
    BY <2>2, NumberedOK DEF CountTypes
  <2> QED
    BY <2>1, <2>2
<1>5. StoredOK'
  BY DEF StoredOK, DataTypes
<1>6. ReceivedOK'
  <2>1. CASE RecvInterrupted(p)
    BY <2>1, RecvFailedOK
  <2>2. CASE UNCHANGED <<rmsg, rpc>>
    BY <2>2 DEF ReceivedOK
  <2> QED
    BY <2>1, <2>2
<1>7. HandOK'
  BY DEF HandOK, ProcTypes
<1>8. PopNonEmpty'
  BY DEF PopNonEmpty, DataTypes, ProcTypes
<1> QED
  BY <1>1, <1>2, <1>3, <1>4, <1>5, <1>6, <1>7, <1>8

LEMMA KillStep ==
  ASSUME IInv, NEW p \in Procs, Kill(p)
  PROVE  IInv'
<1> USE SlotFacts, CarriedFacts DEF IInv, TypeOK, KernelOK, Kill, Gone, GotoMain, GotoRecv, vars, qvars, procs, data, ghost, env
<1>1. KernelOK'
  BY SameQueueOK
<1>2. ProcTypes'
  BY DEF ProcTypes, MainPC, RecvPC
<1>3. DataTypes'
  BY GoneOK
<1>4. CountTypes'
  BY DEF CountTypes
<1>5. StoredOK'
  BY DEF StoredOK, DataTypes
<1>6. ReceivedOK'
  BY DEF ReceivedOK, DataTypes, ProcTypes
<1>7. HandOK'
  BY DEF HandOK, ProcTypes
<1>8. PopNonEmpty'
  BY DEF PopNonEmpty, DataTypes, ProcTypes
<1> QED
  BY <1>1, <1>2, <1>3, <1>4, <1>5, <1>6, <1>7, <1>8

THEOREM NextIInv == IInv /\ [Next]_vars => IInv'
<1> SUFFICES ASSUME IInv, [Next]_vars PROVE IInv'
  OBVIOUS
<1>1. CASE UNCHANGED vars
  BY <1>1, Zenon
     DEF IInv, TypeOK, Kernel!QueueTypeOK, ProcTypes, DataTypes, CountTypes,
         CarriedOK, StoredOK, ReceivedOK, HandOK, PopNonEmpty,
         vars, qvars, procs, data, ghost, env
<1>2. ASSUME NEW p \in Procs, Start(p) \/ SigInt(p) \/ Kill(p) PROVE IInv'
  BY <1>2, StartStep, SigIntStep, KillStep
<1>3. ASSUME NEW p \in Procs, RecvThread(p) PROVE IInv'
  BY <1>3, RecvTestStep, RecvStep, RecvGotStep DEF RecvThread
<1>4. ASSUME NEW c \in Clients, ClientMain(c) PROVE IInv'
  <2>1. c \in Procs
    BY SlotFacts
  <2> QED
    BY <1>4, <2>1, ClientLaunchStep, ClientLoopStep, ClientDrainStep, ClientPopStep,
       ClientSendStep, JoinAndRemoveStep DEF ClientMain
<1>5. CASE ServerMain
  <2>1. Server \in Procs
    BY SlotFacts
  <2> QED
    BY <1>5, <2>1, ServerLaunchStep, ServerLoopStep, ServerTakeStep,
       ServerForwardStep, ServerQuitStep, JoinAndRemoveStep DEF ServerMain
<1> QED
  BY <1>1, <1>2, <1>3, <1>4, <1>5 DEF Next

(* Whatever processes are started, stopped, killed and started again, in the
   kernel's queue, in memory and in the threads' variables every message is in a
   place it may be in. *)
THEOREM IInvAlways == Spec => []IInv
<1>1. Init => IInv
  BY InitIInv
<1>2. IInv /\ [Next]_vars => IInv'
  BY NextIInv
<1> QED
  BY <1>1, <1>2, PTL DEF Spec

(* All variables keep their types. *)
THEOREM TypeCorrect == Spec => []TypeOK
<1>1. IInv => TypeOK
  BY DEF IInv
<1> QED
  BY <1>1, IInvAlways, PTL

(* No client ever calls front() on an empty queue, although it reads the size
   without the lock. *)
THEOREM NeverPopsEmpty == Spec => []PopNonEmpty
<1>1. IInv => PopNonEmpty
  BY DEF IInv
<1> QED
  BY <1>1, IInvAlways, PTL

LEMMA SeqElemsOf ==
  ASSUME NEW S, NEW s \in Seq(S)
  PROVE  SeqElems(s) \subseteq S
BY LenProperties DEF SeqElems

(* Garbage.  What a step does to one client's part of GarbageOK. *)
Clean(c) == queue[c] \in Seq(FromClients) /\ (rpc[c] = "got" => rmsg[c] # Junk)
Idle(c) == mpc[c] \in {"off", "init", "done"} =>
             queue[c] = <<>> /\ rpc[c] \in {"off", "done"}

Part(c) == msgid[c] <= qid /\ Idle(c) /\ (Working(c) => Clean(c))

LEMMA GarbageByClient == GarbageOK <=> \A c \in Clients : Part(c)
BY DEF GarbageOK, Part, Idle, Clean

(* No call makes an identifier good again, or one that was not. *)
LEMMA GoodOnlyLost ==
  ASSUME TypeOK, NEW c \in Clients, msgid[c] <= qid, msgid'[c] = msgid[c],
         \/ UNCHANGED qvars
         \/ Kernel!MsgGet
         \/ \E id : Kernel!MsgRmid(id) \/ Kernel!MsgFail(id)
         \/ \E id, t : Kernel!MsgRcv(id, t) \/ \E m : Kernel!MsgSnd(id, t, m)
  PROVE  /\ msgid'[c] <= qid'
         /\ Kernel!Good(msgid[c])' => Kernel!Good(msgid[c])
<1>1. qid \in Nat /\ msgid[c] \in Int
  BY SlotFacts DEF TypeOK, ProcTypes, Kernel!QueueTypeOK
<1>2. CASE Kernel!MsgGet
  BY <1>1, <1>2 DEF Kernel!MsgGet, Kernel!Good, Kernel!qvars
<1>3. CASE qid' = qid /\ (exists' => exists)
  BY <1>1, <1>3 DEF Kernel!Good
<1> QED
  BY <1>2, <1>3 DEF qvars, Kernel!qvars, Kernel!MsgRmid, Kernel!MsgFail, Kernel!MsgRcv,
     Kernel!MsgSnd

(* Every step makes at most one kernel call. *)
LEMMA OneCall ==
  ASSUME Next
  PROVE  \/ UNCHANGED qvars
         \/ Kernel!MsgGet
         \/ \E id : Kernel!MsgRmid(id) \/ Kernel!MsgFail(id)
         \/ \E id, t : Kernel!MsgRcv(id, t) \/ \E m : Kernel!MsgSnd(id, t, m)
<1>1. ASSUME NEW p \in Procs, Start(p) \/ SigInt(p) \/ Kill(p)
      PROVE  UNCHANGED qvars \/ Kernel!MsgGet
  BY <1>1 DEF Start, SigInt, Kill
<1>2. ASSUME NEW p \in Procs, RecvThread(p)
      PROVE  \/ UNCHANGED qvars
             \/ Kernel!MsgFail(msgid[p])
             \/ Kernel!MsgRcv(msgid[p], RecvType(p))
  BY <1>2 DEF RecvThread, RecvTest, Recv, RecvGot
<1>3. ASSUME NEW c \in Clients, ClientMain(c)
      PROVE  \/ UNCHANGED qvars
             \/ \E id : Kernel!MsgRmid(id) \/ Kernel!MsgFail(id)
             \/ \E id, t : \E m : Kernel!MsgSnd(id, t, m)
  <2>1. CASE ClientSend(c)
    BY <2>1, Zenon DEF ClientSend, qvars
  <2>2. CASE JoinAndRemove(c)
    BY <2>2, Zenon DEF JoinAndRemove
  <2> QED
    BY <1>3, <2>1, <2>2, Zenon DEF ClientMain, ClientLaunch, ClientLoop, ClientDrain, ClientPop
<1>4. CASE ServerMain
  <2>1. CASE ServerForward
    BY <2>1, Zenon DEF ServerForward
  <2>2. CASE ServerQuit
    BY <2>2, Zenon DEF ServerQuit
  <2>3. CASE JoinAndRemove(Server)
    BY <2>3, Zenon DEF JoinAndRemove
  <2> QED
    BY <1>4, <2>1, <2>2, <2>3, Zenon DEF ServerMain, ServerLaunch, ServerLoop, ServerTake
<1> QED
  BY <1>1, <1>2, <1>3, <1>4, Zenon DEF Next

(* A step in which the client does not work afterwards, or that leaves alone what
   it holds. *)
LEMMA UntouchedClean ==
  ASSUME TypeOK, GarbageOK, Next, NEW c \in Clients, msgid'[c] = msgid[c]
  PROVE  /\ msgid'[c] <= qid'
         /\ (is_running'[c] => is_running[c]) /\ (Clean(c) => Clean(c)')
              => (Working(c)' => Clean(c)')
<1>1. /\ msgid'[c] <= qid'
      /\ Kernel!Good(msgid[c])' => Kernel!Good(msgid[c])
  BY OneCall, GoodOnlyLost, Zenon DEF GarbageOK
<1> QED
  BY <1>1, GarbageByClient DEF Part, Working

LEMMA OthersStep ==
  ASSUME TypeOK, GarbageOK, Next, NEW c \in Clients,
         msgid'[c] = msgid[c], is_running'[c] = is_running[c],
         mpc'[c] = mpc[c], rpc'[c] = rpc[c], rmsg'[c] = rmsg[c], queue'[c] = queue[c]
  PROVE  Part(c)'
<1>1. Part(c)
  BY GarbageByClient
<1>2. Idle(c)' /\ (Clean(c) => Clean(c)')
  BY <1>1 DEF Part, Idle, Clean
<1> QED
  BY <1>2, UntouchedClean DEF Part

(* A client that starts has an empty queue and no receive thread. *)
LEMMA StartClean ==
  ASSUME TypeOK, GarbageOK, NEW c \in Clients, Start(c)
  PROVE  Part(c)'
<1> USE SlotFacts DEF TypeOK, ProcTypes, Start, GotoMain, GotoRecv, data
<1>1. queue'[c] = <<>> /\ rpc'[c] = "off"
  BY GarbageByClient DEF Part, Idle, Live
<1>2. msgid'[c] <= qid'
  BY DEF Kernel!MsgGet, Kernel!qvars, qvars, Kernel!QueueTypeOK
<1> QED
  BY <1>1, <1>2 DEF Part, Idle, Clean

LEMMA KillClean ==
  ASSUME TypeOK, GarbageOK, NEW c \in Clients, Kill(c)
  PROVE  Part(c)'
<1> USE SlotFacts DEF TypeOK, ProcTypes, DataTypes, Kill, Gone, GotoMain, GotoRecv, qvars
<1>1. queue'[c] = <<>> /\ rpc'[c] = "off"
  OBVIOUS
<1>2. msgid'[c] <= qid'
  BY GarbageByClient DEF Part
<1> QED
  BY <1>1, <1>2 DEF Part, Idle, Clean

(* After a ctrl-C the client does not work, whatever the receive thread's variable
   holds. *)
LEMMA SigIntClean ==
  ASSUME TypeOK, GarbageOK, NEW c \in Clients, SigInt(c)
  PROVE  Part(c)'
<1> USE SlotFacts DEF TypeOK, ProcTypes, DataTypes, SigInt, Live
<1>1. ~Working(c)'
  BY DEF Working
<1>2. msgid'[c] <= qid'
  BY GarbageByClient DEF Part, qvars
<1>3. Idle(c)'
  <2>1. Idle(c) /\ queue' = queue
    BY GarbageByClient DEF Part
  <2>2. CASE UNCHANGED <<mpc, rpc>>
    BY <2>1, <2>2 DEF Idle
  <2>3. CASE RecvInterrupted(c)
    BY <2>1, <2>3 DEF Idle, RecvInterrupted
  <2>4. CASE SendInterrupted(c)
    BY <2>1, <2>4 DEF Idle, SendInterrupted, Numbered, GotoMain
  <2> QED
    BY <2>2, <2>3, <2>4
<1> QED
  BY <1>1, <1>2, <1>3 DEF Part

(* A receive thread gets a message from the queue or garbage from a bad one. *)
LEMMA RecvThreadClean ==
  ASSUME TypeOK, CarriedOK, ReceivedOK, GarbageOK, Next, NEW c \in Clients, RecvThread(c)
  PROVE  Part(c)'
<1> USE SlotFacts, CarriedFacts DEF TypeOK, ProcTypes, DataTypes, GotoRecv
<1>1. Part(c)
  BY GarbageByClient
<1>2. msgid' = msgid /\ mpc' = mpc
  BY DEF RecvThread, RecvTest, Recv, RecvGot
<1>3. /\ msgid'[c] <= qid'
      /\ (is_running'[c] => is_running[c]) /\ (Clean(c) => Clean(c)')
           => (Working(c)' => Clean(c)')
  BY <1>2, UntouchedClean
<1>4. Idle(c)'
  BY <1>1, <1>2 DEF Part, Idle, RecvThread, RecvTest, Recv, RecvGot
<1>5. CASE RecvTest(c)
  BY <1>3, <1>4, <1>5 DEF Part, RecvTest, Clean, data
<1>6. CASE Recv(c)
  <2>1. queue' = queue /\ is_running' = is_running
    BY <1>6 DEF Recv
  <2>2. CASE Kernel!MsgFail(msgid[c])
    <3>1. ~Kernel!Good(msgid[c])'
      BY <1>2, <2>2 DEF Kernel!MsgFail, Kernel!Good, Kernel!qvars
    <3> QED
      BY <1>2, <1>3, <1>4, <3>1 DEF Part, Working
  <2>3. CASE /\ Kernel!MsgRcv(msgid[c], RecvType(c))
             /\ rmsg' = [rmsg EXCEPT ![c] = Head(mq[RecvType(c)])]
    <3>1. Head(mq[RecvType(c)]) \in Carried(c)
      BY <2>3, MsgRcvOK DEF KernelOK
    <3>2. Clean(c) => Clean(c)'
      BY <2>1, <2>3, <3>1 DEF Clean, Message
    <3> QED
      BY <1>3, <1>4, <2>1, <3>2 DEF Part
  <2> QED
    BY <1>6, <2>2, <2>3 DEF Recv
<1>7. CASE RecvGot(c)
  <2>1. rpc'[c] = "test"
    BY <1>7 DEF RecvGot
  <2>2. CASE IsQuit(rmsg[c])
    BY <1>3, <1>4, <1>7, <2>1, <2>2 DEF Part, RecvGot, Clean
  <2>3. CASE ~IsQuit(rmsg[c])
    <3>1. /\ is_running' = is_running
          /\ queue' = [queue EXCEPT ![c] = Append(@, rmsg[c])]
      BY <1>7, <2>3 DEF RecvGot, Push
    <3>2. ASSUME Clean(c)
          PROVE  Clean(c)'
      <4>1. rmsg[c] \in FromClients
        <5>1. rmsg[c] # Junk /\ rmsg[c] \in Carried(c) \union {Junk}
          BY <1>7, <3>2 DEF Clean, RecvGot, ReceivedOK
        <5>2. rmsg[c] \in Message
          BY <5>1
        <5>3. rmsg[c].src \in Procs
          BY <5>2 DEF Message
        <5> QED
          BY <2>3, <5>2, <5>3 DEF IsQuit, FromClients
      <4>2. queue'[c] = Append(queue[c], rmsg[c])
        BY <3>1
      <4>3. queue'[c] \in Seq(FromClients)
        BY <3>2, <4>1, <4>2, AppendProperties DEF Clean
      <4> QED
        BY <2>1, <4>3 DEF Clean
    <3> QED
      BY <1>3, <1>4, <3>1, <3>2 DEF Part
  <2> QED
    BY <2>2, <2>3
<1> QED
  BY <1>5, <1>6, <1>7 DEF RecvThread

(* Main never lets garbage in: it takes from the queue, or ends with it empty. *)
LEMMA ClientMainClean ==
  ASSUME TypeOK, GarbageOK, Next, NEW c \in Clients, ClientMain(c)
  PROVE  Part(c)'
<1> USE SlotFacts DEF TypeOK, ProcTypes, DataTypes, GotoMain, GotoRecv, data
<1>1. Part(c)
  BY GarbageByClient
<1>2. msgid' = msgid
  BY DEF ClientMain, ClientLaunch, ClientLoop, ClientDrain, ClientPop, ClientSend,
     JoinAndRemove
<1>3. /\ msgid'[c] <= qid'
      /\ (is_running'[c] => is_running[c]) /\ (Clean(c) => Clean(c)')
           => (Working(c)' => Clean(c)')
  BY <1>2, UntouchedClean
<1>4. CASE ClientLaunch(c)
  <2>1. queue'[c] = <<>> /\ rpc'[c] \in {"off", "done", "test"}
    BY <1>1, <1>4 DEF Part, Idle, ClientLaunch
  <2>2. rpc'[c] = "test" => mpc'[c] = "loop"
    BY <1>1, <1>4 DEF Part, Idle, ClientLaunch
  <2> QED
    BY <1>3, <2>1, <2>2 DEF Part, Idle, Clean
<1>5. CASE ClientLoop(c) \/ ClientDrain(c) \/ ClientSend(c)
  <2>1. UNCHANGED <<is_running, rpc, rmsg, queue>>
    BY <1>5 DEF ClientLoop, ClientDrain, ClientSend
  <2>2. mpc'[c] \in {"drain", "join", "pop", "send", "loop"}
    BY <1>5 DEF ClientLoop, ClientDrain, ClientSend, Numbered
  <2> QED
    BY <1>3, <2>1, <2>2 DEF Part, Idle, Clean
<1>6. CASE ClientPop(c)
  <2>1. UNCHANGED <<is_running, rpc, rmsg>> /\ mpc'[c] = "drain"
    BY <1>6 DEF ClientPop
  <2>2. queue[c] # <<>> /\ queue'[c] = Tail(queue[c])
    BY <1>6 DEF ClientPop
  <2>3. ASSUME queue[c] \in Seq(FromClients) PROVE queue'[c] \in Seq(FromClients)
    BY <2>2, <2>3, HeadTailProperties
  <2> QED
    BY <1>3, <2>1, <2>3 DEF Part, Idle, Clean
<1>7. CASE JoinAndRemove(c)
  <2>1. queue'[c] = <<>> /\ rpc'[c] = "done"
    BY <1>7 DEF JoinAndRemove, Gone
  <2> QED
    BY <1>3, <2>1 DEF Part, Idle, Clean
<1> QED
  BY <1>4, <1>5, <1>6, <1>7 DEF ClientMain

(* What one process does leaves the others alone. *)
LEMMA OtherProcs ==
  ASSUME TypeOK, NEW c \in Clients, NEW p \in Procs, p # c,
         \/ Start(p) \/ SigInt(p) \/ Kill(p) \/ RecvThread(p)
         \/ p \in Clients /\ ClientMain(p)
         \/ p = Server /\ ServerMain
  PROVE  /\ msgid'[c] = msgid[c] /\ is_running'[c] = is_running[c]
         /\ mpc'[c] = mpc[c] /\ rpc'[c] = rpc[c]
         /\ rmsg'[c] = rmsg[c] /\ queue'[c] = queue[c]
<1> USE SlotFacts DEF TypeOK, ProcTypes, DataTypes, GotoMain, GotoRecv, Gone, data, procs
<1>1. CASE Start(p) \/ Kill(p)
  BY <1>1 DEF Start, Kill
<1>2. CASE SigInt(p)
  BY <1>2 DEF SigInt, RecvInterrupted, RecvFailed, SendInterrupted, Numbered, QuitNext
<1>3. CASE RecvThread(p)
  BY <1>3 DEF RecvThread, RecvTest, Recv, RecvFailed, RecvGot, Push
<1>4. CASE p \in Clients /\ ClientMain(p)
  BY <1>4 DEF ClientMain, ClientLaunch, ClientLoop, ClientDrain, ClientPop, ClientSend,
     Numbered, JoinAndRemove
<1>5. CASE p = Server /\ ServerMain
  BY <1>5 DEF ServerMain, ServerLaunch, ServerLoop, ServerTake, ServerForward, ServerQuit,
     QuitNext, JoinAndRemove
<1> QED
  BY <1>1, <1>2, <1>3, <1>4, <1>5

LEMMA GarbageStep == IInv /\ GarbageOK /\ [Next]_vars => GarbageOK'
<1> SUFFICES ASSUME IInv, GarbageOK, [Next]_vars, NEW c \in Clients PROVE Part(c)'
  BY DEF GarbageOK, Part, Idle, Clean
<1>1. TypeOK /\ CarriedOK /\ ReceivedOK /\ c \in Procs
  BY SlotFacts DEF IInv
<1>2. CASE UNCHANGED vars
  BY <1>2, GarbageByClient
     DEF Part, Idle, Clean, Working, Kernel!Good, vars, qvars, procs, data
<1>3. ASSUME Next, NEW p \in Procs,
             \/ Start(p) \/ SigInt(p) \/ Kill(p) \/ RecvThread(p)
             \/ p \in Clients /\ ClientMain(p)
             \/ p = Server /\ ServerMain
      PROVE  Part(c)'
  <2>1. CASE p # c
    BY <1>1, <1>3, <2>1, OtherProcs, OthersStep
  <2>2. CASE p = c
    BY <1>1, <1>3, <2>2, SlotFacts, StartClean, SigIntClean, KillClean, RecvThreadClean,
       ClientMainClean
  <2> QED
    BY <2>1, <2>2
<1> QED
  BY <1>2, <1>3, SlotFacts DEF Next

(* Nothing waits under a client's type, or in a client's memory, that is not for
   this client, and garbage only with a client that no longer works. *)
THEOREM RoutedRight == Spec => []Routing
<1>1. IInv /\ GarbageOK => Routing
  <2> SUFFICES ASSUME IInv, GarbageOK, NEW c \in Clients
               PROVE  /\ \A m \in SeqElems(mq[c]) : m.dst = c
                      /\ \A m \in SeqElems(queue[c]) :
                           m = Junk \/ (m.dst = c /\ m.src \in Clients)
                      /\ Working(c) => Junk \notin SeqElems(queue[c])
    BY DEF Routing
  <2>1. mq[c] \in Seq(Carried(c)) /\ queue[c] \in Seq(Stored(c))
    BY SlotFacts DEF IInv, CarriedOK, StoredOK
  <2>2. SeqElems(mq[c]) \subseteq Carried(c) /\ SeqElems(queue[c]) \subseteq Stored(c)
    BY <2>1, SeqElemsOf
  <2>3. \A m \in Carried(c) : m.dst = c
    BY CarriedFacts
  <2>4. \A m \in Stored(c) : m = Junk \/ (m.dst = c /\ m.src \in Clients)
    BY SlotFacts DEF Stored, FromClients
  <2>5. Working(c) => SeqElems(queue[c]) \subseteq FromClients
    BY SeqElemsOf DEF GarbageOK
  <2>6. Junk \notin FromClients
    BY SlotFacts DEF FromClients
  <2> QED
    BY <2>2, <2>3, <2>4, <2>5, <2>6
<1>2. Init => GarbageOK
  BY SlotFacts DEF Init, Kernel!QueueInit, GarbageOK
<1> QED
  BY <1>1, <1>2, GarbageStep, IInvAlways, PTL DEF Spec

-----------------------------------------------------------------------------
(***************************************************************************)
(* Order and loss.  The steps, by the process that takes them.             *)
(***************************************************************************)
StepOf(p) ==
  \/ Start(p) \/ SigInt(p) \/ Kill(p) \/ RecvThread(p)
  \/ p \in Clients /\ ClientMain(p)
  \/ p = Server /\ ServerMain

LEMMA SomeProcess ==
  ASSUME Next
  PROVE  \E p \in Procs : StepOf(p)
BY SlotFacts, Zenon DEF Next, StepOf

(* What one process does leaves the threads and the memory of the others alone. *)
LEMMA Others ==
  ASSUME TypeOK, NEW p \in Procs, NEW q \in Procs, p # q, StepOf(p)
  PROVE  /\ msgid'[q] = msgid[q] /\ is_running'[q] = is_running[q]
         /\ mpc'[q] = mpc[q] /\ rpc'[q] = rpc[q]
         /\ rmsg'[q] = rmsg[q] /\ queue'[q] = queue[q] /\ starts'[q] = starts[q]
<1> USE SlotFacts DEF TypeOK, ProcTypes, DataTypes, CountTypes, GotoMain, GotoRecv, Gone,
        data, procs, env
<1>1. CASE Start(p) \/ Kill(p)
  BY <1>1 DEF Start, Kill
<1>2. CASE SigInt(p)
  BY <1>2 DEF SigInt, RecvInterrupted, RecvFailed, SendInterrupted, Numbered, QuitNext
<1>3. CASE RecvThread(p)
  <2>1. CASE RecvTest(p)
    BY <2>1 DEF RecvTest
  <2>2. CASE Recv(p)
    BY <2>2 DEF Recv, RecvFailed
  <2>3. CASE RecvGot(p)
    BY <2>3 DEF RecvGot, Push
  <2> QED
    BY <1>3, <2>1, <2>2, <2>3 DEF RecvThread
<1>4. CASE p \in Clients /\ ClientMain(p)
  BY <1>4 DEF ClientMain, ClientLaunch, ClientLoop, ClientDrain, ClientPop, ClientSend,
     Numbered, JoinAndRemove
<1>5. CASE p = Server /\ ServerMain
  BY <1>5 DEF ServerMain, ServerLaunch, ServerLoop, ServerTake, ServerForward, ServerQuit,
     QuitNext, JoinAndRemove
<1> QED
  BY <1>1, <1>2, <1>3, <1>4, <1>5 DEF StepOf

(* A process that was never started does nothing, one that is being started has no
   receive thread yet, and one leaves its loop only when it has been told to stop
   (or, the server, when it could not get the queue). *)
OrderlyAt(p) ==
  /\ starts[p] = 0 => mpc[p] = "off"
  /\ mpc[p] \in {"off", "init"} => rpc[p] = "off"
  /\ mpc[p] \in {"quit", "join"} => ~is_running[p]
  /\ mpc[p] = "done" => ~is_running[p] \/ msgid[p] = -1

(* A queue that has been removed holds nothing, and nobody sends too often. *)
Emptied == ~exists => mq = Kernel!NoMessages
Counted == \A s, d \in Clients : sent[s][d] <= MaxSends

Orderly == (\A p \in Procs : OrderlyAt(p)) /\ Emptied /\ Counted

LEMMA InitOrderly == Init => Orderly
BY SlotFacts DEF Init, Orderly, OrderlyAt, Emptied, Counted, Kernel!QueueInit

LEMMA OrderlyAtStep ==
  ASSUME TypeOK, NEW p \in Procs, OrderlyAt(p), StepOf(p)
  PROVE  OrderlyAt(p)'
<1> USE SlotFacts DEF TypeOK, ProcTypes, CountTypes, OrderlyAt, GotoMain, GotoRecv, data, env
<1>1. CASE Start(p)
  BY <1>1 DEF Start
<1>2. CASE Kill(p)
  BY <1>2 DEF Kill, Live
<1>3. CASE SigInt(p)
  BY <1>3 DEF SigInt, Live, RecvInterrupted, RecvFailed, SendInterrupted, Numbered, QuitNext
<1>4. CASE RecvThread(p)
  BY <1>4 DEF RecvThread, RecvTest, Recv, RecvFailed, RecvGot, Push
<1>5. CASE p \in Clients /\ ClientMain(p)
  BY <1>5 DEF ClientMain, ClientLaunch, ClientLoop, ClientDrain, ClientPop, ClientSend,
     Numbered, JoinAndRemove
<1>6. CASE p = Server /\ ServerMain
  BY <1>6 DEF ServerMain, ServerLaunch, ServerLoop, ServerTake, ServerForward, ServerQuit,
     QuitNext, JoinAndRemove
<1> QED
  BY <1>1, <1>2, <1>3, <1>4, <1>5, <1>6 DEF StepOf

LEMMA EmptiedStep ==
  ASSUME Emptied, Next
  PROVE  Emptied'
<1>1. CASE UNCHANGED qvars
  BY <1>1 DEF qvars, Emptied, Kernel!NoMessages
<1>2. CASE UNCHANGED Kernel!qvars
  BY <1>1, <1>2 DEF qvars, Kernel!qvars
<1>3. CASE exists' \/ mq' = Kernel!NoMessages
  BY <1>3 DEF Emptied, Kernel!NoMessages
<1>4. CASE Kernel!MsgGet
  BY <1>2, <1>3, <1>4 DEF Kernel!MsgGet
<1>5. ASSUME NEW id, Kernel!MsgRmid(id) \/ Kernel!MsgFail(id)
      PROVE  Emptied'
  BY <1>2, <1>3, <1>5 DEF Kernel!MsgRmid, Kernel!MsgFail
<1>6. ASSUME NEW id, NEW t, Kernel!MsgRcv(id, t) \/ \E m : Kernel!MsgSnd(id, t, m)
      PROVE  Emptied'
  BY <1>3, <1>6 DEF Kernel!MsgRcv, Kernel!MsgSnd, Kernel!Good
<1> QED
  BY <1>1, <1>4, <1>5, <1>6, OneCall

(* The numbers: only a client that sends, or is interrupted in it, counts on. *)
LEMMA SentBy ==
  ASSUME TypeOK, NEW p \in Procs, StepOf(p)
  PROVE  \/ UNCHANGED sent
         \/ /\ p \in Clients /\ mpc[p] = "send" /\ sent[p][NextDest(p)] < MaxSends
            /\ Numbered(p)
<1> USE DEF ghost
<1>1. CASE Start(p) \/ Kill(p)
  BY <1>1 DEF Start, Kill
<1>2. CASE SigInt(p)
  BY <1>2 DEF SigInt, RecvInterrupted, SendInterrupted
<1>3. CASE RecvThread(p)
  BY <1>3 DEF RecvThread, RecvTest, Recv, RecvGot
<1>4. CASE p \in Clients /\ ClientMain(p)
  BY <1>4 DEF ClientMain, ClientLaunch, ClientLoop, ClientDrain, ClientPop, ClientSend,
     JoinAndRemove
<1>5. CASE p = Server /\ ServerMain
  BY <1>5 DEF ServerMain, ServerLaunch, ServerLoop, ServerTake, ServerForward, ServerQuit,
     JoinAndRemove
<1> QED
  BY <1>1, <1>2, <1>3, <1>4, <1>5 DEF StepOf

LEMMA NumberedFacts ==
  ASSUME TypeOK, NEW c \in Clients, Numbered(c)
  PROVE  /\ NextDest(c) \in Clients
         /\ sent'[c][NextDest(c)] = (sent[c][NextDest(c)] + 1) % SeqMod
         /\ \A s, d \in Clients :
              s # c \/ d # NextDest(c) => sent'[s][d] = sent[s][d]
<1>1. NextDest(c) \in Clients
  BY NextDestOK DEF TypeOK, DataTypes
<1>2. sent \in [Clients -> [Clients -> 0 .. SeqMod - 1]]
  BY DEF TypeOK, CountTypes
<1>3. sent' = [sent EXCEPT ![c][NextDest(c)] = (@ + 1) % SeqMod]
  BY DEF Numbered
<1> QED
  BY <1>1, <1>2, <1>3

LEMMA ModSmall == \A n \in Nat : n % SeqMod <= n /\ (n < SeqMod => n % SeqMod = n)
OBVIOUS

LEMMA CountedStep ==
  ASSUME TypeOK, Counted, NEW p \in Procs, StepOf(p)
  PROVE  Counted'
<1>1. CASE UNCHANGED sent
  BY <1>1 DEF Counted
<1>2. CASE /\ p \in Clients /\ sent[p][NextDest(p)] < MaxSends
           /\ Numbered(p)
  <2> DEFINE n == sent[p][NextDest(p)]
  <2>1. n \in Nat /\ n < MaxSends
    BY <1>2, NumberedFacts, NumberOK DEF TypeOK
  <2>2. (n + 1) % SeqMod <= n + 1 /\ (n + 1) % SeqMod \in Int
    BY <2>1, ModSmall
  <2>3. (n + 1) % SeqMod <= MaxSends
    BY <2>1, <2>2
  <2>4. \A s, d \in Clients : sent'[s][d] <= MaxSends
    <3> SUFFICES ASSUME NEW s \in Clients, NEW d \in Clients
                 PROVE  sent'[s][d] <= MaxSends
      OBVIOUS
    <3>1. CASE s = p /\ d = NextDest(p)
      BY <1>2, <2>3, <3>1, NumberedFacts
    <3>2. CASE s # p \/ d # NextDest(p)
      <4>1. sent'[s][d] = sent[s][d]
        BY <1>2, <3>2, NumberedFacts
      <4> QED
        BY <4>1 DEF Counted
    <3> QED
      BY <3>1, <3>2
  <2> QED
    BY <2>4 DEF Counted
<1> QED
  BY <1>1, <1>2, SentBy

LEMMA OrderlyStep == IInv /\ Orderly /\ [Next]_vars => Orderly'
<1> SUFFICES ASSUME IInv, Orderly, [Next]_vars PROVE Orderly'
  OBVIOUS
<1>1. TypeOK
  BY DEF IInv
<1>2. CASE UNCHANGED vars
  BY <1>2, Zenon DEF vars, qvars, procs, ghost, env, Orderly, OrderlyAt, Emptied, Counted,
     Kernel!NoMessages
<1>3. CASE Next
  <2>1. PICK p \in Procs : StepOf(p)
    BY <1>3, SomeProcess
  <2>2. ASSUME NEW q \in Procs PROVE OrderlyAt(q)'
    <3>1. OrderlyAt(q)
      BY DEF Orderly
    <3>2. CASE q = p
      BY <1>1, <2>1, <3>1, <3>2, OrderlyAtStep
    <3>3. CASE q # p
      BY <1>1, <2>1, <3>1, <3>3, Others DEF OrderlyAt
    <3> QED
      BY <3>2, <3>3
  <2>3. Counted'
    BY <1>1, <2>1, CountedStep DEF Orderly
  <2>4. Emptied'
    BY <1>3, EmptiedStep DEF Orderly
  <2> QED
    BY <2>2, <2>3, <2>4 DEF Orderly
<1> QED
  BY <1>2, <1>3

(* What Steady says of one process. *)
SteadyAt(p) ==
  /\ starts[p] <= 1
  /\ mpc[p] # "off" => msgid[p] # -1
  /\ mpc[p] \in {"off", "init"} \/ is_running[p]

LEMMA SteadyByProcess == Steady <=> kills = 0 /\ \A p \in Procs : SteadyAt(p)
BY DEF Steady, SteadyAt

LEMMA KillsStep ==
  ASSUME NEW p \in Procs, StepOf(p)
  PROVE  /\ kills' = kills \/ (Kill(p) /\ kills' = kills + 1)
         /\ Kill(p) => kills' = kills + 1
<1> USE DEF env
<1>1. CASE Start(p)
  BY <1>1 DEF Start, Kill
<1>2. CASE SigInt(p)
  BY <1>2 DEF SigInt, Kill
<1>3. CASE RecvThread(p)
  BY <1>3 DEF RecvThread, RecvTest, Recv, RecvGot, Kill
<1>4. CASE p \in Clients /\ ClientMain(p)
  BY <1>4 DEF ClientMain, ClientLaunch, ClientLoop, ClientDrain, ClientPop, ClientSend,
     JoinAndRemove, Kill
<1>5. CASE p = Server /\ ServerMain
  BY <1>5 DEF ServerMain, ServerLaunch, ServerLoop, ServerTake, ServerForward, ServerQuit,
     JoinAndRemove, Kill
<1>6. CASE Kill(p)
  BY <1>6 DEF Kill
<1> QED
  BY <1>1, <1>2, <1>3, <1>4, <1>5, <1>6 DEF StepOf

(* Nobody who has been told to stop is brought back but by a second start. *)
LEMMA SteadyAtBack ==
  ASSUME TypeOK, NEW p \in Procs, OrderlyAt(p), StepOf(p), ~Kill(p), SteadyAt(p)'
  PROVE  SteadyAt(p)
<1> USE SlotFacts DEF TypeOK, ProcTypes, CountTypes, OrderlyAt, SteadyAt, GotoMain, GotoRecv, data,
        env
<1>1. CASE Start(p)
  BY <1>1 DEF Start
<1>3. CASE SigInt(p)
  BY <1>3 DEF SigInt, Live, RecvInterrupted, SendInterrupted, Numbered, QuitNext
<1>4. CASE RecvThread(p)
  BY <1>4 DEF RecvThread, RecvTest, Recv, RecvGot, Push
<1>5. CASE p \in Clients /\ ClientMain(p)
  BY <1>5 DEF ClientMain, ClientLaunch, ClientLoop, ClientDrain, ClientPop, ClientSend,
     Numbered, JoinAndRemove
<1>6. CASE p = Server /\ ServerMain
  BY <1>6 DEF ServerMain, ServerLaunch, ServerLoop, ServerTake, ServerForward, ServerQuit,
     QuitNext, JoinAndRemove
<1> QED
  BY <1>1, <1>3, <1>4, <1>5, <1>6 DEF StepOf

LEMMA SteadyBack ==
  ASSUME TypeOK, Orderly, NEW p \in Procs, StepOf(p), Steady'
  PROVE  Steady /\ ~Kill(p)
<1>1. kills \in Nat /\ kills' = 0 /\ \A q \in Procs : SteadyAt(q)'
  BY SteadyByProcess DEF TypeOK, CountTypes, Steady, SteadyAt
<1>2. kills = 0 /\ ~Kill(p)
  BY <1>1, KillsStep
<1>3. ASSUME NEW q \in Procs PROVE SteadyAt(q)
  <2>1. CASE q = p
    BY <1>1, <1>2, <2>1, SteadyAtBack DEF Orderly
  <2>2. CASE q # p
    BY <1>1, <2>2, Others DEF SteadyAt
  <2> QED
    BY <2>1, <2>2
<1> QED
  BY <1>2, <1>3, SteadyByProcess

(* Nobody has left its loop while the system is steady. *)
LEMMA SteadyRuns ==
  ASSUME TypeOK, Orderly, Steady, NEW p \in Procs
  PROVE  /\ mpc[p] \notin {"quit", "join", "done"}
         /\ mpc[p] \notin {"off", "init"} => is_running[p]
         /\ rpc[p] # "off" => mpc[p] \notin {"off", "init", "done"}
BY DEF Orderly, OrderlyAt, Steady

(* While the system is steady nobody removes the queue, which is then the queue of
   everybody. *)
Attached == Steady => \A p \in Procs : mpc[p] # "off" => Kernel!Good(msgid[p])

LEMMA NotRemoved ==
  ASSUME TypeOK, Orderly, NEW p \in Procs, StepOf(p), Steady'
  PROVE  \/ UNCHANGED qvars
         \/ Start(p) /\ Kernel!MsgGet
         \/ qid' = qid /\ exists' = exists
<1>1. Steady /\ ~Kill(p) /\ mpc[p] \notin {"quit", "join", "done"}
  BY SteadyBack, SteadyRuns
<1>2. CASE Start(p)
  BY <1>2 DEF Start
<1>3. CASE SigInt(p)
  BY <1>3 DEF SigInt
<1>4. CASE RecvThread(p)
  BY <1>4 DEF RecvThread, RecvTest, Recv, RecvGot, Kernel!MsgFail, Kernel!MsgRcv, Kernel!qvars
<1>5. CASE p \in Clients /\ ClientMain(p)
  BY <1>1, <1>5 DEF ClientMain, ClientLaunch, ClientLoop, ClientDrain, ClientPop, ClientSend,
     JoinAndRemove, Kernel!MsgFail, Kernel!MsgSnd, Kernel!qvars, qvars
<1>6. CASE p = Server /\ ServerMain
  BY <1>1, <1>6 DEF ServerMain, ServerLaunch, ServerLoop, ServerTake, ServerForward, ServerQuit,
     JoinAndRemove, Kernel!MsgFail, Kernel!MsgSnd, Kernel!qvars, qvars
<1> QED
  BY <1>1, <1>2, <1>3, <1>4, <1>5, <1>6 DEF StepOf

LEMMA AttachedStep ==
  ASSUME TypeOK, Orderly, Attached, NEW p \in Procs, StepOf(p), Steady'
  PROVE  \A q \in Procs : mpc'[q] # "off" => Kernel!Good(msgid[q])'
<1>1. Steady /\ ~Kill(p) /\ \A q \in Procs : mpc[q] # "off" => Kernel!Good(msgid[q])
  BY SteadyBack DEF Attached
<1>2. CASE Start(p)
  <2>1. mpc'[p] # "off" /\ msgid'[p] # -1
    <3>1. mpc'[p] # "off"
      BY <1>2 DEF Start, GotoMain, TypeOK, ProcTypes
    <3> QED
      BY <3>1 DEF Steady
  <2>2. Kernel!MsgGet /\ msgid'[p] = qid'
    BY <1>2, <2>1 DEF Start, TypeOK, ProcTypes
  <2>3. Kernel!Good(msgid[p])'
    BY <2>2 DEF Kernel!MsgGet, Kernel!Good, Kernel!qvars
  <2>4. ASSUME NEW q \in Procs, q # p, mpc'[q] # "off" PROVE Kernel!Good(msgid[q])'
    <3>1. msgid'[q] = msgid[q] /\ mpc'[q] = mpc[q]
      BY <2>4, Others
    <3>2. Kernel!Good(msgid[q])
      BY <1>1, <2>4, <3>1
    <3> QED
      BY <2>2, <3>1, <3>2 DEF Kernel!MsgGet, Kernel!Good, Kernel!qvars
  <2> QED
    BY <2>3, <2>4
<1>3. CASE ~Start(p)
  <2>1. qid' = qid /\ exists' = exists
    BY <1>3, NotRemoved DEF qvars
  <2>2. ASSUME NEW q \in Procs PROVE msgid'[q] = msgid[q] /\ (mpc'[q] # "off" => mpc[q] # "off")
    <3>1. CASE q # p
      BY <3>1, Others
    <3>2. CASE q = p
      <4>1. msgid' = msgid
        BY <1>1, <1>3 DEF StepOf, SigInt, RecvThread, RecvTest, Recv, RecvGot, ClientMain,
           ClientLaunch, ClientLoop, ClientDrain, ClientPop, ClientSend, JoinAndRemove,
           ServerMain, ServerLaunch, ServerLoop, ServerTake, ServerForward, ServerQuit
      <4>2. mpc[p] = "off" => mpc' = mpc
        BY <1>1, <1>3 DEF StepOf, SigInt, Live, RecvThread, RecvTest, Recv, RecvGot, ClientMain,
           ClientLaunch, ClientLoop, ClientDrain, ClientPop, ClientSend, JoinAndRemove,
           ServerMain, ServerLaunch, ServerLoop, ServerTake, ServerForward, ServerQuit
      <4> QED
        BY <3>2, <4>1, <4>2
    <3> QED
      BY <3>1, <3>2
  <2> QED
    BY <1>1, <2>1, <2>2 DEF Kernel!Good
<1> QED
  BY <1>2, <1>3

-----------------------------------------------------------------------------
(***************************************************************************)
(* The line of messages from s to d.  Its seven parts are the places where *)
(* a message of s to d can be; what is in each of them is kept in Seq(Slot)*)
(* and only handled by the laws of Cat.  A message moves from the front of *)
(* one part to the end of the part before it.                              *)
(***************************************************************************)
Line(a, b, c, d, e, f, g) == Cat(Cat(Cat(Cat(Cat(Cat(a, b), c), d), e), f), g)

LEMMA TwoMoves ==
  ASSUME NEW X, NEW p \in Seq(X), NEW q \in Seq(X), NEW r \in Seq(X)
  PROVE  /\ Cat(Cat(p, <<>>), Cat(q, r)) = Cat(Cat(p, q), r)
         /\ Cat(Cat(p, Cat(q, r)), <<>>) = Cat(Cat(p, q), r)
         /\ Cat(p, q) \in Seq(X)
         /\ Cat(Cat(p, q), r) = Cat(p, Cat(q, r))
<1>1. Cat(p, q) \in Seq(X) /\ Cat(q, r) \in Seq(X)
  BY CatLaws
<1>2. Cat(p, <<>>) = p /\ Cat(p, Cat(q, r)) = Cat(Cat(p, q), r)
  BY <1>1, CatLaws
<1>3. Cat(Cat(p, q), r) \in Seq(X)
  BY <1>1, CatLaws
<1>4. Cat(Cat(Cat(p, q), r), <<>>) = Cat(Cat(p, q), r)
  BY <1>3, CatLaws
<1> QED
  BY <1>1, <1>2, <1>4

LEMMA LineSeq ==
  ASSUME NEW X, NEW a \in Seq(X), NEW b \in Seq(X), NEW c \in Seq(X), NEW d \in Seq(X),
         NEW e \in Seq(X), NEW f \in Seq(X), NEW g \in Seq(X)
  PROVE  Line(a, b, c, d, e, f, g) \in Seq(X)
<1>1. Cat(a, b) \in Seq(X)
  BY CatLaws
<1>2. Cat(Cat(a, b), c) \in Seq(X)
  BY <1>1, CatLaws
<1>3. Cat(Cat(Cat(a, b), c), d) \in Seq(X)
  BY <1>2, CatLaws
<1>4. Cat(Cat(Cat(Cat(a, b), c), d), e) \in Seq(X)
  BY <1>3, CatLaws
<1>5. Cat(Cat(Cat(Cat(Cat(a, b), c), d), e), f) \in Seq(X)
  BY <1>4, CatLaws
<1> QED
  BY <1>5, CatLaws DEF Line

(* The six ways for messages to move up by one part. *)
Moves(a, b, c, d, e, f, g) ==
  /\ Line(Cat(a, b), <<>>, c, d, e, f, g) = Line(a, b, c, d, e, f, g)
  /\ Line(a, <<>>, Cat(b, c), d, e, f, g) = Line(a, b, c, d, e, f, g)
  /\ Line(a, b, Cat(c, d), <<>>, e, f, g) = Line(a, b, c, d, e, f, g)
  /\ Line(a, b, c, <<>>, Cat(d, e), f, g) = Line(a, b, c, d, e, f, g)
  /\ Line(a, b, c, d, Cat(e, f), <<>>, g) = Line(a, b, c, d, e, f, g)
  /\ Line(a, b, c, d, e, <<>>, Cat(f, g)) = Line(a, b, c, d, e, f, g)

LEMMA LineMoves ==
  ASSUME NEW X, NEW a \in Seq(X), NEW b \in Seq(X), NEW c \in Seq(X), NEW d \in Seq(X),
         NEW e \in Seq(X), NEW f \in Seq(X), NEW g \in Seq(X)
  PROVE  Moves(a, b, c, d, e, f, g)
<1> DEFINE p2 == Cat(a, b)
           p3 == Cat(p2, c)
           p4 == Cat(p3, d)
           p5 == Cat(p4, e)
<1>1. p2 \in Seq(X) /\ p3 \in Seq(X) /\ p4 \in Seq(X) /\ p5 \in Seq(X)
  <2>1. p2 \in Seq(X)
    BY CatLaws
  <2>2. p3 \in Seq(X)
    BY <2>1, CatLaws
  <2>3. p4 \in Seq(X)
    BY <2>2, CatLaws
  <2>4. p5 \in Seq(X)
    BY <2>3, CatLaws
  <2> QED
    BY <2>1, <2>2, <2>3, <2>4
<1>2. Cat(p2, <<>>) = p2
  BY <1>1, CatLaws
<1>3. Cat(Cat(a, <<>>), Cat(b, c)) = p3
  BY TwoMoves
<1>4. Cat(Cat(p2, Cat(c, d)), <<>>) = p4
  BY <1>1, TwoMoves
<1>5. Cat(Cat(p3, <<>>), Cat(d, e)) = p5
  BY <1>1, TwoMoves
<1>6. Cat(Cat(p4, Cat(e, f)), <<>>) = Cat(p5, f)
  BY <1>1, TwoMoves
<1>7. Cat(Cat(p5, <<>>), Cat(f, g)) = Cat(Cat(p5, f), g)
  BY <1>1, TwoMoves
<1> QED
  BY <1>2, <1>3, <1>4, <1>5, <1>6, <1>7, Zenon DEF Line, Moves

(* What is put in at the end, and taken out in front. *)
Ends(a, b, c, d, e, f, g, h) ==
  /\ Line(a, b, c, d, e, f, Cat(g, h)) = Cat(Line(a, b, c, d, e, f, g), h)
  /\ Line(Cat(h, a), b, c, d, e, f, g) = Cat(h, Line(a, b, c, d, e, f, g))

LEMMA LineEnds ==
  ASSUME NEW X, NEW a \in Seq(X), NEW b \in Seq(X), NEW c \in Seq(X), NEW d \in Seq(X),
         NEW e \in Seq(X), NEW f \in Seq(X), NEW g \in Seq(X), NEW h \in Seq(X)
  PROVE  Ends(a, b, c, d, e, f, g, h)
<1> DEFINE p2 == Cat(a, b)
           p3 == Cat(p2, c)
           p4 == Cat(p3, d)
           p5 == Cat(p4, e)
           p6 == Cat(p5, f)
<1>1. p2 \in Seq(X) /\ p3 \in Seq(X) /\ p4 \in Seq(X) /\ p5 \in Seq(X) /\ p6 \in Seq(X)
  <2>1. p2 \in Seq(X)
    BY CatLaws
  <2>2. p3 \in Seq(X)
    BY <2>1, CatLaws
  <2>3. p4 \in Seq(X)
    BY <2>2, CatLaws
  <2>4. p5 \in Seq(X)
    BY <2>3, CatLaws
  <2>5. p6 \in Seq(X)
    BY <2>4, CatLaws
  <2> QED
    BY <2>1, <2>2, <2>3, <2>4, <2>5
<1>2. Cat(Cat(p6, g), h) = Cat(p6, Cat(g, h))
  BY <1>1, TwoMoves
<1>3. Cat(Cat(h, a), b) = Cat(h, p2)
  BY TwoMoves
<1>4. Cat(Cat(h, p2), c) = Cat(h, p3)
  BY <1>1, TwoMoves
<1>5. Cat(Cat(h, p3), d) = Cat(h, p4)
  BY <1>1, TwoMoves
<1>6. Cat(Cat(h, p4), e) = Cat(h, p5)
  BY <1>1, TwoMoves
<1>7. Cat(Cat(h, p5), f) = Cat(h, p6)
  BY <1>1, TwoMoves
<1>8. Cat(Cat(h, p6), g) = Cat(h, Cat(p6, g))
  BY <1>1, TwoMoves
<1> QED
  BY <1>2, <1>3, <1>4, <1>5, <1>6, <1>7, <1>8, Zenon DEF Line, Ends

(* What of a part is from s to d. *)
Of(q, s, d) == Keep(q, FromTo(s, d))

LEMMA OfSeq ==
  ASSUME NEW s, NEW d
  PROVE  /\ \A q \in Seq(Slot) : Of(q, s, d) \in Seq(Slot)
         /\ Of(<<>>, s, d) = <<>>
         /\ \A p, q \in Seq(Slot) : Of(p \o q, s, d) = Cat(Of(p, s, d), Of(q, s, d))
BY KeepSeq, KeepNone, KeepConcat, Zenon DEF Of, Cat

LEMMA OfEnds ==
  ASSUME NEW s, NEW d, NEW q \in Seq(Slot)
  PROVE  /\ \A m \in Slot : Of(Append(q, m), s, d) = Cat(Of(q, s, d), Of(<<m>>, s, d))
         /\ q # <<>> => Of(q, s, d) = Cat(Of(<<Head(q)>>, s, d), Of(Tail(q), s, d))
<1>1. ASSUME NEW m \in Slot
      PROVE  Of(Append(q, m), s, d) = Cat(Of(q, s, d), Of(<<m>>, s, d))
  <2> DEFINE u == <<m>>
  <2>1. Append(q, m) = q \o u /\ u \in Seq(Slot)
    OBVIOUS
  <2> HIDE DEF u
  <2>2. Of(q \o u, s, d) = Cat(Of(q, s, d), Of(u, s, d))
    BY <2>1, OfSeq
  <2> QED
    BY <2>1, <2>2, Zenon DEF u
<1>2. ASSUME q # <<>>
      PROVE  Of(q, s, d) = Cat(Of(<<Head(q)>>, s, d), Of(Tail(q), s, d))
  <2> DEFINE u == <<Head(q)>>
             t == Tail(q)
  <2>1. q = u \o t /\ u \in Seq(Slot) /\ t \in Seq(Slot)
    BY <1>2
  <2> HIDE DEF u, t
  <2>2. Of(u \o t, s, d) = Cat(Of(u, s, d), Of(t, s, d))
    BY <2>1, OfSeq
  <2> QED
    BY <2>1, <2>2, Zenon DEF u, t
<1> QED
  BY <1>1, <1>2

LEMMA OfOne ==
  ASSUME NEW s, NEW d, NEW m
  PROVE  Of(<<m>>, s, d) = IF m \in FromTo(s, d) THEN <<m>> ELSE <<>>
BY KeepOne DEF Of

LEMMA HeldSeq == DataTypes => InHand \in Seq(Slot) /\ \A p \in Procs : Held(p) \in Seq(Slot)
BY DEF DataTypes, InHand, Held

LEMMA AllSeq ==
  ASSUME TypeOK, NEW d \in Clients
  PROVE  /\ queue[d] \in Seq(Slot) /\ Held(d) \in Seq(Slot) /\ mq[d] \in Seq(Slot)
         /\ InHand \in Seq(Slot) /\ queue[Server] \in Seq(Slot)
         /\ Held(Server) \in Seq(Slot) /\ mq[ServerType] \in Seq(Slot)
<1>1. /\ queue \in [Procs -> Seq(Slot)]
      /\ mq \in [1 .. ServerType -> Seq(Slot)]
  BY DEF TypeOK, DataTypes, Kernel!QueueTypeOK
<1>2. /\ d \in Procs /\ Server \in Procs
      /\ d \in 1 .. ServerType /\ ServerType \in 1 .. ServerType
  BY SlotFacts
<1> QED
  BY <1>1, <1>2, HeldSeq DEF TypeOK

LineOf(s, d) ==
  Line(Of(queue[d], s, d), Of(Held(d), s, d), Of(mq[d], s, d), Of(InHand, s, d),
       Of(queue[Server], s, d), Of(Held(Server), s, d), Of(mq[ServerType], s, d))

InLine == \A s, d \in Clients : InFlight(s, d) = LineOf(s, d)

LEMMA InFlightLine == TypeOK => InLine
<1> SUFFICES ASSUME TypeOK, NEW s \in Clients, NEW d \in Clients
             PROVE  InFlight(s, d) = LineOf(s, d)
  BY DEF InLine
<1> DEFINE p1 == queue[d]
           p2 == Held(d)
           p3 == mq[d]
           p4 == InHand
           p5 == queue[Server]
           p6 == Held(Server)
           p7 == mq[ServerType]
<1>1. /\ p1 \in Seq(Slot) /\ p2 \in Seq(Slot) /\ p3 \in Seq(Slot) /\ p4 \in Seq(Slot)
      /\ p5 \in Seq(Slot) /\ p6 \in Seq(Slot) /\ p7 \in Seq(Slot)
  BY AllSeq
<1>2. LineOf(s, d) = Line(Of(p1, s, d), Of(p2, s, d), Of(p3, s, d), Of(p4, s, d),
                          Of(p5, s, d), Of(p6, s, d), Of(p7, s, d))
  BY DEF LineOf
<1> DEFINE r2 == p1 \o p2
           r3 == r2 \o p3
           r4 == r3 \o p4
           r5 == r4 \o p5
           r6 == r5 \o p6
<1>3. InFlight(s, d) = Of(r6 \o p7, s, d)
  BY DEF InFlight, Pipeline, Of
<1> HIDE DEF p1, p2, p3, p4, p5, p6, p7
<1>4. r2 \in Seq(Slot)
  BY <1>1
<1>5. Of(r2, s, d) = Cat(Of(p1, s, d), Of(p2, s, d))
  BY <1>1, OfSeq
<1> HIDE DEF r2
<1>6. r3 \in Seq(Slot)
  BY <1>1, <1>4
<1>7. Of(r3, s, d) = Cat(Of(r2, s, d), Of(p3, s, d))
  BY <1>1, <1>4, OfSeq
<1> HIDE DEF r3
<1>8. r4 \in Seq(Slot)
  BY <1>1, <1>6
<1>9. Of(r4, s, d) = Cat(Of(r3, s, d), Of(p4, s, d))
  BY <1>1, <1>6, OfSeq
<1> HIDE DEF r4
<1>10. r5 \in Seq(Slot)
  BY <1>1, <1>8
<1>11. Of(r5, s, d) = Cat(Of(r4, s, d), Of(p5, s, d))
  BY <1>1, <1>8, OfSeq
<1> HIDE DEF r5
<1>12. r6 \in Seq(Slot)
  BY <1>1, <1>10
<1>13. Of(r6, s, d) = Cat(Of(r5, s, d), Of(p6, s, d))
  BY <1>1, <1>10, OfSeq
<1> HIDE DEF r6
<1>14. Of(r6 \o p7, s, d) = Cat(Of(r6, s, d), Of(p7, s, d))
  BY <1>1, <1>12, OfSeq
<1> QED
  BY <1>2, <1>3, <1>5, <1>7, <1>9, <1>11, <1>13, <1>14, Zenon DEF Line

LEMMA InFlightLineNext == TypeOK' => InLine'
BY InFlightLine, PTL

LEMMA PartsSeq ==
  ASSUME TypeOK, NEW s \in Clients, NEW d \in Clients
  PROVE  /\ Of(queue[d], s, d) \in Seq(Slot) /\ Of(Held(d), s, d) \in Seq(Slot)
         /\ Of(mq[d], s, d) \in Seq(Slot) /\ Of(InHand, s, d) \in Seq(Slot)
         /\ Of(queue[Server], s, d) \in Seq(Slot) /\ Of(Held(Server), s, d) \in Seq(Slot)
         /\ Of(mq[ServerType], s, d) \in Seq(Slot)
BY AllSeq, OfSeq, Zenon

LEMMA HeldSame ==
  ASSUME NEW p \in Procs, rpc'[p] = rpc[p], rmsg'[p] = rmsg[p]
  PROVE  Held(p)' = Held(p)
BY DEF Held

LEMMA PartsSame ==
  ASSUME NEW s \in Clients, NEW d \in Clients, queue'[d] = queue[d],
         Held(d)' = Held(d), mq'[d] = mq[d], InHand' = InHand,
         queue'[Server] = queue[Server], Held(Server)' = Held(Server),
         mq'[ServerType] = mq[ServerType]
  PROVE  InFlight(s, d)' = InFlight(s, d)
BY Zenon DEF InFlight, Pipeline

(* msgrcv moves a message from the kernel's queue into the receive thread. *)
LEMMA RecvFlow ==
  ASSUME TypeOK, TypeOK', NEW p \in Procs, rpc[p] = "rcv",
         Kernel!MsgRcv(msgid[p], RecvType(p)),
         rmsg' = [rmsg EXCEPT ![p] = Head(mq[RecvType(p)])],
         GotoRecv(p, "got"), UNCHANGED <<mpc, queue, hand>>,
         NEW s \in Clients, NEW d \in Clients
  PROVE  InFlight(s, d)' = InFlight(s, d)
<1> DEFINE t == RecvType(p)
           h == <<Head(mq[t])>>
           r == Tail(mq[t])
<1>1. /\ rpc \in [Procs -> RecvPC] /\ rmsg \in [Procs -> Slot]
      /\ mq \in [1 .. ServerType -> Seq(Slot)]
  BY DEF TypeOK, ProcTypes, DataTypes, Kernel!QueueTypeOK
<1>2. /\ rpc' = [rpc EXCEPT ![p] = "got"]
      /\ mq[t] # <<>> /\ mq' = [mq EXCEPT ![t] = Tail(@)]
  BY DEF GotoRecv, Kernel!MsgRcv
<1>3. t \in 1 .. ServerType /\ mq[t] \in Seq(Slot)
  BY <1>1, CarriedFacts
<1>4. Held(p) = <<>> /\ Held(p)' = h /\ mq'[t] = r
  BY <1>1, <1>2, <1>3 DEF Held
<1>5. \A q \in Procs : q # p => Held(q)' = Held(q)
  BY <1>1, <1>2 DEF Held
<1>6. \A u \in 1 .. ServerType : u # t => mq'[u] = mq[u]
  BY <1>1, <1>2
<1>7. InHand' = InHand /\ queue'[d] = queue[d] /\ queue'[Server] = queue[Server]
  BY DEF InHand
<1>8. InFlight(s, d) = LineOf(s, d) /\ InFlight(s, d)' = LineOf(s, d)'
  BY InFlightLine, InFlightLineNext, Zenon DEF InLine
<1>9. /\ Of(mq[t], s, d) = Cat(Of(h, s, d), Of(r, s, d))
      /\ Of(h, s, d) \in Seq(Slot) /\ Of(r, s, d) \in Seq(Slot)
      /\ Of(<<>>, s, d) = <<>>
  <2>1. h \in Seq(Slot) /\ r \in Seq(Slot)
    BY <1>2, <1>3
  <2> QED
    BY <1>2, <1>3, <2>1, OfEnds, OfSeq
<1>10. d \in Procs /\ d # Server /\ d \in 1 .. ServerType /\ Server \in Procs
       /\ ServerType \in 1 .. ServerType /\ d # ServerType
  BY SlotFacts
<1> DEFINE A == Of(queue[d], s, d)
           B == Of(Held(d), s, d)
           C == Of(mq[d], s, d)
           D == Of(InHand, s, d)
           E == Of(queue[Server], s, d)
           F == Of(Held(Server), s, d)
           G == Of(mq[ServerType], s, d)
           x == Of(h, s, d)
           y == Of(r, s, d)
<1>11. /\ A \in Seq(Slot) /\ B \in Seq(Slot) /\ C \in Seq(Slot) /\ D \in Seq(Slot)
       /\ E \in Seq(Slot) /\ F \in Seq(Slot) /\ G \in Seq(Slot)
  BY PartsSeq
<1>12. CASE p = Server
  <2>1. t = ServerType
    BY <1>12 DEF RecvType
  <2>2. LineOf(s, d) = Line(A, B, C, D, E, <<>>, Cat(x, y))
    BY <1>4, <1>9, <1>12, <2>1 DEF LineOf
  <2>3. Held(d)' = Held(d) /\ mq'[d] = mq[d]
    BY <1>5, <1>6, <1>10, <1>12, <2>1
  <2>4. LineOf(s, d)' = Line(A, B, C, D, E, x, y)
    BY <1>4, <1>7, <1>12, <2>1, <2>3 DEF LineOf
  <2>5. x \in Seq(Slot) /\ y \in Seq(Slot)
    BY <1>9
  <2> HIDE DEF A, B, C, D, E, x, y
  <2>6. Moves(A, B, C, D, E, x, y)
    BY <1>11, <2>5, LineMoves, Zenon
  <2> QED
    BY <1>8, <2>2, <2>4, <2>6 DEF Moves
<1>13. CASE p = d
  <2>1. t = d
    BY <1>10, <1>13 DEF RecvType
  <2>2. LineOf(s, d) = Line(A, <<>>, Cat(x, y), D, E, F, G)
    BY <1>4, <1>9, <1>13, <2>1 DEF LineOf
  <2>3. Held(Server)' = Held(Server) /\ mq'[ServerType] = mq[ServerType]
    BY <1>5, <1>6, <1>10, <1>13, <2>1
  <2>4. LineOf(s, d)' = Line(A, x, y, D, E, F, G)
    BY <1>4, <1>7, <1>13, <2>1, <2>3 DEF LineOf
  <2>5. x \in Seq(Slot) /\ y \in Seq(Slot)
    BY <1>9
  <2> HIDE DEF A, B, C, D, E, F, G, x, y
  <2>6. Moves(A, x, y, D, E, F, G)
    BY <1>11, <2>5, LineMoves, Zenon
  <2> QED
    BY <1>8, <2>2, <2>4, <2>6 DEF Moves
<1>14. CASE p # Server /\ p # d
  <2>1. t = p
    BY <1>14 DEF RecvType
  <2>2. Held(d)' = Held(d) /\ Held(Server)' = Held(Server)
    BY <1>5, <1>10, <1>14
  <2>3. mq'[d] = mq[d] /\ mq'[ServerType] = mq[ServerType]
    <3>1. p # ServerType
      BY <1>14, SlotFacts
    <3> QED
      BY <1>6, <1>10, <1>14, <2>1, <3>1
  <2> QED
    BY <1>7, <2>2, <2>3, PartsSame, Zenon
<1> QED
  BY <1>12, <1>13, <1>14

LEMMA HandSame ==
  ASSUME mpc'[Server] = mpc[Server], hand' = hand
  PROVE  InHand' = InHand
BY DEF InHand

(* A receive thread puts its message behind the queue in memory. *)
LEMMA GotFlow ==
  ASSUME TypeOK, TypeOK', NEW p \in Procs, rpc[p] = "got", GotoRecv(p, "test"),
         queue' = [queue EXCEPT ![p] = Append(@, rmsg[p])],
         rmsg' = IF p = Server THEN [rmsg EXCEPT ![p] = Junk] ELSE rmsg,
         UNCHANGED <<mpc, mq, hand>>,
         NEW s \in Clients, NEW d \in Clients
  PROVE  InFlight(s, d)' = InFlight(s, d)
<1>1. /\ rpc \in [Procs -> RecvPC] /\ rmsg \in [Procs -> Slot]
      /\ queue \in [Procs -> Seq(Slot)]
  BY DEF TypeOK, ProcTypes, DataTypes
<1>2. rpc' = [rpc EXCEPT ![p] = "test"]
  BY DEF GotoRecv
<1> DEFINE h == <<rmsg[p]>>
<1>3. Held(p) = h /\ Held(p)' = <<>>
  BY <1>1, <1>2 DEF Held
<1>4. \A q \in Procs : q # p => Held(q)' = Held(q) /\ queue'[q] = queue[q]
  <2>1. ASSUME NEW q \in Procs, q # p
        PROVE  rpc'[q] = rpc[q] /\ rmsg'[q] = rmsg[q] /\ queue'[q] = queue[q]
    BY <1>1, <1>2, <2>1
  <2> QED
    BY <2>1, HeldSame
<1>5. InHand' = InHand /\ mq' = mq
  BY HandSame
<1>6. InFlight(s, d) = LineOf(s, d) /\ InFlight(s, d)' = LineOf(s, d)'
  BY InFlightLine, InFlightLineNext, Zenon DEF InLine
<1>7. d \in Procs /\ d # Server /\ Server \in Procs
  BY SlotFacts
<1> DEFINE A == Of(queue[d], s, d)
           B == Of(Held(d), s, d)
           C == Of(mq[d], s, d)
           D == Of(InHand, s, d)
           E == Of(queue[Server], s, d)
           F == Of(Held(Server), s, d)
           G == Of(mq[ServerType], s, d)
           x == Of(h, s, d)
<1>8. /\ Of(queue'[p], s, d) = Cat(Of(queue[p], s, d), x)
      /\ x \in Seq(Slot) /\ Of(<<>>, s, d) = <<>>
  <2>1. rmsg[p] \in Slot /\ h \in Seq(Slot) /\ queue[p] \in Seq(Slot)
    BY <1>1
  <2>2. queue'[p] = Append(queue[p], rmsg[p])
    BY <1>1
  <2>3. Of(Append(queue[p], rmsg[p]), s, d) = Cat(Of(queue[p], s, d), x)
    <3> DEFINE q == queue[p]
               m == rmsg[p]
    <3>1. q \in Seq(Slot) /\ m \in Slot
      BY <2>1
    <3> HIDE DEF q, m
    <3>2. Of(Append(q, m), s, d) = Cat(Of(q, s, d), Of(<<m>>, s, d))
      BY <3>1, OfEnds
    <3> QED
      BY <3>2 DEF q, m
  <2> QED
    BY <2>1, <2>2, <2>3, OfSeq
<1>9. /\ A \in Seq(Slot) /\ B \in Seq(Slot) /\ C \in Seq(Slot) /\ D \in Seq(Slot)
      /\ E \in Seq(Slot) /\ F \in Seq(Slot) /\ G \in Seq(Slot)
  BY PartsSeq
<1>10. CASE p = Server
  <2>1. LineOf(s, d) = Line(A, B, C, D, E, x, G)
    BY <1>3, <1>10 DEF LineOf
  <2>2. Held(d)' = Held(d) /\ queue'[d] = queue[d]
    BY <1>4, <1>7, <1>10
  <2>3. LineOf(s, d)' = Line(A, B, C, D, Cat(E, x), <<>>, G)
    BY <1>3, <1>5, <1>8, <1>10, <2>2 DEF LineOf
  <2> HIDE DEF A, B, C, D, E, G, x
  <2>4. Moves(A, B, C, D, E, x, G)
    BY <1>8, <1>9, LineMoves, Zenon
  <2> QED
    BY <1>6, <2>1, <2>3, <2>4 DEF Moves
<1>11. CASE p = d
  <2>1. LineOf(s, d) = Line(A, x, C, D, E, F, G)
    BY <1>3, <1>11 DEF LineOf
  <2>2. Held(Server)' = Held(Server) /\ queue'[Server] = queue[Server]
    BY <1>4, <1>7, <1>11
  <2>3. LineOf(s, d)' = Line(Cat(A, x), <<>>, C, D, E, F, G)
    BY <1>3, <1>5, <1>8, <1>11, <2>2 DEF LineOf
  <2> HIDE DEF A, C, D, E, F, G, x
  <2>4. Moves(A, x, C, D, E, F, G)
    BY <1>8, <1>9, LineMoves, Zenon
  <2> QED
    BY <1>6, <2>1, <2>3, <2>4 DEF Moves
<1>12. CASE p # Server /\ p # d
  BY <1>4, <1>5, <1>7, <1>12, PartsSame
<1> QED
  BY <1>10, <1>11, <1>12

(* The server's main thread takes a message from memory. *)
LEMMA TakeFlow ==
  ASSUME TypeOK, TypeOK', mpc[Server] = "take", GotoMain(Server, "fwd"),
         queue[Server] # <<>>, hand' = Head(queue[Server]),
         queue' = [queue EXCEPT ![Server] = Tail(@)],
         UNCHANGED <<mq, rpc, rmsg>>,
         NEW s \in Clients, NEW d \in Clients
  PROVE  InFlight(s, d)' = InFlight(s, d)
<1> DEFINE h == <<Head(queue[Server])>>
           r == Tail(queue[Server])
<1>1. mpc \in [Procs -> MainPC] /\ queue \in [Procs -> Seq(Slot)]
  BY DEF TypeOK, ProcTypes, DataTypes
<1>2. d \in Procs /\ d # Server /\ Server \in Procs
  BY SlotFacts
<1>3. InHand = <<>> /\ InHand' = h
  BY <1>1, <1>2 DEF InHand, GotoMain
<1>4. queue'[d] = queue[d] /\ queue'[Server] = r
  BY <1>1, <1>2
<1>5. Held(d)' = Held(d) /\ Held(Server)' = Held(Server) /\ mq' = mq
  BY DEF Held
<1>6. InFlight(s, d) = LineOf(s, d) /\ InFlight(s, d)' = LineOf(s, d)'
  BY InFlightLine, InFlightLineNext, Zenon DEF InLine
<1> DEFINE A == Of(queue[d], s, d)
           B == Of(Held(d), s, d)
           C == Of(mq[d], s, d)
           D == Of(InHand, s, d)
           E == Of(queue[Server], s, d)
           F == Of(Held(Server), s, d)
           G == Of(mq[ServerType], s, d)
           x == Of(h, s, d)
           y == Of(r, s, d)
<1>7. E = Cat(x, y) /\ x \in Seq(Slot) /\ y \in Seq(Slot) /\ Of(<<>>, s, d) = <<>>
  <2>1. queue[Server] \in Seq(Slot)
    BY <1>1, <1>2
  <2>2. h \in Seq(Slot) /\ r \in Seq(Slot)
    BY <2>1
  <2> QED
    BY <2>1, <2>2, OfEnds, OfSeq
<1>8. /\ A \in Seq(Slot) /\ B \in Seq(Slot) /\ C \in Seq(Slot) /\ D \in Seq(Slot)
      /\ E \in Seq(Slot) /\ F \in Seq(Slot) /\ G \in Seq(Slot)
  BY PartsSeq
<1>9. LineOf(s, d) = Line(A, B, C, <<>>, Cat(x, y), F, G)
  BY <1>3, <1>7 DEF LineOf
<1>10. LineOf(s, d)' = Line(A, B, C, x, y, F, G)
  BY <1>3, <1>4, <1>5 DEF LineOf
<1> HIDE DEF A, B, C, F, G, x, y
<1>11. Moves(A, B, C, x, y, F, G)
  BY <1>7, <1>8, LineMoves, Zenon
<1> QED
  BY <1>6, <1>9, <1>10, <1>11 DEF Moves

(* The server puts it into the kernel's queue, under the type of its destination. *)
LEMMA ForwardFlow ==
  ASSUME TypeOK, TypeOK', HandOK, mpc[Server] = "fwd", GotoMain(Server, "loop"),
         Kernel!MsgSnd(msgid[Server], hand.dst, hand),
         UNCHANGED <<queue, rpc, rmsg>>,
         NEW s \in Clients, NEW d \in Clients
  PROVE  InFlight(s, d)' = InFlight(s, d)
<1> DEFINE h == <<hand>>
<1>1. mpc \in [Procs -> MainPC] /\ mq \in [1 .. ServerType -> Seq(Slot)]
  BY DEF TypeOK, ProcTypes, Kernel!QueueTypeOK
<1>2. /\ d \in Procs /\ d # Server /\ Server \in Procs /\ d \in 1 .. ServerType
      /\ ServerType \in 1 .. ServerType /\ ServerType \notin Clients
  BY SlotFacts
<1>3. InHand = h /\ InHand' = <<>>
  BY <1>1, <1>2 DEF InHand, GotoMain
<1>4. hand \in Slot /\ hand.dst \in Clients
  BY DEF HandOK, FromClients, Message, Slot
<1>5. Held(d)' = Held(d) /\ Held(Server)' = Held(Server) /\ queue' = queue
  BY DEF Held
<1>6. mq' = [mq EXCEPT ![hand.dst] = Append(@, hand)]
  BY DEF Kernel!MsgSnd
<1>7. mq'[ServerType] = mq[ServerType]
  BY <1>1, <1>2, <1>4, <1>6
<1>8. InFlight(s, d) = LineOf(s, d) /\ InFlight(s, d)' = LineOf(s, d)'
  BY InFlightLine, InFlightLineNext, Zenon DEF InLine
<1> DEFINE A == Of(queue[d], s, d)
           B == Of(Held(d), s, d)
           C == Of(mq[d], s, d)
           D == Of(InHand, s, d)
           E == Of(queue[Server], s, d)
           F == Of(Held(Server), s, d)
           G == Of(mq[ServerType], s, d)
<1>9. /\ A \in Seq(Slot) /\ B \in Seq(Slot) /\ C \in Seq(Slot) /\ D \in Seq(Slot)
      /\ E \in Seq(Slot) /\ F \in Seq(Slot) /\ G \in Seq(Slot)
  BY PartsSeq
<1>10. Of(<<>>, s, d) = <<>>
  BY OfSeq
<1>11. LineOf(s, d) = Line(A, B, C, D, E, F, G)
  BY DEF LineOf
<1>12. CASE hand.dst = d
  <2>1. mq[d] \in Seq(Slot) /\ mq'[d] = Append(mq[d], hand)
    BY <1>1, <1>2, <1>6, <1>12
  <2>2. Of(mq'[d], s, d) = Cat(C, D)
    <3> DEFINE q == mq[d]
    <3>1. q \in Seq(Slot)
      BY <2>1
    <3> HIDE DEF q
    <3>2. Of(Append(q, hand), s, d) = Cat(Of(q, s, d), Of(<<hand>>, s, d))
      BY <1>4, <3>1, OfEnds
    <3> QED
      BY <1>3, <2>1, <3>2 DEF q
  <2>3. LineOf(s, d)' = Line(A, B, Cat(C, D), <<>>, E, F, G)
    BY <1>3, <1>5, <1>7, <1>10, <2>2 DEF LineOf
  <2> HIDE DEF A, B, C, D, E, F, G
  <2>4. Moves(A, B, C, D, E, F, G)
    BY <1>9, LineMoves, Zenon
  <2> QED
    BY <1>8, <1>11, <2>3, <2>4 DEF Moves
<1>13. CASE hand.dst # d
  <2>1. mq'[d] = mq[d]
    BY <1>1, <1>2, <1>4, <1>6, <1>13
  <2>2. hand \notin FromTo(s, d)
    BY <1>13 DEF FromTo
  <2>3. D = <<>>
    BY <1>3, <2>2, OfOne
  <2>4. LineOf(s, d)' = Line(A, B, C, <<>>, E, F, G)
    BY <1>3, <1>5, <1>7, <1>10, <2>1 DEF LineOf
  <2> QED
    BY <1>8, <1>11, <2>3, <2>4
<1> QED
  BY <1>12, <1>13

(* A client's message comes in at the end. *)
LEMMA SendFlow ==
  ASSUME TypeOK, TypeOK', NEW c \in Clients, NEW id, NEW m \in Slot,
         Kernel!MsgSnd(id, ServerType, m), UNCHANGED <<queue, rpc, rmsg, hand>>,
         mpc'[Server] = mpc[Server], NEW s \in Clients, NEW d \in Clients
  PROVE  InFlight(s, d)' = Cat(InFlight(s, d), Of(<<m>>, s, d))
<1> DEFINE q == mq[ServerType]
<1>1. mq \in [1 .. ServerType -> Seq(Slot)]
  BY DEF TypeOK, Kernel!QueueTypeOK
<1>2. /\ d \in 1 .. ServerType /\ d # ServerType /\ ServerType \in 1 .. ServerType
      /\ mq' = [mq EXCEPT ![ServerType] = Append(@, m)]
  BY SlotFacts DEF Kernel!MsgSnd
<1>3. q \in Seq(Slot) /\ mq'[ServerType] = Append(q, m) /\ mq'[d] = mq[d]
  BY <1>1, <1>2
<1>4. InHand' = InHand /\ Held(d)' = Held(d) /\ Held(Server)' = Held(Server)
  BY HandSame DEF Held
<1>5. InFlight(s, d) = LineOf(s, d) /\ InFlight(s, d)' = LineOf(s, d)'
  BY InFlightLine, InFlightLineNext, Zenon DEF InLine
<1> DEFINE A == Of(queue[d], s, d)
           B == Of(Held(d), s, d)
           C == Of(mq[d], s, d)
           D == Of(InHand, s, d)
           E == Of(queue[Server], s, d)
           F == Of(Held(Server), s, d)
           G == Of(q, s, d)
           x == Of(<<m>>, s, d)
<1>6. /\ A \in Seq(Slot) /\ B \in Seq(Slot) /\ C \in Seq(Slot) /\ D \in Seq(Slot)
      /\ E \in Seq(Slot) /\ F \in Seq(Slot) /\ G \in Seq(Slot)
  BY PartsSeq
<1>7. LineOf(s, d) = Line(A, B, C, D, E, F, G)
  BY DEF LineOf
<1>8. x \in Seq(Slot)
  <2>1. <<m>> \in Seq(Slot)
    OBVIOUS
  <2> QED
    BY <2>1, OfSeq
<1>9. Of(mq'[ServerType], s, d) = Cat(G, x)
  <2> HIDE DEF q
  <2>1. Of(Append(q, m), s, d) = Cat(Of(q, s, d), Of(<<m>>, s, d))
    BY <1>3, OfEnds
  <2> QED
    BY <1>3, <2>1
<1>10. LineOf(s, d)' = Line(A, B, C, D, E, F, Cat(G, x))
  BY <1>3, <1>4, <1>9 DEF LineOf
<1> HIDE DEF A, B, C, D, E, F, G, x
<1>11. Ends(A, B, C, D, E, F, G, x)
  BY <1>6, <1>8, LineEnds, Zenon
<1> QED
  BY <1>5, <1>7, <1>10, <1>11 DEF Ends, x

(* A client takes out what is in front. *)
LEMMA PopFlow ==
  ASSUME TypeOK, TypeOK', NEW c \in Clients, queue[c] # <<>>,
         queue' = [queue EXCEPT ![c] = Tail(@)],
         UNCHANGED <<mq, rpc, rmsg, hand>>,
         mpc'[Server] = mpc[Server], NEW s \in Clients, NEW d \in Clients
  PROVE  IF d = c THEN InFlight(s, d) = Cat(Of(<<Head(queue[c])>>, s, d), InFlight(s, d)')
                       /\ InFlight(s, d)' \in Seq(Slot)
                  ELSE InFlight(s, d)' = InFlight(s, d)
<1> DEFINE q == queue[c]
<1>1. queue \in [Procs -> Seq(Slot)]
  BY DEF TypeOK, DataTypes
<1>2. c \in Procs /\ d \in Procs /\ Server \in Procs /\ c # Server /\ d # Server
  BY SlotFacts
<1>3. /\ q \in Seq(Slot) /\ q # <<>> /\ queue'[c] = Tail(q)
      /\ queue'[Server] = queue[Server]
      /\ d # c => queue'[d] = queue[d]
  BY <1>1, <1>2
<1>4. /\ InHand' = InHand /\ Held(d)' = Held(d) /\ Held(Server)' = Held(Server)
      /\ mq' = mq
  BY HandSame DEF Held
<1>5. CASE d # c
  <2>1. queue'[d] = queue[d]
    BY <1>3, <1>5
  <2>2. InFlight(s, d)' = InFlight(s, d)
    BY <1>3, <1>4, <2>1, PartsSame
  <2> QED
    BY <1>5, <2>2
<1>6. CASE d = c
  <2>1. InFlight(s, d) = LineOf(s, d) /\ InFlight(s, d)' = LineOf(s, d)'
    BY InFlightLine, InFlightLineNext, Zenon DEF InLine
  <2> DEFINE x == Of(<<Head(q)>>, s, d)
             y == Of(Tail(q), s, d)
             B == Of(Held(d), s, d)
             C == Of(mq[d], s, d)
             D == Of(InHand, s, d)
             E == Of(queue[Server], s, d)
             F == Of(Held(Server), s, d)
             G == Of(mq[ServerType], s, d)
  <2>2. /\ B \in Seq(Slot) /\ C \in Seq(Slot) /\ D \in Seq(Slot)
        /\ E \in Seq(Slot) /\ F \in Seq(Slot) /\ G \in Seq(Slot)
    BY PartsSeq
  <2>3. x \in Seq(Slot) /\ y \in Seq(Slot)
    <3>1. <<Head(q)>> \in Seq(Slot) /\ Tail(q) \in Seq(Slot)
      BY <1>3
    <3> QED
      BY <3>1, OfSeq
  <2>4. Of(queue[d], s, d) = Cat(x, y)
    <3> HIDE DEF q
    <3>1. Of(q, s, d) = Cat(Of(<<Head(q)>>, s, d), Of(Tail(q), s, d))
      BY <1>3, OfEnds
    <3> QED
      BY <1>6, <3>1 DEF q
  <2>5. LineOf(s, d) = Line(Cat(x, y), B, C, D, E, F, G)
    BY <2>4 DEF LineOf
  <2>6. LineOf(s, d)' = Line(y, B, C, D, E, F, G)
    BY <1>3, <1>4, <1>6 DEF LineOf
  <2> HIDE DEF B, C, D, E, F, G, y
  <2>7. Ends(y, B, C, D, E, F, G, x)
    <3> HIDE DEF x
    <3> QED
      BY <2>2, <2>3, LineEnds, Zenon
  <2>8. Line(y, B, C, D, E, F, G) \in Seq(Slot)
    BY <2>2, <2>3, LineSeq, Zenon
  <2> QED
    BY <1>6, <2>1, <2>5, <2>6, <2>7, <2>8 DEF Ends
<1> QED
  BY <1>5, <1>6

(* The messages of s to d from number lo up to but not including number hi. *)
Sequel(s, d, lo, hi) ==
  [i \in 1 .. hi - lo |-> [src |-> s, dst |-> d, seq |-> lo + i - 1]]

IsSequel(q, s, d, lo, hi) ==
  /\ q \in Seq([src : {s}, dst : {d}, seq : Nat])
  /\ Len(q) = hi - lo
  /\ \A n \in 1 .. hi - lo : q[n] = [src |-> s, dst |-> d, seq |-> lo + n - 1]

LEMMA SequelSeq ==
  ASSUME NEW s, NEW d, NEW lo \in Nat, NEW hi \in Nat, lo <= hi
  PROVE  IsSequel(Sequel(s, d, lo, hi), s, d, lo, hi)
<1> DEFINE Y == [src : {s}, dst : {d}, seq : Nat]
           e(i) == [src |-> s, dst |-> d, seq |-> lo + i - 1]
           k == hi - lo
           q == [i \in 1 .. k |-> e(i)]
<1>1. k \in Nat
  OBVIOUS
<1>2. Sequel(s, d, lo, hi) = q
  BY DEF Sequel
<1>3. \A i \in 1 .. k : e(i) \in Y
  OBVIOUS
<1> HIDE DEF Y, e, k
<1>4. q \in Seq(Y) /\ Len(q) = k /\ \A i \in 1 .. k : q[i] = e(i)
  BY <1>1, <1>3
<1> HIDE DEF q
<1> QED
  BY <1>2, <1>4 DEF e, Y, k, IsSequel

LEMMA SameSeq ==
  ASSUME NEW X, NEW p \in Seq(X), NEW q \in Seq(X), Len(p) = Len(q),
         \A n \in 1 .. Len(p) : p[n] = q[n]
  PROVE  p = q
OBVIOUS

LEMMA SequelGrows ==
  ASSUME NEW s, NEW d, NEW lo \in Nat, NEW hi \in Nat, lo <= hi
  PROVE  Cat(Sequel(s, d, lo, hi), <<[src |-> s, dst |-> d, seq |-> hi]>>)
           = Sequel(s, d, lo, hi + 1)
<1> DEFINE k == hi - lo
           Y == [src : {s}, dst : {d}, seq : Nat]
           m == [src |-> s, dst |-> d, seq |-> hi]
           e(n) == [src |-> s, dst |-> d, seq |-> lo + n - 1]
           q == Sequel(s, d, lo, hi)
           r == Sequel(s, d, lo, hi + 1)
<1>1. k \in Nat /\ k + 1 \in Nat /\ k + 1 = (hi + 1) - lo /\ lo <= hi + 1
  OBVIOUS
<1>2. q \in Seq(Y) /\ Len(q) = k /\ \A n \in 1 .. k : q[n] = e(n)
  <2>1. IsSequel(q, s, d, lo, hi)
    BY SequelSeq
  <2> QED
    BY <2>1 DEF IsSequel
<1>3. r \in Seq(Y) /\ Len(r) = k + 1 /\ \A n \in 1 .. k + 1 : r[n] = e(n)
  <2> DEFINE h == hi + 1
  <2>1. h \in Nat /\ lo <= h /\ h - lo = k + 1
    OBVIOUS
  <2> HIDE DEF h
  <2>2. IsSequel(Sequel(s, d, lo, h), s, d, lo, h)
    BY <2>1, SequelSeq
  <2> HIDE DEF k
  <2> QED
    BY <2>1, <2>2 DEF h, IsSequel
<1>4. m \in Y /\ e(k + 1) = m
  BY <1>1
<1> HIDE DEF Y, m, e, q, r, k
<1>5. q \o <<m>> \in Seq(Y) /\ Len(q \o <<m>>) = k + 1
      /\ \A n \in 1 .. k + 1 : (q \o <<m>>)[n] = IF n = k + 1 THEN m ELSE q[n]
  BY <1>1, <1>2, <1>4
<1>6. \A n \in 1 .. k + 1 : (q \o <<m>>)[n] = r[n]
  <2> SUFFICES ASSUME NEW n \in 1 .. k + 1 PROVE (q \o <<m>>)[n] = r[n]
    OBVIOUS
  <2>1. CASE n = k + 1
    BY <1>3, <1>4, <1>5, <2>1
  <2>2. CASE n # k + 1
    <3>1. n \in 1 .. k
      BY <1>1, <2>2
    <3> QED
      BY <1>2, <1>3, <1>5, <2>2, <3>1
  <2> QED
    BY <2>1, <2>2
<1>7. q \o <<m>> = r
  BY <1>3, <1>5, <1>6, SameSeq
<1> QED
  BY <1>7 DEF Cat, q, r, m

LEMMA SequelShrinks ==
  ASSUME NEW s, NEW d, NEW lo \in Nat, NEW hi \in Nat, lo <= hi,
         NEW X, NEW m \in X, NEW q \in Seq(X),
         Cat(<<m>>, q) = Sequel(s, d, lo, hi)
  PROVE  /\ lo < hi
         /\ m = [src |-> s, dst |-> d, seq |-> lo]
         /\ q = Sequel(s, d, lo + 1, hi)
<1> DEFINE k == hi - lo
           j == k - 1
           e(n) == [src |-> s, dst |-> d, seq |-> lo + n - 1]
           r == Sequel(s, d, lo, hi)
           u == Sequel(s, d, lo + 1, hi)
<1>1. k \in Nat /\ hi = lo + k
  OBVIOUS
<1>2. Len(r) = k /\ \A n \in 1 .. k : r[n] = e(n)
  <2>1. IsSequel(r, s, d, lo, hi)
    BY SequelSeq
  <2> QED
    BY <2>1 DEF IsSequel
<1>3. Len(r) = Len(q) + 1 /\ r[1] = m /\ Len(q) \in Nat
      /\ \A n \in 1 .. Len(q) : r[n + 1] = q[n]
  BY DEF Cat
<1>4. j \in Nat /\ j = Len(q) /\ lo < hi /\ j = hi - (lo + 1)
  <2>1. k = Len(q) + 1 /\ Len(q) \in Nat
    <3> HIDE DEF k, r
    <3> QED
      BY <1>2, <1>3
  <2> QED
    BY <1>1, <2>1
<1>5. m = [src |-> s, dst |-> d, seq |-> lo]
  <2>1. r[1] = e(1)
    BY <1>2, <1>4
  <2> QED
    BY <1>3, <2>1
<1>6. /\ u \in Seq([src : {s}, dst : {d}, seq : Nat]) /\ Len(u) = j
      /\ \A n \in 1 .. j : u[n] = [src |-> s, dst |-> d, seq |-> (lo + 1) + n - 1]
  <2> DEFINE l == lo + 1
  <2>1. l \in Nat /\ l <= hi /\ j = hi - l
    BY <1>4
  <2> HIDE DEF j, l
  <2>2. IsSequel(Sequel(s, d, l, hi), s, d, l, hi)
    BY <2>1, SequelSeq
  <2> QED
    BY <2>1, <2>2 DEF l, IsSequel
<1>7. \A n \in 1 .. j : q[n] = u[n]
  <2> SUFFICES ASSUME NEW n \in 1 .. j PROVE q[n] = u[n]
    OBVIOUS
  <2>1. q[n] = r[n + 1] /\ r[n + 1] = e(n + 1)
    BY <1>2, <1>3, <1>4
  <2>2. u[n] = [src |-> s, dst |-> d, seq |-> (lo + 1) + n - 1]
    BY <1>6
  <2>3. (lo + 1) + n - 1 = lo + (n + 1) - 1
    OBVIOUS
  <2> QED
    BY <2>1, <2>2, <2>3
<1> HIDE DEF j, u
<1>8. q = u
  <2>1. q \in Seq(X \union [src : {s}, dst : {d}, seq : Nat])
    OBVIOUS
  <2>2. u \in Seq(X \union [src : {s}, dst : {d}, seq : Nat])
    BY <1>6
  <2> QED
    BY <1>4, <1>6, <1>7, <2>1, <2>2, SameSeq
<1> QED
  BY <1>4, <1>5, <1>8 DEF u

-----------------------------------------------------------------------------
(***************************************************************************)
(* The promise of InOrderOnce, for one pair of clients.                    *)
(***************************************************************************)
OrderedAt(s, d) ==
  /\ shown[d][s] <= sent[s][d]
  /\ InFlight(s, d) = Sequel(s, d, shown[d][s], sent[s][d])

Ordered == Steady => \A s, d \in Clients : OrderedAt(s, d)

SameCounts(s, d) == sent'[s][d] = sent[s][d] /\ shown'[d][s] = shown[d][s]

LEMMA KeptOrdered ==
  ASSUME NEW s \in Clients, NEW d \in Clients, OrderedAt(s, d), SameCounts(s, d),
         InFlight(s, d)' = InFlight(s, d)
  PROVE  OrderedAt(s, d)'
BY DEF OrderedAt, SameCounts

LEMMA CountsNat ==
  ASSUME TypeOK, NEW s \in Clients, NEW d \in Clients
  PROVE  sent[s][d] \in Nat /\ shown[d][s] \in Nat
BY DEF TypeOK, CountTypes

(* Starting changes nothing that is under way. *)
LEMMA StartOrdered ==
  ASSUME TypeOK, Orderly, Steady, NEW p \in Procs, Start(p),
         NEW s \in Clients, NEW d \in Clients, OrderedAt(s, d)
  PROVE  OrderedAt(s, d)'
<1>1. /\ UNCHANGED <<data, ghost>>
      /\ rpc' = [rpc EXCEPT ![p] = "off"] /\ mpc[p] \in {"off", "done"}
      /\ \E v \in {"init", "done"} : mpc' = [mpc EXCEPT ![p] = v]
      /\ UNCHANGED qvars \/ Kernel!MsgGet
  BY DEF Start, GotoRecv, GotoMain, Live
<1>2. mpc \in [Procs -> MainPC] /\ rpc \in [Procs -> RecvPC]
  BY DEF TypeOK, ProcTypes
<1>3. mpc[p] = "off" /\ rpc[p] = "off"
  BY <1>1, SteadyRuns DEF Orderly, OrderlyAt
<1>4. rpc' = rpc
  BY <1>1, <1>2, <1>3
<1>5. InHand' = InHand
  <2>1. Server \in Procs
    BY SlotFacts
  <2>2. CASE p = Server
    BY <1>1, <1>2, <1>3, <2>2 DEF InHand
  <2>3. CASE p # Server
    BY <1>1, <1>2, <2>1, <2>3, HandSame DEF data
  <2> QED
    BY <2>2, <2>3
<1>6. mq' = mq
  BY <1>1 DEF qvars, Kernel!MsgGet, Kernel!qvars, Orderly, Emptied
<1>7. /\ queue' = queue /\ \A q \in Procs : Held(q)' = Held(q)
  BY <1>1, <1>4 DEF data, Held
<1>8. InFlight(s, d)' = InFlight(s, d)
  BY <1>5, <1>6, <1>7, SlotFacts, PartsSame
<1> QED
  BY <1>1, <1>8, KeptOrdered DEF ghost, SameCounts

(* A ctrl-C is the end of Steady, but for a process that has not begun. *)
LEMMA SigIntOrdered ==
  ASSUME TypeOK, Orderly, Steady, Steady', NEW p \in Procs, SigInt(p),
         NEW s \in Clients, NEW d \in Clients, OrderedAt(s, d)
  PROVE  OrderedAt(s, d)'
<1>1. mpc \in [Procs -> MainPC] /\ is_running \in [Procs -> BOOLEAN]
  BY DEF TypeOK, ProcTypes
<1>2. mpc'[p] \in {"off", "init"}
  BY <1>1 DEF SigInt, Steady
<1>3. ~RecvInterrupted(p)
  BY <1>2, SteadyRuns DEF RecvInterrupted
<1>4. ~SendInterrupted(p)
  <2>1. mpc[p] # "quit"
    BY SteadyRuns
  <2> QED
    BY <1>1, <1>2, <2>1 DEF SendInterrupted, Numbered, GotoMain
<1>5. UNCHANGED <<mpc, rpc, rmsg, hand, sent, mq, queue, shown>>
  BY <1>3, <1>4 DEF SigInt, qvars
<1>6. InHand' = InHand /\ \A q \in Procs : Held(q)' = Held(q)
  BY <1>5 DEF InHand, Held
<1>7. InFlight(s, d)' = InFlight(s, d)
  BY <1>5, <1>6, SlotFacts, PartsSame
<1> QED
  BY <1>5, <1>7, KeptOrdered DEF SameCounts

LEMMA RecvThreadOrdered ==
  ASSUME TypeOK, TypeOK', Orderly, Attached, Steady, Steady', NEW p \in Procs, RecvThread(p),
         NEW s \in Clients, NEW d \in Clients, OrderedAt(s, d)
  PROVE  OrderedAt(s, d)'
<1>1. /\ rpc[p] \in {"test", "rcv", "got"} /\ UNCHANGED ghost /\ UNCHANGED mpc
      /\ UNCHANGED hand /\ UNCHANGED msgid
  BY DEF RecvThread, RecvTest, Recv, RecvGot, data
<1>2. mpc[p] \notin {"off", "init", "done"}
  BY <1>1, SteadyRuns
<1>3. InFlight(s, d)' = InFlight(s, d)
  <2>1. CASE RecvTest(p)
    <3>1. \A q \in Procs : Held(q)' = Held(q)
      BY <2>1 DEF RecvTest, GotoRecv, Held, TypeOK, ProcTypes, data
    <3>2. InHand' = InHand /\ queue' = queue /\ mq' = mq
      BY <2>1 DEF RecvTest, InHand, data, qvars
    <3> QED
      BY <3>1, <3>2, SlotFacts, PartsSame
  <2>2. CASE Recv(p)
    <3>1. Kernel!Good(msgid[p])
      BY <1>2 DEF Attached
    <3>2. ~Kernel!MsgFail(msgid[p])
      BY <3>1 DEF Kernel!MsgFail
    <3>3. /\ rpc[p] = "rcv" /\ Kernel!MsgRcv(msgid[p], RecvType(p))
          /\ rmsg' = [rmsg EXCEPT ![p] = Head(mq[RecvType(p)])]
          /\ GotoRecv(p, "got") /\ UNCHANGED <<mpc, queue, hand>>
      BY <2>2, <3>2 DEF Recv
    <3> QED
      BY <3>3, RecvFlow
  <2>3. CASE RecvGot(p)
    <3>1. is_running'[p]
      BY <1>1, <1>2 DEF Steady
    <3>2. ~(p \in Clients /\ IsQuit(rmsg[p]))
      BY <2>3, <3>1 DEF RecvGot, TypeOK, ProcTypes
    <3>3. /\ rpc[p] = "got" /\ GotoRecv(p, "test")
          /\ queue' = [queue EXCEPT ![p] = Append(@, rmsg[p])]
          /\ rmsg' = IF p = Server THEN [rmsg EXCEPT ![p] = Junk] ELSE rmsg
          /\ UNCHANGED <<mpc, mq, hand>>
      BY <2>3, <3>2 DEF RecvGot, Push, qvars
    <3> QED
      BY <3>3, GotFlow
  <2> QED
    BY <2>1, <2>2, <2>3 DEF RecvThread
<1> QED
  BY <1>1, <1>3, KeptOrdered DEF SameCounts, ghost

LEMMA ServerOrdered ==
  ASSUME TypeOK, TypeOK', HandOK, Orderly, Attached, Steady, Steady', ServerMain,
         NEW s \in Clients, NEW d \in Clients, OrderedAt(s, d)
  PROVE  OrderedAt(s, d)'
<1>1. mpc[Server] \notin {"quit", "join", "done"} /\ UNCHANGED ghost /\ Server \in Procs
  <2>1. mpc[Server] \notin {"quit", "join", "done"} /\ Server \in Procs
    BY SlotFacts, SteadyRuns
  <2> QED
    BY <2>1 DEF ServerMain, ServerLaunch, ServerLoop, ServerTake, ServerForward, ServerQuit,
       JoinAndRemove
<1>2. InFlight(s, d)' = InFlight(s, d)
  <2>1. CASE ServerLaunch \/ ServerLoop \/ (ServerTake /\ queue[Server] = <<>>)
    <3>1. UNCHANGED <<rmsg, queue, mq>>
      BY <2>1 DEF ServerLaunch, ServerLoop, ServerTake, data, qvars
    <3>2. InHand = <<>> /\ InHand' = <<>>
      BY <1>1, <2>1 DEF ServerLaunch, ServerLoop, ServerTake, InHand, GotoMain, TypeOK, ProcTypes
    <3>3. mpc[Server] = "init" => rpc[Server] = "off"
      BY <1>1 DEF Orderly, OrderlyAt
    <3>4. \A q \in Procs : Held(q)' = Held(q)
      BY <1>1, <2>1, <3>1, <3>3 DEF ServerLaunch, ServerLoop, ServerTake, GotoRecv, Held, TypeOK,
         ProcTypes
    <3> QED
      BY <3>1, <3>2, <3>4, SlotFacts, PartsSame
  <2>2. CASE ServerTake /\ queue[Server] # <<>>
    <3>1. /\ mpc[Server] = "take" /\ GotoMain(Server, "fwd")
          /\ hand' = Head(queue[Server])
          /\ queue' = [queue EXCEPT ![Server] = Tail(@)]
          /\ UNCHANGED <<mq, rpc, rmsg>>
      BY <2>2 DEF ServerTake, qvars
    <3> QED
      BY <2>2, <3>1, TakeFlow
  <2>3. CASE ServerForward
    <3>1. mpc[Server] = "fwd"
      BY <2>3 DEF ServerForward
    <3>2. ~Kernel!MsgFail(msgid[Server])
      BY <1>1, <3>1 DEF Attached, Kernel!MsgFail
    <3>3. /\ GotoMain(Server, "loop") /\ Kernel!MsgSnd(msgid[Server], hand.dst, hand)
          /\ UNCHANGED <<queue, rpc, rmsg>>
      BY <2>3, <3>2 DEF ServerForward
    <3> QED
      BY <3>1, <3>3, ForwardFlow
  <2> QED
    BY <1>1, <2>1, <2>2, <2>3 DEF ServerMain, ServerQuit, JoinAndRemove
<1> QED
  BY <1>1, <1>2, KeptOrdered DEF SameCounts, ghost

(* Main shows the first message of its queue in memory: the next one of its source. *)
LEMMA PopOrdered ==
  ASSUME SeqMod > MaxSends, IInv, TypeOK', GarbageOK, Orderly, Attached, Steady,
         NEW c \in Clients, ClientPop(c),
         NEW s \in Clients, NEW d \in Clients, OrderedAt(s, d)
  PROVE  OrderedAt(s, d)'
<1> DEFINE q == queue[c]
           m == Head(q)
<1>1. /\ mpc[c] = "pop" /\ q # <<>> /\ queue' = [queue EXCEPT ![c] = Tail(@)]
      /\ UNCHANGED <<mq, rpc, rmsg, hand, sent>> /\ GotoMain(c, "drain")
      /\ shown' = IF m.src \in Clients
                  THEN [shown EXCEPT ![c][m.src] = (m.seq + 1) % SeqMod]
                  ELSE shown
  BY DEF ClientPop, qvars
<1>2. TypeOK /\ c \in Procs /\ Server \in Procs /\ c # Server
  BY SlotFacts DEF IInv
<1>3. mpc'[Server] = mpc[Server]
  BY <1>1, <1>2 DEF GotoMain, TypeOK, ProcTypes
<1>4. m \in FromClients /\ m.dst = c
  <2>1. Working(c)
    BY <1>1, <1>2 DEF Working, Attached, Steady
  <2>2. q \in Seq(FromClients)
    BY <2>1 DEF GarbageOK
  <2>3. m \in FromClients
    BY <1>1, <2>2
  <2>4. m \in Stored(c)
    BY <1>1, <1>2 DEF IInv, StoredOK
  <2> QED
    BY <1>2, <2>3, <2>4, SlotFacts DEF Stored, FromClients
<1>5. m \in Message /\ m.src \in Clients /\ m.seq \in 0 .. SeqMod - 1
      /\ m = [src |-> m.src, dst |-> m.dst, seq |-> m.seq]
  BY <1>4 DEF FromClients, Message
<1>6. shown \in [Clients -> [Clients -> 0 .. SeqMod - 1]]
  BY <1>2 DEF TypeOK, CountTypes
<1>7. IF d = c THEN InFlight(s, d) = Cat(Of(<<m>>, s, d), InFlight(s, d)')
                    /\ InFlight(s, d)' \in Seq(Slot)
               ELSE InFlight(s, d)' = InFlight(s, d)
  BY <1>1, <1>2, <1>3, PopFlow
<1>8. sent' = sent /\ shown'[d][s] = IF d = c /\ s = m.src THEN (m.seq + 1) % SeqMod
                                                          ELSE shown[d][s]
  BY <1>1, <1>5, <1>6
<1> DEFINE lo == shown[d][s]
           hi == sent[s][d]
<1>9. lo \in Nat /\ hi \in Nat /\ lo <= hi /\ hi <= MaxSends
      /\ InFlight(s, d) = Sequel(s, d, lo, hi)
  BY <1>2, CountsNat DEF OrderedAt, Orderly, Counted
<1>10. CASE d = c /\ s = m.src
  <2>1. m \in FromTo(s, d)
    BY <1>4, <1>5, <1>10 DEF FromTo
  <2>2. Of(<<m>>, s, d) = <<m>>
    BY <2>1, OfOne
  <2>3. m \in Slot
    BY <1>5 DEF Slot
  <2> HIDE DEF m, lo, hi
  <2>4. Cat(<<m>>, InFlight(s, d)') = Sequel(s, d, lo, hi) /\ InFlight(s, d)' \in Seq(Slot)
    BY <1>7, <1>9, <1>10, <2>2
  <2>5. /\ lo < hi /\ m = [src |-> s, dst |-> d, seq |-> lo]
        /\ InFlight(s, d)' = Sequel(s, d, lo + 1, hi)
    <3> DEFINE f == InFlight(s, d)'
    <3>1. f \in Seq(Slot) /\ Cat(<<m>>, f) = Sequel(s, d, lo, hi)
      BY <2>4
    <3> HIDE DEF f
    <3>2. /\ lo < hi /\ m = [src |-> s, dst |-> d, seq |-> lo]
          /\ f = Sequel(s, d, lo + 1, hi)
      BY <1>9, <2>3, <3>1, SequelShrinks
    <3> QED
      BY <3>2 DEF f
  <2>6. m.seq = lo
    BY <2>5
  <2>7. lo + 1 \in Nat /\ lo + 1 < SeqMod /\ lo + 1 <= hi
    BY <1>9, <2>5
  <2>8. (lo + 1) % SeqMod = lo + 1
    BY <2>7, ModSmall
  <2>9. shown'[d][s] = lo + 1 /\ sent'[s][d] = hi
    BY <1>8, <1>10, <2>6, <2>8 DEF hi
  <2> QED
    BY <2>5, <2>7, <2>9 DEF OrderedAt
<1>11. CASE d = c /\ s # m.src
  <2>1. m \notin FromTo(s, d)
    BY <1>11 DEF FromTo
  <2>2. Of(<<m>>, s, d) = <<>>
    BY <2>1, OfOne
  <2>3. InFlight(s, d)' = InFlight(s, d)
    BY <1>7, <1>11, <2>2, CatLaws
  <2> QED
    BY <1>8, <1>11, <2>3, KeptOrdered DEF SameCounts
<1>12. CASE d # c
  BY <1>7, <1>8, <1>12, KeptOrdered DEF SameCounts
<1> QED
  BY <1>10, <1>11, <1>12

(* A client sends: one message more is under way, with the number after the last. *)
LEMMA SendOrdered ==
  ASSUME SeqMod > MaxSends, IInv, TypeOK', Orderly, Attached, Steady,
         NEW c \in Clients, ClientSend(c),
         NEW s \in Clients, NEW d \in Clients, OrderedAt(s, d)
  PROVE  OrderedAt(s, d)'
<1>1. /\ TypeOK /\ c \in Procs /\ Server \in Procs /\ c # Server
      /\ mpc \in [Procs -> MainPC]
  BY SlotFacts DEF IInv, TypeOK, ProcTypes
<1>2. mpc'[Server] = mpc[Server] /\ UNCHANGED <<rpc, rmsg, queue, hand, shown>>
  BY <1>1 DEF ClientSend, Numbered, GotoMain
<1>3. Kernel!Good(msgid[c])
  BY <1>1 DEF ClientSend, Attached
<1>4. CASE sent[c][NextDest(c)] < MaxSends
  <2> DEFINE k == sent[c][NextDest(c)]
             m == [src |-> c, dst |-> NextDest(c), seq |-> k]
  <2>1. Kernel!MsgSnd(msgid[c], ServerType, m) /\ Numbered(c)
    BY <1>3, <1>4 DEF ClientSend, Kernel!MsgFail
  <2>2. NextDest(c) \in Clients
    BY <1>1, NextDestOK DEF TypeOK, DataTypes
  <2>3. k \in 0 .. SeqMod - 1 /\ k < MaxSends
    BY <1>1, <1>4, <2>2, NumberOK DEF TypeOK
  <2>4. m \in Slot
    BY <1>1, <2>2, <2>3 DEF Slot, Message
  <2>5. InFlight(s, d)' = Cat(InFlight(s, d), Of(<<m>>, s, d))
    <3> HIDE DEF m
    <3> QED
      BY <1>1, <1>2, <2>1, <2>4, SendFlow
  <2>6. CASE s = c /\ d = NextDest(c)
    <3>1. m \in FromTo(s, d)
      BY <2>3, <2>6 DEF FromTo
    <3>2. Of(<<m>>, s, d) = <<m>>
      BY <3>1, OfOne
    <3> DEFINE lo == shown[d][s]
    <3>3. lo \in Nat /\ k \in Nat /\ lo <= k /\ InFlight(s, d) = Sequel(s, d, lo, k)
      BY <1>1, <2>6, CountsNat DEF OrderedAt
    <3>4. sent'[s][d] = k + 1
      <4>1. sent'[s][d] = (k + 1) % SeqMod
        BY <1>1, <2>1, <2>6, NumberedFacts
      <4>2. k + 1 \in Nat /\ k + 1 < SeqMod
        BY <2>3
      <4> QED
        BY <4>1, <4>2, ModSmall
    <3>5. InFlight(s, d)' = Sequel(s, d, lo, k + 1)
      <4> HIDE DEF lo, k
      <4>1. Cat(Sequel(s, d, lo, k), <<[src |-> s, dst |-> d, seq |-> k]>>)
              = Sequel(s, d, lo, k + 1)
        BY <3>3, SequelGrows
      <4> QED
        BY <2>5, <2>6, <3>2, <3>3, <4>1
    <3>6. shown'[d][s] = lo /\ lo <= k + 1
      BY <1>2, <3>3
    <3> HIDE DEF lo, k
    <3> QED
      BY <3>4, <3>5, <3>6 DEF OrderedAt
  <2>7. CASE s # c \/ d # NextDest(c)
    <3>1. m \notin FromTo(s, d)
      BY <2>7 DEF FromTo
    <3>2. Of(<<m>>, s, d) = <<>>
      BY <3>1, OfOne
    <3>3. sent'[s][d] = sent[s][d]
      BY <1>1, <2>1, <2>7, NumberedFacts
    <3>4. InFlight(s, d) \in Seq(Slot)
      <4>1. InFlight(s, d) = LineOf(s, d)
        BY <1>1, InFlightLine DEF InLine
      <4> DEFINE A == Of(queue[d], s, d)
                 B == Of(Held(d), s, d)
                 C == Of(mq[d], s, d)
                 D == Of(InHand, s, d)
                 E == Of(queue[Server], s, d)
                 F == Of(Held(Server), s, d)
                 G == Of(mq[ServerType], s, d)
      <4>2. /\ A \in Seq(Slot) /\ B \in Seq(Slot) /\ C \in Seq(Slot) /\ D \in Seq(Slot)
            /\ E \in Seq(Slot) /\ F \in Seq(Slot) /\ G \in Seq(Slot)
        BY <1>1, PartsSeq
      <4>3. LineOf(s, d) = Line(A, B, C, D, E, F, G)
        BY DEF LineOf
      <4> HIDE DEF A, B, C, D, E, F, G
      <4>4. Line(A, B, C, D, E, F, G) \in Seq(Slot)
        BY <4>2, LineSeq, Zenon
      <4> QED
        BY <4>1, <4>3, <4>4
    <3>5. InFlight(s, d)' = InFlight(s, d)
      BY <2>5, <3>2, <3>4, CatLaws
    <3> QED
      BY <1>2, <3>3, <3>5, KeptOrdered DEF SameCounts
  <2> QED
    BY <2>6, <2>7
<1>5. CASE ~(sent[c][NextDest(c)] < MaxSends)
  <2>1. UNCHANGED <<sent, mq>>
    BY <1>5 DEF ClientSend, qvars
  <2>2. InHand' = InHand /\ \A p \in Procs : Held(p)' = Held(p)
    BY <1>2, HandSame DEF Held
  <2>3. InFlight(s, d)' = InFlight(s, d)
    BY <1>2, <2>1, <2>2, SlotFacts, PartsSame
  <2> QED
    BY <1>2, <2>1, <2>3, KeptOrdered DEF SameCounts
<1> QED
  BY <1>4, <1>5

LEMMA ClientOrdered ==
  ASSUME SeqMod > MaxSends, IInv, TypeOK', GarbageOK, Orderly, Attached, Steady,
         NEW c \in Clients, ClientMain(c),
         NEW s \in Clients, NEW d \in Clients, OrderedAt(s, d)
  PROVE  OrderedAt(s, d)'
<1>1. /\ TypeOK /\ c \in Procs /\ Server \in Procs /\ c # Server
      /\ mpc \in [Procs -> MainPC] /\ rpc \in [Procs -> RecvPC]
  BY SlotFacts DEF IInv, TypeOK, ProcTypes
<1>2. ~JoinAndRemove(c)
  BY <1>1, SteadyRuns DEF JoinAndRemove
<1>3. CASE ClientLaunch(c) \/ ClientLoop(c) \/ ClientDrain(c)
  <2>1. UNCHANGED <<data, ghost, mq>> /\ mpc'[Server] = mpc[Server]
    BY <1>1, <1>3 DEF ClientLaunch, ClientLoop, ClientDrain, qvars, GotoMain
  <2>2. mpc[c] = "init" => rpc[c] = "off"
    BY <1>1 DEF Orderly, OrderlyAt
  <2>3. \A p \in Procs : Held(p)' = Held(p)
    BY <1>1, <1>3, <2>1, <2>2 DEF ClientLaunch, ClientLoop, ClientDrain, GotoRecv, Held, data
  <2>4. InHand' = InHand
    BY <2>1, HandSame DEF data
  <2>5. InFlight(s, d)' = InFlight(s, d)
    BY <2>1, <2>3, <2>4, SlotFacts, PartsSame DEF data
  <2> QED
    BY <2>1, <2>5, KeptOrdered DEF SameCounts, ghost
<1> QED
  BY <1>2, <1>3, PopOrdered, SendOrdered DEF ClientMain

LEMMA OrderedStep ==
  ASSUME SeqMod > MaxSends, IInv, TypeOK', GarbageOK, Orderly, Attached, Ordered, [Next]_vars
  PROVE  Attached' /\ Ordered'
<1>1. TypeOK /\ HandOK
  BY DEF IInv
<1>2. CASE UNCHANGED vars
  <2>1. UNCHANGED <<mq, msgid, mpc, rpc, rmsg, queue, hand, sent, shown>> /\ Steady' = Steady
        /\ UNCHANGED <<exists, qid>>
    BY <1>2 DEF vars, qvars, procs, data, ghost, env, Steady
  <2>2. Attached'
    BY <2>1 DEF Attached, Kernel!Good
  <2>3. InHand' = InHand /\ \A p \in Procs : Held(p)' = Held(p)
    BY <2>1 DEF InHand, Held
  <2>4. \A s, d \in Clients : InFlight(s, d)' = InFlight(s, d)
    BY <2>1, <2>3, SlotFacts, PartsSame
  <2>5. Ordered'
    BY <2>1, <2>4, KeptOrdered DEF Ordered, SameCounts
  <2> QED
    BY <2>2, <2>5
<1>3. ASSUME Next, Steady'
      PROVE  /\ \A q \in Procs : mpc'[q] # "off" => Kernel!Good(msgid[q])'
             /\ \A s, d \in Clients : OrderedAt(s, d)'
  <2>1. PICK p \in Procs : StepOf(p)
    BY <1>3, SomeProcess
  <2>2. Steady /\ ~Kill(p)
    BY <1>1, <1>3, <2>1, SteadyBack
  <2>3. \A q \in Procs : mpc'[q] # "off" => Kernel!Good(msgid[q])'
    BY <1>1, <1>3, <2>1, AttachedStep
  <2>4. ASSUME NEW s \in Clients, NEW d \in Clients PROVE OrderedAt(s, d)'
    <3>1. OrderedAt(s, d)
      BY <2>2 DEF Ordered
    <3> QED
      BY <1>1, <1>3, <2>1, <2>2, <3>1, StartOrdered, SigIntOrdered, RecvThreadOrdered,
         ServerOrdered, ClientOrdered DEF StepOf
  <2> QED
    BY <2>3, <2>4
<1> QED
  BY <1>2, <1>3 DEF Attached, Ordered

LEMMA InitOrdered == Init => Attached /\ Ordered
<1> SUFFICES ASSUME Init PROVE Attached /\ Ordered
  OBVIOUS
<1>1. Attached
  BY DEF Init, Attached
<1>2. ASSUME NEW s \in Clients, NEW d \in Clients PROVE OrderedAt(s, d)
  <2>1. sent[s][d] = 0 /\ shown[d][s] = 0
    BY DEF Init
  <2>2. /\ queue[d] = <<>> /\ Held(d) = <<>> /\ mq[d] = <<>> /\ InHand = <<>>
        /\ queue[Server] = <<>> /\ Held(Server) = <<>> /\ mq[ServerType] = <<>>
    BY SlotFacts DEF Init, Held, InHand, Kernel!QueueInit, Kernel!NoMessages
  <2>3. Pipeline(d) = <<>>
    BY <2>2 DEF Pipeline
  <2>4. InFlight(s, d) = <<>>
    BY <2>3, KeepNone, Zenon DEF InFlight
  <2>5. Sequel(s, d, 0, 0) = <<>>
    BY DEF Sequel
  <2> QED
    BY <2>1, <2>4, <2>5 DEF OrderedAt
<1> QED
  BY <1>1, <1>2 DEF Ordered

(* Nothing lost, nothing repeated, nothing reordered: with numbers that do not wrap,
   what is under way from s to d is what s has sent and d has not shown, as long as
   nobody is told to stop, crashes or starts again. *)
THEOREM OrderKept ==
  ASSUME SeqMod > MaxSends
  PROVE  Spec => []InOrderOnce
<1> DEFINE J == IInv /\ GarbageOK /\ Orderly /\ Attached /\ Ordered
<1>1. Init => J
  <2>1. Init => GarbageOK
    BY SlotFacts DEF Init, Kernel!QueueInit, GarbageOK
  <2> QED
    BY <2>1, InitIInv, InitOrderly, InitOrdered
<1>2. J /\ [Next]_vars => J'
  <2> SUFFICES ASSUME J, [Next]_vars PROVE J'
    OBVIOUS
  <2>1. IInv' /\ GarbageOK' /\ Orderly'
    BY NextIInv, GarbageStep, OrderlyStep
  <2>2. TypeOK'
    BY <2>1 DEF IInv
  <2>3. Attached' /\ Ordered'
    BY <2>2, OrderedStep
  <2> QED
    BY <2>1, <2>3
<1>3. J => InOrderOnce
  BY DEF Ordered, OrderedAt, Sequel, InOrderOnce
<1> QED
  BY <1>1, <1>2, <1>3, PTL DEF Spec

-----------------------------------------------------------------------------
(***************************************************************************)
(* Quits.  What counts is how many of them are under way to each client,   *)
(* in the kernel's queue or in the hands of its receive thread.            *)
(***************************************************************************)
Quits == {Quit(c) : c \in Clients}
Told(q) == Len(Keep(q, Quits))
ToldTo(c) == Told(mq[c]) + Told(Held(c))

LEMMA QuitFacts ==
  /\ \A c \in Clients : Quit(c) \in Quits /\ Quit(c) \in Slot
  /\ \A m \in Slot : ~IsQuit(m) => m \notin Quits
  /\ \A m \in FromClients \union {Junk} : m \notin Quits
  /\ ~IsQuit(Junk)
BY SlotFacts DEF Quits, Quit, IsQuit, Slot, Message, FromClients, Junk, Server

LEMMA ToldNat == \A q \in Seq(Slot) : Told(q) \in Nat
<1> TAKE q \in Seq(Slot)
<1>1. Keep(q, Quits) \in Seq(Slot)
  BY KeepSeq
<1> QED
  BY <1>1 DEF Told

LEMMA ToldOne ==
  /\ Told(<<>>) = 0
  /\ \A m : Told(<<m>>) = IF m \in Quits THEN 1 ELSE 0
<1>1. Keep(<<>>, Quits) = <<>>
  BY KeepNone, Zenon
<1>2. ASSUME NEW m PROVE Told(<<m>>) = IF m \in Quits THEN 1 ELSE 0
  <2>1. Keep(<<m>>, Quits) = IF m \in Quits THEN <<m>> ELSE <<>>
    BY KeepOne, Zenon
  <2> QED
    BY <2>1 DEF Told
<1> QED
  BY <1>1, <1>2 DEF Told

LEMMA ToldBoth ==
  \A p, q \in Seq(Slot) : Told(p \o q) = Told(p) + Told(q)
<1> TAKE p, q \in Seq(Slot)
<1> DEFINE a == Keep(p, Quits)
           b == Keep(q, Quits)
<1>1. Keep(p \o q, Quits) = a \o b
  BY KeepConcat, Zenon
<1>2. a \in Seq(Slot) /\ b \in Seq(Slot)
  BY KeepSeq
<1> HIDE DEF a, b
<1>3. Len(a \o b) = Len(a) + Len(b)
  BY <1>2
<1> QED
  BY <1>1, <1>3, Zenon DEF Told, a, b

LEMMA ToldEnds ==
  ASSUME NEW q \in Seq(Slot)
  PROVE  /\ \A m \in Slot : Told(Append(q, m)) = Told(q) + Told(<<m>>)
         /\ q # <<>> => Told(q) = Told(<<Head(q)>>) + Told(Tail(q))
<1>1. ASSUME NEW m \in Slot PROVE Told(Append(q, m)) = Told(q) + Told(<<m>>)
  <2> DEFINE u == <<m>>
  <2>1. Append(q, m) = q \o u /\ u \in Seq(Slot)
    OBVIOUS
  <2> HIDE DEF u
  <2>2. Told(q \o u) = Told(q) + Told(u)
    BY <2>1, ToldBoth
  <2> QED
    BY <2>1, <2>2, Zenon DEF u
<1>2. ASSUME q # <<>> PROVE Told(q) = Told(<<Head(q)>>) + Told(Tail(q))
  <2> DEFINE u == <<Head(q)>>
             t == Tail(q)
  <2>1. q = u \o t /\ u \in Seq(Slot) /\ t \in Seq(Slot)
    BY <1>2
  <2> HIDE DEF u, t
  <2>2. Told(u \o t) = Told(u) + Told(t)
    BY <2>1, ToldBoth
  <2> QED
    BY <2>1, <2>2, Zenon DEF u, t
<1> QED
  BY <1>1, <1>2

LEMMA QuitsCounted ==
  ASSUME TypeOK, NEW c \in Clients
  PROVE  /\ Told(mq[c]) \in Nat /\ Told(Held(c)) \in Nat /\ ToldTo(c) \in Nat
         /\ Len(QuitsTo(c)) = ToldTo(c)
         /\ QuitsTo(c) # <<>> <=> ToldTo(c) > 0
<1> DEFINE a == mq[c]
           b == Held(c)
           k == QuitsTo(c)
<1>1. a \in Seq(Slot) /\ b \in Seq(Slot)
  BY AllSeq
<1>2. k = Keep(a \o b, Quits)
  BY Zenon DEF QuitsTo, Quits
<1>3. ToldTo(c) = Told(a) + Told(b)
  BY DEF ToldTo
<1> HIDE DEF a, b, k
<1>4. a \o b \in Seq(Slot)
  BY <1>1
<1>5. Len(k) = Told(a \o b)
  BY <1>2 DEF Told
<1>6. k \in Seq(Slot)
  BY <1>2, <1>4, KeepSeq
<1>7. Told(a) \in Nat /\ Told(b) \in Nat /\ Told(a \o b) = Told(a) + Told(b)
  BY <1>1, ToldNat, ToldBoth
<1>8. k # <<>> <=> Len(k) > 0
  BY <1>6
<1> QED
  BY <1>3, <1>5, <1>7, <1>8 DEF a, b, k

(* A receive thread that is about to wait has no Quit in its variable, where a call
   that fails would find it: the thread that got one has been told to stop, and one
   that starts finds nothing. *)
FreeAt(c) ==
  /\ mpc[c] \in {"off", "init", "done"} => rmsg[c] = Junk
  /\ rpc[c] = "rcv" \/ (rpc[c] = "test" /\ is_running[c]) => ~IsQuit(rmsg[c])

Free == \A c \in Clients : FreeAt(c)

LEMMA FreeAtStep ==
  ASSUME TypeOK, NEW c \in Clients, Idle(c), FreeAt(c), StepOf(c)
  PROVE  FreeAt(c)'
<1> USE SlotFacts, QuitFacts DEF TypeOK, ProcTypes, DataTypes, Idle, FreeAt, GotoMain, GotoRecv,
        data
<1>1. CASE Start(c)
  BY <1>1 DEF Start, Live
<1>2. CASE Kill(c)
  BY <1>2 DEF Kill, Gone
<1>3. CASE SigInt(c)
  BY <1>3 DEF SigInt, Live, RecvInterrupted, RecvFailed, SendInterrupted, Numbered
<1>4. CASE RecvThread(c)
  <2>1. CASE RecvTest(c)
    BY <2>1 DEF RecvTest
  <2>2. CASE Recv(c)
    BY <2>2 DEF Recv, RecvFailed
  <2>3. CASE RecvGot(c)
    BY <2>3 DEF RecvGot, Push
  <2> QED
    BY <1>4, <2>1, <2>2, <2>3 DEF RecvThread
<1>5. CASE ClientMain(c)
  BY <1>5 DEF ClientMain, ClientLaunch, ClientLoop, ClientDrain, ClientPop, ClientSend,
     Numbered, JoinAndRemove, Gone
<1> QED
  BY <1>1, <1>2, <1>3, <1>4, <1>5 DEF StepOf

LEMMA FreeStep == IInv /\ GarbageOK /\ Free /\ [Next]_vars => Free'
<1> SUFFICES ASSUME IInv, GarbageOK, Free, [Next]_vars, NEW c \in Clients PROVE FreeAt(c)'
  BY DEF Free
<1>1. TypeOK /\ FreeAt(c) /\ Idle(c) /\ c \in Procs
  BY GarbageByClient, SlotFacts DEF IInv, Free, Part
<1>2. CASE UNCHANGED vars
  BY <1>1, <1>2 DEF vars, procs, data, FreeAt, IsQuit
<1>3. CASE Next
  <2>1. PICK p \in Procs : StepOf(p)
    BY <1>3, SomeProcess
  <2>2. CASE p = c
    BY <1>1, <2>1, <2>2, FreeAtStep
  <2>3. CASE p # c
    BY <1>1, <2>1, <2>3, Others DEF FreeAt, IsQuit
  <2> QED
    BY <2>2, <2>3
<1> QED
  BY <1>2, <1>3

(* What a step does to the Quits that are under way to c: all but the server's Quit
   loop leave them or lose some. *)
NoMore(c) == ToldTo(c)' <= ToldTo(c)

LEMMA ToldNats ==
  TypeOK => \A c \in Clients : Told(mq[c]) \in Nat /\ Told(Held(c)) \in Nat
BY QuitsCounted

LEMMA ToldNatsNext ==
  TypeOK' => \A c \in Clients : Told(mq'[c]) \in Nat /\ Told(Held(c)') \in Nat
<1>1. (TypeOK => \A c \in Clients : Told(mq[c]) \in Nat /\ Told(Held(c)) \in Nat)'
  BY ToldNats, PTL
<1> QED
  BY <1>1

LEMMA SameTold ==
  ASSUME TypeOK, NEW c \in Clients, mq'[c] = mq[c] \/ mq'[c] = <<>>,
         Held(c)' = Held(c) \/ Told(Held(c)') = 0
  PROVE  NoMore(c)
<1>1. Told(mq[c]) \in Nat /\ Told(Held(c)) \in Nat
  BY QuitsCounted
<1>2. Told(mq'[c]) = Told(mq[c]) \/ Told(mq'[c]) = 0
  BY ToldOne
<1>3. Told(Held(c)') = Told(Held(c)) \/ Told(Held(c)') = 0
  OBVIOUS
<1>4. ToldTo(c)' = Told(mq'[c]) + Told(Held(c)')
  BY DEF ToldTo
<1> QED
  BY <1>1, <1>2, <1>3, <1>4 DEF NoMore, ToldTo

LEMMA FailTold ==
  ASSUME TypeOK, NEW c \in Clients, FreeAt(c), rpc[c] = "rcv", RecvFailed(c), UNCHANGED mq
  PROVE  NoMore(c)
<1>1. c \in Procs /\ c # Server /\ rpc \in [Procs -> RecvPC] /\ rmsg \in [Procs -> Slot]
  BY SlotFacts DEF TypeOK, ProcTypes, DataTypes
<1>2. rpc'[c] = "got" /\ rmsg'[c] \in {rmsg[c], Junk}
  BY <1>1 DEF RecvFailed, GotoRecv
<1>3. rmsg'[c] \notin Quits
  BY <1>1, <1>2, QuitFacts DEF FreeAt, Slot
<1>4. Told(Held(c)') = 0
  <2>1. Held(c)' = <<rmsg'[c]>>
    BY <1>2 DEF Held
  <2> QED
    BY <1>3, <2>1, ToldOne
<1> QED
  BY <1>4, SameTold

LEMMA RecvTold ==
  ASSUME TypeOK, NEW p \in Procs, NEW c \in Clients, FreeAt(c), RecvThread(p)
  PROVE  NoMore(c)
<1>1. /\ c \in Procs /\ c # Server /\ rpc \in [Procs -> RecvPC]
      /\ rmsg \in [Procs -> Slot] /\ mq \in [1 .. ServerType -> Seq(Slot)]
      /\ c \in 1 .. ServerType /\ mq[c] \in Seq(Slot)
  BY SlotFacts DEF TypeOK, ProcTypes, DataTypes, Kernel!QueueTypeOK
<1>2. CASE p # c
  <2>1. Held(c)' = Held(c)
    <3>1. rpc'[c] = rpc[c] /\ rmsg'[c] = rmsg[c]
      BY <1>1, <1>2, Others DEF StepOf
    <3> QED
      BY <3>1, <1>1, HeldSame
  <2>2. mq'[c] = mq[c]
    <3>1. RecvType(p) # c
      BY <1>2, SlotFacts DEF RecvType
    <3> QED
      BY <1>1, <1>2, <3>1 DEF RecvThread, RecvTest, Recv, RecvGot, Kernel!MsgRcv, Kernel!MsgFail,
         Kernel!qvars, qvars
  <2> QED
    BY <2>1, <2>2, SameTold
<1>3. CASE p = c /\ RecvTest(c)
  <2>1. Held(c)' = <<>> /\ mq' = mq
    BY <1>1, <1>3 DEF RecvTest, GotoRecv, Held, qvars
  <2> QED
    BY <2>1, SameTold, ToldOne
<1>4. CASE p = c /\ RecvGot(c)
  <2>1. Held(c)' = <<>> /\ mq' = mq
    BY <1>1, <1>4 DEF RecvGot, GotoRecv, Held, qvars
  <2> QED
    BY <2>1, SameTold, ToldOne
<1>5. CASE p = c /\ Recv(c)
  <2>1. CASE Kernel!MsgFail(msgid[c])
    <3>1. UNCHANGED mq
      BY <2>1 DEF Kernel!MsgFail, Kernel!qvars
    <3>2. rpc[c] = "rcv" /\ RecvFailed(c)
      BY <1>5, <2>1 DEF Recv, Kernel!MsgFail, Kernel!MsgRcv
    <3> QED
      BY <3>1, <3>2, FailTold
  <2>2. CASE ~Kernel!MsgFail(msgid[c])
    <3> DEFINE q == mq[c]
    <3>1. /\ rpc[c] = "rcv" /\ Kernel!MsgRcv(msgid[c], c)
          /\ rmsg' = [rmsg EXCEPT ![c] = Head(q)]
          /\ rpc' = [rpc EXCEPT ![c] = "got"]
      BY <1>1, <1>5, <2>2 DEF Recv, RecvType, GotoRecv
    <3>2. q # <<>> /\ mq'[c] = Tail(q) /\ q \in Seq(Slot)
      BY <1>1, <3>1 DEF Kernel!MsgRcv
    <3>3. Held(c) = <<>> /\ Held(c)' = <<Head(q)>>
      BY <1>1, <3>1 DEF Held
    <3> HIDE DEF q
    <3>4. Told(q) = Told(<<Head(q)>>) + Told(Tail(q)) /\ Told(q) \in Nat
      BY <3>2, ToldEnds, ToldNat
    <3>5. Tail(q) \in Seq(Slot) /\ <<Head(q)>> \in Seq(Slot)
      BY <3>2
    <3>6. Told(Tail(q)) \in Nat /\ Told(<<Head(q)>>) \in Nat
      BY <3>5, ToldNat
    <3>7. ToldTo(c) = Told(q) /\ ToldTo(c)' = Told(Tail(q)) + Told(<<Head(q)>>)
      BY <3>2, <3>3, <3>4, ToldOne DEF ToldTo, q
    <3> QED
      BY <3>4, <3>6, <3>7 DEF NoMore
  <2> QED
    BY <2>1, <2>2
<1> QED
  BY <1>2, <1>3, <1>4, <1>5 DEF RecvThread

LEMMA ClientTold ==
  ASSUME TypeOK, NEW p \in Clients, NEW c \in Clients, Idle(c), ClientMain(p)
  PROVE  NoMore(c)
<1>1. /\ p \in Procs /\ c \in Procs /\ c # Server /\ rpc \in [Procs -> RecvPC]
      /\ rmsg \in [Procs -> Slot] /\ mq \in [1 .. ServerType -> Seq(Slot)]
      /\ c \in 1 .. ServerType /\ c # ServerType
  BY SlotFacts DEF TypeOK, ProcTypes, DataTypes, Kernel!QueueTypeOK
<1>2. Held(c)' = Held(c) \/ Told(Held(c)') = 0
  <2>1. CASE p # c
    <3>1. rpc'[c] = rpc[c] /\ rmsg'[c] = rmsg[c]
      BY <1>1, <2>1, Others DEF StepOf
    <3> QED
      BY <3>1, <1>1, HeldSame
  <2>2. CASE p = c /\ ClientLaunch(c)
    <3>1. rpc[c] \in {"off", "done"} /\ rpc'[c] \in {rpc[c], "test"}
      BY <1>1, <2>2 DEF ClientLaunch, Idle, GotoRecv
    <3>2. Held(c)' = <<>>
      BY <3>1 DEF Held
    <3> QED
      BY <3>2, ToldOne
  <2>3. CASE p = c /\ JoinAndRemove(c)
    <3>1. Held(c)' = <<>>
      BY <2>3 DEF JoinAndRemove, Held
    <3> QED
      BY <3>1, ToldOne
  <2>4. CASE p = c /\ ~ClientLaunch(c) /\ ~JoinAndRemove(c)
    <3>1. UNCHANGED <<rpc, rmsg>>
      BY <2>4 DEF ClientMain, ClientLoop, ClientDrain, ClientPop, ClientSend, data
    <3> QED
      BY <3>1, HeldSame, <1>1
  <2> QED
    BY <2>1, <2>2, <2>3, <2>4
<1>3. mq'[c] = mq[c] \/ mq'[c] = <<>>
  <2>1. CASE ClientSend(p)
    BY <1>1, <2>1 DEF ClientSend, Kernel!MsgSnd, Kernel!MsgFail, Kernel!qvars, qvars
  <2>2. CASE JoinAndRemove(p)
    BY <1>1, <2>2 DEF JoinAndRemove, Kernel!MsgRmid, Kernel!MsgFail, Kernel!qvars,
       Kernel!NoMessages
  <2> QED
    BY <2>1, <2>2 DEF ClientMain, ClientLaunch, ClientLoop, ClientDrain, ClientPop, qvars
<1> QED
  BY <1>2, <1>3, SameTold

LEMMA ServerTold ==
  ASSUME IInv, NEW c \in Clients, ServerMain
  PROVE  NoMore(c) \/ (ServerQuit /\ quitNo = c)
<1>1. /\ c \in Procs /\ c # Server /\ Server \in Procs
      /\ mq \in [1 .. ServerType -> Seq(Slot)] /\ c \in 1 .. ServerType
      /\ mq[c] \in Seq(Slot) /\ TypeOK
  BY SlotFacts DEF IInv, TypeOK, Kernel!QueueTypeOK
<1>2. Held(c)' = Held(c)
  <2>1. rpc'[c] = rpc[c] /\ rmsg'[c] = rmsg[c]
    BY <1>1, Others DEF StepOf
  <2> QED
    BY <2>1, <1>1, HeldSame
<1>3. CASE ServerForward
  <2>1. CASE Kernel!MsgFail(msgid[Server])
    <3>1. mq' = mq
      BY <2>1 DEF Kernel!MsgFail, Kernel!qvars
    <3> QED
      BY <1>1, <1>2, <3>1, SameTold
  <2>2. CASE Kernel!MsgSnd(msgid[Server], hand.dst, hand)
    <3>1. mq' = [mq EXCEPT ![hand.dst] = Append(@, hand)]
      BY <2>2 DEF Kernel!MsgSnd
    <3>2. hand \in FromClients
      BY <1>3 DEF IInv, HandOK, ServerForward
    <3>3. CASE hand.dst # c
      BY <1>1, <1>2, <3>1, <3>3, SameTold
    <3>4. CASE hand.dst = c
      <4> DEFINE q == mq[c]
      <4>1. mq'[c] = Append(q, hand) /\ q \in Seq(Slot)
        BY <1>1, <3>1, <3>4
      <4>2. hand \in Slot /\ hand \notin Quits
        BY <3>2, QuitFacts, CarriedFacts
      <4>3. Told(q) = Told(mq[c]) /\ Told(mq[c]) \in Nat /\ Told(Held(c)) \in Nat
        BY <1>1, QuitsCounted
      <4> HIDE DEF q
      <4>4. Told(Append(q, hand)) = Told(q) + Told(<<hand>>)
        BY <4>1, <4>2, ToldEnds
      <4>5. Told(<<hand>>) = 0
        BY <4>2, ToldOne
      <4> QED
        BY <1>2, <4>1, <4>3, <4>4, <4>5 DEF NoMore, ToldTo
    <3> QED
      BY <3>3, <3>4
  <2> QED
    BY <1>3, <2>1, <2>2 DEF ServerForward
<1>4. CASE ServerQuit /\ quitNo # c
  <2>1. mq'[c] = mq[c]
    BY <1>1, <1>4 DEF ServerQuit, Kernel!MsgSnd, Kernel!MsgFail, Kernel!qvars
  <2> QED
    BY <1>1, <1>2, <2>1, SameTold
<1>5. CASE JoinAndRemove(Server)
  <2>1. mq'[c] = mq[c] \/ mq'[c] = <<>>
    BY <1>1, <1>5 DEF JoinAndRemove, Kernel!MsgRmid, Kernel!MsgFail, Kernel!qvars,
       Kernel!NoMessages
  <2> QED
    BY <1>1, <1>2, <2>1, SameTold
<1>6. CASE ServerLaunch \/ ServerLoop \/ ServerTake
  <2>1. mq' = mq
    BY <1>6 DEF ServerLaunch, ServerLoop, ServerTake, qvars
  <2> QED
    BY <1>1, <1>2, <2>1, SameTold
<1> QED
  BY <1>3, <1>4, <1>5, <1>6 DEF ServerMain

LEMMA StartTold ==
  ASSUME TypeOK, Emptied, NEW p \in Procs, NEW c \in Clients, Idle(c), Start(p)
  PROVE  NoMore(c)
<1>1. /\ c \in Procs /\ rpc \in [Procs -> RecvPC] /\ rmsg' = rmsg
      /\ rpc' = [rpc EXCEPT ![p] = "off"] /\ c \in 1 .. ServerType
  BY SlotFacts DEF TypeOK, ProcTypes, Start, GotoRecv, data
<1>2. Held(c)' = Held(c) \/ Told(Held(c)') = 0
  <2>1. CASE p = c
    <3>1. Held(c)' = <<>>
      BY <1>1, <2>1 DEF Held
    <3> QED
      BY <3>1, ToldOne
  <2>2. CASE p # c
    BY <1>1, <2>2, HeldSame
  <2> QED
    BY <2>1, <2>2
<1>3. mq'[c] = mq[c] \/ mq'[c] = <<>>
  BY <1>1 DEF Start, Kernel!MsgGet, Kernel!NoMessages, Kernel!qvars, qvars
<1> QED
  BY <1>2, <1>3, SameTold

LEMMA SigIntTold ==
  ASSUME TypeOK, NEW p \in Procs, NEW c \in Clients, FreeAt(c), SigInt(p)
  PROVE  NoMore(c)
<1>1. c \in Procs /\ c # Server /\ mq' = mq
  BY SlotFacts DEF SigInt, qvars
<1>2. CASE p = c /\ RecvInterrupted(c)
  BY <1>1, <1>2, FailTold DEF RecvInterrupted
<1>3. CASE p # c \/ ~RecvInterrupted(p)
  <2>1. rpc'[c] = rpc[c] /\ rmsg'[c] = rmsg[c]
    <3>1. CASE p # c
      BY <1>1, <3>1, Others DEF StepOf
    <3>2. CASE ~RecvInterrupted(p)
      BY <3>2 DEF SigInt, SendInterrupted
    <3> QED
      BY <1>3, <3>1, <3>2
  <2>2. Held(c)' = Held(c)
    BY <1>1, <2>1, HeldSame
  <2> QED
    BY <1>1, <2>2, SameTold
<1> QED
  BY <1>2, <1>3

(* The server's first life: nobody has crashed, and the server has not been started
   again. *)
First == kills = 0 /\ starts[Server] <= 1

QuitsAt(c) ==
  ToldTo(c) > 0 =>
    /\ ~is_running[Server]
    /\ mpc[Server] = "quit" => c < quitNo
    /\ mpc[Server] \in {"quit", "join", "done"}
    /\ ToldTo(c) = 1

Origin == First => \A c \in Clients : QuitsAt(c)

LEMMA FirstBack ==
  ASSUME TypeOK, NEW p \in Procs, StepOf(p), First'
  PROVE  /\ First /\ ~Kill(p)
         /\ p = Server /\ Start(p) => starts[Server] = 0
<1>1. kills \in Nat /\ starts \in [Procs -> Nat] /\ Server \in Procs
  BY SlotFacts DEF TypeOK, CountTypes
<1>2. kills = 0 /\ ~Kill(p)
  BY <1>1, KillsStep DEF First
<1>3. starts'[Server] = starts[Server]
      \/ (p = Server /\ Start(p) /\ starts'[Server] = starts[Server] + 1)
  <2>1. CASE Start(p)
    BY <1>1, <2>1 DEF Start
  <2>2. CASE ~Start(p)
    <3>1. UNCHANGED starts
      BY <1>2, <2>2 DEF StepOf, SigInt, RecvThread, RecvTest, Recv, RecvGot, ClientMain,
         ClientLaunch, ClientLoop, ClientDrain, ClientPop, ClientSend, JoinAndRemove,
         ServerMain, ServerLaunch, ServerLoop, ServerTake, ServerForward, ServerQuit, env
    <3> QED
      BY <3>1
  <2> QED
    BY <2>1, <2>2
<1>4. p = Server /\ Start(p) => starts'[Server] = starts[Server] + 1
  BY <1>1 DEF Start
<1> QED
  BY <1>1, <1>2, <1>3, <1>4 DEF First

(* The server in its first life never goes back, and its loop index only grows. *)
LEMMA OnwardsOnly ==
  ASSUME TypeOK, Orderly, NEW p \in Procs, StepOf(p), First',
         ~is_running[Server], mpc[Server] \in {"quit", "join", "done"}
  PROVE  /\ ~is_running'[Server]
         /\ mpc'[Server] \in {"quit", "join", "done"}
         /\ mpc'[Server] = "quit" => mpc[Server] = "quit" /\ quitNo' >= quitNo
<1>1. /\ mpc \in [Procs -> MainPC] /\ is_running \in [Procs -> BOOLEAN] /\ Server \in Procs
      /\ quitNo \in Clients /\ OrderlyAt(Server)
  BY SlotFacts DEF TypeOK, ProcTypes, DataTypes, Orderly
<1>2. ~Kill(p) /\ ~(p = Server /\ Start(p))
  BY <1>1, FirstBack DEF OrderlyAt
<1>3. quitNo' = quitNo \/ (p = Server /\ (ServerMain \/ SigInt(p)))
  <2>1. CASE RecvThread(p)
    BY <2>1 DEF RecvThread, RecvTest, Recv, RecvGot, data
  <2>2. CASE Start(p)
    BY <2>2 DEF Start, data
  <2>3. CASE p # Server /\ SigInt(p)
    BY <2>3 DEF SigInt, RecvInterrupted, SendInterrupted
  <2>4. CASE p \in Clients /\ ClientMain(p)
    BY <2>4, SlotFacts DEF ClientMain, ClientLaunch, ClientLoop, ClientDrain, ClientPop, ClientSend,
       JoinAndRemove, Gone, data
  <2> QED
    BY <1>2, <2>1, <2>2, <2>3, <2>4 DEF StepOf
<1>4. CASE p # Server
  BY <1>1, <1>3, <1>4, Others DEF Clients
<1>5. CASE p = Server /\ SigInt(p)
  BY <1>1, <1>5 DEF SigInt, RecvInterrupted, SendInterrupted, QuitNext, GotoMain, Numbered, Clients
<1>6. CASE p = Server /\ RecvThread(p)
  BY <1>1, <1>6, SlotFacts DEF RecvThread, RecvTest, Recv, RecvGot, Push, data, Clients
<1>7. CASE p = Server /\ ServerMain
  BY <1>1, <1>7 DEF ServerMain, ServerLaunch, ServerLoop, ServerTake, ServerForward, ServerQuit,
     JoinAndRemove, QuitNext, GotoMain, Clients
<1> QED
  BY <1>1, <1>2, <1>4, <1>5, <1>6, <1>7, SlotFacts DEF StepOf

(* The Quit loop has come to client c, to whom no Quit was under way. *)
LEMMA QuitTold ==
  ASSUME IInv, Orderly, ServerQuit, NEW c \in Clients, quitNo = c, QuitsAt(c)
  PROVE  QuitsAt(c)'
<1>1. /\ TypeOK /\ mpc \in [Procs -> MainPC] /\ is_running \in [Procs -> BOOLEAN]
      /\ Server \in Procs /\ c \in Procs /\ c # Server
      /\ mq \in [1 .. ServerType -> Seq(Slot)] /\ c \in 1 .. ServerType
  BY SlotFacts DEF IInv, TypeOK, ProcTypes, Kernel!QueueTypeOK
<1>2. mpc[Server] = "quit" /\ ~is_running[Server] /\ is_running' = is_running
  BY DEF ServerQuit, Orderly, OrderlyAt, Server, Procs
<1>3. ToldTo(c) = 0
  <2>1. ToldTo(c) \in Nat
    BY <1>1, QuitsCounted
  <2> QED
    BY <1>2, <2>1 DEF QuitsAt, Clients
<1>4. \/ mpc'[Server] = "quit" /\ quitNo' = quitNo + 1
      \/ mpc'[Server] = "join"
  BY <1>1, <1>2 DEF ServerQuit, QuitNext, GotoMain
<1>5. Held(c)' = Held(c)
  <2>1. rpc'[c] = rpc[c] /\ rmsg'[c] = rmsg[c]
    BY DEF ServerQuit
  <2> QED
    BY <1>1, <2>1, HeldSame
<1>6. Told(mq[c]) = 0 /\ Told(Held(c)) = 0
  BY <1>1, <1>3, QuitsCounted DEF ToldTo
<1>7. Told(mq'[c]) \in {0, 1}
  <2>1. CASE mq' = mq
    BY <1>6, <2>1
  <2>2. CASE Kernel!MsgSnd(msgid[Server], c, Quit(c))
    <3> DEFINE q == mq[c]
    <3>1. mq'[c] = Append(q, Quit(c)) /\ q \in Seq(Slot) /\ Told(q) = 0
      BY <1>1, <1>6, <2>2 DEF Kernel!MsgSnd
    <3> HIDE DEF q
    <3>2. Quit(c) \in Slot /\ Quit(c) \in Quits
      BY QuitFacts
    <3>3. Told(Append(q, Quit(c))) = Told(q) + Told(<<Quit(c)>>)
      BY <3>1, <3>2, ToldEnds
    <3>4. Told(<<Quit(c)>>) = 1
      BY <3>2, ToldOne
    <3> QED
      BY <3>1, <3>3, <3>4
  <2> QED
    BY <2>1, <2>2 DEF ServerQuit, Kernel!MsgFail, Kernel!qvars
<1>8. ToldTo(c)' \in {0, 1}
  BY <1>5, <1>6, <1>7 DEF ToldTo
<1> QED
  BY <1>2, <1>4, <1>8 DEF QuitsAt, Clients

LEMMA QuitsAtStep ==
  ASSUME IInv, TypeOK', GarbageOK, Free, Orderly, NEW p \in Procs, StepOf(p), First',
         NEW c \in Clients, QuitsAt(c)
  PROVE  QuitsAt(c)'
<1>1. /\ TypeOK /\ c \in Procs /\ Idle(c) /\ FreeAt(c) /\ Emptied /\ ~Kill(p)
      /\ quitNo \in Clients
  BY GarbageByClient, SlotFacts, FirstBack DEF IInv, Part, Free, Orderly, TypeOK, DataTypes
<1>2. NoMore(c) \/ (ServerQuit /\ quitNo = c)
  BY <1>1, RecvTold, StartTold, SigIntTold, ClientTold, ServerTold DEF StepOf
<1>3. CASE ServerQuit /\ quitNo = c
  BY <1>3, QuitTold
<1>4. CASE NoMore(c)
  <2>1. ToldTo(c) \in Nat /\ ToldTo(c)' \in Nat
    <3>1. ToldTo(c) \in Nat
      BY <1>1, QuitsCounted
    <3>2. Told(mq'[c]) \in Nat /\ Told(Held(c)') \in Nat
      BY ToldNatsNext
    <3>3. ToldTo(c)' = Told(mq'[c]) + Told(Held(c)')
      BY DEF ToldTo
    <3> QED
      BY <3>1, <3>2, <3>3
  <2>2. SUFFICES ASSUME ToldTo(c)' > 0 PROVE QuitsAt(c)'
    BY DEF QuitsAt
  <2>3. ToldTo(c) > 0 /\ ToldTo(c)' <= ToldTo(c)
    BY <1>4, <2>1, <2>2 DEF NoMore
  <2>4. /\ ~is_running[Server] /\ mpc[Server] \in {"quit", "join", "done"}
        /\ mpc[Server] = "quit" => c < quitNo
        /\ ToldTo(c) = 1
    BY <2>3 DEF QuitsAt
  <2>5. /\ ~is_running'[Server] /\ mpc'[Server] \in {"quit", "join", "done"}
        /\ mpc'[Server] = "quit" => mpc[Server] = "quit" /\ quitNo' >= quitNo
    BY <1>1, <2>4, OnwardsOnly
  <2>6. quitNo' \in Clients
    BY DEF TypeOK, DataTypes
  <2>7. mpc'[Server] = "quit" => c < quitNo'
    BY <1>1, <2>4, <2>5, <2>6 DEF Clients
  <2>8. ToldTo(c)' = 1
    BY <2>1, <2>2, <2>3, <2>4
  <2> QED
    BY <2>5, <2>7, <2>8 DEF QuitsAt
<1> QED
  BY <1>2, <1>3, <1>4

LEMMA OriginStep ==
  IInv /\ IInv' /\ GarbageOK /\ Free /\ Orderly /\ Origin /\ [Next]_vars => Origin'
<1> SUFFICES ASSUME IInv, IInv', GarbageOK, Free, Orderly, Origin, [Next]_vars, First',
                    NEW c \in Clients
             PROVE  QuitsAt(c)'
  BY DEF Origin
<1>1. TypeOK /\ TypeOK'
  BY DEF IInv
<1>2. CASE UNCHANGED vars
  <2>1. First /\ QuitsAt(c)
    BY <1>2 DEF First, Origin, vars, env
  <2>2. UNCHANGED <<mq, rpc, rmsg, is_running, mpc, quitNo>>
    BY <1>2 DEF vars, qvars, procs, data
  <2>3. Held(c)' = Held(c)
    BY <2>2 DEF Held
  <2>4. ToldTo(c)' = ToldTo(c)
    BY <2>2, <2>3 DEF ToldTo
  <2> QED
    BY <2>1, <2>2, <2>4 DEF QuitsAt
<1>3. CASE Next
  <2>1. PICK p \in Procs : StepOf(p)
    BY <1>3, SomeProcess
  <2>2. QuitsAt(c)
    BY <1>1, <2>1, FirstBack DEF Origin
  <2> QED
    BY <1>1, <2>1, <2>2, QuitsAtStep
<1> QED
  BY <1>2, <1>3

(* A client is told to quit only by a server that has left its loop and has come to
   this client in its Quit loop, and then once: no call that fails finds an old Quit in
   a receive thread's variable, and nothing in the queue or in memory is taken for one. *)
THEOREM QuitsRight == Spec => []QuitOrigin
<1> DEFINE J == IInv /\ GarbageOK /\ Orderly /\ Free /\ Origin
<1>1. Init => J
  <2> SUFFICES ASSUME Init PROVE J
    OBVIOUS
  <2>1. GarbageOK
    BY SlotFacts DEF Init, Kernel!QueueInit, GarbageOK
  <2>2. Free
    BY SlotFacts, QuitFacts DEF Init, Free, FreeAt
  <2>3. ASSUME NEW c \in Clients PROVE ToldTo(c) = 0
    <3>1. mq[c] = <<>> /\ Held(c) = <<>>
      BY SlotFacts DEF Init, Held, Kernel!QueueInit, Kernel!NoMessages
    <3> QED
      BY <3>1, ToldOne DEF ToldTo
  <2> QED
    BY <2>1, <2>2, <2>3, InitIInv, InitOrderly DEF Origin, QuitsAt
<1>2. J /\ [Next]_vars => J'
  BY NextIInv, GarbageStep, OrderlyStep, FreeStep, OriginStep
<1>3. J => QuitOrigin
  <2> SUFFICES ASSUME J, First, NEW c \in Clients, QuitsTo(c) # <<>>
               PROVE  /\ ~is_running[Server]
                      /\ mpc[Server] = "quit" => c < quitNo
                      /\ mpc[Server] \in {"quit", "join", "done"}
                      /\ Len(QuitsTo(c)) = 1
    BY DEF QuitOrigin, First
  <2>1. QuitsAt(c) /\ TypeOK
    BY DEF Origin, IInv
  <2> QED
    BY <2>1, QuitsCounted DEF QuitsAt
<1> QED
  BY <1>1, <1>2, <1>3, PTL DEF Spec

-----------------------------------------------------------------------------
(***************************************************************************)
(* The dispatcher implements the channels of Mailbox.  After an interruption*)
(* a client may show any message that was sent, but none that was not: what*)
(* the processes and the kernel hold are Quits, garbage, and messages that *)
(* their senders have counted.                                             *)
(***************************************************************************)
Sent == {m \in FromClients : m.seq < sent[m.src][m.dst]}
Known == Sent \union Quits \union {Junk}

Written ==
  /\ \A t \in 1 .. ServerType : mq[t] \in Seq(Known)
  /\ \A p \in Procs : queue[p] \in Seq(Known) /\ rmsg[p] \in Known
  /\ hand \in Known

LEMMA SeqOf ==
  ASSUME NEW K
  PROVE  /\ <<>> \in Seq(K)
         /\ \A q \in Seq(K), m \in K : Append(q, m) \in Seq(K)
         /\ \A q \in Seq(K) : q # <<>> => Head(q) \in K /\ Tail(q) \in Seq(K)
OBVIOUS

LEMMA SeqGrows ==
  ASSUME NEW K, NEW L, \A m \in K : m \in L
  PROVE  \A q \in Seq(K) : q \in Seq(L)
OBVIOUS

LEMMA CountOn ==
  ASSUME SeqMod > MaxSends, TypeOK, NEW c \in Clients, Numbered(c),
         sent[c][NextDest(c)] < MaxSends
  PROVE  /\ NextDest(c) \in Clients
         /\ sent'[c][NextDest(c)] = sent[c][NextDest(c)] + 1
<1>1. NextDest(c) \in Clients /\ sent'[c][NextDest(c)] = (sent[c][NextDest(c)] + 1) % SeqMod
  BY NumberedFacts
<1> DEFINE n == sent[c][NextDest(c)]
<1>2. n \in Nat /\ n < MaxSends
  BY <1>1, CountsNat
<1> HIDE DEF n
<1>3. n + 1 \in Nat /\ n + 1 < SeqMod
  BY <1>2
<1>4. (n + 1) % SeqMod = n + 1
  BY <1>3, ModSmall
<1> QED
  BY <1>1, <1>4 DEF n

(* What has been sent stays sent. *)
LEMMA KnownGrows ==
  ASSUME SeqMod > MaxSends, TypeOK, NEW p \in Procs, StepOf(p)
  PROVE  \A m \in Known : m \in Known'
<1>1. ASSUME NEW s \in Clients, NEW d \in Clients
      PROVE  sent[s][d] \in Nat /\ sent'[s][d] \in Int /\ sent[s][d] <= sent'[s][d]
  <2>1. sent[s][d] \in Nat
    BY CountsNat
  <2>2. CASE UNCHANGED sent
    BY <2>1, <2>2
  <2>3. CASE p \in Clients /\ sent[p][NextDest(p)] < MaxSends /\ Numbered(p)
    <3>1. CASE s = p /\ d = NextDest(p)
      BY <2>1, <2>3, <3>1, CountOn
    <3>2. CASE s # p \/ d # NextDest(p)
      BY <2>1, <2>3, <3>2, NumberedFacts
    <3> QED
      BY <3>1, <3>2
  <2> QED
    BY <2>2, <2>3, SentBy
<1>2. ASSUME NEW m \in Sent PROVE m \in Sent'
  <2>1. m \in FromClients /\ m.seq < sent[m.src][m.dst]
    BY DEF Sent
  <2>2. m.src \in Clients /\ m.dst \in Clients /\ m.seq \in Nat
    BY <2>1 DEF FromClients, Message
  <2>3. m.seq < sent'[m.src][m.dst]
    <3> DEFINE a == sent[m.src][m.dst]
               b == sent'[m.src][m.dst]
    <3>1. a \in Nat /\ b \in Int /\ a <= b /\ m.seq < a
      BY <1>1, <2>1, <2>2
    <3> HIDE DEF a, b
    <3>2. m.seq < b
      BY <2>2, <3>1
    <3> QED
      BY <3>2 DEF b
  <2> QED
    BY <2>1, <2>3 DEF Sent
<1> QED
  BY <1>2 DEF Known

(* A call that puts nothing but elements of K into the queue. *)
Brings(K) ==
  \/ UNCHANGED qvars
  \/ Kernel!MsgGet
  \/ \E id : Kernel!MsgRmid(id) \/ Kernel!MsgFail(id)
  \/ \E id : \E t \in 1 .. ServerType :
       Kernel!MsgRcv(id, t) \/ \E m \in K : Kernel!MsgSnd(id, t, m)

LEMMA BroughtOnly ==
  ASSUME NEW K, TypeOK, \A t \in 1 .. ServerType : mq[t] \in Seq(K), Brings(K)
  PROVE  \A t \in 1 .. ServerType : mq'[t] \in Seq(K)
<1>1. mq \in [1 .. ServerType -> Seq(Slot)]
  BY DEF TypeOK, Kernel!QueueTypeOK
<1>2. CASE UNCHANGED mq
  BY <1>2
<1>3. CASE mq' = Kernel!NoMessages
  BY <1>3, SeqOf DEF Kernel!NoMessages
<1>4. ASSUME NEW id, NEW t \in 1 .. ServerType, Kernel!MsgRcv(id, t),
             NEW u \in 1 .. ServerType
      PROVE  mq'[u] \in Seq(K)
  <2>1. mq'[u] = IF u = t THEN Tail(mq[t]) ELSE mq[u]
    BY <1>1, <1>4 DEF Kernel!MsgRcv
  <2>2. mq[t] # <<>>
    BY <1>4 DEF Kernel!MsgRcv
  <2>3. Tail(mq[t]) \in Seq(K)
    BY <2>2, SeqOf
  <2> QED
    BY <2>1, <2>3
<1>5. ASSUME NEW id, NEW t \in 1 .. ServerType, NEW m \in K, Kernel!MsgSnd(id, t, m),
             NEW u \in 1 .. ServerType
      PROVE  mq'[u] \in Seq(K)
  <2>1. mq'[u] = IF u = t THEN Append(mq[t], m) ELSE mq[u]
    BY <1>1, <1>5 DEF Kernel!MsgSnd
  <2>2. Append(mq[t], m) \in Seq(K)
    BY SeqOf
  <2> QED
    BY <2>1, <2>2
<1>6. CASE UNCHANGED qvars \/ Kernel!MsgGet \/ \E id : Kernel!MsgRmid(id) \/ Kernel!MsgFail(id)
  BY <1>2, <1>3, <1>6 DEF qvars, Kernel!qvars, Kernel!MsgGet, Kernel!MsgRmid, Kernel!MsgFail
<1> QED
  BY <1>4, <1>5, <1>6, Zenon DEF Brings

LEMMA KnownCall ==
  ASSUME SeqMod > MaxSends, IInv, Written, NEW p \in Procs, StepOf(p)
  PROVE  Brings(Known')
<1>1. TypeOK /\ \A t \in 1 .. ServerType : ServerType \in 1 .. ServerType
  BY SlotFacts DEF IInv
<1>2. CASE Start(p) \/ SigInt(p) \/ Kill(p)
  <2>1. UNCHANGED qvars \/ Kernel!MsgGet
    BY <1>2 DEF Start, SigInt, Kill
  <2> QED
    BY <2>1, Zenon DEF Brings
<1>3. CASE RecvThread(p)
  <2>1. \/ UNCHANGED qvars
        \/ Kernel!MsgFail(msgid[p])
        \/ Kernel!MsgRcv(msgid[p], RecvType(p))
    BY <1>3 DEF RecvThread, RecvTest, Recv, RecvGot
  <2>2. RecvType(p) \in 1 .. ServerType
    BY CarriedFacts
  <2> QED
    BY <2>1, <2>2, Zenon DEF Brings
<1>4. ASSUME p \in Clients, ClientSend(p) PROVE Brings(Known')
  <2>1. CASE sent[p][NextDest(p)] < MaxSends
    <3> DEFINE k == sent[p][NextDest(p)]
               m == [src |-> p, dst |-> NextDest(p), seq |-> k]
    <3>1. Numbered(p) /\ (Kernel!MsgSnd(msgid[p], ServerType, m) \/ Kernel!MsgFail(msgid[p]))
      BY <1>4, <2>1 DEF ClientSend
    <3>2. NextDest(p) \in Clients /\ sent'[p][NextDest(p)] = k + 1
      BY <1>1, <1>4, <2>1, <3>1, CountOn
    <3>3. k \in 0 .. SeqMod - 1
      BY <1>1, <1>4, <3>2, NumberOK DEF TypeOK
    <3>4. m \in FromClients
      BY <1>4, <3>2, <3>3, SlotFacts DEF FromClients, Message
    <3>5. m.seq < sent'[m.src][m.dst]
      BY <3>2, <3>3
    <3>6. m \in Known'
      <4>1. m \in Sent'
        BY <3>4, <3>5 DEF Sent
      <4> QED
        BY <4>1 DEF Known
    <3>7. ServerType \in 1 .. ServerType
      BY SlotFacts
    <3> HIDE DEF m
    <3> QED
      BY <3>1, <3>6, <3>7, Zenon DEF Brings
  <2>2. CASE ~(sent[p][NextDest(p)] < MaxSends)
    <3>1. UNCHANGED qvars
      BY <1>4, <2>2 DEF ClientSend
    <3> QED
      BY <3>1 DEF Brings
  <2> QED
    BY <2>1, <2>2
<1>5. ASSUME p \in Clients, ClientMain(p), ~ClientSend(p) PROVE Brings(Known')
  <2>1. UNCHANGED qvars \/ Kernel!MsgRmid(msgid[p])
    BY <1>5 DEF ClientMain, ClientLaunch, ClientLoop, ClientDrain, ClientPop, JoinAndRemove
  <2> QED
    BY <2>1, Zenon DEF Brings
<1>6. ASSUME ServerForward PROVE Brings(Known')
  <2>1. Kernel!MsgSnd(msgid[Server], hand.dst, hand) \/ Kernel!MsgFail(msgid[Server])
    BY <1>6 DEF ServerForward
  <2>2. hand \in FromClients /\ hand \in Known
    BY <1>6 DEF ServerForward, IInv, HandOK, Written
  <2>3. hand.dst \in 1 .. ServerType
    BY <2>2, SlotFacts DEF FromClients, Message
  <2>4. hand \in Known'
    <3> DEFINE m == hand
    <3>1. m \in Known
      BY <2>2
    <3> HIDE DEF m
    <3>2. m \in Known'
      BY <1>1, <3>1, KnownGrows
    <3> QED
      BY <3>2 DEF m
  <2> QED
    BY <2>1, <2>3, <2>4, Zenon DEF Brings
<1>7. ASSUME ServerQuit PROVE Brings(Known')
  <2>1. Kernel!MsgSnd(msgid[Server], quitNo, Quit(quitNo)) \/ Kernel!MsgFail(msgid[Server])
    BY <1>7 DEF ServerQuit
  <2>2. quitNo \in Clients /\ quitNo \in 1 .. ServerType
    BY <1>1, SlotFacts DEF TypeOK, DataTypes
  <2>3. Quit(quitNo) \in Known'
    BY <2>2, QuitFacts DEF Known
  <2> QED
    BY <2>1, <2>2, <2>3, Zenon DEF Brings
<1>8. ASSUME ServerMain, ~ServerForward, ~ServerQuit PROVE Brings(Known')
  <2>1. UNCHANGED qvars \/ Kernel!MsgRmid(msgid[Server])
    BY <1>8 DEF ServerMain, ServerLaunch, ServerLoop, ServerTake, JoinAndRemove
  <2> QED
    BY <2>1, Zenon DEF Brings
<1> QED
  BY <1>2, <1>3, <1>4, <1>5, <1>6, <1>7, <1>8 DEF StepOf

(* A process puts into its memory what it had there or took from the queue. *)
LEMMA MemoryKnown ==
  ASSUME TypeOK, Written, NEW p \in Procs, StepOf(p), NEW K, \A m \in Known : m \in K
  PROVE  queue'[p] \in Seq(K) /\ rmsg'[p] \in K /\ hand' \in K
<1>1. /\ queue \in [Procs -> Seq(Slot)] /\ rmsg \in [Procs -> Slot] /\ Server \in Procs
      /\ RecvType(p) \in 1 .. ServerType /\ Junk \in K
  BY SlotFacts, CarriedFacts DEF TypeOK, DataTypes, Known
<1>2. /\ \A q \in Procs : queue[q] \in Seq(Known) /\ rmsg[q] \in Known
      /\ \A t \in 1 .. ServerType : mq[t] \in Seq(Known)
      /\ hand \in Known
  BY DEF Written
<1>3. /\ queue[p] \in Seq(K) /\ queue[Server] \in Seq(K) /\ mq[RecvType(p)] \in Seq(K)
      /\ rmsg[p] \in K /\ hand \in K
  BY <1>1, <1>2, SeqGrows
<1>4. CASE UNCHANGED data
  BY <1>3, <1>4 DEF data
<1>5. CASE Kill(p) \/ JoinAndRemove(p)
  <2>1. /\ queue' = [queue EXCEPT ![p] = <<>>] /\ rmsg' = [rmsg EXCEPT ![p] = Junk]
        /\ hand' \in {hand, Junk}
    BY <1>5 DEF Kill, JoinAndRemove, Gone
  <2> QED
    BY <1>1, <1>3, <2>1, SeqOf
<1>6. CASE SigInt(p)
  <2>1. queue' = queue /\ hand' \in {hand, Junk}
    BY <1>6 DEF SigInt, RecvInterrupted, SendInterrupted
  <2>2. rmsg'[p] \in {rmsg[p], Junk}
    BY <1>1, <1>6 DEF SigInt, RecvInterrupted, SendInterrupted, RecvFailed
  <2> QED
    BY <1>1, <1>3, <2>1, <2>2
<1>7. CASE Recv(p)
  <2>1. queue' = queue /\ hand' = hand
    BY <1>7 DEF Recv
  <2>2. rmsg'[p] \in {rmsg[p], Junk}
        \/ (mq[RecvType(p)] # <<>> /\ rmsg'[p] = Head(mq[RecvType(p)]))
    BY <1>1, <1>7 DEF Recv, RecvFailed, Kernel!MsgRcv
  <2>3. rmsg'[p] \in K
    <3> DEFINE q == mq[RecvType(p)]
    <3>1. q \in Seq(K)
      BY <1>3
    <3>2. rmsg'[p] \in {rmsg[p], Junk} \/ (q # <<>> /\ rmsg'[p] = Head(q))
      BY <2>2
    <3> HIDE DEF q
    <3>3. q # <<>> => Head(q) \in K
      BY <3>1, SeqOf
    <3> QED
      BY <1>1, <1>3, <3>2, <3>3
  <2> QED
    BY <1>3, <2>1, <2>3
<1>8. CASE RecvGot(p)
  <2>1. hand' = hand /\ rmsg'[p] \in {rmsg[p], Junk}
    BY <1>1, <1>8 DEF RecvGot
  <2>2. queue'[p] = queue[p] \/ queue'[p] = Append(queue[p], rmsg[p])
    BY <1>1, <1>8 DEF RecvGot, Push
  <2>3. Append(queue[p], rmsg[p]) \in Seq(K)
    BY <1>3, SeqOf
  <2> QED
    BY <1>1, <1>3, <2>1, <2>2, <2>3
<1>9. CASE p \in Clients /\ ClientPop(p)
  <2>1. /\ hand' = hand /\ rmsg' = rmsg /\ queue[p] # <<>> /\ queue'[p] = Tail(queue[p])
    BY <1>1, <1>9 DEF ClientPop
  <2>2. Tail(queue[p]) \in Seq(K)
    BY <1>3, <2>1, SeqOf
  <2> QED
    BY <1>3, <2>1, <2>2
<1>10. CASE p \in Clients /\ ClientSend(p)
  BY <1>3, <1>10 DEF ClientSend
<1>11. CASE p = Server /\ ServerTake
  <2>1. CASE queue[Server] = <<>>
    BY <1>3, <1>11, <2>1 DEF ServerTake
  <2>2. CASE queue[Server] # <<>>
    <3>1. rmsg' = rmsg /\ hand' = Head(queue[Server]) /\ queue'[p] = Tail(queue[Server])
      BY <1>1, <1>11, <2>2 DEF ServerTake
    <3>2. Head(queue[Server]) \in K /\ Tail(queue[Server]) \in Seq(K)
      BY <1>3, <2>2, SeqOf
    <3> QED
      BY <1>3, <3>1, <3>2
  <2> QED
    BY <2>1, <2>2
<1>12. CASE p = Server /\ (ServerForward \/ ServerQuit)
  <2>1. queue' = queue /\ rmsg' = rmsg /\ hand' \in {hand, Junk}
    BY <1>12 DEF ServerForward, ServerQuit
  <2> QED
    BY <1>1, <1>3, <2>1
<1>13. UNCHANGED data \/ Kill(p) \/ JoinAndRemove(p) \/ SigInt(p) \/ Recv(p) \/ RecvGot(p)
       \/ (p \in Clients /\ (ClientPop(p) \/ ClientSend(p)))
       \/ (p = Server /\ (ServerTake \/ ServerForward \/ ServerQuit))
  BY DEF StepOf, Start, RecvThread, RecvTest, ClientMain, ClientLaunch, ClientLoop, ClientDrain,
     ServerMain, ServerLaunch, ServerLoop
<1> QED
  BY <1>4, <1>5, <1>6, <1>7, <1>8, <1>9, <1>10, <1>11, <1>12, <1>13

LEMMA WrittenStep ==
  ASSUME SeqMod > MaxSends, IInv, Written, [Next]_vars
  PROVE  Written'
<1>1. TypeOK
  BY DEF IInv
<1>2. CASE UNCHANGED vars
  <2>1. UNCHANGED <<mq, queue, rmsg, hand, sent>>
    BY <1>2 DEF vars, qvars, data, ghost
  <2>2. Known' = Known
    BY <2>1 DEF Known, Sent
  <2> HIDE DEF Known
  <2> QED
    BY <2>1, <2>2 DEF Written
<1>3. CASE Next
  <2>1. PICK p \in Procs : StepOf(p)
    BY <1>3, SomeProcess
  <2> DEFINE K == Known'
  <2>2. \A m \in Known : m \in K
    BY <1>1, <2>1, KnownGrows
  <2>3. Brings(K)
    BY <2>1, KnownCall
  <2> HIDE DEF K
  <2>4. \A t \in 1 .. ServerType : mq[t] \in Seq(K)
    BY <2>2, SeqGrows DEF Written
  <2>5. \A t \in 1 .. ServerType : mq'[t] \in Seq(K)
    BY <1>1, <2>3, <2>4, BroughtOnly
  <2>6. queue'[p] \in Seq(K) /\ rmsg'[p] \in K /\ hand' \in K
    BY <1>1, <2>1, <2>2, MemoryKnown
  <2>7. ASSUME NEW q \in Procs PROVE queue'[q] \in Seq(K) /\ rmsg'[q] \in K
    <3>1. queue[q] \in Seq(K) /\ rmsg[q] \in K
      BY <2>2, SeqGrows DEF Written
    <3>2. q # p => queue'[q] = queue[q] /\ rmsg'[q] = rmsg[q]
      BY <1>1, <2>1, Others
    <3> QED
      BY <2>6, <3>1, <3>2
  <2> QED
    BY <2>5, <2>6, <2>7 DEF Written, K
<1> QED
  BY <1>2, <1>3

(* The message a client shows was sent to it, and while the system is steady it is the
   next one of its sender. *)
LEMMA PopKnown ==
  ASSUME IInv, Written, NEW c \in Clients, ClientPop(c), NEW m, m = Head(queue[c]),
         m.src \in Clients
  PROVE  /\ m \in FromClients /\ m.dst = c /\ m.seq \in 0 .. SeqMod - 1
         /\ m.seq < sent[m.src][c]
<1> DEFINE q == queue[c]
<1>1. q # <<>> /\ m = Head(q)
  BY DEF ClientPop
<1>2. q \in Seq(Stored(c)) /\ q \in Seq(Known) /\ c # Server
  BY SlotFacts DEF IInv, StoredOK, Written
<1> HIDE DEF q
<1>3. m \in Stored(c) /\ m \in Known
  BY <1>1, <1>2, SeqOf
<1>4. m \in FromClients /\ m.dst = c
  BY <1>2, <1>3, SlotFacts DEF Stored
<1>5. m \in Sent
  <2>1. m \notin Quits /\ m # Junk
    BY <1>4, QuitFacts, SlotFacts DEF FromClients
  <2> QED
    BY <1>3, <2>1 DEF Known
<1> QED
  BY <1>4, <1>5 DEF Sent, FromClients, Message

LEMMA SequelFirst ==
  ASSUME NEW s, NEW d, NEW lo \in Nat, NEW hi \in Nat, lo <= hi,
         NEW m \in Slot, NEW q \in Seq(Slot), Cat(<<m>>, q) = Sequel(s, d, lo, hi)
  PROVE  lo < hi /\ m.seq = lo
<1>1. /\ lo < hi /\ m = [src |-> s, dst |-> d, seq |-> lo]
      /\ q = Sequel(s, d, lo + 1, hi)
  BY SequelShrinks
<1>2. m.seq = lo
  BY <1>1
<1> QED
  BY <1>1, <1>2

LEMMA PopsNext ==
  ASSUME IInv, TypeOK', Ordered, Steady, NEW c \in Clients, ClientPop(c),
         NEW m \in FromClients, m = Head(queue[c]), m.dst = c
  PROVE  /\ m.seq = shown[c][m.src]
         /\ shown[c][m.src] < sent[m.src][c]
<1> DEFINE s == m.src
           lo == shown[c][s]
           hi == sent[s][c]
           f == InFlight(s, c)'
<1>1. TypeOK /\ s \in Clients /\ c # Server /\ Server \in Procs
  BY SlotFacts DEF IInv, FromClients
<1>2. /\ queue[c] # <<>> /\ queue' = [queue EXCEPT ![c] = Tail(@)]
      /\ UNCHANGED <<mq, rpc, rmsg, hand>> /\ mpc'[Server] = mpc[Server]
  BY <1>1 DEF ClientPop, qvars, GotoMain, TypeOK, ProcTypes
<1>3. InFlight(s, c) = Cat(Of(<<m>>, s, c), f) /\ f \in Seq(Slot)
  <2> HIDE DEF s
  <2> QED
    BY <1>1, <1>2, PopFlow
<1>4. m \in FromTo(s, c) /\ m \in Slot
  BY <1>1 DEF FromTo, FromClients, Message, Slot
<1>5. Of(<<m>>, s, c) = <<m>>
  BY <1>4, OfOne
<1>6. lo \in Nat /\ hi \in Nat /\ lo <= hi /\ InFlight(s, c) = Sequel(s, c, lo, hi)
  BY <1>1, CountsNat DEF Ordered, OrderedAt
<1> HIDE DEF s, lo, hi, f
<1>7. Cat(<<m>>, f) = Sequel(s, c, lo, hi)
  BY <1>3, <1>5, <1>6
<1>8. lo < hi /\ m.seq = lo
  <2>1. lo \in Nat /\ hi \in Nat /\ lo <= hi
    BY <1>6
  <2>2. m \in Slot /\ f \in Seq(Slot)
    BY <1>3, <1>4
  <2> QED
    BY <1>7, <2>1, <2>2, SequelFirst
<1> QED
  BY <1>8 DEF s, lo, hi

LEMMA PopChannels ==
  ASSUME SeqMod > MaxSends, IInv, TypeOK', Written, Orderly, Ordered,
         NEW c \in Clients, ClientPop(c)
  PROVE  [Channels!Next]_Channels!vars
<1> DEFINE m == Head(queue[c])
           n == m.seq + 1
<1>1. /\ UNCHANGED <<sent, msgid, is_running, starts, kills>>
      /\ mpc[c] = "pop" /\ mpc' = [mpc EXCEPT ![c] = "drain"]
      /\ shown' = IF m.src \in Clients
                  THEN [shown EXCEPT ![c][m.src] = (m.seq + 1) % SeqMod]
                  ELSE shown
  BY DEF ClientPop, env, GotoMain
<1>2. TypeOK /\ mpc \in [Procs -> MainPC]
  BY DEF IInv, TypeOK, ProcTypes
<1>3. Steady' <=> Steady
  <2>1. \A p \in Procs : /\ mpc'[p] # "off" <=> mpc[p] # "off"
                         /\ mpc'[p] \in {"off", "init"} <=> mpc[p] \in {"off", "init"}
    BY <1>1, <1>2
  <2> QED
    BY <1>1, <2>1 DEF Steady
<1>4. CASE m.src \notin Clients
  BY <1>1, <1>3, <1>4 DEF Channels!vars
<1>5. CASE m.src \in Clients
  <2> DEFINE s == m.src
  <2>1. m \in FromClients /\ m.dst = c /\ m.seq \in Nat /\ m.seq < sent[s][c]
    BY <1>5, PopKnown
  <2>2. sent[s][c] \in Nat /\ sent[s][c] <= MaxSends
    BY <1>2, <1>5, CountsNat DEF Orderly, Counted
  <2>3. n \in 1 .. sent[s][c] /\ n \in Nat /\ n < SeqMod
    BY <2>1, <2>2
  <2>4. n % SeqMod = n
    BY <2>3, ModSmall
  <2>5. shown' = [shown EXCEPT ![c][s] = n]
    BY <1>1, <1>5, <2>4
  <2>6. CASE Steady
    <3>1. m.seq = shown[c][s] /\ shown[c][s] < sent[s][c]
      BY <2>1, <2>6, PopsNext
    <3>2. Channels!Show(c, s)
      BY <1>1, <1>3, <2>5, <3>1 DEF Channels!Show
    <3> QED
      BY <1>5, <3>2, Zenon DEF Channels!Next
  <2>7. CASE ~Steady
    <3>1. Channels!ShowAny(c, s)
      <4> HIDE DEF n
      <4> QED
        BY <1>1, <1>3, <2>3, <2>5, <2>7 DEF Channels!ShowAny
    <3> QED
      BY <1>5, <3>1, Zenon DEF Channels!Next
  <2> QED
    BY <2>6, <2>7
<1> QED
  BY <1>4, <1>5

LEMMA ShownBy ==
  ASSUME NEW p \in Procs, StepOf(p)
  PROVE  UNCHANGED shown \/ (p \in Clients /\ ClientPop(p))
BY DEF StepOf, Start, SigInt, Kill, RecvThread, RecvTest, Recv, RecvGot, ClientMain,
   ClientLaunch, ClientLoop, ClientDrain, ClientSend, JoinAndRemove, ServerMain, ServerLaunch,
   ServerLoop, ServerTake, ServerForward, ServerQuit, ghost

(* Every step of the dispatcher is a step of the channels, or none. *)
LEMMA ChannelStep ==
  ASSUME SeqMod > MaxSends, IInv, TypeOK', Written, Orderly, Ordered, [Next]_vars
  PROVE  [Channels!Next]_Channels!vars
<1>1. TypeOK
  BY DEF IInv
<1>2. CASE UNCHANGED vars
  <2>1. UNCHANGED <<sent, shown>> /\ (Steady' <=> Steady)
    BY <1>2 DEF vars, procs, ghost, env, Steady
  <2> QED
    BY <2>1 DEF Channels!vars
<1>3. CASE Next
  <2>1. PICK p \in Procs : StepOf(p)
    BY <1>3, SomeProcess
  <2>2. Steady' => Steady
    BY <1>1, <2>1, SteadyBack
  <2>3. CASE p \in Clients /\ ClientPop(p)
    BY <2>3, PopChannels
  <2>4. CASE UNCHANGED shown /\ UNCHANGED sent
    <3>1. CASE Steady'
      BY <2>2, <2>4, <3>1 DEF Channels!vars
    <3>2. CASE ~Steady'
      <4>1. Channels!Interrupt
        BY <2>4, <3>2 DEF Channels!Interrupt
      <4> QED
        BY <4>1 DEF Channels!Next
    <3> QED
      BY <3>1, <3>2
  <2>5. CASE /\ UNCHANGED shown
             /\ p \in Clients /\ sent[p][NextDest(p)] < MaxSends /\ Numbered(p)
    <3> DEFINE d == NextDest(p)
               n == sent[p][d]
    <3>1. d \in Clients /\ sent'[p][d] = n + 1
      BY <1>1, <2>5, CountOn
    <3>2. sent' = [sent EXCEPT ![p][d] = n + 1]
      <4>1. /\ sent \in [Clients -> [Clients -> 0 .. SeqMod - 1]]
            /\ sent' = [sent EXCEPT ![p][d] = (@ + 1) % SeqMod]
        BY <1>1, <2>5 DEF Numbered, TypeOK, CountTypes
      <4>2. sent'[p][d] = (n + 1) % SeqMod
        BY <2>5, <3>1, <4>1
      <4> QED
        BY <3>1, <4>1, <4>2
    <3>3. Channels!Send(p, d)
      BY <2>2, <2>5, <3>2 DEF Channels!Send
    <3> QED
      BY <2>5, <3>1, <3>3, Zenon DEF Channels!Next
  <2> QED
    BY <1>1, <2>1, <2>3, <2>4, <2>5, SentBy, ShownBy
<1> QED
  BY <1>2, <1>3

LEMMA InitWritten == Init => Written
<1> SUFFICES ASSUME Init PROVE Written
  OBVIOUS
<1>1. Junk \in Known /\ <<>> \in Seq(Known)
  BY SeqOf DEF Known
<1>2. /\ \A t \in 1 .. ServerType : mq[t] = <<>>
      /\ \A p \in Procs : queue[p] = <<>> /\ rmsg[p] = Junk
      /\ hand = Junk
  BY DEF Init, Kernel!QueueInit, Kernel!NoMessages
<1> QED
  BY <1>1, <1>2 DEF Written

(* The dispatcher implements the channels of Mailbox: until somebody is told to stop,
   crashes or starts again, every client shows the messages of every other one in the
   order they were sent, each once; after that it still shows none that was not sent. *)
THEOREM DispatcherImplementsMailbox ==
  ASSUME SeqMod > MaxSends
  PROVE  Spec => ImplementsMailbox
<1> DEFINE J == IInv /\ GarbageOK /\ Orderly /\ Attached /\ Ordered /\ Written
<1>1. Init => J
  <2>1. Init => GarbageOK
    BY SlotFacts DEF Init, Kernel!QueueInit, GarbageOK
  <2> QED
    BY <2>1, InitIInv, InitOrderly, InitOrdered, InitWritten
<1>2. J /\ [Next]_vars => J' /\ [Channels!Next]_Channels!vars
  <2> SUFFICES ASSUME J, [Next]_vars PROVE J' /\ [Channels!Next]_Channels!vars
    OBVIOUS
  <2>1. IInv' /\ GarbageOK' /\ Orderly'
    BY NextIInv, GarbageStep, OrderlyStep
  <2>2. TypeOK'
    BY <2>1 DEF IInv
  <2>3. Attached' /\ Ordered'
    BY <2>2, OrderedStep
  <2>4. Written'
    BY WrittenStep
  <2>5. [Channels!Next]_Channels!vars
    BY <2>2, ChannelStep
  <2> QED
    BY <2>1, <2>3, <2>4, <2>5
<1>3. Init => Channels!Init
  <2> SUFFICES ASSUME Init PROVE Channels!Init
    OBVIOUS
  <2>1. Steady
    BY DEF Init, Steady
  <2> QED
    BY <2>1 DEF Init, Channels!Init
<1> QED
  BY <1>1, <1>2, <1>3, PTL DEF Spec, ImplementsMailbox, Channels!Spec
=============================================================================
