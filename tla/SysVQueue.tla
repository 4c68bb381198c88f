------------------------------ MODULE SysVQueue ------------------------------
(***************************************************************************)
(* The System V message queue that the programs of Lab8 share, as they use *)
(* it: msgget(key, 0666 | IPC_CREAT), a blocking msgsnd, a blocking msgrcv *)
(* that selects on the message type, and msgctl(IPC_RMID).  The kernel is  *)
(* not part of the repository; what is modelled is what the callers can    *)
(* observe.                                                                *)
(*                                                                         *)
(* The queue lives in the kernel, not in a process: it survives the exit   *)
(* and the crash of every process that uses it.  Removing it discards its  *)
(* messages, and every later call with the old identifier fails (EINVAL,   *)
(* EIDRM), as does a call that was blocked on it.                          *)
(***************************************************************************)
EXTENDS Integers, Sequences

CONSTANTS
  Types,        \* the message types in use
  Slot,         \* the values a message buffer can hold
  QueueCap      \* how many messages fit into the queue (msg_qbytes / size)

VARIABLES
  qid,          \* identifier of the last queue created for the key; 0: none yet
  exists,       \* that queue has not been removed
  mq,           \* its messages, first in first out for each type
  qnum          \* how many messages it holds (the kernel's msg_qnum)

qvars == <<qid, exists, mq, qnum>>

NoMessages == [t \in Types |-> <<>>]

QueueInit ==
  /\ qid = 0
  /\ exists = FALSE
  /\ mq = NoMessages
  /\ qnum = 0

QueueTypeOK ==
  /\ qid \in Nat
  /\ exists \in BOOLEAN
  /\ mq \in [Types -> Seq(Slot)]
  /\ qnum \in Int

(* An identifier is good as long as nobody has removed the queue. *)
Good(id) == exists /\ id = qid

(***************************************************************************)
(* msgget: attach to the queue of the key, or create it when there is none.*)
(* The caller gets qid'.                                                   *)
(***************************************************************************)
MsgGet ==
  \/ /\ exists
     /\ UNCHANGED qvars
  \/ /\ ~exists
     /\ qid' = qid + 1
     /\ exists' = TRUE
     /\ mq' = NoMessages
     /\ qnum' = 0

(* msgsnd puts m on the queue; with msgflg 0 it waits while there is no room. *)
MsgSnd(id, t, m) ==
  /\ Good(id)
  /\ qnum < QueueCap
  /\ mq' = [mq EXCEPT ![t] = Append(@, m)]
  /\ qnum' = qnum + 1
  /\ UNCHANGED <<qid, exists>>

(* The call is blocked, and a signal handler makes it fail with EINTR. *)
SndBlocked(id) == Good(id) /\ qnum >= QueueCap

(* msgrcv takes the first message of type t; it waits while there is none. *)
MsgRcv(id, t) ==
  /\ Good(id)
  /\ mq[t] # <<>>
  /\ mq' = [mq EXCEPT ![t] = Tail(@)]
  /\ qnum' = qnum - 1
  /\ UNCHANGED <<qid, exists>>

RcvBlocked(id, t) == Good(id) /\ mq[t] = <<>>

(* msgsnd and msgrcv return -1 at once on an identifier that is not good. *)
MsgFail(id) == ~Good(id) /\ UNCHANGED qvars

(* msgctl(IPC_RMID): the queue and the messages in it are gone. *)
MsgRmid(id) ==
  \/ /\ Good(id)
     /\ exists' = FALSE
     /\ mq' = NoMessages
     /\ qnum' = 0
     /\ UNCHANGED qid
  \/ MsgFail(id)
=============================================================================
