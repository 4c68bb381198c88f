------------------------------ MODULE Dispatch ------------------------------
(***************************************************************************)
(* Lab8: N clients exchange messages through a dispatching server over one *)
(* System V message queue.  Every process runs two threads that share its  *)
(* is_running flag and an in-memory queue:                                 *)
(*                                                                         *)
(*   client c   main: show what was received, send one message of type     *)
(*              N + 1, sleep;  recv: take messages of type c into memory   *)
(*   server     recv: take messages of type N + 1 into memory;             *)
(*              main: take one from memory, send it with its destination   *)
(*              as type; on ctrl-C send "Quit" to every client, join recv, *)
(*              remove the queue                                           *)
(*                                                                         *)
(* Process 0 is the server (the "source" of its Quit messages), processes  *)
(* 1 .. N are the clients; the code has N = 3, so its server reads type 4. *)
(* The three client programs differ only in these numbers.                 *)
(*                                                                         *)
(* Every critical section of lock_x touches one in-memory queue and never  *)
(* blocks, so it is one step.  What runs outside the mutex is a step of    *)
(* its own: above all the client's message.size()>0 test before the lock.  *)
(***************************************************************************)
EXTENDS Integers, Sequences, FiniteSets, Selection

CONSTANTS
  N,            \* number of clients
  QueueCap,     \* capacity of the kernel's queue, in messages
  MaxSends,     \* bound: a client numbers at most this many messages per peer
  SeqMod,       \* message numbers count modulo SeqMod (> MaxSends: no wrap)
  InboxCap,     \* bound: a receive thread stops pushing at this queue length
  Started,      \* the programs that are started at all
  MaxStarts,    \* bound: how often each program is started
  MaxKills,     \* bound: how many processes are killed (SIGKILL, crash)
  Stoppable,    \* the processes that may get ctrl-C (SIGINT)
  Faults        \* TRUE: msgget and pthread_create may fail

ASSUME DispatchAssumption ==
  /\ N \in Nat /\ N >= 2
  /\ QueueCap \in Nat \ {0}
  /\ SeqMod \in Nat \ {0}
  /\ MaxSends \in Nat /\ InboxCap \in Nat
  /\ MaxStarts \in Nat /\ MaxKills \in Nat
  /\ Started \subseteq 0 .. N /\ Stoppable \subseteq 0 .. N
  /\ Faults \in BOOLEAN

Server == 0
Clients == 1 .. N
Procs == 0 .. N
ServerType == N + 1

(* A message: msgBuf.source, msgBuf.dest and the number of its text. *)
Message == [src : Procs, dst : Clients, seq : 0 .. SeqMod - 1]
Quit(c) == [src |-> Server, dst |-> c, seq |-> 0]
IsQuit(m) == m.src = Server

(* The contents of a Message variable that nothing has been read into. *)
Junk == [src |-> -1, dst |-> 0, seq |-> 0]
Slot == Message \union {Junk}

VARIABLES
  qid, exists, mq, qnum,  \* the kernel's queue, see SysVQueue
  msgid,        \* msgid[p]: the queue identifier p got from msgget, -1: error
  is_running,   \* is_running[p]: the flag both threads of p loop on
  mpc,          \* mpc[p]: where the main thread of p is
  rpc,          \* rpc[p]: where the receive thread of p is
  rmsg,         \* rmsg[p]: the local variable msg of p's receive thread
  queue,        \* queue[p]: messageQueue of the server, message<p> of client p
  hand,         \* the message the server's main thread has popped
  quitNo,       \* the loop index of the server's Quit loop
  dest,         \* dest[c]: whom client c has written to last
  sent,         \* sent[s][d]: number of the next message from s to d
  shown,        \* shown[d][s]: number after the last one of s that d has shown
  starts,       \* starts[p]: how often p has been started
  kills         \* how many processes have been killed

qvars == <<qid, exists, mq, qnum>>
procs == <<msgid, is_running, mpc, rpc>>
data  == <<rmsg, queue, hand, quitNo, dest>>
ghost == <<sent, shown>>
env   == <<starts, kills>>
vars  == <<qvars, procs, data, ghost, env>>

Kernel == INSTANCE SysVQueue WITH Types <- 1 .. ServerType

MainPC == {"off", "init", "loop", "drain", "pop", "send",
           "take", "fwd", "quit", "join", "done"}
RecvPC == {"off", "test", "rcv", "got", "done"}

Live(p) == mpc[p] \notin {"off", "done"}
RecvType(p) == IF p = Server THEN ServerType ELSE p

Init ==
  /\ Kernel!QueueInit
  /\ msgid = [p \in Procs |-> -1]
  /\ is_running = [p \in Procs |-> p = Server]
  /\ mpc = [p \in Procs |-> "off"]
  /\ rpc = [p \in Procs |-> "off"]
  /\ rmsg = [p \in Procs |-> Junk]
  /\ queue = [p \in Procs |-> <<>>]
  /\ hand = Junk
  /\ quitNo = 1
  /\ dest = [c \in Clients |-> 0]
  /\ sent = [s \in Clients |-> [d \in Clients |-> 0]]
  /\ shown = [d \in Clients |-> [s \in Clients |-> 0]]
  /\ starts = [p \in Procs |-> 0]
  /\ kills = 0

GotoMain(p, pc) == mpc' = [mpc EXCEPT ![p] = pc]
GotoRecv(p, pc) == rpc' = [rpc EXCEPT ![p] = pc]

(* The process ends, and its memory with it. *)
Gone(p) ==
  /\ rmsg' = [rmsg EXCEPT ![p] = Junk]
  /\ queue' = [queue EXCEPT ![p] = <<>>]
  /\ IF p = Server
     THEN hand' = Junk /\ quitNo' = 1 /\ UNCHANGED dest
     ELSE dest' = [dest EXCEPT ![p] = 0] /\ UNCHANGED <<hand, quitNo>>

-----------------------------------------------------------------------------
(* Start-up: a fresh process installs its SIGINT handler and gets the queue; *)
(* the server gives up when it cannot, a client carries on with -1.          *)

Start(p) ==
  /\ p \in Started
  /\ ~Live(p)
  /\ starts[p] < MaxStarts
  /\ starts' = [starts EXCEPT ![p] = @ + 1]
  /\ is_running' = [is_running EXCEPT ![p] = (p = Server)]
  /\ GotoRecv(p, "off")
  /\ \/ /\ Kernel!MsgGet
        /\ msgid' = [msgid EXCEPT ![p] = qid']
        /\ GotoMain(p, "init")
     \/ /\ Faults
        /\ msgid' = [msgid EXCEPT ![p] = -1]
        /\ GotoMain(p, IF p = Server THEN "done" ELSE "init")
        /\ UNCHANGED qvars
  /\ UNCHANGED <<data, ghost, kills>>

(* A client raises is_running only here, after the handler could have lowered
   it; when it cannot create its thread it returns, leaving the queue alone. *)
ClientLaunch(c) ==
  /\ mpc[c] = "init"
  /\ \/ /\ is_running' = [is_running EXCEPT ![c] = TRUE]
        /\ GotoMain(c, "loop")
        /\ GotoRecv(c, "test")
     \/ /\ Faults
        /\ is_running' = [is_running EXCEPT ![c] = FALSE]
        /\ GotoMain(c, "done")
        /\ UNCHANGED rpc
  /\ UNCHANGED <<qvars, msgid, data, ghost, env>>

(* The server does not look at the result of pthread_create. *)
ServerLaunch ==
  /\ mpc[Server] = "init"
  /\ GotoMain(Server, "loop")
  /\ \/ GotoRecv(Server, "test")
     \/ Faults /\ GotoRecv(Server, "done")
  /\ UNCHANGED <<qvars, msgid, is_running, data, ghost, env>>

-----------------------------------------------------------------------------
(* The main thread of client c.                                            *)

ClientLoop(c) ==
  /\ mpc[c] = "loop"
  /\ GotoMain(c, IF is_running[c] THEN "drain" ELSE "join")
  /\ UNCHANGED <<qvars, msgid, is_running, rpc, data, ghost, env>>

(* Two slips in the unlocked test, for the mutants of the properties below. *)
ClientDrainUntested(c) ==
  /\ mpc[c] = "drain"
  /\ GotoMain(c, IF Len(queue[c]) >= 0 THEN "pop" ELSE "send")
  /\ UNCHANGED <<qvars, msgid, is_running, rpc, data, ghost, env>>

ClientDrainLeavesOne(c) ==
  /\ mpc[c] = "drain"
  /\ GotoMain(c, IF Len(queue[c]) > 1 THEN "pop" ELSE "send")
  /\ UNCHANGED <<qvars, msgid, is_running, rpc, data, ghost, env>>

(* The size is read without the lock. *)
ClientDrain(c) ==
  /\ mpc[c] = "drain"
  /\ GotoMain(c, IF Len(queue[c]) > 0 THEN "pop" ELSE "send")
  /\ UNCHANGED <<qvars, msgid, is_running, rpc, data, ghost, env>>

(* front() and pop() under the lock, without looking at the size again; then
   the message is printed. *)
ClientPop(c) ==
  /\ mpc[c] = "pop"
  /\ queue[c] # <<>>
  /\ LET m == Head(queue[c]) IN
       shown' = IF m.src \in Clients
                THEN [shown EXCEPT ![c][m.src] = (m.seq + 1) % SeqMod]
                ELSE shown
  /\ queue' = [queue EXCEPT ![c] = Tail(@)]
  /\ GotoMain(c, "drain")
  /\ UNCHANGED <<qvars, msgid, is_running, rpc, rmsg, hand, quitNo, dest, sent, env>>

(* client 1 writes to 2, 3, 2 ..., client 2 to 3, 1, 3 ..., client 3 to 1, 2, 1 ... *)
Succ(c) == IF c = N THEN 1 ELSE c + 1
NextDest(c) ==
  IF dest[c] = 0 \/ Succ(dest[c]) = c THEN Succ(c) ELSE Succ(dest[c])

(* What the client changes by sending, whatever comes of it: the result of
   msgsnd is not looked at, so a message that fails is counted and lost. *)
Numbered(c) ==
  /\ dest' = [dest EXCEPT ![c] = NextDest(c)]
  /\ sent' = [sent EXCEPT ![c][NextDest(c)] = (@ + 1) % SeqMod]
  /\ GotoMain(c, "loop")

ClientSend(c) ==
  /\ mpc[c] = "send"
  /\ IF sent[c][NextDest(c)] < MaxSends
     THEN /\ LET m == [src |-> c, dst |-> NextDest(c), seq |-> sent[c][NextDest(c)]]
             IN  Kernel!MsgSnd(msgid[c], ServerType, m) \/ Kernel!MsgFail(msgid[c])
          /\ Numbered(c)
     ELSE /\ GotoMain(c, "loop")
          /\ UNCHANGED <<qvars, dest, sent>>
  /\ UNCHANGED <<msgid, is_running, rpc, rmsg, queue, hand, quitNo, shown, env>>

(* The main thread leaves its loop, waits for the receive thread, and removes
   the queue: every process does, also a client that stops on its own. *)
JoinAndRemove(p) ==
  /\ mpc[p] = "join"
  /\ rpc[p] = "done"
  /\ Kernel!MsgRmid(msgid[p])
  /\ GotoMain(p, "done")
  /\ Gone(p)
  /\ UNCHANGED <<msgid, is_running, rpc, ghost, env>>

ClientMain(c) ==
  \/ ClientLaunch(c)
  \/ ClientLoop(c)
  \/ ClientDrain(c)
  \/ ClientPop(c)
  \/ ClientSend(c)
  \/ JoinAndRemove(c)

-----------------------------------------------------------------------------
(* The receive threads.  Both test is_running, block in msgrcv, and push.   *)

RecvTest(p) ==
  /\ rpc[p] = "test"
  /\ GotoRecv(p, IF is_running[p] THEN "rcv" ELSE "done")
  /\ UNCHANGED <<qvars, msgid, is_running, mpc, data, ghost, env>>

(* Mutant: the server retries without looking at is_running. *)
RecvRetried(p) ==
  IF p = Server
  THEN UNCHANGED <<rpc, rmsg>>
  ELSE /\ GotoRecv(p, "got")
       /\ \E m \in {rmsg[p], Junk} : rmsg' = [rmsg EXCEPT ![p] = m]

(* msgrcv failed.  The server skips the message; a client does not look at the
   result and goes on with what its uninitialised variable holds: what the last
   iteration left at that place of the stack, or anything else. *)
RecvFailed(p) ==
  IF p = Server
  THEN /\ GotoRecv(p, "test")
       /\ UNCHANGED rmsg
  ELSE /\ GotoRecv(p, "got")
       /\ \E m \in {rmsg[p], Junk} : rmsg' = [rmsg EXCEPT ![p] = m]

Recv(p) ==
  /\ rpc[p] = "rcv"
  /\ \/ /\ Kernel!MsgRcv(msgid[p], RecvType(p))
        /\ rmsg' = [rmsg EXCEPT ![p] = Head(mq[RecvType(p)])]
        /\ GotoRecv(p, "got")
     \/ /\ Kernel!MsgFail(msgid[p])
        /\ RecvFailed(p)
  /\ UNCHANGED <<msgid, is_running, mpc, queue, hand, quitNo, dest, ghost, env>>

(* Mutant: a stack instead of a queue. *)
PushFront(p) ==
  /\ Len(queue[p]) < InboxCap
  /\ queue' = [queue EXCEPT ![p] = <<rmsg[p]>> \o @]
  /\ UNCHANGED is_running

Push(p) ==
  /\ Len(queue[p]) < InboxCap
  /\ queue' = [queue EXCEPT ![p] = Append(@, rmsg[p])]
  /\ UNCHANGED is_running

(* Only a client knows "Quit": it stops its main loop and is not shown.  The
   variable msg ends with the iteration; its bytes matter to a client only. *)
RecvGot(p) ==
  /\ rpc[p] = "got"
  /\ IF p \in Clients /\ IsQuit(rmsg[p])
     THEN /\ is_running' = [is_running EXCEPT ![p] = FALSE]
          /\ UNCHANGED queue
     ELSE Push(p)
  /\ rmsg' = IF p = Server THEN [rmsg EXCEPT ![p] = Junk] ELSE rmsg
  /\ GotoRecv(p, "test")
  /\ UNCHANGED <<qvars, msgid, mpc, hand, quitNo, dest, ghost, env>>

RecvThread(p) == RecvTest(p) \/ Recv(p) \/ RecvGot(p)

-----------------------------------------------------------------------------
(* The main thread of the server.                                          *)

(* Mutant: the loop ends when there is nothing left to forward. *)
ServerLoopUntilEmpty ==
  /\ mpc[Server] = "loop"
  /\ GotoMain(Server, IF is_running[Server] /\ queue[Server] # <<>>
                      THEN "take" ELSE "quit")
  /\ UNCHANGED <<qvars, msgid, is_running, rpc, data, ghost, env>>

ServerLoop ==
  /\ mpc[Server] = "loop"
  /\ GotoMain(Server, IF is_running[Server] THEN "take" ELSE "quit")
  /\ UNCHANGED <<qvars, msgid, is_running, rpc, data, ghost, env>>

(* empty(), front() and pop() are one critical section here. *)
ServerTake ==
  /\ mpc[Server] = "take"
  /\ IF queue[Server] = <<>>
     THEN /\ GotoMain(Server, "loop")
          /\ UNCHANGED <<queue, hand>>
     ELSE /\ hand' = Head(queue[Server])
          /\ queue' = [queue EXCEPT ![Server] = Tail(@)]
          /\ GotoMain(Server, "fwd")
  /\ UNCHANGED <<qvars, msgid, is_running, rpc, rmsg, quitNo, dest, ghost, env>>

(* Mutant: a reply goes back to where the message came from. *)
ServerReply ==
  /\ mpc[Server] = "fwd"
  /\ Kernel!MsgSnd(msgid[Server], hand.src, hand) \/ Kernel!MsgFail(msgid[Server])
  /\ hand' = Junk
  /\ GotoMain(Server, "loop")
  /\ UNCHANGED <<msgid, is_running, rpc, rmsg, queue, quitNo, dest, ghost, env>>

(* mtype = msgBuf.dest; the result of msgsnd is not looked at. *)
ServerForward ==
  /\ mpc[Server] = "fwd"
  /\ Kernel!MsgSnd(msgid[Server], hand.dst, hand) \/ Kernel!MsgFail(msgid[Server])
  /\ hand' = Junk
  /\ GotoMain(Server, "loop")
  /\ UNCHANGED <<msgid, is_running, rpc, rmsg, queue, quitNo, dest, ghost, env>>

(* Mutant: the Quit loop runs once too often. *)
QuitNextOffByOne ==
  IF quitNo <= N THEN /\ quitNo' = quitNo + 1
                      /\ UNCHANGED mpc
                 ELSE /\ GotoMain(Server, "join")
                      /\ UNCHANGED quitNo

(* for (i = 1; i <= 3; ++i) msgsnd(Quit to i); then the queue is removed as
   soon as the receive thread has ended. *)
QuitNext ==
  IF quitNo < N THEN /\ quitNo' = quitNo + 1
                     /\ UNCHANGED mpc
                ELSE /\ GotoMain(Server, "join")
                     /\ UNCHANGED quitNo

ServerQuit ==
  /\ mpc[Server] = "quit"
  /\ \/ Kernel!MsgSnd(msgid[Server], quitNo, Quit(quitNo))
     \/ Kernel!MsgFail(msgid[Server])
  /\ QuitNext
  /\ UNCHANGED <<msgid, is_running, rpc, rmsg, queue, hand, dest, ghost, env>>

ServerMain ==
  \/ ServerLaunch
  \/ ServerLoop
  \/ ServerTake
  \/ ServerForward
  \/ ServerQuit
  \/ JoinAndRemove(Server)

-----------------------------------------------------------------------------
(* Signals and crashes.                                                    *)

(* SIGINT reaches one of the threads.  If that thread is blocked in msgrcv or
   msgsnd the call returns EINTR, for the handler is installed without
   SA_RESTART; the message that was being sent is lost. *)
RecvInterrupted(p) ==
  /\ rpc[p] = "rcv"
  /\ Kernel!RcvBlocked(msgid[p], RecvType(p))
  /\ RecvFailed(p)
  /\ UNCHANGED <<mpc, hand, quitNo, dest, sent>>

SendInterrupted(p) ==
  /\ Kernel!SndBlocked(msgid[p])
  /\ \/ /\ p \in Clients /\ mpc[p] = "send"
        /\ sent[p][NextDest(p)] < MaxSends
        /\ Numbered(p)
        /\ UNCHANGED <<hand, quitNo>>
     \/ /\ p = Server /\ mpc[p] = "fwd"
        /\ hand' = Junk
        /\ GotoMain(p, "loop")
        /\ UNCHANGED <<quitNo, dest, sent>>
     \/ /\ p = Server /\ mpc[p] = "quit"
        /\ QuitNext
        /\ UNCHANGED <<hand, dest, sent>>
  /\ UNCHANGED <<rpc, rmsg>>

SigInt(p) ==
  /\ p \in Stoppable
  /\ Live(p)
  /\ is_running' = [is_running EXCEPT ![p] = FALSE]
  /\ \/ UNCHANGED <<mpc, rpc, rmsg, hand, quitNo, dest, sent>>
     \/ RecvInterrupted(p)
     \/ SendInterrupted(p)
  /\ UNCHANGED <<qvars, msgid, queue, shown, env>>

(* SIGKILL (stop.sh) or a crash: the process is gone, the queue stays. *)
Kill(p) ==
  /\ Live(p)
  /\ kills < MaxKills
  /\ kills' = kills + 1
  /\ GotoMain(p, "off")
  /\ GotoRecv(p, "off")
  /\ Gone(p)
  /\ UNCHANGED <<qvars, msgid, is_running, ghost, starts>>

-----------------------------------------------------------------------------
MainThread(p) == IF p = Server THEN ServerMain ELSE ClientMain(p)

Next ==
  \/ \E p \in Procs : Start(p) \/ SigInt(p) \/ Kill(p)
  \/ \E p \in Procs : RecvThread(p)
  \/ \E c \in Clients : ClientMain(c)
  \/ ServerMain

Spec == Init /\ [][Next]_vars

(* The operating system runs every thread that can run.  Nobody has to start a
   program, to press ctrl-C, or to crash. *)
Fairness ==
  \A p \in Procs : WF_vars(MainThread(p)) /\ WF_vars(RecvThread(p))

FairSpec == Spec /\ Fairness

-----------------------------------------------------------------------------
(* Properties.                                                             *)

(* The types of all variables: the threads, what they hold, the counters. *)
ProcTypes ==
  /\ msgid \in [Procs -> Nat \union {-1}]
  /\ is_running \in [Procs -> BOOLEAN]
  /\ mpc \in [Procs -> MainPC]
  /\ rpc \in [Procs -> RecvPC]
DataTypes ==
  /\ rmsg \in [Procs -> Slot]
  /\ queue \in [Procs -> Seq(Slot)]
  /\ hand \in Slot
  /\ quitNo \in Clients
  /\ dest \in [Clients -> 0 .. N]
CountTypes ==
  /\ sent \in [Clients -> [Clients -> 0 .. SeqMod - 1]]
  /\ shown \in [Clients -> [Clients -> 0 .. SeqMod - 1]]
  /\ starts \in [Procs -> Nat]
  /\ kills \in Nat
TypeOK == Kernel!QueueTypeOK /\ ProcTypes /\ DataTypes /\ CountTypes

(* A client takes the front of its in-memory queue on the strength of a size it
   read before it had the lock: front() is never called on an empty queue. *)
PopNonEmpty == \A c \in Clients : mpc[c] = "pop" => queue[c] # <<>>

SeqElems(s) == {s[i] : i \in DOMAIN s}

(* The client has not been told to stop, and nobody has removed its queue. *)
Working(c) == is_running[c] /\ Kernel!Good(msgid[c])

(* The dispatcher sends every message where its sender wanted it: what waits
   under a client's type, and what a client has in memory, is for that client,
   also across crashes, restarts and removals of the queue.  The garbage of a
   msgrcv that has failed gets into its memory only when the client has been told
   to stop or the queue has been removed, by whomever. *)
Routing ==
  \A c \in Clients :
    /\ \A m \in SeqElems(mq[c]) : m.dst = c
    /\ \A m \in SeqElems(queue[c]) : m = Junk \/ (m.dst = c /\ m.src \in Clients)
    /\ Working(c) => Junk \notin SeqElems(queue[c])

(* Nobody has been told to stop, nothing has crashed or been started again, and
   every process has the queue. *)
Steady ==
  /\ kills = 0
  /\ \A p \in Procs :
       /\ starts[p] <= 1
       /\ mpc[p] # "off" => msgid[p] # -1
       /\ mpc[p] \in {"off", "init"} \/ is_running[p]

Held(p) == IF rpc[p] = "got" THEN <<rmsg[p]>> ELSE <<>>
InHand == IF mpc[Server] = "fwd" THEN <<hand>> ELSE <<>>

(* All that is under way to client d, what it will show first in front. *)
Pipeline(d) ==
  queue[d] \o Held(d) \o mq[d] \o
  InHand \o queue[Server] \o Held(Server) \o mq[ServerType]

FromTo(s, d) == [src : {s}, dst : {d}, seq : 0 .. SeqMod - 1]
InFlight(s, d) == Keep(Pipeline(d), FromTo(s, d))

(* While the system is steady the two queues of memory, the two threads of the
   server and of the client and the kernel's queue lose nothing, repeat nothing
   and reorder nothing: what is under way from s to d is exactly what s has sent
   and d has not shown, in that order.  (For SeqMod > MaxSends.) *)
InOrderOnce ==
  Steady =>
    \A s, d \in Clients :
      InFlight(s, d) = [i \in 1 .. sent[s][d] - shown[d][s] |->
                          [src |-> s, dst |-> d, seq |-> shown[d][s] + i - 1]]

(* A client is told to quit only by a server that has left its loop and has come
   to this client in its Quit loop, and then only once.  (A server that was
   killed may have left older ones behind.) *)
QuitsTo(c) == Keep(mq[c] \o Held(c), {Quit(d) : d \in Clients})
QuitOrigin ==
  kills = 0 /\ starts[Server] <= 1 =>
    \A c \in Clients :
      QuitsTo(c) # <<>> =>
        /\ ~is_running[Server]
        /\ mpc[Server] = "quit" => c < quitNo
        /\ mpc[Server] \in {"quit", "join", "done"}
        /\ Len(QuitsTo(c)) = 1

(* The dispatcher implements the channels that Mailbox promises. *)
Channels == INSTANCE Mailbox WITH interrupted <- ~Steady
ImplementsMailbox == Channels!Spec

(* While nobody is told to stop, every message to a client that runs is shown,
   unless the kernel's queue is full of messages to clients that do not run: the
   server then blocks in msgsnd, with everybody else's messages behind it. *)
Clogged ==
  /\ qnum >= QueueCap
  /\ \A t \in 1 .. ServerType : mq[t] # <<>> => t \in Clients /\ ~Live(t)

Delivered ==
  \A s, d \in Clients : \A k \in 1 .. MaxSends : s # d =>
    (sent[s][d] = k /\ Live(Server) /\ Live(d))
      ~> (shown[d][s] >= k \/ ~Steady \/ Clogged)

(* A server that is told to stop does stop if at least one running client uses
   the same queue: a message of that client, or the client's own removal of the
   queue, gets the receive thread out of msgrcv.  Unless the queue fills up: with
   its Quits in front of clients that have ended, the server may block in msgsnd. *)
Connected(c) == Live(c) /\ Kernel!Good(msgid[c]) /\ msgid[c] = msgid[Server]
ServerStops ==
  (Live(Server) /\ ~is_running[Server] /\ \E c \in Clients : Connected(c))
    ~> (mpc[Server] = "done" \/ qnum >= QueueCap)

-----------------------------------------------------------------------------
(* The inductive invariant behind TypeOK, Routing and PopNonEmpty: which of  *)
(* the messages can be in which place.  The server forwards to type dst what *)
(* it holds, so routing needs that it never holds anything but a message of  *)
(* a client, not even after a failed msgrcv, a crash or a restart.           *)

FromClients == {m \in Message : m.src \in Clients}
Carried(t) == IF t = ServerType THEN FromClients ELSE {m \in Message : m.dst = t}
Stored(p) == IF p = Server THEN FromClients
                           ELSE {Junk} \union {m \in FromClients : m.dst = p}

CarriedOK == \A t \in 1 .. ServerType : mq[t] \in Seq(Carried(t))
StoredOK == \A p \in Procs : queue[p] \in Seq(Stored(p))
ReceivedOK ==
  /\ \A p \in Procs : rmsg[p] \in Carried(RecvType(p)) \union {Junk}
  /\ rpc[Server] = "got" => rmsg[Server] \in FromClients
HandOK == mpc[Server] = "fwd" => hand \in FromClients

(* Garbage comes from an interrupted call, whose handler has lowered is_running,
   or from an identifier that has turned bad; neither is taken back while the
   client lives, and a client that starts has nothing in memory. *)
GarbageOK ==
  \A c \in Clients :
    /\ msgid[c] <= qid
    /\ mpc[c] \in {"off", "init", "done"} => queue[c] = <<>> /\ rpc[c] \in {"off", "done"}
    /\ Working(c) => /\ queue[c] \in Seq(FromClients)
                     /\ rpc[c] = "got" => rmsg[c] # Junk

(* Every message is in a place it may be in, and the types are right. *)
IInv ==
  /\ TypeOK
  /\ CarriedOK
  /\ StoredOK
  /\ ReceivedOK
  /\ HandOK
  /\ PopNonEmpty
=============================================================================
