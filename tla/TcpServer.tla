------------------------------ MODULE TcpServer ------------------------------
(***************************************************************************)
(* Lab9: up to MAX_CLIENTS clients write texts to a TCP server, which      *)
(* prints them, and which sends them "Quit" before it ends.                *)
(*                                                                         *)
(*   server    main: accept one connection if one waits, print all of      *)
(*             message_queue, sleep; in the end, for every connection in   *)
(*             turn, write "Quit", join its thread, close it               *)
(*             receive thread of slot s: read with a timeout, queue        *)
(*   client c  main: sleep, write; recv: read, stop main on "Quit"         *)
(*                                                                         *)
(* msg_mutex guards message_queue; its two critical sections do not block  *)
(* and are one step each.  TCP keeps the bytes of a client in order; a     *)
(* read takes some of what has arrived.  Texts are numbered, and a read    *)
(* takes whole texts (the server prints the pieces one after the other).   *)
(***************************************************************************)
EXTENDS Integers, Sequences, SequencesExt, Selection

CONSTANTS
  Clients,      \* the client processes
  NoClient,     \* conn_fds[s] has not been set
  MaxClients,   \* MAX_CLIENTS, 3 in the code
  MaxTexts,     \* bound: texts that a client numbers
  Killable,     \* the clients that may be killed (ctrl-C, stopClient.sh)
  Faults        \* TRUE: socket, bind, accept and pthread_create may fail

ASSUME TcpServerAssumption ==
  /\ NoClient \notin Clients
  /\ MaxClients \in Nat \ {0}
  /\ MaxTexts \in Nat
  /\ Killable \subseteq Clients
  /\ Faults \in BOOLEAN

Slots == 1 .. MaxClients

VARIABLES
  \* the server
  bound,        \* its socket listens at the port that the clients know
  spc,          \* where its main is
  is_running,
  client_count,
  conn_fds,     \* conn_fds[s]: the client whose connection is in slot s
  slot,         \* the loop index of the shutdown
  rpc,          \* rpc[s]: where the receive thread of slot s is
  rfd,          \* the connection that this thread reads
  buf,          \* the texts that it has read
  message_queue,
  printed,      \* printed[c]: what the server has printed of client c
  \* the network
  waiting,      \* connections that wait for accept
  sopen,        \* connections whose server end is open, accepted or waiting
  up,           \* up[c]: texts of c that have arrived or will
  quit,         \* the clients that a "Quit" is under way to
  \* the clients
  cpc,          \* cpc[c]: where main of client c is
  crun,         \* its is_running
  crx,          \* where its receive thread is
  nsent,        \* how many texts it has written to an open connection
  late          \* how many of its writes came after the server's close

srv == <<bound, spc, is_running, client_count, conn_fds, slot>>
thr == <<rpc, rfd, buf>>
out == <<message_queue, printed>>
net == <<waiting, sopen, up, quit>>
cli == <<cpc, crun, crx, nsent, late>>
vars == <<srv, thr, out, net, cli>>

Ended == {"done", "failed", "sigpipe", "killed"}
Up(c) == cpc[c] \in {"launch", "set", "loop", "write"}  \* its end is open

(* The results of socket, bind and listen are not looked at. *)
Listens == IF Faults THEN BOOLEAN ELSE {TRUE}

Init ==
  /\ bound \in Listens
  /\ spc = "loop"
  /\ is_running = TRUE
  /\ client_count = 0
  /\ conn_fds = [s \in Slots |-> NoClient]
  /\ slot = 1
  /\ rpc = [s \in Slots |-> "off"]
  /\ rfd = [s \in Slots |-> NoClient]
  /\ buf = [s \in Slots |-> <<>>]
  /\ message_queue = <<>>
  /\ printed = [c \in Clients |-> <<>>]
  /\ waiting = <<>>
  /\ sopen = {}
  /\ up = [c \in Clients |-> <<>>]
  /\ quit = {}
  /\ cpc = [c \in Clients |-> "connect"]
  /\ crun = [c \in Clients |-> FALSE]
  /\ crx = [c \in Clients |-> "off"]
  /\ nsent = [c \in Clients |-> 0]
  /\ late = [c \in Clients |-> 0]

-----------------------------------------------------------------------------
(* The server's main.                                                      *)

Loop ==
  /\ spc = "loop"
  /\ spc' = IF is_running THEN "accept" ELSE "quit"
  /\ UNCHANGED <<bound, is_running, client_count, conn_fds, slot, thr, out, net, cli>>

(* A pthread_create that fails is not noticed: a slot without a thread. *)
Created == IF Faults THEN {"start", "none"} ELSE {"start"}


(* Mutant: the result of accept is not looked at. *)
AcceptUnchecked ==
  /\ spc = "accept"
  /\ spc' = "drain"
  /\ IF client_count < MaxClients
     THEN /\ conn_fds' = [conn_fds EXCEPT ![client_count + 1] =
                            IF waiting = <<>> THEN NoClient ELSE Head(waiting)]
          /\ \E l \in Created : rpc' = [rpc EXCEPT ![client_count + 1] = l]
          /\ client_count' = client_count + 1
          /\ waiting' = SubSeq(waiting, 2, Len(waiting))
     ELSE UNCHANGED <<conn_fds, rpc, client_count, waiting>>
  /\ UNCHANGED <<bound, is_running, slot, rfd, buf, out, sopen, up, quit, cli>>

(* accept does not block.  A slot is never given back. *)
Accept ==
  /\ spc = "accept"
  /\ spc' = "drain"
  /\ IF client_count < MaxClients /\ waiting # <<>>
     THEN /\ conn_fds' = [conn_fds EXCEPT ![client_count + 1] = Head(waiting)]
          /\ \E l \in Created : rpc' = [rpc EXCEPT ![client_count + 1] = l]
          /\ client_count' = client_count + 1
          /\ waiting' = Tail(waiting)
     ELSE UNCHANGED <<conn_fds, rpc, client_count, waiting>>
  /\ UNCHANGED <<bound, is_running, slot, rfd, buf, out, sopen, up, quit, cli>>

(* A connection waits, and accept fails all the same: main tries again next time. *)
AcceptFails ==
  /\ spc = "accept"
  /\ Faults
  /\ client_count < MaxClients /\ waiting # <<>>
  /\ spc' = "refused"
  /\ UNCHANGED <<bound, is_running, client_count, conn_fds, slot, thr, out, net, cli>>

Of(c, q) == Keep(q, [src : {c}, no : Nat])

(* Mutant: from the wrong end. *)
DrainBack ==
  /\ spc \in {"drain", "refused"}
  /\ spc' = "loop"
  /\ printed' = [c \in Clients |-> printed[c] \o Of(c, Reverse(message_queue))]
  /\ message_queue' = <<>>
  /\ UNCHANGED <<bound, is_running, client_count, conn_fds, slot, thr, net, cli>>

(* Everything in the queue is printed under the lock; then main sleeps. *)
Drain ==
  /\ spc \in {"drain", "refused"}
  /\ spc' = "loop"
  /\ printed' = [c \in Clients |-> printed[c] \o Of(c, message_queue)]
  /\ message_queue' = <<>>
  /\ UNCHANGED <<bound, is_running, client_count, conn_fds, slot, thr, net, cli>>

(* A write to a client that has gone is lost without an error. *)
SendQuit ==
  /\ spc = "quit"
  /\ slot <= client_count
  /\ spc' = "join"
  /\ quit' = IF Up(conn_fds[slot]) THEN quit \union {conn_fds[slot]} ELSE quit
  /\ UNCHANGED <<bound, is_running, client_count, conn_fds, slot, thr, out,
                 waiting, sopen, up, cli>>

(* What the thread has queued since the last Drain, and what still waits in the
   socket, is lost. *)
JoinAndClose ==
  /\ spc = "join"
  /\ rpc[slot] \in {"done", "none"}
  /\ sopen' = sopen \ {conn_fds[slot]}
  /\ up' = [up EXCEPT ![conn_fds[slot]] = <<>>]
  /\ slot' = slot + 1
  /\ spc' = "quit"
  /\ UNCHANGED <<bound, is_running, client_count, conn_fds, thr, out, waiting, quit, cli>>

(* close(server_fd) resets the connections that were never accepted.  To join a
   thread that was never created may end the program before. *)
Exit ==
  /\ \/ spc = "quit" /\ slot > client_count
     \/ spc = "join" /\ rpc[slot] = "none"
  /\ spc' = "done"
  /\ sopen' = {}
  /\ waiting' = <<>>
  /\ message_queue' = <<>>
  /\ up' = [c \in Clients |-> <<>>]
  /\ UNCHANGED <<bound, is_running, client_count, conn_fds, slot, thr, printed, quit, cli>>

ServerMain == Loop \/ Accept \/ AcceptFails \/ Drain \/ SendQuit \/ JoinAndClose \/ Exit

SigInt ==
  /\ spc # "done"
  /\ is_running' = FALSE
  /\ UNCHANGED <<bound, spc, client_count, conn_fds, slot, thr, out, net, cli>>

-----------------------------------------------------------------------------
(* The receive thread of slot s.  Its argument is the address of conn_fds[s], *)
(* which it reads some time after it was created.                            *)

(* Mutant: the argument is the address of main's variable conn_fd. *)
ReadArgLate(s) == conn_fds[client_count]

ReadArg(s) == conn_fds[s]

RecvStart(s) ==
  /\ rpc[s] = "start"
  /\ rfd' = [rfd EXCEPT ![s] = ReadArg(s)]
  /\ rpc' = [rpc EXCEPT ![s] = "test"]
  /\ UNCHANGED <<srv, buf, out, net, cli>>

RecvTest(s) ==
  /\ rpc[s] = "test"
  /\ rpc' = [rpc EXCEPT ![s] = IF is_running THEN "read" ELSE "done"]
  /\ UNCHANGED <<srv, rfd, buf, out, net, cli>>

(* Mutant: no SO_RCVTIMEO. *)
EmptyReadEof(s) == up[rfd[s]] = <<>> /\ ~Up(rfd[s])

(* read returns nothing: five seconds have passed, or the client has closed. *)
EmptyRead(s) == up[rfd[s]] = <<>>

RecvRead(s) ==
  /\ rpc[s] = "read"
  /\ \/ \E n \in 1 .. Len(up[rfd[s]]) :
          /\ buf' = [buf EXCEPT ![s] = SubSeq(up[rfd[s]], 1, n)]
          /\ up' = [up EXCEPT ![rfd[s]] = SubSeq(@, n + 1, Len(@))]
          /\ rpc' = [rpc EXCEPT ![s] = "push"]
     \/ /\ EmptyRead(s)
        /\ rpc' = [rpc EXCEPT ![s] = "test"]
        /\ UNCHANGED <<buf, up>>
  /\ UNCHANGED <<srv, rfd, out, waiting, sopen, quit, cli>>

RecvPush(s) ==
  /\ rpc[s] = "push"
  /\ message_queue' = message_queue \o buf[s]
  /\ buf' = [buf EXCEPT ![s] = <<>>]
  /\ rpc' = [rpc EXCEPT ![s] = "test"]
  /\ UNCHANGED <<srv, rfd, printed, net, cli>>

Receive(s) == RecvStart(s) \/ RecvTest(s) \/ RecvRead(s) \/ RecvPush(s)

-----------------------------------------------------------------------------
(* Client c.                                                               *)

Connect(c) ==
  /\ cpc[c] = "connect"
  /\ \/ /\ bound /\ spc # "done"
        /\ waiting' = Append(waiting, c)
        /\ sopen' = sopen \union {c}
        /\ cpc' = [cpc EXCEPT ![c] = "launch"]
     \/ /\ ~bound \/ spc = "done" \/ Faults
        /\ cpc' = [cpc EXCEPT ![c] = "failed"]
        /\ UNCHANGED <<waiting, sopen>>
  /\ UNCHANGED <<srv, thr, out, up, quit, crun, crx, nsent, late>>

(* The receive thread is created before is_running is set. *)
Launch(c) ==
  /\ cpc[c] = "launch"
  /\ \/ /\ cpc' = [cpc EXCEPT ![c] = "set"]
        /\ crx' = [crx EXCEPT ![c] = "test"]
     \/ /\ Faults
        /\ cpc' = [cpc EXCEPT ![c] = "failed"]
        /\ UNCHANGED crx
  /\ UNCHANGED <<srv, thr, out, net, crun, nsent, late>>

SetRunning(c) ==
  /\ cpc[c] = "set"
  /\ crun' = [crun EXCEPT ![c] = TRUE]
  /\ cpc' = [cpc EXCEPT ![c] = "loop"]
  /\ UNCHANGED <<srv, thr, out, net, crx, nsent, late>>

(* close(fd), return: the receive thread goes with the process. *)
ClientLoop(c) ==
  /\ cpc[c] = "loop"
  /\ IF crun[c]
     THEN cpc' = [cpc EXCEPT ![c] = "write"] /\ UNCHANGED crx
     ELSE cpc' = [cpc EXCEPT ![c] = "done"] /\ crx' = [crx EXCEPT ![c] = "done"]
  /\ UNCHANGED <<srv, thr, out, net, crun, nsent, late>>

(* Mutant: SIGPIPE is ignored. *)
ClientWriteGoesOn(c) ==
  /\ cpc[c] = "write"
  /\ IF c \in sopen /\ nsent[c] < MaxTexts
     THEN /\ up' = [up EXCEPT ![c] = Append(@, [src |-> c, no |-> nsent[c] + 1])]
          /\ nsent' = [nsent EXCEPT ![c] = @ + 1]
     ELSE UNCHANGED <<up, nsent>>
  /\ cpc' = [cpc EXCEPT ![c] = "loop"]
  /\ UNCHANGED <<srv, thr, out, waiting, sopen, quit, crun, crx, late>>

(* The first write after the server's close is lost, and perhaps the second fails
   with ECONNRESET, which main prints; then SIGPIPE kills the client. *)
ClientWrite(c) ==
  /\ cpc[c] = "write"
  /\ \/ /\ c \in sopen
        /\ nsent[c] < MaxTexts
        /\ up' = [up EXCEPT ![c] = Append(@, [src |-> c, no |-> nsent[c] + 1])]
        /\ nsent' = [nsent EXCEPT ![c] = @ + 1]
        /\ cpc' = [cpc EXCEPT ![c] = "loop"]
        /\ UNCHANGED <<late, crx>>
     \/ /\ c \in sopen
        /\ nsent[c] >= MaxTexts
        /\ cpc' = [cpc EXCEPT ![c] = "loop"]
        /\ UNCHANGED <<up, nsent, late, crx>>
     \/ /\ c \notin sopen /\ late[c] < 2
        /\ late' = [late EXCEPT ![c] = @ + 1]
        /\ cpc' = [cpc EXCEPT ![c] = "loop"]
        /\ UNCHANGED <<up, nsent, crx>>
     \/ /\ c \notin sopen /\ late[c] > 0
        /\ cpc' = [cpc EXCEPT ![c] = "sigpipe"]
        /\ crx' = [crx EXCEPT ![c] = "done"]
        /\ UNCHANGED <<up, nsent, late>>
  /\ UNCHANGED <<srv, thr, out, waiting, sopen, quit, crun>>

ClientMain(c) ==
  \/ Connect(c) \/ Launch(c) \/ SetRunning(c) \/ ClientLoop(c) \/ ClientWrite(c)

ClientRxTest(c) ==
  /\ crx[c] = "test"
  /\ crx' = [crx EXCEPT ![c] = IF crun[c] THEN "read" ELSE "done"]
  /\ UNCHANGED <<srv, thr, out, net, cpc, crun, nsent, late>>

(* At the end of the stream read returns at once, and the thread polls. *)
ClientRxRead(c) ==
  /\ crx[c] = "read"
  /\ crx' = [crx EXCEPT ![c] = "test"]
  /\ \/ c \in quit /\ quit' = quit \ {c} /\ crun' = [crun EXCEPT ![c] = FALSE]
     \/ c \notin quit /\ c \notin sopen /\ UNCHANGED <<quit, crun>>
  /\ UNCHANGED <<srv, thr, out, waiting, sopen, up, cpc, nsent, late>>

ClientRx(c) == ClientRxTest(c) \/ ClientRxRead(c)

Kill(c) ==
  /\ c \in Killable
  /\ cpc[c] \notin Ended
  /\ cpc' = [cpc EXCEPT ![c] = "killed"]
  /\ crx' = [crx EXCEPT ![c] = "done"]
  /\ UNCHANGED <<srv, thr, out, net, crun, nsent, late>>

-----------------------------------------------------------------------------
Next ==
  \/ ServerMain
  \/ SigInt
  \/ \E s \in Slots : Receive(s)
  \/ \E c \in Clients : ClientMain(c) \/ ClientRx(c) \/ Kill(c)

Spec == Init /\ [][Next]_vars

(* Every thread that can run does. *)
Fairness ==
  /\ WF_vars(ServerMain)
  /\ \A s \in Slots : WF_vars(Receive(s))
  /\ \A c \in Clients : WF_vars(ClientMain(c)) /\ WF_vars(ClientRx(c))

FairSpec == Spec /\ Fairness

-----------------------------------------------------------------------------
(* Properties.                                                             *)

(* The types of all variables; the slots that are counted, and only they, hold a
   connection. *)
Texts == [src : Clients, no : 1 .. MaxTexts]
TypeOK ==
  /\ bound \in BOOLEAN
  /\ spc \in {"loop", "accept", "drain", "refused", "quit", "join", "done"}
  /\ is_running \in BOOLEAN
  /\ client_count \in 0 .. MaxClients
  /\ conn_fds \in [Slots -> Clients \union {NoClient}]
  /\ \A s \in Slots : conn_fds[s] \in Clients <=> s <= client_count
  /\ slot \in 1 .. MaxClients + 1
  /\ rpc \in [Slots -> {"off", "none", "start", "test", "read", "push", "done"}]
  /\ rfd \in [Slots -> Clients \union {NoClient}]
  /\ buf \in [Slots -> Seq(Texts)]
  /\ message_queue \in Seq(Texts)
  /\ printed \in [Clients -> Seq(Texts)]
  /\ waiting \in Seq(Clients)
  /\ sopen \subseteq Clients
  /\ up \in [Clients -> Seq(Texts)]
  /\ quit \subseteq Clients
  /\ cpc \in [Clients -> {"connect", "launch", "set", "loop", "write"} \union Ended]
  /\ crun \in [Clients -> BOOLEAN]
  /\ crx \in [Clients -> {"off", "test", "read", "done"}]
  /\ nsent \in [Clients -> 0 .. MaxTexts]
  /\ late \in [Clients -> 0 .. 2]

(* Every thread reads the connection of its own slot, although it takes its
   argument from memory that main goes on to use, and no two read the same. *)
OwnConnection ==
  \A s \in Slots :
    rpc[s] \notin {"off", "none", "start"} =>
      /\ rfd[s] \in Clients
      /\ rfd[s] = conn_fds[s]
      /\ \A t \in Slots \ {s} : rfd[t] # rfd[s]

(* What a client has written is printed once and in order: while its connection
   is open nothing is lost between socket, thread, queue and screen. *)
InThread(c) == LET mine == {s \in Slots : rfd[s] = c /\ buf[s] # <<>>}
               IN  IF mine = {} THEN <<>> ELSE buf[CHOOSE s \in mine : TRUE]
StreamIntact ==
  \A c \in Clients :
    LET arrived == printed[c] \o Of(c, message_queue) \o InThread(c)
        written == [n \in 1 .. nsent[c] |-> [src |-> c, no |-> n]]
    IN  IF c \in sopen THEN arrived \o up[c] = written
                       ELSE IsPrefix(printed[c], written)


(* The server ends when it is told to, though its threads may sit in read: the
   timeout brings them out. *)
ServerStops == ~is_running ~> (spc = "done")

(* When the server has ended, every connected client ends, also one that was never
   accepted or has missed its "Quit": by the Quit if its receive thread hears it in
   time, else by SIGPIPE at a later write. *)
ClientsEnd == \A c \in Clients : (spc = "done" /\ Up(c)) ~> (cpc[c] \in Ended)
=============================================================================
