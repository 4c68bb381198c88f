----------------------------- MODULE NetMonitor -----------------------------
(***************************************************************************)
(* assignment2: a network monitor forks one interface monitor for every    *)
(* interface and talks to each over its own Unix-domain stream socket.     *)
(*                                                                         *)
(*   monitor -> server   "Ready", "Monitoring", then "Link Down" every     *)
(*                       second the link is not up, "Done" on SIGINT       *)
(*   server -> monitor   "Monitor", "Set Link Up", "Shut Down"             *)
(*                                                                         *)
(* A stream has no message boundaries: a read returns all the bytes that   *)
(* wait, so a reader sees a batch of messages, and recognises a message    *)
(* only when it is alone in its batch.  Writes block on a full socket, and *)
(* kill their process with SIGPIPE when the other end is closed.           *)
(***************************************************************************)
EXTENDS Integers, Sequences, SequencesExt

CONSTANTS
  N,            \* num_interfaces
  SockCap,      \* how many messages a socket holds before a write blocks
  Targets,      \* the sets of processes that get a ctrl-C or kill -INT at once
  Flaps,        \* the interfaces whose link may change
  Faults        \* TRUE: socket and bind, fork, execl, accept may fail

ASSUME NetMonitorAssumption ==
  /\ N \in Nat \ {0}
  /\ SockCap \in Nat \ {0}
  /\ Targets \subseteq SUBSET (0 .. N)
  /\ Flaps \subseteq 1 .. N
  /\ Faults \in BOOLEAN

Server == 0
Monitors == 1 .. N

VARIABLES
  spc,            \* where the server is
  next,           \* the index of the loop that the server is in
  child_pids,     \* the monitors whose pid the server has noted
  allPids,        \* child_pids holds the -1 of a failed fork
  client_sockets, \* the monitors whose connections it has accepted, in order
  readfds,        \* the sockets that select found readable
  path,           \* SOCKET_PATH names the server's socket
  mpc,            \* mpc[k]: where monitor k is
  backlog,        \* connections that wait for accept
  sopen,          \* the connections whose server end is open
  toSrv, toMon,   \* toSrv[k], toMon[k]: the bytes under way, as messages
  pend,           \* processes with a SIGINT pending
  link            \* link[k]: operstate of interface k is "up"

server == <<spc, next, child_pids, allPids, client_sockets, readfds>>
conn   == <<path, backlog, sopen>>
bytes  == <<toSrv, toMon>>
vars   == <<server, mpc, conn, bytes, pend, link>>

ServerPC == {"setup", "fork", "push", "accept", "hello", "monitor", "ack",
             "select", "scan", "reply", "clean", "done", "killed"}
MonitorPC == {"none", "forked", "connect", "greet", "read", "answer", "loop",
              "exited"}

Gone == spc \in {"done", "killed"}
Alive(k) == mpc[k] \notin {"none", "exited"}
Running(p) == IF p = Server THEN ~Gone ELSE Alive(p)
Connected(k) == mpc[k] \in {"greet", "read", "answer", "loop"}
Full(socket) == Len(socket) >= SockCap

Init ==
  /\ spc = "setup"
  /\ next = 1
  /\ child_pids = {}
  /\ allPids = FALSE
  /\ client_sockets = <<>>
  /\ readfds = {}
  /\ path = FALSE
  /\ mpc = [k \in Monitors |-> "none"]
  /\ backlog = <<>>
  /\ sopen = {}
  /\ toSrv = [k \in Monitors |-> <<>>]
  /\ toMon = [k \in Monitors |-> <<>>]
  /\ pend = {}
  /\ link \in [Monitors -> BOOLEAN]

Goto(k, pc) == mpc' = [mpc EXCEPT ![k] = pc]

(* Main is at pc, and goes on: a signal is handled before it does. *)
At(pc) == spc = pc /\ Server \notin pend
MonitorAt(k, pc) == mpc[k] = pc /\ k \notin pend

(* string(buffer) == w: the read must have returned w alone, and the byte after
   it in the uninitialised or reused buffer must happen to be zero. *)
Recognised(batch, w) == IF batch = <<w>> THEN BOOLEAN ELSE {FALSE}

(* When the server ends, its end of the connections it has accepted closes.  The
   listening socket does not: every child has inherited it, over execl too.  So a
   connection in the backlog stays open, and nobody will ever accept it. *)
ServerEnds(pc) ==
  /\ spc' = pc
  /\ sopen' = sopen \intersect ToSet(backlog)
  /\ readfds' = {}
  /\ UNCHANGED backlog

(* write to monitor k: SIGPIPE when its end is closed, else wait for room. *)
WriteOrDie(k, msg, Then) ==
  \/ /\ ~Connected(k)
     /\ ServerEnds("killed")
     /\ UNCHANGED <<next, toMon>>
  \/ /\ Connected(k) /\ ~Full(toMon[k])
     /\ toMon' = [toMon EXCEPT ![k] = Append(@, msg)]
     /\ UNCHANGED <<backlog, readfds>>
     /\ Then

-----------------------------------------------------------------------------
(* networkMonitor's main.                                                  *)

(* unlink, socket, bind, listen. *)
Setup ==
  /\ At("setup")
  /\ \/ spc' = "fork" /\ path' = TRUE
     \/ Faults /\ spc' = "done" /\ path' = FALSE
  /\ UNCHANGED <<next, child_pids, allPids, client_sockets, readfds, mpc,
                 backlog, sopen, bytes, pend, link>>

Fork ==
  /\ At("fork")
  /\ spc' = "push"
  /\ \/ Goto(next, "forked")
     \/ Faults /\ UNCHANGED mpc
  /\ UNCHANGED <<next, child_pids, allPids, client_sockets, readfds, conn, bytes, pend, link>>

(* A step of its own: a SIGINT between fork and push_back misses this child.  The
   -1 of a failed fork is noted like a pid.  In the mutant the pids are noted off
   by one. *)
PidsShifted ==
  /\ At("push")
  /\ child_pids' = IF mpc[next] = "none" THEN child_pids ELSE child_pids \union {next + 1}
  /\ allPids' = (allPids \/ mpc[next] = "none")
  /\ IF next < N THEN next' = next + 1 /\ spc' = "fork"
                 ELSE next' = 1 /\ spc' = "accept"
  /\ UNCHANGED <<client_sockets, readfds, mpc, conn, bytes, pend, link>>

PushPid ==
  /\ At("push")
  /\ child_pids' = IF mpc[next] = "none" THEN child_pids ELSE child_pids \union {next}
  /\ allPids' = (allPids \/ mpc[next] = "none")
  /\ IF next < N THEN next' = next + 1 /\ spc' = "fork"
                 ELSE next' = 1 /\ spc' = "accept"
  /\ UNCHANGED <<client_sockets, readfds, mpc, conn, bytes, pend, link>>

NextAccept ==
  IF next < N THEN next' = next + 1 /\ spc' = "accept"
              ELSE next' = 1 /\ spc' = "select"

Accept ==
  /\ At("accept")
  /\ backlog # <<>>
  /\ client_sockets' = Append(client_sockets, Head(backlog))
  /\ backlog' = Tail(backlog)
  /\ spc' = "hello"
  /\ UNCHANGED <<next, child_pids, allPids, readfds, path, mpc, sopen, bytes, pend, link>>

(* perror and continue: this interface counts as served, and the connection that
   it would have had is never accepted. *)
AcceptFails ==
  /\ At("accept")
  /\ Faults
  /\ NextAccept
  /\ UNCHANGED <<child_pids, allPids, client_sockets, readfds, mpc, conn, bytes, pend, link>>

(* read waits for bytes, or for the end of the stream. *)
Readable(k) == toSrv[k] # <<>> \/ ~Connected(k)


Hello ==
  /\ At("hello")
  /\ LET k == Last(client_sockets) IN
       /\ Readable(k)
       /\ toSrv' = [toSrv EXCEPT ![k] = <<>>]
       /\ \E ready \in Recognised(toSrv[k], "Ready") :
            IF ready THEN spc' = "monitor" /\ UNCHANGED next ELSE NextAccept
  /\ UNCHANGED <<child_pids, allPids, client_sockets, readfds, mpc, conn, toMon, pend, link>>

SendMonitor ==
  /\ At("monitor")
  /\ WriteOrDie(Last(client_sockets), "Monitor",
                spc' = "ack" /\ UNCHANGED <<next, sopen>>)
  /\ UNCHANGED <<child_pids, allPids, client_sockets, mpc, path, toSrv, pend, link>>

(* "Monitoring", or whatever comes, is read and at most printed. *)
Ack ==
  /\ At("ack")
  /\ LET k == Last(client_sockets) IN
       Readable(k) /\ toSrv' = [toSrv EXCEPT ![k] = <<>>]
  /\ NextAccept
  /\ UNCHANGED <<child_pids, allPids, client_sockets, readfds, mpc, conn, toMon, pend, link>>

(* A socket whose monitor has gone stays in the list and is always readable. *)
Select ==
  /\ At("select")
  /\ \E k \in ToSet(client_sockets) : Readable(k)
  /\ readfds' = {k \in ToSet(client_sockets) : Readable(k)}
  /\ next' = 1
  /\ spc' = "scan"
  /\ UNCHANGED <<child_pids, allPids, client_sockets, mpc, conn, bytes, pend, link>>

(* Mutant: the scan ends with the first socket that was readable. *)
ScanFirst ==
  /\ At("scan")
  /\ IF next > Len(client_sockets)
     THEN spc' = "select" /\ UNCHANGED <<next, toSrv>>
     ELSE LET k == client_sockets[next] IN
          IF k \notin readfds
          THEN next' = next + 1 /\ UNCHANGED <<spc, toSrv>>
          ELSE /\ toSrv' = [toSrv EXCEPT ![k] = <<>>]
               /\ next' = next /\ spc' = "select"
  /\ UNCHANGED <<child_pids, allPids, client_sockets, readfds, mpc, conn, toMon, pend, link>>

Scan ==
  /\ At("scan")
  /\ IF next > Len(client_sockets)
     THEN spc' = "select" /\ UNCHANGED <<next, toSrv>>
     ELSE LET k == client_sockets[next] IN
          IF k \notin readfds
          THEN next' = next + 1 /\ UNCHANGED <<spc, toSrv>>
          ELSE /\ toSrv' = [toSrv EXCEPT ![k] = <<>>]
               /\ \E down \in Recognised(toSrv[k], "Link Down") :
                    IF down THEN spc' = "reply" /\ UNCHANGED next
                            ELSE next' = next + 1 /\ UNCHANGED spc
  /\ UNCHANGED <<child_pids, allPids, client_sockets, readfds, mpc, conn, toMon, pend, link>>

(* Mutant: the order goes to the first socket. *)
ReplyFirst ==
  /\ At("reply")
  /\ WriteOrDie(client_sockets[1], "Set Link Up",
                spc' = "scan" /\ next' = next + 1 /\ UNCHANGED sopen)
  /\ UNCHANGED <<child_pids, allPids, client_sockets, mpc, path, toSrv, pend, link>>

Reply ==
  /\ At("reply")
  /\ WriteOrDie(client_sockets[next], "Set Link Up",
                spc' = "scan" /\ next' = next + 1 /\ UNCHANGED sopen)
  /\ UNCHANGED <<child_pids, allPids, client_sockets, mpc, path, toSrv, pend, link>>

-----------------------------------------------------------------------------
(* cleanup_and_exit: it runs wherever main was, and never returns.         *)

ServerSigInt ==
  /\ Server \in pend
  /\ ~Gone /\ spc # "clean"
  /\ pend' = pend \ {Server}
  /\ spc' = "clean"
  /\ next' = 1
  /\ UNCHANGED <<child_pids, allPids, client_sockets, readfds, mpc, conn, bytes, link>>

CleanSocket ==
  /\ spc = "clean"
  /\ next <= Len(client_sockets)
  /\ LET k == client_sockets[next] IN
       WriteOrDie(k, "Shut Down",
                  sopen' = sopen \ {k} /\ next' = next + 1 /\ UNCHANGED spc)
  /\ UNCHANGED <<child_pids, allPids, client_sockets, mpc, path, toSrv, pend, link>>

(* kill(-1, SIGINT) reaches every process of the user. *)
Killed == IF allPids THEN Monitors ELSE child_pids

(* Mutant: it relies on "Shut Down" and kills nobody. *)
CleanExitQuietly ==
  /\ spc = "clean"
  /\ next > Len(client_sockets)
  /\ ServerEnds("done")
  /\ path' = FALSE
  /\ UNCHANGED <<next, child_pids, allPids, client_sockets, mpc, bytes, pend, link>>

CleanExit ==
  /\ spc = "clean"
  /\ next > Len(client_sockets)
  /\ pend' = pend \union {k \in Killed : Alive(k)}
  /\ ServerEnds("done")
  /\ path' = FALSE
  /\ UNCHANGED <<next, child_pids, allPids, client_sockets, mpc, bytes, link>>

ServerMain ==
  \/ Setup \/ Fork \/ PushPid
  \/ Accept \/ AcceptFails \/ Hello \/ SendMonitor \/ Ack
  \/ Select \/ Scan \/ Reply
  \/ ServerSigInt \/ CleanSocket \/ CleanExit

-----------------------------------------------------------------------------
(* intfMonitor.                                                            *)

(* When execl fails, the child exits and never connects. *)
Exec(k) ==
  /\ MonitorAt(k, "forked")
  /\ Goto(k, "connect") \/ (Faults /\ Goto(k, "exited"))
  /\ UNCHANGED <<server, conn, bytes, pend, link>>

(* Retried every second, for ever.  It is enough that the path is there: the
   socket it names is open in k itself, also after the server has been killed. *)
Connect(k) ==
  /\ MonitorAt(k, "connect")
  /\ path
  /\ backlog' = Append(backlog, k)
  /\ sopen' = sopen \union {k}
  /\ Goto(k, "greet")
  /\ UNCHANGED <<server, path, bytes, pend, link>>

(* write to the server, as in WriteOrDie. *)
Report(k, msg, pc) ==
  \/ k \notin sopen /\ Goto(k, "exited") /\ UNCHANGED toSrv
  \/ /\ k \in sopen /\ ~Full(toSrv[k])
     /\ toSrv' = [toSrv EXCEPT ![k] = Append(@, msg)]
     /\ Goto(k, pc)

(* Mutant: it greets until it is answered. *)
GreetRepeatedly(k) ==
  /\ MonitorAt(k, "greet")
  /\ Report(k, "Ready", IF toMon[k] = <<>> THEN "greet" ELSE "read")
  /\ UNCHANGED <<server, conn, toMon, pend, link>>

Greet(k) ==
  /\ MonitorAt(k, "greet")
  /\ Report(k, "Ready", "read")
  /\ UNCHANGED <<server, conn, toMon, pend, link>>

(* The buffer is cleared before the read.  "Shut Down" runs the SIGINT handler;
   what is not recognised is dropped.  The end of the stream ends the loop. *)
MonitorRead(k) ==
  /\ MonitorAt(k, "read")
  /\ \/ /\ toMon[k] # <<>>
        /\ toMon' = [toMon EXCEPT ![k] = <<>>]
        /\ Goto(k, IF toMon[k] = <<"Monitor">> THEN "answer" ELSE "read")
        /\ link' = [link EXCEPT ![k] = @ \/ toMon[k] = <<"Set Link Up">>]
        /\ pend' = IF toMon[k] = <<"Shut Down">> THEN pend \union {k} ELSE pend
     \/ /\ toMon[k] = <<>> /\ k \notin sopen
        /\ Goto(k, "exited")
        /\ UNCHANGED <<toMon, link, pend>>
  /\ UNCHANGED <<server, conn, toSrv>>

Answer(k) ==
  /\ MonitorAt(k, "answer")
  /\ Report(k, "Monitoring", "loop")
  /\ UNCHANGED <<server, conn, toMon, pend, link>>

(* monitor_interface: the loop never reads the socket, and never ends. *)
Poll(k) ==
  /\ MonitorAt(k, "loop")
  /\ ~link[k]
  /\ Report(k, "Link Down", "loop")
  /\ UNCHANGED <<server, conn, toMon, pend, link>>

(* The pids that child k has inherited in child_pids are those noted before it was
   forked; a -1 among them stands for everybody else. *)
InheritedPids(k) ==
  IF \E j \in Monitors : j < k /\ mpc[j] = "none"
  THEN ({Server} \union Monitors) \ {k}
  ELSE {j \in Monitors : j < k}

(* The monitor's handler: "Done", close, exit.  Before execl has replaced the
   program it is the server's handler that runs, in the child: it interrupts
   whom the server had noted by then and unlinks the path. *)
MonitorSigInt(k) ==
  /\ k \in pend
  /\ Alive(k)
  /\ IF mpc[k] = "forked"
     THEN /\ pend' = (pend \ {k}) \union {p \in InheritedPids(k) : Running(p)}
          /\ path' = FALSE
          /\ Goto(k, "exited")
          /\ UNCHANGED toSrv
     ELSE /\ pend' = pend \ {k}
          /\ IF Connected(k)
             THEN Report(k, "Done", "exited")
             ELSE Goto(k, "exited") /\ UNCHANGED toSrv
          /\ UNCHANGED path
  /\ UNCHANGED <<server, backlog, sopen, toMon, link>>

Monitor(k) ==
  \/ Exec(k) \/ Connect(k) \/ Greet(k) \/ MonitorRead(k) \/ Answer(k) \/ Poll(k)
  \/ MonitorSigInt(k)

-----------------------------------------------------------------------------
(* The environment. *)

Interrupt ==
  /\ \E S \in Targets : pend' = pend \union {p \in S : Running(p)}
  /\ UNCHANGED <<server, mpc, conn, bytes, link>>

LinkChange ==
  /\ \E k \in Flaps : link' = [link EXCEPT ![k] = ~@]
  /\ UNCHANGED <<server, mpc, conn, bytes, pend>>

Next ==
  \/ ServerMain
  \/ \E k \in Monitors : Monitor(k)
  \/ Interrupt
  \/ LinkChange

Spec == Init /\ [][Next]_vars

(* Processes that can run do. *)
Fairness == WF_vars(ServerMain) /\ \A k \in Monitors : WF_vars(Monitor(k))

FairSpec == Spec /\ Fairness

-----------------------------------------------------------------------------
(* Properties.                                                             *)

(* The types of all variables. *)
TypeOK ==
  /\ spc \in ServerPC
  /\ next \in 1 .. N + 1
  /\ child_pids \subseteq Monitors
  /\ allPids \in BOOLEAN
  /\ client_sockets \in Seq(Monitors)
  /\ readfds \subseteq Monitors
  /\ path \in BOOLEAN
  /\ mpc \in [Monitors -> MonitorPC]
  /\ backlog \in Seq(Monitors)
  /\ sopen \subseteq Monitors
  /\ toSrv \in [Monitors -> Seq({"Ready", "Monitoring", "Link Down", "Done"})]
  /\ toMon \in [Monitors -> Seq({"Monitor", "Set Link Up", "Shut Down"})]
  /\ pend \subseteq {Server} \union Monitors
  /\ link \in [Monitors -> BOOLEAN]

(* Neither side frames its messages, but the handshake keeps them apart: while
   nobody is stopped, "Ready" and "Monitor" are alone in their batches. *)
HandshakeAlone ==
  \A k \in Monitors :
    /\ mpc[k] = "read" /\ spc # "clean" /\ ~Gone => toMon[k] \in {<<>>, <<"Monitor">>}
    /\ mpc[k] \in {"greet", "read"} => toSrv[k] \in {<<>>, <<"Ready">>}

(* A monitor gets an order only after the whole handshake with it, and the
   server never has a connection twice. *)
OrdersAfterHandshake ==
  /\ IsInjective(client_sockets)
  /\ \A k \in Monitors :
       (\E i \in DOMAIN toMon[k] : toMon[k][i] = "Set Link Up") =>
         mpc[k] \in {"loop", "exited"} /\ k \in ToSet(client_sockets)

(* The server waits for a monitor that does not read: once the link of k has been
   down for long enough, its unread orders fill the socket. *)
Stuck == spc \in {"reply", "clean"} /\ next <= Len(client_sockets)
           /\ Full(toMon[client_sockets[next]])


(* No monitor that has been accepted is starved: what it writes is read, also while
   the others keep the server busy or have gone, until the server stops, dies or is
   stuck.  (One whose accept has failed stays in the backlog: nobody reads it.) *)
EveryReportRead ==
  \A k \in Monitors :
    (spc = "select" /\ k \in ToSet(client_sockets) /\ toSrv[k] # <<>>)
      ~> (toSrv[k] = <<>> \/ spc = "clean" \/ Gone \/ Stuck)

(* A server that is stopped takes every monitor with it, whatever that monitor is
   doing and whether or not it has been accepted, unless the server gets stuck or
   dies of SIGPIPE.  Only the newest child may be left: the signal can come after
   its fork and before its pid is noted. *)
Newest(k) == \A j \in Monitors : j > k => mpc[j] = "none"
MonitorsStop ==
  \A k \in Monitors :
    (spc = "clean" /\ Alive(k) /\ (~Newest(k) \/ k \in child_pids))
      ~> (~Alive(k) \/ spc = "killed" \/ Stuck)
=============================================================================
