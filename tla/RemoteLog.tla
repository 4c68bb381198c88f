------------------------------ MODULE RemoteLog ------------------------------
(***************************************************************************)
(* Assignment3: travel simulators log over UDP to a log server, whose      *)
(* operator can set the filter level of the client that logged last.       *)
(*                                                                         *)
(*   client c   main: TravelSimulator calling the Logger (InitializeLog,   *)
(*              SetLogLevel, Log, ExitLog);  rx: rx_thread_func of Logger  *)
(*              takes "Set Log Level=<n>" commands and sets g_filter       *)
(*   server     main: the menu;  rx: rx_thread_func of LogServer notes the *)
(*              sender of every datagram and appends it to server.log      *)
(*                                                                         *)
(* g_lock is held over single socket calls that do not block, and over the *)
(* two assignments that note the sender: each is one step.  g_filter, both *)
(* g_is_running and isRunning are read and written without a lock.  What   *)
(* the cars do is left out: a lap logs what it likes, of the levels it uses. *)
(***************************************************************************)
EXTENDS Integers, Sequences, FiniteSets

CONSTANTS
  Clients,      \* the travel simulators
  NoOne,        \* no sender: g_last_sender is still zero
  Orders,       \* the numbers an operator types as a filter level
  MaxMsgs,      \* bound: datagrams a client sends
  MaxLog,       \* bound: datagrams a server takes from its socket
  MaxRuns,      \* bound: how often the server is started
  Faults        \* TRUE: socket, thread and file calls may fail

DEBUG == 0
ERROR == 2
CRITICAL == 3
Levels == DEBUG .. CRITICAL

ASSUME RemoteLogAssumption ==
  /\ NoOne \notin Clients
  /\ Orders \subseteq Int
  /\ MaxMsgs \in Nat /\ MaxLog \in Nat /\ MaxRuns \in Nat
  /\ Faults \in BOOLEAN

VARIABLES
  \* the clients, by client
  mpc,          \* where main is
  isRunning,    \* TravelSimulator's flag
  running,      \* Logger's g_is_running
  fd,           \* Logger's g_fd is open
  filter,       \* Logger's g_filter
  call,         \* the level of a Log call that has passed the filter; -1: none
  rpc,          \* where the rx thread is
  order,        \* the level the rx thread has parsed
  nmsgs,        \* how many datagrams main has sent
  below,        \* how many of them below g_filter since g_filter was last set
  \* the server
  spc,          \* where main is
  srun,         \* g_is_running
  sfd,          \* g_fd is open and bound
  srx,          \* where the rx thread is
  rem,          \* the datagram the rx thread has received
  lastSender,   \* g_last_sender
  typed,        \* the level the operator has typed
  said,         \* what option 1 has told the operator
  log,          \* server.log; the run that wrote an entry is not in the file
  runs,         \* how often the server has been started
  \* the network
  up,           \* datagrams under way to the server's socket
  down          \* commands under way to clients

cvars == <<mpc, isRunning, running, fd, filter, call, rpc, order, nmsgs, below>>
svars == <<spc, srun, sfd, srx, rem, lastSender, typed, said, log, runs>>
net   == <<up, down>>
vars  == <<cvars, svars, net>>

Datagram == [src : Clients, lvl : Levels]
Command == [dst : Clients, lvl : Orders]
Entry == [src : Clients, lvl : Levels, run : Nat]

MainPC == {"off", "setlevel", "created", "start", "test", "lap",
           "report", "deleted", "exit", "join", "done", "crashed"}
RxPC == {"off", "test", "recv", "got", "done"}
ServerPC == {"off", "test", "menu", "level", "command", "pause", "join", "done"}
ServerRxPC == {"off", "open", "test", "recv", "track", "write", "done"}

NoDatagram == [src |-> NoOne, lvl |-> DEBUG]

Init ==
  /\ mpc = [c \in Clients |-> "off"]
  /\ isRunning = [c \in Clients |-> FALSE]
  /\ running = [c \in Clients |-> FALSE]
  /\ fd = [c \in Clients |-> FALSE]
  /\ filter = [c \in Clients |-> DEBUG]
  /\ call = [c \in Clients |-> -1]
  /\ rpc = [c \in Clients |-> "off"]
  /\ order = [c \in Clients |-> -1]
  /\ nmsgs = [c \in Clients |-> 0]
  /\ below = [c \in Clients |-> 0]
  /\ spc = "off"
  /\ srun = TRUE
  /\ sfd = FALSE
  /\ srx = "off"
  /\ rem = NoDatagram
  /\ lastSender = NoOne
  /\ typed = DEBUG
  /\ said = "nothing"
  /\ log = <<>>
  /\ runs = 0
  /\ up = {}
  /\ down = {}

Goto(c, pc) == mpc' = [mpc EXCEPT ![c] = pc]
GotoRx(c, pc) == rpc' = [rpc EXCEPT ![c] = pc]

-----------------------------------------------------------------------------
(* The Logger.                                                             *)

(* g_filter is set by main at the start and by the rx thread. *)
SetFilter(c, l) ==
  /\ filter' = [filter EXCEPT ![c] = l]
  /\ below' = [below EXCEPT ![c] = 0]

(* Socket, non-blocking mode, thread: all of it, or -1, which main ignores. *)
InitializeLog(c) ==
  /\ mpc[c] = "off"
  /\ Goto(c, "setlevel")
  /\ \/ /\ running' = [running EXCEPT ![c] = TRUE]
        /\ fd' = [fd EXCEPT ![c] = TRUE]
        /\ GotoRx(c, "test")
     \/ /\ Faults
        /\ UNCHANGED <<running, fd, rpc>>
  /\ UNCHANGED <<isRunning, filter, call, order, nmsgs, below, svars, net>>

SetLogLevel(c) ==
  /\ mpc[c] = "setlevel"
  /\ SetFilter(c, DEBUG)
  /\ Goto(c, "created")
  /\ UNCHANGED <<isRunning, running, fd, call, rpc, order, nmsgs, svars, net>>

(* Where main goes on after a Log call: a lap makes many of them. *)
After(pc) == CASE pc = "created" -> "start"
               [] pc = "lap"     -> "lap"
               [] pc = "report"  -> "deleted"
               [] pc = "deleted" -> "exit"
LogsAt(pc) == IF pc = "lap" THEN DEBUG .. ERROR
              ELSE IF pc \in {"created", "report", "deleted"} THEN {DEBUG} ELSE {}

(* Mutant: off by one. *)
PassesBelow(c, l) ==
  /\ running[c] /\ fd[c]
  /\ l >= filter[c] - 1
  /\ nmsgs[c] < MaxMsgs

(* Log, first half: the checks, made without the lock. *)
Passes(c, l) ==
  /\ running[c] /\ fd[c]
  /\ l >= filter[c]
  /\ nmsgs[c] < MaxMsgs

Log(c) ==
  /\ call[c] = -1
  /\ \E l \in LogsAt(mpc[c]) :
       IF Passes(c, l)
       THEN call' = [call EXCEPT ![c] = l] /\ UNCHANGED mpc
       ELSE Goto(c, After(mpc[c])) /\ UNCHANGED call
  /\ UNCHANGED <<isRunning, running, fd, filter, rpc, order, nmsgs, below, svars, net>>

(* Log, second half: sendto.  A datagram may be lost, and is when no server
   listens; the result is not looked at. *)
LogSend(c) ==
  /\ call[c] # -1
  /\ \/ sfd /\ up' = up \union {[src |-> c, lvl |-> call[c]]}
     \/ UNCHANGED up
  /\ below' = [below EXCEPT ![c] = IF call[c] < filter[c] THEN @ + 1 ELSE @]
  /\ nmsgs' = [nmsgs EXCEPT ![c] = @ + 1]
  /\ call' = [call EXCEPT ![c] = -1]
  /\ Goto(c, After(mpc[c]))
  /\ UNCHANGED <<isRunning, running, fd, filter, rpc, order, svars, down>>

(* ExitLog: lower the flag, join the thread, and only then close the socket. *)
ExitLog(c) ==
  /\ mpc[c] = "exit"
  /\ running' = [running EXCEPT ![c] = FALSE]
  /\ Goto(c, IF running[c] THEN "join" ELSE "done")
  /\ UNCHANGED <<isRunning, fd, filter, call, rpc, order, nmsgs, below, svars, net>>

(* Mutant: the socket is closed before the join. *)
CloseEarly(c) ==
  /\ mpc[c] = "join"
  /\ fd' = [fd EXCEPT ![c] = FALSE]
  /\ IF rpc[c] = "done" THEN Goto(c, "done") ELSE UNCHANGED mpc
  /\ UNCHANGED <<isRunning, running, filter, call, rpc, order, nmsgs, below, svars, net>>

JoinAndClose(c) ==
  /\ mpc[c] = "join"
  /\ rpc[c] = "done"
  /\ fd' = [fd EXCEPT ![c] = FALSE]
  /\ Goto(c, "done")
  /\ UNCHANGED <<isRunning, running, filter, call, rpc, order, nmsgs, below, svars, net>>

(* Mutant: the rx thread does not look at the flag again while nothing comes. *)
RxPoll(c) ==
  /\ rpc[c] = "test"
  /\ GotoRx(c, IF running[c] \/ down = {} THEN "recv" ELSE "done")
  /\ UNCHANGED <<mpc, isRunning, running, fd, filter, call, order, nmsgs, below, svars, net>>

RxTest(c) ==
  /\ rpc[c] = "test"
  /\ GotoRx(c, IF running[c] THEN "recv" ELSE "done")
  /\ UNCHANGED <<mpc, isRunning, running, fd, filter, call, order, nmsgs, below, svars, net>>

(* recvfrom does not block: a command, which the network may deliver again, or
   nothing (or an error), after which the thread sleeps and tests the flag. *)
RxRecv(c) ==
  /\ rpc[c] = "recv"
  /\ \/ \E m \in down :
          /\ m.dst = c
          /\ down' \in {down, down \ {m}}
          /\ order' = [order EXCEPT ![c] = m.lvl]
          /\ GotoRx(c, "got")
     \/ GotoRx(c, "test") /\ UNCHANGED <<down, order>>
  /\ UNCHANGED <<mpc, isRunning, running, fd, filter, call, nmsgs, below, svars, up>>

(* Mutant: no range check. *)
RxApplyAny(c) ==
  /\ rpc[c] = "got"
  /\ SetFilter(c, order[c])
  /\ order' = [order EXCEPT ![c] = -1]
  /\ GotoRx(c, "test")
  /\ UNCHANGED <<mpc, isRunning, running, fd, call, nmsgs, svars, net>>

RxApply(c) ==
  /\ rpc[c] = "got"
  /\ IF order[c] \in Levels THEN SetFilter(c, order[c]) ELSE UNCHANGED <<filter, below>>
  /\ order' = [order EXCEPT ![c] = -1]
  /\ GotoRx(c, "test")
  /\ UNCHANGED <<mpc, isRunning, running, fd, call, nmsgs, svars, net>>

-----------------------------------------------------------------------------
(* TravelSimulator's main.                                                 *)

(* isRunning is raised only now: a ctrl-C that came before is forgotten. *)
StartLaps(c) ==
  /\ mpc[c] = "start"
  /\ isRunning' = [isRunning EXCEPT ![c] = TRUE]
  /\ Goto(c, "test")
  /\ UNCHANGED <<running, fd, filter, call, rpc, order, nmsgs, below, svars, net>>

LapTest(c) ==
  /\ mpc[c] = "test"
  /\ Goto(c, IF isRunning[c] THEN "lap" ELSE "report")
  /\ UNCHANGED <<isRunning, running, fd, filter, call, rpc, order, nmsgs, below, svars, net>>

LapEnd(c) ==
  /\ mpc[c] = "lap"
  /\ call[c] = -1
  /\ Goto(c, "test")
  /\ UNCHANGED <<isRunning, running, fd, filter, call, rpc, order, nmsgs, below, svars, net>>

(* addFuel and drive print the car's name into message[64], which is too short
   for it.  What comes after the Log call in there depends on the build: it may
   go on, or be aborted for its overwritten stack. *)
Overrun(c) ==
  /\ mpc[c] = "lap"
  /\ call[c] = -1
  /\ Goto(c, "crashed")
  /\ GotoRx(c, "done")
  /\ fd' = [fd EXCEPT ![c] = FALSE]
  /\ order' = [order EXCEPT ![c] = -1]
  /\ UNCHANGED <<isRunning, running, filter, call, nmsgs, below, svars, net>>

SigInt(c) ==
  /\ mpc[c] \notin {"off", "done", "crashed"}
  /\ isRunning' = [isRunning EXCEPT ![c] = FALSE]
  /\ UNCHANGED <<mpc, running, fd, filter, call, rpc, order, nmsgs, below, svars, net>>

ClientMain(c) ==
  \/ SetLogLevel(c)
  \/ Log(c) \/ LogSend(c)
  \/ StartLaps(c) \/ LapTest(c) \/ LapEnd(c) \/ Overrun(c)
  \/ ExitLog(c) \/ JoinAndClose(c)

ClientRx(c) == RxTest(c) \/ RxRecv(c) \/ RxApply(c)

-----------------------------------------------------------------------------
(* LogServer's main: the menu.                                             *)

ServerStart ==
  /\ spc \in {"off", "done"}
  /\ runs < MaxRuns
  /\ runs' = runs + 1
  /\ srun' = TRUE
  /\ rem' = NoDatagram
  /\ lastSender' = NoOne
  /\ said' = "nothing"
  /\ \/ spc' = "test" /\ sfd' = TRUE /\ srx' = "open"
     \/ Faults /\ spc' = "done" /\ sfd' = FALSE /\ srx' = "off"
  /\ UNCHANGED <<cvars, typed, log, net>>

MenuTest ==
  /\ spc = "test"
  /\ spc' = IF srun THEN "menu" ELSE "join"
  /\ UNCHANGED <<cvars, srun, sfd, srx, rem, lastSender, typed, said, log, runs, net>>

(* getchar: the operator's line, or the end of the input, which ends the menu
   but not the rx thread.  signal() restarts a getchar that ctrl-C interrupts,
   so only a line gets main out of here. *)
MenuChoice ==
  /\ spc = "menu"
  /\ \/ spc' = "level" /\ UNCHANGED srun       \* 1: set the log level
     \/ spc' = "pause" /\ UNCHANGED srun       \* 2: dump, then wait for Enter
     \/ spc' = "test" /\ srun' = FALSE         \* 0: shut down
     \/ spc' = "test" /\ UNCHANGED srun        \* anything else
     \/ spc' = "join" /\ UNCHANGED srun        \* EOF
  /\ UNCHANGED <<cvars, sfd, srx, rem, lastSender, typed, said, log, runs, net>>

MenuPause ==
  /\ spc = "pause"
  /\ spc' = "test"
  /\ UNCHANGED <<cvars, srun, sfd, srx, rem, lastSender, typed, said, log, runs, net>>

MenuLevel ==
  /\ spc = "level"
  /\ \/ \E l \in Orders : typed' = l /\ spc' = "command"
     \/ spc' = "test" /\ UNCHANGED typed
  /\ UNCHANGED <<cvars, srun, sfd, srx, rem, lastSender, said, log, runs, net>>

(* Mutant: the command goes to all clients. *)
MenuCommandAll ==
  /\ spc = "command"
  /\ spc' = "test"
  /\ said' = "sent"
  /\ down' = down \union {[dst |-> c, lvl |-> typed] : c \in Clients}
  /\ UNCHANGED <<cvars, srun, sfd, srx, rem, lastSender, typed, log, runs, up>>

(* The command goes to g_last_sender.  g_last_sender_len starts as the size of
   an address, so the "No sender yet" branch is never taken: without a sender
   the call of sendto fails, and the operator is told that it was sent. *)
MenuCommand ==
  /\ spc = "command"
  /\ spc' = "test"
  /\ said' = "sent"
  /\ \/ lastSender # NoOne /\ down' = down \union {[dst |-> lastSender, lvl |-> typed]}
     \/ UNCHANGED down
  /\ UNCHANGED <<cvars, srun, sfd, srx, rem, lastSender, typed, log, runs, up>>

(* What still waits in the socket when it is closed is lost. *)
ServerJoin ==
  /\ spc = "join"
  /\ srx = "done"
  /\ spc' = "done"
  /\ sfd' = FALSE
  /\ up' = {}
  /\ UNCHANGED <<cvars, srun, srx, rem, lastSender, typed, said, log, runs, down>>

ServerSigInt ==
  /\ spc \notin {"off", "done"}
  /\ srun' = FALSE
  /\ UNCHANGED <<cvars, spc, sfd, srx, rem, lastSender, typed, said, log, runs, net>>

-----------------------------------------------------------------------------
(* LogServer's rx thread.                                                  *)

(* O_TRUNC: the log of the run before is gone; without the file the thread ends
   and the menu goes on, over the log of the run before. *)
LogOpen ==
  /\ srx = "open"
  /\ \/ srx' = "test" /\ log' = <<>>
     \/ Faults /\ srx' = "done" /\ UNCHANGED log
  /\ UNCHANGED <<cvars, spc, srun, sfd, rem, lastSender, typed, said, runs, net>>

(* Mutant: while (true). *)
ServerRxForever ==
  /\ srx = "test"
  /\ srx' = "recv"
  /\ UNCHANGED <<cvars, spc, srun, sfd, rem, lastSender, typed, said, log, runs, net>>

ServerRxTest ==
  /\ srx = "test"
  /\ srx' = IF srun THEN "recv" ELSE "done"
  /\ UNCHANGED <<cvars, spc, srun, sfd, rem, lastSender, typed, said, log, runs, net>>

ServerRxRecv ==
  /\ srx = "recv"
  /\ \/ /\ Len(log) < MaxLog
        /\ \E d \in up :
             /\ rem' = d
             /\ up' \in {up, up \ {d}}
        /\ srx' = "track"
     \/ srx' = "test" /\ UNCHANGED <<rem, up>>
  /\ UNCHANGED <<cvars, spc, srun, sfd, lastSender, typed, said, log, runs, down>>

Logged == Append(log, [src |-> rem.src, lvl |-> rem.lvl, run |-> runs])

(* Mutant: the sender is noted after the write. *)
WriteThenTrack ==
  /\ srx = "track"
  /\ log' = Logged
  /\ srx' = "write"
  /\ UNCHANGED <<cvars, spc, srun, sfd, rem, lastSender, typed, said, runs, net>>

TrackSender ==
  /\ srx = "track"
  /\ lastSender' = rem.src
  /\ srx' = "write"
  /\ UNCHANGED <<cvars, spc, srun, sfd, rem, typed, said, log, runs, net>>

LogWrite ==
  /\ srx = "write"
  /\ srx' = "test"
  /\ rem' = NoDatagram
  /\ \/ log' = Logged
     \/ Faults /\ UNCHANGED log
  /\ UNCHANGED <<cvars, spc, srun, sfd, lastSender, typed, said, runs, net>>

ServerRx == LogOpen \/ ServerRxTest \/ ServerRxRecv \/ TrackSender \/ LogWrite

-----------------------------------------------------------------------------
(* UDP loses datagrams. *)
Lose ==
  /\ \/ \E d \in up : up' = up \ {d} /\ UNCHANGED down
     \/ \E m \in down : down' = down \ {m} /\ UNCHANGED up
  /\ UNCHANGED <<cvars, svars>>

Operator == MenuChoice \/ MenuPause \/ MenuLevel

Next ==
  \/ \E c \in Clients : InitializeLog(c) \/ ClientMain(c) \/ ClientRx(c) \/ SigInt(c)
  \/ ServerStart \/ MenuTest \/ Operator \/ MenuCommand \/ ServerJoin \/ ServerSigInt
  \/ ServerRx
  \/ Lose

Spec == Init /\ [][Next]_vars

(* Threads run; programs need not be started, nor does the operator type. *)
Fairness ==
  /\ \A c \in Clients : WF_vars(ClientMain(c)) /\ WF_vars(ClientRx(c))
  /\ WF_vars(MenuTest \/ MenuCommand \/ ServerJoin)
  /\ WF_vars(ServerRx)

FairSpec == Spec /\ Fairness

-----------------------------------------------------------------------------
(* Properties.                                                             *)

(* The types of all variables; in particular g_filter is always a level, whatever
   the operator types. *)
ClientTypes ==
  /\ mpc \in [Clients -> MainPC]
  /\ isRunning \in [Clients -> BOOLEAN]
  /\ running \in [Clients -> BOOLEAN]
  /\ fd \in [Clients -> BOOLEAN]
  /\ filter \in [Clients -> Levels]
  /\ call \in [Clients -> Levels \union {-1}]
  /\ rpc \in [Clients -> RxPC]
  /\ order \in [Clients -> Orders \union {-1}]
  /\ nmsgs \in [Clients -> Nat]
  /\ below \in [Clients -> Nat]
ServerTypes ==
  /\ spc \in ServerPC
  /\ srun \in BOOLEAN
  /\ sfd \in BOOLEAN
  /\ srx \in ServerRxPC
  /\ rem \in Datagram \union {NoDatagram}
  /\ lastSender \in Clients \union {NoOne}
  /\ typed \in Orders \union {DEBUG}
  /\ spc = "command" => typed \in Orders
  /\ said \in {"nothing", "sent"}
  /\ log \in Seq(Entry)
  /\ runs \in Nat
TypeOK ==
  /\ ClientTypes
  /\ ServerTypes
  /\ up \subseteq Datagram
  /\ down \subseteq Command

(* No thread uses a socket that has been closed: both programs join their rx
   thread before they close, also when they are stopped in the middle of a call. *)
FdSafe ==
  /\ \A c \in Clients : (rpc[c] \in {"test", "recv"} \/ call[c] # -1) => fd[c]
  /\ srx \in {"open", "test", "recv", "track", "write"} => sfd
  /\ spc = "command" => sfd

(* Raising the filter of a client does not stop a Log call that has already been
   let through, but it lets only that one through. *)
AtMostOneBelow == \A c \in Clients : below[c] <= 1

(* SetLogLevel(DEBUG) of a client that starts runs while its rx thread is already
   there, but never undoes a command: nobody can address the client before it has
   logged something. *)
HeardOf(c) ==
  \/ lastSender = c
  \/ rem.src = c
  \/ rpc[c] = "got"
  \/ \E d \in up : d.src = c
  \/ \E m \in down : m.dst = c
CommandNotOverwritten ==
  \A c \in Clients : mpc[c] \in {"off", "setlevel"} => ~HeardOf(c)

(* Whenever a dump is made, an entry in it that this run of the server has written
   has somebody to send a command to; and an entry of an earlier run, which says
   nothing of that, is in it only before the rx thread has truncated the file, or
   when it could not and has ended: never while the thread receives or writes. *)
SenderBeforeEntry ==
  \A i \in DOMAIN log :
    IF log[i].run = runs THEN lastSender # NoOne
                         ELSE srx \notin {"test", "recv", "track", "write"}

(* A simulator that gets ctrl-C once it drives laps comes to its end, with its
   thread joined and its socket closed, if it is not aborted. *)
ClientStops ==
  \A c \in Clients :
    (mpc[c] \in {"test", "lap"} /\ ~isRunning[c])
      ~> (mpc[c] \in {"done", "crashed"} /\ ~fd[c])

(* A server that has been told to stop, and is out of the menu, stops. *)
ServerStops == (spc \in {"test", "join"} /\ ~srun) ~> (spc = "done")

-----------------------------------------------------------------------------
(* The inductive invariant behind TypeOK, FdSafe, AtMostOneBelow,            *)
(* CommandNotOverwritten and SenderBeforeEntry.                              *)

(* A thread that runs has its socket, and a call is let through only where main
   logs, which is never while it joins. *)
Logging == {"created", "lap", "report", "deleted"}
ClientSockets == \A c \in Clients :
  /\ rpc[c] \in {"test", "recv", "got"} => fd[c]
  /\ call[c] # -1 => fd[c] /\ mpc[c] \in Logging
ServerSockets ==
  /\ srx \notin {"off", "done"} => sfd
  /\ spc \notin {"off", "done"} => sfd

(* The one call that a new filter comes too late for has been made. *)
BelowOK == \A c \in Clients :
  below[c] # 0 => below[c] = 1 /\ (call[c] = -1 \/ call[c] >= filter[c])

(* An entry is on its way into the log only after its sender has been noted, and
   no entry is of a run to come. *)
SenderOK ==
  /\ srx \in {"track", "write"} => rem.src # NoOne
  /\ srx = "write" => lastSender # NoOne
  /\ \A i \in DOMAIN log : log[i].run <= runs
  /\ SenderBeforeEntry

(* What a thread may rely on between two of its accesses. *)
IInv ==
  /\ TypeOK
  /\ ClientSockets /\ ServerSockets
  /\ BelowOK
  /\ CommandNotOverwritten
  /\ SenderOK
=============================================================================
