-------------------------- MODULE RemoteLogProofs --------------------------
(***************************************************************************)
(* Safety of RemoteLog for any clients, orders and bounds, with datagrams  *)
(* that are lost, repeated and reordered, restarts of the server and calls *)
(* that fail.                                                              *)
(***************************************************************************)
EXTENDS RemoteLog, TLAPS

USE RemoteLogAssumption

LEMMA LevelsOK == Levels = 0 .. 3 /\ DEBUG \in Levels
BY DEF Levels, DEBUG, CRITICAL

LEMMA EmptyLog == <<>> \in Seq(Entry)
OBVIOUS

THEOREM InitIInv == Init => IInv
<1> SUFFICES ASSUME Init PROVE IInv
  OBVIOUS
<1> USE DEF Init
<1>1. ClientTypes
  BY LevelsOK DEF ClientTypes, MainPC, RxPC
<1>2. ServerTypes
  BY EmptyLog DEF ServerTypes, ServerPC, ServerRxPC
<1>3. TypeOK
  BY <1>1, <1>2 DEF TypeOK
<1>4. ClientSockets /\ ServerSockets /\ BelowOK
  BY DEF ClientSockets, ServerSockets, BelowOK
<1>5. CommandNotOverwritten
  BY DEF CommandNotOverwritten, HeardOf, NoDatagram
<1>6. SenderOK
  BY DEF SenderOK, SenderBeforeEntry
<1> QED
  BY <1>3, <1>4, <1>5, <1>6 DEF IInv

-----------------------------------------------------------------------------
(* What a step cannot disturb.                                             *)

LEMMA ServerFrame ==
  ASSUME IInv, UNCHANGED svars
  PROVE  ServerTypes' /\ ServerSockets' /\ SenderOK'
BY DEF IInv, TypeOK, svars, ServerTypes, ServerSockets, SenderOK, SenderBeforeEntry

LEMMA NetFrame ==
  ASSUME IInv, UNCHANGED net
  PROVE  up' \subseteq Datagram /\ down' \subseteq Command
BY DEF IInv, TypeOK, net

LEMMA ClientFrame ==
  ASSUME IInv, UNCHANGED cvars
  PROVE  ClientTypes' /\ ClientSockets' /\ BelowOK'
BY DEF IInv, TypeOK, cvars, ClientTypes, ClientSockets, BelowOK

(* A step of a client that touches neither the network nor what the server holds
   makes nobody heard of, if no client goes back to its start. *)
LEMMA UnheardFrame ==
  ASSUME IInv, UNCHANGED <<svars, net>>,
         \A d \in Clients : mpc'[d] \in {"off", "setlevel"} =>
           mpc[d] \in {"off", "setlevel"} /\ (rpc'[d] = "got" => rpc[d] = "got")
  PROVE  CommandNotOverwritten'
BY DEF IInv, CommandNotOverwritten, HeardOf, svars, net

LEMMA AfterOK ==
  ASSUME NEW pc \in Logging
  PROVE  After(pc) \in {"start", "lap", "deleted", "exit"}
BY DEF Logging, After

LEMMA LogsAtOK ==
  ASSUME NEW pc \in MainPC, NEW l \in LogsAt(pc)
  PROVE  pc \in Logging /\ l \in Levels
BY LevelsOK DEF LogsAt, Logging, DEBUG, ERROR

-----------------------------------------------------------------------------
(* The clients.                                                            *)

LEMMA InitializeLogStep ==
  ASSUME IInv, NEW c \in Clients, InitializeLog(c)
  PROVE  IInv'
<1> USE DEF InitializeLog, Goto, GotoRx
<1>1. UNCHANGED svars /\ UNCHANGED net
  OBVIOUS
<1>2. ClientTypes'
  BY LevelsOK DEF IInv, TypeOK, ClientTypes, MainPC, RxPC
<1>3. ClientSockets'
  BY DEF IInv, TypeOK, ClientTypes, ClientSockets, Logging
<1>4. BelowOK'
  BY DEF IInv, TypeOK, ClientTypes, BelowOK
<1>5. CommandNotOverwritten'
  BY <1>1, UnheardFrame DEF IInv, TypeOK, ClientTypes
<1> QED
  BY <1>1, <1>2, <1>3, <1>4, <1>5, ServerFrame, NetFrame DEF IInv, TypeOK

LEMMA SetLogLevelStep ==
  ASSUME IInv, NEW c \in Clients, SetLogLevel(c)
  PROVE  IInv'
<1> USE DEF SetLogLevel, Goto, GotoRx
<1>1. UNCHANGED svars /\ UNCHANGED net
  OBVIOUS
<1>2. ClientTypes'
  BY LevelsOK DEF IInv, TypeOK, ClientTypes, MainPC, RxPC, SetFilter
<1>3. ClientSockets'
  BY DEF IInv, TypeOK, ClientTypes, ClientSockets, Logging
<1>4. BelowOK'
  BY DEF IInv, TypeOK, ClientTypes, BelowOK, SetFilter
<1>5. CommandNotOverwritten'
  BY <1>1, UnheardFrame DEF IInv, TypeOK, ClientTypes
<1> QED
  BY <1>1, <1>2, <1>3, <1>4, <1>5, ServerFrame, NetFrame DEF IInv, TypeOK

LEMMA LogStep ==
  ASSUME IInv, NEW c \in Clients, Log(c)
  PROVE  IInv'
<1> USE DEF Log, Goto
<1>1. UNCHANGED svars /\ UNCHANGED net
  OBVIOUS
<1>2. mpc[c] \in Logging
  BY LogsAtOK DEF IInv, TypeOK, ClientTypes
<1>3. PICK l \in Levels :
        \/ Passes(c, l) /\ call' = [call EXCEPT ![c] = l] /\ UNCHANGED mpc
        \/ mpc' = [mpc EXCEPT ![c] = After(mpc[c])] /\ UNCHANGED call
  BY LogsAtOK DEF IInv, TypeOK, ClientTypes
<1>4. After(mpc[c]) \in {"start", "lap", "deleted", "exit"}
  BY <1>2, AfterOK
<1>5. ClientTypes'
  BY <1>3, <1>4 DEF IInv, TypeOK, ClientTypes, MainPC
<1>6. ClientSockets'
  BY <1>2, <1>3, <1>4 DEF IInv, TypeOK, ClientTypes, ClientSockets, Passes
<1>7. BelowOK'
  BY <1>3 DEF IInv, TypeOK, ClientTypes, BelowOK, Passes
<1>8. CommandNotOverwritten'
  BY <1>1, <1>3, <1>4, UnheardFrame DEF IInv, TypeOK, ClientTypes
<1> QED
  BY <1>1, <1>5, <1>6, <1>7, <1>8, ServerFrame, NetFrame DEF IInv, TypeOK

LEMMA LogSendStep ==
  ASSUME IInv, NEW c \in Clients, LogSend(c)
  PROVE  IInv'
<1> USE DEF LogSend, Goto
<1>1. UNCHANGED svars /\ UNCHANGED down
  OBVIOUS
<1>2. mpc[c] \in Logging /\ call[c] \in Levels
  BY DEF IInv, ClientSockets, TypeOK, ClientTypes
<1>3. After(mpc[c]) \in {"start", "lap", "deleted", "exit"}
  BY <1>2, AfterOK
<1>4. ClientTypes'
  <2>1. below' \in [Clients -> Nat] /\ nmsgs' \in [Clients -> Nat]
    BY DEF IInv, TypeOK, ClientTypes
  <2>2. mpc' \in [Clients -> MainPC] /\ call' \in [Clients -> Levels \union {-1}]
    BY <1>3 DEF IInv, TypeOK, ClientTypes, MainPC
  <2> QED
    BY <2>1, <2>2 DEF IInv, TypeOK, ClientTypes
<1>5. ClientSockets'
  BY <1>3 DEF IInv, TypeOK, ClientTypes, ClientSockets
<1>6. BelowOK'
  <2> SUFFICES ASSUME NEW d \in Clients, below'[d] # 0
               PROVE  below'[d] = 1 /\ (call'[d] = -1 \/ call'[d] >= filter'[d])
    BY DEF BelowOK
  <2>1. CASE d = c
    <3>1. call'[c] = -1
      BY DEF IInv, TypeOK, ClientTypes
    <3>2. below[c] = 0 \/ (below[c] = 1 /\ call[c] >= filter[c])
      BY <1>2, LevelsOK DEF IInv, BelowOK
    <3>3. call[c] \in 0 .. 3 /\ filter[c] \in 0 .. 3
      BY <1>2, LevelsOK DEF IInv, TypeOK, ClientTypes
    <3>4. below'[c] = IF call[c] < filter[c] THEN below[c] + 1 ELSE below[c]
      BY DEF IInv, TypeOK, ClientTypes
    <3> QED
      BY <2>1, <3>1, <3>2, <3>3, <3>4
  <2>2. CASE d # c
    BY <2>2 DEF IInv, TypeOK, ClientTypes, BelowOK
  <2> QED
    BY <2>1, <2>2
<1>7. up' \subseteq Datagram /\ \A d \in up' : d \in up \/ d.src = c
  BY <1>2 DEF IInv, TypeOK, Datagram
<1>8. CommandNotOverwritten'
  BY <1>1, <1>3, <1>7 DEF IInv, TypeOK, ClientTypes, CommandNotOverwritten, HeardOf, svars
<1>9. down' \subseteq Command
  BY DEF IInv, TypeOK
<1> QED
  BY <1>1, <1>4, <1>5, <1>6, <1>7, <1>8, <1>9, ServerFrame DEF IInv, TypeOK

LEMMA ExitLogStep ==
  ASSUME IInv, NEW c \in Clients, ExitLog(c)
  PROVE  IInv'
<1> USE DEF ExitLog, Goto, GotoRx
<1>1. UNCHANGED svars /\ UNCHANGED net
  OBVIOUS
<1>2. ClientTypes'
  BY LevelsOK DEF IInv, TypeOK, ClientTypes, MainPC, RxPC
<1>3. ClientSockets'
  BY DEF IInv, TypeOK, ClientTypes, ClientSockets, Logging
<1>4. BelowOK'
  BY DEF IInv, TypeOK, ClientTypes, BelowOK
<1>5. CommandNotOverwritten'
  BY <1>1, UnheardFrame DEF IInv, TypeOK, ClientTypes
<1> QED
  BY <1>1, <1>2, <1>3, <1>4, <1>5, ServerFrame, NetFrame DEF IInv, TypeOK

LEMMA JoinAndCloseStep ==
  ASSUME IInv, NEW c \in Clients, JoinAndClose(c)
  PROVE  IInv'
<1> USE DEF JoinAndClose, Goto, GotoRx
<1>1. UNCHANGED svars /\ UNCHANGED net
  OBVIOUS
<1>2. ClientTypes'
  BY LevelsOK DEF IInv, TypeOK, ClientTypes, MainPC, RxPC
<1>3. ClientSockets'
  BY DEF IInv, TypeOK, ClientTypes, ClientSockets, Logging
<1>4. BelowOK'
  BY DEF IInv, TypeOK, ClientTypes, BelowOK
<1>5. CommandNotOverwritten'
  BY <1>1, UnheardFrame DEF IInv, TypeOK, ClientTypes
<1> QED
  BY <1>1, <1>2, <1>3, <1>4, <1>5, ServerFrame, NetFrame DEF IInv, TypeOK

LEMMA RxTestStep ==
  ASSUME IInv, NEW c \in Clients, RxTest(c)
  PROVE  IInv'
<1> USE DEF RxTest, Goto, GotoRx
<1>1. UNCHANGED svars /\ UNCHANGED net
  OBVIOUS
<1>2. ClientTypes'
  BY LevelsOK DEF IInv, TypeOK, ClientTypes, MainPC, RxPC
<1>3. ClientSockets'
  BY DEF IInv, TypeOK, ClientTypes, ClientSockets, Logging
<1>4. BelowOK'
  BY DEF IInv, TypeOK, ClientTypes, BelowOK
<1>5. CommandNotOverwritten'
  BY <1>1, UnheardFrame DEF IInv, TypeOK, ClientTypes
<1> QED
  BY <1>1, <1>2, <1>3, <1>4, <1>5, ServerFrame, NetFrame DEF IInv, TypeOK

(* A datagram stays under way when the network delivers it again. *)
LEMMA RxRecvStep ==
  ASSUME IInv, NEW c \in Clients, RxRecv(c)
  PROVE  IInv'
<1> USE DEF RxRecv, GotoRx
<1>1. UNCHANGED svars /\ up' = up /\ down' \subseteq down
  OBVIOUS
<1>2. rpc'[c] = "got" => \E m \in down : m.dst = c
  BY DEF IInv, TypeOK, ClientTypes
<1>3. ClientTypes'
  BY DEF IInv, TypeOK, ClientTypes, RxPC, Command
<1>4. ClientSockets'
  BY DEF IInv, TypeOK, ClientTypes, ClientSockets
<1>5. BelowOK'
  BY DEF IInv, BelowOK
<1>6. CommandNotOverwritten'
  <2>1. ASSUME NEW d \in Clients, HeardOf(d)' PROVE HeardOf(d)
    BY <1>1, <1>2, <2>1 DEF IInv, TypeOK, ClientTypes, HeardOf, svars
  <2> QED
    BY <2>1 DEF IInv, CommandNotOverwritten
<1>7. up' \subseteq Datagram /\ down' \subseteq Command
  BY <1>1 DEF IInv, TypeOK
<1> QED
  BY <1>1, <1>3, <1>4, <1>5, <1>6, <1>7, ServerFrame DEF IInv, TypeOK

LEMMA RxApplyStep ==
  ASSUME IInv, NEW c \in Clients, RxApply(c)
  PROVE  IInv'
<1> USE DEF RxApply, Goto, GotoRx
<1>1. UNCHANGED svars /\ UNCHANGED net
  OBVIOUS
<1>2. ClientTypes'
  BY LevelsOK DEF IInv, TypeOK, ClientTypes, MainPC, RxPC, SetFilter
<1>3. ClientSockets'
  BY DEF IInv, TypeOK, ClientTypes, ClientSockets, Logging, SetFilter
<1>4. BelowOK'
  BY DEF IInv, TypeOK, ClientTypes, BelowOK, SetFilter
<1>5. CommandNotOverwritten'
  BY <1>1, UnheardFrame DEF IInv, TypeOK, ClientTypes
<1> QED
  BY <1>1, <1>2, <1>3, <1>4, <1>5, ServerFrame, NetFrame DEF IInv, TypeOK

LEMMA StartLapsStep ==
  ASSUME IInv, NEW c \in Clients, StartLaps(c)
  PROVE  IInv'
<1> USE DEF StartLaps, Goto, GotoRx
<1>1. UNCHANGED svars /\ UNCHANGED net
  OBVIOUS
<1>2. ClientTypes'
  BY LevelsOK DEF IInv, TypeOK, ClientTypes, MainPC, RxPC
<1>3. ClientSockets'
  BY DEF IInv, TypeOK, ClientTypes, ClientSockets, Logging
<1>4. BelowOK'
  BY DEF IInv, TypeOK, ClientTypes, BelowOK
<1>5. CommandNotOverwritten'
  BY <1>1, UnheardFrame DEF IInv, TypeOK, ClientTypes
<1> QED
  BY <1>1, <1>2, <1>3, <1>4, <1>5, ServerFrame, NetFrame DEF IInv, TypeOK

LEMMA LapTestStep ==
  ASSUME IInv, NEW c \in Clients, LapTest(c)
  PROVE  IInv'
<1> USE DEF LapTest, Goto, GotoRx
<1>1. UNCHANGED svars /\ UNCHANGED net
  OBVIOUS
<1>2. ClientTypes'
  BY LevelsOK DEF IInv, TypeOK, ClientTypes, MainPC, RxPC
<1>3. ClientSockets'
  BY DEF IInv, TypeOK, ClientTypes, ClientSockets, Logging
<1>4. BelowOK'
  BY DEF IInv, TypeOK, ClientTypes, BelowOK
<1>5. CommandNotOverwritten'
  BY <1>1, UnheardFrame DEF IInv, TypeOK, ClientTypes
<1> QED
  BY <1>1, <1>2, <1>3, <1>4, <1>5, ServerFrame, NetFrame DEF IInv, TypeOK

LEMMA LapEndStep ==
  ASSUME IInv, NEW c \in Clients, LapEnd(c)
  PROVE  IInv'
<1> USE DEF LapEnd, Goto, GotoRx
<1>1. UNCHANGED svars /\ UNCHANGED net
  OBVIOUS
<1>2. ClientTypes'
  BY LevelsOK DEF IInv, TypeOK, ClientTypes, MainPC, RxPC
<1>3. ClientSockets'
  BY DEF IInv, TypeOK, ClientTypes, ClientSockets, Logging
<1>4. BelowOK'
  BY DEF IInv, TypeOK, ClientTypes, BelowOK
<1>5. CommandNotOverwritten'
  BY <1>1, UnheardFrame DEF IInv, TypeOK, ClientTypes
<1> QED
  BY <1>1, <1>2, <1>3, <1>4, <1>5, ServerFrame, NetFrame DEF IInv, TypeOK

LEMMA OverrunStep ==
  ASSUME IInv, NEW c \in Clients, Overrun(c)
  PROVE  IInv'
<1> USE DEF Overrun, Goto, GotoRx
<1>1. UNCHANGED svars /\ UNCHANGED net
  OBVIOUS
<1>2. ClientTypes'
  BY LevelsOK DEF IInv, TypeOK, ClientTypes, MainPC, RxPC
<1>3. ClientSockets'
  BY DEF IInv, TypeOK, ClientTypes, ClientSockets, Logging
<1>4. BelowOK'
  BY DEF IInv, TypeOK, ClientTypes, BelowOK
<1>5. CommandNotOverwritten'
  BY <1>1, UnheardFrame DEF IInv, TypeOK, ClientTypes
<1> QED
  BY <1>1, <1>2, <1>3, <1>4, <1>5, ServerFrame, NetFrame DEF IInv, TypeOK

LEMMA SigIntStep ==
  ASSUME IInv, NEW c \in Clients, SigInt(c)
  PROVE  IInv'
<1> USE DEF SigInt, Goto, GotoRx
<1>1. UNCHANGED svars /\ UNCHANGED net
  OBVIOUS
<1>2. ClientTypes'
  BY LevelsOK DEF IInv, TypeOK, ClientTypes, MainPC, RxPC
<1>3. ClientSockets'
  BY DEF IInv, TypeOK, ClientTypes, ClientSockets, Logging
<1>4. BelowOK'
  BY DEF IInv, TypeOK, ClientTypes, BelowOK
<1>5. CommandNotOverwritten'
  BY <1>1, UnheardFrame DEF IInv, TypeOK, ClientTypes
<1> QED
  BY <1>1, <1>2, <1>3, <1>4, <1>5, ServerFrame, NetFrame DEF IInv, TypeOK

-----------------------------------------------------------------------------
(* The server.                                                             *)

LEMMA ServerStartStep ==
  ASSUME IInv, ServerStart
  PROVE  IInv'
<1> USE DEF ServerStart
<1>1. UNCHANGED cvars
  OBVIOUS
<1>2. ServerTypes'
  <2>1. log' \in Seq(Entry) /\ typed' \in Orders \union {DEBUG}
    BY DEF IInv, TypeOK, ServerTypes
  <2>2. runs' \in Nat
    BY DEF IInv, TypeOK, ServerTypes
  <2>3. /\ spc' \in {"test", "done"} /\ sfd' \in BOOLEAN /\ srx' \in {"open", "off"}
        /\ srun' \in BOOLEAN /\ said' = "nothing"
        /\ rem' = NoDatagram /\ lastSender' = NoOne
    OBVIOUS
  <2> QED
    BY <2>1, <2>2, <2>3 DEF ServerTypes, ServerPC, ServerRxPC
<1>3. up' \subseteq Datagram /\ down' \subseteq Command
  BY DEF IInv, TypeOK, ServerTypes, Command, net
<1>4. ServerSockets'
  BY DEF IInv, TypeOK, ServerTypes, ServerSockets
<1>5. SenderOK'
  <2>1. /\ log' = log /\ runs' = runs + 1 /\ runs \in Nat /\ log \in Seq(Entry)
        /\ srx' \in {"open", "off"}
    BY DEF IInv, TypeOK, ServerTypes
  <2>2. ASSUME NEW i \in DOMAIN log' PROVE log'[i].run <= runs' /\ log'[i].run # runs'
    <3>1. i \in DOMAIN log /\ log[i] \in Entry
      BY <2>1
    <3>2. log[i].run <= runs /\ log[i].run \in Nat
      BY <3>1 DEF IInv, SenderOK, Entry
    <3> QED
      BY <2>1, <3>2
  <2> QED
    BY <2>1, <2>2 DEF SenderOK, SenderBeforeEntry
<1>6. CommandNotOverwritten'
  <2>1. ASSUME NEW d \in Clients, HeardOf(d)' PROVE HeardOf(d)
    BY <1>1, <2>1 DEF HeardOf, cvars, net, NoDatagram
  <2> QED
    BY <1>1, <2>1 DEF IInv, CommandNotOverwritten, cvars
<1> QED
  BY <1>1, <1>2, <1>3, <1>4, <1>5, <1>6, ClientFrame DEF IInv, TypeOK

LEMMA MenuTestStep ==
  ASSUME IInv, MenuTest
  PROVE  IInv'
<1> USE DEF MenuTest
<1>1. UNCHANGED cvars
  OBVIOUS
<1>2. ServerTypes'
  BY DEF IInv, TypeOK, ServerTypes, ServerPC, ServerRxPC
<1>3. up' \subseteq Datagram /\ down' \subseteq Command
  BY DEF IInv, TypeOK, ServerTypes, Command, net
<1>4. ServerSockets'
  BY DEF IInv, TypeOK, ServerTypes, ServerSockets
<1>5. SenderOK'
  BY DEF IInv, TypeOK, ServerTypes, SenderOK, SenderBeforeEntry, Datagram, NoDatagram
<1>6. CommandNotOverwritten'
  <2>1. ASSUME NEW d \in Clients, HeardOf(d)' PROVE HeardOf(d)
    BY <1>1, <2>1 DEF HeardOf, cvars, net, NoDatagram
  <2> QED
    BY <1>1, <2>1 DEF IInv, CommandNotOverwritten, cvars
<1> QED
  BY <1>1, <1>2, <1>3, <1>4, <1>5, <1>6, ClientFrame DEF IInv, TypeOK

LEMMA MenuChoiceStep ==
  ASSUME IInv, MenuChoice
  PROVE  IInv'
<1> USE DEF MenuChoice
<1>1. UNCHANGED cvars
  OBVIOUS
<1>2. ServerTypes'
  BY DEF IInv, TypeOK, ServerTypes, ServerPC, ServerRxPC
<1>3. up' \subseteq Datagram /\ down' \subseteq Command
  BY DEF IInv, TypeOK, ServerTypes, Command, net
<1>4. ServerSockets'
  BY DEF IInv, TypeOK, ServerTypes, ServerSockets
<1>5. SenderOK'
  BY DEF IInv, TypeOK, ServerTypes, SenderOK, SenderBeforeEntry, Datagram, NoDatagram
<1>6. CommandNotOverwritten'
  <2>1. ASSUME NEW d \in Clients, HeardOf(d)' PROVE HeardOf(d)
    BY <1>1, <2>1 DEF HeardOf, cvars, net, NoDatagram
  <2> QED
    BY <1>1, <2>1 DEF IInv, CommandNotOverwritten, cvars
<1> QED
  BY <1>1, <1>2, <1>3, <1>4, <1>5, <1>6, ClientFrame DEF IInv, TypeOK

LEMMA MenuPauseStep ==
  ASSUME IInv, MenuPause
  PROVE  IInv'
<1> USE DEF MenuPause
<1>1. UNCHANGED cvars
  OBVIOUS
<1>2. ServerTypes'
  BY DEF IInv, TypeOK, ServerTypes, ServerPC, ServerRxPC
<1>3. up' \subseteq Datagram /\ down' \subseteq Command
  BY DEF IInv, TypeOK, ServerTypes, Command, net
<1>4. ServerSockets'
  BY DEF IInv, TypeOK, ServerTypes, ServerSockets
<1>5. SenderOK'
  BY DEF IInv, TypeOK, ServerTypes, SenderOK, SenderBeforeEntry, Datagram, NoDatagram
<1>6. CommandNotOverwritten'
  <2>1. ASSUME NEW d \in Clients, HeardOf(d)' PROVE HeardOf(d)
    BY <1>1, <2>1 DEF HeardOf, cvars, net, NoDatagram
  <2> QED
    BY <1>1, <2>1 DEF IInv, CommandNotOverwritten, cvars
<1> QED
  BY <1>1, <1>2, <1>3, <1>4, <1>5, <1>6, ClientFrame DEF IInv, TypeOK

LEMMA MenuLevelStep ==
  ASSUME IInv, MenuLevel
  PROVE  IInv'
<1> USE DEF MenuLevel
<1>1. UNCHANGED cvars
  OBVIOUS
<1>2. ServerTypes'
  BY DEF IInv, TypeOK, ServerTypes, ServerPC, ServerRxPC
<1>3. up' \subseteq Datagram /\ down' \subseteq Command
  BY DEF IInv, TypeOK, ServerTypes, Command, net
<1>4. ServerSockets'
  BY DEF IInv, TypeOK, ServerTypes, ServerSockets
<1>5. SenderOK'
  BY DEF IInv, TypeOK, ServerTypes, SenderOK, SenderBeforeEntry, Datagram, NoDatagram
<1>6. CommandNotOverwritten'
  <2>1. ASSUME NEW d \in Clients, HeardOf(d)' PROVE HeardOf(d)
    BY <1>1, <2>1 DEF HeardOf, cvars, net, NoDatagram
  <2> QED
    BY <1>1, <2>1 DEF IInv, CommandNotOverwritten, cvars
<1> QED
  BY <1>1, <1>2, <1>3, <1>4, <1>5, <1>6, ClientFrame DEF IInv, TypeOK

LEMMA MenuCommandStep ==
  ASSUME IInv, MenuCommand
  PROVE  IInv'
<1> USE DEF MenuCommand
<1>1. UNCHANGED cvars
  OBVIOUS
<1>2. ServerTypes'
  BY DEF IInv, TypeOK, ServerTypes, ServerPC, ServerRxPC
<1>3. up' \subseteq Datagram /\ down' \subseteq Command
  BY DEF IInv, TypeOK, ServerTypes, Command, net
<1>4. ServerSockets'
  BY DEF IInv, TypeOK, ServerTypes, ServerSockets
<1>5. SenderOK'
  BY DEF IInv, TypeOK, ServerTypes, SenderOK, SenderBeforeEntry, Datagram, NoDatagram
<1>6. CommandNotOverwritten'
  <2>1. ASSUME NEW d \in Clients, HeardOf(d)' PROVE HeardOf(d)
    BY <1>1, <2>1 DEF HeardOf, cvars, net, NoDatagram
  <2> QED
    BY <1>1, <2>1 DEF IInv, CommandNotOverwritten, cvars
<1> QED
  BY <1>1, <1>2, <1>3, <1>4, <1>5, <1>6, ClientFrame DEF IInv, TypeOK

LEMMA ServerJoinStep ==
  ASSUME IInv, ServerJoin
  PROVE  IInv'
<1> USE DEF ServerJoin
<1>1. UNCHANGED cvars
  OBVIOUS
<1>2. ServerTypes'
  BY DEF IInv, TypeOK, ServerTypes, ServerPC, ServerRxPC
<1>3. up' \subseteq Datagram /\ down' \subseteq Command
  BY DEF IInv, TypeOK, ServerTypes, Command, net
<1>4. ServerSockets'
  BY DEF IInv, TypeOK, ServerTypes, ServerSockets
<1>5. SenderOK'
  BY DEF IInv, TypeOK, ServerTypes, SenderOK, SenderBeforeEntry, Datagram, NoDatagram
<1>6. CommandNotOverwritten'
  <2>1. ASSUME NEW d \in Clients, HeardOf(d)' PROVE HeardOf(d)
    BY <1>1, <2>1 DEF HeardOf, cvars, net, NoDatagram
  <2> QED
    BY <1>1, <2>1 DEF IInv, CommandNotOverwritten, cvars
<1> QED
  BY <1>1, <1>2, <1>3, <1>4, <1>5, <1>6, ClientFrame DEF IInv, TypeOK

LEMMA ServerSigIntStep ==
  ASSUME IInv, ServerSigInt
  PROVE  IInv'
<1> USE DEF ServerSigInt
<1>1. UNCHANGED cvars
  OBVIOUS
<1>2. ServerTypes'
  BY DEF IInv, TypeOK, ServerTypes, ServerPC, ServerRxPC
<1>3. up' \subseteq Datagram /\ down' \subseteq Command
  BY DEF IInv, TypeOK, ServerTypes, Command, net
<1>4. ServerSockets'
  BY DEF IInv, TypeOK, ServerTypes, ServerSockets
<1>5. SenderOK'
  BY DEF IInv, TypeOK, ServerTypes, SenderOK, SenderBeforeEntry, Datagram, NoDatagram
<1>6. CommandNotOverwritten'
  <2>1. ASSUME NEW d \in Clients, HeardOf(d)' PROVE HeardOf(d)
    BY <1>1, <2>1 DEF HeardOf, cvars, net, NoDatagram
  <2> QED
    BY <1>1, <2>1 DEF IInv, CommandNotOverwritten, cvars
<1> QED
  BY <1>1, <1>2, <1>3, <1>4, <1>5, <1>6, ClientFrame DEF IInv, TypeOK

LEMMA LogOpenStep ==
  ASSUME IInv, LogOpen
  PROVE  IInv'
<1> USE DEF LogOpen
<1>1. UNCHANGED cvars
  OBVIOUS
<1>2. ServerTypes'
  BY EmptyLog  DEF IInv, TypeOK, ServerTypes, ServerPC, ServerRxPC
<1>3. up' \subseteq Datagram /\ down' \subseteq Command
  BY DEF IInv, TypeOK, ServerTypes, Command, net
<1>4. ServerSockets'
  BY DEF IInv, TypeOK, ServerTypes, ServerSockets
<1>5. SenderOK'
  BY DEF IInv, TypeOK, ServerTypes, SenderOK, SenderBeforeEntry, Datagram, NoDatagram
<1>6. CommandNotOverwritten'
  <2>1. ASSUME NEW d \in Clients, HeardOf(d)' PROVE HeardOf(d)
    BY <1>1, <2>1 DEF HeardOf, cvars, net, NoDatagram
  <2> QED
    BY <1>1, <2>1 DEF IInv, CommandNotOverwritten, cvars
<1> QED
  BY <1>1, <1>2, <1>3, <1>4, <1>5, <1>6, ClientFrame DEF IInv, TypeOK

LEMMA ServerRxTestStep ==
  ASSUME IInv, ServerRxTest
  PROVE  IInv'
<1> USE DEF ServerRxTest
<1>1. UNCHANGED cvars
  OBVIOUS
<1>2. ServerTypes'
  BY DEF IInv, TypeOK, ServerTypes, ServerPC, ServerRxPC
<1>3. up' \subseteq Datagram /\ down' \subseteq Command
  BY DEF IInv, TypeOK, ServerTypes, Command, net
<1>4. ServerSockets'
  BY DEF IInv, TypeOK, ServerTypes, ServerSockets
<1>5. SenderOK'
  BY DEF IInv, TypeOK, ServerTypes, SenderOK, SenderBeforeEntry, Datagram, NoDatagram
<1>6. CommandNotOverwritten'
  <2>1. ASSUME NEW d \in Clients, HeardOf(d)' PROVE HeardOf(d)
    BY <1>1, <2>1 DEF HeardOf, cvars, net, NoDatagram
  <2> QED
    BY <1>1, <2>1 DEF IInv, CommandNotOverwritten, cvars
<1> QED
  BY <1>1, <1>2, <1>3, <1>4, <1>5, <1>6, ClientFrame DEF IInv, TypeOK

LEMMA ServerRxRecvStep ==
  ASSUME IInv, ServerRxRecv
  PROVE  IInv'
<1> USE DEF ServerRxRecv
<1>1. UNCHANGED cvars
  OBVIOUS
<1>2. ServerTypes'
  BY DEF IInv, TypeOK, ServerTypes, ServerPC, ServerRxPC
<1>3. up' \subseteq Datagram /\ down' \subseteq Command
  BY DEF IInv, TypeOK, ServerTypes, Command, net
<1>4. ServerSockets'
  BY DEF IInv, TypeOK, ServerTypes, ServerSockets
<1>5. SenderOK'
  BY DEF IInv, TypeOK, ServerTypes, SenderOK, SenderBeforeEntry, Datagram, NoDatagram
<1>6. CommandNotOverwritten'
  <2>1. ASSUME NEW d \in Clients, HeardOf(d)' PROVE HeardOf(d)
    BY <1>1, <2>1 DEF HeardOf, cvars, net, NoDatagram
  <2> QED
    BY <1>1, <2>1 DEF IInv, CommandNotOverwritten, cvars
<1> QED
  BY <1>1, <1>2, <1>3, <1>4, <1>5, <1>6, ClientFrame DEF IInv, TypeOK

LEMMA TrackSenderStep ==
  ASSUME IInv, TrackSender
  PROVE  IInv'
<1> USE DEF TrackSender
<1>1. UNCHANGED cvars
  OBVIOUS
<1>2. ServerTypes'
  <2>1. rem \in Datagram
    BY DEF IInv, TypeOK, ServerTypes, SenderOK, NoDatagram
  <2>2. lastSender' \in Clients
    BY <2>1 DEF Datagram
  <2> QED
    BY <2>2 DEF IInv, TypeOK, ServerTypes, ServerRxPC
<1>3. up' \subseteq Datagram /\ down' \subseteq Command
  BY DEF IInv, TypeOK, ServerTypes, Command, net
<1>4. ServerSockets'
  BY DEF IInv, TypeOK, ServerTypes, ServerSockets
<1>5. SenderOK'
  BY DEF IInv, TypeOK, ServerTypes, SenderOK, SenderBeforeEntry, Datagram, NoDatagram
<1>6. CommandNotOverwritten'
  <2>1. ASSUME NEW d \in Clients, HeardOf(d)' PROVE HeardOf(d)
    BY <1>1, <2>1 DEF HeardOf, cvars, net, NoDatagram
  <2> QED
    BY <1>1, <2>1 DEF IInv, CommandNotOverwritten, cvars
<1> QED
  BY <1>1, <1>2, <1>3, <1>4, <1>5, <1>6, ClientFrame DEF IInv, TypeOK

LEMMA LogWriteStep ==
  ASSUME IInv, LogWrite
  PROVE  IInv'
<1> USE DEF LogWrite
<1>1. UNCHANGED cvars
  OBVIOUS
<1>2. ServerTypes'
  <2>1. rem \in Datagram /\ log \in Seq(Entry) /\ runs \in Nat
    BY DEF IInv, TypeOK, ServerTypes, SenderOK, NoDatagram
  <2>2. Logged \in Seq(Entry)
    BY <2>1 DEF Logged, Entry, Datagram
  <2>3. log' \in Seq(Entry)
    BY <2>1, <2>2
  <2> QED
    BY <2>3 DEF IInv, TypeOK, ServerTypes, ServerRxPC
<1>3. up' \subseteq Datagram /\ down' \subseteq Command
  BY DEF IInv, TypeOK, ServerTypes, Command, net
<1>4. ServerSockets'
  BY DEF IInv, TypeOK, ServerTypes, ServerSockets
<1>5. SenderOK'
  <2>1. rem \in Datagram /\ log \in Seq(Entry) /\ runs \in Nat
    BY DEF IInv, TypeOK, ServerTypes, SenderOK, NoDatagram
  <2>2. lastSender # NoOne /\ srx' = "test" /\ runs' = runs /\ lastSender' = lastSender
    BY DEF IInv, SenderOK
  <2>3. ASSUME NEW i \in DOMAIN log PROVE log[i].run = runs
    BY DEF IInv, SenderOK, SenderBeforeEntry
  <2>4. ASSUME NEW i \in DOMAIN log' PROVE log'[i].run = runs
    <3>1. CASE log' = log
      BY <3>1, <2>3
    <3>2. CASE log' = Logged
      <4>1. DOMAIN log' = 1 .. Len(log) + 1 /\ DOMAIN log = 1 .. Len(log)
        BY <2>1, <3>2 DEF Logged
      <4>2. CASE i = Len(log) + 1
        BY <2>1, <3>2, <4>2 DEF Logged
      <4>3. CASE i # Len(log) + 1
        <5>1. i \in DOMAIN log /\ log'[i] = log[i]
          BY <2>1, <3>2, <4>1, <4>3 DEF Logged
        <5> QED
          BY <2>3, <5>1
      <4> QED
        BY <4>2, <4>3
    <3> QED
      BY <3>1, <3>2
  <2>5. \A i \in DOMAIN log' : log'[i].run <= runs'
    BY <2>1, <2>2, <2>4
  <2>6. SenderBeforeEntry'
    BY <2>2, <2>4 DEF SenderBeforeEntry
  <2> QED
    BY <2>2, <2>5, <2>6 DEF SenderOK
<1>6. CommandNotOverwritten'
  <2>1. ASSUME NEW d \in Clients, HeardOf(d)' PROVE HeardOf(d)
    BY <1>1, <2>1 DEF HeardOf, cvars, net, NoDatagram
  <2> QED
    BY <1>1, <2>1 DEF IInv, CommandNotOverwritten, cvars
<1> QED
  BY <1>1, <1>2, <1>3, <1>4, <1>5, <1>6, ClientFrame DEF IInv, TypeOK

LEMMA LoseStep ==
  ASSUME IInv, Lose
  PROVE  IInv'
<1> USE DEF Lose
<1>1. UNCHANGED cvars /\ UNCHANGED svars /\ up' \subseteq up /\ down' \subseteq down
  OBVIOUS
<1>2. up' \subseteq Datagram /\ down' \subseteq Command
  BY <1>1 DEF IInv, TypeOK
<1>3. CommandNotOverwritten'
  BY <1>1 DEF IInv, CommandNotOverwritten, HeardOf, cvars, svars
<1> QED
  BY <1>1, <1>2, <1>3, ClientFrame, ServerFrame DEF IInv, TypeOK

-----------------------------------------------------------------------------
(* The theorems.                                                           *)

(* No step of a program, of the operator or of the network breaks the invariant. *)
THEOREM NextIInv == IInv /\ [Next]_vars => IInv'
<1> SUFFICES ASSUME IInv, [Next]_vars
             PROVE  IInv'
  OBVIOUS
<1>1. ASSUME NEW c \in Clients, InitializeLog(c) \/ ClientMain(c)
      PROVE  IInv'
  BY <1>1, InitializeLogStep, SetLogLevelStep, LogStep, LogSendStep, StartLapsStep,
     LapTestStep, LapEndStep, OverrunStep, ExitLogStep, JoinAndCloseStep
     DEF ClientMain
<1>2. ASSUME NEW c \in Clients, ClientRx(c) \/ SigInt(c)
      PROVE  IInv'
  BY <1>2, RxTestStep, RxRecvStep, RxApplyStep, SigIntStep DEF ClientRx
<1>3. ASSUME ServerStart \/ MenuTest \/ Operator \/ MenuCommand \/ ServerJoin \/ ServerSigInt
      PROVE  IInv'
  BY <1>3, ServerStartStep, MenuTestStep, MenuChoiceStep, MenuPauseStep, MenuLevelStep,
     MenuCommandStep, ServerJoinStep, ServerSigIntStep DEF Operator
<1>4. ASSUME ServerRx
      PROVE  IInv'
  BY <1>4, LogOpenStep, ServerRxTestStep, ServerRxRecvStep, TrackSenderStep, LogWriteStep
     DEF ServerRx
<1>5. CASE UNCHANGED vars
  <2>1. UNCHANGED cvars /\ UNCHANGED svars /\ UNCHANGED net
    BY <1>5 DEF vars
  <2>2. CommandNotOverwritten'
    BY <2>1 DEF IInv, CommandNotOverwritten, HeardOf, cvars, svars, net
  <2> QED
    BY <2>1, <2>2, ClientFrame, ServerFrame, NetFrame DEF IInv, TypeOK
<1> QED
  BY <1>1, <1>2, <1>3, <1>4, <1>5, LoseStep DEF Next

(* The inductive invariant holds in all reachable states. *)
THEOREM IInvAlways == Spec => []IInv
BY InitIInv, NextIInv, PTL DEF Spec

(* The types; g_filter is always one of the four levels, whatever the operator
   types and whatever arrives. *)
THEOREM TypeCorrect == Spec => []TypeOK
<1>1. IInv => TypeOK
  BY DEF IInv
<1> QED
  BY <1>1, IInvAlways, PTL

(* Neither program uses a socket that it has closed. *)
THEOREM SocketsOpen == Spec => []FdSafe
<1>1. IInv => FdSafe
  BY DEF IInv, ClientSockets, ServerSockets, FdSafe
<1> QED
  BY <1>1, IInvAlways, PTL

(* A new filter comes too late for one message at most. *)
THEOREM OneBelow == Spec => []AtMostOneBelow
<1>1. IInv => AtMostOneBelow
  <2>1. ASSUME IInv, NEW c \in Clients PROVE below[c] <= 1
    BY <2>1 DEF IInv, BelowOK, TypeOK, ClientTypes
  <2> QED
    BY <2>1 DEF AtMostOneBelow
<1> QED
  BY <1>1, IInvAlways, PTL

(* The SetLogLevel of a client that starts never undoes a command. *)
THEOREM CommandKept == Spec => []CommandNotOverwritten
<1>1. IInv => CommandNotOverwritten
  BY DEF IInv
<1> QED
  BY <1>1, IInvAlways, PTL

(* Whenever the log is dumped: an entry that the running server has written has a
   client to command, and one of an earlier run shows only before the truncation or
   after it has failed. *)
THEOREM EntryHasSender == Spec => []SenderBeforeEntry
<1>1. IInv => SenderBeforeEntry
  BY DEF IInv, SenderOK
<1> QED
  BY <1>1, IInvAlways, PTL
=============================================================================
