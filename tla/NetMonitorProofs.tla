-------------------------- MODULE NetMonitorProofs --------------------------
(***************************************************************************)
(* Safety of NetMonitor for any number of interfaces, sockets of any size, *)
(* any signals, link changes and faults.                                   *)
(***************************************************************************)
EXTENDS NetMonitor, SequenceTheorems, TLAPS

(* TypeOK, with names for what each side says. *)
ToServer == {"Ready", "Monitoring", "Link Down", "Done"}
ToMonitor == {"Monitor", "Set Link Up", "Shut Down"}
Types ==
  /\ spc \in ServerPC
  /\ next \in 1 .. N + 1
  /\ child_pids \subseteq Monitors
  /\ allPids \in BOOLEAN
  /\ client_sockets \in Seq(Monitors)
  /\ readfds \subseteq Monitors
  /\ path \in BOOLEAN
  /\ mpc \in [Monitors -> MonitorPC]
  /\ backlog \in Seq(Monitors)
  /\ sopen \subseteq Monitors
  /\ toSrv \in [Monitors -> Seq(ToServer)]
  /\ toMon \in [Monitors -> Seq(ToMonitor)]
  /\ pend \subseteq {Server} \union Monitors
  /\ link \in [Monitors -> BOOLEAN]

(***************************************************************************)
(* The invariant.  The handshake orders everything: a monitor connects     *)
(* once, the server accepts it once and sends nothing before that, one     *)
(* "Monitor" answers its one "Ready", and only who has been answered comes *)
(* to say "Link Down".  So when the server replies, its monitor is past    *)
(* the handshake, and no batch of the handshake has two messages.          *)
(***************************************************************************)
(* Where the server is bounds how many connections it has accepted (fewer than its
   loop has counted, when an accept has failed), and says which monitors it has not
   forked yet. *)
Places ==
  /\ Len(client_sockets) <= N
  /\ spc = "setup" => next = 1
  /\ spc \in {"setup", "fork", "push"} => next <= N /\ client_sockets = <<>>
  /\ spc \in {"setup", "fork"} => \A k \in Monitors : k >= next => mpc[k] = "none"
  /\ spc = "push" => \A k \in Monitors : k > next => mpc[k] = "none"
  /\ spc = "accept" => next <= N /\ Len(client_sockets) <= next - 1
  /\ spc \in {"hello", "monitor", "ack"} =>
       next <= N /\ Len(client_sockets) \in 1 .. next
  /\ spc = "reply" => next <= Len(client_sockets)

(* A monitor connects once: it waits in the backlog or has been accepted. *)
Apart == \A i \in DOMAIN client_sockets, j \in DOMAIN backlog : client_sockets[i] # backlog[j]
ConnectedOnce ==
  /\ IsInjective(client_sockets)
  /\ IsInjective(backlog)
  /\ Apart

(* Nothing is under way before the connection, no order before accept. *)
Early == {"none", "forked", "connect"}
NotYet(k) ==
  /\ \A i \in DOMAIN client_sockets : client_sockets[i] # k
  /\ \A j \in DOMAIN backlog : backlog[j] # k
  /\ toSrv[k] = <<>>
NothingEarly ==
  /\ \A k \in Monitors : mpc[k] \in Early => NotYet(k)
  /\ \A k \in Monitors : k \notin ToSet(client_sockets) => toMon[k] = <<>>
  /\ spc \in {"hello", "monitor"} => toMon[client_sockets[Len(client_sockets)]] = <<>>

(* A monitor is polled by "Link Down" only after the handshake, so that it has
   been through it when it is ordered to do something. *)
Past == {"loop", "exited"}
Has(s, msg) == \E i \in DOMAIN s : s[i] = msg
Ordered ==
  /\ \A k \in Monitors : Has(toSrv[k], "Link Down") => mpc[k] \in Past
  /\ \A k \in Monitors : Has(toMon[k], "Set Link Up") => mpc[k] \in Past
  /\ spc = "reply" => mpc[client_sockets[next]] \in Past

Stopping == spc \in {"clean", "done", "killed"}
Batches ==
  \A k \in Monitors :
    /\ mpc[k] = "greet" => toSrv[k] = <<>>
    /\ mpc[k] = "read" => toSrv[k] \in {<<>>, <<"Ready">>}
    /\ mpc[k] \in {"greet", "read"} /\ ~Stopping => toMon[k] \in {<<>>, <<"Monitor">>}

IInv ==
  /\ Types
  /\ Places
  /\ ConnectedOnce
  /\ NothingEarly
  /\ Ordered
  /\ Batches

(* All that the proofs use of the constants. *)
LEMMA NPositive == N \in Nat /\ N >= 1
BY NetMonitorAssumption

USE NPositive

LEMMA Words ==
  /\ {"Ready", "Monitoring", "Link Down", "Done"} \subseteq ToServer
  /\ {"Monitor", "Set Link Up", "Shut Down"} \subseteq ToMonitor
BY DEF ToServer, ToMonitor

LEMMA Appended ==
  ASSUME NEW S, NEW s \in Seq(S), NEW e \in S
  PROVE  /\ Append(s, e) \in Seq(S)
         /\ Len(Append(s, e)) = Len(s) + 1
         /\ DOMAIN Append(s, e) = 1 .. Len(s) + 1
         /\ DOMAIN s = 1 .. Len(s)
         /\ \A i \in DOMAIN s : Append(s, e)[i] = s[i]
         /\ Append(s, e)[Len(s) + 1] = e
         /\ \A msg : Has(Append(s, e), msg) <=> Has(s, msg) \/ msg = e
<1>1. /\ Append(s, e) \in Seq(S) /\ Len(Append(s, e)) = Len(s) + 1
      /\ \A i \in 1 .. Len(s) : Append(s, e)[i] = s[i]
      /\ Append(s, e)[Len(s) + 1] = e
  BY AppendProperties
<1>2. DOMAIN Append(s, e) = 1 .. Len(s) + 1 /\ DOMAIN s = 1 .. Len(s) /\ Len(s) \in Nat
  BY <1>1
<1>3. \A i : i \in 1 .. Len(s) + 1 <=> i \in 1 .. Len(s) \/ i = Len(s) + 1
  BY <1>2
<1> QED
  BY <1>1, <1>2, <1>3 DEF Has

LEMMA HasAppended ==
  \A s \in Seq(ToMonitor), e \in ToMonitor :
    \A msg : Has(Append(s, e), msg) <=> Has(s, msg) \/ msg = e
BY Appended

(* The batches that the handshake consists of have one message each. *)
LEMMA Singles ==
  /\ \A msg : Append(<<>>, msg) = <<msg>>
  /\ \A msg, w : ~Has(<<>>, msg) /\ (Has(<<w>>, msg) <=> msg = w)
<1>1. \A msg : Append(<<>>, msg) = <<msg>>
  OBVIOUS
<1>2. \A w : DOMAIN <<w>> = {1} /\ <<w>>[1] = w
  OBVIOUS
<1> QED
  BY <1>1, <1>2 DEF Has

(* The server's list and its index in it. *)
LEMMA Listed ==
  ASSUME Types
  PROVE  /\ next \in Nat /\ next >= 1 /\ next <= N + 1
         /\ Len(client_sockets) \in Nat
         /\ \A i \in DOMAIN client_sockets :
              client_sockets[i] \in Monitors /\ i <= Len(client_sockets)
         /\ next <= Len(client_sockets) =>
              next \in DOMAIN client_sockets /\ client_sockets[next] \in Monitors
<1>1. next \in 1 .. N + 1 /\ client_sockets \in Seq(Monitors)
  BY DEF Types
<1> QED
  BY <1>1

LEMMA InitOK == Init => IInv
<1> SUFFICES ASSUME Init PROVE IInv
  OBVIOUS
<1> USE DEF Init
<1>1. Types
  <2>2. mpc \in [Monitors -> MonitorPC] /\ spc \in ServerPC /\ next \in 1 .. N + 1
    BY DEF MonitorPC, ServerPC
  <2>3. toSrv \in [Monitors -> Seq(ToServer)] /\ toMon \in [Monitors -> Seq(ToMonitor)]
    OBVIOUS
  <2>4. client_sockets \in Seq(Monitors) /\ backlog \in Seq(Monitors)
    OBVIOUS
  <2>5. /\ child_pids \subseteq Monitors /\ readfds \subseteq Monitors
        /\ sopen \subseteq Monitors /\ pend \subseteq {Server} \union Monitors
    OBVIOUS
  <2>6. allPids \in BOOLEAN /\ path \in BOOLEAN /\ link \in [Monitors -> BOOLEAN]
    OBVIOUS
  <2> QED
    BY <2>2, <2>3, <2>4, <2>5, <2>6 DEF Types
<1>2. Places
  BY DEF Places
<1>3. ConnectedOnce
  BY DEF ConnectedOnce, IsInjective, Apart
<1>4. NothingEarly
  BY DEF NothingEarly, NotYet
<1>5. Ordered
  BY Singles DEF Ordered
<1>6. Batches
  BY DEF Batches
<1> QED
  BY <1>1, <1>2, <1>3, <1>4, <1>5, <1>6 DEF IInv

-----------------------------------------------------------------------------
(* The server.                                                             *)

(* Steps that accept and send nothing: what they read they take away. *)
LEMMA QuietServer ==
  ASSUME IInv, Types', Places', UNCHANGED <<mpc, client_sockets, toMon, backlog>>,
         \A k \in Monitors : toSrv'[k] = toSrv[k] \/ toSrv'[k] = <<>>,
         spc' = "hello" => spc = "hello",
         spc' = "monitor" => spc \in {"hello", "monitor"},
         spc' = "reply" => mpc[client_sockets[next']] \in Past,
         Stopping => Stopping'
  PROVE  IInv'
<1> USE DEF IInv
<1>1. ConnectedOnce'
  BY DEF ConnectedOnce, IsInjective, Apart
<1>2. NothingEarly'
  BY DEF NothingEarly, NotYet, ToSet
<1>3. Ordered'
  BY Singles DEF Ordered, Has
<1>4. Batches'
  BY DEF Batches
<1> QED
  BY <1>1, <1>2, <1>3, <1>4

(* A write to a monitor that has been accepted: within the handshake, or to one
   that is past it, or in the end. *)
LEMMA Sent ==
  ASSUME IInv, Types', Places', UNCHANGED <<mpc, client_sockets, toSrv, backlog>>,
         NEW i \in DOMAIN client_sockets, NEW msg \in ToMonitor,
         toMon' = [toMon EXCEPT ![client_sockets[i]] = Append(@, msg)],
         spc' \notin {"hello", "monitor", "reply"},
         Stopping => Stopping',
         msg = "Set Link Up" => mpc[client_sockets[i]] \in Past,
         \/ Stopping'
         \/ mpc[client_sockets[i]] \in Past
         \/ msg = "Monitor" /\ toMon[client_sockets[i]] = <<>>
  PROVE  IInv'
<1> USE DEF IInv
<1>0. PICK k \in Monitors : k = client_sockets[i] /\ k \in ToSet(client_sockets)
  BY Listed DEF ToSet
<1>1. /\ toMon'[k] = Append(toMon[k], msg)
      /\ \A j \in Monitors : j # k => toMon'[j] = toMon[j]
      /\ toMon[k] \in Seq(ToMonitor)
  BY <1>0 DEF Types
<1>2. ConnectedOnce'
  BY DEF ConnectedOnce, Apart
<1>3. NothingEarly'
  BY <1>0, <1>1 DEF NothingEarly, NotYet
<1>4. Ordered'
  <2>1. \A j \in Monitors : Has(toMon'[j], "Set Link Up") =>
          Has(toMon[j], "Set Link Up") \/ (j = k /\ msg = "Set Link Up")
    <3>1. Has(toMon'[k], "Set Link Up") <=> Has(toMon[k], "Set Link Up") \/ msg = "Set Link Up"
      <4>1. \A m : Has(Append(toMon[k], msg), m) <=> Has(toMon[k], m) \/ m = msg
        BY <1>1, HasAppended
      <4> QED
        BY <1>1, <4>1
    <3> QED
      BY <1>1, <3>1
  <2> QED
    BY <1>0, <2>1 DEF Ordered
<1>5. Batches'
  <2>1. toMon[k] = <<>> /\ msg = "Monitor" => toMon'[k] = <<"Monitor">>
    BY <1>1, Singles
  <2>2. ASSUME NEW j \in Monitors, mpc[j] \in {"greet", "read"}, ~Stopping'
        PROVE  toMon'[j] \in {<<>>, <<"Monitor">>}
    BY <1>0, <1>1, <2>1, <2>2 DEF Batches, Past
  <2> QED
    BY <2>2 DEF Batches
<1> QED
  BY <1>2, <1>3, <1>4, <1>5

LEMMA SetupOK == ASSUME IInv, Setup \/ PushPid \/ Select \/ ServerSigInt PROVE IInv'
<1> USE DEF IInv, At, bytes, conn
<1>1. CASE Setup
  <2>1. Types'
    BY <1>1 DEF Setup, Types, ServerPC
  <2>2. Places'
    BY <1>1 DEF Setup, Places
  <2> QED
    BY <1>1, <2>1, <2>2, QuietServer DEF Setup, Stopping
<1>2. CASE PushPid
  <2>0. spc = "push" /\ next \in Nat /\ next <= N /\ next >= 1
    BY <1>2 DEF PushPid, Places, Types
  <2>1. Types'
    <3>1. child_pids' \subseteq Monitors
      BY <1>2, <2>0 DEF PushPid, Types, Monitors
    <3>2. next' \in 1 .. N + 1 /\ spc' \in ServerPC
      BY <1>2, <2>0 DEF PushPid, ServerPC
    <3> QED
      BY <1>2, <3>1, <3>2 DEF PushPid, Types
  <2>2. Places'
    BY <1>2, <2>0 DEF PushPid, Places, Monitors
  <2> QED
    BY <1>2, <2>1, <2>2, QuietServer DEF PushPid, Stopping
<1>3. CASE Select
  <2>1. Types'
    BY <1>3 DEF Select, Types, ServerPC, ToSet
  <2>2. Places'
    BY <1>3 DEF Select, Places
  <2> QED
    BY <1>3, <2>1, <2>2, QuietServer DEF Select, Stopping
<1>4. CASE ServerSigInt
  <2>1. Types'
    BY <1>4 DEF ServerSigInt, Types, ServerPC
  <2>2. Places'
    BY <1>4 DEF ServerSigInt, Places
  <2> QED
    BY <1>4, <2>1, <2>2, QuietServer DEF ServerSigInt, Stopping
<1> QED
  BY <1>1, <1>2, <1>3, <1>4

LEMMA ForkOK == ASSUME IInv, Fork PROVE IInv'
<1> USE DEF IInv, At, bytes, conn, Fork, Goto
<1>0. next \in Monitors /\ mpc[next] = "none"
  BY DEF Places, Types, Monitors
<1>1. mpc' \in [Monitors -> MonitorPC]
  BY <1>0 DEF Types, MonitorPC
<1>2. /\ \A k \in Monitors : k # next => mpc'[k] = mpc[k]
      /\ mpc'[next] \in {"none", "forked"}
  BY <1>0 DEF Types
<1>3. Types'
  BY <1>1 DEF Types, ServerPC
<1>4. Places'
  <2>1. \A k \in Monitors : k > next => k # next /\ k >= next
    BY <1>0 DEF Monitors
  <2> QED
    BY <1>2, <2>1 DEF Places
<1>5. ConnectedOnce'
  BY DEF ConnectedOnce, Apart
<1>6. NothingEarly'
  BY <1>0, <1>2 DEF NothingEarly, NotYet, Early
<1>7. Ordered'
  BY <1>0, <1>2 DEF Ordered, Past
<1>8. Batches'
  BY <1>0, <1>2 DEF Batches, Stopping
<1> QED
  BY <1>3, <1>4, <1>5, <1>6, <1>7, <1>8

LEMMA AcceptOK == ASSUME IInv, Accept PROVE IInv'
<1> USE DEF IInv, At, bytes, Accept
<1>0. PICK k \in Monitors : k = Head(backlog) /\ k = backlog[1] /\ 1 \in DOMAIN backlog
  BY DEF Types
<1>1. /\ client_sockets' = Append(client_sockets, k)
      /\ client_sockets' \in Seq(Monitors)
      /\ Len(client_sockets') = Len(client_sockets) + 1
      /\ DOMAIN client_sockets' = 1 .. Len(client_sockets) + 1
      /\ DOMAIN client_sockets = 1 .. Len(client_sockets)
      /\ \A i \in DOMAIN client_sockets : client_sockets'[i] = client_sockets[i]
      /\ client_sockets'[Len(client_sockets) + 1] = k
  BY <1>0, Appended DEF Types
<1>2. /\ backlog' \in Seq(Monitors)
      /\ \A j \in DOMAIN backlog' : /\ j + 1 \in DOMAIN backlog /\ j \in Nat /\ j >= 1
                                    /\ backlog'[j] = backlog[j + 1]
  <2>1. backlog' = Tail(backlog) /\ backlog \in Seq(Monitors) /\ backlog # <<>>
    BY DEF Types
  <2>2. /\ backlog' \in Seq(Monitors) /\ Len(backlog') = Len(backlog) - 1
        /\ \A j \in 1 .. Len(backlog') : backlog'[j] = backlog[j + 1]
    BY <2>1, HeadTailProperties
  <2>3. DOMAIN backlog' = 1 .. Len(backlog') /\ DOMAIN backlog = 1 .. Len(backlog)
        /\ Len(backlog') \in Nat /\ Len(backlog) \in Nat
    BY <2>1, <2>2
  <2> QED
    BY <2>2, <2>3
<1>3. Len(client_sockets) \in Nat
  BY DEF Types
<1>4. \A i \in DOMAIN client_sockets' :
        i \in DOMAIN client_sockets \/ (i = Len(client_sockets) + 1 /\ client_sockets'[i] = k)
  BY <1>1, <1>3
<1>5. \A i \in DOMAIN client_sockets : client_sockets[i] # k
  BY <1>0 DEF ConnectedOnce, Apart
<1>6. Types'
  BY <1>1, <1>2 DEF Types, ServerPC
<1>7. Places'
  BY <1>1, <1>3 DEF Places, Types
<1>8. ConnectedOnce'
  <2>1. IsInjective(client_sockets)'
    BY <1>1, <1>4, <1>5 DEF ConnectedOnce, IsInjective
  <2>2. IsInjective(backlog)'
    <3>1. \A i, j \in DOMAIN backlog' : backlog'[i] = backlog'[j] => i + 1 = j + 1
      BY <1>2 DEF ConnectedOnce, IsInjective
    <3>2. \A i, j \in DOMAIN backlog' : i + 1 = j + 1 => i = j
      BY <1>2
    <3> QED
      BY <3>1, <3>2 DEF IsInjective
  <2>3. Apart'
    <3>1. ASSUME NEW i \in DOMAIN client_sockets', NEW j \in DOMAIN backlog'
          PROVE  client_sockets'[i] # backlog'[j]
      <4>1. CASE i \in DOMAIN client_sockets
        BY <1>1, <1>2, <4>1 DEF ConnectedOnce, Apart
      <4>2. CASE client_sockets'[i] = k
        <5>1. j + 1 # 1 /\ j + 1 \in DOMAIN backlog /\ backlog'[j] = backlog[j + 1]
          BY <1>2
        <5> QED
          BY <1>0, <4>2, <5>1 DEF ConnectedOnce, IsInjective
      <4> QED
        BY <1>4, <4>1, <4>2
    <3> QED
      BY <3>1 DEF Apart
  <2> QED
    BY <2>1, <2>2, <2>3 DEF ConnectedOnce
<1>9. NothingEarly'
  <2>1. ASSUME NEW j \in Monitors, mpc[j] \in Early PROVE NotYet(j)'
    <3>1. NotYet(j) /\ j # k
      BY <1>0, <2>1 DEF NothingEarly, NotYet
    <3> QED
      BY <1>1, <1>2, <1>4, <3>1 DEF NotYet
  <2>2. \A j \in Monitors : j \notin ToSet(client_sockets') => j \notin ToSet(client_sockets)
    BY <1>1, <1>3 DEF ToSet
  <2>3. k \notin ToSet(client_sockets)
    BY <1>5 DEF ToSet
  <2>4. client_sockets'[Len(client_sockets')] = k
    BY <1>1
  <2> QED
    BY <2>1, <2>2, <2>3, <2>4 DEF NothingEarly
<1>10. Ordered' /\ Batches'
  BY DEF Ordered, Batches, Stopping
<1> QED
  BY <1>6, <1>7, <1>8, <1>9, <1>10

(* After a failed accept the loop has counted one more than it has accepted. *)
LEMMA AcceptFailsOK == ASSUME IInv, AcceptFails PROVE IInv'
<1> USE DEF IInv, At, bytes, conn, AcceptFails, NextAccept
<1>1. Types'
  BY DEF Types, ServerPC, Places
<1>2. Places'
  BY DEF Places, Types
<1> QED
  BY <1>1, <1>2, QuietServer DEF Stopping

(* The connection that the server has accepted last. *)
LEMMA Latest ==
  ASSUME IInv, spc \in {"hello", "monitor", "ack"}
  PROVE  /\ Len(client_sockets) \in DOMAIN client_sockets /\ Len(client_sockets) <= next
         /\ next <= N
         /\ Last(client_sockets) = client_sockets[Len(client_sockets)]
         /\ client_sockets[Len(client_sockets)] \in Monitors
<1>1. Len(client_sockets) \in 1 .. next /\ next \in Nat /\ next >= 1 /\ next <= N
  BY DEF IInv, Places, Types
<1>2. DOMAIN client_sockets = 1 .. Len(client_sockets) /\ client_sockets \in Seq(Monitors)
  BY DEF IInv, Types
<1> QED
  BY <1>1, <1>2 DEF Last

LEMMA Read ==
  ASSUME Types, NEW k \in Monitors, toSrv' = [toSrv EXCEPT ![k] = <<>>]
  PROVE  /\ toSrv' \in [Monitors -> Seq(ToServer)]
         /\ \A j \in Monitors : toSrv'[j] = toSrv[j] \/ toSrv'[j] = <<>>
BY DEF Types

LEMMA HelloOK == ASSUME IInv, Hello \/ Ack PROVE IInv'
<1> USE DEF IInv, At, conn
<1>0. /\ Len(client_sockets) \in 1 .. next /\ next <= N /\ next \in Nat
      /\ Last(client_sockets) \in Monitors
  BY Latest DEF Hello, Ack, Types, Places
<1>1. toSrv' = [toSrv EXCEPT ![Last(client_sockets)] = <<>>]
  BY <1>0 DEF Hello, Ack
<1>2. \/ spc = "hello" /\ spc' = "monitor" /\ UNCHANGED next
      \/ NextAccept
  BY DEF Hello, Ack
<1>3. /\ UNCHANGED <<mpc, client_sockets, toMon, backlog>> /\ spc \in {"hello", "ack"}
      /\ UNCHANGED <<child_pids, allPids, readfds, path, sopen, pend, link>>
  BY DEF Hello, Ack
<1>4. /\ toSrv' \in [Monitors -> Seq(ToServer)]
      /\ \A j \in Monitors : toSrv'[j] = toSrv[j] \/ toSrv'[j] = <<>>
  BY <1>0, <1>1, Read
<1>5. Types'
  BY <1>0, <1>2, <1>3, <1>4 DEF Types, NextAccept, ServerPC
<1>6. Places'
  BY <1>0, <1>2, <1>3 DEF Places, NextAccept
<1> QED
  BY <1>2, <1>3, <1>4, <1>5, <1>6, QuietServer DEF NextAccept, Stopping

(* "Link Down" comes from a monitor that is past the handshake. *)
LEMMA ScanOK == ASSUME IInv, Scan PROVE IInv'
<1>0. /\ Types /\ Places /\ Ordered /\ spc = "scan"
      /\ UNCHANGED <<child_pids, allPids, client_sockets, readfds, mpc, path, backlog, sopen,
                     toMon, pend, link>>
      /\ next \in Nat /\ next >= 1 /\ next <= N + 1
      /\ Len(client_sockets) \in Nat /\ Len(client_sockets) <= N
  BY Listed DEF IInv, Places, Scan, At, conn
<1>1. CASE next > Len(client_sockets)
  <2>0. spc' = "select" /\ UNCHANGED <<next, toSrv>>
    BY <1>1 DEF Scan
  <2>1. Types'
    BY <1>0, <2>0 DEF Types, ServerPC
  <2>2. Places'
    BY <1>0, <2>0 DEF Places
  <2> QED
    BY <1>0, <2>0, <2>1, <2>2, QuietServer DEF Stopping
<1>2. CASE next <= Len(client_sockets)
  <2>0. client_sockets[next] \in Monitors /\ ~(next > Len(client_sockets))
    BY <1>0, <1>2, Listed
  <2>1. \/ spc' = "reply" /\ UNCHANGED next /\ toSrv[client_sockets[next]] = <<"Link Down">>
        \/ spc' = "scan" /\ next' = next + 1
    BY <1>0, <2>0 DEF Scan, Recognised
  <2>2. toSrv' = toSrv \/ toSrv' = [toSrv EXCEPT ![client_sockets[next]] = <<>>]
    BY <2>0 DEF Scan
  <2>3. /\ toSrv' \in [Monitors -> Seq(ToServer)]
        /\ \A j \in Monitors : toSrv'[j] = toSrv[j] \/ toSrv'[j] = <<>>
    BY <1>0, <2>0, <2>2, Read DEF Types
  <2>4. Types'
    <3>0. next' = next \/ next' = next + 1
      BY <2>1
    <3>1. next' \in 1 .. N + 1
      BY <1>0, <1>2, <3>0
    <3>2. spc' \in ServerPC
      BY <2>1 DEF ServerPC
    <3> QED
      BY <1>0, <2>3, <3>1, <3>2 DEF Types
  <2>5. Places'
    BY <1>0, <1>2, <2>1 DEF Places
  <2>6. spc' = "reply" => mpc[client_sockets[next']] \in Past
    BY <1>0, <2>0, <2>1, Singles DEF Ordered
  <2> QED
    BY <1>0, <2>1, <2>3, <2>4, <2>5, <2>6, QuietServer DEF Stopping
<1> QED
  BY <1>0, <1>1, <1>2

(* The server dies of SIGPIPE, or the bytes are under way. *)
LEMMA DiesOK ==
  ASSUME IInv, ServerEnds("killed") \/ ServerEnds("done"),
         UNCHANGED <<next, client_sockets, child_pids, allPids, mpc, toSrv, toMon, link>>,
         path' \in BOOLEAN, pend' \subseteq {Server} \union Monitors
  PROVE  IInv'
<1> USE DEF IInv, ServerEnds
<1>1. Types'
  <2>1. /\ spc' \in ServerPC /\ sopen' \subseteq Monitors /\ readfds' \subseteq Monitors
        /\ backlog' \in Seq(Monitors)
    <3>1. spc' \in {"killed", "done"} /\ sopen' \subseteq sopen /\ readfds' = {}
          /\ backlog' = backlog
      OBVIOUS
    <3> QED
      BY <3>1 DEF ServerPC, Types
  <2> QED
    BY <2>1 DEF Types
<1>2. Places'
  BY DEF Places
<1> QED
  BY <1>1, <1>2, QuietServer DEF Stopping

LEMMA SendOK == ASSUME IInv, SendMonitor \/ Reply \/ CleanSocket PROVE IInv'
<1> USE DEF IInv, At
<1>0. PICK i \in DOMAIN client_sockets, msg \in ToMonitor :
        /\ i = (IF spc = "monitor" THEN Len(client_sockets) ELSE next)
        /\ \/ ~Connected(client_sockets[i]) /\ ServerEnds("killed") /\ UNCHANGED <<next, toMon>>
           \/ /\ toMon' = [toMon EXCEPT ![client_sockets[i]] = Append(@, msg)]
              /\ UNCHANGED <<backlog, readfds>>
              /\ \/ SendMonitor /\ msg = "Monitor" /\ spc' = "ack" /\ UNCHANGED <<next, sopen>>
                 \/ /\ Reply /\ msg = "Set Link Up" /\ spc' = "scan" /\ next' = next + 1
                    /\ UNCHANGED sopen
                 \/ /\ CleanSocket /\ msg = "Shut Down" /\ next' = next + 1 /\ UNCHANGED spc
                    /\ sopen' = sopen \ {client_sockets[i]}
  <2>1. CASE SendMonitor
    <3>1. /\ Len(client_sockets) \in DOMAIN client_sockets /\ spc = "monitor"
          /\ Last(client_sockets) = client_sockets[Len(client_sockets)]
      BY <2>1, Latest DEF SendMonitor
    <3> QED
      BY <2>1, <3>1, Words DEF SendMonitor, WriteOrDie
  <2>2. CASE Reply
    <3>1. next \in DOMAIN client_sockets /\ spc = "reply"
      BY <2>2, Listed DEF Reply, Places
    <3> QED
      BY <2>2, <3>1, Words DEF Reply, WriteOrDie
  <2>3. CASE CleanSocket
    <3>1. next \in DOMAIN client_sockets /\ spc = "clean"
      BY <2>3, Listed DEF CleanSocket
    <3> QED
      BY <2>3, <3>1, Words DEF CleanSocket, WriteOrDie
  <2> QED
    BY <2>1, <2>2, <2>3
<1>1. /\ UNCHANGED <<child_pids, allPids, client_sockets, mpc, path, toSrv, pend, link>>
      /\ spc \in {"monitor", "reply", "clean"}
      /\ spc = "monitor" <=> SendMonitor
      /\ spc = "reply" <=> Reply
      /\ spc = "clean" <=> CleanSocket
  BY DEF SendMonitor, Reply, CleanSocket
<1>2. CASE ServerEnds("killed") /\ UNCHANGED <<next, toMon>>
  BY <1>1, <1>2, DiesOK DEF Types
<1>3. CASE ~(ServerEnds("killed") /\ UNCHANGED <<next, toMon>>)
  <2>1. /\ toMon' = [toMon EXCEPT ![client_sockets[i]] = Append(@, msg)]
        /\ client_sockets[i] \in Monitors /\ next \in Nat /\ next >= 1
        /\ spc # "monitor" => next <= Len(client_sockets)
        /\ Len(client_sockets) \in Nat
    <3>1. /\ next \in Nat /\ next >= 1 /\ client_sockets[i] \in Monitors
          /\ Len(client_sockets) \in Nat
      BY Listed
    <3>2. spc # "monitor" => next <= Len(client_sockets)
      BY <1>0, Listed
    <3> QED
      BY <1>0, <1>3, <3>1, <3>2
  <2>2. toMon' \in [Monitors -> Seq(ToMonitor)]
    <3>1. Append(toMon[client_sockets[i]], msg) \in Seq(ToMonitor)
      BY <2>1, Appended DEF Types
    <3> QED
      BY <2>1, <3>1 DEF Types
  <2>3. /\ spc' \in {"ack", "scan", "clean"} /\ sopen' \subseteq Monitors
        /\ next' = next \/ (spc # "monitor" /\ next' = next + 1)
        /\ UNCHANGED <<backlog, readfds>>
    BY <1>0, <1>1, <1>3 DEF Types
  <2>4. Types'
    <3>1. next' \in 1 .. N + 1
      BY <2>1, <2>3 DEF Places, Types
    <3>2. spc' \in ServerPC
      BY <2>3 DEF ServerPC
    <3> QED
      BY <1>1, <2>2, <2>3, <3>1, <3>2 DEF Types
  <2>5. Places'
    BY <1>0, <1>1, <1>3, <2>3 DEF Places
  <2>6. CASE spc = "monitor"
    <3>1. msg = "Monitor" /\ spc' = "ack" /\ toMon[client_sockets[i]] = <<>>
      BY <1>0, <1>1, <1>3, <2>6, Latest DEF NothingEarly
    <3> QED
      BY <1>1, <2>1, <2>3, <2>4, <2>5, <2>6, <3>1, Sent DEF Stopping
  <2>7. CASE spc = "reply"
    <3>1. spc' = "scan" /\ mpc[client_sockets[i]] \in Past
      BY <1>0, <1>1, <1>3, <2>7 DEF Ordered
    <3> QED
      BY <1>1, <2>1, <2>3, <2>4, <2>5, <2>7, <3>1, Sent DEF Stopping
  <2>8. CASE spc = "clean"
    <3>1. msg = "Shut Down" /\ spc' = "clean"
      BY <1>0, <1>1, <1>3, <2>8
    <3> QED
      BY <1>1, <2>1, <2>3, <2>4, <2>5, <2>8, <3>1, Sent DEF Stopping
  <2> QED
    BY <1>1, <2>6, <2>7, <2>8
<1> QED
  BY <1>2, <1>3

LEMMA ServerMainOK == ASSUME IInv, ServerMain PROVE IInv'
<1>1. CASE CleanExit
  <2>1. path' \in BOOLEAN /\ pend' \subseteq {Server} \union Monitors
    BY <1>1 DEF CleanExit, IInv, Types, Killed
  <2> QED
    BY <1>1, <2>1, DiesOK DEF CleanExit, bytes
<1> QED
  BY <1>1, SetupOK, ForkOK, AcceptOK, AcceptFailsOK, HelloOK, ScanOK, SendOK DEF ServerMain

-----------------------------------------------------------------------------
(* The monitors.                                                           *)

(* A step of monitor k on its way through the program, which connects nothing. *)
LEMMA Moved ==
  ASSUME IInv, Types', NEW k \in Monitors,
         UNCHANGED <<spc, next, client_sockets, backlog>>,
         \A j \in Monitors : j # k => /\ mpc'[j] = mpc[j] /\ toSrv'[j] = toSrv[j]
                                      /\ toMon'[j] = toMon[j],
         mpc[k] # "none",
         mpc'[k] \in Early => mpc[k] \in Early /\ toSrv'[k] = toSrv[k],
         mpc[k] \in Past => mpc'[k] \in Past,
         mpc'[k] = "greet" => mpc[k] = "greet" /\ toSrv'[k] = toSrv[k],
         mpc'[k] = "read" => /\ mpc[k] \in {"greet", "read"}
                             /\ toSrv'[k] \in {<<>>, <<"Ready">>},
         Has(toSrv'[k], "Link Down") => mpc'[k] \in Past,
         toMon'[k] = toMon[k] \/ toMon'[k] = <<>>
  PROVE  IInv'
<1> USE DEF IInv
<1>1. Places'
  BY DEF Places
<1>2. ConnectedOnce'
  BY DEF ConnectedOnce, Apart
<1>3. NothingEarly'
  <2>1. \A j \in Monitors : toMon'[j] = toMon[j] \/ toMon'[j] = <<>>
    OBVIOUS
  <2>2. \A j \in Monitors : mpc'[j] \in Early => mpc[j] \in Early /\ toSrv'[j] = toSrv[j]
    OBVIOUS
  <2>3. spc \in {"hello", "monitor"} => client_sockets[Len(client_sockets)] \in Monitors
    BY Latest
  <2> QED
    BY <2>1, <2>2, <2>3 DEF NothingEarly, NotYet
<1>4. Ordered'
  <2>1. spc = "reply" => client_sockets[next] \in Monitors
    BY Listed DEF Places
  <2>2. \A j \in Monitors : mpc[j] \in Past => mpc'[j] \in Past
    OBVIOUS
  <2>3. \A j \in Monitors : Has(toSrv'[j], "Link Down") =>
          mpc'[j] \in Past \/ Has(toSrv[j], "Link Down")
    OBVIOUS
  <2>4. \A j \in Monitors : Has(toMon'[j], "Set Link Up") => Has(toMon[j], "Set Link Up")
    BY Singles
  <2> QED
    BY <2>1, <2>2, <2>3, <2>4 DEF Ordered
<1>5. Batches'
  BY DEF Batches, Stopping
<1> QED
  BY <1>1, <1>2, <1>3, <1>4, <1>5

LEMMA GotoOK ==
  ASSUME Types, NEW k \in Monitors, NEW pc \in MonitorPC, Goto(k, pc)
  PROVE  /\ mpc' \in [Monitors -> MonitorPC]
         /\ mpc'[k] = pc
         /\ \A j \in Monitors : j # k => mpc'[j] = mpc[j]
BY DEF Types, Goto

LEMMA ReportOK ==
  ASSUME Types, NEW k \in Monitors, NEW msg \in ToServer, NEW pc \in MonitorPC,
         Report(k, msg, pc)
  PROVE  /\ mpc' \in [Monitors -> MonitorPC]
         /\ toSrv' \in [Monitors -> Seq(ToServer)]
         /\ \A j \in Monitors : j # k => mpc'[j] = mpc[j] /\ toSrv'[j] = toSrv[j]
         /\ \/ mpc'[k] = "exited" /\ toSrv'[k] = toSrv[k]
            \/ mpc'[k] = pc /\ toSrv'[k] = Append(toSrv[k], msg)
         /\ \A m : Has(toSrv'[k], m) => Has(toSrv[k], m) \/ m = msg
<1>0. toSrv \in [Monitors -> Seq(ToServer)] /\ "exited" \in MonitorPC
  BY DEF Types, MonitorPC
<1>1. CASE Goto(k, "exited") /\ UNCHANGED toSrv
  BY <1>0, <1>1, GotoOK
<1>2. CASE toSrv' = [toSrv EXCEPT ![k] = Append(@, msg)] /\ Goto(k, pc)
  <2>1. Append(toSrv[k], msg) \in Seq(ToServer)
    BY <1>0, Appended
  <2>2. \A m : Has(Append(toSrv[k], msg), m) <=> Has(toSrv[k], m) \/ m = msg
    BY <1>0, Appended
  <2> QED
    BY <1>0, <1>2, <2>1, <2>2, GotoOK
<1> QED
  BY <1>1, <1>2 DEF Report

(* The types of what a monitor's step leaves alone. *)
LEMMA MonitorTypes ==
  ASSUME Types, UNCHANGED server, path' \in BOOLEAN, backlog' \in Seq(Monitors),
         sopen' \subseteq Monitors, mpc' \in [Monitors -> MonitorPC],
         toSrv' \in [Monitors -> Seq(ToServer)], toMon' \in [Monitors -> Seq(ToMonitor)],
         pend' \subseteq {Server} \union Monitors, link' \in [Monitors -> BOOLEAN]
  PROVE  Types'
BY DEF Types, server

LEMMA ExecOK == ASSUME IInv, NEW k \in Monitors, Exec(k) PROVE IInv'
<1> USE DEF IInv, Exec, MonitorAt, conn, bytes
<1>1. PICK pc \in {"connect", "exited"} : Goto(k, pc)
  OBVIOUS
<1>2. /\ mpc' \in [Monitors -> MonitorPC] /\ mpc'[k] = pc
      /\ \A j \in Monitors : j # k => mpc'[j] = mpc[j]
  BY <1>1, GotoOK DEF MonitorPC
<1>3. Types'
  BY <1>2, MonitorTypes DEF Types
<1>4. ~Has(toSrv[k], "Link Down")
  BY Singles DEF NothingEarly, NotYet, Early
<1> QED
  BY <1>2, <1>3, <1>4, Moved DEF server, Early, Past

(* Connecting appends a monitor that is in no list yet. *)
LEMMA ConnectOK == ASSUME IInv, NEW k \in Monitors, Connect(k) PROVE IInv'
<1> USE DEF IInv, Connect, MonitorAt, server, bytes
<1>0. NotYet(k)
  BY DEF NothingEarly, Early
<1>1. /\ mpc' \in [Monitors -> MonitorPC] /\ mpc'[k] = "greet"
      /\ \A j \in Monitors : j # k => mpc'[j] = mpc[j]
  BY GotoOK DEF MonitorPC
<1>2. /\ backlog' \in Seq(Monitors)
      /\ DOMAIN backlog' = 1 .. Len(backlog) + 1 /\ DOMAIN backlog = 1 .. Len(backlog)
      /\ \A i \in DOMAIN backlog : backlog'[i] = backlog[i]
      /\ backlog'[Len(backlog) + 1] = k
      /\ Len(backlog) \in Nat
  BY Appended DEF Types
<1>3. \A i \in DOMAIN backlog' :
        \/ i \in DOMAIN backlog /\ backlog'[i] = backlog[i]
        \/ i = Len(backlog) + 1 /\ backlog'[i] = k
  BY <1>2
<1>4. Types'
  BY <1>1, <1>2, MonitorTypes DEF Types
<1>5. Places'
  BY <1>1 DEF Places
<1>6. ConnectedOnce'
  BY <1>0, <1>3 DEF ConnectedOnce, IsInjective, Apart, NotYet
<1>7. NothingEarly'
  BY <1>0, <1>1, <1>3 DEF NothingEarly, NotYet, Early
<1>8. Ordered'
  <2>1. spc = "reply" => client_sockets[next] \in Monitors /\ client_sockets[next] # k
    BY <1>0, Listed DEF Places, NotYet
  <2> QED
    BY <1>1, <2>1 DEF Ordered, Past
<1>9. Batches'
  <2>1. toSrv[k] = <<>> /\ toMon[k] = <<>>
    BY <1>0 DEF NotYet, NothingEarly, ToSet
  <2> QED
    BY <1>1, <2>1 DEF Batches, Stopping
<1> QED
  BY <1>4, <1>5, <1>6, <1>7, <1>8, <1>9

LEMMA GreetOK == ASSUME IInv, NEW k \in Monitors, Greet(k) PROVE IInv'
<1> USE DEF IInv, Greet, MonitorAt, conn
<1>1. toSrv[k] = <<>>
  BY DEF Batches
<1>2. /\ mpc' \in [Monitors -> MonitorPC]
      /\ toSrv' \in [Monitors -> Seq(ToServer)]
      /\ \A j \in Monitors : j # k => mpc'[j] = mpc[j] /\ toSrv'[j] = toSrv[j]
      /\ \/ mpc'[k] = "exited" /\ toSrv'[k] = toSrv[k]
         \/ mpc'[k] = "read" /\ toSrv'[k] = Append(toSrv[k], "Ready")
      /\ \A m : Has(toSrv'[k], m) => Has(toSrv[k], m) \/ m = "Ready"
  BY ReportOK, Words DEF MonitorPC
<1>3. Types'
  BY <1>2, MonitorTypes DEF Types
<1>4. toSrv'[k] \in {<<>>, <<"Ready">>} /\ ~Has(toSrv'[k], "Link Down")
  BY <1>1, <1>2, Singles
<1> QED
  BY <1>2, <1>3, <1>4, Moved DEF server, Early, Past

LEMMA MonitorReadOK == ASSUME IInv, NEW k \in Monitors, MonitorRead(k) PROVE IInv'
<1>0. toMon \in [Monitors -> Seq(ToMonitor)] /\ <<>> \in Seq(ToMonitor)
  BY DEF IInv, Types
<1> USE DEF IInv, MonitorRead, MonitorAt, conn
<1>1. PICK pc \in {"answer", "read", "exited"} : Goto(k, pc)
  OBVIOUS
<1>2. /\ mpc' \in [Monitors -> MonitorPC] /\ mpc'[k] = pc
      /\ \A j \in Monitors : j # k => mpc'[j] = mpc[j]
  BY <1>1, GotoOK DEF MonitorPC
<1>3. /\ toMon' \in [Monitors -> Seq(ToMonitor)]
      /\ \A j \in Monitors : j # k => toMon'[j] = toMon[j]
      /\ toMon'[k] = toMon[k] \/ toMon'[k] = <<>>
  <2>1. toMon' = toMon \/ toMon' = [toMon EXCEPT ![k] = <<>>]
    OBVIOUS
  <2> QED
    BY <1>0, <2>1
<1>4. pend' \subseteq {Server} \union Monitors
  <2>1. pend' = pend \/ pend' = pend \union {k}
    OBVIOUS
  <2> QED
    BY <2>1 DEF Types
<1>5. link' \in [Monitors -> BOOLEAN]
  <2>1. link \in [Monitors -> BOOLEAN]
    BY DEF Types
  <2>2. PICK up \in BOOLEAN : link' = [link EXCEPT ![k] = up] \/ link' = link
    <3>1. CASE UNCHANGED link
      BY <3>1
    <3>2. CASE link' = [link EXCEPT ![k] = link[k] \/ toMon[k] = <<"Set Link Up">>]
      <4>1. (link[k] \/ toMon[k] = <<"Set Link Up">>) \in BOOLEAN
        BY Zenon
      <4> QED
        BY <3>2, <4>1
    <3> QED
      BY <3>1, <3>2
  <2> QED
    BY <2>1, <2>2
<1>6. Types'
  BY <1>2, <1>3, <1>4, <1>5, MonitorTypes DEF Types
<1>7. toSrv[k] \in {<<>>, <<"Ready">>} /\ ~Has(toSrv[k], "Link Down")
  BY Singles DEF Batches
<1> QED
  BY <1>2, <1>3, <1>6, <1>7, Moved DEF server, Early, Past

LEMMA AnswerOK == ASSUME IInv, NEW k \in Monitors, Answer(k) \/ Poll(k) PROVE IInv'
<1> USE DEF IInv, conn
<1>0. /\ mpc[k] \in {"answer", "loop"}
      /\ UNCHANGED <<server, conn, toMon, pend, link>>
  BY DEF Answer, Poll, MonitorAt
<1>1. PICK msg \in ToServer : Report(k, msg, "loop")
  BY Words DEF Answer, Poll
<1>2. /\ mpc' \in [Monitors -> MonitorPC]
      /\ toSrv' \in [Monitors -> Seq(ToServer)]
      /\ \A j \in Monitors : j # k => mpc'[j] = mpc[j] /\ toSrv'[j] = toSrv[j]
      /\ mpc'[k] \in {"exited", "loop"}
  BY <1>1, ReportOK DEF MonitorPC
<1>3. Types'
  BY <1>0, <1>2, MonitorTypes DEF Types
<1> QED
  BY <1>0, <1>2, <1>3, Moved DEF server, Early, Past

(* However far monitor k has come, it exits, and perhaps says so. *)
LEMMA MonitorSigIntOK == ASSUME IInv, NEW k \in Monitors, MonitorSigInt(k) PROVE IInv'
<1> USE DEF IInv, MonitorSigInt
<1>1. /\ mpc' \in [Monitors -> MonitorPC]
      /\ toSrv' \in [Monitors -> Seq(ToServer)]
      /\ \A j \in Monitors : j # k => mpc'[j] = mpc[j] /\ toSrv'[j] = toSrv[j]
      /\ mpc'[k] = "exited"
  <2>1. CASE Goto(k, "exited") /\ UNCHANGED toSrv
    BY <2>1, GotoOK DEF Types, MonitorPC
  <2>2. CASE Report(k, "Done", "exited")
    BY <2>2, ReportOK, Words DEF MonitorPC
  <2> QED
    BY <2>1, <2>2
<1>2. pend' \subseteq {Server} \union Monitors /\ path' \in BOOLEAN
  BY DEF Types, InheritedPids
<1>3. Types'
  BY <1>1, <1>2, MonitorTypes DEF Types
<1> QED
  BY <1>1, <1>3, Moved DEF server, Early, Past, Alive

LEMMA MonitorOK == ASSUME IInv, NEW k \in Monitors, Monitor(k) PROVE IInv'
BY ExecOK, ConnectOK, GreetOK, MonitorReadOK, AnswerOK, MonitorSigIntOK DEF Monitor

-----------------------------------------------------------------------------
(* The theorems.                                                           *)

LEMMA NextOK == IInv /\ [Next]_vars => IInv'
<1> SUFFICES ASSUME IInv, [Next]_vars PROVE IInv'
  OBVIOUS
<1>1. ASSUME Types', UNCHANGED <<spc, next, mpc, client_sockets, backlog, bytes>>
      PROVE  IInv'
  BY <1>1 DEF IInv, Places, ConnectedOnce, Apart, NothingEarly, NotYet, Ordered, Batches,
              Stopping, bytes
<1>2. CASE UNCHANGED vars
  <2>1. Types'
    BY <1>2 DEF IInv, Types, vars, server, conn, bytes
  <2> QED
    BY <1>1, <1>2, <2>1 DEF vars, server, conn
<1>3. CASE Interrupt
  <2>1. Types'
    <3>1. pend' \subseteq {Server} \union Monitors
      <4>1. pend \subseteq {Server} \union Monitors
        BY DEF IInv, Types
      <4>2. \A S \in Targets : S \subseteq {Server} \union Monitors
        BY NetMonitorAssumption DEF Server, Monitors
      <4> QED
        BY <1>3, <4>1, <4>2 DEF Interrupt
    <3> QED
      BY <1>3, <3>1 DEF Interrupt, IInv, Types, server, conn, bytes
  <2> QED
    BY <1>1, <1>3, <2>1 DEF Interrupt, server, conn
<1>4. CASE LinkChange
  <2>1. Types'
    <3>1. link' \in [Monitors -> BOOLEAN]
      BY <1>4 DEF LinkChange, IInv, Types
    <3> QED
      BY <1>4, <3>1 DEF LinkChange, IInv, Types, server, conn, bytes
  <2> QED
    BY <1>1, <1>4, <2>1 DEF LinkChange, server, conn
<1> QED
  BY <1>2, <1>3, <1>4, ServerMainOK, MonitorOK DEF Next

LEMMA Invariance == Spec => []IInv
BY InitOK, NextOK, PTL DEF Spec

(* Everything has its type: the loops of the server stay within its list. *)
THEOREM TypeCorrect == Spec => []TypeOK
<1>1. IInv => TypeOK
  BY DEF IInv, Types, TypeOK, ToServer, ToMonitor
<1> QED
  BY <1>1, Invariance, PTL

(* The messages of the handshake are never read together with another one, until
   the server stops: neither side frames its messages, and neither has to. *)
THEOREM HandshakesAlone == Spec => []HandshakeAlone
<1>1. IInv => HandshakeAlone
  BY DEF IInv, Batches, HandshakeAlone, Stopping, Gone
<1> QED
  BY <1>1, Invariance, PTL

(* Who is ordered to set its link up has been through the whole handshake, and has
   been accepted once. *)
THEOREM OrdersLate == Spec => []OrdersAfterHandshake
<1>1. ASSUME IInv PROVE OrdersAfterHandshake
  <2>1. \A k \in Monitors : Has(toMon[k], "Set Link Up") => mpc[k] \in Past
    BY <1>1 DEF IInv, Ordered
  <2>2. \A k \in Monitors : Has(toMon[k], "Set Link Up") => k \in ToSet(client_sockets)
    BY <1>1, Singles DEF IInv, NothingEarly
  <2>3. IsInjective(client_sockets)
    BY <1>1 DEF IInv, ConnectedOnce
  <2> QED
    BY <2>1, <2>2, <2>3 DEF OrdersAfterHandshake, Has, Past
<1> QED
  BY <1>1, Invariance, PTL
=============================================================================
