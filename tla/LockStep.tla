------------------------------- MODULE LockStep -------------------------------
(***************************************************************************)
(* Lab6: a server sends "Pid", "Sleep" and "Quit" to one client through a  *)
(* Unix stream socket and waits for the answers to the first two.          *)
(*                                                                         *)
(* The server's socket has a path.  A server that starts takes the path    *)
(* away from an older one, and one that ends unlinks it, whosever it is.   *)
(* A stream has no message boundaries: a read takes all that has arrived,  *)
(* and a client compares that as a whole with the three texts.             *)
(***************************************************************************)
EXTENDS Integers, Sequences

CONSTANTS
  Servers,      \* the runs of the server
  Clients,      \* the runs of the client
  Nobody,       \* neither
  Killable      \* those that may be killed

VARIABLES
  path,         \* the server whose socket the path names
  spc,          \* where server s is
  backlog,      \* backlog[s]: the clients that wait for its accept
  conn,         \* conn[s]: the client that it has accepted
  cpc,          \* where client c is
  peer,         \* peer[c]: the server it is connected to
  heard,        \* heard[c]: what its last read has got
  told,         \* told[c]: the texts that it has answered
  toClient,     \* toClient[c]: what is under way to it
  toServer      \* toServer[c]: what is under way from it

LockAssumption == Nobody \notin Servers \union Clients

server == <<path, spc, backlog, conn>>
client == <<cpc, peer, heard, told>>
socket == <<toClient, toServer>>
vars == <<server, client, socket>>

ServerPC == {"off", "bind", "listen", "accept", "Pid", "readPid", "Sleep", "readDone",
             "Quit", "close", "unlink", "done"}
ClientPC == {"off", "read", "handle", "sleep", "close", "done"}
Request == {"Pid", "Sleep", "Quit"}

Init ==
  /\ path = Nobody
  /\ spc = [s \in Servers |-> "off"]
  /\ backlog = [s \in Servers |-> <<>>]
  /\ conn = [s \in Servers |-> Nobody]
  /\ cpc = [c \in Clients |-> "off"]
  /\ peer = [c \in Clients |-> Nobody]
  /\ heard = [c \in Clients |-> <<>>]
  /\ told = [c \in Clients |-> <<>>]
  /\ toClient = [c \in Clients |-> <<>>]
  /\ toServer = [c \in Clients |-> <<>>]

SGoto(s, l) == spc' = [spc EXCEPT ![s] = l]
CGoto(c, l) == cpc' = [cpc EXCEPT ![c] = l]
COpen(c) == cpc[c] \in ClientPC \ {"off", "done"}

(* Is the server's end of c's connection open, be it accepted or not? *)
Waits(c, s) == \E i \in DOMAIN backlog[s] : backlog[s][i] = c
SOpen(c) == \E s \in Servers : conn[s] = c \/ Waits(c, s)

-----------------------------------------------------------------------------
(* The server.                                                             *)

(* The server ends: its sockets are closed, accepted or not. *)
ServerGone(s) ==
  /\ SGoto(s, "done")
  /\ backlog' = [backlog EXCEPT ![s] = <<>>]
  /\ conn' = [conn EXCEPT ![s] = Nobody]

Unlink(s) ==
  /\ spc[s] = "off"
  /\ path' = Nobody
  /\ SGoto(s, "bind")
  /\ UNCHANGED <<backlog, conn, client, socket>>

(* bind fails when the path has come back since. *)
Bind(s) ==
  /\ spc[s] = "bind"
  /\ IF path = Nobody
     THEN path' = s /\ SGoto(s, "listen")
     ELSE SGoto(s, "done") /\ UNCHANGED path
  /\ UNCHANGED <<backlog, conn, client, socket>>

Listen(s) ==
  /\ spc[s] = "listen"
  /\ SGoto(s, "accept")
  /\ UNCHANGED <<path, backlog, conn, client, socket>>

Accept(s) ==
  /\ spc[s] = "accept"
  /\ backlog[s] # <<>>
  /\ conn' = [conn EXCEPT ![s] = Head(backlog[s])]
  /\ backlog' = [backlog EXCEPT ![s] = Tail(@)]
  /\ SGoto(s, "Pid")
  /\ UNCHANGED <<path, client, socket>>

(* write; one to a client that has closed is SIGPIPE. *)
Send(s, text, next) ==
  /\ spc[s] = text
  /\ IF COpen(conn[s])
     THEN /\ toClient' = [toClient EXCEPT ![conn[s]] = Append(@, text)]
          /\ SGoto(s, next)
          /\ UNCHANGED <<backlog, conn>>
     ELSE /\ ServerGone(s)
          /\ UNCHANGED toClient
  /\ UNCHANGED <<path, client, toServer>>

(* Mutant: without waiting. *)
ReadAtOnce(s, here, next) ==
  /\ spc[s] = here
  /\ toServer' = [toServer EXCEPT ![conn[s]] = <<>>]
  /\ SGoto(s, next)
  /\ UNCHANGED <<path, backlog, conn, client, toClient>>

(* Mutant: until there is an answer, even if there can be none. *)
ReadInsists(s, here, next) ==
  /\ spc[s] = here
  /\ toServer[conn[s]] # <<>>
  /\ toServer' = [toServer EXCEPT ![conn[s]] = <<>>]
  /\ SGoto(s, next)
  /\ UNCHANGED <<path, backlog, conn, client, toClient>>

(* read; what it gets, and whether it gets anything, is only printed. *)
Read(s, here, next) ==
  /\ spc[s] = here
  /\ toServer[conn[s]] # <<>> \/ ~COpen(conn[s])
  /\ toServer' = [toServer EXCEPT ![conn[s]] = <<>>]
  /\ SGoto(s, next)
  /\ UNCHANGED <<path, backlog, conn, client, toClient>>

CloseBoth(s) ==
  /\ spc[s] = "close"
  /\ SGoto(s, "unlink")
  /\ backlog' = [backlog EXCEPT ![s] = <<>>]
  /\ conn' = [conn EXCEPT ![s] = Nobody]
  /\ UNCHANGED <<path, client, socket>>

(* The path goes, even if it is another server's by now. *)
UnlinkAgain(s) ==
  /\ spc[s] = "unlink"
  /\ path' = Nobody
  /\ SGoto(s, "done")
  /\ UNCHANGED <<backlog, conn, client, socket>>

ServerStep(s) ==
  \/ Bind(s) \/ Listen(s) \/ Accept(s)
  \/ Send(s, "Pid", "readPid") \/ Read(s, "readPid", "Sleep")
  \/ Send(s, "Sleep", "readDone") \/ Read(s, "readDone", "Quit")
  \/ Send(s, "Quit", "close")
  \/ CloseBoth(s) \/ UnlinkAgain(s)

-----------------------------------------------------------------------------
(* The client.                                                             *)

(* connect succeeds as soon as the server listens, before it accepts. *)
Connect(c) ==
  /\ cpc[c] = "off"
  /\ IF path # Nobody /\ spc[path] \in ServerPC \ {"off", "bind", "listen", "unlink", "done"}
     THEN /\ backlog' = [backlog EXCEPT ![path] = Append(@, c)]
          /\ peer' = [peer EXCEPT ![c] = path]
          /\ CGoto(c, "read")
     ELSE /\ CGoto(c, "done")
          /\ UNCHANGED <<backlog, peer>>
  /\ UNCHANGED <<path, spc, conn, heard, told, socket>>

(* A read blocks until something has come or the server's end is closed. *)
ClientRead(c) ==
  /\ cpc[c] = "read"
  /\ toClient[c] # <<>> \/ ~SOpen(c)
  /\ heard' = [heard EXCEPT ![c] = toClient[c]]
  /\ toClient' = [toClient EXCEPT ![c] = <<>>]
  /\ CGoto(c, IF toClient[c] = <<>> THEN "close" ELSE "handle")
  /\ UNCHANGED <<server, peer, told, toServer>>

(* An answer to a server that has closed is SIGPIPE. *)
Answer(c, request, text) ==
  IF SOpen(c)
  THEN /\ toServer' = [toServer EXCEPT ![c] = Append(@, text)]
       /\ told' = [told EXCEPT ![c] = Append(@, request)]
       /\ CGoto(c, "read")
  ELSE /\ CGoto(c, "done")
       /\ UNCHANGED <<toServer, told>>

(* What matches none of the texts is printed, and that is all. *)
Handle(c) ==
  /\ cpc[c] = "handle"
  /\ IF heard[c] = <<"Pid">>
     THEN Answer(c, "Pid", "pid")
     ELSE /\ CGoto(c, CASE heard[c] = <<"Sleep">> -> "sleep"
                        [] heard[c] = <<"Quit">> -> "close"
                        [] OTHER -> "read")
          /\ UNCHANGED <<told, toServer>>
  /\ UNCHANGED <<server, peer, heard, toClient>>

Done(c) ==
  /\ cpc[c] = "sleep"
  /\ Answer(c, "Sleep", "Done")
  /\ UNCHANGED <<server, peer, heard, toClient>>

ClientClose(c) ==
  /\ cpc[c] = "close"
  /\ CGoto(c, "done")
  /\ UNCHANGED <<server, peer, heard, told, socket>>

ClientStep(c) == ClientRead(c) \/ Handle(c) \/ Done(c) \/ ClientClose(c)

-----------------------------------------------------------------------------

KillServer(s) ==
  /\ s \in Killable
  /\ spc[s] \notin {"off", "done"}
  /\ ServerGone(s)
  /\ UNCHANGED <<path, client, socket>>

KillClient(c) ==
  /\ c \in Killable
  /\ COpen(c)
  /\ CGoto(c, "done")
  /\ UNCHANGED <<server, peer, heard, told, socket>>

(* Everybody may have ended, or wait for a client. *)
Next ==
  \/ \E s \in Servers : Unlink(s) \/ ServerStep(s) \/ KillServer(s)
  \/ \E c \in Clients : Connect(c) \/ ClientStep(c) \/ KillClient(c)

Spec == Init /\ [][Next]_vars

(* What has been started is run.  Nobody needs to start or to kill anything. *)
Fairness ==
  /\ \A s \in Servers : WF_vars(ServerStep(s))
  /\ \A c \in Clients : WF_vars(ClientStep(c))

FairSpec == Spec /\ Fairness

-----------------------------------------------------------------------------
(* Properties.                                                             *)

TypeOK ==
  /\ path \in Servers \union {Nobody}
  /\ spc \in [Servers -> ServerPC]
  /\ \A s \in Servers : backlog[s] \in Seq(Clients)
  /\ conn \in [Servers -> Clients \union {Nobody}]
  /\ cpc \in [Clients -> ClientPC]
  /\ peer \in [Clients -> Servers \union {Nobody}]
  /\ \A c \in Clients :
       /\ heard[c] \in Seq(Request)
       /\ told[c] \in Seq(Request)
       /\ toClient[c] \in Seq(Request)
       /\ toServer[c] \in Seq({"pid", "Done"})

(* Between a server and a client that both live at most one text is under way or
   being answered: the server sends nothing before it has the answer, so two
   texts never arrive as one, and the client's comparisons see whole texts. *)
Handling(c) == IF cpc[c] \in {"handle", "sleep"} THEN 1 ELSE 0
OneUnderWay ==
  \A s \in Servers : \A c \in Clients :
    conn[s] = c /\ COpen(c) =>
      Len(toClient[c]) + Len(toServer[c]) + Handling(c) <= 1

(* A client that is about to obey "Quit" has answered "Pid" and "Sleep", in this
   order and once each, and no client answers anything else, whatever the other
   clients and servers at the path do. *)
InOrder ==
  \A c \in Clients :
    /\ told[c] \in {<<>>, <<"Pid">>, <<"Pid", "Sleep">>}
    /\ cpc[c] = "handle" /\ heard[c] = <<"Quit">> => told[c] = <<"Pid", "Sleep">>

LockStepOrder == OneUnderWay /\ InOrder

(* A server that has accepted a client ends, and a client that has connected
   ends when its server has ended, in whatever state and for whatever reason:
   also a client that was never accepted, one whose server's path another
   server has taken, and a server whose client has been killed. *)
LockStepEnds ==
  <>[] \A s \in Servers :
         /\ conn[s] = Nobody
         /\ \A c \in Clients : peer[c] = s /\ spc[s] = "done" => cpc[c] = "done"
=============================================================================
