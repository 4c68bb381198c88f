----------------------------- MODULE MCDispatch -----------------------------
(***************************************************************************)
(* Instances of Dispatch for TLC, and a statement of the repository about  *)
(* the dispatcher that its code does not keep.                             *)
(***************************************************************************)
EXTENDS Dispatch

(* server.cpp, line 61: Send "Quit" to all clients before shutdown.  A client
   that uses the server's queue when the server has sent its Quits ends. *)
QuitReachesAll ==
  \A c \in Clients :
    (mpc[Server] = "join" /\ Connected(c)) ~> (mpc[c] = "done")
=============================================================================
