---------------------------- MODULE MCTcpServer ----------------------------
(***************************************************************************)
(* Instances of TcpServer for TLC, and what the assignment says that the   *)
(* programs do but the code does not.                                      *)
(***************************************************************************)
EXTENDS TcpServer

(* UNX511 Lab 9.pdf: "The clients will interpret "Quit" to mean it is time to
   finish and they will shutdown as well."  A client that is sent "Quit" stops
   its main loop. *)
QuitInterpreted == \A c \in Clients : (c \in quit) ~> (~crun[c] /\ cpc[c] = "done")
=============================================================================
