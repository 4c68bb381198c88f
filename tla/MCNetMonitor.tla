---------------------------- MODULE MCNetMonitor ----------------------------
(***************************************************************************)
(* Instances of NetMonitor for TLC, and a statement of assignment2 that    *)
(* its code does not keep.                                                 *)
(***************************************************************************)
EXTENDS NetMonitor

(* Assignment2.docx: "If an interface goes down, the Interface Monitor alerts the
   Network Monitor, which then instructs it to bring the link back up."  An
   order that reaches a monitor that stays is carried out. *)
OrderObeyed ==
  \A k \in Monitors :
    ("Set Link Up" \in ToSet(toMon[k])) ~> (link[k] \/ ~Alive(k))
=============================================================================
