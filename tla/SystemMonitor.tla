---------------------------- MODULE SystemMonitor ----------------------------
(***************************************************************************)
(* Lab5b: the system monitor forks one interface monitor per interface,    *)
(* sends them SIGUSR1 to start and SIGUSR2 to stop, 30 seconds apart, and  *)
(* waits for them all.                                                     *)
(*                                                                         *)
(* The interface monitor of the repository has its handlers and its wait   *)
(* for SIGUSR1 still to be written: it ends by itself, and a signal that   *)
(* comes first ends it.  The sleeps of the parent only take time.          *)
(***************************************************************************)
EXTENDS Integers

CONSTANTS
  NUM,          \* 2 in the code
  ForkFaults    \* TRUE: fork may fail

MonitorAssumption == NUM \in Nat \ {0} /\ ForkFaults \in BOOLEAN

VARIABLES
  mpc,          \* where the parent is
  mi,           \* its loop index
  kid,          \* kid[k]: the k-th child
  stray         \* a signal has gone to a process that is no child left to reap

vars == <<mpc, mi, kid, stray>>

Kids == 1 .. NUM
Alive == {k \in Kids : kid[k] \in {"forked", "monitor"}}
Unreaped == {k \in Kids : kid[k] \in {"forked", "monitor", "zombie"}}

Init ==
  /\ mpc = "fork"
  /\ mi = 1
  /\ kid = [k \in Kids |-> "none"]
  /\ stray = FALSE

-----------------------------------------------------------------------------
(* The parent.                                                             *)

NextIndex(here, next) ==
  IF mi < NUM THEN mi' = mi + 1 /\ mpc' = here ELSE mi' = 1 /\ mpc' = next

Fork ==
  /\ mpc = "fork"
  /\ \/ kid' = [kid EXCEPT ![mi] = "forked"]
     \/ ForkFaults /\ kid' = [kid EXCEPT ![mi] = "failed"]
  /\ NextIndex("fork", "start")
  /\ UNCHANGED stray

(* kill(childPid[mi], sig): the default action of both signals ends a child that
   is still there.  The -1 of a failed fork stands for everybody. *)
Target == IF kid[mi] = "failed" THEN Alive ELSE Alive \intersect {mi}

(* Mutant: the children are reaped one after the other as they are stopped. *)
SignalAndReap(here, next) ==
  /\ mpc = here
  /\ kid' = [k \in Kids |-> IF k \in Target \/ kid[k] = "zombie" THEN "reaped" ELSE kid[k]]
  /\ stray' = (stray \/ mi \notin Unreaped)
  /\ NextIndex(here, next)

Signal(here, next) ==
  /\ mpc = here
  /\ kid' = [k \in Kids |-> IF k \in Target THEN "zombie" ELSE kid[k]]
  /\ stray' = (stray \/ mi \notin Unreaped)
  /\ NextIndex(here, next)

Wait ==
  /\ mpc = "wait"
  /\ \/ /\ Unreaped = {}
        /\ mpc' = "done"
        /\ UNCHANGED kid
     \/ \E k \in Unreaped :
          /\ kid[k] = "zombie"
          /\ kid' = [kid EXCEPT ![k] = "reaped"]
          /\ UNCHANGED mpc
  /\ UNCHANGED <<mi, stray>>

ParentStep == Fork \/ Signal("start", "stop") \/ Signal("stop", "wait") \/ Wait

-----------------------------------------------------------------------------
(* A child: execlp, and when that fails the rest of main.                  *)

Exec(k) ==
  /\ kid[k] = "forked"
  /\ kid' = [kid EXCEPT ![k] = "monitor"]
  /\ UNCHANGED <<mpc, mi, stray>>

End(k) ==
  /\ kid[k] \in {"forked", "monitor"}
  /\ kid' = [kid EXCEPT ![k] = "zombie"]
  /\ UNCHANGED <<mpc, mi, stray>>

Child(k) == Exec(k) \/ End(k)

Next == ParentStep \/ \E k \in Kids : Child(k)

Spec == Init /\ [][Next]_vars

(* The kernel runs parent and children. *)
Fairness == WF_vars(ParentStep) /\ \A k \in Kids : WF_vars(End(k))

FairSpec == Spec /\ Fairness

-----------------------------------------------------------------------------
(* Properties.                                                             *)

TypeOK ==
  /\ mpc \in {"fork", "start", "stop", "wait", "done"}
  /\ mi \in Kids
  /\ kid \in [Kids -> {"none", "failed", "forked", "monitor", "zombie", "reaped"}]
  /\ stray \in BOOLEAN

(* The parent signals only children that it has not reaped, whose pids nobody
   else can have got, unless a fork has failed; and it ends last. *)
OwnChildren ==
  /\ stray => \E k \in Kids : kid[k] = "failed"
  /\ mpc = "done" => Unreaped = {}

(* The parent ends, whichever children its signals reach and whether or not they
   have got as far as execlp. *)
Ended == mpc = "done"
MonitorEnds == <>Ended
=============================================================================
