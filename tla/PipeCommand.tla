----------------------------- MODULE PipeCommand -----------------------------
(***************************************************************************)
(* Lab7: the program runs two commands and sends the output of the first   *)
(* to the second through a pipe.                                           *)
(*                                                                         *)
(*   parent    makes the pipe, forks twice, closes both ends, waits twice  *)
(*   child k   puts its end on its stdin or stdout, closes both ends, and  *)
(*             becomes command k                                           *)
(*                                                                         *)
(* A descriptor is inherited by fork and closed by exit.  Command 1 sees   *)
(* SIGPIPE when nobody has a read end, and command 2 sees the end of file  *)
(* when nobody has a write end, whoever that may be.                       *)
(***************************************************************************)
EXTENDS Integers, FiniteSets

CONSTANTS
  PipeCap,      \* what fits in the pipe, 64 KiB in Linux
  MaxOut,       \* bound: what command 1 can write
  PipeFaults    \* TRUE: pipe and fork may fail

PipeAssumption == PipeCap \in Nat \ {0} /\ MaxOut \in Nat /\ PipeFaults \in BOOLEAN

Kids == {1, 2}
Parent == 0

VARIABLES
  ppc,          \* where the parent is
  kpc,          \* kpc[k]: where child k is
  fds,          \* fds[p]: p's descriptors of the pipe: its ends, stdin, stdout
  held,         \* what is in the pipe
  written,      \* what command 1 has written
  got,          \* what command 2 has read
  eof           \* command 2 has seen the end of its input

kids == <<kpc, fds>>
stream == <<held, written, got, eof>>
vars == <<ppc, kids, stream>>

ParentPC == {"args", "pipe", "fork1", "fork2", "closeR", "closeW", "wait1", "wait2", "done"}
KidPC == {"none", "failed", "dup", "closeOther", "closeOwn", "exec", "run", "zombie", "reaped"}

Init ==
  /\ ppc = "args"
  /\ kpc = [k \in Kids |-> "none"]
  /\ fds = [p \in {Parent} \union Kids |-> {}]
  /\ held = 0
  /\ written = 0
  /\ got = 0
  /\ eof = FALSE

ReadOpen == \E p \in DOMAIN fds : fds[p] \intersect {"r", "stdin"} # {}
WriteOpen == \E p \in DOMAIN fds : fds[p] \intersect {"w", "stdout"} # {}

Close(p, e) == fds' = [fds EXCEPT ![p] = @ \ {e}]

-----------------------------------------------------------------------------
(* The parent.                                                             *)

Args ==
  /\ ppc = "args"
  /\ ppc' \in {"pipe", "done"}
  /\ UNCHANGED <<kids, stream>>

MakePipe ==
  /\ ppc = "pipe"
  /\ \/ /\ fds' = [fds EXCEPT ![Parent] = {"r", "w"}]
        /\ ppc' = "fork1"
     \/ /\ PipeFaults
        /\ ppc' = "done"
        /\ UNCHANGED fds
  /\ UNCHANGED <<kpc, stream>>

(* A failed fork is not noticed: its -1 is kept as a pid. *)
Fork(k, here, next) ==
  /\ ppc = here
  /\ ppc' = next
  /\ \/ /\ kpc' = [kpc EXCEPT ![k] = "dup"]
        /\ fds' = [fds EXCEPT ![k] = fds[Parent]]
     \/ /\ PipeFaults
        /\ kpc' = [kpc EXCEPT ![k] = "failed"]
        /\ UNCHANGED fds
  /\ UNCHANGED stream

(* Mutant: the parent keeps its read end. *)
ParentKeepsRead ==
  /\ ppc = "closeR"
  /\ ppc' = "closeW"
  /\ UNCHANGED <<kids, stream>>

ParentCloseRead ==
  /\ ppc = "closeR"
  /\ ppc' = "closeW"
  /\ Close(Parent, "r")
  /\ UNCHANGED <<kpc, stream>>

ParentCloseWrite ==
  /\ ppc = "closeW"
  /\ ppc' = "wait1"
  /\ Close(Parent, "w")
  /\ UNCHANGED <<kpc, stream>>

Left == {k \in Kids : kpc[k] \notin {"none", "failed", "reaped"}}

(* waitpid: of child k, or of any child where the pid is -1; it returns at once
   when there is no such child. *)
Awaited(k) == IF kpc[k] = "failed" THEN Left ELSE Left \intersect {k}

Wait(k, here, next) ==
  /\ ppc = here
  /\ ppc' = next
  /\ \/ /\ Awaited(k) = {}
        /\ UNCHANGED kpc
     \/ \E j \in Awaited(k) :
          /\ kpc[j] = "zombie"
          /\ kpc' = [kpc EXCEPT ![j] = "reaped"]
  /\ UNCHANGED <<fds, stream>>

ParentStep ==
  \/ Args \/ MakePipe
  \/ Fork(1, "fork1", "fork2") \/ Fork(2, "fork2", "closeR")
  \/ ParentCloseRead \/ ParentCloseWrite
  \/ Wait(1, "wait1", "wait2") \/ Wait(2, "wait2", "done")

-----------------------------------------------------------------------------
(* The children up to execvp.                                              *)

Own(k) == IF k = 1 THEN "w" ELSE "r"
Other(k) == IF k = 1 THEN "r" ELSE "w"
Std(k) == IF k = 1 THEN "stdout" ELSE "stdin"

(* exit, or a signal: all descriptors are closed. *)
Exit(k) ==
  /\ kpc' = [kpc EXCEPT ![k] = "zombie"]
  /\ fds' = [fds EXCEPT ![k] = {}]

(* Mutant: nothing is put on its stdout or stdin. *)
DupNothing(k) ==
  /\ kpc[k] = "dup"
  /\ kpc' = [kpc EXCEPT ![k] = "closeOther"]
  /\ UNCHANGED <<ppc, fds, stream>>

Dup(k) ==
  /\ kpc[k] = "dup"
  /\ kpc' = [kpc EXCEPT ![k] = "closeOther"]
  /\ fds' = [fds EXCEPT ![k] = @ \union {Std(k)}]
  /\ UNCHANGED <<ppc, stream>>

KidCloseOther(k) ==
  /\ kpc[k] = "closeOther"
  /\ kpc' = [kpc EXCEPT ![k] = "closeOwn"]
  /\ Close(k, Other(k))
  /\ UNCHANGED <<ppc, stream>>

KidCloseOwn(k) ==
  /\ kpc[k] = "closeOwn"
  /\ kpc' = [kpc EXCEPT ![k] = "exec"]
  /\ Close(k, Own(k))
  /\ UNCHANGED <<ppc, stream>>

Exec(k) ==
  /\ kpc[k] = "exec"
  /\ \/ /\ kpc' = [kpc EXCEPT ![k] = "run"]
        /\ UNCHANGED fds
     \/ Exit(k)
  /\ UNCHANGED <<ppc, stream>>

-----------------------------------------------------------------------------
(* The commands: the first writes what it likes, the second reads what it  *)
(* likes, and they end when they like, or when their end of the pipe says so. *)

WriteOut ==
  /\ kpc[1] = "run"
  /\ written < MaxOut
  /\ \/ /\ ReadOpen
        /\ held < PipeCap
        /\ held' = held + 1
        /\ written' = written + 1
        /\ UNCHANGED <<kids, got, eof>>
     \/ /\ ~ReadOpen                                            \* SIGPIPE
        /\ Exit(1)
        /\ UNCHANGED stream
  /\ UNCHANGED ppc

ReadIn ==
  /\ kpc[2] = "run"
  /\ ~eof
  /\ \/ /\ held > 0
        /\ held' = held - 1
        /\ got' = got + 1
        /\ UNCHANGED eof
     \/ /\ held = 0
        /\ ~WriteOpen
        /\ eof' = TRUE
        /\ UNCHANGED <<held, got>>
  /\ UNCHANGED <<ppc, kids, written>>

(* Command 1 does not end while it is in write, nor command 2 in read. *)
BlockedOut == written < MaxOut /\ ReadOpen /\ held >= PipeCap
BlockedIn == ~eof /\ held = 0 /\ WriteOpen

CommandEnds(k) ==
  /\ kpc[k] = "run"
  /\ IF k = 1 THEN ~BlockedOut ELSE ~BlockedIn
  /\ Exit(k)
  /\ UNCHANGED <<ppc, stream>>

KidStep(k) ==
  \/ Dup(k) \/ KidCloseOther(k) \/ KidCloseOwn(k) \/ Exec(k)
  \/ CommandEnds(k)
  \/ k = 1 /\ WriteOut
  \/ k = 2 /\ ReadIn

(* The program stops when it has ended. *)
Next == ParentStep \/ \E k \in Kids : KidStep(k)

Spec == Init /\ [][Next]_vars

(* The kernel runs all three processes. *)
Fairness == WF_vars(ParentStep) /\ \A k \in Kids : WF_vars(KidStep(k))

FairSpec == Spec /\ Fairness

-----------------------------------------------------------------------------
(* Properties.                                                             *)

TypeOK ==
  /\ ppc \in ParentPC
  /\ kpc \in [Kids -> KidPC]
  /\ fds \in [{Parent} \union Kids -> SUBSET {"r", "w", "stdin", "stdout"}]
  /\ held \in 0 .. PipeCap
  /\ written \in 0 .. MaxOut
  /\ got \in Nat
  /\ eof \in BOOLEAN

(* The end of its input means to command 2 that it has read all that command 1
   has written or ever will: no end of file comes before command 1 has even
   started, or while it still runs, however the two forks, the closes and the
   start of the commands fall. *)
WholeOutput ==
  /\ got + held = written
  /\ eof => got = written /\ kpc[1] \in {"failed", "zombie", "reaped"}

(* When the program returns, no child of it runs or waits to be reaped, whether
   or not a fork has failed. *)
NoneLeft == ppc = "done" => Left = {}

(* No order of the closes and of the commands' reads, writes and ends leaves the
   program hanging: nobody waits for the end of a file that a forgotten
   descriptor keeps open, or for room in a pipe that nobody reads. *)
Ended == ppc = "done"
PipeEnds == <>Ended
=============================================================================
