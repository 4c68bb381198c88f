----------------------------- MODULE LabSession -----------------------------
(***************************************************************************)
(* The small programs, one in each behaviour: they share nothing, and so   *)
(* their state spaces are put side by side instead of multiplied.  lab is  *)
(* the program that is run; the variables of the others keep their initial *)
(* values.  The properties of all of them are checked in every behaviour,  *)
(* and those of a program that is not run have nothing to say there.       *)
(***************************************************************************)
EXTENDS SharedMem

CONSTANTS
  PipeCap, MaxOut,                          \* Lab7
  Servers, Callers, Nobody, Killable,       \* Lab6
  BufLen, Letters, Reads, Users,            \* Lab5
  NumWorkers, MaxBlocks,                    \* assignment1
  NUM                                       \* Lab5b

VARIABLES
  lab,
  ppc, kpc, fds, held, written, got, eof,
  path, spc, backlog, conn, cpc, peer, heard, told, toClient, toServer,
  state, node, apc, running, is_halt, buffer, tpc, ti, upc, off, reads, copied, quiet,
  fpc, n, interrupted, pending, frames, lock, logged, lost, dropped, wpc, blocks, big,
  orphan, completed,
  mpc, mi, kid, stray,
  lpc, car, track, isRunning, tank, said

Pipe == INSTANCE PipeCommand WITH PipeFaults <- Faults
Lock == INSTANCE LockStep WITH Clients <- Callers
Device == INSTANCE HardwareDevice WITH DevFaults <- Faults, is_running <- running
Files == INSTANCE ParallelFile WITH FileFaults <- Faults, ppc <- fpc
Monitor == INSTANCE SystemMonitor WITH ForkFaults <- Faults
Laps == INSTANCE TravelLaps

(* What each module asks of its constants. *)
ASSUME LabAssumption ==
  /\ Pipe!PipeAssumption /\ Lock!LockAssumption /\ Device!DeviceAssumption
  /\ Files!FilesAssumption /\ Monitor!MonitorAssumption

pipe == <<ppc, kpc, fds, held, written, got, eof>>
lockstep == <<path, spc, backlog, conn, cpc, peer, heard, told, toClient, toServer>>
device == <<state, node, apc, running, is_halt, buffer, tpc, ti, upc, off, reads, copied,
            quiet>>
files == <<fpc, n, interrupted, pending, frames, lock, logged, lost, dropped, wpc, blocks,
           big, orphan, completed>>
monitor == <<mpc, mi, kid, stray>>
laps == <<lpc, car, track, isRunning, tank, said>>
all == <<lab, vars, pipe, lockstep, device, files, monitor, laps>>

LabInit ==
  /\ lab \in {"Lab10", "Lab7", "Lab6", "Lab5", "assignment1", "Lab5b",
             "Assignment3"}
  /\ Init
  /\ Pipe!Init
  /\ Lock!Init
  /\ Device!Init
  /\ Files!Init
  /\ Monitor!Init
  /\ Laps!Init

(* What a step of the program that is run leaves alone. *)
Only10 ==
  /\ lab = "Lab10"
  /\ UNCHANGED <<lab, pipe, lockstep, device, files, monitor, laps>>
Only7 ==
  /\ lab = "Lab7"
  /\ UNCHANGED <<lab, vars, lockstep, device, files, monitor, laps>>
Only6 ==
  /\ lab = "Lab6"
  /\ UNCHANGED <<lab, vars, pipe, device, files, monitor, laps>>
Only5 ==
  /\ lab = "Lab5"
  /\ UNCHANGED <<lab, vars, pipe, lockstep, files, monitor, laps>>
Only1 ==
  /\ lab = "assignment1"
  /\ UNCHANGED <<lab, vars, pipe, lockstep, device, monitor, laps>>
Only5b ==
  /\ lab = "Lab5b"
  /\ UNCHANGED <<lab, vars, pipe, lockstep, device, files, laps>>
OnlyLaps ==
  /\ lab = "Assignment3"
  /\ UNCHANGED <<lab, vars, pipe, lockstep, device, files, monitor>>

LabNext ==
  \/ Only10 /\ Next
  \/ Only7 /\ Pipe!Next
  \/ Only6 /\ Lock!Next
  \/ Only5 /\ Device!Next
  \/ Only1 /\ Files!Next
  \/ Only5b /\ Monitor!Next
  \/ OnlyLaps /\ Laps!Next

(* The fairness that each module states for its program, while that is run. *)
LabFairness ==
  /\ WF_all(Only7 /\ Pipe!ParentStep)
  /\ \A k \in {1, 2} : WF_all(Only7 /\ Pipe!KidStep(k))
  /\ \A s \in Servers : WF_all(Only6 /\ Lock!ServerStep(s))
  /\ \A c \in Callers : WF_all(Only6 /\ Lock!ClientStep(c))
  /\ WF_all(Only1 /\ Files!Main) /\ WF_all(Only1 /\ Files!Handler)
  /\ \A w \in 1 .. NumWorkers : WF_all(Only1 /\ Files!Worker(w))
  /\ WF_all(Only5b /\ Monitor!ParentStep)
  /\ \A k \in 1 .. NUM : WF_all(Only5b /\ Monitor!End(k))
  /\ WF_all(Only5 /\ Device!Thread) /\ WF_all(Only5 /\ (Device!Unhalt \/ Device!Free))
  /\ \A u \in Users : WF_all(Only5 /\ Device!User(u))

LabSpec == LabInit /\ [][LabNext]_all /\ LabFairness

-----------------------------------------------------------------------------
(* The properties of the modules, each stated and explained there.         *)

(* The variables of every program have their types. *)
LabTypes ==
  /\ TypeOK
  /\ Pipe!TypeOK /\ Lock!TypeOK /\ Device!TypeOK /\ Files!TypeOK /\ Monitor!TypeOK
  /\ Laps!TypeOK

(* Lab7: the end of its input tells command 2 that command 1 has ended and that
   everything it wrote has been read. *)
WholeOutput == Pipe!WholeOutput

(* Lab7, assignment1 and Lab5b: whatever the children, the forks, the signals and
   the lock do, the parent gets through its waits and ends. *)
ParentsEnd ==
  <>[](/\ lab = "Lab7" => Pipe!Ended
       /\ lab = "assignment1" => Files!Ended
       /\ lab = "Lab5b" => Monitor!Ended)

(* Lab6: one text at a time is under way, and each is answered once, in order. *)
LockStepOrder == Lock!LockStepOrder

(* Lab6: who has been connected ends. *)
LockStepEnds == Lock!LockStepEnds

(* Lab5: a read while the thread is parked gets a buffer that no sweep is in. *)
QuietReadWhole == Device!QuietReadWhole

(* Lab5: HALT stops the sweeps, RESUME starts them, and unloading does neither. *)
HaltParks == Device!HaltParks

(* assignment1: each completion is logged once, unless its signal met a pending
   one or the logger could not open, lock or write the file. *)
Accounted == Files!Accounted

(* assignment1: entries are written under the lock, but for a handler that the
   other one has interrupted between its lock and its write. *)
WriteLocked == Files!WriteLocked

(* Lab7, assignment1 and Lab5b: a parent that ends leaves no child behind; that
   of assignment1, at most as many as handlers have interrupted its waits. *)
ParentsLast == Pipe!NoneLeft /\ Files!LeftBehind /\ Monitor!OwnChildren
=============================================================================
