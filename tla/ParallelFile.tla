----------------------------- MODULE ParallelFile -----------------------------
(***************************************************************************)
(* assignment1: a parent forks workers, which read a file each and tell it *)
(* by SIGUSR1 that they use much memory and by SIGUSR2 that they are done. *)
(* The parent's handler writes an entry for each signal to syslog.log,     *)
(* and its main waits once per worker.                                     *)
(*                                                                         *)
(* A second signal of a number that is pending already is lost.  While the *)
(* handler of one number runs, the other one may interrupt it.  A handler  *)
(* interrupts wait, whose result main does not look at.  The lock on the   *)
(* log belongs to the process, not to the handler: what the inner handler  *)
(* unlocks or closes, the outer one has lost.                              *)
(*                                                                         *)
(* A second run of the program in the same directory is modelled by what   *)
(* it does to the lock.                                                    *)
(***************************************************************************)
EXTENDS Integers, Sequences, FiniteSets

CONSTANTS
  NumWorkers,   \* 3 in the code
  MaxBlocks,    \* bound: the blocks of a file
  FileFaults    \* TRUE: fork, open, fopen and write may fail

FilesAssumption ==
  /\ NumWorkers \in Nat
  /\ MaxBlocks \in Nat
  /\ FileFaults \in BOOLEAN

Workers == 1 .. NumWorkers
Signals == {"USR1", "USR2"}
NoWorker == 0

VARIABLES
  ppc,          \* where the parent's main is
  n,            \* its loop index
  interrupted,  \* how many of its waits a handler has interrupted
  pending,      \* pending[sig]: the worker whose signal is pending
  frames,       \* the handlers that run, the innermost last
  lock,         \* who has the lock: "free", "own", "other"
  logged,       \* logged[w]: the entries that say that w is done
  lost,         \* the workers whose SIGUSR2 met a pending one
  dropped,      \* the workers whose entry the logger could not open the
                \* log for, lock it for or write
  wpc,          \* where worker w is
  blocks,       \* how many blocks it has read
  big,          \* its memory is above the limit
  orphan,       \* its parent was gone when it called getppid
  completed     \* the workers that have read their file to its end

main == <<ppc, n, interrupted>>
handler == <<pending, frames>>
record == <<logged, dropped>>
worker == <<wpc, blocks, big, orphan, completed>>
vars == <<main, handler, lock, lost, record, worker>>

Init ==
  /\ ppc = "fork"
  /\ n = 0
  /\ interrupted = 0
  /\ pending = [sig \in Signals |-> NoWorker]
  /\ frames = <<>>
  /\ lock = "free"
  /\ logged = [w \in Workers |-> 0]
  /\ lost = {}
  /\ dropped = {}
  /\ wpc = [w \in Workers |-> "none"]
  /\ blocks = [w \in Workers |-> 0]
  /\ big = [w \in Workers |-> FALSE]
  /\ orphan = [w \in Workers |-> FALSE]
  /\ completed = {}

WGoto(w, l) == wpc' = [wpc EXCEPT ![w] = l]

-----------------------------------------------------------------------------
(* The parent's main.  It goes on when no handler runs; what is pending when  *)
(* fork begins or wait returns is handled first.                              *)

Settled == frames = <<>> /\ \A sig \in Signals : pending[sig] = NoWorker

Fork ==
  /\ ppc = "fork"
  /\ Settled
  /\ IF n < NumWorkers
     THEN /\ n' = n + 1
          /\ \/ WGoto(n + 1, "start")
             \/ FileFaults /\ WGoto(n + 1, "failed")
          /\ UNCHANGED ppc
     ELSE /\ n' = 0
          /\ ppc' = "loop"
          /\ UNCHANGED wpc
  /\ UNCHANGED <<interrupted, handler, lock, lost, record, blocks, big, orphan, completed>>

(* Mutant: one wait too few. *)
LoopOneLess ==
  /\ ppc = "loop"
  /\ frames = <<>>
  /\ ppc' = IF n + 1 < NumWorkers THEN "wait" ELSE "done"
  /\ UNCHANGED <<n, interrupted, handler, lock, lost, record, worker>>

Loop ==
  /\ ppc = "loop"
  /\ frames = <<>>
  /\ ppc' = IF n < NumWorkers THEN "wait" ELSE "done"
  /\ UNCHANGED <<n, interrupted, handler, lock, lost, record, worker>>

Left == {w \in Workers : wpc[w] \notin {"none", "failed", "reaped"}}

(* wait: any child that has ended, or an error when there are no children. *)
Wait ==
  /\ ppc = "wait"
  /\ \/ \E w \in Workers : wpc[w] = "zombie" /\ WGoto(w, "reaped")
     \/ Left = {} /\ UNCHANGED wpc
  /\ n' = n + 1
  /\ ppc' = "ret"
  /\ UNCHANGED <<interrupted, handler, lock, lost, record, blocks, big, orphan, completed>>

Return ==
  /\ ppc = "ret"
  /\ Settled
  /\ ppc' = "loop"
  /\ UNCHANGED <<n, interrupted, handler, lock, lost, record, worker>>

Main == Fork \/ Loop \/ Wait \/ Return

-----------------------------------------------------------------------------
(* ca_signal_handler and ca_log_event.                                     *)

Handled == {frames[i].sig : i \in DOMAIN frames}

(* The handler starts, on top of what runs, and ends a wait with EINTR. *)
Deliver(sig) ==
  /\ ppc # "done"
  /\ pending[sig] # NoWorker
  /\ sig \notin Handled
  /\ frames' = Append(frames, [sig |-> sig, src |-> pending[sig], at |-> "open", cut |-> FALSE])
  /\ pending' = [pending EXCEPT ![sig] = NoWorker]
  /\ IF ppc = "wait"
     THEN ppc' = "ret" /\ n' = n + 1 /\ interrupted' = interrupted + 1
     ELSE UNCHANGED main
  /\ UNCHANGED <<lock, lost, record, worker>>

Top == frames[Len(frames)]
At(l) == frames # <<>> /\ Top.at = l
Step(l) == frames' = [frames EXCEPT ![Len(frames)].at = l]

(* The innermost handler returns, and close gives up all locks of the process: it
   cuts a handler that it has interrupted between its lock and its write. *)
Leave ==
  /\ frames' = IF Len(frames) = 2
               THEN <<[frames[1] EXCEPT !.cut = @ \/ frames[1].at = "write"]>>
               ELSE <<>>
  /\ lock' = IF lock = "own" THEN "free" ELSE lock

Drop == dropped' = IF Top.sig = "USR2" THEN dropped \union {Top.src} ELSE dropped

OpenLog ==
  /\ At("open")
  /\ \/ /\ Step("lock")
        /\ UNCHANGED <<lock, dropped>>
     \/ /\ FileFaults
        /\ Drop
        /\ frames' = SubSeq(frames, 1, Len(frames) - 1)
        /\ UNCHANGED lock
  /\ UNCHANGED <<main, pending, lost, logged, worker>>

(* Mutant: the result is not looked at. *)
LockUnchecked ==
  /\ At("lock")
  /\ lock' = IF lock = "other" THEN lock ELSE "own"
  /\ Step("write")
  /\ UNCHANGED <<main, pending, lost, record, worker>>

(* F_SETLK does not wait, and does not mind a lock of the same process. *)
Lock ==
  /\ At("lock")
  /\ IF lock = "other"
     THEN Drop /\ Leave
     ELSE lock' = "own" /\ Step("write") /\ UNCHANGED dropped
  /\ UNCHANGED <<main, pending, lost, logged, worker>>

(* Nobody looks at the result of write: an entry that could not be written is lost
   without a word. *)
Write ==
  /\ At("write")
  /\ \/ /\ logged' = IF Top.sig = "USR2" THEN [logged EXCEPT ![Top.src] = @ + 1] ELSE logged
        /\ UNCHANGED dropped
     \/ /\ FileFaults
        /\ Drop
        /\ UNCHANGED logged
  /\ Step("unlock")
  /\ UNCHANGED <<main, pending, lock, lost, worker>>

(* F_UNLCK, and close. *)
Unlock ==
  /\ At("unlock")
  /\ Leave
  /\ UNCHANGED <<main, pending, lost, record, worker>>

Handler == (\E sig \in Signals : Deliver(sig)) \/ OpenLog \/ Lock \/ Write \/ Unlock

(* The other run of the program logs something. *)
OtherLock ==
  /\ \/ lock = "free" /\ lock' = "other"
     \/ lock = "other" /\ lock' = "free"
  /\ UNCHANGED <<main, handler, lost, record, worker>>

-----------------------------------------------------------------------------
(* The workers.                                                            *)

(* kill; nobody is there to notice when the parent is gone. *)
Kill(w, sig) ==
  IF orphan[w] \/ ppc = "done"
  THEN UNCHANGED <<pending, lost>>
  ELSE IF pending[sig] = NoWorker
       THEN pending' = [pending EXCEPT ![sig] = w] /\ UNCHANGED lost
       ELSE /\ lost' = IF sig = "USR2" THEN lost \union {w} ELSE lost
            /\ UNCHANGED pending

Start(w) ==
  /\ wpc[w] = "start"
  /\ orphan' = [orphan EXCEPT ![w] = (ppc = "done")]
  /\ WGoto(w, "read")
  /\ UNCHANGED <<main, handler, lock, lost, record, blocks, big, completed>>

(* The file, or /proc/self/status, cannot be opened: the worker ends at once. *)
Fail(w) ==
  /\ FileFaults
  /\ wpc[w] = "read"
  /\ WGoto(w, "zombie")
  /\ UNCHANGED <<main, handler, lock, lost, record, blocks, big, orphan, completed>>

(* What has been read is kept, so memory only grows. *)
ReadBlock(w) ==
  /\ wpc[w] = "read"
  /\ blocks[w] < MaxBlocks
  /\ blocks' = [blocks EXCEPT ![w] = @ + 1]
  /\ \/ /\ big' = [big EXCEPT ![w] = TRUE]
        /\ Kill(w, "USR1")
     \/ /\ ~big[w]
        /\ UNCHANGED <<big, pending, lost>>
  /\ UNCHANGED <<main, frames, lock, record, wpc, orphan, completed>>

(* Mutant: the other signal. *)
ReportBig(w) ==
  /\ wpc[w] = "read"
  /\ completed' = completed \union {w}
  /\ Kill(w, "USR1")
  /\ WGoto(w, "exit")
  /\ UNCHANGED <<main, frames, lock, record, blocks, big, orphan>>

ReportDone(w) ==
  /\ wpc[w] = "read"
  /\ completed' = completed \union {w}
  /\ Kill(w, "USR2")
  /\ WGoto(w, "exit")
  /\ UNCHANGED <<main, frames, lock, record, blocks, big, orphan>>

Exit(w) ==
  /\ wpc[w] = "exit"
  /\ WGoto(w, "zombie")
  /\ UNCHANGED <<main, handler, lock, lost, record, blocks, big, orphan, completed>>

Worker(w) == Start(w) \/ Fail(w) \/ ReadBlock(w) \/ ReportDone(w) \/ Exit(w)

Next == Main \/ Handler \/ OtherLock \/ \E w \in Workers : Worker(w)

Spec == Init /\ [][Next]_vars

(* The kernel runs the processes, and the handlers before main. *)
Fairness == WF_vars(Main) /\ WF_vars(Handler) /\ \A w \in Workers : WF_vars(Worker(w))

FairSpec == Spec /\ Fairness

-----------------------------------------------------------------------------
(* Properties.                                                             *)

Frame == [sig : Signals, src : Workers, at : {"open", "lock", "write", "unlock"},
          cut : BOOLEAN]

TypeOK ==
  /\ ppc \in {"fork", "loop", "wait", "ret", "done"}
  /\ n \in 0 .. NumWorkers
  /\ interrupted \in 0 .. NumWorkers
  /\ pending \in [Signals -> Workers \union {NoWorker}]
  /\ frames \in Seq(Frame) /\ Len(frames) <= 2
  /\ lock \in {"free", "own", "other"}
  /\ logged \in [Workers -> Nat]
  /\ lost \subseteq Workers
  /\ dropped \subseteq Workers
  /\ wpc \in [Workers -> {"none", "failed", "start", "read", "exit", "zombie", "reaped"}]
  /\ blocks \in [Workers -> 0 .. MaxBlocks]
  /\ big \in [Workers -> BOOLEAN]
  /\ orphan \in [Workers -> BOOLEAN]
  /\ completed \subseteq Workers

(* A completion is logged at most once, and only of a worker that has read its
   file.  Once main goes on after it has reaped a worker, that worker's
   completion has been logged, or its signal met a pending one, or the logger
   could not open, lock or write the file, and no two of these: no completion gets
   lost between the signal, the interrupted wait and the nested handlers. *)
Fates(w) == logged[w] + (IF w \in lost THEN 1 ELSE 0) + (IF w \in dropped THEN 1 ELSE 0)
Accounted ==
  \A w \in Workers :
    /\ Fates(w) <= IF w \in completed THEN 1 ELSE 0
    /\ ppc \in {"loop", "wait", "done"} /\ wpc[w] = "reaped" /\ w \in completed =>
         Fates(w) = 1

(* The parent writes an entry under the lock, which keeps the other run's parent
   out.  The one exception is a handler that the handler of the other signal has
   interrupted between its lock and its write: the inner one has unlocked. *)
WriteLocked ==
  At("write") /\ ~Top.cut => lock = "own"

(* The parent leaves no more workers behind than handlers have interrupted its
   waits: none if no signal has come during a wait. *)
LeftBehind == ppc = "done" => Cardinality(Left) <= interrupted

(* The parent gets through its waits whatever its workers and the lock do. *)
Ended == ppc = "done"
ParentEnds == <>Ended
=============================================================================
