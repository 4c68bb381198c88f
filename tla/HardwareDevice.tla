---------------------------- MODULE HardwareDevice ----------------------------
(***************************************************************************)
(* Lab5: a kernel module whose thread simulates a device, by counting the  *)
(* letters of a buffer up, and user programs that read the buffer, HALT    *)
(* the simulation, read, RESUME it and read.                               *)
(*                                                                         *)
(* Nothing protects buffer, is_halt and is_running: every access is a step *)
(* of its own.  Two user programs share the one is_halt.  The module goes  *)
(* without stopping its thread, and load.sh and unload.sh make and remove  *)
(* the device file.                                                        *)
(*                                                                         *)
(* Characters are 0 for '\0', 1 .. Letters for 'a' to 'z', and one more.   *)
(***************************************************************************)
EXTENDS Integers, Sequences

CONSTANTS
  BufLen,       \* BUF_LEN, 16 in the code
  Letters,      \* 26 in the code
  Reads,        \* the reads in each part of the user program, 3 in the code
  Users,        \* the runs of the user program
  DevFaults     \* TRUE: register_chrdev and kthread_create may fail

VARIABLES
  state,        \* the module: "out", "in", "stuck" (in insmod), "going", "freed"
  node,         \* /dev/hardware exists
  apc,          \* where load.sh, and then unload.sh, is
  is_running,
  is_halt,
  buffer,
  tpc,          \* where the thread is
  ti,           \* its index
  upc,          \* where user program u is
  off,          \* the position of its file
  reads,        \* how many reads it has done
  copied,       \* what its present read has copied
  quiet         \* no sweep has been under way since this read began

(* A buffer holds a letter and its '\0'. *)
DeviceAssumption ==
  /\ BufLen \in Nat /\ BufLen >= 2
  /\ Letters \in Nat \ {0}
  /\ Reads \in Nat \ {0}
  /\ DevFaults \in BOOLEAN

admin == <<state, node, apc>>
flags == <<is_running, is_halt>>
thread == <<buffer, tpc, ti>>
user == <<upc, off, reads, copied, quiet>>
vars == <<admin, flags, thread, user>>

Last == BufLen - 1
Sweeping == {"inc", "wrap"}
OpenPC == {"read", "copy", "halt", "resume", "close"}
IsOpen(u) == upc[u] \in OpenPC

Init ==
  /\ state = "out"
  /\ node = FALSE
  /\ apc = "insmod"
  /\ is_running = FALSE
  /\ is_halt = FALSE
  /\ buffer = [i \in 0 .. Last |-> 0]
  /\ tpc = "none"
  /\ ti = 0
  /\ upc = [u \in Users |-> "off"]
  /\ off = [u \in Users |-> 0]
  /\ reads = [u \in Users |-> 0]
  /\ copied = [u \in Users |-> <<>>]
  /\ quiet = [u \in Users |-> FALSE]

-----------------------------------------------------------------------------
(* load.sh and unload.sh.                                                  *)

(* kthread_create never returns NULL: when it fails, waking its error value up
   kills insmod, and the module stays half in. *)
Register ==
  /\ apc = "insmod"
  /\ apc' = "mknod"
  /\ \/ /\ DevFaults
        /\ UNCHANGED <<state, flags, tpc>>
     \/ /\ is_running' = TRUE
        /\ is_halt' = FALSE
        /\ \/ state' = "in" /\ tpc' = "fill"
           \/ DevFaults /\ state' = "stuck" /\ UNCHANGED tpc
  /\ UNCHANGED <<node, buffer, ti, user>>

(* load.sh goes on whatever insmod did; the major number is there or not. *)
Mknod ==
  /\ apc = "mknod"
  /\ node' = (state # "out")
  /\ apc' = "rmmod"
  /\ UNCHANGED <<state, flags, thread, user>>

(* rmmod is refused while a file of the module is open.  unload.sh does not mind
   and removes the device file. *)
Unregister ==
  /\ apc = "rmmod"
  /\ IF state = "in" /\ \A u \in Users : ~IsOpen(u)
     THEN /\ state' = "going"
          /\ is_running' = FALSE
          /\ apc' = "unhalt"
     ELSE /\ apc' = "rm"
          /\ UNCHANGED <<state, is_running>>
  /\ UNCHANGED <<node, is_halt, thread, user>>

Unhalt ==
  /\ apc = "unhalt"
  /\ is_halt' = FALSE
  /\ apc' = "free"
  /\ UNCHANGED <<state, node, is_running, thread, user>>

Free ==
  /\ apc = "free"
  /\ state' = "freed"
  /\ apc' = "rm"
  /\ UNCHANGED <<node, flags, thread, user>>

RmNode ==
  /\ apc = "rm"
  /\ node' = FALSE
  /\ apc' = "end"
  /\ UNCHANGED <<state, flags, thread, user>>

Admin == Register \/ Mknod \/ Unregister \/ Unhalt \/ Free \/ RmNode

-----------------------------------------------------------------------------
(* hardwareSim.                                                            *)

Set(i, ch) == buffer' = [buffer EXCEPT ![i] = ch]
Disturb == quiet' = [u \in Users |-> FALSE]

Fill ==
  /\ tpc = "fill"
  /\ IF ti < Last
     THEN /\ Set(ti, 1)
          /\ ti' = ti + 1
          /\ UNCHANGED tpc
     ELSE /\ Set(Last, 0)
          /\ tpc' = "outer"
          /\ UNCHANGED ti
  /\ UNCHANGED quiet

Outer ==
  /\ tpc = "outer"
  /\ tpc' = IF is_running THEN "inner" ELSE "done"
  /\ UNCHANGED <<buffer, ti, quiet>>

(* Mutant: the flag of the outer loop. *)
InnerWhileRunning ==
  /\ tpc = "inner"
  /\ IF is_running
     THEN tpc' = "inc" /\ ti' = 0 /\ Disturb
     ELSE tpc' = "outer" /\ UNCHANGED <<ti, quiet>>
  /\ UNCHANGED buffer

Inner ==
  /\ tpc = "inner"
  /\ IF ~is_halt
     THEN tpc' = "inc" /\ ti' = 0 /\ Disturb
     ELSE tpc' = "outer" /\ UNCHANGED <<ti, quiet>>
  /\ UNCHANGED buffer

Inc ==
  /\ tpc = "inc"
  /\ Set(ti, buffer[ti] + 1)
  /\ tpc' = "wrap"
  /\ UNCHANGED <<ti, quiet>>

(* Mutant: HALT is obeyed at once. *)
WrapMayStop ==
  /\ tpc = "wrap"
  /\ Set(ti, IF buffer[ti] > Letters THEN 1 ELSE buffer[ti])
  /\ ti' = ti + 1
  /\ tpc' = IF ti + 1 = Last \/ is_halt THEN "inner" ELSE "inc"
  /\ UNCHANGED quiet

(* The sweep ends with the '\0' that has been there since Fill, and msleep. *)
Wrap ==
  /\ tpc = "wrap"
  /\ Set(ti, IF buffer[ti] > Letters THEN 1 ELSE buffer[ti])
  /\ ti' = ti + 1
  /\ tpc' = IF ti + 1 = Last THEN "inner" ELSE "inc"
  /\ UNCHANGED quiet

(* The code of the thread is gone. *)
Oops ==
  /\ state = "freed"
  /\ tpc \notin {"none", "done", "oops"}
  /\ tpc' = "oops"
  /\ UNCHANGED <<buffer, ti, quiet>>

Thread ==
  /\ \/ state # "freed" /\ (Fill \/ Outer \/ Inner \/ Inc \/ Wrap)
     \/ Oops
  /\ UNCHANGED <<admin, flags, upc, off, reads, copied>>

-----------------------------------------------------------------------------
(* The user program, and the module's open, read, ioctl and release.       *)

Goto(u, l) == upc' = [upc EXCEPT ![u] = l]

Open(u) ==
  /\ upc[u] = "off"
  /\ Goto(u, IF node /\ state \in {"in", "stuck"} THEN "read" ELSE "done")
  /\ UNCHANGED <<admin, flags, thread, off, reads, copied, quiet>>

(* What the last read has got is printed and no longer matters. *)
Forget(u) ==
  /\ copied' = [copied EXCEPT ![u] = <<>>]
  /\ quiet' = [quiet EXCEPT ![u] = FALSE]

(* What follows the n-th read. *)
After(n) ==
  CASE n = Reads -> "halt"
    [] n = 2 * Reads -> "resume"
    [] n = 3 * Reads -> "close"
    [] OTHER -> "read"

ReadDone(u) ==
  /\ reads' = [reads EXCEPT ![u] = @ + 1]
  /\ Goto(u, After(reads[u] + 1))

(* The file's position is never set back: only the first read gets anything. *)
Read(u) ==
  /\ upc[u] = "read"
  /\ IF off[u] >= BufLen
     THEN ReadDone(u) /\ Forget(u)
     ELSE /\ Goto(u, "copy")
          /\ quiet' = [quiet EXCEPT ![u] = is_halt /\ tpc \in {"outer", "inner"}]
          /\ UNCHANGED <<reads, copied>>
  /\ UNCHANGED <<admin, flags, thread, off>>

(* copy_to_user, byte by byte. *)
Copy(u) ==
  /\ upc[u] = "copy"
  /\ copied' = [copied EXCEPT ![u] = Append(@, buffer[off[u] + Len(@)])]
  /\ IF off[u] + Len(copied[u]) = Last
     THEN /\ off' = [off EXCEPT ![u] = BufLen]
          /\ ReadDone(u)
     ELSE UNCHANGED <<upc, off, reads>>
  /\ UNCHANGED <<admin, flags, thread, quiet>>

Ioctl(u, here, halt) ==
  /\ upc[u] = here
  /\ is_halt' = halt
  /\ Goto(u, "read")
  /\ Forget(u)
  /\ UNCHANGED <<admin, is_running, thread, off, reads>>

Close(u) ==
  /\ upc[u] = "close"
  /\ Goto(u, "done")
  /\ Forget(u)
  /\ UNCHANGED <<admin, flags, thread, off, reads>>

(* ctrl-C: the file is closed, and a HALT stays. *)
Interrupt(u) ==
  /\ IsOpen(u)
  /\ upc[u] # "copy"
  /\ Goto(u, "done")
  /\ Forget(u)
  /\ UNCHANGED <<admin, flags, thread, off, reads>>

User(u) ==
  \/ Read(u) \/ Copy(u)
  \/ Ioctl(u, "halt", TRUE) \/ Ioctl(u, "resume", FALSE)
  \/ Close(u)

(* In the end the thread may have ended, or crashed, or never have been. *)
Next == Admin \/ Thread \/ \E u \in Users : Open(u) \/ User(u) \/ Interrupt(u)

Spec == Init /\ [][Next]_vars

(* The kernel runs its thread and what has been started; nobody needs to load or
   unload, to start a user program or to interrupt it. *)
Fairness ==
  /\ WF_vars(Thread)
  /\ WF_vars(Unhalt \/ Free)
  /\ \A u \in Users : WF_vars(User(u))

FairSpec == Spec /\ Fairness

-----------------------------------------------------------------------------
(* Properties.                                                             *)

Char == 0 .. Letters + 1
TypeOK ==
  /\ state \in {"out", "in", "stuck", "going", "freed"}
  /\ node \in BOOLEAN
  /\ apc \in {"insmod", "mknod", "rmmod", "unhalt", "free", "rm", "end"}
  /\ is_running \in BOOLEAN /\ is_halt \in BOOLEAN
  /\ buffer \in [0 .. Last -> Char]
  /\ tpc \in {"none", "fill", "outer", "inner", "done", "oops"} \union Sweeping
  /\ ti \in 0 .. Last
  /\ upc \in [Users -> {"off", "done"} \union OpenPC]
  /\ off \in [Users -> {0, BufLen}]
  /\ reads \in [Users -> 0 .. 3 * Reads]
  /\ \A u \in Users : copied[u] \in Seq(Char)
  /\ quiet \in [Users -> BOOLEAN]

(* A read that begins when the thread has seen a HALT, or will at its next test,
   and during which nobody resumes it, gets one letter throughout and never the
   character after 'z', although read takes no lock, the thread leaves a sweep
   only at its end, and another program may resume at any time. *)
QuietReadWhole ==
  \A u \in Users :
    quiet[u] /\ Len(copied[u]) = BufLen =>
      /\ copied[u][BufLen] = 0
      /\ \E ch \in 1 .. Letters : \A i \in 1 .. Last : copied[u][i] = ch

(* After a HALT that nobody takes back the buffer stops changing, and after the
   last RESUME of a module that stays it never stops. *)
HaltParks ==
  /\ <>[]is_halt => <>[](tpc \notin Sweeping)
  /\ <>[](tpc # "none" /\ state = "in" /\ ~is_halt) => []<>(tpc \in Sweeping)
=============================================================================
