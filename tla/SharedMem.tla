------------------------------ MODULE SharedMem ------------------------------
(***************************************************************************)
(* Lab10: three clients hand a message around in a shared-memory segment.  *)
(* The record in it (srcClientNo, destClientNo, message) is not protected: *)
(* the semaphore that the sources mention was never written, so every read *)
(* and every write of a field is a step of its own.  destClientNo is the   *)
(* token: the client that it names reads the message, overwrites the three *)
(* fields and thereby names the next client.  (The programs are compiled   *)
(* without optimisation, so the accesses happen in program order.)         *)
(*                                                                         *)
(* Each client ends by removing the segment.  A removed segment stays with *)
(* those who have it attached; whoever comes later gets a new one.         *)
(***************************************************************************)
EXTENDS Integers, FiniteSets

CONSTANTS
  NumMessages,  \* NUM_MESSAGES, 30 in the code
  Stoppable,    \* the clients that may get ctrl-C
  Faults        \* TRUE: shmget and shmat may fail

ASSUME SharedMemAssumption ==
  /\ NumMessages \in Nat
  /\ Stoppable \subseteq 1 .. 3
  /\ Faults \in BOOLEAN

Clients == 1 .. 3

(* What the message field holds: the text of a client, the beginning of one
   while sprintf writes it, or nothing. *)
Text == [by : Clients, no : 0 .. NumMessages, whole : BOOLEAN]
Blank == [by |-> 0, no |-> 0, whole |-> FALSE]

VARIABLES
  segs,         \* the number of segments there have been
  key,          \* the segment that the key names; 0: none
  mem,          \* mem[s]: the record in segment s
  wrote,        \* wrote[s]: the client that has set destClientNo of s last
  pc,           \* pc[c]: where client c is
  seg,          \* seg[c]: the segment it has got; 0: none
  i,            \* i[c]: its loop counter
  is_running,   \* its flag
  seen          \* seen[c]: what it has read, and printed, since its check

vars == <<segs, key, mem, wrote, pc, seg, i, is_running, seen>>
local == <<pc, seg, i, is_running, seen>>

(* Every client attaches at most one segment, so there are at most three. *)
Segments == 1 .. 3

PC == {"off", "got", "initSrc", "initDest", "initClear", "initText", "initTextEnd", "loop",
       "source", "print", "setSrc", "setDest", "clear", "text", "textEnd", "finish",
       "detach", "done"}

Nothing == [src |-> 0, msg |-> Blank]
(* The contents of a new segment. *)
Zeros == [src |-> 0, dest |-> 0, msg |-> Blank]

Init ==
  /\ segs = 0
  /\ key = 0
  /\ mem = [s \in Segments |-> Zeros]
  /\ wrote = [s \in Segments |-> 0]
  /\ pc = [c \in Clients |-> "off"]
  /\ seg = [c \in Clients |-> 0]
  /\ i = [c \in Clients |-> 0]
  /\ is_running = [c \in Clients |-> TRUE]
  /\ seen = [c \in Clients |-> Nothing]

Goto(c, l) == pc' = [pc EXCEPT ![c] = l]
Here(c) == mem[seg[c]]

(* sprintf writes from the front.  If somebody else has written in between, the
   field ends up with something that is no whole text. *)
Partial(c, n) == [by |-> c, no |-> n, whole |-> FALSE]

Set(c, field, v) == mem' = [mem EXCEPT ![seg[c]][field] = v]

Begin(c, n) == Set(c, "msg", Partial(c, n))
Complete(c, n) ==
  Set(c, "msg", [Partial(c, n) EXCEPT !.whole = (Here(c).msg = Partial(c, n))])

(* shmget with IPC_CREAT: the segment of the key, or a new one of zeros. *)
ShmGet(c) ==
  /\ pc[c] = "off"
  /\ \/ /\ key # 0
        /\ seg' = [seg EXCEPT ![c] = key]
        /\ UNCHANGED <<segs, key>>
     \/ /\ key = 0
        /\ segs' = segs + 1
        /\ key' = segs + 1
        /\ seg' = [seg EXCEPT ![c] = segs + 1]
  /\ Goto(c, "got")
  /\ UNCHANGED <<mem, wrote, i, is_running, seen>>

ShmGetFails(c) ==
  /\ Faults
  /\ pc[c] = "off"
  /\ Goto(c, "done")
  /\ UNCHANGED <<segs, key, mem, wrote, seg, i, is_running, seen>>

(* Does anybody keep segment s from going away once it is removed? *)
Attached(s) == \E c \in Clients : seg[c] = s /\ pc[c] \notin {"off", "got", "detach", "done"}

(* shmat fails when the segment has been removed since and nobody has it; client
   3 goes on to write the first message. *)
ShmAt(c) ==
  /\ pc[c] = "got"
  /\ IF key = seg[c] \/ Attached(seg[c])
     THEN \/ Goto(c, IF c = 3 THEN "initSrc" ELSE "loop")
          \/ Faults /\ Goto(c, "done")
     ELSE Goto(c, "done")
  /\ UNCHANGED <<segs, key, mem, wrote, seg, i, is_running, seen>>

-----------------------------------------------------------------------------
(* Client 3 starts everything. *)

First(c) ==
  /\ \/ /\ pc[c] = "initSrc"
        /\ Set(c, "src", c)
        /\ Goto(c, "initDest")
        /\ UNCHANGED wrote
     \/ /\ pc[c] = "initDest"
        /\ Set(c, "dest", 1)
        /\ wrote' = [wrote EXCEPT ![seg[c]] = c]
        /\ Goto(c, "initClear")
     \/ /\ pc[c] = "initClear"
        /\ Set(c, "msg", Blank)
        /\ Goto(c, "initText")
        /\ UNCHANGED wrote
     \/ /\ pc[c] = "initText"
        /\ Begin(c, 0)
        /\ Goto(c, "initTextEnd")
        /\ UNCHANGED wrote
     \/ /\ pc[c] = "initTextEnd"
        /\ Complete(c, 0)
        /\ Goto(c, "loop")
        /\ UNCHANGED wrote
  /\ UNCHANGED <<segs, key, seg, i, is_running, seen>>

(* The loop polls, NUM_MESSAGES times in all: a turn that finds the token
   elsewhere is used up too. *)
(* Mutant: off by one. *)
TurnTooMany(c) == i[c] <= NumMessages /\ is_running[c]

Turn(c) == i[c] < NumMessages /\ is_running[c]

(* Mutant: the token is not looked at. *)
CheckNothing(c) ==
  /\ pc[c] = "loop"
  /\ IF ~Turn(c) THEN Goto(c, "finish") /\ UNCHANGED i
     ELSE Goto(c, "source") /\ UNCHANGED i
  /\ UNCHANGED <<segs, key, mem, wrote, seg, is_running, seen>>

(* Mutant: a client takes whatever is not its own instead of what is for it. *)
CheckSource(c) ==
  /\ pc[c] = "loop"
  /\ IF ~Turn(c) THEN Goto(c, "finish") /\ UNCHANGED i
     ELSE IF Here(c).src # c THEN Goto(c, "source") /\ UNCHANGED i
     ELSE i' = [i EXCEPT ![c] = @ + 1] /\ UNCHANGED pc
  /\ UNCHANGED <<segs, key, mem, wrote, seg, is_running, seen>>

(* destClientNo is tested; a turn is also spent when it names somebody else. *)
Check(c) ==
  /\ pc[c] = "loop"
  /\ IF ~Turn(c) THEN Goto(c, "finish") /\ UNCHANGED i
     ELSE IF Here(c).dest = c THEN Goto(c, "source") /\ UNCHANGED i
     ELSE i' = [i EXCEPT ![c] = @ + 1] /\ UNCHANGED pc
  /\ UNCHANGED <<segs, key, mem, wrote, seg, is_running, seen>>

ReadRecord(c) ==
  /\ \/ /\ pc[c] = "source"
        /\ seen' = [seen EXCEPT ![c].src = Here(c).src]
        /\ Goto(c, "print")
     \/ /\ pc[c] = "print"
        /\ seen' = [seen EXCEPT ![c].msg = Here(c).msg]
        /\ Goto(c, "setSrc")
  /\ UNCHANGED <<segs, key, mem, wrote, seg, i, is_running>>

(* Mutant: client 1 uses the formula of client 2. *)
PeerOfTwo(c) == CASE c \in {1, 2} -> 1 + 2 * (i[c] % 2)
                  [] c = 3 -> 1 + (i[c] % 2)

(* client 1: 2 + i % 2, client 2: 1 + 2 * (i % 2), client 3: 1 + i % 2. *)
Peer(c) == CASE c = 1 -> 2 + (i[c] % 2)
             [] c = 2 -> 1 + 2 * (i[c] % 2)
             [] c = 3 -> 1 + (i[c] % 2)

(* The token is given away before the message is written. *)
Write(c) ==
  /\ \/ /\ pc[c] = "setSrc"
        /\ Set(c, "src", c)
        /\ Goto(c, "setDest")
        /\ seen' = [seen EXCEPT ![c] = Nothing]
        /\ UNCHANGED <<wrote, i>>
     \/ /\ pc[c] = "setDest"
        /\ Set(c, "dest", Peer(c))
        /\ wrote' = [wrote EXCEPT ![seg[c]] = c]
        /\ Goto(c, "clear")
        /\ UNCHANGED <<i, seen>>
     \/ /\ pc[c] = "clear"
        /\ Set(c, "msg", Blank)
        /\ Goto(c, "text")
        /\ UNCHANGED <<wrote, i, seen>>
     \/ /\ pc[c] = "text"
        /\ Begin(c, i[c] + 1)
        /\ Goto(c, "textEnd")
        /\ UNCHANGED <<wrote, i, seen>>
     \/ /\ pc[c] = "textEnd"
        /\ Complete(c, i[c] + 1)
        /\ Goto(c, "loop")
        /\ i' = [i EXCEPT ![c] = @ + 1]
        /\ UNCHANGED <<wrote, seen>>
  /\ UNCHANGED <<segs, key, seg, is_running>>

(* shmdt, then IPC_RMID: the key no longer names the segment, whoever uses it. *)
Finish(c) ==
  /\ \/ pc[c] = "finish" /\ Goto(c, "detach") /\ UNCHANGED key
     \/ pc[c] = "detach" /\ Goto(c, "done") /\ key' = IF key = seg[c] THEN 0 ELSE key
  /\ UNCHANGED <<segs, mem, wrote, seg, i, is_running, seen>>

SigInt(c) ==
  /\ c \in Stoppable
  /\ pc[c] \notin {"off", "done"}
  /\ is_running' = [is_running EXCEPT ![c] = FALSE]
  /\ UNCHANGED <<segs, key, mem, wrote, pc, seg, i, seen>>

Client(c) ==
  \/ ShmGet(c) \/ ShmGetFails(c) \/ ShmAt(c)
  \/ (c = 3 /\ First(c))
  \/ Check(c) \/ ReadRecord(c) \/ Write(c)
  \/ Finish(c)

Next == \E c \in Clients : Client(c) \/ SigInt(c)

Spec == Init /\ [][Next]_vars

-----------------------------------------------------------------------------
(* Properties.                                                             *)

(* The types of all variables; in particular the loop counters are bounded, and
   there is never a fourth segment. *)
Messages == Text \union {Blank}
TypeOK ==
  /\ segs \in 0 .. 3
  /\ key \in 0 .. 3
  /\ mem \in [Segments -> [src : 0 .. 3, dest : 0 .. 3, msg : Messages]]
  /\ wrote \in [Segments -> 0 .. 3]
  /\ pc \in [Clients -> PC]
  /\ seg \in [Clients -> 0 .. segs]
  /\ i \in [Clients -> 0 .. NumMessages]
  /\ is_running \in [Clients -> BOOLEAN]
  /\ seen \in [Clients -> [src : 0 .. 3, msg : Messages]]

(* Between its check and its write of destClientNo a client owns the token of its
   segment: no other client is there, and nobody changes destClientNo or
   srcClientNo under its hands.  That is all the synchronisation there is. *)
Owner == {"source", "print", "setSrc", "setDest"}
Token ==
  \A c, d \in Clients :
    pc[c] \in Owner =>
      /\ Here(c).dest = c
      /\ d # c /\ seg[d] = seg[c] => pc[d] \notin Owner

(* The source that a client prints is the client that gave it the token, and is
   not the client itself: srcClientNo is written before destClientNo. *)
SourceRight ==
  \A c \in Clients :
    pc[c] = "print" => seen[c].src = wrote[seg[c]] /\ seen[c].src \in Clients \ {c}

(* A new segment has no token until client 3 comes: nobody prints from a segment
   that client 3 has not had. *)
ThreeStarts ==
  \A c \in Clients : pc[c] \in Owner => seg[3] = seg[c]

-----------------------------------------------------------------------------
(* The inductive invariant behind these properties.                        *)

Came(c) == IF pc[c] = "off" THEN 0 ELSE 1

(* A client creates at most one segment; one that is in has one, and has turns
   left while it takes its turn. *)
Taking == Owner \union {"clear", "text", "textEnd"}
CountOK ==
  /\ segs <= Came(1) + Came(2) + Came(3)
  /\ key <= segs
  /\ \A c \in Clients :
       /\ pc[c] \notin {"off", "done"} => seg[c] # 0
       /\ pc[c] \in Taking => i[c] < NumMessages

(* Client 3 puts the first token into the segment: there is none before. *)
Before == {"off", "got", "initSrc", "initDest"}
StartOK ==
  /\ \A s \in Segments : mem[s].dest # 0 => seg[3] = s /\ pc[3] \notin Before
  /\ \A c \in Clients : pc[c] \in {"initSrc", "initDest"} => c = 3

OwnerOK == \A c \in Clients : pc[c] \in Owner => Here(c).dest = c

(* While a client does not just pass on the token, the source in the record is
   the client that wrote the token, and not the client that has it. *)
Passing(s) == \E c \in Clients : seg[c] = s /\ pc[c] = "setDest"
SourceOK ==
  /\ \A s \in Segments : mem[s].dest # 0 =>
       /\ wrote[s] \in Clients
       /\ wrote[s] # mem[s].dest
       /\ Passing(s) \/ mem[s].src = wrote[s]
  /\ \A c \in Clients :
       /\ pc[c] \in {"setDest", "initDest"} => Here(c).src = c
       /\ pc[c] = "print" => seen[c].src = wrote[seg[c]]

(* What the record can hold, and who can be where. *)
IInv == TypeOK /\ CountOK /\ StartOK /\ OwnerOK /\ SourceOK
=============================================================================
