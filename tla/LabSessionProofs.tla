-------------------------- MODULE LabSessionProofs --------------------------
(***************************************************************************)
(* The small programs of LabSession, each for every value of its           *)
(* constants: the invariants of Lab10, of Lab7, of the cars of Assignment3,*)
(* of Lab6 and of Lab5b are stated and proved here, those of assignment1   *)
(* and Lab5 in modules of their own.  A behaviour of LabSpec is one of     *)
(* every program (all but one of them stutter), and so the properties of   *)
(* the programs are properties of LabSpec.                                 *)
(***************************************************************************)
EXTENDS LabSession, SequenceTheorems, TLAPS

FP == INSTANCE ParallelFileProofs WITH FileFaults <- Faults, ppc <- fpc
DP == INSTANCE HardwareDeviceProofs WITH DevFaults <- Faults, is_running <- running

-----------------------------------------------------------------------------
(***************************************************************************)
(* Lab10, for clients that are stopped and calls that fail at any point.   *)
(* The token is what the proof turns on: StartOK and OwnerOK together say  *)
(* that a write of destClientNo or srcClientNo by one client never happens *)
(* while another one relies on these fields.                               *)
(***************************************************************************)
USE SharedMemAssumption

THEOREM InitIInv == Init => IInv
<1> SUFFICES ASSUME Init PROVE IInv
  OBVIOUS
<1> USE DEF Init, Zeros, Nothing
<1>1. TypeOK
  <2>1. mem \in [Segments -> [src : 0 .. 3, dest : 0 .. 3, msg : Messages]]
    BY DEF Messages
  <2>2. seen \in [Clients -> [src : 0 .. 3, msg : Messages]]
    BY DEF Messages
  <2>3. pc \in [Clients -> PC] /\ is_running \in [Clients -> BOOLEAN]
    BY DEF PC
  <2>4. /\ segs \in 0 .. 3 /\ key \in 0 .. 3
        /\ wrote \in [Segments -> 0 .. 3]
        /\ seg \in [Clients -> 0 .. segs]
        /\ i \in [Clients -> 0 .. NumMessages]
    OBVIOUS
  <2> QED
    BY <2>1, <2>2, <2>3, <2>4 DEF TypeOK
<1>2. CountOK
  BY DEF CountOK, Came, Clients, Taking, Owner
<1>3. StartOK /\ OwnerOK /\ SourceOK
  BY DEF StartOK, OwnerOK, SourceOK, Owner
<1> QED
  BY <1>1, <1>2, <1>3 DEF IInv

(* A client that is in works in a segment there is. *)
LEMMA InSegment ==
  ASSUME IInv, NEW c \in Clients, pc[c] \notin {"off", "done"}
  PROVE  seg[c] \in Segments
BY DEF IInv, TypeOK, CountOK, Segments

LEMMA SetSrcOK ==
  ASSUME TypeOK, NEW c \in Clients, seg[c] \in Segments, NEW v \in 0 .. 3,
         Set(c, "src", v)
  PROVE  /\ mem' \in [Segments -> [src : 0 .. 3, dest : 0 .. 3, msg : Messages]]
         /\ \A s \in Segments : /\ mem'[s].dest = mem[s].dest
                               /\ mem'[s].msg = mem[s].msg
                               /\ mem'[s].src = IF s = seg[c] THEN v ELSE mem[s].src
BY DEF Set, TypeOK

LEMMA SetDestOK ==
  ASSUME TypeOK, NEW c \in Clients, seg[c] \in Segments, NEW v \in 0 .. 3,
         Set(c, "dest", v)
  PROVE  /\ mem' \in [Segments -> [src : 0 .. 3, dest : 0 .. 3, msg : Messages]]
         /\ \A s \in Segments : /\ mem'[s].src = mem[s].src
                               /\ mem'[s].msg = mem[s].msg
                               /\ mem'[s].dest = IF s = seg[c] THEN v ELSE mem[s].dest
BY DEF Set, TypeOK

LEMMA SetMsgOK ==
  ASSUME TypeOK, NEW c \in Clients, seg[c] \in Segments, NEW v \in Messages,
         Set(c, "msg", v)
  PROVE  /\ mem' \in [Segments -> [src : 0 .. 3, dest : 0 .. 3, msg : Messages]]
         /\ \A s \in Segments : /\ mem'[s].src = mem[s].src
                               /\ mem'[s].dest = mem[s].dest
BY DEF Set, TypeOK

LEMMA TextOK ==
  ASSUME NEW c \in Clients, NEW y \in 0 .. NumMessages, NEW b \in BOOLEAN
  PROVE  /\ Partial(c, y) \in Messages
         /\ [Partial(c, y) EXCEPT !.whole = b] \in Messages
BY DEF Messages, Text, Partial

LEMMA BlankOK == Blank \in Messages
BY DEF Messages

LEMMA PeerOK ==
  ASSUME IInv, NEW c \in Clients
  PROVE  Peer(c) \in Clients \ {c}
<1>1. i[c] % 2 \in 0 .. 1
  BY DEF IInv, TypeOK
<1> QED
  BY <1>1 DEF Peer, Clients

(* Who works in the segment that another client uses, has the token with it. *)
LEMMA OneOwner ==
  ASSUME IInv, NEW c \in Clients, NEW d \in Clients,
         pc[c] \in Owner, pc[d] \in Owner, seg[c] = seg[d]
  PROVE  c = d
BY DEF IInv, OwnerOK, Here

LEMMA ShmGetStep ==
  ASSUME IInv, NEW c \in Clients, ShmGet(c)
  PROVE  IInv'
<1> USE DEF IInv, ShmGet, Goto
<1>1. pc' = [pc EXCEPT ![c] = "got"] /\ pc[c] = "off"
  OBVIOUS
<1>2. /\ segs' \in 0 .. 3 /\ key' \in 0 .. 3 /\ segs' >= segs
      /\ seg'[c] \in 1 .. segs'
      /\ seg' = [seg EXCEPT ![c] = seg'[c]]
  BY <1>1 DEF TypeOK, CountOK, Came, Clients
<1>t. TypeOK'
  <2>1. is_running' \in [Clients -> BOOLEAN]
    BY DEF TypeOK
  <2>2. pc' \in [Clients -> PC]
    BY <1>1, <1>2 DEF TypeOK, PC
  <2> QED
    BY <2>1, <2>2, <1>1, <1>2 DEF TypeOK
<1>c. CountOK'
  BY <1>1, <1>2 DEF TypeOK, CountOK, Came, Clients, Taking, Owner
<1>s. StartOK'
  BY <1>1, <1>2 DEF TypeOK, StartOK, Before, Clients
<1>o. OwnerOK'
  BY <1>1, <1>2 DEF TypeOK, OwnerOK, Owner, Here
<1>p. SourceOK'
  <2>1. ASSUME NEW s \in Segments, mem'[s].dest # 0
        PROVE  /\ wrote'[s] \in Clients
               /\ wrote'[s] # mem'[s].dest
               /\ Passing(s)' \/ mem'[s].src = wrote'[s]
    <3>1. Passing(s) => Passing(s)'
      BY <1>1, <1>2 DEF TypeOK, Passing
    <3> QED
      BY <2>1, <3>1, <1>1, <1>2 DEF SourceOK
  <2>2. ASSUME NEW d \in Clients
        PROVE  /\ pc'[d] \in {"setDest", "initDest"} => Here(d)'.src = d
               /\ pc'[d] = "print" => seen'[d].src = wrote'[seg'[d]]
    BY <1>1, <1>2 DEF TypeOK, SourceOK, Here
  <2> QED
    BY <2>1, <2>2 DEF SourceOK
<1> QED
  BY <1>t, <1>c, <1>s, <1>o, <1>p

LEMMA ShmGetFailsStep ==
  ASSUME IInv, NEW c \in Clients, ShmGetFails(c)
  PROVE  IInv'
<1> USE DEF IInv, ShmGetFails, Goto
<1>1. pc' = [pc EXCEPT ![c] = "done"] /\ pc[c] = "off"
  OBVIOUS
<1>t. TypeOK'
  <2>1. is_running' \in [Clients -> BOOLEAN]
    BY DEF TypeOK
  <2>2. pc' \in [Clients -> PC]
    BY <1>1 DEF TypeOK, PC
  <2> QED
    BY <2>1, <2>2, <1>1 DEF TypeOK
<1>c. CountOK'
  BY <1>1 DEF TypeOK, CountOK, Came, Clients, Taking, Owner
<1>s. StartOK'
  BY <1>1 DEF TypeOK, StartOK, Before, Clients
<1>o. OwnerOK'
  BY <1>1 DEF TypeOK, OwnerOK, Owner, Here
<1>p. SourceOK'
  <2>1. ASSUME NEW s \in Segments, mem'[s].dest # 0
        PROVE  /\ wrote'[s] \in Clients
               /\ wrote'[s] # mem'[s].dest
               /\ Passing(s)' \/ mem'[s].src = wrote'[s]
    <3>1. Passing(s) => Passing(s)'
      BY <1>1 DEF TypeOK, Passing
    <3> QED
      BY <2>1, <3>1, <1>1 DEF SourceOK
  <2>2. ASSUME NEW d \in Clients
        PROVE  /\ pc'[d] \in {"setDest", "initDest"} => Here(d)'.src = d
               /\ pc'[d] = "print" => seen'[d].src = wrote'[seg'[d]]
    BY <1>1 DEF TypeOK, SourceOK, Here
  <2> QED
    BY <2>1, <2>2 DEF SourceOK
<1> QED
  BY <1>t, <1>c, <1>s, <1>o, <1>p

LEMMA ShmAtStep ==
  ASSUME IInv, NEW c \in Clients, ShmAt(c)
  PROVE  IInv'
<1> USE DEF IInv, ShmAt, Goto
<1>1. pc[c] = "got"
  OBVIOUS
<1>2. \E l \in {"initSrc", "loop", "done"} :
        /\ pc' = [pc EXCEPT ![c] = l]
        /\ l = "initSrc" => c = 3
  OBVIOUS
<1>t. TypeOK'
  <2>1. is_running' \in [Clients -> BOOLEAN]
    BY DEF TypeOK
  <2>2. pc' \in [Clients -> PC]
    BY <1>1, <1>2 DEF TypeOK, PC
  <2> QED
    BY <2>1, <2>2, <1>1, <1>2 DEF TypeOK
<1>c. CountOK'
  BY <1>1, <1>2 DEF TypeOK, CountOK, Came, Clients, Taking, Owner
<1>s. StartOK'
  BY <1>1, <1>2 DEF TypeOK, StartOK, Before, Clients
<1>o. OwnerOK'
  BY <1>1, <1>2 DEF TypeOK, OwnerOK, Owner, Here
<1>p. SourceOK'
  <2>1. ASSUME NEW s \in Segments, mem'[s].dest # 0
        PROVE  /\ wrote'[s] \in Clients
               /\ wrote'[s] # mem'[s].dest
               /\ Passing(s)' \/ mem'[s].src = wrote'[s]
    <3>1. Passing(s) => Passing(s)'
      BY <1>1, <1>2 DEF TypeOK, Passing
    <3> QED
      BY <2>1, <3>1, <1>1, <1>2 DEF SourceOK
  <2>2. ASSUME NEW d \in Clients
        PROVE  /\ pc'[d] \in {"setDest", "initDest"} => Here(d)'.src = d
               /\ pc'[d] = "print" => seen'[d].src = wrote'[seg'[d]]
    BY <1>1, <1>2 DEF TypeOK, SourceOK, Here
  <2> QED
    BY <2>1, <2>2 DEF SourceOK
<1> QED
  BY <1>t, <1>c, <1>s, <1>o, <1>p

(* Client 3 writes the first source: nobody has the token yet. *)
LEMMA FirstSourceStep ==
  ASSUME IInv, NEW c \in Clients, pc[c] = "initSrc", Goto(c, "initDest"),
         Set(c, "src", c), c = 3,
         UNCHANGED <<segs, key, wrote, seg, i, is_running, seen>>
  PROVE  IInv'
<1> USE DEF IInv, Goto
<1>1. pc' = [pc EXCEPT ![c] = "initDest"] /\ pc[c] = "initSrc"
  OBVIOUS
<1>2. seg[c] \in Segments
  BY <1>1, InSegment
<1>3. /\ mem' \in [Segments -> [src : 0 .. 3, dest : 0 .. 3, msg : Messages]]
      /\ \A s \in Segments :
           /\ mem'[s].dest = mem[s].dest
           /\ mem'[s].src = IF s = seg[c] THEN c ELSE mem[s].src
  BY <1>2, SetSrcOK DEF TypeOK, Clients
<1>4. \A s \in Segments : mem'[s].dest = 0
  BY <1>1, <1>3 DEF StartOK, Before
<1>5. ASSUME NEW d \in Clients \ {c}, pc[d] \in {"setDest", "initDest"} PROVE FALSE
  BY <1>3, <1>4, <1>5, InSegment DEF StartOK, OwnerOK, Owner, Here, Clients
<1>t. TypeOK'
  <2>1. is_running' \in [Clients -> BOOLEAN]
    BY DEF TypeOK
  <2>2. pc' \in [Clients -> PC]
    BY <1>1, <1>2, <1>3, <1>4, <1>5 DEF TypeOK, PC
  <2> QED
    BY <2>1, <2>2, <1>1, <1>2, <1>3, <1>4, <1>5 DEF TypeOK
<1>c. CountOK'
  BY <1>1, <1>2, <1>3, <1>4, <1>5 DEF TypeOK, CountOK, Came, Clients, Taking, Owner
<1>s. StartOK'
  BY <1>1, <1>2, <1>3, <1>4, <1>5 DEF TypeOK, StartOK, Before, Clients
<1>o. OwnerOK'
  BY <1>1, <1>2, <1>3, <1>4, <1>5, InSegment DEF TypeOK, OwnerOK, Owner, Here
<1>p. SourceOK'
  <2>1. ASSUME NEW s \in Segments, mem'[s].dest # 0
        PROVE  /\ wrote'[s] \in Clients
               /\ wrote'[s] # mem'[s].dest
               /\ Passing(s)' \/ mem'[s].src = wrote'[s]
    <3>1. Passing(s) => Passing(s)'
      BY <1>1, <1>2, <1>3, <1>4, <1>5 DEF TypeOK, Passing
    <3> QED
      BY <2>1, <3>1, <1>1, <1>2, <1>3, <1>4, <1>5 DEF SourceOK
  <2>2. ASSUME NEW d \in Clients
        PROVE  /\ pc'[d] \in {"setDest", "initDest"} => Here(d)'.src = d
               /\ pc'[d] = "print" => seen'[d].src = wrote'[seg'[d]]
    BY <1>1, <1>2, <1>3, <1>4, <1>5, InSegment DEF TypeOK, SourceOK, OwnerOK, Owner, Here
  <2> QED
    BY <2>1, <2>2 DEF SourceOK
<1> QED
  BY <1>t, <1>c, <1>s, <1>o, <1>p

(* Client 3 writes the first token. *)
LEMMA FirstTokenStep ==
  ASSUME IInv, NEW c \in Clients, pc[c] = "initDest", Goto(c, "initClear"),
         Set(c, "dest", 1), wrote' = [wrote EXCEPT ![seg[c]] = c], c = 3,
         UNCHANGED <<segs, key, seg, i, is_running, seen>>
  PROVE  IInv'
<1> USE DEF IInv, Goto
<1>1. pc' = [pc EXCEPT ![c] = "initClear"] /\ pc[c] = "initDest"
  OBVIOUS
<1>2. seg[c] \in Segments
  BY <1>1, InSegment
<1>3. /\ mem' \in [Segments -> [src : 0 .. 3, dest : 0 .. 3, msg : Messages]]
      /\ \A s \in Segments :
           /\ mem'[s].src = mem[s].src
           /\ mem'[s].dest = IF s = seg[c] THEN 1 ELSE mem[s].dest
  BY <1>2, SetDestOK DEF TypeOK, Clients
<1>4. \A s \in Segments : mem[s].dest = 0
  BY <1>1 DEF StartOK, Before
<1>5. ASSUME NEW d \in Clients, pc[d] \in Owner PROVE FALSE
  BY <1>4, <1>5, InSegment DEF OwnerOK, Owner, Here, Clients
<1>6. wrote'[seg[c]] = c /\ mem[seg[c]].src = c
  BY <1>1, <1>2 DEF TypeOK, SourceOK, Here
<1>7. wrote' \in [Segments -> 0 .. 3]
  BY <1>2 DEF TypeOK, Clients
<1>t. TypeOK'
  <2>1. is_running' \in [Clients -> BOOLEAN]
    BY DEF TypeOK
  <2>2. pc' \in [Clients -> PC]
    BY <1>1, <1>2, <1>3, <1>4, <1>5, <1>6, <1>7 DEF TypeOK, PC
  <2> QED
    BY <2>1, <2>2, <1>1, <1>2, <1>3, <1>4, <1>5, <1>6, <1>7 DEF TypeOK
<1>c. CountOK'
  BY <1>1, <1>2, <1>3, <1>4, <1>5, <1>6, <1>7 DEF TypeOK, CountOK, Came, Clients, Taking, Owner
<1>s. StartOK'
  BY <1>1, <1>2, <1>3, <1>4, <1>5, <1>6, <1>7 DEF TypeOK, StartOK, Before, Clients
<1>o. OwnerOK'
  BY <1>1, <1>2, <1>3, <1>4, <1>5, <1>6, <1>7 DEF TypeOK, OwnerOK, Owner, Here
<1>p. SourceOK'
  <2>1. ASSUME NEW s \in Segments, mem'[s].dest # 0
        PROVE  /\ wrote'[s] \in Clients
               /\ wrote'[s] # mem'[s].dest
               /\ Passing(s)' \/ mem'[s].src = wrote'[s]
    <3>1. Passing(s) => Passing(s)'
      BY <1>1, <1>2, <1>3, <1>4, <1>5, <1>6, <1>7 DEF TypeOK, Passing
    <3> QED
      BY <2>1, <3>1, <1>1, <1>2, <1>3, <1>4, <1>5, <1>6, <1>7 DEF SourceOK
  <2>2. ASSUME NEW d \in Clients
        PROVE  /\ pc'[d] \in {"setDest", "initDest"} => Here(d)'.src = d
               /\ pc'[d] = "print" => seen'[d].src = wrote'[seg'[d]]
    BY <1>1, <1>2, <1>3, <1>4, <1>5, <1>6, <1>7, InSegment DEF TypeOK, SourceOK, StartOK, Owner, Here
  <2> QED
    BY <2>1, <2>2 DEF SourceOK
<1> QED
  BY <1>t, <1>c, <1>s, <1>o, <1>p

(* Writing the message touches nothing that anybody relies on. *)
LEMMA MessageStep ==
  ASSUME IInv, NEW c \in Clients, NEW l, <<pc[c], l>> \in
                {<<"initClear", "initText">>, <<"initText", "initTextEnd">>, <<"initTextEnd", "loop">>,
                 <<"clear", "text">>, <<"text", "textEnd">>},
         Goto(c, l), NEW v \in Messages, Set(c, "msg", v),
         UNCHANGED <<segs, key, wrote, seg, i, is_running, seen>>
  PROVE  IInv'
<1> USE DEF IInv, Goto
<1>1. /\ pc' = [pc EXCEPT ![c] = l]
      /\ pc[c] \in {"initClear", "initText", "initTextEnd", "clear", "text"}
      /\ l \in {"initText", "initTextEnd", "loop", "text", "textEnd"}
      /\ l \in {"text", "textEnd"} => pc[c] \in {"clear", "text"}
  OBVIOUS
<1>2. seg[c] \in Segments
  BY <1>1, InSegment
<1>3. /\ mem' \in [Segments -> [src : 0 .. 3, dest : 0 .. 3, msg : Messages]]
      /\ \A s \in Segments : mem'[s].src = mem[s].src /\ mem'[s].dest = mem[s].dest
  BY <1>2, SetMsgOK
<1>t. TypeOK'
  <2>1. is_running' \in [Clients -> BOOLEAN]
    BY DEF TypeOK
  <2>2. pc' \in [Clients -> PC]
    BY <1>1, <1>2, <1>3 DEF TypeOK, PC
  <2> QED
    BY <2>1, <2>2, <1>1, <1>2, <1>3 DEF TypeOK
<1>c. CountOK'
  BY <1>1, <1>2, <1>3 DEF TypeOK, CountOK, Came, Clients, Taking, Owner
<1>s. StartOK'
  BY <1>1, <1>2, <1>3 DEF TypeOK, StartOK, Before, Clients
<1>o. OwnerOK'
  BY <1>1, <1>2, <1>3, InSegment DEF TypeOK, OwnerOK, Owner, Here
<1>p. SourceOK'
  <2>1. ASSUME NEW s \in Segments, mem'[s].dest # 0
        PROVE  /\ wrote'[s] \in Clients
               /\ wrote'[s] # mem'[s].dest
               /\ Passing(s)' \/ mem'[s].src = wrote'[s]
    <3>1. Passing(s) => Passing(s)'
      BY <1>1, <1>2, <1>3 DEF TypeOK, Passing
    <3> QED
      BY <2>1, <3>1, <1>1, <1>2, <1>3 DEF SourceOK
  <2>2. ASSUME NEW d \in Clients
        PROVE  /\ pc'[d] \in {"setDest", "initDest"} => Here(d)'.src = d
               /\ pc'[d] = "print" => seen'[d].src = wrote'[seg'[d]]
    BY <1>1, <1>2, <1>3, InSegment DEF TypeOK, SourceOK, Owner, Here
  <2> QED
    BY <2>1, <2>2 DEF SourceOK
<1> QED
  BY <1>t, <1>c, <1>s, <1>o, <1>p

LEMMA LastTextStep ==
  ASSUME IInv, NEW c \in Clients, pc[c] = "textEnd", Goto(c, "loop"),
         NEW v \in Messages, Set(c, "msg", v), i' = [i EXCEPT ![c] = @ + 1],
         UNCHANGED <<segs, key, wrote, seg, is_running, seen>>
  PROVE  IInv'
<1> USE DEF IInv, Goto
<1>1. pc' = [pc EXCEPT ![c] = "loop"] /\ pc[c] = "textEnd"
  OBVIOUS
<1>2. seg[c] \in Segments
  BY <1>1, InSegment
<1>3. /\ mem' \in [Segments -> [src : 0 .. 3, dest : 0 .. 3, msg : Messages]]
      /\ \A s \in Segments : mem'[s].src = mem[s].src /\ mem'[s].dest = mem[s].dest
  BY <1>2, SetMsgOK
<1>4. i' \in [Clients -> 0 .. NumMessages]
  BY <1>1 DEF TypeOK, CountOK, Taking
<1>t. TypeOK'
  <2>1. is_running' \in [Clients -> BOOLEAN]
    BY DEF TypeOK
  <2>2. pc' \in [Clients -> PC]
    BY <1>1, <1>2, <1>3, <1>4 DEF TypeOK, PC
  <2> QED
    BY <2>1, <2>2, <1>1, <1>2, <1>3, <1>4 DEF TypeOK
<1>c. CountOK'
  BY <1>1, <1>2, <1>3, <1>4 DEF TypeOK, CountOK, Came, Clients, Taking, Owner
<1>s. StartOK'
  BY <1>1, <1>2, <1>3, <1>4 DEF TypeOK, StartOK, Before, Clients
<1>o. OwnerOK'
  BY <1>1, <1>2, <1>3, <1>4, InSegment DEF TypeOK, OwnerOK, Owner, Here
<1>p. SourceOK'
  <2>1. ASSUME NEW s \in Segments, mem'[s].dest # 0
        PROVE  /\ wrote'[s] \in Clients
               /\ wrote'[s] # mem'[s].dest
               /\ Passing(s)' \/ mem'[s].src = wrote'[s]
    <3>1. Passing(s) => Passing(s)'
      BY <1>1, <1>2, <1>3, <1>4 DEF TypeOK, Passing
    <3> QED
      BY <2>1, <3>1, <1>1, <1>2, <1>3, <1>4 DEF SourceOK
  <2>2. ASSUME NEW d \in Clients
        PROVE  /\ pc'[d] \in {"setDest", "initDest"} => Here(d)'.src = d
               /\ pc'[d] = "print" => seen'[d].src = wrote'[seg'[d]]
    BY <1>1, <1>2, <1>3, <1>4, InSegment DEF TypeOK, SourceOK, Owner, Here
  <2> QED
    BY <2>1, <2>2 DEF SourceOK
<1> QED
  BY <1>t, <1>c, <1>s, <1>o, <1>p

(* The owner of the token writes its name: no other client relies on the old one. *)
LEMMA SourceStep ==
  ASSUME IInv, NEW c \in Clients, pc[c] = "setSrc", Goto(c, "setDest"),
         Set(c, "src", c), seen' = [seen EXCEPT ![c] = Nothing],
         UNCHANGED <<segs, key, wrote, seg, i, is_running>>
  PROVE  IInv'
<1> USE DEF IInv, Goto
<1>1. pc' = [pc EXCEPT ![c] = "setDest"] /\ pc[c] = "setSrc"
  OBVIOUS
<1>2. seg[c] \in Segments
  BY <1>1, InSegment
<1>3. /\ mem' \in [Segments -> [src : 0 .. 3, dest : 0 .. 3, msg : Messages]]
      /\ \A s \in Segments :
           /\ mem'[s].dest = mem[s].dest
           /\ mem'[s].src = IF s = seg[c] THEN c ELSE mem[s].src
  BY <1>2, SetSrcOK DEF TypeOK, Clients
<1>4. seen' \in [Clients -> [src : 0 .. 3, msg : Messages]]
  BY DEF TypeOK, Nothing, Messages
<1>5. \A d \in Clients \ {c} : pc[d] \in Owner => seg[d] # seg[c]
  BY <1>1, OneOwner DEF Owner
<1>6. seg[3] = seg[c] => pc[3] \notin Before
  BY <1>1, <1>2 DEF StartOK, OwnerOK, Owner, Here, Clients
<1>t. TypeOK'
  <2>1. is_running' \in [Clients -> BOOLEAN]
    BY DEF TypeOK
  <2>2. pc' \in [Clients -> PC]
    BY <1>1, <1>2, <1>3, <1>4, <1>5, <1>6 DEF TypeOK, PC
  <2> QED
    BY <2>1, <2>2, <1>1, <1>2, <1>3, <1>4, <1>5, <1>6 DEF TypeOK
<1>c. CountOK'
  BY <1>1, <1>2, <1>3, <1>4, <1>5, <1>6 DEF TypeOK, CountOK, Came, Clients, Taking, Owner
<1>s. StartOK'
  BY <1>1, <1>2, <1>3, <1>4, <1>5, <1>6 DEF TypeOK, StartOK, Before, Clients
<1>o. OwnerOK'
  BY <1>1, <1>2, <1>3, <1>4, <1>5, <1>6, InSegment DEF TypeOK, OwnerOK, Owner, Here
<1>p. SourceOK'
  <2>1. ASSUME NEW s \in Segments, mem'[s].dest # 0
        PROVE  /\ wrote'[s] \in Clients
               /\ wrote'[s] # mem'[s].dest
               /\ Passing(s)' \/ mem'[s].src = wrote'[s]
    <3>1. /\ Passing(s) => Passing(s)'
          /\ s = seg[c] => Passing(s)'
      BY <1>1, <1>2, <1>3, <1>4, <1>5, <1>6 DEF TypeOK, Passing
    <3> QED
      BY <2>1, <3>1, <1>1, <1>2, <1>3, <1>4, <1>5, <1>6 DEF SourceOK
  <2>2. ASSUME NEW d \in Clients
        PROVE  /\ pc'[d] \in {"setDest", "initDest"} => Here(d)'.src = d
               /\ pc'[d] = "print" => seen'[d].src = wrote'[seg'[d]]
    BY <1>1, <1>2, <1>3, <1>4, <1>5, <1>6, InSegment DEF TypeOK, SourceOK, StartOK, OwnerOK, Before, Owner, Here, Clients
  <2> QED
    BY <2>1, <2>2 DEF SourceOK
<1> QED
  BY <1>t, <1>c, <1>s, <1>o, <1>p

(* The owner gives the token away. *)
LEMMA TokenStep ==
  ASSUME IInv, NEW c \in Clients, pc[c] = "setDest", Goto(c, "clear"),
         Set(c, "dest", Peer(c)), wrote' = [wrote EXCEPT ![seg[c]] = c],
         UNCHANGED <<segs, key, seg, i, is_running, seen>>
  PROVE  IInv'
<1> USE DEF IInv, Goto
<1>1. pc' = [pc EXCEPT ![c] = "clear"] /\ pc[c] = "setDest"
  OBVIOUS
<1>2. seg[c] \in Segments
  BY <1>1, InSegment
<1>3. Peer(c) \in Clients \ {c}
  BY PeerOK
<1>4. /\ mem' \in [Segments -> [src : 0 .. 3, dest : 0 .. 3, msg : Messages]]
      /\ \A s \in Segments :
           /\ mem'[s].src = mem[s].src
           /\ mem'[s].dest = IF s = seg[c] THEN Peer(c) ELSE mem[s].dest
  BY <1>2, <1>3, SetDestOK DEF TypeOK, Clients
<1>5. \A d \in Clients \ {c} : pc[d] \in Owner => seg[d] # seg[c]
  BY <1>1, OneOwner DEF Owner
<1>6. /\ mem[seg[c]].dest # 0 /\ seg[3] = seg[c] /\ pc[3] \notin Before
  BY <1>1, <1>2 DEF StartOK, OwnerOK, Owner, Here, Clients
<1>7. wrote'[seg[c]] = c /\ mem[seg[c]].src = c
  BY <1>1, <1>2 DEF TypeOK, SourceOK, Here
<1>t. TypeOK'
  <2>1. is_running' \in [Clients -> BOOLEAN]
    BY DEF TypeOK
  <2>2. pc' \in [Clients -> PC]
    BY <1>1, <1>2, <1>3, <1>4, <1>5, <1>6, <1>7 DEF TypeOK, PC
  <2> QED
    BY <2>1, <2>2, <1>1, <1>2, <1>3, <1>4, <1>5, <1>6, <1>7 DEF TypeOK
<1>c. CountOK'
  BY <1>1, <1>2, <1>3, <1>4, <1>5, <1>6, <1>7 DEF TypeOK, CountOK, Came, Clients, Taking, Owner
<1>s. StartOK'
  BY <1>1, <1>2, <1>3, <1>4, <1>5, <1>6, <1>7 DEF TypeOK, StartOK, Before, Clients
<1>o. OwnerOK'
  BY <1>1, <1>2, <1>3, <1>4, <1>5, <1>6, <1>7, InSegment DEF TypeOK, OwnerOK, Owner, Here
<1>p. SourceOK'
  <2>1. ASSUME NEW s \in Segments, mem'[s].dest # 0
        PROVE  /\ wrote'[s] \in Clients
               /\ wrote'[s] # mem'[s].dest
               /\ Passing(s)' \/ mem'[s].src = wrote'[s]
    <3>1. s # seg[c] /\ Passing(s) => Passing(s)'
      BY <1>1, <1>2, <1>3, <1>4, <1>5, <1>6, <1>7 DEF TypeOK, Passing
    <3> QED
      BY <2>1, <3>1, <1>1, <1>2, <1>3, <1>4, <1>5, <1>6, <1>7 DEF SourceOK
  <2>2. ASSUME NEW d \in Clients
        PROVE  /\ pc'[d] \in {"setDest", "initDest"} => Here(d)'.src = d
               /\ pc'[d] = "print" => seen'[d].src = wrote'[seg'[d]]
    BY <1>1, <1>2, <1>3, <1>4, <1>5, <1>6, <1>7, InSegment DEF TypeOK, SourceOK, Before, Owner, Here
  <2> QED
    BY <2>1, <2>2 DEF SourceOK
<1> QED
  BY <1>t, <1>c, <1>s, <1>o, <1>p

LEMMA CheckStep ==
  ASSUME IInv, NEW c \in Clients, Check(c)
  PROVE  IInv'
<1> USE DEF IInv, Check, Goto
<1>1. pc[c] = "loop"
  OBVIOUS
<1>2. seg[c] \in Segments
  BY <1>1, InSegment
<1>3. \/ /\ pc' = [pc EXCEPT ![c] = "finish"] /\ UNCHANGED i
      \/ /\ pc' = [pc EXCEPT ![c] = "source"] /\ UNCHANGED i
         /\ Here(c).dest = c /\ i[c] < NumMessages
      \/ /\ i' = [i EXCEPT ![c] = @ + 1] /\ i[c] < NumMessages /\ UNCHANGED pc
  BY DEF Turn
<1>t. TypeOK'
  <2>1. is_running' \in [Clients -> BOOLEAN]
    BY DEF TypeOK
  <2>2. pc' \in [Clients -> PC]
    BY <1>1, <1>2, <1>3 DEF TypeOK, PC
  <2> QED
    BY <2>1, <2>2, <1>1, <1>2, <1>3 DEF TypeOK
<1>c. CountOK'
  BY <1>1, <1>2, <1>3 DEF TypeOK, CountOK, Came, Clients, Taking, Owner
<1>s. StartOK'
  BY <1>1, <1>2, <1>3 DEF TypeOK, StartOK, Before, Clients
<1>o. OwnerOK'
  BY <1>1, <1>2, <1>3 DEF TypeOK, OwnerOK, Owner, Here
<1>p. SourceOK'
  <2>1. ASSUME NEW s \in Segments, mem'[s].dest # 0
        PROVE  /\ wrote'[s] \in Clients
               /\ wrote'[s] # mem'[s].dest
               /\ Passing(s)' \/ mem'[s].src = wrote'[s]
    <3>1. Passing(s) => Passing(s)'
      BY <1>1, <1>2, <1>3 DEF TypeOK, Passing
    <3> QED
      BY <2>1, <3>1, <1>1, <1>2, <1>3 DEF SourceOK
  <2>2. ASSUME NEW d \in Clients
        PROVE  /\ pc'[d] \in {"setDest", "initDest"} => Here(d)'.src = d
               /\ pc'[d] = "print" => seen'[d].src = wrote'[seg'[d]]
    BY <1>1, <1>2, <1>3 DEF TypeOK, SourceOK, Here
  <2> QED
    BY <2>1, <2>2 DEF SourceOK
<1> QED
  BY <1>t, <1>c, <1>s, <1>o, <1>p

(* What the owner reads as source is who gave it the token. *)
LEMMA ReadSourceStep ==
  ASSUME IInv, NEW c \in Clients, pc[c] = "source", Goto(c, "print"),
         seen' = [seen EXCEPT ![c].src = Here(c).src],
         UNCHANGED <<segs, key, mem, wrote, seg, i, is_running>>
  PROVE  IInv'
<1> USE DEF IInv, Goto
<1>1. pc' = [pc EXCEPT ![c] = "print"] /\ pc[c] = "source"
  OBVIOUS
<1>2. seg[c] \in Segments
  BY <1>1, InSegment
<1>3. seen'[c].src = mem[seg[c]].src /\ seen' \in [Clients -> [src : 0 .. 3, msg : Messages]]
  BY <1>2 DEF TypeOK, Here
<1>4. \A d \in Clients \ {c} : seen'[d] = seen[d]
  BY DEF TypeOK
<1>5. mem[seg[c]].dest = c /\ ~Passing(seg[c])
  BY <1>1, OneOwner DEF OwnerOK, Owner, Here, Passing
<1>6. seen'[c].src = wrote[seg[c]]
  BY <1>2, <1>3, <1>5 DEF SourceOK, Clients
<1>t. TypeOK'
  <2>1. is_running' \in [Clients -> BOOLEAN]
    BY DEF TypeOK
  <2>2. pc' \in [Clients -> PC]
    BY <1>1, <1>2, <1>3, <1>4, <1>5, <1>6 DEF TypeOK, PC
  <2> QED
    BY <2>1, <2>2, <1>1, <1>2, <1>3, <1>4, <1>5, <1>6 DEF TypeOK
<1>c. CountOK'
  BY <1>1, <1>2, <1>3, <1>4, <1>5, <1>6 DEF TypeOK, CountOK, Came, Clients, Taking, Owner
<1>s. StartOK'
  BY <1>1, <1>2, <1>3, <1>4, <1>5, <1>6 DEF TypeOK, StartOK, Before, Clients
<1>o. OwnerOK'
  BY <1>1, <1>2, <1>3, <1>4, <1>5, <1>6 DEF TypeOK, OwnerOK, Owner, Here
<1>p. SourceOK'
  <2>1. ASSUME NEW s \in Segments, mem'[s].dest # 0
        PROVE  /\ wrote'[s] \in Clients
               /\ wrote'[s] # mem'[s].dest
               /\ Passing(s)' \/ mem'[s].src = wrote'[s]
    <3>1. Passing(s) => Passing(s)'
      BY <1>1, <1>2, <1>3, <1>4, <1>5, <1>6 DEF TypeOK, Passing
    <3> QED
      BY <2>1, <3>1, <1>1, <1>2, <1>3, <1>4, <1>5, <1>6 DEF SourceOK
  <2>2. ASSUME NEW d \in Clients
        PROVE  /\ pc'[d] \in {"setDest", "initDest"} => Here(d)'.src = d
               /\ pc'[d] = "print" => seen'[d].src = wrote'[seg'[d]]
    BY <1>1, <1>2, <1>3, <1>4, <1>5, <1>6 DEF TypeOK, SourceOK, Here
  <2> QED
    BY <2>1, <2>2 DEF SourceOK
<1> QED
  BY <1>t, <1>c, <1>s, <1>o, <1>p

LEMMA ReadMessageStep ==
  ASSUME IInv, NEW c \in Clients, pc[c] = "print", Goto(c, "setSrc"),
         seen' = [seen EXCEPT ![c].msg = Here(c).msg],
         UNCHANGED <<segs, key, mem, wrote, seg, i, is_running>>
  PROVE  IInv'
<1> USE DEF IInv, Goto
<1>1. pc' = [pc EXCEPT ![c] = "setSrc"] /\ pc[c] = "print"
  OBVIOUS
<1>2. seg[c] \in Segments
  BY <1>1, InSegment
<1>3. seen' \in [Clients -> [src : 0 .. 3, msg : Messages]]
  BY <1>2 DEF TypeOK, Here
<1>4. \A d \in Clients \ {c} : seen'[d] = seen[d]
  BY DEF TypeOK
<1>t. TypeOK'
  <2>1. is_running' \in [Clients -> BOOLEAN]
    BY DEF TypeOK
  <2>2. pc' \in [Clients -> PC]
    BY <1>1, <1>2, <1>3, <1>4 DEF TypeOK, PC
  <2> QED
    BY <2>1, <2>2, <1>1, <1>2, <1>3, <1>4 DEF TypeOK
<1>c. CountOK'
  BY <1>1, <1>2, <1>3, <1>4 DEF TypeOK, CountOK, Came, Clients, Taking, Owner
<1>s. StartOK'
  BY <1>1, <1>2, <1>3, <1>4 DEF TypeOK, StartOK, Before, Clients
<1>o. OwnerOK'
  BY <1>1, <1>2, <1>3, <1>4 DEF TypeOK, OwnerOK, Owner, Here
<1>p. SourceOK'
  <2>1. ASSUME NEW s \in Segments, mem'[s].dest # 0
        PROVE  /\ wrote'[s] \in Clients
               /\ wrote'[s] # mem'[s].dest
               /\ Passing(s)' \/ mem'[s].src = wrote'[s]
    <3>1. Passing(s) => Passing(s)'
      BY <1>1, <1>2, <1>3, <1>4 DEF TypeOK, Passing
    <3> QED
      BY <2>1, <3>1, <1>1, <1>2, <1>3, <1>4 DEF SourceOK
  <2>2. ASSUME NEW d \in Clients
        PROVE  /\ pc'[d] \in {"setDest", "initDest"} => Here(d)'.src = d
               /\ pc'[d] = "print" => seen'[d].src = wrote'[seg'[d]]
    BY <1>1, <1>2, <1>3, <1>4 DEF TypeOK, SourceOK, Here
  <2> QED
    BY <2>1, <2>2 DEF SourceOK
<1> QED
  BY <1>t, <1>c, <1>s, <1>o, <1>p

LEMMA FinishStep ==
  ASSUME IInv, NEW c \in Clients, Finish(c)
  PROVE  IInv'
<1> USE DEF IInv, Finish, Goto
<1>1. pc[c] \in {"finish", "detach"}
  OBVIOUS
<1>2. \E l \in {"detach", "done"} : pc' = [pc EXCEPT ![c] = l]
  OBVIOUS
<1>3. key' \in {key, 0}
  OBVIOUS
<1>t. TypeOK'
  <2>1. is_running' \in [Clients -> BOOLEAN]
    BY DEF TypeOK
  <2>2. pc' \in [Clients -> PC]
    BY <1>1, <1>2, <1>3 DEF TypeOK, PC
  <2> QED
    BY <2>1, <2>2, <1>1, <1>2, <1>3 DEF TypeOK
<1>c. CountOK'
  BY <1>1, <1>2, <1>3 DEF TypeOK, CountOK, Came, Clients, Taking, Owner
<1>s. StartOK'
  BY <1>1, <1>2, <1>3 DEF TypeOK, StartOK, Before, Clients
<1>o. OwnerOK'
  BY <1>1, <1>2, <1>3 DEF TypeOK, OwnerOK, Owner, Here
<1>p. SourceOK'
  <2>1. ASSUME NEW s \in Segments, mem'[s].dest # 0
        PROVE  /\ wrote'[s] \in Clients
               /\ wrote'[s] # mem'[s].dest
               /\ Passing(s)' \/ mem'[s].src = wrote'[s]
    <3>1. Passing(s) => Passing(s)'
      BY <1>1, <1>2, <1>3 DEF TypeOK, Passing
    <3> QED
      BY <2>1, <3>1, <1>1, <1>2, <1>3 DEF SourceOK
  <2>2. ASSUME NEW d \in Clients
        PROVE  /\ pc'[d] \in {"setDest", "initDest"} => Here(d)'.src = d
               /\ pc'[d] = "print" => seen'[d].src = wrote'[seg'[d]]
    BY <1>1, <1>2, <1>3 DEF TypeOK, SourceOK, Here
  <2> QED
    BY <2>1, <2>2 DEF SourceOK
<1> QED
  BY <1>t, <1>c, <1>s, <1>o, <1>p

LEMMA SigIntStep ==
  ASSUME IInv, NEW c \in Clients, SigInt(c)
  PROVE  IInv'
<1> USE DEF IInv, SigInt
<1>1. is_running' \in [Clients -> BOOLEAN]
  BY DEF TypeOK
<1>2. TypeOK'
  BY <1>1 DEF TypeOK
<1>3. CountOK' /\ StartOK' /\ OwnerOK'
  BY DEF CountOK, Came, StartOK, OwnerOK, Here
<1>4. SourceOK'
  BY DEF SourceOK, Passing, Here
<1> QED
  BY <1>2, <1>3, <1>4

(* First and Write, put together from their lines. *)
LEMMA FirstStep ==
  ASSUME IInv, First(3)
  PROVE  IInv'
<1>0. 3 \in Clients
  BY DEF Clients
<1>00. 0 \in 0 .. NumMessages
  BY SharedMemAssumption
<1> USE <1>0
<1>1. CASE pc[3] = "initSrc"
  BY <1>1, FirstSourceStep DEF First
<1>2. CASE pc[3] = "initDest"
  BY <1>2, FirstTokenStep DEF First
<1>3. CASE pc[3] = "initClear"
  BY <1>3, BlankOK, MessageStep DEF First
<1>4. CASE pc[3] = "initText"
  <2>1. Partial(3, 0) \in Messages
    BY <1>00, TextOK
  <2> QED
    BY <1>4, <2>1, MessageStep DEF First, Begin
<1>5. CASE pc[3] = "initTextEnd"
  <2>1. [Partial(3, 0) EXCEPT !.whole = (Here(3).msg = Partial(3, 0))] \in Messages
    <3>1. (Here(3).msg = Partial(3, 0)) \in BOOLEAN
      OBVIOUS
    <3> QED
      BY <1>00, <3>1, TextOK
  <2> QED
    BY <1>5, <2>1, MessageStep DEF First, Complete
<1> QED
  BY <1>1, <1>2, <1>3, <1>4, <1>5 DEF First

LEMMA WriteStep ==
  ASSUME IInv, NEW c \in Clients, Write(c)
  PROVE  IInv'
<1>0. pc[c] \in Taking => i[c] + 1 \in 0 .. NumMessages
  BY DEF IInv, TypeOK, CountOK
<1> USE TextOK
<1>1. CASE pc[c] = "setSrc"
  BY <1>1, SourceStep DEF Write
<1>2. CASE pc[c] = "setDest"
  BY <1>2, TokenStep DEF Write
<1>3. CASE pc[c] = "clear"
  BY <1>3, BlankOK, MessageStep DEF Write
<1>4. CASE pc[c] = "text"
  <2>1. Partial(c, i[c] + 1) \in Messages
    BY <1>0, <1>4 DEF Taking
  <2> QED
    BY <1>4, <2>1, MessageStep DEF Write, Begin
<1>5. CASE pc[c] = "textEnd"
  <2>1. [Partial(c, i[c] + 1) EXCEPT !.whole = (Here(c).msg = Partial(c, i[c] + 1))]
          \in Messages
    BY <1>0, <1>5 DEF Taking
  <2> QED
    BY <1>5, <2>1, LastTextStep DEF Write, Complete
<1> QED
  BY <1>1, <1>2, <1>3, <1>4, <1>5 DEF Write

LEMMA ReadRecordStep ==
  ASSUME IInv, NEW c \in Clients, ReadRecord(c)
  PROVE  IInv'
BY ReadSourceStep, ReadMessageStep DEF ReadRecord

(* No step of a client, and no signal, breaks the invariant. *)
THEOREM NextIInv == IInv /\ [Next]_vars => IInv'
<1> SUFFICES ASSUME IInv, [Next]_vars
             PROVE  IInv'
  OBVIOUS
<1>1. ASSUME NEW c \in Clients, Client(c)
      PROVE  IInv'
  <2>1. CASE ShmGet(c) \/ ShmGetFails(c) \/ ShmAt(c)
    BY <2>1, ShmGetStep, ShmGetFailsStep, ShmAtStep
  <2>2. CASE c = 3 /\ First(c)
    BY <2>2, FirstStep
  <2>3. CASE Check(c)
    BY <2>3, CheckStep
  <2>4. CASE ReadRecord(c)
    BY <2>4, ReadRecordStep
  <2>5. CASE Write(c)
    BY <2>5, WriteStep
  <2>6. CASE Finish(c)
    BY <2>6, FinishStep
  <2> QED
    BY <1>1, <2>1, <2>2, <2>3, <2>4, <2>5, <2>6 DEF Client
<1>2. ASSUME NEW c \in Clients, SigInt(c)
      PROVE  IInv'
  BY <1>2, SigIntStep
<1>3. CASE UNCHANGED vars
  <2> USE <1>3 DEF vars, IInv
  <2>1. is_running' \in [Clients -> BOOLEAN]
    BY DEF TypeOK
  <2>2. TypeOK'
    BY <2>1 DEF TypeOK
  <2>3. CountOK' /\ StartOK' /\ OwnerOK'
    BY DEF CountOK, Came, StartOK, OwnerOK, Here
  <2>4. SourceOK'
    BY DEF SourceOK, Passing, Here
  <2> QED
    BY <2>2, <2>3, <2>4
<1> QED
  BY <1>1, <1>2, <1>3 DEF Next

(* The inductive invariant holds in all reachable states. *)
THEOREM IInvAlways == Spec => []IInv
BY InitIInv, NextIInv, PTL DEF Spec

(* The types: there are never more segments than clients, and a client takes at
   most NumMessages turns. *)
THEOREM TypeCorrect == Spec => []TypeOK
<1>1. IInv => TypeOK
  BY DEF IInv
<1> QED
  BY <1>1, IInvAlways, PTL

(* Between its check and its write of destClientNo a client is alone: the token
   names it, and it names nobody else. *)
THEOREM TokenSafe == Spec => []Token
<1>1. IInv => Token
  BY OneOwner DEF IInv, OwnerOK, Token
<1> QED
  BY <1>1, IInvAlways, PTL

(* The source that a client prints is the one that gave it the token. *)
THEOREM SourceTrue == Spec => []SourceRight
<1>1. ASSUME IInv, NEW c \in Clients, pc[c] = "print"
      PROVE  seen[c].src = wrote[seg[c]] /\ seen[c].src \in Clients \ {c}
  <2>1. seg[c] \in Segments /\ Here(c).dest = c
    BY <1>1, InSegment DEF IInv, OwnerOK, Owner
  <2>2. mem[seg[c]].dest = c /\ c # 0
    BY <2>1 DEF Here, Clients
  <2> QED
    BY <1>1, <2>1, <2>2 DEF IInv, SourceOK
<1>2. IInv => SourceRight
  BY <1>1 DEF SourceRight
<1> QED
  BY <1>2, IInvAlways, PTL

(* Nobody prints from a segment that client 3 has not had. *)
THEOREM StartedByThree == Spec => []ThreeStarts
<1>1. ASSUME IInv, NEW c \in Clients, pc[c] \in Owner
      PROVE  seg[3] = seg[c]
  <2>1. seg[c] \in Segments
    BY <1>1, InSegment DEF Owner
  <2>2. mem[seg[c]].dest # 0
    BY <1>1 DEF IInv, OwnerOK, Here, Clients
  <2> QED
    BY <1>1, <2>1, <2>2 DEF IInv, StartOK
<1>2. IInv => ThreeStarts
  BY <1>1 DEF ThreeStarts
<1> QED
  BY <1>2, IInvAlways, PTL

HIDE SharedMemAssumption

-----------------------------------------------------------------------------
(***************************************************************************)
(* The invariant.  Command 2 may take the end of file for the end of the   *)
(* output because child 1 has a write end from fork on: the pipe's own     *)
(* until it has put it on its stdout, and its stdout from then on.  Child 2*)
(* is forked after child 1, so nobody reads before that.                   *)
(***************************************************************************)
Gone == {"failed", "zombie", "reaped"}
Waited == {"none", "failed", "reaped"}

ForkedInOrder ==
  /\ ppc \in {"args", "pipe", "fork1"} => kpc[1] = "none"
  /\ ppc \in {"args", "pipe", "fork1", "fork2"} => kpc[2] = "none"
  /\ ppc \in {"fork1", "fork2"} => "w" \in fds[Pipe!Parent]
  /\ ppc \notin {"args", "pipe", "fork1", "done"} => kpc[1] # "none"
  /\ ppc \notin {"args", "pipe", "fork1", "fork2", "done"} => kpc[2] # "none"

WriteEndKept ==
  /\ kpc[1] = "dup" => "w" \in fds[1]
  /\ kpc[1] \in {"closeOther", "closeOwn", "exec", "run"} => "stdout" \in fds[1]
  /\ kpc[2] # "none" => kpc[1] # "none"

PipeReaped ==
  /\ ppc = "wait2" => kpc[1] \in Waited
  /\ ppc = "done" => kpc[1] \in Waited /\ kpc[2] \in Waited

PipeInv ==
  /\ Pipe!TypeOK
  /\ ForkedInOrder
  /\ WriteEndKept
  /\ Pipe!WholeOutput
  /\ PipeReaped

LEMMA ProcFacts ==
  /\ Pipe!Kids = {1, 2} /\ Pipe!Parent \notin Pipe!Kids
  /\ {Pipe!Parent} \union Pipe!Kids = {0, 1, 2}
BY DEF Pipe!Kids, Pipe!Parent

LEMMA PipeInitOK ==
  ASSUME Pipe!PipeAssumption, Pipe!Init
  PROVE  PipeInv
<1> USE ProcFacts DEF Pipe!PipeAssumption, Pipe!Init
<1>1. Pipe!TypeOK
  <2>1. ppc \in Pipe!ParentPC /\ kpc \in [Pipe!Kids -> Pipe!KidPC]
    BY DEF Pipe!ParentPC, Pipe!KidPC
  <2>2. fds \in [{Pipe!Parent} \union Pipe!Kids -> SUBSET {"r", "w", "stdin", "stdout"}]
    OBVIOUS
  <2>3. held \in 0 .. PipeCap /\ written \in 0 .. MaxOut /\ got \in Nat
    OBVIOUS
  <2>4. eof \in BOOLEAN
    OBVIOUS
  <2> QED
    BY <2>1, <2>2, <2>3, <2>4 DEF Pipe!TypeOK
<1>2. ForkedInOrder /\ WriteEndKept /\ PipeReaped
  BY DEF ForkedInOrder, WriteEndKept, PipeReaped, Waited
<1>3. Pipe!WholeOutput
  BY DEF Pipe!WholeOutput
<1> QED
  BY <1>1, <1>2, <1>3 DEF PipeInv

(* The parent's steps do not touch the stream. *)
LEMMA PipeParentOK ==
  ASSUME Pipe!PipeAssumption, PipeInv, Pipe!ParentStep
  PROVE  PipeInv'
<1> USE ProcFacts DEF PipeInv, Pipe!TypeOK, Pipe!ParentPC, Pipe!KidPC
<1>1. CASE Pipe!Args \/ Pipe!MakePipe
  <2> USE DEF Pipe!Args, Pipe!MakePipe, Pipe!kids, Pipe!stream
  <2>1. Pipe!TypeOK'
    BY <1>1 DEF Pipe!Parent
  <2>2. ForkedInOrder'
    BY <1>1 DEF ForkedInOrder, Pipe!Parent
  <2>3. WriteEndKept' /\ PipeReaped'
    BY <1>1 DEF ForkedInOrder, WriteEndKept, PipeReaped, Waited, Pipe!Parent
  <2>4. Pipe!WholeOutput'
    BY <1>1 DEF Pipe!WholeOutput
  <2> QED
    BY <2>1, <2>2, <2>3, <2>4
<1>2. CASE Pipe!Fork(1, "fork1", "fork2") \/ Pipe!Fork(2, "fork2", "closeR")
  <2> USE DEF Pipe!Fork, Pipe!stream
  <2>1. Pipe!TypeOK'
    BY <1>2 DEF Pipe!Parent
  <2>2. ForkedInOrder'
    BY <1>2 DEF ForkedInOrder, Pipe!Parent
  <2>3. WriteEndKept' /\ PipeReaped'
    BY <1>2 DEF ForkedInOrder, WriteEndKept, PipeReaped, Waited, Pipe!Parent
  <2>4. Pipe!WholeOutput'
    BY <1>2 DEF Pipe!WholeOutput, ForkedInOrder
  <2> QED
    BY <2>1, <2>2, <2>3, <2>4
<1>3. CASE Pipe!ParentCloseRead \/ Pipe!ParentCloseWrite
  <2> USE DEF Pipe!ParentCloseRead, Pipe!ParentCloseWrite, Pipe!Close, Pipe!stream
  <2>1. Pipe!TypeOK'
    BY <1>3 DEF Pipe!Parent
  <2>2. ForkedInOrder' /\ WriteEndKept' /\ PipeReaped'
    BY <1>3 DEF ForkedInOrder, WriteEndKept, PipeReaped, Waited, Pipe!Parent
  <2>3. Pipe!WholeOutput'
    BY <1>3 DEF Pipe!WholeOutput
  <2> QED
    BY <2>1, <2>2, <2>3
<1>4. ASSUME NEW k \in Pipe!Kids, NEW here, NEW next, Pipe!Wait(k, here, next),
             \/ k = 1 /\ here = "wait1" /\ next = "wait2"
             \/ k = 2 /\ here = "wait2" /\ next = "done"
      PROVE  PipeInv'
  <2> USE DEF Pipe!Wait, Pipe!Awaited, Pipe!Left, Pipe!stream
  <2>1. Pipe!TypeOK'
    BY <1>4
  <2>2. ForkedInOrder' /\ WriteEndKept'
    BY <1>4 DEF ForkedInOrder, WriteEndKept
  <2>3. PipeReaped'
    BY <1>4 DEF PipeReaped, Waited, ForkedInOrder
  <2>4. Pipe!WholeOutput'
    BY <1>4 DEF Pipe!WholeOutput
  <2> QED
    BY <2>1, <2>2, <2>3, <2>4
<1> QED
  BY <1>1, <1>2, <1>3, <1>4 DEF Pipe!ParentStep

LEMMA PipeKidOK ==
  ASSUME Pipe!PipeAssumption, PipeInv, NEW k \in Pipe!Kids, Pipe!KidStep(k)
  PROVE  PipeInv'
<1> USE ProcFacts DEF PipeInv, Pipe!TypeOK, Pipe!ParentPC, Pipe!KidPC
<1>1. CASE Pipe!Dup(k) \/ Pipe!KidCloseOther(k) \/ Pipe!KidCloseOwn(k)
  <2> USE DEF Pipe!Dup, Pipe!KidCloseOther, Pipe!KidCloseOwn, Pipe!Close, Pipe!Own, Pipe!Other,
        Pipe!Std, Pipe!stream
  <2>1. Pipe!TypeOK'
    BY <1>1
  <2>2. ForkedInOrder' /\ PipeReaped'
    BY <1>1 DEF ForkedInOrder, PipeReaped, Waited, Pipe!Parent
  <2>3. WriteEndKept'
    BY <1>1 DEF WriteEndKept
  <2>4. Pipe!WholeOutput'
    BY <1>1 DEF Pipe!WholeOutput
  <2> QED
    BY <2>1, <2>2, <2>3, <2>4
<1>2. CASE Pipe!Exec(k) \/ Pipe!CommandEnds(k)
  <2> USE DEF Pipe!Exec, Pipe!CommandEnds, Pipe!Exit, Pipe!stream
  <2>1. Pipe!TypeOK'
    BY <1>2
  <2>2. ForkedInOrder' /\ PipeReaped'
    BY <1>2 DEF ForkedInOrder, PipeReaped, Waited, Pipe!Parent
  <2>3. WriteEndKept'
    BY <1>2 DEF WriteEndKept
  <2>4. Pipe!WholeOutput'
    BY <1>2 DEF Pipe!WholeOutput
  <2> QED
    BY <2>1, <2>2, <2>3, <2>4
<1>3. CASE k = 1 /\ Pipe!WriteOut
  <2> USE DEF Pipe!WriteOut, Pipe!Exit, Pipe!kids, Pipe!stream, Pipe!PipeAssumption
  <2>1. Pipe!TypeOK'
    BY <1>3
  <2>2. ForkedInOrder' /\ PipeReaped'
    BY <1>3 DEF ForkedInOrder, PipeReaped, Waited, Pipe!Parent
  <2>3. WriteEndKept'
    BY <1>3 DEF WriteEndKept
  <2>4. Pipe!WholeOutput'
    BY <1>3 DEF Pipe!WholeOutput
  <2> QED
    BY <2>1, <2>2, <2>3, <2>4
<1>4. CASE k = 2 /\ Pipe!ReadIn
  <2> USE DEF Pipe!ReadIn, Pipe!kids, Pipe!PipeAssumption
  <2>1. Pipe!TypeOK'
    <3>1. held' \in 0 .. PipeCap /\ got' \in Nat
      BY <1>4
    <3>2. eof' \in BOOLEAN
      BY <1>4
    <3> QED
      BY <1>4, <3>1, <3>2
  <2>2. ForkedInOrder' /\ PipeReaped' /\ WriteEndKept'
    BY <1>4 DEF ForkedInOrder, PipeReaped, WriteEndKept
  <2>3. Pipe!WholeOutput'
    <3>1. CASE held > 0
      BY <1>4, <3>1 DEF Pipe!WholeOutput
    <3>2. CASE held = 0 /\ ~Pipe!WriteOpen
      <4>1. \A p \in {0, 1, 2} : "w" \notin fds[p] /\ "stdout" \notin fds[p]
        BY <3>2 DEF Pipe!WriteOpen
      <4>2. kpc[1] \in Gone
        BY <1>4, <4>1 DEF WriteEndKept, Gone
      <4> QED
        BY <1>4, <3>2, <4>2 DEF Pipe!WholeOutput, Gone
    <3> QED
      BY <1>4, <3>1, <3>2
  <2> QED
    BY <2>1, <2>2, <2>3
<1> QED
  BY <1>1, <1>2, <1>3, <1>4 DEF Pipe!KidStep

(* Every process keeps what the others rely on. *)
THEOREM PipeInvariant == ASSUME Pipe!PipeAssumption PROVE Pipe!Spec => []PipeInv
<1>1. Pipe!Init => PipeInv
  BY PipeInitOK
<1>2. PipeInv /\ [Pipe!Next]_(Pipe!vars) => PipeInv'
  <2> SUFFICES ASSUME PipeInv, [Pipe!Next]_(Pipe!vars) PROVE PipeInv'
    OBVIOUS
  <2>1. CASE UNCHANGED Pipe!vars
    BY <2>1 DEF PipeInv, Pipe!TypeOK, ForkedInOrder, WriteEndKept, Pipe!WholeOutput, PipeReaped,
       Pipe!vars, Pipe!kids, Pipe!stream
  <2>2. CASE Pipe!Next
    BY <2>2, PipeParentOK, PipeKidOK DEF Pipe!Next
  <2> QED
    BY <2>1, <2>2
<1> QED
  BY <1>1, <1>2, PTL DEF Pipe!Spec

(* The pipe never holds more than it can, and everything has its type. *)
THEOREM PipeTypes == ASSUME Pipe!PipeAssumption PROVE Pipe!Spec => []Pipe!TypeOK
<1>1. PipeInv => Pipe!TypeOK
  BY DEF PipeInv
<1> QED
  BY <1>1, PipeInvariant, PTL

(* The end of the input of command 2 is the end of the output of command 1,
   however the forks, closes and starts of the three processes interleave. *)
THEOREM OutputWhole == ASSUME Pipe!PipeAssumption PROVE Pipe!Spec => []Pipe!WholeOutput
<1>1. PipeInv => Pipe!WholeOutput
  BY DEF PipeInv
<1> QED
  BY <1>1, PipeInvariant, PTL

(* The program leaves no child behind, with failing forks too: the wait for a pid
   of -1 takes any child. *)
THEOREM NobodyLeft == ASSUME Pipe!PipeAssumption PROVE Pipe!Spec => []Pipe!NoneLeft
<1>1. PipeInv => Pipe!NoneLeft
  BY ProcFacts DEF PipeInv, PipeReaped, Waited, Pipe!NoneLeft, Pipe!Left
<1> QED
  BY <1>1, PipeInvariant, PTL

-----------------------------------------------------------------------------
(***************************************************************************)
(* Theorems about TravelLaps.  TypeOK is inductive: the distances are not  *)
(* negative on the tracks 1 to 5, so that drive only takes from a tank.    *)
(***************************************************************************)

(* No drive puts anything into the tank. *)
LEMMA ConsumedNat ==
  ASSUME Laps!TypeOK
  PROVE  Laps!Consumed \in Nat
<1>1. car \in {1, 2, 3, 4} /\ track \in 1 .. 5
  BY DEF Laps!TypeOK, Laps!TankHolds, Laps!Cars
<1>2. Laps!CityUse[car] \in Nat /\ Laps!HighwayUse[car] \in Nat
  BY <1>1 DEF Laps!CityUse, Laps!HighwayUse
<1>3. Laps!cityDistance \in Nat /\ Laps!highwayDistance \in Nat
  BY <1>1 DEF Laps!cityDistance, Laps!highwayDistance
<1>4. \A a, b \in Nat : a * b \in Nat
  OBVIOUS
<1>5. /\ Laps!CityUse[car] * Laps!cityDistance \in Nat
      /\ Laps!HighwayUse[car] * Laps!highwayDistance \in Nat
  BY <1>2, <1>3, <1>4
<1> QED
  BY <1>5 DEF Laps!Consumed

(* Filling leaves at most what the tank holds. *)
LEMMA FilledOK == \A x \in 0 .. Laps!Full : Laps!Filled(x) \in 0 .. Laps!Full
<1> TAKE x \in 0 .. Laps!Full
<1>1. Laps!Full = 5000 /\ x \in Nat
  BY DEF Laps!Full
<1>2. Laps!Filled(x) = Laps!Full
  BY <1>1 DEF Laps!Filled
<1> QED
  BY <1>1, <1>2

(* Driving leaves no more than there was and not less than nothing. *)
LEMMA RestOK == \A x \in 0 .. Laps!Full, y \in Nat : Laps!Rest(x, y) \in 0 .. Laps!Full
<1> TAKE x \in 0 .. Laps!Full, y \in Nat
<1>1. Laps!Full \in Nat
  BY DEF Laps!Full
<1> QED
  BY <1>1 DEF Laps!Rest

LEMMA CarOK ==
  ASSUME Laps!TypeOK, NEW next \in Laps!Legs \union {"track"}, Laps!NextCar(next)
  PROVE  car' \in Laps!Cars /\ lpc' \in Laps!Legs \union {"test", "track", "report"}
BY DEF Laps!TypeOK, Laps!NextCar, Laps!Legs, Laps!Cars

LEMMA LapStepOK == Laps!TypeOK /\ [Laps!Next]_(Laps!lapvars) => Laps!TypeOK'
<1> SUFFICES ASSUME Laps!TypeOK, [Laps!Next]_(Laps!lapvars) PROVE Laps!TypeOK'
  OBVIOUS
<1>1. CASE UNCHANGED Laps!lapvars
  BY <1>1 DEF Laps!TypeOK, Laps!TankHolds, Laps!lapvars
<1>2. CASE Laps!LapTest
  BY <1>2 DEF Laps!LapTest, Laps!TypeOK, Laps!TankHolds, Laps!Legs
<1>3. CASE Laps!EmptyFuel
  <2>1. Laps!TankHolds'
    BY <1>3 DEF Laps!EmptyFuel, Laps!TypeOK, Laps!TankHolds, Laps!Full
  <2> QED
    BY <1>3, <2>1, CarOK DEF Laps!EmptyFuel, Laps!TypeOK, Laps!Legs
<1>4. CASE Laps!AddFuel
  <2>2. Laps!TankHolds'
    BY <1>4, FilledOK DEF Laps!AddFuel, Laps!TypeOK, Laps!TankHolds
  <2>3. PICK next \in Laps!Legs : Laps!NextCar(next)
    BY <1>4 DEF Laps!AddFuel, Laps!Legs
  <2> QED
    BY <1>4, <2>2, <2>3, CarOK DEF Laps!AddFuel, Laps!TypeOK
<1>5. CASE Laps!Drive
  <2>2. Laps!TankHolds'
    BY <1>5, RestOK, ConsumedNat DEF Laps!Drive, Laps!TypeOK, Laps!TankHolds
  <2>3. PICK next \in Laps!Legs \union {"track"} : Laps!NextCar(next)
    BY <1>5 DEF Laps!Drive, Laps!Legs
  <2> QED
    BY <1>5, <2>2, <2>3, CarOK DEF Laps!Drive, Laps!TypeOK
<1>6. CASE Laps!NextTrack
  <2>1. \A x \in 1 .. 5 : ((x + 1) % 5) + 1 \in 1 .. 5
    OBVIOUS
  <2> QED
    BY <1>6, <2>1 DEF Laps!NextTrack, Laps!TypeOK, Laps!TankHolds, Laps!Legs
<1>7. CASE Laps!Stop
  BY <1>7 DEF Laps!Stop, Laps!TypeOK, Laps!TankHolds
<1> QED
  BY <1>1, <1>2, <1>3, <1>4, <1>5, <1>6, <1>7 DEF Laps!Next

(* Whatever the lap in which ctrl-C comes: everything keeps its type. *)
THEOREM LapTypes == Laps!Spec => []Laps!TypeOK
<1>1. Laps!Init => Laps!TypeOK
  BY DEF Laps!Init, Laps!TypeOK, Laps!TankHolds, Laps!Legs, Laps!Cars, Laps!Full
<1> QED
  BY <1>1, LapStepOK, PTL DEF Laps!Spec

(* Whatever the lap in which ctrl-C comes: no tank holds more than 50 litres
   or less than none, and a lap never has a negative part. *)
THEOREM TanksHold == Laps!Spec => []Laps!TankHolds
<1>1. Laps!TypeOK => Laps!TankHolds
  BY DEF Laps!TypeOK
<1> QED
  BY <1>1, LapTypes, PTL

-----------------------------------------------------------------------------
(***************************************************************************)
(* Lab6.  A client has answered a prefix of "Pid", "Sleep", and the text   *)
(* that is under way to it, or that it handles, is the next one due.  The  *)
(* server's place in its program says which one that is and who has it, as *)
(* long as the client lives; a client is with one server only, waiting or  *)
(* accepted.                                                               *)
(***************************************************************************)
PidOnly == <<"Pid">>
PidSleep == <<"Pid", "Sleep">>

LockTypes ==
  /\ path \in Servers \union {Nobody}
  /\ spc \in [Servers -> Lock!ServerPC]
  /\ backlog \in [Servers -> Seq(Callers)]
  /\ conn \in [Servers -> Callers \union {Nobody}]
  /\ cpc \in [Callers -> Lock!ClientPC]
  /\ peer \in [Callers -> Servers \union {Nobody}]
  /\ heard \in [Callers -> Seq(Lock!Request)]
  /\ told \in [Callers -> Seq(Lock!Request)]
  /\ toClient \in [Callers -> Seq(Lock!Request)]
  /\ toServer \in [Callers -> Seq({"pid", "Done"})]

Due(c) ==
  IF told[c] = <<>> THEN PidOnly ELSE IF told[c] = PidOnly THEN <<"Sleep">> ELSE <<"Quit">>
Ordered(c) ==
  /\ told[c] \in {<<>>, PidOnly, PidSleep}
  /\ toClient[c] \in {<<>>, Due(c)}
  /\ cpc[c] = "handle" => heard[c] = Due(c) /\ toClient[c] = <<>>
  /\ cpc[c] = "sleep" => told[c] = PidOnly /\ toClient[c] = <<>>
  /\ cpc[c] = "off" => /\ peer[c] = Nobody /\ told[c] = <<>>
                       /\ toClient[c] = <<>> /\ toServer[c] = <<>>
ClientOrder == \A c \in Callers : Ordered(c)

Waiting(c) ==
  cpc[c] \in {"read", "done"} /\ told[c] = <<>> /\ toClient[c] = <<>> /\ toServer[c] = <<>>
OneServer ==
  \A s \in Servers :
    /\ \A c \in Callers : Lock!Waits(c, s) => peer[c] = s /\ Waiting(c) /\ conn[s] # c
    /\ \A c \in Callers : conn[s] = c => peer[c] = s
    /\ \A m, j \in DOMAIN backlog[s] : backlog[s][m] = backlog[s][j] => m = j

Idle(c) == cpc[c] = "read" /\ toClient[c] = <<>> /\ toServer[c] = <<>>
Asked(c) ==
  /\ toServer[c] = <<>>
  /\ (cpc[c] = "read" /\ toClient[c] = Due(c)) \/ cpc[c] \in {"handle", "sleep"}
Answered(c) == cpc[c] = "read" /\ toClient[c] = <<>> /\ Len(toServer[c]) = 1
Obeys(c) ==
  /\ toServer[c] = <<>>
  /\ (cpc[c] = "read" /\ toClient[c] = Due(c)) \/ cpc[c] \in {"handle", "close"}

Phase(s, c) ==
  \/ spc[s] = "Pid" /\ told[c] = <<>> /\ Idle(c)
  \/ spc[s] = "readPid" /\ told[c] = <<>> /\ Asked(c)
  \/ spc[s] = "readPid" /\ told[c] = PidOnly /\ Answered(c)
  \/ spc[s] = "Sleep" /\ told[c] = PidOnly /\ Idle(c)
  \/ spc[s] = "readDone" /\ told[c] = PidOnly /\ Asked(c)
  \/ spc[s] = "readDone" /\ told[c] = PidSleep /\ Answered(c)
  \/ spc[s] = "Quit" /\ told[c] = PidSleep /\ Idle(c)
  \/ spc[s] = "close" /\ told[c] = PidSleep /\ Obeys(c)
Phases ==
  \A s \in Servers :
    /\ \A c \in Callers : conn[s] = c /\ Lock!COpen(c) => Phase(s, c)
    /\ conn[s] # Nobody <=>
         spc[s] \in {"Pid", "readPid", "Sleep", "readDone", "Quit", "close"}

LockInv == LockTypes /\ ClientOrder /\ OneServer /\ Phases

SameFields(c) ==
  /\ cpc'[c] = cpc[c] /\ peer'[c] = peer[c] /\ heard'[c] = heard[c]
  /\ told'[c] = told[c] /\ toClient'[c] = toClient[c] /\ toServer'[c] = toServer[c]

LEMMA SameClient ==
  ASSUME NEW c \in Callers, SameFields(c)
  PROVE  /\ Ordered(c)' <=> Ordered(c)
         /\ Waiting(c)' <=> Waiting(c)
         /\ Lock!COpen(c)' <=> Lock!COpen(c)
         /\ \A s \in Servers : spc'[s] = spc[s] => (Phase(s, c)' <=> Phase(s, c))
<1> USE DEF SameFields
<1>1. /\ Due(c)' = Due(c) /\ (Lock!COpen(c)' <=> Lock!COpen(c)) /\ (Idle(c)' <=> Idle(c))
      /\ (Answered(c)' <=> Answered(c)) /\ (Waiting(c)' <=> Waiting(c))
  BY DEF Due, Lock!COpen, Idle, Answered, Waiting
<1>2. (Asked(c)' <=> Asked(c)) /\ (Obeys(c)' <=> Obeys(c)) /\ (Ordered(c)' <=> Ordered(c))
  BY <1>1 DEF Asked, Obeys, Ordered
<1> QED
  BY <1>1, <1>2 DEF Phase

LEMMA Texts ==
  /\ PidOnly # <<>> /\ PidSleep # <<>> /\ PidSleep # PidOnly
  /\ <<"Sleep">> # PidOnly /\ <<"Quit">> # PidOnly
  /\ <<"Quit">> # <<"Sleep">> /\ <<"Sleep">> # <<>> /\ <<"Quit">> # <<>>
  /\ Append(<<>>, "Pid") = PidOnly /\ Append(PidOnly, "Sleep") = PidSleep
  /\ Append(<<>>, "Sleep") = <<"Sleep">> /\ Append(<<>>, "Quit") = <<"Quit">>
  /\ Len(<<>>) = 0 /\ Len(PidOnly) = 1 /\ Len(<<"Sleep">>) = 1 /\ Len(<<"Quit">>) = 1
  /\ PidOnly \in Seq(Lock!Request) /\ PidSleep \in Seq(Lock!Request)
<1>1. Len(PidSleep) = 2 /\ Len(PidOnly) = 1 /\ Len(<<>>) = 0
  BY DEF PidOnly, PidSleep
<1>2. PidOnly[1] = "Pid" /\ <<"Sleep">>[1] = "Sleep" /\ <<"Quit">>[1] = "Quit"
  BY DEF PidOnly
<1>3. Len(<<"Sleep">>) = 1 /\ Len(<<"Quit">>) = 1
  OBVIOUS
<1>4. Append(<<>>, "Pid") = PidOnly /\ Append(PidOnly, "Sleep") = PidSleep
  <2>1. Append(<<>>, "Pid") = <<"Pid">>
    OBVIOUS
  <2>2. Append(<<"Pid">>, "Sleep") = <<"Pid", "Sleep">>
    <3> DEFINE a == Append(<<"Pid">>, "Sleep")
               b == <<"Pid", "Sleep">>
    <3>1. <<"Pid">> \in Seq(Lock!Request) /\ "Sleep" \in Lock!Request /\ b \in Seq(Lock!Request)
      BY DEF Lock!Request
    <3>2. /\ a \in Seq(Lock!Request) /\ Len(a) = Len(<<"Pid">>) + 1
          /\ \A m \in 1 .. Len(<<"Pid">>) : a[m] = <<"Pid">>[m]
          /\ a[Len(<<"Pid">>) + 1] = "Sleep"
      BY <3>1, AppendProperties
    <3>3. /\ Len(<<"Pid">>) = 1 /\ <<"Pid">>[1] = "Pid"
          /\ Len(b) = 2 /\ b[1] = "Pid" /\ b[2] = "Sleep"
      OBVIOUS
    <3> HIDE DEF a, b
    <3>4. Len(a) = Len(b) /\ \A m \in 1 .. Len(a) : a[m] = b[m]
      <4>1. Len(a) = 2 /\ a[1] = "Pid" /\ a[2] = "Sleep"
        BY <3>2, <3>3
      <4>2. \A m \in 1 .. 2 : m = 1 \/ m = 2
        OBVIOUS
      <4> QED
        BY <3>3, <4>1, <4>2
    <3>5. a = b
      BY <3>1, <3>2, <3>4, SeqEqual
    <3> QED
      BY <3>5 DEF a, b
  <2> QED
    BY <2>1, <2>2 DEF PidOnly, PidSleep
<1>5. Append(<<>>, "Sleep") = <<"Sleep">> /\ Append(<<>>, "Quit") = <<"Quit">>
  OBVIOUS
<1>6. PidOnly \in Seq(Lock!Request) /\ PidSleep \in Seq(Lock!Request)
  BY DEF PidOnly, PidSleep, Lock!Request
<1> QED
  BY <1>1, <1>2, <1>3, <1>4, <1>5, <1>6

-----------------------------------------------------------------------------
(* A client is accepted by one server at most, and then waits for none.    *)
LEMMA OnlyHere ==
  ASSUME OneServer, NEW s \in Servers, NEW c \in Callers, conn[s] = c
  PROVE  /\ \A t \in Servers : conn[t] = c => t = s
         /\ \A t \in Servers : ~Lock!Waits(c, t)
BY DEF OneServer

LEMMA LockInitOK ==
  ASSUME Lock!LockAssumption, Lock!Init
  PROVE  LockInv
<1> USE DEF Lock!Init
<1>1. LockTypes
  <2>1. <<>> \in Seq(Callers) /\ <<>> \in Seq(Lock!Request) /\ <<>> \in Seq({"pid", "Done"})
    BY EmptySeq
  <2> QED
    BY <2>1 DEF LockTypes, Lock!ServerPC, Lock!ClientPC
<1>2. ClientOrder
  BY DEF ClientOrder, Ordered
<1>3. \A s \in Servers : DOMAIN backlog[s] = {}
  <2>1. DOMAIN <<>> = {}
    OBVIOUS
  <2> QED
    BY <2>1
<1>4. OneServer /\ Phases
  BY <1>3 DEF OneServer, Phases, Lock!Waits, Lock!LockAssumption, Lock!COpen
<1> QED
  BY <1>1, <1>2, <1>4 DEF LockInv

(* A step of client c alone. *)
LEMMA ClientMoves ==
  ASSUME LockInv, NEW c \in Callers, UNCHANGED Lock!server, LockTypes',
         \A d \in Callers : d # c => SameFields(d),
         peer' = peer, Ordered(c)',
         \A s \in Servers : Lock!Waits(c, s) => Waiting(c)',
         \A s \in Servers : conn[s] = c /\ Lock!COpen(c)' => Phase(s, c)'
  PROVE  LockInv'
<1> USE DEF LockInv, Lock!server
<1>1. ClientOrder'
  BY SameClient DEF ClientOrder
<1>2. OneServer'
  <2>1. \A d \in Callers, s \in Servers : Lock!Waits(d, s)' <=> Lock!Waits(d, s)
    BY DEF Lock!Waits
  <2> QED
    BY <2>1, SameClient DEF OneServer
<1>3. Phases'
  BY SameClient DEF Phases
<1> QED
  BY <1>1, <1>2, <1>3

(* A step of server s that moves its conversation with client c on. *)
LEMMA ServerMoves ==
  ASSUME LockInv, NEW s \in Servers, NEW c \in Callers, conn[s] = c, c # Nobody,
         NEW l \in {"Pid", "readPid", "Sleep", "readDone", "Quit", "close"},
         Lock!SGoto(s, l), UNCHANGED <<backlog, conn, Lock!client>>, LockTypes',
         \A d \in Callers : d # c => SameFields(d),
         Ordered(c)', Lock!COpen(c) => Phase(s, c)'
  PROVE  LockInv'
<1> USE DEF LockInv, Lock!client
<1>1. ClientOrder'
  BY SameClient DEF ClientOrder
<1>2. OneServer'
  <2>1. \A d \in Callers, t \in Servers : Lock!Waits(d, t)' <=> Lock!Waits(d, t)
    BY DEF Lock!Waits
  <2>2. \A d \in Callers, t \in Servers : Lock!Waits(d, t) => d # c
    BY OnlyHere
  <2> QED
    BY <2>1, <2>2, SameClient DEF OneServer
<1>3. Phases'
  <2>1. spc'[s] = l /\ \A t \in Servers : t # s => spc'[t] = spc[t]
    BY DEF Lock!SGoto, LockTypes
  <2>2. \A t \in Servers : t # s => conn[t] # c
    BY OnlyHere
  <2>3. Lock!COpen(c)' <=> Lock!COpen(c)
    BY DEF Lock!COpen
  <2>4. ASSUME NEW t \in Servers, NEW d \in Callers, conn'[t] = d, Lock!COpen(d)'
        PROVE  Phase(t, d)'
    <3>1. CASE t = s
      BY <2>3, <2>4, <3>1
    <3>2. CASE t # s
      BY <2>1, <2>2, <2>4, <3>2, SameClient DEF Phases
    <3> QED
      BY <3>1, <3>2
  <2>5. \A t \in Servers : conn'[t] # Nobody <=>
           spc'[t] \in {"Pid", "readPid", "Sleep", "readDone", "Quit", "close"}
    BY <2>1 DEF Phases
  <2> QED
    BY <2>4, <2>5 DEF Phases
<1> QED
  BY <1>1, <1>2, <1>3

(* A step of server s before it has accepted, or by which it ends. *)
LEMMA ServerAlone ==
  ASSUME LockInv, Lock!LockAssumption, NEW s \in Servers, UNCHANGED <<Lock!client,
         Lock!socket>>,
         path' \in Servers \union {Nobody},
         NEW l \in {"bind", "listen", "accept", "unlink", "done"}, Lock!SGoto(s, l),
         \/ /\ UNCHANGED <<backlog, conn>>
            /\ spc[s] \notin {"Pid", "readPid", "Sleep", "readDone", "Quit", "close"}
         \/ /\ backlog' = [backlog EXCEPT ![s] = <<>>]
            /\ conn' = [conn EXCEPT ![s] = Nobody]
  PROVE  LockInv'
<1> USE DEF LockInv, Lock!client, Lock!socket
<1>1. \A c \in Callers : SameFields(c)
  BY DEF SameFields
<1>2. LockTypes'
  <2>1. spc' \in [Servers -> Lock!ServerPC]
    BY DEF LockTypes, Lock!SGoto, Lock!ServerPC
  <2>2. backlog' \in [Servers -> Seq(Callers)] /\ conn' \in [Servers -> Callers \union {Nobody}]
    <3>1. <<>> \in Seq(Callers)
      BY EmptySeq
    <3> QED
      BY <3>1 DEF LockTypes
  <2> QED
    BY <2>1, <2>2 DEF LockTypes
<1>3. ClientOrder'
  BY <1>1, SameClient DEF ClientOrder
<1>4. /\ \A t \in Servers : conn'[t] = conn[t] \/ (t = s /\ conn'[t] = Nobody)
      /\ \A t \in Servers : backlog'[t] = backlog[t] \/ backlog'[t] = <<>>
  BY DEF LockTypes
<1>5. \A c \in Callers : c # Nobody
  BY DEF Lock!LockAssumption
<1>6. OneServer'
  <2>1. DOMAIN <<>> = {}
    BY EmptySeq
  <2>2. \A c \in Callers, t \in Servers : Lock!Waits(c, t)' => Lock!Waits(c, t)
    BY <1>4, <2>1 DEF Lock!Waits
  <2> QED
    BY <1>1, <1>4, <1>5, <2>1, <2>2, SameClient DEF OneServer
<1>7. Phases'
  <2>1. spc'[s] = l /\ \A t \in Servers : t # s => spc'[t] = spc[t]
    BY DEF Lock!SGoto, LockTypes
  <2>2. conn'[s] = Nobody /\ \A t \in Servers : t # s => conn'[t] = conn[t]
    BY DEF Phases, LockTypes
  <2> QED
    BY <1>1, <1>5, <2>1, <2>2, SameClient DEF Phases
<1> QED
  BY <1>2, <1>3, <1>6, <1>7

(* Accept takes the client that has waited longest; it has heard nothing yet. *)
LEMMA AcceptOK ==
  ASSUME Lock!LockAssumption, LockInv, NEW s \in Servers, Lock!Accept(s)
  PROVE  LockInv'
<1> USE DEF LockInv, Lock!Accept, Lock!client, Lock!socket
<1> DEFINE rest == Tail(backlog[s])
<1>1. /\ backlog[s] \in Seq(Callers) /\ backlog[s] # <<>>
      /\ DOMAIN backlog[s] = 1 .. Len(backlog[s])
  BY LenProperties DEF LockTypes
<1>0. PICK c \in Callers : c = Head(backlog[s])
  BY <1>1, HeadTailProperties
<1>2. /\ rest \in Seq(Callers) /\ Len(rest) = Len(backlog[s]) - 1
      /\ \A m \in 1 .. Len(rest) : rest[m] = backlog[s][m + 1]
      /\ Len(backlog[s]) \in Nat \ {0}
      /\ c = backlog[s][1]
  BY <1>0, <1>1, HeadTailProperties, EmptySeq
<1>3. DOMAIN rest = 1 .. Len(rest)
  BY <1>2, LenProperties
<1>4. /\ \A m \in DOMAIN rest : m + 1 \in DOMAIN backlog[s] /\ rest[m] = backlog[s][m + 1]
      /\ 1 \in DOMAIN backlog[s] /\ \A m \in DOMAIN rest : m \in Nat /\ m + 1 # 1
  BY <1>1, <1>2, <1>3
<1>5. Lock!Waits(c, s) /\ c # Nobody
  BY <1>2, <1>4 DEF Lock!Waits, Lock!LockAssumption
<1> HIDE DEF rest
<1>6. /\ conn' = [conn EXCEPT ![s] = c] /\ backlog' = [backlog EXCEPT ![s] = rest]
      /\ spc' = [spc EXCEPT ![s] = "Pid"] /\ spc[s] = "accept"
      /\ UNCHANGED <<path, Lock!client, Lock!socket>>
  BY <1>0 DEF rest, Lock!SGoto
<1>7. \A d \in Callers : SameFields(d)
  BY DEF SameFields
<1>8. LockTypes'
  BY <1>2, <1>6 DEF LockTypes, Lock!ServerPC
<1>9. ClientOrder'
  BY <1>7, SameClient DEF ClientOrder
<1>10. /\ conn'[s] = c /\ backlog'[s] = rest
       /\ \A t \in Servers :
            t # s => conn'[t] = conn[t] /\ backlog'[t] = backlog[t] /\ spc'[t] = spc[t]
       /\ spc'[s] = "Pid" /\ peer' = peer
  BY <1>6 DEF LockTypes
<1>11. peer[c] = s /\ Waiting(c)
  BY <1>2, <1>5 DEF OneServer
<1>12. \A d \in Callers : Lock!Waits(d, s)' => Lock!Waits(d, s) /\ d # c
  BY <1>2, <1>4, <1>10 DEF Lock!Waits, OneServer
<1>13. \A d \in Callers, t \in Servers : t # s => (Lock!Waits(d, t)' <=> Lock!Waits(d, t))
  BY <1>10 DEF Lock!Waits
<1>14. OneServer'
  <2>1. ASSUME NEW t \in Servers, NEW d \in Callers, Lock!Waits(d, t)'
        PROVE  peer'[d] = t /\ Waiting(d)' /\ conn'[t] # d
    <3>1. Lock!Waits(d, t)
      BY <1>12, <1>13, <2>1
    <3>2. peer[d] = t /\ Waiting(d) /\ conn[t] # d
      BY <3>1 DEF OneServer
    <3> QED
      BY <1>7, <1>10, <1>12, <2>1, <3>2, SameClient
  <2>2. \A t \in Servers, d \in Callers : conn'[t] = d => peer'[d] = t
    BY <1>10, <1>11 DEF OneServer
  <2>3. \A t \in Servers : \A m, j \in DOMAIN backlog'[t] :
          backlog'[t][m] = backlog'[t][j] => m = j
    <3>1. \A m, j \in DOMAIN rest : rest[m] = rest[j] => m + 1 = j + 1
      BY <1>4 DEF OneServer
    <3>2. \A m, j \in DOMAIN rest : m + 1 = j + 1 => m = j
      BY <1>4
    <3> QED
      BY <1>10, <3>1, <3>2 DEF OneServer
  <2> QED
    BY <2>1, <2>2, <2>3 DEF OneServer
<1>15. Phases'
  <2>1. Lock!COpen(c)' => Phase(s, c)'
    <3>1. Waiting(c)'
      BY <1>2, <1>7, <1>11, SameClient
    <3>2. Lock!COpen(c)' => Idle(c)' /\ told'[c] = <<>>
      BY <3>1 DEF Lock!COpen, Waiting, Idle
    <3> QED
      BY <1>10, <3>2 DEF Phase
  <2>2. \A t \in Servers, d \in Callers : conn'[t] = d /\ Lock!COpen(d)' => Phase(t, d)'
    <3>1. ASSUME NEW t \in Servers, NEW d \in Callers, conn'[t] = d, Lock!COpen(d)', t # s
          PROVE  Phase(t, d)'
      <4>1. conn[t] = d /\ Lock!COpen(d) /\ spc'[t] = spc[t]
        BY <1>7, <1>10, <3>1, SameClient
      <4>2. Phase(t, d)
        BY <4>1 DEF Phases
      <4> QED
        BY <1>7, <4>1, <4>2, SameClient
    <3> QED
      BY <1>10, <2>1, <3>1
  <2>3. \A t \in Servers : conn'[t] # Nobody <=>
           spc'[t] \in {"Pid", "readPid", "Sleep", "readDone", "Quit", "close"}
    BY <1>5, <1>10 DEF Phases
  <2> QED
    BY <2>2, <2>3 DEF Phases
<1> QED
  BY <1>8, <1>9, <1>14, <1>15

(* Who has its first connection yet to make is with no server. *)
LEMMA ConnectOK ==
  ASSUME Lock!LockAssumption, LockInv, NEW c \in Callers, Lock!Connect(c)
  PROVE  LockInv'
<1> USE DEF LockInv, Lock!Connect, Lock!socket
<1>1. /\ cpc[c] = "off" /\ peer[c] = Nobody /\ told[c] = <<>>
      /\ toClient[c] = <<>> /\ toServer[c] = <<>> /\ Nobody \notin Servers /\ c # Nobody
  BY DEF ClientOrder, Ordered, Lock!LockAssumption
<1>2. \A s \in Servers : conn[s] # c /\ ~Lock!Waits(c, s)
  BY <1>1 DEF OneServer
<1>3. \A d \in Callers : d # c => SameFields(d)
  BY DEF SameFields, LockTypes, Lock!CGoto
<1>4. CASE Lock!CGoto(c, "done") /\ UNCHANGED <<backlog, peer>>
  <2>1. LockTypes' /\ Ordered(c)'
    BY <1>1, <1>4 DEF LockTypes, Lock!CGoto, Lock!ClientPC, ClientOrder, Ordered, Due
  <2> QED
    BY <1>2, <1>3, <1>4, <2>1, ClientMoves DEF Lock!server
<1>5. ASSUME NEW s \in Servers, path = s, Lock!CGoto(c, "read"), peer' = [peer EXCEPT ![c] = s],
             backlog' = [backlog EXCEPT ![s] = Append(backlog[s], c)]
      PROVE  LockInv'
  <2> DEFINE more == Append(backlog[s], c)
  <2>1. /\ backlog[s] \in Seq(Callers) /\ DOMAIN backlog[s] = 1 .. Len(backlog[s])
        /\ Len(backlog[s]) \in Nat
    BY LenProperties DEF LockTypes
  <2>2. /\ more \in Seq(Callers) /\ Len(more) = Len(backlog[s]) + 1
        /\ \A m \in 1 .. Len(backlog[s]) : more[m] = backlog[s][m]
        /\ more[Len(backlog[s]) + 1] = c
    BY <2>1, AppendProperties
  <2>3. DOMAIN more = 1 .. Len(more)
    BY <2>2, LenProperties
  <2>4. \A m \in DOMAIN more :
          \/ m \in DOMAIN backlog[s] /\ more[m] = backlog[s][m]
          \/ m = Len(more) /\ more[m] = c
    BY <2>1, <2>2, <2>3
  <2> HIDE DEF more
  <2>5. /\ backlog'[s] = more /\ peer'[c] = s /\ cpc'[c] = "read"
        /\ \A t \in Servers : t # s => backlog'[t] = backlog[t]
    BY <1>5 DEF LockTypes, Lock!CGoto, more
  <2>6. LockTypes'
    BY <1>5, <2>2 DEF LockTypes, Lock!CGoto, Lock!ClientPC, more
  <2>7. ClientOrder'
    <3>1. Ordered(c)'
      BY <1>1, <2>5 DEF Ordered, ClientOrder, Due
    <3> QED
      BY <1>3, <3>1, SameClient DEF ClientOrder
  <2>8. \A d \in Callers : Lock!Waits(d, s)' => Lock!Waits(d, s) \/ d = c
    BY <2>4, <2>5 DEF Lock!Waits
  <2>9. \A d \in Callers, t \in Servers : t # s => (Lock!Waits(d, t)' <=> Lock!Waits(d, t))
    BY <2>5 DEF Lock!Waits
  <2>10. OneServer'
    <3>1. ASSUME NEW t \in Servers, NEW d \in Callers, Lock!Waits(d, t)'
          PROVE  peer'[d] = t /\ Waiting(d)' /\ conn'[t] # d
      <4>1. CASE d = c
        BY <1>1, <1>2, <2>5, <2>9, <3>1, <4>1 DEF Waiting
      <4>2. CASE d # c
        <5>1. Lock!Waits(d, t)
          BY <2>8, <2>9, <3>1, <4>2
        <5>2. peer[d] = t /\ Waiting(d) /\ conn[t] # d
          BY <5>1 DEF OneServer
        <5> QED
          BY <1>3, <4>2, <5>2, SameClient DEF SameFields
      <4> QED
        BY <4>1, <4>2
    <3>2. \A t \in Servers, d \in Callers : conn'[t] = d => peer'[d] = t
      BY <1>2, <1>3 DEF OneServer, SameFields
    <3>3. \A t \in Servers : \A m, j \in DOMAIN backlog'[t] :
            backlog'[t][m] = backlog'[t][j] => m = j
      <4>1. \A m \in DOMAIN backlog[s] : backlog[s][m] # c
        BY <1>2 DEF Lock!Waits
      <4>2. \A m, j \in DOMAIN more : more[m] = more[j] => m = j
        BY <2>4, <4>1 DEF OneServer
      <4> QED
        BY <2>5, <4>2 DEF OneServer
    <3> QED
      BY <3>1, <3>2, <3>3 DEF OneServer
  <2>11. Phases'
    BY <1>2, <1>3, SameClient DEF Phases
  <2> QED
    BY <2>6, <2>7, <2>10, <2>11
<1> QED
  BY <1>4, <1>5 DEF LockTypes

LEMMA SendOK ==
  ASSUME Lock!LockAssumption, LockInv, NEW s \in Servers, NEW text, NEW next, Lock!Send(s,
         text, next),
         \/ text = "Pid" /\ next = "readPid"
         \/ text = "Sleep" /\ next = "readDone"
         \/ text = "Quit" /\ next = "close"
  PROVE  LockInv'
<1> USE DEF LockInv, Lock!Send, Lock!client
<1>1. PICK c \in Callers : conn[s] = c /\ c # Nobody
  BY DEF Phases, LockTypes
<1>2. CASE Lock!COpen(c)
  <2>1. /\ Phase(s, c) /\ toClient' = [toClient EXCEPT ![c] = Append(toClient[c], text)]
        /\ Lock!SGoto(s, next) /\ UNCHANGED <<path, backlog, conn, Lock!client, toServer>>
    BY <1>1, <1>2 DEF Phases
  <2>2. /\ Idle(c)
        /\ text = "Pid" => told[c] = <<>>
        /\ text = "Sleep" => told[c] = PidOnly
        /\ text = "Quit" => told[c] = PidSleep
    BY <2>1 DEF Phase
  <2>3. Append(toClient[c], text) = Due(c) /\ Due(c) \in Seq(Lock!Request)
    <3>1. Append(<<>>, text) = <<text>> /\ <<text>> \in Seq(Lock!Request)
      BY DEF Lock!Request
    <3> QED
      BY <2>2, <3>1, Texts DEF Due, Idle, PidOnly
  <2>4. toClient'[c] = Due(c) /\ \A d \in Callers : d # c => SameFields(d)
    BY <2>1, <2>3 DEF LockTypes, SameFields
  <2>5. LockTypes'
    BY <2>1, <2>3 DEF LockTypes, Lock!SGoto, Lock!ServerPC
  <2>6. Ordered(c)'
    BY <2>1, <2>2, <2>4 DEF ClientOrder, Ordered, Idle, Due
  <2>7. Phase(s, c)'
    <3>1. Asked(c)' /\ Obeys(c)' /\ told'[c] = told[c] /\ spc'[s] = next
      BY <2>1, <2>2, <2>4 DEF Asked, Obeys, Idle, Due, Lock!SGoto, LockTypes
    <3> QED
      BY <2>2, <3>1 DEF Phase
  <2> QED
    BY <1>1, <2>1, <2>4, <2>5, <2>6, <2>7, ServerMoves
<1>3. CASE ~Lock!COpen(c)
  BY <1>1, <1>3, ServerAlone DEF Lock!ServerGone, LockTypes, Lock!socket
<1> QED
  BY <1>2, <1>3

LEMMA ReadOK ==
  ASSUME Lock!LockAssumption, LockInv, NEW s \in Servers, NEW here, NEW next, Lock!Read(s,
         here, next),
         \/ here = "readPid" /\ next = "Sleep"
         \/ here = "readDone" /\ next = "Quit"
  PROVE  LockInv'
<1> USE DEF LockInv, Lock!Read, Lock!client
<1>1. PICK c \in Callers : conn[s] = c /\ c # Nobody
  BY DEF Phases, LockTypes
<1>2. /\ spc[s] = here /\ (toServer[c] # <<>> \/ ~Lock!COpen(c)) /\ Lock!SGoto(s, next)
      /\ toServer' = [toServer EXCEPT ![c] = <<>>]
      /\ UNCHANGED <<path, backlog, conn, Lock!client, toClient>>
  BY <1>1
<1>3. toServer'[c] = <<>> /\ \A d \in Callers : d # c => SameFields(d)
  BY <1>2 DEF LockTypes, SameFields
<1>4. LockTypes'
  <2>1. <<>> \in Seq({"pid", "Done"})
    BY EmptySeq
  <2>2. spc' \in [Servers -> Lock!ServerPC] /\ toServer' \in [Callers -> Seq({"pid", "Done"})]
    <3>1. next \in Lock!ServerPC /\ spc' = [spc EXCEPT ![s] = next]
      BY <1>2 DEF Lock!SGoto, Lock!ServerPC
    <3>2. spc' \in [Servers -> Lock!ServerPC]
      BY <3>1 DEF LockTypes
    <3>3. toServer' \in [Callers -> Seq({"pid", "Done"})]
      BY <1>2, <2>1 DEF LockTypes
    <3> QED
      BY <3>2, <3>3
  <2> QED
    BY <1>2, <2>2 DEF LockTypes
<1>5. Ordered(c)'
  BY <1>2, <1>3 DEF ClientOrder, Ordered, Due
<1>6. Lock!COpen(c) => Phase(s, c)'
  <2>1. SUFFICES ASSUME Lock!COpen(c) PROVE Phase(s, c)'
    OBVIOUS
  <2>2. Phase(s, c) /\ toServer[c] # <<>>
    BY <1>1, <1>2, <2>1 DEF Phases
  <2>3. Answered(c) /\ told[c] = IF here = "readPid" THEN PidOnly ELSE PidSleep
    BY <1>2, <2>2 DEF Phase, Asked
  <2>4. Idle(c)' /\ told'[c] = told[c] /\ spc'[s] = next
    BY <1>2, <1>3, <2>3 DEF Idle, Answered, Lock!SGoto, LockTypes
  <2> QED
    BY <2>3, <2>4 DEF Phase
<1> QED
  BY <1>1, <1>2, <1>3, <1>4, <1>5, <1>6, ServerMoves

LEMMA LockServerOK ==
  ASSUME Lock!LockAssumption, LockInv, NEW s \in Servers,
         Lock!Unlink(s) \/ Lock!ServerStep(s) \/ Lock!KillServer(s)
  PROVE  LockInv'
<1>1. CASE Lock!Unlink(s) \/ Lock!Bind(s) \/ Lock!Listen(s) \/ Lock!UnlinkAgain(s)
  BY <1>1, ServerAlone DEF Lock!Unlink, Lock!Bind, Lock!Listen, Lock!UnlinkAgain, LockInv,
        LockTypes
<1>2. CASE Lock!CloseBoth(s) \/ Lock!KillServer(s)
  BY <1>2, ServerAlone DEF Lock!CloseBoth, Lock!KillServer, Lock!ServerGone, LockInv, LockTypes
<1>3. CASE \/ Lock!Send(s, "Pid", "readPid")
           \/ Lock!Send(s, "Sleep", "readDone")
           \/ Lock!Send(s, "Quit", "close")
  BY <1>3, SendOK
<1>4. CASE Lock!Read(s, "readPid", "Sleep") \/ Lock!Read(s, "readDone", "Quit")
  BY <1>4, ReadOK
<1> QED
  BY <1>1, <1>2, <1>3, <1>4, AcceptOK DEF Lock!ServerStep

-----------------------------------------------------------------------------
(* The client's steps.                                                     *)

LEMMA ClientReadOK ==
  ASSUME Lock!LockAssumption, LockInv, NEW c \in Callers, Lock!ClientRead(c)
  PROVE  LockInv'
<1> USE DEF LockInv, Lock!ClientRead, Lock!server
<1>1. /\ heard'[c] = toClient[c] /\ toClient'[c] = <<>> /\ cpc[c] = "read"
      /\ cpc'[c] = IF toClient[c] = <<>> THEN "close" ELSE "handle"
      /\ told' = told /\ toServer' = toServer /\ peer' = peer /\ UNCHANGED Lock!server
      /\ \A d \in Callers : d # c => SameFields(d)
  BY DEF LockTypes, SameFields, Lock!CGoto
<1>2. LockTypes'
  <2>1. <<>> \in Seq(Lock!Request)
    BY EmptySeq
  <2> QED
    BY <2>1 DEF LockTypes, Lock!CGoto, Lock!ClientPC
<1>3. Ordered(c)'
  BY <1>1 DEF ClientOrder, Ordered, Due
<1>4. ASSUME NEW s \in Servers, conn[s] = c \/ Lock!Waits(c, s) PROVE toClient[c] # <<>>
  BY <1>4 DEF Lock!SOpen
<1>5. \A s \in Servers : ~Lock!Waits(c, s)
  BY <1>4 DEF OneServer, Waiting
<1>6. ASSUME NEW s \in Servers, conn[s] = c PROVE Phase(s, c)'
  <2>1. toClient[c] # <<>> /\ Phase(s, c)
    BY <1>1, <1>4, <1>6 DEF Phases, Lock!COpen, Lock!ClientPC
  <2>2. cpc'[c] = "handle" /\ told'[c] = told[c] /\ toServer'[c] = toServer[c] /\ spc' = spc
    BY <1>1, <2>1
  <2>3. (Asked(c) => Asked(c)') /\ (Obeys(c) => Obeys(c)') /\ ~Idle(c) /\ ~Answered(c)
    BY <2>1, <2>2 DEF Asked, Obeys, Idle, Answered
  <2> QED
    BY <2>1, <2>2, <2>3 DEF Phase
<1> QED
  BY <1>1, <1>2, <1>3, <1>5, <1>6, ClientMoves

(* An answer moves the conversation on; when nobody is there, the client ends. *)
LEMMA AnswerOK ==
  ASSUME Lock!LockAssumption, LockInv, NEW c \in Callers, NEW request, NEW text,
         Lock!Answer(c, request, text), UNCHANGED <<Lock!server, peer, heard, toClient>>,
         \/ request = "Pid" /\ text = "pid" /\ told[c] = <<>> /\ cpc[c] = "handle"
         \/ request = "Sleep" /\ text = "Done" /\ told[c] = PidOnly /\ cpc[c] = "sleep"
  PROVE  LockInv'
<1> USE DEF LockInv, Lock!Answer, Lock!server
<1>1. toClient[c] = <<>> /\ \A s \in Servers : ~Lock!Waits(c, s)
  BY DEF ClientOrder, Ordered, OneServer, Waiting
<1>2. CASE Lock!SOpen(c)
  <2> DEFINE t == IF request = "Pid" THEN PidOnly ELSE PidSleep
             a == Append(toServer[c], text)
  <2>1. t = Append(told[c], request) /\ t \in Seq(Lock!Request)
    BY Texts
  <2>2. a \in Seq({"pid", "Done"}) /\ Len(a) = Len(toServer[c]) + 1
    <3>1. toServer[c] \in Seq({"pid", "Done"}) /\ text \in {"pid", "Done"}
      BY DEF LockTypes
    <3> QED
      BY <3>1, AppendProperties
  <2> HIDE DEF a
  <2>3. /\ toServer'[c] = a /\ told'[c] = t /\ cpc'[c] = "read" /\ toClient'[c] = <<>>
        /\ \A d \in Callers : d # c => SameFields(d)
    BY <1>1, <1>2, <2>1 DEF LockTypes, SameFields, Lock!CGoto, a
  <2>4. LockTypes'
    <3>1. told' = [told EXCEPT ![c] = t] /\ toServer' = [toServer EXCEPT ![c] = a]
      BY <1>2, <2>1 DEF a
    <3>2. /\ cpc' \in [Callers -> Lock!ClientPC] /\ told' \in [Callers -> Seq(Lock!Request)]
          /\ toServer' \in [Callers -> Seq({"pid", "Done"})]
      BY <1>2, <2>1, <2>2, <3>1 DEF LockTypes, Lock!CGoto, Lock!ClientPC
    <3> QED
      BY <3>2 DEF LockTypes
  <2>5. Ordered(c)'
    BY <2>3 DEF Ordered
  <2>6. ASSUME NEW s \in Servers, conn[s] = c PROVE Phase(s, c)'
    <3>1. Phase(s, c)
      BY <2>6 DEF Phases, Lock!COpen, Lock!ClientPC
    <3>2. toServer[c] = <<>> /\ spc[s] = IF request = "Pid" THEN "readPid" ELSE "readDone"
      BY <3>1, Texts DEF Phase, Asked, Idle, Answered, Obeys
    <3>3. Answered(c)' /\ spc' = spc
      BY <2>2, <2>3, <3>2 DEF Answered
    <3> QED
      BY <2>3, <3>2, <3>3 DEF Phase
  <2> QED
    BY <1>1, <2>3, <2>4, <2>5, <2>6, ClientMoves
<1>3. CASE ~Lock!SOpen(c)
  <2>1. /\ cpc'[c] = "done" /\ UNCHANGED <<toServer, told>>
        /\ \A d \in Callers : d # c => SameFields(d)
    BY <1>3 DEF LockTypes, SameFields, Lock!CGoto
  <2>2. LockTypes' /\ Ordered(c)'
    BY <1>3, <2>1 DEF LockTypes, Lock!CGoto, Lock!ClientPC, ClientOrder, Ordered, Due
  <2>3. \A s \in Servers : conn[s] # c
    BY <1>3 DEF Lock!SOpen
  <2> QED
    BY <1>1, <2>1, <2>2, <2>3, ClientMoves
<1> QED
  BY <1>2, <1>3

LEMMA HandleOK ==
  ASSUME Lock!LockAssumption, LockInv, NEW c \in Callers, Lock!Handle(c)
  PROVE  LockInv'
<1> USE DEF LockInv, Lock!Handle, Lock!server
<1>1. /\ cpc[c] = "handle" /\ heard[c] = Due(c) /\ toClient[c] = <<>>
      /\ told[c] \in {<<>>, PidOnly, PidSleep}
      /\ UNCHANGED <<Lock!server, peer, heard, toClient>>
  BY DEF ClientOrder, Ordered
<1>2. CASE heard[c] = <<"Pid">>
  <2>1. told[c] = <<>>
    BY <1>1, <1>2, Texts DEF Due, PidOnly
  <2> QED
    BY <1>1, <1>2, <2>1, AnswerOK
<1>3. CASE heard[c] # <<"Pid">>
  <2>1. /\ told[c] \in {PidOnly, PidSleep} /\ told' = told /\ toServer' = toServer
        /\ cpc' = [cpc EXCEPT ![c] = IF told[c] = PidOnly THEN "sleep" ELSE "close"]
    <3>1. /\ told[c] \in {PidOnly, PidSleep}
          /\ heard[c] = IF told[c] = PidOnly THEN <<"Sleep">> ELSE <<"Quit">>
      BY <1>1, <1>3, Texts DEF Due, PidOnly
    <3>2. CASE told[c] = PidOnly
      BY <1>3, <3>1, <3>2, Texts DEF Lock!CGoto
    <3>3. CASE told[c] # PidOnly
      BY <1>3, <3>1, <3>3, Texts DEF Lock!CGoto
    <3> QED
      BY <3>1, <3>2, <3>3
  <2>2. LockTypes'
    <3>1. cpc' \in [Callers -> Lock!ClientPC]
      BY <2>1 DEF LockTypes, Lock!ClientPC
    <3> QED
      BY <1>1, <2>1, <3>1 DEF LockTypes
  <2>3. /\ cpc'[c] = IF told[c] = PidOnly THEN "sleep" ELSE "close"
        /\ \A d \in Callers : d # c => SameFields(d)
    BY <1>1, <2>1 DEF LockTypes, SameFields
  <2>4. Ordered(c)'
    BY <1>1, <2>1, <2>3 DEF Ordered, Due
  <2>5. \A s \in Servers : ~Lock!Waits(c, s)
    BY <1>1 DEF OneServer, Waiting
  <2>6. ASSUME NEW s \in Servers, conn[s] = c PROVE Phase(s, c)'
    <3>1. Phase(s, c) /\ ~Idle(c) /\ ~Answered(c) /\ told[c] # <<>>
      BY <1>1, <2>1, <2>6, Texts DEF Phases, Lock!COpen, Lock!ClientPC, Idle, Answered
    <3>2. CASE told[c] = PidOnly
      <4>1. spc[s] = "readDone" /\ toServer[c] = <<>>
        BY <3>1, <3>2, Texts DEF Phase, Asked
      <4> QED
        BY <1>1, <2>1, <2>3, <3>2, <4>1 DEF Phase, Asked
    <3>3. CASE told[c] # PidOnly
      <4>1. spc[s] = "close" /\ toServer[c] = <<>> /\ told[c] = PidSleep
        BY <2>1, <3>1, <3>3, Texts DEF Phase, Obeys
      <4> QED
        BY <1>1, <2>1, <2>3, <3>3, <4>1 DEF Phase, Obeys
    <3> QED
      BY <3>2, <3>3
  <2> QED
    BY <1>1, <2>2, <2>3, <2>4, <2>5, <2>6, ClientMoves
<1> QED
  BY <1>2, <1>3

LEMMA ClientEndOK ==
  ASSUME Lock!LockAssumption, LockInv, NEW c \in Callers,
         Lock!ClientClose(c) \/ Lock!KillClient(c)
  PROVE  LockInv'
<1>1. Lock!CGoto(c, "done") /\ UNCHANGED <<Lock!server, peer, heard, told, Lock!socket>>
  BY DEF Lock!ClientClose, Lock!KillClient
<1>2. cpc'[c] = "done" /\ \A d \in Callers : d # c => SameFields(d)
  BY <1>1 DEF LockInv, LockTypes, SameFields, Lock!CGoto, Lock!socket
<1>3. LockTypes' /\ Ordered(c)'
  BY <1>1, <1>2 DEF LockInv, LockTypes, Lock!CGoto, Lock!ClientPC, ClientOrder, Ordered, Due,
        Lock!server, Lock!socket
<1>4. \A s \in Servers : Lock!Waits(c, s) => Waiting(c)'
  BY <1>1, <1>2 DEF LockInv, OneServer, Waiting, Lock!socket
<1>5. ~Lock!COpen(c)'
  BY <1>2 DEF Lock!COpen
<1> QED
  BY <1>1, <1>2, <1>3, <1>4, <1>5, ClientMoves

LEMMA LockClientOK ==
  ASSUME Lock!LockAssumption, LockInv, NEW c \in Callers,
         Lock!Connect(c) \/ Lock!ClientStep(c) \/ Lock!KillClient(c)
  PROVE  LockInv'
<1>1. CASE Lock!Done(c)
  BY <1>1, AnswerOK DEF Lock!Done, LockInv, ClientOrder, Ordered
<1> QED
  BY <1>1, ConnectOK, ClientReadOK, HandleOK, ClientEndOK DEF Lock!ClientStep

LEMMA LockNextOK ==
  ASSUME Lock!LockAssumption, LockInv, [Lock!Next]_(Lock!vars)
  PROVE  LockInv'
<1>1. CASE UNCHANGED Lock!vars
  <2>1. \A c \in Callers : SameFields(c)
    BY <1>1 DEF Lock!vars, Lock!server, Lock!client, Lock!socket, SameFields
  <2> QED
    BY <1>1, <2>1, SameClient DEF Lock!vars, Lock!server, Lock!client, Lock!socket, LockInv,
          LockTypes, ClientOrder,
      OneServer, Phases, Lock!Waits
<1> QED
  BY <1>1, LockServerOK, LockClientOK DEF Lock!Next

LEMMA LockConsequences ==
  ASSUME Lock!LockAssumption, LockInv PROVE Lock!TypeOK /\ Lock!LockStepOrder
<1> USE DEF LockInv
<1>1. Lock!TypeOK
  BY DEF LockTypes, Lock!TypeOK
<1>2. Lock!OneUnderWay
  <2>1. SUFFICES ASSUME NEW s \in Servers, NEW c \in Callers, conn[s] = c, Lock!COpen(c)
                 PROVE  Len(toClient[c]) + Len(toServer[c]) + Lock!Handling(c) <= 1
    BY DEF Lock!OneUnderWay
  <2>2. Phase(s, c) /\ Ordered(c)
    BY <2>1 DEF Phases, ClientOrder
  <2>3. Len(Due(c)) = 1 /\ Len(<<>>) = 0
    BY Texts DEF Due
  <2>4. CASE Idle(c)
    <3>1. Len(toClient[c]) = 0 /\ Len(toServer[c]) = 0 /\ Lock!Handling(c) = 0
      BY <2>3, <2>4 DEF Idle, Lock!Handling
    <3> QED
      BY <3>1
  <2>5. CASE Answered(c)
    <3>1. Len(toClient[c]) = 0 /\ Len(toServer[c]) = 1 /\ Lock!Handling(c) = 0
      BY <2>3, <2>5 DEF Answered, Lock!Handling
    <3> QED
      BY <3>1
  <2>6. CASE Asked(c) \/ Obeys(c)
    <3>1. Len(toServer[c]) = 0
      BY <2>3, <2>6 DEF Asked, Obeys
    <3>2. CASE cpc[c] \in {"handle", "sleep"}
      <4>1. Len(toClient[c]) = 0 /\ Lock!Handling(c) = 1
        BY <2>2, <2>3, <3>2 DEF Ordered, Lock!Handling
      <4> QED
        BY <3>1, <4>1
    <3>3. CASE cpc[c] \notin {"handle", "sleep"}
      <4>1. Lock!Handling(c) = 0
        BY <3>3 DEF Lock!Handling
      <4>2. Len(toClient[c]) = 0 \/ Len(toClient[c]) = 1
        BY <2>2, <2>3 DEF Ordered
      <4>3. CASE Len(toClient[c]) = 0
        BY <3>1, <4>1, <4>3
      <4>4. CASE Len(toClient[c]) = 1
        BY <3>1, <4>1, <4>4
      <4> QED
        BY <4>2, <4>3, <4>4
    <3> QED
      BY <3>2, <3>3
  <2> QED
    BY <2>2, <2>4, <2>5, <2>6 DEF Phase
<1>3. Lock!InOrder
  BY Texts DEF Lock!InOrder, ClientOrder, Ordered, Due, PidOnly, PidSleep
<1> QED
  BY <1>1, <1>2, <1>3 DEF Lock!LockStepOrder

(* Lab6: at most one text is under way, and each is answered once, in order, with
   any servers and clients, killed at any moment. *)
THEOREM LockStepHolds ==
  ASSUME Lock!LockAssumption
  PROVE  Lock!Spec => [](Lock!TypeOK /\ Lock!LockStepOrder)
<1>1. Lock!Init => LockInv
  BY LockInitOK
<1>2. LockInv /\ [Lock!Next]_(Lock!vars) => LockInv'
  BY LockNextOK
<1>3. LockInv => Lock!TypeOK /\ Lock!LockStepOrder
  BY LockConsequences
<1> QED
  BY <1>1, <1>2, <1>3, PTL DEF Lock!Spec

-----------------------------------------------------------------------------
(***************************************************************************)
(* Lab5b.  While the signals are sent nothing is reaped, and so a pid that *)
(* is no child's any more is the -1 of a fork that has failed.             *)
(***************************************************************************)
Started == {"failed", "forked", "monitor", "zombie"}
MonitorForks ==
  /\ mpc = "fork" =>
       /\ ~stray
       /\ \A k \in Monitor!Kids : IF k < mi THEN kid[k] \in Started ELSE kid[k] = "none"
  /\ mpc \in {"start", "stop"} => \A k \in Monitor!Kids : kid[k] \in Started

MonitorInv == Monitor!TypeOK /\ MonitorForks /\ Monitor!OwnChildren

LEMMA MonitorInitOK ==
  ASSUME Monitor!MonitorAssumption, Monitor!Init
  PROVE  MonitorInv
<1> USE DEF Monitor!MonitorAssumption, Monitor!Init, Monitor!Kids
<1>1. Monitor!TypeOK
  <2>1. kid \in [Monitor!Kids -> {"none", "failed", "forked", "monitor", "zombie", "reaped"}]
    OBVIOUS
  <2>2. mi \in Monitor!Kids
    OBVIOUS
  <2> QED
    BY <2>1, <2>2 DEF Monitor!TypeOK
<1>2. MonitorForks
  BY DEF MonitorForks
<1>3. Monitor!OwnChildren
  BY DEF Monitor!OwnChildren
<1> QED
  BY <1>1, <1>2, <1>3 DEF MonitorInv

LEMMA MonitorNextOK ==
  ASSUME Monitor!MonitorAssumption, MonitorInv, [Monitor!Next]_(Monitor!vars)
  PROVE  MonitorInv'
<1> USE DEF MonitorInv, Monitor!TypeOK, Monitor!MonitorAssumption
<1>1. CASE UNCHANGED Monitor!vars
  BY <1>1 DEF Monitor!vars, MonitorForks, Monitor!OwnChildren, Monitor!Unreaped
<1>2. CASE Monitor!Fork
  <2> USE <1>2 DEF Monitor!Fork, Monitor!NextIndex, Monitor!Kids
  <2>1. Monitor!TypeOK'
    OBVIOUS
  <2>2. MonitorForks'
    <3>1. \A k \in Monitor!Kids : k < mi \/ k = mi => kid'[k] \in Started
      BY DEF MonitorForks, Started
    <3>2. \A k \in Monitor!Kids : mi < k => kid'[k] = "none"
      BY DEF MonitorForks
    <3>3. ~stray'
      BY DEF MonitorForks
    <3>4. CASE mi < NUM
      BY <3>1, <3>2, <3>3, <3>4 DEF MonitorForks
    <3>5. CASE mi = NUM
      BY <3>1, <3>5 DEF MonitorForks
    <3> QED
      BY <3>4, <3>5
  <2>3. Monitor!OwnChildren'
    BY DEF Monitor!OwnChildren, MonitorForks
  <2> QED
    BY <2>1, <2>2, <2>3
<1>3. ASSUME NEW here \in {"start", "stop"}, NEW next \in {"stop", "wait"},
             Monitor!Signal(here, next)
      PROVE  MonitorInv'
  <2> USE <1>3 DEF Monitor!Signal, Monitor!NextIndex, Monitor!Kids
  <2>1. Monitor!TypeOK'
    OBVIOUS
  <2>2. MonitorForks'
    BY DEF MonitorForks, Started
  <2>3. stray' => \E k \in Monitor!Kids : kid'[k] = "failed"
    <3>1. SUFFICES ASSUME mi \notin Monitor!Unreaped
                   PROVE  \E k \in Monitor!Kids : kid'[k] = "failed"
      BY DEF Monitor!OwnChildren, Monitor!Target, Monitor!Alive
    <3>2. kid[mi] = "failed"
      BY <3>1 DEF MonitorForks, Started, Monitor!Unreaped
    <3> QED
      BY <3>2 DEF Monitor!Target, Monitor!Alive
  <2> QED
    BY <2>1, <2>2, <2>3 DEF Monitor!OwnChildren
<1>4. CASE Monitor!Wait
  <2> USE <1>4 DEF Monitor!Wait, Monitor!Unreaped
  <2>1. Monitor!TypeOK'
    OBVIOUS
  <2>2. MonitorForks'
    BY DEF MonitorForks
  <2>3. Monitor!OwnChildren'
    BY DEF Monitor!OwnChildren
  <2> QED
    BY <2>1, <2>2, <2>3
<1>5. ASSUME NEW k \in Monitor!Kids, Monitor!Child(k)
      PROVE  MonitorInv'
  <2> USE <1>5 DEF Monitor!Child, Monitor!Exec, Monitor!End
  <2>1. Monitor!TypeOK'
    OBVIOUS
  <2>2. MonitorForks'
    BY DEF MonitorForks, Started
  <2>3. Monitor!OwnChildren'
    BY DEF Monitor!OwnChildren, Monitor!Unreaped
  <2> QED
    BY <2>1, <2>2, <2>3
<1> QED
  BY <1>1, <1>2, <1>3, <1>4, <1>5 DEF Monitor!Next, Monitor!ParentStep

(* The parent signals its own children only, unless a fork has failed, and is the
   last to end, whenever the children start and end. *)
THEOREM ChildrenOwn ==
  ASSUME Monitor!MonitorAssumption
  PROVE  Monitor!Spec => [](Monitor!TypeOK /\ Monitor!OwnChildren)
<1>1. Monitor!Init => MonitorInv
  BY MonitorInitOK
<1>2. MonitorInv /\ [Monitor!Next]_(Monitor!vars) => MonitorInv'
  BY MonitorNextOK
<1>3. MonitorInv => Monitor!TypeOK /\ Monitor!OwnChildren
  BY DEF MonitorInv
<1> QED
  BY <1>1, <1>2, <1>3, PTL DEF Monitor!Spec

-----------------------------------------------------------------------------
(***************************************************************************)
(* The instances that the proofs come from are those of LabSession.        *)
(***************************************************************************)
LEMMA FilesSame ==
  /\ FP!FilesAssumption <=> Files!FilesAssumption
  /\ FP!Init <=> Files!Init
  /\ FP!Next <=> Files!Next
  /\ FP!vars = Files!vars
  /\ FP!TypeOK <=> Files!TypeOK
  /\ FP!Accounted <=> Files!Accounted
  /\ FP!WriteLocked <=> Files!WriteLocked
  /\ FP!LeftBehind <=> Files!LeftBehind
<1>1. (FP!Init <=> Files!Init) /\ FP!vars = Files!vars
  BY DEF FP!Init, Files!Init, FP!vars, Files!vars, FP!Signals, Files!Signals, FP!NoWorker,
         Files!NoWorker, FP!Workers, Files!Workers, FP!main, Files!main, FP!handler,
         Files!handler, FP!record, Files!record, FP!worker, Files!worker
<1>2. FP!Main <=> Files!Main
  BY DEF FP!Main, Files!Main, FP!Fork, Files!Fork, FP!Loop, Files!Loop, FP!Wait, Files!Wait,
         FP!Return, Files!Return, FP!Settled, Files!Settled, FP!WGoto, Files!WGoto,
         FP!handler, Files!handler, FP!record, Files!record, FP!worker, Files!worker,
         FP!Workers, Files!Workers, FP!Left, Files!Left, FP!Signals, Files!Signals,
         FP!NoWorker, Files!NoWorker
<1>3. FP!Handler <=> Files!Handler
  BY DEF FP!Handler, Files!Handler, FP!Signals, Files!Signals, FP!Deliver, Files!Deliver,
         FP!OpenLog, Files!OpenLog, FP!Lock, Files!Lock, FP!Write, Files!Write, FP!Unlock,
         Files!Unlock, FP!NoWorker, Files!NoWorker, FP!Handled, Files!Handled, FP!main,
         Files!main, FP!record, Files!record, FP!worker, Files!worker, FP!At, Files!At,
         FP!Step, Files!Step, FP!Drop, Files!Drop, FP!Leave, Files!Leave, FP!Top, Files!Top
<1>4. FP!OtherLock <=> Files!OtherLock
  BY DEF FP!OtherLock, Files!OtherLock, FP!main, Files!main, FP!handler, Files!handler,
         FP!record, Files!record, FP!worker, Files!worker
<1>5. \A w : FP!Worker(w) <=> Files!Worker(w)
  BY DEF FP!Worker, Files!Worker, FP!Start, Files!Start, FP!Fail, Files!Fail, FP!ReadBlock,
         Files!ReadBlock, FP!ReportDone, Files!ReportDone, FP!Exit, Files!Exit, FP!WGoto,
         Files!WGoto, FP!main, Files!main, FP!handler, Files!handler, FP!record,
         Files!record, FP!Kill, Files!Kill, FP!NoWorker, Files!NoWorker
<1>6. FP!TypeOK <=> Files!TypeOK
  BY DEF FP!TypeOK, Files!TypeOK, FP!Signals, Files!Signals, FP!Workers, Files!Workers,
         FP!NoWorker, Files!NoWorker, FP!Frame, Files!Frame
<1>7. (FP!Accounted <=> Files!Accounted) /\ (FP!WriteLocked <=> Files!WriteLocked)
  BY DEF FP!Accounted, Files!Accounted, FP!WriteLocked, Files!WriteLocked, FP!Workers,
         Files!Workers, FP!Fates, Files!Fates, FP!At, Files!At, FP!Top, Files!Top
<1>8. FP!LeftBehind <=> Files!LeftBehind
  BY DEF FP!LeftBehind, Files!LeftBehind, FP!Left, Files!Left, FP!Workers, Files!Workers,
         FP!Cardinality, Files!Cardinality
<1> QED
  BY <1>1, <1>2, <1>3, <1>4, <1>5, <1>6, <1>7, <1>8
     DEF FP!FilesAssumption, Files!FilesAssumption, FP!Next, Files!Next, FP!Workers,
         Files!Workers

LEMMA DeviceSame ==
  /\ DP!DeviceAssumption <=> Device!DeviceAssumption
  /\ DP!Init <=> Device!Init
  /\ DP!Next <=> Device!Next
  /\ DP!vars = Device!vars
  /\ DP!TypeOK <=> Device!TypeOK
  /\ DP!QuietReadWhole <=> Device!QuietReadWhole
<1>1. (DP!Init <=> Device!Init) /\ DP!vars = Device!vars
  BY DEF DP!Init, Device!Init, DP!vars, Device!vars, DP!Last, Device!Last, DP!admin,
         Device!admin, DP!flags, Device!flags, DP!thread, Device!thread, DP!user,
         Device!user
<1>2. DP!Admin <=> Device!Admin
  BY DEF DP!Admin, Device!Admin, DP!Register, Device!Register, DP!Mknod, Device!Mknod,
         DP!Unregister, Device!Unregister, DP!Unhalt, Device!Unhalt, DP!Free, Device!Free,
         DP!RmNode, Device!RmNode, DP!flags, Device!flags, DP!user, Device!user, DP!thread,
         Device!thread, DP!IsOpen, Device!IsOpen, DP!OpenPC, Device!OpenPC
<1>3. DP!Thread <=> Device!Thread
  BY DEF DP!Thread, Device!Thread, DP!Fill, Device!Fill, DP!Outer, Device!Outer, DP!Inner,
         Device!Inner, DP!Inc, Device!Inc, DP!Wrap, Device!Wrap, DP!Oops, Device!Oops,
         DP!admin, Device!admin, DP!flags, Device!flags, DP!Last, Device!Last, DP!Set,
         Device!Set, DP!Disturb, Device!Disturb
<1>4. \A u : DP!User(u) <=> Device!User(u)
  BY DEF DP!User, Device!User, DP!Read, Device!Read, DP!Copy, Device!Copy, DP!Ioctl,
         Device!Ioctl, DP!Close, Device!Close, DP!ReadDone, Device!ReadDone, DP!Forget,
         Device!Forget, DP!Goto, Device!Goto, DP!admin, Device!admin, DP!flags,
         Device!flags, DP!thread, Device!thread, DP!Last, Device!Last, DP!After,
         Device!After
<1>5. \A u : (DP!Open(u) <=> Device!Open(u)) /\ (DP!Interrupt(u) <=> Device!Interrupt(u))
  BY DEF DP!Open, Device!Open, DP!Interrupt, Device!Interrupt, DP!Goto, Device!Goto,
         DP!admin, Device!admin, DP!flags, Device!flags, DP!thread, Device!thread,
         DP!IsOpen, Device!IsOpen, DP!Forget, Device!Forget, DP!OpenPC, Device!OpenPC
<1>6. (DP!TypeOK <=> Device!TypeOK) /\ (DP!QuietReadWhole <=> Device!QuietReadWhole)
  BY DEF DP!TypeOK, Device!TypeOK, DP!QuietReadWhole, Device!QuietReadWhole, DP!Last,
         Device!Last, DP!Char, Device!Char, DP!Sweeping, Device!Sweeping, DP!OpenPC,
         Device!OpenPC
<1> QED
  BY <1>1, <1>2, <1>3, <1>4, <1>5, <1>6
     DEF DP!DeviceAssumption, Device!DeviceAssumption, DP!Next, Device!Next

(***************************************************************************)
(* All of them.  A step of LabSpec is a step of one program and stutters   *)
(* for the others.                                                         *)
(***************************************************************************)
LEMMA Apart ==
  LabInit /\ [][LabNext]_all =>
    /\ Spec /\ Pipe!Spec /\ Lock!Spec /\ DP!Spec /\ FP!Spec /\ Monitor!Spec
    /\ Laps!Spec
<1> USE DEF all, LabNext, Only10, Only7, Only6, Only5, Only1, Only5b, OnlyLaps
<1>1. LabInit => /\ Init /\ Pipe!Init /\ Lock!Init /\ DP!Init /\ FP!Init
                 /\ Monitor!Init /\ Laps!Init
  BY FilesSame, DeviceSame DEF LabInit
<1>2. [LabNext]_all => [Next]_vars
  OBVIOUS
<1>3. [LabNext]_all => [Pipe!Next]_(Pipe!vars)
  BY DEF pipe, Pipe!vars, Pipe!kids, Pipe!stream
<1>4. [LabNext]_all => [Lock!Next]_(Lock!vars)
  BY DEF lockstep, Lock!vars, Lock!server, Lock!client, Lock!socket
<1>5. [LabNext]_all => [DP!Next]_(DP!vars)
  BY DeviceSame DEF device, DP!vars, DP!admin, DP!flags, DP!thread, DP!user
<1>6. [LabNext]_all => [FP!Next]_(FP!vars)
  BY FilesSame DEF files, FP!vars, FP!main, FP!handler, FP!record, FP!worker
<1>7. [LabNext]_all => [Monitor!Next]_(Monitor!vars)
  BY DEF monitor, Monitor!vars
<1>8. [LabNext]_all => [Laps!Next]_(Laps!lapvars)
  BY DEF laps, Laps!lapvars
<1> QED
  BY <1>1, <1>2, <1>3, <1>4, <1>5, <1>6, <1>7, <1>8, PTL
     DEF Spec, Pipe!Spec, Lock!Spec, DP!Spec, FP!Spec, Monitor!Spec, Laps!Spec

(* The variables of every program keep their types. *)
THEOREM LabTypesHold == LabSpec => []LabTypes
<1>1. /\ Spec => []TypeOK
      /\ Pipe!Spec => []Pipe!TypeOK
      /\ Lock!Spec => [](Lock!TypeOK /\ Lock!LockStepOrder)
      /\ Monitor!Spec => [](Monitor!TypeOK /\ Monitor!OwnChildren)
      /\ Laps!Spec => []Laps!TypeOK
  BY TypeCorrect, PipeTypes, LockStepHolds, ChildrenOwn, LapTypes, LabAssumption
<1>2. FP!Spec => []FP!TypeOK
  BY FP!TypeCorrect, FilesSame, LabAssumption
<1>3. DP!Spec => []DP!TypeOK
  BY DP!TypeCorrect, DeviceSame, LabAssumption
<1>4. LabInit /\ [][LabNext]_all => [](Files!TypeOK /\ Device!TypeOK)
  BY <1>2, <1>3, Apart, FilesSame, DeviceSame, PTL
<1> QED
  BY <1>1, <1>4, Apart, PTL DEF LabSpec, LabTypes

LEMMA LabRuns == LabSpec => LabInit /\ [][LabNext]_all
BY DEF LabSpec

(* Lab7 in LabSpec: command 2 sees the end of its input only after all of it. *)
THEOREM LabOutputWhole == LabSpec => []WholeOutput
<1>1. Pipe!Spec => []Pipe!WholeOutput
  BY OutputWhole, LabAssumption
<1> QED
  BY <1>1, Apart, LabRuns, PTL DEF WholeOutput

(* Lab6 in LabSpec: one text at a time, each answered once, in order. *)
THEOREM LabLockStep == LabSpec => []LockStepOrder
<1>1. Lock!Spec => [](Lock!TypeOK /\ Lock!LockStepOrder)
  BY LockStepHolds, LabAssumption
<1> QED
  BY <1>1, Apart, LabRuns, PTL DEF LockStepOrder

(* Lab5 in LabSpec: a read while the thread is parked gets a whole buffer. *)
THEOREM LabQuietRead == LabSpec => []QuietReadWhole
<1>1. DP!Spec => []DP!QuietReadWhole
  BY DP!QuietReadsWhole, DeviceSame, LabAssumption
<1>2. DP!QuietReadWhole <=> QuietReadWhole
  BY DeviceSame DEF QuietReadWhole
<1> QED
  BY <1>1, <1>2, Apart, LabRuns, PTL

(* assignment1 in LabSpec: every completion is logged once, unless its signal met
   a pending one or the logger could not open, lock or write the file. *)
THEOREM LabAccounted == LabSpec => []Accounted
<1>1. FP!Spec => []FP!Accounted
  BY FP!CompletionsAccounted, FilesSame, LabAssumption
<1>2. FP!Accounted <=> Accounted
  BY FilesSame DEF Accounted
<1> QED
  BY <1>1, <1>2, Apart, LabRuns, PTL

(* assignment1 in LabSpec: an entry is written under the lock, unless a nested
   handler has unlocked it. *)
THEOREM LabWriteLocked == LabSpec => []WriteLocked
<1>1. FP!Spec => []FP!WriteLocked
  BY FP!EntriesLocked, FilesSame, LabAssumption
<1>2. FP!WriteLocked <=> WriteLocked
  BY FilesSame DEF WriteLocked
<1> QED
  BY <1>1, <1>2, Apart, LabRuns, PTL

(* Lab7, assignment1 and Lab5b in LabSpec: which children a parent that has ended
   can have left. *)
THEOREM LabParentsLast == LabSpec => []ParentsLast
<1>1. Pipe!Spec => []Pipe!NoneLeft
  BY NobodyLeft, LabAssumption
<1>2. FP!Spec => []FP!LeftBehind
  BY FP!FewLeftBehind, FilesSame, LabAssumption
<1>3. Monitor!Spec => [](Monitor!TypeOK /\ Monitor!OwnChildren)
  BY ChildrenOwn, LabAssumption
<1>4. FP!LeftBehind <=> Files!LeftBehind
  BY FilesSame
<1> QED
  BY <1>1, <1>2, <1>3, <1>4, Apart, LabRuns, PTL DEF ParentsLast

(* Lab10 in LabSpec: who has the token, whom its sender field names, and that
   client 3 starts it all. *)
THEOREM LabToken == LabSpec => [](Token /\ SourceRight /\ ThreeStarts)
BY TokenSafe, SourceTrue, StartedByThree, Apart, LabRuns, PTL
=============================================================================
