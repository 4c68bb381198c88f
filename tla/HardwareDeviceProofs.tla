------------------------- MODULE HardwareDeviceProofs -------------------------
(* Safety of HardwareDevice for every buffer, alphabet and set of users. *)
EXTENDS HardwareDevice, SequenceTheorems, TLAPS

(***************************************************************************)
(* The invariant.  Between two sweeps the buffer holds one letter; during  *)
(* a sweep it holds the next letter behind the index and the old one ahead *)
(* of it, and between Inc and Wrap the index may be one past 'z'.  A read  *)
(* that is quiet sees no sweep, and so what it has copied is a prefix of   *)
(* the buffer as it is.                                                    *)
(***************************************************************************)
Body == 0 .. Last - 1
Succ(ch) == IF ch = Letters THEN 1 ELSE ch + 1
Whole == buffer[Last] = 0 /\ \E ch \in 1 .. Letters : \A i \in Body : buffer[i] = ch

Sweep(ch) ==
  /\ \A i \in Body : i < ti => buffer[i] = Succ(ch)
  /\ \A i \in Body : i > ti => buffer[i] = ch
  /\ buffer[ti] = IF tpc = "inc" THEN ch ELSE ch + 1

ThreadOrder ==
  /\ apc = "insmod" => tpc = "none"
  /\ tpc = "none" => ti = 0
  /\ tpc = "fill" => \A i \in Body : i < ti => buffer[i] = 1
  /\ tpc \in {"outer", "inner"} => Whole
  /\ tpc \in Sweeping => ti < Last /\ buffer[Last] = 0 /\ \E ch \in 1 .. Letters : Sweep(ch)

ReadOrder ==
  /\ copied \in [Users -> Seq(Char)]
  /\ \A u \in Users :
       /\ upc[u] \in {"read", "copy"} => reads[u] < 3 * Reads
       /\ upc[u] = "halt" => reads[u] < 3 * Reads
       /\ upc[u] = "resume" => reads[u] < 3 * Reads
       /\ upc[u] = "off" => off[u] = 0 /\ reads[u] = 0
       /\ upc[u] \in {"off", "read"} /\ off[u] = 0 => copied[u] = <<>>
       /\ upc[u] = "copy" => off[u] = 0 /\ Len(copied[u]) < BufLen
       /\ Len(copied[u]) <= BufLen

QuietPrefix ==
  \A u \in Users : quiet[u] =>
    /\ tpc \in {"outer", "inner", "done", "oops"}
    /\ Whole
    /\ \A i \in 1 .. Len(copied[u]) : copied[u][i] = buffer[i - 1]

IInv == TypeOK /\ ThreadOrder /\ ReadOrder /\ QuietPrefix

LEMMA Bounds ==
  ASSUME DeviceAssumption
  PROVE  /\ Last \in Nat /\ Last >= 1 /\ BufLen = Last + 1
         /\ Body \subseteq 0 .. Last /\ Last \notin Body /\ Last \in 0 .. Last
         /\ \A i \in 0 .. Last : i # Last => i \in Body
         /\ 0 \in Char /\ 1 \in Char /\ 1 \in 1 .. Letters
         /\ \A ch \in 1 .. Letters :
              ch \in Nat /\ ch \in Char /\ ch + 1 \in Char /\ Succ(ch) \in 1 .. Letters
BY DEF DeviceAssumption, Last, Body, Char, Succ

LEMMA InitOK == ASSUME DeviceAssumption, Init PROVE IInv
<1> USE DEF Init
<1>1. TypeOK
  <2>1. buffer \in [0 .. Last -> Char] /\ ti \in 0 .. Last
    BY Bounds
  <2>2. reads \in [Users -> 0 .. 3 * Reads] /\ off \in [Users -> {0, BufLen}]
    BY DEF DeviceAssumption
  <2>3. \A u \in Users : copied[u] \in Seq(Char)
    BY EmptySeq
  <2> QED
    BY <2>1, <2>2, <2>3 DEF TypeOK
<1>2. ThreadOrder /\ QuietPrefix
  BY DEF ThreadOrder, QuietPrefix, Sweeping
<1>3. ReadOrder
  BY EmptySeq DEF ReadOrder, DeviceAssumption
<1> QED
  BY <1>1, <1>2, <1>3 DEF IInv

-----------------------------------------------------------------------------
(* load.sh and unload.sh.                                                  *)

LEMMA AdminOK == ASSUME DeviceAssumption, IInv, Admin PROVE IInv'
<1> USE DEF IInv, user
<1>1. CASE Register
  <2> USE DEF Register
  <2>1. TypeOK'
    BY <1>1 DEF TypeOK, flags
  <2>2. ti = 0 /\ tpc = "none" /\ tpc' \in {"none", "fill"}
    BY <1>1 DEF ThreadOrder
  <2>3. ThreadOrder'
    BY <1>1, <2>2 DEF ThreadOrder, Body, Sweeping
  <2>4. ReadOrder' /\ QuietPrefix'
    BY <1>1, <2>2 DEF ReadOrder, QuietPrefix, Whole
  <2> QED
    BY <2>1, <2>3, <2>4
<1>2. CASE Mknod \/ Unregister \/ Unhalt \/ Free \/ RmNode
  <2>1. UNCHANGED <<thread, user>> /\ apc' # "insmod"
    BY <1>2 DEF Mknod, Unregister, Unhalt, Free, RmNode
  <2>2. TypeOK'
    BY <1>2, <2>1 DEF TypeOK, thread, flags, Mknod, Unregister, Unhalt, Free, RmNode
  <2>3. ThreadOrder' /\ ReadOrder' /\ QuietPrefix'
    BY <2>1 DEF ThreadOrder, ReadOrder, QuietPrefix, Whole, Sweep, thread
  <2> QED
    BY <2>2, <2>3
<1> QED
  BY <1>1, <1>2 DEF Admin

-----------------------------------------------------------------------------
(* hardwareSim.                                                            *)

(* What a step of the thread that touches the buffer leaves to show. *)
LEMMA ThreadKeeps ==
  ASSUME IInv, UNCHANGED <<admin, flags, upc, off, reads, copied>>,
         buffer' \in [0 .. Last -> Char], ti' \in 0 .. Last,
         quiet' \in [Users -> BOOLEAN], ThreadOrder', QuietPrefix',
         tpc' \in {"none", "fill", "outer", "inner", "done", "oops"} \union Sweeping
  PROVE  IInv'
<1>1. TypeOK'
  BY DEF IInv, TypeOK, admin, flags
<1>2. ReadOrder'
  BY DEF IInv, ReadOrder
<1> QED
  BY <1>1, <1>2 DEF IInv

LEMMA NotQuiet ==
  ASSUME IInv, tpc \notin {"outer", "inner", "done", "oops"}
  PROVE  quiet \in [Users -> BOOLEAN] /\ \A u \in Users : ~quiet[u]
BY DEF IInv, TypeOK, QuietPrefix

LEMMA FillOK ==
  ASSUME DeviceAssumption, IInv, Fill, UNCHANGED <<admin, flags, upc, off, reads, copied>>
  PROVE  IInv'
<1> USE DEF Fill, Set
<1>0. /\ buffer \in [0 .. Last -> Char] /\ ti \in 0 .. Last
      /\ apc' = apc /\ apc # "insmod"
      /\ \A i \in Body : i < ti => buffer[i] = 1
  BY DEF IInv, TypeOK, ThreadOrder, admin
<1>1. QuietPrefix' /\ quiet' \in [Users -> BOOLEAN]
  BY NotQuiet DEF QuietPrefix
<1>2. CASE ti < Last
  <2>1. buffer' \in [0 .. Last -> Char] /\ ti' \in 0 .. Last /\ ti \in Body
    BY <1>0, <1>2, Bounds DEF Body
  <2>2. \A i \in Body : i < ti' => buffer'[i] = 1
    BY <1>0, <1>2, <2>1, Bounds DEF Body
  <2>3. ThreadOrder'
    BY <1>0, <1>2, <2>2 DEF ThreadOrder, Sweeping
  <2> QED
    BY <1>1, <1>2, <2>1, <2>3, ThreadKeeps
<1>3. CASE ~(ti < Last)
  <2>1. buffer' \in [0 .. Last -> Char] /\ ti' \in 0 .. Last
    BY <1>0, <1>3, Bounds
  <2>2. buffer'[Last] = 0 /\ \A i \in Body : buffer'[i] = 1
    BY <1>0, <1>3, Bounds DEF Body
  <2>3. Whole'
    BY <2>2, Bounds DEF Whole, Body
  <2>4. ThreadOrder'
    BY <1>0, <1>3, <2>3 DEF ThreadOrder, Sweeping
  <2> QED
    BY <1>1, <1>3, <2>1, <2>4, ThreadKeeps
<1> QED
  BY <1>2, <1>3

LEMMA OuterOK ==
  ASSUME DeviceAssumption, IInv, Outer, UNCHANGED <<admin, flags, upc, off, reads, copied>>
  PROVE  IInv'
<1> USE DEF Outer
<1>1. tpc' \in {"inner", "done"} /\ UNCHANGED <<buffer, ti, quiet, copied, apc>>
  BY DEF admin
<1>2. ThreadOrder'
  BY <1>1 DEF IInv, ThreadOrder, Whole, Sweeping
<1>3. QuietPrefix'
  BY <1>1 DEF IInv, QuietPrefix, Whole
<1> QED
  BY <1>1, <1>2, <1>3, ThreadKeeps DEF IInv, TypeOK

LEMMA InnerOK ==
  ASSUME DeviceAssumption, IInv, Inner, UNCHANGED <<admin, flags, upc, off, reads, copied>>
  PROVE  IInv'
<1> USE DEF Inner
<1>0. UNCHANGED <<buffer, apc, copied>> /\ apc # "insmod" /\ Whole
  BY DEF admin, IInv, ThreadOrder
<1>1. CASE is_halt
  <2>1. ThreadOrder'
    BY <1>0, <1>1 DEF ThreadOrder, Whole, Sweeping
  <2>2. QuietPrefix'
    BY <1>0, <1>1 DEF IInv, QuietPrefix, Whole
  <2> QED
    BY <1>0, <1>1, <2>1, <2>2, ThreadKeeps DEF IInv, TypeOK
<1>2. CASE ~is_halt
  <2> USE DEF Disturb
  <2>1. \E ch \in 1 .. Letters : Sweep(ch)'
    BY <1>0, <1>2, Bounds DEF Whole, Sweep, Body
  <2>2. ThreadOrder'
    BY <1>0, <1>2, <2>1, Bounds DEF ThreadOrder, Whole, Sweeping
  <2>3. QuietPrefix'
    BY <1>2 DEF QuietPrefix
  <2>4. /\ buffer' \in [0 .. Last -> Char] /\ ti' \in 0 .. Last /\ tpc' \in Sweeping
        /\ quiet' \in [Users -> BOOLEAN]
    <3>1. buffer' \in [0 .. Last -> Char]
      BY <1>0 DEF IInv, TypeOK
    <3>2. ti' \in 0 .. Last
      BY <1>2, Bounds
    <3>3. tpc' \in Sweeping /\ quiet' \in [Users -> BOOLEAN]
      BY <1>2 DEF Sweeping
    <3> QED
      BY <3>1, <3>2, <3>3
  <2> QED
    BY <2>2, <2>3, <2>4, ThreadKeeps
<1> QED
  BY <1>1, <1>2

LEMMA IncOK ==
  ASSUME DeviceAssumption, IInv, Inc, UNCHANGED <<admin, flags, upc, off, reads, copied>>
  PROVE  IInv'
<1> USE DEF Inc, Set
<1>0. /\ buffer \in [0 .. Last -> Char] /\ ti \in 0 .. Last /\ ti < Last /\ ti' = ti
      /\ UNCHANGED <<apc, quiet>> /\ apc # "insmod" /\ tpc' = "wrap" /\ buffer[Last] = 0
  BY DEF IInv, TypeOK, ThreadOrder, admin, Sweeping
<1>1. PICK ch \in 1 .. Letters : Sweep(ch)
  BY DEF IInv, ThreadOrder, Sweeping
<1>2. buffer'[ti] = ch + 1 /\ \A i \in 0 .. Last : i # ti => buffer'[i] = buffer[i]
  BY <1>0, <1>1 DEF Sweep
<1>3. buffer' \in [0 .. Last -> Char]
  BY <1>0, <1>1, <1>2, Bounds DEF Sweep
<1>4. buffer'[Last] = 0 /\ Sweep(ch)'
  <2>1. ti # Last /\ buffer'[Last] = 0
    <3>1. Last \in Nat /\ Last \in 0 .. Last
      BY Bounds
    <3>2. ti # Last
      BY <1>0, <3>1
    <3> QED
      BY <1>0, <1>2, <3>1, <3>2
  <2>2. \A i \in Body : i # ti => buffer'[i] = buffer[i]
    BY <1>2, Bounds
  <2>3. \A i \in Body : i < ti \/ i > ti => i # ti
    BY <1>0 DEF Body
  <2> QED
    BY <1>0, <1>1, <1>2, <2>1, <2>2, <2>3 DEF Sweep
<1>5. ThreadOrder'
  BY <1>0, <1>4 DEF ThreadOrder, Sweeping
<1>6. QuietPrefix' /\ quiet' \in [Users -> BOOLEAN]
  BY <1>0, NotQuiet DEF QuietPrefix
<1> QED
  BY <1>0, <1>3, <1>5, <1>6, ThreadKeeps DEF Sweeping

(* The last Wrap of a sweep makes the buffer whole, each other one moves the
   sweep on by one letter. *)
LEMMA WrapOK ==
  ASSUME DeviceAssumption, IInv, Wrap, UNCHANGED <<admin, flags, upc, off, reads, copied>>
  PROVE  IInv'
<1> USE DEF Wrap, Set
<1>0. /\ buffer \in [0 .. Last -> Char] /\ ti \in 0 .. Last /\ ti < Last /\ ti' = ti + 1
      /\ UNCHANGED <<apc, quiet>> /\ apc # "insmod" /\ buffer[Last] = 0
      /\ tpc' = IF ti' = Last THEN "inner" ELSE "inc"
  BY DEF IInv, TypeOK, ThreadOrder, admin, Sweeping
<1>1. PICK ch \in 1 .. Letters : Sweep(ch)
  BY DEF IInv, ThreadOrder, Sweeping
<1>2. buffer'[ti] = Succ(ch) /\ \A i \in 0 .. Last : i # ti => buffer'[i] = buffer[i]
  <2>1. ch \in Nat /\ Letters \in Nat /\ ch <= Letters /\ buffer[ti] = ch + 1
    BY <1>1 DEF Sweep, DeviceAssumption
  <2>2. Succ(ch) = IF buffer[ti] > Letters THEN 1 ELSE buffer[ti]
    BY <2>1 DEF Succ
  <2> QED
    BY <1>0, <2>2
<1>3. buffer' \in [0 .. Last -> Char] /\ ti' \in 0 .. Last
  <2>1. Succ(ch) \in Char
    BY <1>1, Bounds
  <2>2. buffer' = [buffer EXCEPT ![ti] = Succ(ch)]
    BY <1>0, <1>2
  <2>3. ti' \in 0 .. Last
    BY <1>0, Bounds
  <2> QED
    BY <1>0, <2>1, <2>2, <2>3
<1>4. buffer'[Last] = 0 /\ \A i \in Body : i < ti' => buffer'[i] = Succ(ch)
  <2>1. ti # Last /\ buffer'[Last] = 0
    <3>1. Last \in Nat /\ Last \in 0 .. Last
      BY Bounds
    <3>2. ti # Last
      BY <1>0, <3>1
    <3> QED
      BY <1>0, <1>2, <3>1, <3>2
  <2>2. \A i \in Body : i # ti => buffer'[i] = buffer[i]
    BY <1>2, Bounds
  <2>3. \A i \in Body : i < ti' => i = ti \/ i < ti
    BY <1>0 DEF Body
  <2>4. \A i \in Body : i < ti => i # ti
    BY <1>0 DEF Body
  <2> QED
    BY <1>1, <1>2, <2>1, <2>2, <2>3, <2>4 DEF Sweep
<1>5. \A i \in Body : i >= ti' => buffer'[i] = ch
  BY <1>0, <1>1, <1>2, Bounds DEF Sweep, Body
<1>6. ThreadOrder'
  <2>1. CASE ti' = Last
    <3>1. Whole'
      BY <1>1, <1>4, <2>1, Bounds DEF Whole, Body
    <3> QED
      BY <1>0, <2>1, <3>1 DEF ThreadOrder, Sweeping
  <2>2. CASE ti' # Last
    <3>1. ti' \in Body
      BY <1>3, <2>2, Bounds
    <3>2. Sweep(ch)'
      BY <1>0, <1>4, <1>5, <2>2, <3>1 DEF Sweep, Body
    <3>3. ti' < Last
      BY <1>3, <2>2, Bounds
    <3> QED
      BY <1>0, <1>4, <2>2, <3>2, <3>3 DEF ThreadOrder, Sweeping
  <2> QED
    BY <2>1, <2>2
<1>7. QuietPrefix' /\ quiet' \in [Users -> BOOLEAN]
  BY <1>0, NotQuiet DEF QuietPrefix
<1> QED
  BY <1>0, <1>3, <1>6, <1>7, ThreadKeeps DEF Sweeping

LEMMA OopsOK ==
  ASSUME DeviceAssumption, IInv, Oops, UNCHANGED <<admin, flags, upc, off, reads, copied>>
  PROVE  IInv'
<1> USE DEF Oops
<1>1. UNCHANGED <<buffer, ti, quiet, copied, apc>> /\ apc # "insmod" /\ tpc' = "oops"
  BY DEF admin, IInv, ThreadOrder
<1>2. ThreadOrder'
  BY <1>1 DEF ThreadOrder, Sweeping
<1>3. QuietPrefix'
  BY <1>1 DEF IInv, QuietPrefix, Whole
<1> QED
  BY <1>1, <1>2, <1>3, ThreadKeeps DEF IInv, TypeOK

LEMMA ThreadOK == ASSUME DeviceAssumption, IInv, Thread PROVE IInv'
BY FillOK, OuterOK, InnerOK, IncOK, WrapOK, OopsOK DEF Thread

-----------------------------------------------------------------------------
(* The user program.                                                       *)

(* A step of u that touches neither the module nor the thread. *)
LEMMA UserKeeps ==
  ASSUME IInv, NEW u \in Users, UNCHANGED <<admin, is_running, thread>>, is_halt' \in BOOLEAN,
         upc' \in [Users -> {"off", "done"} \union OpenPC], off' \in [Users -> {0, BufLen}],
         reads' \in [Users -> 0 .. 3 * Reads], quiet' \in [Users -> BOOLEAN],
         ReadOrder', QuietPrefix'
  PROVE  IInv'
<1>1. TypeOK'
  BY DEF IInv, TypeOK, admin, thread, ReadOrder
<1>2. ThreadOrder'
  BY DEF IInv, ThreadOrder, admin, thread, Whole, Sweep
<1> QED
  BY <1>1, <1>2 DEF IInv

LEMMA UserTypes ==
  ASSUME IInv
  PROVE  /\ upc \in [Users -> {"off", "done"} \union OpenPC] /\ off \in [Users -> {0, BufLen}]
         /\ reads \in [Users -> 0 .. 3 * Reads] /\ quiet \in [Users -> BOOLEAN]
         /\ copied \in [Users -> Seq(Char)] /\ is_halt \in BOOLEAN
BY DEF IInv, TypeOK, ReadOrder

LEMMA OpenOK == ASSUME DeviceAssumption, IInv, NEW u \in Users, Open(u) PROVE IInv'
<1> USE DEF Open, Goto
<1>1. upc' \in [Users -> {"off", "done"} \union OpenPC]
  BY UserTypes DEF OpenPC
<1>2. ReadOrder'
  BY UserTypes DEF IInv, ReadOrder, DeviceAssumption
<1>3. QuietPrefix'
  BY DEF IInv, QuietPrefix, thread, Whole
<1> QED
  BY <1>1, <1>2, <1>3, UserTypes, UserKeeps DEF flags

(* ctrl-C, close and the two ioctls. *)
LEMMA LeaveReadOK ==
  ASSUME DeviceAssumption, IInv, NEW u \in Users, Forget(u),
         UNCHANGED <<admin, is_running, thread, off, reads>>, is_halt' \in BOOLEAN,
         \/ Goto(u, "done")
         \/ Goto(u, "read") /\ upc[u] \in {"halt", "resume"}
  PROVE  IInv'
<1> USE DEF Forget, Goto
<1>1. /\ upc' \in [Users -> {"off", "done"} \union OpenPC] /\ quiet' \in [Users -> BOOLEAN]
      /\ copied' = [copied EXCEPT ![u] = <<>>] /\ copied' \in [Users -> Seq(Char)]
  BY UserTypes, EmptySeq DEF OpenPC
<1>2. ReadOrder'
  BY <1>1, UserTypes, EmptySeq DEF IInv, ReadOrder, DeviceAssumption
<1>3. QuietPrefix'
  BY <1>1, UserTypes DEF IInv, QuietPrefix, thread, Whole
<1> QED
  BY <1>1, <1>2, <1>3, UserTypes, UserKeeps

(* The count of reads stays within the three parts. *)
LEMMA ReadDoneCounts ==
  ASSUME DeviceAssumption, IInv, NEW u \in Users, ReadDone(u), upc[u] \in {"read", "copy"}
  PROVE  /\ reads' = [reads EXCEPT ![u] = reads[u] + 1] /\ reads' \in [Users -> 0 .. 3 * Reads]
         /\ upc' \in [Users -> {"off", "done"} \union OpenPC]
         /\ \A v \in Users : v # u => upc'[v] = upc[v]
         /\ upc'[u] \in {"read", "halt", "resume", "close"}
         /\ upc'[u] \in {"read", "halt", "resume"} => reads'[u] < 3 * Reads
<1> DEFINE k == reads[u] + 1
<1>1. k \in 1 .. 3 * Reads
  BY UserTypes DEF DeviceAssumption, IInv, ReadOrder
<1>2. /\ reads' = [reads EXCEPT ![u] = k]
      /\ upc' = [upc EXCEPT ![u] = After(k)]
  BY DEF ReadDone, Goto
<1> HIDE DEF k
<1>3. /\ After(k) \in {"read", "halt", "resume", "close"}
      /\ After(k) \in {"read", "halt", "resume"} => k < 3 * Reads
  <2>1. CASE k = Reads
    BY <1>1, <2>1 DEF After, DeviceAssumption
  <2>2. CASE k # Reads /\ k = 2 * Reads
    BY <1>1, <2>2 DEF After, DeviceAssumption
  <2>3. CASE k # Reads /\ k # 2 * Reads /\ k = 3 * Reads
    BY <1>1, <2>3 DEF After, DeviceAssumption
  <2>4. CASE k # Reads /\ k # 2 * Reads /\ k # 3 * Reads
    BY <1>1, <2>4 DEF After, DeviceAssumption
  <2> QED
    BY <2>1, <2>2, <2>3, <2>4
<1>4. reads' \in [Users -> 0 .. 3 * Reads] /\ reads'[u] = k
  BY <1>1, <1>2, UserTypes
<1> QED
  BY <1>2, <1>3, <1>4, UserTypes DEF OpenPC, k

LEMMA ReadOK == ASSUME DeviceAssumption, IInv, NEW u \in Users, Read(u) PROVE IInv'
<1> USE DEF Read
<1>1. CASE off[u] >= BufLen
  <2> USE DEF Forget
  <2>1. off[u] # 0
    BY <1>1 DEF DeviceAssumption
  <2>2. /\ copied' = [copied EXCEPT ![u] = <<>>] /\ copied' \in [Users -> Seq(Char)]
        /\ quiet' \in [Users -> BOOLEAN]
    BY <1>1, UserTypes, EmptySeq
  <2>3. ReadOrder'
    BY <1>1, <2>1, <2>2, ReadDoneCounts, UserTypes, EmptySeq
    DEF IInv, ReadOrder, DeviceAssumption
  <2>4. QuietPrefix'
    BY <1>1, <2>2, UserTypes DEF IInv, QuietPrefix, thread, Whole
  <2> QED
    BY <1>1, <2>2, <2>3, <2>4, ReadDoneCounts, UserTypes, UserKeeps DEF flags
<1>2. CASE ~(off[u] >= BufLen)
  <2> USE DEF Goto
  <2>1. off[u] = 0 /\ copied[u] = <<>> /\ Len(copied[u]) = 0
    BY <1>2, UserTypes, EmptySeq DEF IInv, ReadOrder, DeviceAssumption
  <2>2. upc' \in [Users -> {"off", "done"} \union OpenPC] /\ quiet' \in [Users -> BOOLEAN]
    <3>1. (is_halt /\ tpc \in {"outer", "inner"}) \in BOOLEAN
      BY UserTypes
    <3> QED
      BY <1>2, <3>1, UserTypes DEF OpenPC
  <2>3. ReadOrder'
    BY <1>2, <2>1, UserTypes DEF IInv, ReadOrder, DeviceAssumption
  <2>4. QuietPrefix'
    <3>1. \A v \in Users : v # u => quiet'[v] = quiet[v]
      BY <1>2, UserTypes
    <3>2. quiet'[u] => tpc \in {"outer", "inner"} /\ Whole
      BY <1>2, UserTypes DEF IInv, ThreadOrder
    <3> QED
      BY <1>2, <2>1, <3>1, <3>2 DEF IInv, QuietPrefix, thread, Whole
  <2> QED
    BY <1>2, <2>2, <2>3, <2>4, UserTypes, UserKeeps DEF flags
<1> QED
  BY <1>1, <1>2

LEMMA CopyOK == ASSUME DeviceAssumption, IInv, NEW u \in Users, Copy(u) PROVE IInv'
<1> DEFINE k == Len(copied[u])
           c == buffer[k]
<1>1. /\ upc[u] = "copy" /\ off[u] = 0 /\ k \in 0 .. Last /\ copied[u] \in Seq(Char)
      /\ UNCHANGED <<admin, flags, thread, quiet>>
  <2>1. upc[u] = "copy" /\ UNCHANGED <<admin, flags, thread, quiet>>
    BY DEF Copy
  <2>2. off[u] = 0 /\ k < BufLen /\ copied[u] \in Seq(Char)
    BY <2>1, UserTypes DEF IInv, ReadOrder
  <2>3. k \in Nat
    BY <2>2, LenProperties
  <2> QED
    BY <2>1, <2>2, <2>3, Bounds
<1>2. c \in Char
  BY <1>1 DEF IInv, TypeOK
<1>3. copied' = [copied EXCEPT ![u] = Append(copied[u], c)]
  BY <1>1 DEF Copy
<1>4. /\ Append(copied[u], c) \in Seq(Char) /\ Len(Append(copied[u], c)) = k + 1
      /\ \A i \in 1 .. k : Append(copied[u], c)[i] = copied[u][i]
      /\ Append(copied[u], c)[k + 1] = c
  BY <1>1, <1>2, AppendProperties
<1>5. /\ copied' \in [Users -> Seq(Char)] /\ Len(copied'[u]) = k + 1
      /\ \A v \in Users : v # u => copied'[v] = copied[v]
      /\ \A i \in 1 .. k : copied'[u][i] = copied[u][i]
      /\ copied'[u][k + 1] = buffer[k]
  BY <1>3, <1>4, UserTypes
<1>6. /\ k = Last => off' = [off EXCEPT ![u] = BufLen] /\ ReadDone(u)
      /\ k # Last => UNCHANGED <<upc, off, reads>>
  BY <1>1, Bounds DEF Copy
<1> HIDE DEF k, c
<1>7. QuietPrefix'
  <2>1. quiet[u] => \A i \in 1 .. k + 1 : copied'[u][i] = buffer[i - 1]
    <3>1. SUFFICES ASSUME quiet[u], NEW i \in 1 .. k + 1 PROVE copied'[u][i] = buffer[i - 1]
      OBVIOUS
    <3>2. CASE i = k + 1
      BY <1>1, <1>5, <3>2
    <3>3. CASE i # k + 1
      <4>1. i \in 1 .. k
        BY <1>1, <3>3
      <4> QED
        BY <1>5, <3>1, <4>1 DEF IInv, QuietPrefix, k
    <3> QED
      BY <3>2, <3>3
  <2> QED
    BY <1>1, <1>5, <2>1 DEF IInv, QuietPrefix, thread, Whole
<1>8. CASE k = Last
  <2>1. off' \in [Users -> {0, BufLen}] /\ off'[u] # 0
    <3>1. off' = [off EXCEPT ![u] = BufLen] /\ off \in [Users -> {0, BufLen}]
      BY <1>6, <1>8, UserTypes
    <3>2. BufLen # 0
      BY DEF DeviceAssumption
    <3> QED
      BY <3>1, <3>2
  <2>2. k + 1 <= BufLen
    BY <1>8, Bounds
  <2>3. ReadOrder'
    <3>1. /\ upc'[u] \in {"read", "halt", "resume", "close"}
          /\ upc'[u] \in {"read", "halt", "resume"} => reads'[u] < 3 * Reads
          /\ \A v \in Users : v # u =>
               upc'[v] = upc[v] /\ reads'[v] = reads[v] /\ off'[v] = off[v]
      BY <1>1, <1>6, <1>8, ReadDoneCounts, UserTypes
    <3>2. Len(copied'[u]) <= BufLen
      BY <1>5, <2>2
    <3> QED
      BY <1>5, <2>1, <3>1, <3>2 DEF IInv, ReadOrder
  <2> QED
    BY <1>1, <1>6, <1>7, <1>8, <2>1, <2>3, ReadDoneCounts, UserTypes, UserKeeps DEF flags
<1>9. CASE k # Last
  <2>1. k + 1 < BufLen
    BY <1>1, <1>9, Bounds
  <2>2. ReadOrder'
    <3>1. Len(copied'[u]) < BufLen /\ Len(copied'[u]) <= BufLen
      BY <1>1, <1>5, <2>1 DEF DeviceAssumption
    <3>2. upc'[u] = "copy" /\ off'[u] = 0 /\ UNCHANGED <<upc, off, reads>>
      BY <1>1, <1>6, <1>9
    <3> QED
      BY <1>5, <3>1, <3>2 DEF IInv, ReadOrder
  <2> QED
    BY <1>1, <1>6, <1>7, <1>9, <2>2, UserTypes, UserKeeps DEF flags
<1> QED
  BY <1>8, <1>9

LEMMA UserOK ==
  ASSUME DeviceAssumption, IInv, NEW u \in Users, Open(u) \/ User(u) \/ Interrupt(u)
  PROVE  IInv'
<1>1. CASE Ioctl(u, "halt", TRUE) \/ Ioctl(u, "resume", FALSE) \/ Close(u) \/ Interrupt(u)
  BY <1>1, LeaveReadOK, UserTypes DEF Ioctl, Close, Interrupt, flags
<1> QED
  BY <1>1, OpenOK, ReadOK, CopyOK DEF User

-----------------------------------------------------------------------------
(* The theorems.                                                           *)

LEMMA NextOK == ASSUME DeviceAssumption, IInv, [Next]_vars PROVE IInv'
<1>1. CASE UNCHANGED vars
  BY <1>1 DEF vars, admin, flags, thread, user, IInv, TypeOK, ThreadOrder, ReadOrder, QuietPrefix,
    Whole, Sweep
<1> QED
  BY <1>1, AdminOK, ThreadOK, UserOK DEF Next

LEMMA Invariance == ASSUME DeviceAssumption PROVE Spec => []IInv
<1>1. Init => IInv
  BY InitOK
<1>2. IInv /\ [Next]_vars => IInv'
  BY NextOK
<1> QED
  BY <1>1, <1>2, PTL DEF Spec

(* Every variable keeps its type: the thread stays within the buffer and the
   alphabet, and the user programs within their reads. *)
THEOREM TypeCorrect == ASSUME DeviceAssumption PROVE Spec => []TypeOK
<1>1. IInv => TypeOK
  BY DEF IInv
<1> QED
  BY <1>1, Invariance, PTL

LEMMA WholeRead == ASSUME DeviceAssumption, IInv PROVE QuietReadWhole
<1> SUFFICES ASSUME NEW u \in Users, quiet[u], Len(copied[u]) = BufLen
             PROVE  /\ copied[u][BufLen] = 0
                    /\ \E ch \in 1 .. Letters : \A i \in 1 .. Last : copied[u][i] = ch
  BY DEF QuietReadWhole
<1>1. Whole /\ \A i \in 1 .. BufLen : copied[u][i] = buffer[i - 1]
  BY DEF IInv, QuietPrefix
<1>2. copied[u][BufLen] = buffer[Last]
  BY <1>1, Bounds
<1>3. \A i \in 1 .. Last : i - 1 \in Body /\ copied[u][i] = buffer[i - 1]
  <2>1. \A i \in 1 .. Last : i - 1 \in Body /\ i \in 1 .. BufLen
    BY Bounds DEF Body
  <2> QED
    BY <1>1, <2>1
<1> QED
  BY <1>1, <1>2, <1>3 DEF Whole

(* For every length of the buffer and every number of users: a read that begins
   while the thread is parked, or about to, and that nobody disturbs by a RESUME
   gets the same letter throughout. *)
THEOREM QuietReadsWhole == ASSUME DeviceAssumption PROVE Spec => []QuietReadWhole
<1>1. IInv => QuietReadWhole
  BY WholeRead
<1> QED
  BY <1>1, Invariance, PTL
=============================================================================
