-------------------------- MODULE ParallelFileProofs --------------------------
(* Safety of ParallelFile for every number of workers and every file length. *)
EXTENDS ParallelFile, SequenceTheorems, FiniteSetTheorems, TLAPS

(***************************************************************************)
(* The invariant.  A worker that has read its file has one completion to   *)
(* be accounted for.  It is pending, or carried by the handler that is to  *)
(* write it, or has met its fate; each step of the kernel or the handler   *)
(* moves it from one of these to the next, so that it is never in two.     *)
(***************************************************************************)
MainOrder ==
  /\ ppc = "wait" => n < NumWorkers
  /\ ppc = "done" => n = NumWorkers /\ frames = <<>>
  /\ ppc = "fork" => /\ interrupted = 0
                     /\ \A w \in Workers : wpc[w] # "reaped" /\ (w > n => wpc[w] = "none")
  /\ ppc # "fork" => interrupted <= n

(* The handler of a signal is not interrupted by the same signal. *)
NestedOnce ==
  /\ Len(frames) <= 2
  /\ Len(frames) = 2 => frames[1].sig # frames[2].sig

(* A handler between its lock and its write holds the lock, unless an inner one
   has closed the log since. *)
LockHeld ==
  \A i \in DOMAIN frames : frames[i].at = "write" /\ ~frames[i].cut => lock = "own"

CarriedBy(i, w) == frames[i].sig = "USR2" /\ frames[i].src = w /\ frames[i].at # "unlock"
Carried(w) == \E i \in DOMAIN frames : CarriedBy(i, w)
OnTheWay(w) ==
  (IF pending["USR2"] = w THEN 1 ELSE 0) + (IF Carried(w) THEN 1 ELSE 0)

(* Each worker's completion is in one place. *)
OnePlace ==
  \A w \in Workers :
    /\ w \notin completed => Fates(w) + OnTheWay(w) = 0
    /\ Fates(w) + OnTheWay(w) <= 1
    /\ w \in completed /\ (ppc # "done" \/ wpc[w] = "reaped") => Fates(w) + OnTheWay(w) = 1

WorkerOrder ==
  \A w \in Workers :
    /\ wpc[w] \in {"none", "failed", "start", "read"} => w \notin completed
    /\ orphan[w] => ppc = "done"
    /\ ppc \in {"loop", "wait", "done"} /\ wpc[w] = "reaped" => OnTheWay(w) = 0

(* Each wait that no handler has interrupted has reaped a worker, or there was
   none left. *)
WaitsCount ==
  ppc # "fork" => Left = {} \/ Cardinality(Left) <= NumWorkers - n + interrupted

IInv ==
  /\ TypeOK
  /\ MainOrder
  /\ NestedOnce
  /\ LockHeld
  /\ OnePlace
  /\ WorkerOrder
  /\ WaitsCount

-----------------------------------------------------------------------------
(* What the handler does to its frames.                                    *)

Ats == {"open", "lock", "write", "unlock"}

LEMMA FrameFacts ==
  ASSUME TypeOK, NestedOnce
  PROVE  /\ frames \in Seq(Frame) /\ DOMAIN frames = 1 .. Len(frames)
         /\ Len(frames) \in 0 .. 2
         /\ frames # <<>> => Len(frames) \in {1, 2} /\ Len(frames) \in DOMAIN frames
         /\ frames = <<>> => Len(frames) = 0
         /\ \A i \in DOMAIN frames :
              /\ frames[i] \in Frame /\ frames[i].sig \in Signals /\ frames[i].src \in Workers
              /\ frames[i].at \in Ats /\ frames[i].cut \in BOOLEAN
<1>1. frames \in Seq(Frame)
  BY DEF TypeOK
<1>2. Len(frames) \in Nat /\ DOMAIN frames = 1 .. Len(frames)
  BY <1>1, LenProperties
<1>3. frames # <<>> => Len(frames) # 0
  BY <1>1, EmptySeq
<1>4. \A i \in DOMAIN frames : frames[i] \in Frame
  BY <1>1, <1>2, ElementOfSeq
<1>5. frames = <<>> => Len(frames) = 0
  BY EmptySeq
<1> QED
  BY <1>1, <1>2, <1>3, <1>4, <1>5 DEF NestedOnce, Frame, Ats

LEMMA DeliverFrames ==
  ASSUME TypeOK, NestedOnce, NEW sig \in Signals, Deliver(sig)
  PROVE  /\ Len(frames) \in {0, 1}
         /\ frames' \in Seq(Frame) /\ Len(frames') = Len(frames) + 1
         /\ DOMAIN frames' = 1 .. Len(frames')
         /\ \A i \in DOMAIN frames : i \in DOMAIN frames' /\ frames'[i] = frames[i]
         /\ frames'[Len(frames')] =
              [sig |-> sig, src |-> pending[sig], at |-> "open", cut |-> FALSE]
         /\ \A i \in DOMAIN frames' : i \in DOMAIN frames \/ i = Len(frames')
         /\ \A i \in DOMAIN frames : frames[i].sig # sig
<1> DEFINE e == [sig |-> sig, src |-> pending[sig], at |-> "open", cut |-> FALSE]
<1>1. pending[sig] \in Workers
  BY DEF TypeOK, Deliver, NoWorker
<1>2. e \in Frame
  BY <1>1 DEF Frame
<1>3. \A i \in DOMAIN frames : frames[i].sig # sig
  BY DEF Deliver, Handled
<1>4. Len(frames) # 2
  BY <1>3, FrameFacts DEF NestedOnce, Signals
<1>5. frames' = Append(frames, e)
  BY DEF Deliver
<1> HIDE DEF e
<1>6. /\ frames' \in Seq(Frame) /\ Len(frames') = Len(frames) + 1
      /\ \A i \in 1 .. Len(frames) : frames'[i] = frames[i]
      /\ frames'[Len(frames) + 1] = e
  BY <1>2, <1>5, FrameFacts, AppendProperties
<1>7. DOMAIN frames' = 1 .. Len(frames')
  BY <1>6, LenProperties
<1> QED
  BY <1>3, <1>4, <1>6, <1>7, FrameFacts DEF e

LEMMA StepFrames ==
  ASSUME TypeOK, NestedOnce, frames # <<>>, NEW l \in Ats, Step(l)
  PROVE  /\ frames' \in Seq(Frame) /\ Len(frames') = Len(frames)
         /\ DOMAIN frames' = DOMAIN frames
         /\ \A i \in DOMAIN frames :
              /\ frames'[i].sig = frames[i].sig /\ frames'[i].src = frames[i].src
              /\ frames'[i].cut = frames[i].cut
              /\ frames'[i].at = IF i = Len(frames) THEN l ELSE frames[i].at
<1> DEFINE e == [frames[Len(frames)] EXCEPT !.at = l]
<1>1. e \in Frame
  BY FrameFacts DEF Frame, Ats
<1>2. frames' = [frames EXCEPT ![Len(frames)] = e]
  BY DEF Step
<1> HIDE DEF e
<1>3. /\ frames' \in Seq(Frame) /\ Len(frames') = Len(frames)
      /\ \A i \in 1 .. Len(frames) : frames'[i] = IF i = Len(frames) THEN e ELSE frames[i]
  BY <1>1, <1>2, FrameFacts, ExceptSeq
<1>4. DOMAIN frames' = DOMAIN frames
  BY <1>3, FrameFacts, LenProperties
<1>5. /\ e.sig = frames[Len(frames)].sig /\ e.src = frames[Len(frames)].src
      /\ e.cut = frames[Len(frames)].cut /\ e.at = l
  BY FrameFacts DEF e, Frame
<1> QED
  BY <1>3, <1>4, <1>5, FrameFacts

LEMMA LeaveFrames ==
  ASSUME TypeOK, NestedOnce, frames # <<>>, Leave
  PROVE  /\ frames' \in Seq(Frame) /\ Len(frames') = Len(frames) - 1
         /\ DOMAIN frames' = 1 .. Len(frames')
         /\ \A i \in DOMAIN frames' :
              /\ i \in DOMAIN frames /\ (frames'[i].at = "write" => frames'[i].cut = TRUE)
              /\ frames'[i].sig = frames[i].sig /\ frames'[i].src = frames[i].src
              /\ frames'[i].at = frames[i].at
<1>1. CASE Len(frames) = 2
  <2> DEFINE e == [frames[1] EXCEPT !.cut = @ \/ frames[1].at = "write"]
  <2>1. 1 \in DOMAIN frames /\ frames[1] \in Frame
    BY <1>1, FrameFacts
  <2>2. e \in Frame
    BY <2>1 DEF Frame
  <2>3. frames' = <<e>>
    BY <1>1 DEF Leave
  <2> HIDE DEF e
  <2>4. frames' \in Seq(Frame) /\ Len(frames') = 1 /\ frames'[1] = e
    BY <2>2, <2>3
  <2>5. DOMAIN frames' = 1 .. 1
    BY <2>4, LenProperties
  <2>6. /\ e.sig = frames[1].sig /\ e.src = frames[1].src /\ e.at = frames[1].at
        /\ (e.at = "write" => e.cut = TRUE)
    BY <2>1 DEF e, Frame
  <2> QED
    BY <1>1, <2>1, <2>4, <2>5, <2>6
<1>2. CASE Len(frames) # 2
  <2>1. frames' = <<>>
    BY <1>2 DEF Leave
  <2> QED
    BY <1>2, <2>1, FrameFacts, EmptySeq
<1> QED
  BY <1>1, <1>2

LEMMA PopFrames ==
  ASSUME TypeOK, NestedOnce, frames # <<>>, frames' = SubSeq(frames, 1, Len(frames) - 1)
  PROVE  /\ frames' \in Seq(Frame) /\ Len(frames') = Len(frames) - 1
         /\ DOMAIN frames' = 1 .. Len(frames')
         /\ \A i \in DOMAIN frames' : i \in DOMAIN frames /\ frames'[i] = frames[i]
<1>1. Len(frames) - 1 \in Int /\ \A i \in 1 .. Len(frames) - 1 : frames[i] \in Frame
  BY FrameFacts
<1>2. /\ frames' \in Seq(Frame)
      /\ Len(frames') = IF 1 <= Len(frames) - 1 THEN Len(frames) - 1 - 1 + 1 ELSE 0
      /\ \A i \in 1 .. Len(frames) - 1 - 1 + 1 : frames'[i] = frames[1 + i - 1]
  BY <1>1, SubSeqProperties
<1>3. DOMAIN frames' = 1 .. Len(frames')
  BY <1>2, LenProperties
<1> QED
  BY <1>2, <1>3, FrameFacts

-----------------------------------------------------------------------------
(* Where a completion is after a step of the handler.                      *)

LEMMA Still ==
  ASSUME frames' = frames, pending'["USR2"] = pending["USR2"], UNCHANGED <<record, lost>>
  PROVE  \A w \in Workers : Fates(w)' = Fates(w) /\ OnTheWay(w)' = OnTheWay(w)
BY DEF record, Fates, OnTheWay, Carried, CarriedBy

LEMMA TopCarries ==
  ASSUME TypeOK, NestedOnce, frames # <<>>
  PROVE  /\ Top \in Frame /\ Top.sig \in Signals /\ Top.src \in Workers
         /\ Top.sig = "USR2" =>
              \A w \in Workers : Carried(w) <=> Top.src = w /\ Top.at # "unlock"
<1>0. Len(frames) \in {1, 2} /\ DOMAIN frames = 1 .. Len(frames)
  BY FrameFacts
<1>1. \A i \in DOMAIN frames : i = Len(frames) \/ (i = 1 /\ Len(frames) = 2)
  <2>1. \A k \in {1, 2} : \A i \in 1 .. k : i = k \/ (i = 1 /\ k = 2)
    OBVIOUS
  <2> QED
    BY <1>0, <2>1
<1>2. Top.sig = "USR2" => \A i \in DOMAIN frames : frames[i].sig = "USR2" => i = Len(frames)
  BY <1>1, FrameFacts DEF Top, NestedOnce
<1> QED
  BY <1>2, FrameFacts DEF Top, Carried, CarriedBy

(* Whatever ends the innermost handler ends what it carries, and nothing else. *)
LEMMA EndCarries ==
  ASSUME TypeOK, NestedOnce, frames # <<>>,
         Leave \/ frames' = SubSeq(frames, 1, Len(frames) - 1)
  PROVE  \A w \in Workers : Carried(w)' <=> Carried(w) /\ Top.sig # "USR2"
<1>1. /\ DOMAIN frames' = 1 .. Len(frames')
      /\ Len(frames') = Len(frames) - 1
      /\ \A i \in DOMAIN frames' :
           /\ i \in DOMAIN frames
           /\ frames'[i].sig = frames[i].sig /\ frames'[i].src = frames[i].src
           /\ frames'[i].at = frames[i].at
  BY LeaveFrames, PopFrames
<1>2. \A i \in DOMAIN frames : i \in DOMAIN frames' <=> i # Len(frames)
  BY <1>1, FrameFacts
<1>3. \A i \in DOMAIN frames' : i = 1 /\ Len(frames) = 2
  BY <1>1, FrameFacts
<1>4. CASE Top.sig = "USR2"
  <2>1. \A i \in DOMAIN frames' : frames'[i].sig # "USR2"
    BY <1>1, <1>3, <1>4 DEF Top, NestedOnce
  <2> QED
    BY <1>4, <2>1 DEF Carried, CarriedBy
<1>5. CASE Top.sig # "USR2"
  <2>1. \A i \in DOMAIN frames : frames[i].sig = "USR2" => i \in DOMAIN frames'
    BY <1>2, <1>5 DEF Top
  <2> QED
    BY <1>1, <1>5, <2>1 DEF Carried, CarriedBy
<1> QED
  BY <1>4, <1>5

LEMMA StepCarries ==
  ASSUME TypeOK, NestedOnce, frames # <<>>, Top.at # "unlock", NEW l \in Ats, Step(l)
  PROVE  \A w \in Workers :
           Carried(w)' <=> Carried(w) /\ (l = "unlock" => Top.sig # "USR2")
<1>1. /\ DOMAIN frames' = DOMAIN frames
      /\ \A i \in DOMAIN frames :
           /\ frames'[i].sig = frames[i].sig /\ frames'[i].src = frames[i].src
           /\ frames'[i].at = IF i = Len(frames) THEN l ELSE frames[i].at
  BY StepFrames
<1>2. CASE l = "unlock" /\ Top.sig = "USR2"
  <2>1. \A i \in DOMAIN frames : frames[i].sig = "USR2" => i = Len(frames)
    BY <1>2, FrameFacts DEF Top, NestedOnce
  <2> QED
    BY <1>1, <1>2, <2>1 DEF Carried, CarriedBy
<1>3. CASE l = "unlock" /\ Top.sig # "USR2"
  BY <1>1, <1>3 DEF Top, Carried, CarriedBy
<1>4. CASE l # "unlock"
  BY <1>1, <1>4 DEF Top, Carried, CarriedBy
<1> QED
  BY <1>2, <1>3, <1>4

-----------------------------------------------------------------------------
(* The initial states, and the steps of main.                              *)

LEMMA InitOK == ASSUME FilesAssumption, Init PROVE IInv
<1> USE DEF Init, FilesAssumption
<1>1. frames \in Seq(Frame) /\ Len(frames) = 0 /\ DOMAIN frames = {}
  BY EmptySeq
<1>2. pending \in [Signals -> Workers \union {NoWorker}]
  BY DEF Signals
<1>3. TypeOK
  BY <1>1, <1>2 DEF TypeOK
<1>4. \A w \in Workers : Fates(w) = 0 /\ OnTheWay(w) = 0 /\ w # NoWorker
  BY <1>1 DEF Fates, OnTheWay, Carried, Signals, NoWorker, Workers
<1>5. OnePlace /\ WorkerOrder
  BY <1>4 DEF OnePlace, WorkerOrder
<1>6. MainOrder /\ NestedOnce /\ LockHeld /\ WaitsCount
  BY <1>1 DEF MainOrder, NestedOnce, LockHeld, WaitsCount
<1> QED
  BY <1>3, <1>5, <1>6 DEF IInv

(* Removing one of the workers that are left, and keeping the others. *)
LEMMA LeftFacts ==
  ASSUME FilesAssumption
  PROVE  /\ \A S \in SUBSET Workers : Cardinality(S) \in 0 .. NumWorkers /\ IsFiniteSet(S)
         /\ \A S \in SUBSET Workers : \A x \in S : Cardinality(S \ {x}) = Cardinality(S) - 1
         /\ Left \subseteq Workers
<1>1. IsFiniteSet(Workers) /\ Cardinality(Workers) = NumWorkers
  BY FS_Interval DEF FilesAssumption, Workers
<1>2. \A S \in SUBSET Workers : IsFiniteSet(S) /\ Cardinality(S) <= NumWorkers
  BY <1>1, FS_Subset
<1>3. \A S \in SUBSET Workers : Cardinality(S) \in Nat
  BY <1>2, FS_CardinalityType
<1>4. \A S \in SUBSET Workers : \A x \in S : Cardinality(S \ {x}) = Cardinality(S) - 1
  BY <1>2, FS_RemoveElement
<1> QED
  BY <1>2, <1>3, <1>4 DEF Left, FilesAssumption

LEMMA MainOK == ASSUME FilesAssumption, IInv, Main PROVE IInv'
<1> USE DEF IInv
<1>0. /\ UNCHANGED <<interrupted, handler, lock, lost, record, blocks, big, orphan, completed>>
      /\ \A w \in Workers : Fates(w)' = Fates(w) /\ OnTheWay(w)' = OnTheWay(w)
      /\ NestedOnce' /\ LockHeld'
  <2>1. UNCHANGED <<interrupted, handler, lock, lost, record, blocks, big, orphan, completed>>
    BY DEF Main, Fork, Loop, Wait, Return, worker
  <2> QED
    BY <2>1, Still DEF handler, NestedOnce, LockHeld
<1> USE DEF handler, record, FilesAssumption
<1>1. CASE Fork /\ n < NumWorkers
  <2>0. n + 1 \in Workers /\ n' = n + 1 /\ n' \in 0 .. NumWorkers /\ ppc' = ppc
    BY <1>1 DEF TypeOK, Fork, Workers
  <2>1. TypeOK'
    BY <1>0, <1>1, <2>0 DEF TypeOK, Fork, WGoto
  <2>2. MainOrder'
    BY <1>0, <1>1, <2>0 DEF MainOrder, Fork, WGoto, TypeOK, Workers
  <2>3. OnePlace'
    BY <1>0, <1>1 DEF OnePlace, Fork
  <2>4. WorkerOrder'
    BY <1>0, <1>1, <2>0 DEF WorkerOrder, Fork, WGoto, TypeOK, MainOrder
  <2>5. WaitsCount'
    BY <1>1 DEF WaitsCount, Fork
  <2> QED
    BY <1>0, <2>1, <2>2, <2>3, <2>4, <2>5
<1>2. CASE Fork /\ ~(n < NumWorkers)
  <2> USE DEF Fork
  <2>1. TypeOK'
    BY <1>0, <1>2 DEF TypeOK
  <2>2. MainOrder'
    BY <1>0, <1>2 DEF MainOrder, TypeOK
  <2>3. OnePlace'
    BY <1>0, <1>2 DEF OnePlace
  <2>4. WorkerOrder'
    BY <1>0, <1>2 DEF WorkerOrder, MainOrder
  <2>5. WaitsCount'
    BY <1>0, <1>2, LeftFacts DEF WaitsCount, MainOrder, Left
  <2> QED
    BY <1>0, <2>1, <2>2, <2>3, <2>4, <2>5
<1>3. CASE Loop
  <2> USE DEF Loop, worker
  <2>1. TypeOK'
    BY <1>0, <1>3 DEF TypeOK
  <2>2. MainOrder'
    BY <1>0, <1>3 DEF MainOrder, TypeOK
  <2>3. OnePlace'
    BY <1>0, <1>3 DEF OnePlace
  <2>4. WorkerOrder'
    BY <1>0, <1>3 DEF WorkerOrder
  <2>5. WaitsCount'
    BY <1>0, <1>3 DEF WaitsCount, Left
  <2> QED
    BY <1>0, <2>1, <2>2, <2>3, <2>4, <2>5
<1>4. CASE Wait
  <2> USE DEF Wait, WGoto
  <2>1. n \in Nat /\ n < NumWorkers
    BY <1>4 DEF MainOrder, TypeOK
  <2>2. TypeOK'
    <3>1. n' \in 0 .. NumWorkers /\ ppc' = "ret"
      BY <1>4, <2>1
    <3> QED
      BY <1>0, <1>4, <3>1 DEF TypeOK
  <2>3. MainOrder'
    BY <1>0, <1>4, <2>1 DEF MainOrder, TypeOK
  <2>4. OnePlace'
    BY <1>0, <1>4 DEF OnePlace
  <2>5. WorkerOrder'
    BY <1>0, <1>4 DEF WorkerOrder, TypeOK
  <2>6. Left' = {} \/ Cardinality(Left') <= NumWorkers - n' + interrupted'
    <3>1. CASE \E w \in Workers : wpc[w] = "zombie" /\ WGoto(w, "reaped")
      <4>1. PICK w \in Workers : wpc[w] = "zombie" /\ WGoto(w, "reaped")
        BY <3>1
      <4>2. w \in Left /\ Left' = Left \ {w}
        BY <4>1 DEF Left, TypeOK
      <4>3. Cardinality(Left') = Cardinality(Left) - 1 /\ Cardinality(Left) \in Nat
        BY <4>2, LeftFacts
      <4>4. Cardinality(Left) <= NumWorkers - n + interrupted
        BY <1>4, <4>2 DEF WaitsCount
      <4> QED
        BY <1>0, <1>4, <2>1, <4>3, <4>4 DEF TypeOK
    <3>2. CASE Left = {} /\ UNCHANGED wpc
      BY <3>2 DEF Left
    <3> QED
      BY <1>4, <3>1, <3>2
  <2>7. WaitsCount'
    BY <2>6 DEF WaitsCount
  <2> QED
    BY <1>0, <2>2, <2>3, <2>4, <2>5, <2>7
<1>5. CASE Return
  <2> USE DEF Return, worker
  <2>1. TypeOK'
    BY <1>0, <1>5 DEF TypeOK
  <2>2. MainOrder'
    BY <1>0, <1>5 DEF MainOrder, TypeOK
  <2>3. OnePlace'
    BY <1>0, <1>5 DEF OnePlace
  <2>4. \A w \in Workers : OnTheWay(w) = 0
    BY <1>5, FrameFacts DEF OnTheWay, Carried, Settled, Signals, Workers, NoWorker
  <2>5. WorkerOrder'
    BY <1>0, <1>5, <2>4 DEF WorkerOrder
  <2>6. WaitsCount'
    BY <1>0, <1>5 DEF WaitsCount, Left
  <2> QED
    BY <1>0, <2>1, <2>2, <2>3, <2>5, <2>6
<1> QED
  BY <1>1, <1>2, <1>3, <1>4, <1>5 DEF Main

-----------------------------------------------------------------------------
(* The steps of the handler.                                               *)

LEMMA DeliverOK ==
  ASSUME FilesAssumption, IInv, NEW sig \in Signals, Deliver(sig) PROVE IInv'
<1>0. /\ Len(frames) \in {0, 1}
      /\ frames' \in Seq(Frame) /\ Len(frames') = Len(frames) + 1
      /\ DOMAIN frames' = 1 .. Len(frames')
      /\ \A i \in DOMAIN frames : i \in DOMAIN frames' /\ frames'[i] = frames[i]
      /\ frames'[Len(frames')] =
           [sig |-> sig, src |-> pending[sig], at |-> "open", cut |-> FALSE]
      /\ \A i \in DOMAIN frames' : i \in DOMAIN frames \/ i = Len(frames')
      /\ \A i \in DOMAIN frames : frames[i].sig # sig
  BY DeliverFrames DEF IInv
<1> USE DEF IInv, FilesAssumption
<1>1. /\ UNCHANGED <<lock, lost, record, worker>>
      /\ ppc # "done" /\ pending[sig] \in Workers
      /\ pending' = [pending EXCEPT ![sig] = NoWorker]
      /\ \/ UNCHANGED main
         \/ /\ ppc = "wait" /\ ppc' = "ret" /\ n \in Nat /\ n < NumWorkers /\ n' = n + 1
            /\ interrupted \in Nat /\ interrupted' = interrupted + 1 /\ interrupted <= n
  BY DEF Deliver, TypeOK, MainOrder, main, NoWorker
<1>2. ppc' # "done" /\ (ppc' \in {"loop", "wait"} => ppc' = ppc)
  BY <1>1 DEF main
<1>3. TypeOK'
  <2>1. /\ ppc' \in {"fork", "loop", "wait", "ret", "done"}
        /\ n' \in 0 .. NumWorkers /\ interrupted' \in 0 .. NumWorkers
    BY <1>1 DEF TypeOK, main
  <2>2. pending' \in [Signals -> Workers \union {NoWorker}]
    BY <1>1 DEF TypeOK
  <2>3. frames' \in Seq(Frame) /\ Len(frames') <= 2
    BY <1>0
  <2> QED
    BY <1>1, <2>1, <2>2, <2>3 DEF TypeOK, record, worker
<1>4. MainOrder'
  BY <1>1 DEF MainOrder, main, worker
<1>5. NestedOnce'
  BY <1>0, FrameFacts DEF NestedOnce
<1>6. LockHeld'
  BY <1>1, <1>0 DEF LockHeld
<1>7. \A w \in Workers : Fates(w)' = Fates(w) /\ OnTheWay(w)' = OnTheWay(w)
  <2>1. \A w \in Workers : Fates(w)' = Fates(w)
    BY <1>1 DEF Fates, record
  <2>2. CASE sig = "USR1"
    <3>1. \A w \in Workers : Carried(w)' <=> Carried(w)
      BY <2>2, <1>0 DEF Carried, CarriedBy
    <3> QED
      BY <1>1, <2>1, <2>2, <3>1 DEF OnTheWay, TypeOK, Signals
  <2>3. CASE sig = "USR2"
    <3>1. \A w \in Workers : ~Carried(w)
      BY <2>3, <1>0 DEF Carried, CarriedBy
    <3>2. \A w \in Workers : Carried(w)' <=> w = pending["USR2"]
      <4>1. /\ frames'[Len(frames')].sig = "USR2" /\ frames'[Len(frames')].at = "open"
            /\ frames'[Len(frames')].src = pending["USR2"]
        BY <2>3, <1>0
      <4>2. Len(frames') \in DOMAIN frames'
        BY <1>0
      <4>3. \A i \in DOMAIN frames' : i = Len(frames') \/ frames'[i].sig # "USR2"
        BY <2>3, <1>0
      <4> QED
        BY <4>1, <4>2, <4>3 DEF Carried, CarriedBy
    <3>3. pending'["USR2"] = NoWorker /\ \A w \in Workers : w # NoWorker
      BY <1>1, <2>3 DEF TypeOK, NoWorker, Workers
    <3> QED
      BY <2>1, <3>1, <3>2, <3>3 DEF OnTheWay
  <2> QED
    BY <2>2, <2>3 DEF Signals
<1>8. OnePlace'
  BY <1>1, <1>2, <1>7 DEF OnePlace, worker
<1>9. WorkerOrder'
  BY <1>1, <1>2, <1>7 DEF WorkerOrder, worker
<1>10. WaitsCount'
  <2>1. Left' = Left /\ Cardinality(Left) \in Nat
    BY <1>1, LeftFacts DEF Left, worker
  <2> QED
    BY <1>1, <2>1 DEF WaitsCount, main
<1> QED
  BY <1>3, <1>4, <1>5, <1>6, <1>8, <1>9, <1>10

(* What the rest of the handler leaves alone. *)
LEMMA HandlerKeeps ==
  ASSUME FilesAssumption, IInv, OpenLog \/ Lock \/ Write \/ Unlock
  PROVE  /\ frames # <<>> /\ Top.at \in Ats
         /\ UNCHANGED <<main, pending, lost, worker>>
         /\ MainOrder' /\ WaitsCount'
<1>1. frames # <<>> /\ UNCHANGED <<main, pending, lost, worker>>
  BY DEF OpenLog, Lock, Write, Unlock, At
<1>2. Top.at \in Ats
  BY <1>1, TopCarries DEF IInv, Frame, Ats
<1>3. MainOrder'
  BY <1>1 DEF IInv, MainOrder, main, worker
<1>4. WaitsCount'
  BY <1>1 DEF IInv, WaitsCount, main, worker, Left
<1> QED
  BY <1>1, <1>2, <1>3, <1>4

(* A step that moves no completion. *)
LEMMA KeepPlaces ==
  ASSUME IInv, UNCHANGED <<main, pending, lost, worker>>, UNCHANGED record,
         \A w \in Workers : Carried(w)' <=> Carried(w)
  PROVE  OnePlace' /\ WorkerOrder'
<1>1. \A w \in Workers : Fates(w)' = Fates(w) /\ OnTheWay(w)' = OnTheWay(w)
  BY DEF Fates, OnTheWay, record
<1> QED
  BY <1>1 DEF IInv, OnePlace, WorkerOrder, main, worker

(* A step by which the handler of SIGUSR2 settles the completion it carries. *)
LEMMA MovePlace ==
  ASSUME IInv, frames # <<>>, Top.at # "unlock", UNCHANGED <<main, pending, lost, worker>>,
         \A w \in Workers : Carried(w)' <=> Carried(w) /\ Top.sig # "USR2",
         IF Top.sig = "USR2"
         THEN \/ logged' = [logged EXCEPT ![Top.src] = @ + 1] /\ UNCHANGED dropped
              \/ dropped' = dropped \union {Top.src} /\ UNCHANGED logged
         ELSE UNCHANGED record
  PROVE  OnePlace' /\ WorkerOrder'
<1> USE DEF IInv
<1>1. CASE Top.sig # "USR2"
  BY <1>1, KeepPlaces
<1>2. CASE Top.sig = "USR2"
  <2>0. PICK v \in Workers : v = Top.src
    BY TopCarries
  <2>1. \A w \in Workers : Carried(w) <=> w = v
    BY <1>2, <2>0, TopCarries
  <2>2. \A w \in Workers : w # v =>
          Fates(w)' = Fates(w) /\ OnTheWay(w)' = OnTheWay(w)
    BY <1>2, <2>0, <2>1 DEF Fates, OnTheWay, TypeOK
  <2>3. /\ Fates(v) = 0 /\ pending["USR2"] # v
        /\ OnTheWay(v) = 1 /\ v \in completed
    <3>1. /\ logged[v] \in Nat /\ Fates(v) \in Nat
          /\ Fates(v) + OnTheWay(v) <= 1
          /\ v \notin completed => Fates(v) + OnTheWay(v) = 0
      BY <2>1 DEF OnePlace, TypeOK, Fates
    <3> QED
      BY <2>1, <3>1 DEF OnTheWay
  <2>4. Fates(v)' = 1 /\ OnTheWay(v)' = 0
    <3>1. /\ logged[v] = 0 /\ v \notin lost /\ v \notin dropped
      BY <2>1, <2>3 DEF Fates, TypeOK
    <3>2. OnTheWay(v)' = 0
      BY <1>2, <2>1, <2>3 DEF OnTheWay
    <3>3. Fates(v)' = 1
      <4>1. \/ logged'[v] = 1 /\ dropped' = dropped
            \/ dropped' = dropped \union {v} /\ logged'[v] = 0
        BY <1>2, <2>0, <3>1 DEF TypeOK
      <4>2. v \notin lost'
        BY <3>1
      <4> QED
        BY <3>1, <4>1, <4>2 DEF Fates
    <3> QED
      BY <3>2, <3>3
  <2> QED
    BY <2>1, <2>2, <2>3, <2>4 DEF OnePlace, WorkerOrder, main, worker
<1> QED
  BY <1>1, <1>2

LEMMA OpenLogOK == ASSUME FilesAssumption, IInv, OpenLog PROVE IInv'
<1> USE DEF IInv
<1>0. /\ frames # <<>> /\ Top.at = "open"
      /\ UNCHANGED <<main, pending, lost, worker, lock, logged>>
      /\ MainOrder' /\ WaitsCount'
  BY HandlerKeeps DEF OpenLog, At
<1>1. CASE Step("lock") /\ UNCHANGED dropped
  <2>0. "lock" \in Ats
    BY DEF Ats
  <2>1. /\ frames' \in Seq(Frame) /\ Len(frames') = Len(frames)
        /\ DOMAIN frames' = DOMAIN frames
        /\ \A i \in DOMAIN frames :
             /\ frames'[i].sig = frames[i].sig /\ frames'[i].cut = frames[i].cut
             /\ frames'[i].at \in {"lock", frames[i].at}
    BY <1>0, <1>1, <2>0, StepFrames
  <2>2. TypeOK'
    BY <1>0, <1>1, <2>1 DEF TypeOK, main, worker
  <2>3. NestedOnce' /\ LockHeld'
    BY <1>0, <2>1, FrameFacts DEF NestedOnce, LockHeld
  <2>4. OnePlace' /\ WorkerOrder'
    BY <1>0, <1>1, <2>0, StepCarries, KeepPlaces DEF record
  <2> QED
    BY <1>0, <2>2, <2>3, <2>4
<1>2. CASE Drop /\ frames' = SubSeq(frames, 1, Len(frames) - 1)
  <2>1. /\ frames' \in Seq(Frame) /\ Len(frames') = Len(frames) - 1
        /\ DOMAIN frames' = 1 .. Len(frames')
        /\ \A i \in DOMAIN frames' : i \in DOMAIN frames /\ frames'[i] = frames[i]
    BY <1>0, <1>2, PopFrames
  <2>2. TypeOK'
    <3>1. dropped' \subseteq Workers
      BY <1>0, <1>2, TopCarries DEF Drop, TypeOK
    <3> QED
      BY <1>0, <2>1, <3>1, FrameFacts DEF TypeOK, main, worker
  <2>3. NestedOnce' /\ LockHeld'
    BY <1>0, <2>1, FrameFacts DEF NestedOnce, LockHeld
  <2>4. OnePlace' /\ WorkerOrder'
    BY <1>0, <1>2, EndCarries, MovePlace DEF record, Drop
  <2> QED
    BY <1>0, <2>2, <2>3, <2>4
<1> QED
  BY <1>1, <1>2 DEF OpenLog

(* A handler that returns leaves the lock free, and the outer one cut if it was about
   to write. *)
LEMMA LeaveKeeps ==
  ASSUME FilesAssumption, IInv, frames # <<>>, Leave
  PROVE  /\ frames' \in Seq(Frame) /\ Len(frames') <= 2 /\ NestedOnce' /\ LockHeld'
         /\ lock' \in {"free", "own", "other"}
<1> USE DEF IInv
<1>1. /\ frames' \in Seq(Frame) /\ Len(frames') = Len(frames) - 1
      /\ \A i \in DOMAIN frames' : frames'[i].at = "write" => frames'[i].cut = TRUE
  BY LeaveFrames
<1>2. lock' \in {"free", "own", "other"}
  BY DEF Leave, TypeOK
<1>3. Len(frames) \in Int /\ Len(frames) <= 2
  BY FrameFacts
<1>4. Len(frames') <= 2 /\ Len(frames') # 2
  <2>1. Len(frames') = Len(frames) - 1
    BY <1>1
  <2> QED
    BY <1>3, <2>1
<1>5. NestedOnce'
  BY <1>4 DEF NestedOnce
<1>6. LockHeld'
  BY <1>1 DEF LockHeld
<1> QED
  BY <1>1, <1>2, <1>4, <1>5, <1>6

LEMMA LockOK == ASSUME FilesAssumption, IInv, Lock PROVE IInv'
<1> USE DEF IInv
<1>0. /\ frames # <<>> /\ Top.at = "lock"
      /\ UNCHANGED <<main, pending, lost, worker, logged>>
      /\ MainOrder' /\ WaitsCount'
  BY HandlerKeeps DEF Lock, At
<1>1. CASE lock' = "own" /\ Step("write") /\ UNCHANGED dropped
  <2>0. "write" \in Ats
    BY DEF Ats
  <2>1. /\ frames' \in Seq(Frame) /\ Len(frames') = Len(frames)
        /\ DOMAIN frames' = DOMAIN frames
        /\ \A i \in DOMAIN frames : frames'[i].sig = frames[i].sig
    BY <1>0, <1>1, <2>0, StepFrames
  <2>2. TypeOK'
    BY <1>0, <1>1, <2>1 DEF TypeOK, main, worker
  <2>3. NestedOnce' /\ LockHeld'
    BY <1>0, <1>1, <2>1, FrameFacts DEF NestedOnce, LockHeld
  <2>4. OnePlace' /\ WorkerOrder'
    BY <1>0, <1>1, <2>0, StepCarries, KeepPlaces DEF record
  <2> QED
    BY <1>0, <2>2, <2>3, <2>4
<1>2. CASE Drop /\ Leave
  <2>1. TypeOK'
    <3>1. dropped' \subseteq Workers
      BY <1>0, <1>2, TopCarries DEF Drop, TypeOK
    <3> QED
      BY <1>0, <1>2, <3>1, LeaveKeeps DEF TypeOK, main, worker
  <2>2. OnePlace' /\ WorkerOrder'
    BY <1>0, <1>2, EndCarries, MovePlace DEF record, Drop
  <2> QED
    BY <1>0, <1>2, <2>1, <2>2, LeaveKeeps
<1> QED
  BY <1>1, <1>2 DEF Lock

(* The entry is in the log, or has been dropped. *)
LEMMA WriteOK == ASSUME FilesAssumption, IInv, Write PROVE IInv'
<1> USE DEF IInv
<1>0. /\ frames # <<>> /\ Top.at = "write" /\ Step("unlock") /\ "unlock" \in Ats
      /\ UNCHANGED <<main, pending, lost, worker, lock>>
      /\ MainOrder' /\ WaitsCount'
  BY HandlerKeeps DEF Write, At, Ats
<1>1. /\ frames' \in Seq(Frame) /\ Len(frames') = Len(frames)
      /\ DOMAIN frames' = DOMAIN frames
      /\ \A i \in DOMAIN frames :
           /\ frames'[i].sig = frames[i].sig /\ frames'[i].cut = frames[i].cut
           /\ frames'[i].at = IF i = Len(frames) THEN "unlock" ELSE frames[i].at
  BY <1>0, StepFrames
<1>2. NestedOnce' /\ LockHeld'
  BY <1>0, <1>1, FrameFacts DEF NestedOnce, LockHeld
<1>3. CASE /\ logged' = IF Top.sig = "USR2" THEN [logged EXCEPT ![Top.src] = @ + 1] ELSE logged
           /\ UNCHANGED dropped
  <2>1. TypeOK'
    <3>1. logged' \in [Workers -> Nat]
      BY <1>0, <1>3, TopCarries DEF TypeOK
    <3> QED
      BY <1>0, <1>1, <1>3, <3>1 DEF TypeOK, main, worker
  <2>2. OnePlace' /\ WorkerOrder'
    BY <1>0, <1>3, StepCarries, MovePlace DEF record
  <2> QED
    BY <1>0, <1>2, <2>1, <2>2
<1>4. CASE Drop /\ UNCHANGED logged
  <2>1. TypeOK'
    <3>1. dropped' \subseteq Workers
      BY <1>0, <1>4, TopCarries DEF Drop, TypeOK
    <3> QED
      BY <1>0, <1>1, <1>4, <3>1 DEF TypeOK, main, worker
  <2>2. OnePlace' /\ WorkerOrder'
    BY <1>0, <1>4, StepCarries, MovePlace DEF record, Drop
  <2> QED
    BY <1>0, <1>2, <2>1, <2>2
<1> QED
  BY <1>3, <1>4 DEF Write

(* What the handler carried has been settled by its write. *)
LEMMA UnlockOK == ASSUME FilesAssumption, IInv, Unlock PROVE IInv'
<1> USE DEF IInv
<1>0. /\ frames # <<>> /\ Top.at = "unlock" /\ Leave
      /\ UNCHANGED <<main, pending, lost, worker, record>>
      /\ MainOrder' /\ WaitsCount'
  BY HandlerKeeps DEF Unlock, At
<1>1. TypeOK'
  BY <1>0, LeaveKeeps DEF TypeOK, main, worker, record
<1>2. \A w \in Workers : Carried(w)' <=> Carried(w)
  BY <1>0, EndCarries, TopCarries
<1>3. OnePlace' /\ WorkerOrder'
  BY <1>0, <1>2, KeepPlaces
<1> QED
  BY <1>0, <1>1, <1>3, LeaveKeeps

LEMMA OtherLockOK == ASSUME FilesAssumption, IInv, OtherLock PROVE IInv'
<1> USE DEF IInv, OtherLock
<1>1. TypeOK' /\ MainOrder' /\ NestedOnce' /\ WaitsCount'
  BY DEF main, handler, record, worker, TypeOK, MainOrder, NestedOnce, WaitsCount, Left
<1>2. LockHeld'
  BY DEF handler, LockHeld
<1>3. OnePlace' /\ WorkerOrder'
  BY KeepPlaces DEF handler, Carried, CarriedBy
<1> QED
  BY <1>1, <1>2, <1>3

-----------------------------------------------------------------------------
(* The steps of the workers.                                               *)

(* A worker's step that does not end it keeps who is left, and main's order. *)
LEMMA WorkerKeeps ==
  ASSUME IInv, NEW w \in Workers, NEW l \in {"read", "exit", "zombie"},
         wpc[w] \notin {"none", "failed", "reaped"},
         WGoto(w, l) \/ UNCHANGED wpc, UNCHANGED <<main, frames, lock>>
  PROVE  MainOrder' /\ NestedOnce' /\ LockHeld' /\ WaitsCount'
<1> USE DEF IInv, TypeOK, WGoto
<1>1. Left' = Left
  BY DEF Left
<1>2. MainOrder'
  BY DEF MainOrder, main
<1> QED
  BY <1>1, <1>2 DEF WaitsCount, NestedOnce, LockHeld, main

LEMMA StartOK == ASSUME FilesAssumption, IInv, NEW w \in Workers, Start(w) PROVE IInv'
<1> USE DEF IInv, Start, handler
<1>1. TypeOK'
  BY DEF TypeOK, WGoto, main, record
<1>2. MainOrder' /\ NestedOnce' /\ LockHeld' /\ WaitsCount'
  BY WorkerKeeps
<1>3. OnePlace'
  BY Still DEF OnePlace, main, WGoto, TypeOK
<1>4. WorkerOrder'
  BY Still DEF WorkerOrder, main, WGoto, TypeOK
<1> QED
  BY <1>1, <1>2, <1>3, <1>4

LEMMA EndOK == ASSUME FilesAssumption, IInv, NEW w \in Workers, Fail(w) \/ Exit(w) PROVE IInv'
<1> USE DEF IInv, Fail, Exit, handler
<1>1. TypeOK'
  BY DEF TypeOK, WGoto, main, record
<1>2. MainOrder' /\ NestedOnce' /\ LockHeld' /\ WaitsCount'
  BY WorkerKeeps
<1>3. OnePlace'
  BY Still DEF OnePlace, main, WGoto, TypeOK
<1>4. WorkerOrder'
  BY Still DEF WorkerOrder, main, WGoto, TypeOK
<1> QED
  BY <1>1, <1>2, <1>3, <1>4

LEMMA ReadBlockOK == ASSUME FilesAssumption, IInv, NEW w \in Workers, ReadBlock(w) PROVE IInv'
<1> USE DEF IInv
<1>1. /\ wpc[w] = "read" /\ UNCHANGED <<main, frames, lock, record, wpc, orphan, completed>>
      /\ blocks[w] < MaxBlocks /\ blocks' = [blocks EXCEPT ![w] = @ + 1]
      /\ big' = [big EXCEPT ![w] = TRUE] \/ big' = big
      /\ lost' = lost
      /\ \/ UNCHANGED pending
         \/ pending["USR1"] = NoWorker /\ pending' = [pending EXCEPT !["USR1"] = w]
  BY DEF ReadBlock, Kill
<1>2. TypeOK'
  <2>1. pending' \in [Signals -> Workers \union {NoWorker}]
    BY <1>1 DEF TypeOK
  <2>2. blocks' \in [Workers -> 0 .. MaxBlocks] /\ big' \in [Workers -> BOOLEAN]
    <3>1. blocks[w] \in Nat /\ blocks[w] + 1 \in 0 .. MaxBlocks
      BY <1>1 DEF TypeOK, FilesAssumption
    <3> QED
      BY <1>1, <3>1 DEF TypeOK
  <2> QED
    BY <1>1, <2>1, <2>2 DEF TypeOK, main, record
<1>3. MainOrder' /\ NestedOnce' /\ LockHeld' /\ WaitsCount'
  BY <1>1 DEF MainOrder, NestedOnce, LockHeld, WaitsCount, Left, main
<1>4. pending'["USR2"] = pending["USR2"]
  BY <1>1 DEF TypeOK, Signals
<1>5. OnePlace' /\ WorkerOrder'
  BY <1>1, <1>4, Still DEF OnePlace, WorkerOrder, main
<1> QED
  BY <1>2, <1>3, <1>5

(* The completion is pending from now on, or lost to one that is. *)
LEMMA ReportDoneOK ==
  ASSUME FilesAssumption, IInv, NEW w \in Workers, ReportDone(w) PROVE IInv'
<1> USE DEF IInv
<1>1. /\ wpc[w] = "read" /\ WGoto(w, "exit") /\ completed' = completed \union {w}
      /\ UNCHANGED <<main, frames, lock, record, blocks, big, orphan>>
      /\ \/ UNCHANGED <<pending, lost>> /\ ppc = "done"
         \/ /\ pending["USR2"] = NoWorker /\ pending' = [pending EXCEPT !["USR2"] = w]
            /\ UNCHANGED lost
         \/ UNCHANGED pending /\ lost' = lost \union {w} /\ pending["USR2"] # NoWorker
  BY DEF ReportDone, Kill, WorkerOrder
<1>2. TypeOK'
  <2>1. pending' \in [Signals -> Workers \union {NoWorker}]
    BY <1>1 DEF TypeOK
  <2>2. wpc' \in [Workers -> {"none", "failed", "start", "read", "exit", "zombie", "reaped"}]
    BY <1>1 DEF TypeOK, WGoto
  <2> QED
    BY <1>1, <2>1, <2>2 DEF TypeOK, main, record
<1>3. MainOrder' /\ NestedOnce' /\ LockHeld' /\ WaitsCount'
  BY <1>1, WorkerKeeps
<1>4. w \notin completed /\ Fates(w) = 0 /\ OnTheWay(w) = 0
  <2>1. w \notin completed /\ Fates(w) + OnTheWay(w) = 0 /\ logged[w] \in Nat
    BY <1>1 DEF WorkerOrder, OnePlace, TypeOK
  <2> QED
    BY <2>1 DEF Fates, OnTheWay
<1>5. \A v \in Workers : v # w => Fates(v)' = Fates(v) /\ OnTheWay(v)' = OnTheWay(v)
  <2>1. \A v \in Workers : v # w => (pending'["USR2"] = v <=> pending["USR2"] = v)
    BY <1>1 DEF TypeOK, Signals, NoWorker, Workers
  <2>2. \A v \in Workers : Carried(v)' <=> Carried(v)
    BY <1>1 DEF Carried, CarriedBy
  <2> QED
    BY <1>1, <2>1, <2>2 DEF Fates, OnTheWay, record
<1>6. Fates(w)' + OnTheWay(w)' = IF UNCHANGED <<pending, lost>> THEN 0 ELSE 1
  <2>1. ~Carried(w) /\ ~Carried(w)' /\ pending["USR2"] # w
    BY <1>1, <1>4 DEF OnTheWay, Carried, CarriedBy
  <2>2. logged'[w] = 0 /\ w \notin lost /\ w \notin dropped'
    BY <1>1, <1>4 DEF Fates, TypeOK, record
  <2>3. CASE UNCHANGED <<pending, lost>>
    BY <2>1, <2>2, <2>3 DEF Fates, OnTheWay
  <2>4. CASE pending["USR2"] = NoWorker /\ pending'["USR2"] = w /\ UNCHANGED lost
    BY <2>1, <2>2, <2>4 DEF Fates, OnTheWay
  <2>5. CASE UNCHANGED pending /\ lost' = lost \union {w}
    BY <2>1, <2>2, <2>5 DEF Fates, OnTheWay
  <2> QED
    BY <1>1, <2>3, <2>4, <2>5 DEF TypeOK, Signals
<1>7. /\ Fates(w)' + OnTheWay(w)' <= 1
      /\ ppc # "done" => Fates(w)' + OnTheWay(w)' = 1
  <2>1. ppc # "done" => ~UNCHANGED <<pending, lost>>
    <3>1. w \notin lost /\ (pending["USR2"] = NoWorker => pending["USR2"] # w)
      BY <1>4 DEF Fates, NoWorker, Workers, TypeOK
    <3> QED
      BY <1>1, <3>1 DEF TypeOK, Signals
  <2> QED
    BY <1>6, <2>1
<1>8. \A v \in Workers : v # w => wpc'[v] = wpc[v] /\ (v \in completed' <=> v \in completed)
  BY <1>1 DEF WGoto, TypeOK
<1>9. wpc'[w] = "exit" /\ w \in completed' /\ ppc' = ppc /\ orphan' = orphan
  BY <1>1 DEF WGoto, TypeOK, main
<1>10. OnePlace'
  BY <1>5, <1>7, <1>8, <1>9 DEF OnePlace
<1>11. WorkerOrder'
  BY <1>5, <1>8, <1>9 DEF WorkerOrder
<1> QED
  BY <1>2, <1>3, <1>10, <1>11

-----------------------------------------------------------------------------
(* The theorems.                                                           *)

LEMMA NextOK == ASSUME FilesAssumption, IInv, [Next]_vars PROVE IInv'
<1>1. CASE UNCHANGED vars
  BY <1>1 DEF vars, main, handler, record, worker, IInv, TypeOK, MainOrder, NestedOnce, LockHeld,
    OnePlace, WorkerOrder, WaitsCount, Left, Fates, OnTheWay, Carried, CarriedBy
<1>2. CASE Next
  BY <1>2, MainOK, DeliverOK, OpenLogOK, LockOK, WriteOK, UnlockOK, OtherLockOK, StartOK, EndOK,
    ReadBlockOK, ReportDoneOK DEF Next, Handler, Worker
<1> QED
  BY <1>1, <1>2

LEMMA Consequences ==
  ASSUME FilesAssumption, IInv
  PROVE  TypeOK /\ Accounted /\ WriteLocked /\ LeftBehind
<1> USE DEF IInv
<1>1. Accounted
  <2>1. \A w \in Workers : Fates(w) \in Nat /\ OnTheWay(w) \in Nat
    BY DEF Fates, OnTheWay, TypeOK
  <2> QED
    BY <2>1 DEF Accounted, OnePlace, WorkerOrder
<1>2. WriteLocked
  BY FrameFacts DEF WriteLocked, LockHeld, At, Top
<1>3. LeftBehind
  <2>1. Cardinality({}) = 0
    BY FS_EmptySet
  <2>2. interrupted \in Nat /\ NumWorkers \in Nat
    BY DEF TypeOK, FilesAssumption
  <2>3. ppc = "done" => n = NumWorkers /\ (Left = {} \/ Cardinality(Left) <= NumWorkers - n + interrupted)
    BY DEF WaitsCount, MainOrder
  <2> QED
    BY <2>1, <2>2, <2>3, LeftFacts DEF LeftBehind
<1> QED
  BY <1>1, <1>2, <1>3

LEMMA Invariance == ASSUME FilesAssumption PROVE Spec => []IInv
<1>1. Init => IInv
  BY InitOK
<1>2. IInv /\ [Next]_vars => IInv'
  BY NextOK
<1> QED
  BY <1>1, <1>2, PTL DEF Spec

(* Every variable keeps its type: the loop index and the count of interrupted
   waits stay within the number of workers, and two handlers are the most. *)
THEOREM TypeCorrect == ASSUME FilesAssumption PROVE Spec => []TypeOK
<1>1. IInv => TypeOK
  BY Consequences
<1> QED
  BY <1>1, Invariance, PTL

(* Whatever the number of workers, each completion is logged once, or its signal
   met a pending one, or the logger could not open, lock or write the file, and no
   two of these, however the handlers nest. *)
THEOREM CompletionsAccounted == ASSUME FilesAssumption PROVE Spec => []Accounted
<1>1. IInv => Accounted
  BY Consequences
<1> QED
  BY <1>1, Invariance, PTL

(* The handlers write under the lock, unless an inner one has given it up. *)
THEOREM EntriesLocked == ASSUME FilesAssumption PROVE Spec => []WriteLocked
<1>1. IInv => WriteLocked
  BY Consequences
<1> QED
  BY <1>1, Invariance, PTL

(* The parent leaves at most as many workers as its waits were interrupted. *)
THEOREM FewLeftBehind == ASSUME FilesAssumption PROVE Spec => []LeftBehind
<1>1. IInv => LeftBehind
  BY Consequences
<1> QED
  BY <1>1, Invariance, PTL
=============================================================================
