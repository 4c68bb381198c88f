-------------------------- MODULE SelectionProofs --------------------------
(***************************************************************************)
(* What Keep does to the sequences that programs build: the empty one, one *)
(* element more, one sequence after the other.  Keep is recursive, so all  *)
(* of it rests on an induction; the library states induction for an        *)
(* operator, which no prover here instantiates, and so it is derived here  *)
(* for a set of numbers and for a set of sequences.                        *)
(***************************************************************************)
EXTENDS Selection, SequenceTheorems, WellFoundedInduction, TLAPS

LEMMA InRel == \A x, y \in Nat : x < y <=> <<x, y>> \in OpToRel(<, Nat)
BY DEF OpToRel

LEMMA Least ==
  ASSUME NEW T \in SUBSET Nat, T # {}
  PROVE  \E x \in T : \A y \in T : x <= y
<1>1. \E x \in T : \A y \in T : ~ (<<y, x>> \in OpToRel(<, Nat))
  BY WFMin, NatLessThanWellFounded, Zenon
<1>2. \E x \in T : \A y \in T : ~ (y < x)
  BY <1>1, InRel, Zenon
<1> QED
  BY <1>2

LEMMA Induction ==
  ASSUME NEW T \in SUBSET Nat, 0 \in T, \A n \in T : n + 1 \in T
  PROVE  T = Nat
<1> SUFFICES ASSUME Nat \ T # {} PROVE FALSE
  OBVIOUS
<1>1. PICK x \in Nat \ T : \A y \in Nat \ T : x <= y
  BY Least
<1>2. x # 0 /\ x - 1 \in T
  BY <1>1
<1> QED
  BY <1>1, <1>2

(* What Keep computes, step by step. *)
Steps(f, q, S) ==
  f = [n \in 0 .. Len(q) |->
         IF n = 0 THEN <<>>
         ELSE IF q[n] \in S THEN Append(f[n - 1], q[n]) ELSE f[n - 1]]

LEMMA KeepChosen == \A q, S : Keep(q, S) = (CHOOSE f : Steps(f, q, S))[Len(q)]
BY DEF Keep, Steps

LEMMA StepsUnique ==
  ASSUME NEW q, NEW S, Len(q) \in Nat, NEW f, NEW g, Steps(f, q, S), Steps(g, q, S)
  PROVE  f = g
<1> DEFINE T == {n \in Nat : n <= Len(q) => f[n] = g[n]}
<1>1. 0 \in T
  BY DEF Steps
<1>2. ASSUME NEW n \in T PROVE n + 1 \in T
  <2> SUFFICES ASSUME n + 1 <= Len(q) PROVE f[n + 1] = g[n + 1]
    OBVIOUS
  <2>1. n + 1 \in 0 .. Len(q) /\ n + 1 # 0 /\ (n + 1) - 1 = n /\ f[n] = g[n]
    OBVIOUS
  <2>2. f[n + 1] = IF q[n + 1] \in S THEN Append(f[n], q[n + 1]) ELSE f[n]
    BY <2>1 DEF Steps
  <2>3. g[n + 1] = IF q[n + 1] \in S THEN Append(g[n], q[n + 1]) ELSE g[n]
    BY <2>1 DEF Steps
  <2> QED
    BY <2>1, <2>2, <2>3
<1>3. T = Nat
  <2> HIDE DEF T
  <2>1. T \in SUBSET Nat
    BY DEF T
  <2> QED
    BY <1>1, <1>2, <2>1, Induction
<1>4. \A n \in 0 .. Len(q) : f[n] = g[n]
  BY <1>3
<1>5. f = [n \in 0 .. Len(q) |-> f[n]] /\ g = [n \in 0 .. Len(q) |-> g[n]]
  BY DEF Steps
<1> QED
  BY <1>4, <1>5

Extended(f, q, m, S) ==
  [n \in 0 .. Len(q) + 1 |->
     IF n <= Len(q) THEN f[n] ELSE IF m \in S THEN Append(f[Len(q)], m) ELSE f[Len(q)]]

LEMMA StepsExtended ==
  ASSUME NEW X, NEW q \in Seq(X), NEW m \in X, NEW S, NEW f, Steps(f, q, S)
  PROVE  Steps(Extended(f, q, m, S), Append(q, m), S)
<1> DEFINE e == Extended(f, q, m, S)
           a == Append(q, m)
<1>1. Len(q) \in Nat /\ Len(a) = Len(q) + 1
  OBVIOUS
<1>2. \A n \in 1 .. Len(q) : a[n] = q[n]
  OBVIOUS
<1>3. a[Len(q) + 1] = m
  OBVIOUS
<1> HIDE DEF a
<1>4. \A n \in 0 .. Len(q) : e[n] = f[n]
  BY <1>1 DEF Extended
<1>5. e[Len(q) + 1] = IF m \in S THEN Append(f[Len(q)], m) ELSE f[Len(q)]
  BY <1>1 DEF Extended
<1>6. e = [n \in 0 .. Len(a) |-> e[n]]
  BY <1>1 DEF Extended
<1> HIDE DEF e
<1>7. ASSUME NEW n \in 0 .. Len(a)
      PROVE  e[n] = IF n = 0 THEN <<>>
                    ELSE IF a[n] \in S THEN Append(e[n - 1], a[n]) ELSE e[n - 1]
  <2>1. CASE n = 0
    BY <1>1, <1>4, <2>1 DEF Steps
  <2>2. CASE n \in 1 .. Len(q)
    <3>1. n - 1 \in 0 .. Len(q) /\ n \in 0 .. Len(q) /\ n # 0
      BY <1>1, <2>2
    <3>2. f[n] = IF q[n] \in S THEN Append(f[n - 1], q[n]) ELSE f[n - 1]
      BY <3>1 DEF Steps
    <3> QED
      BY <1>2, <1>4, <2>2, <3>1, <3>2
  <2>3. CASE n = Len(q) + 1
    <3>1. n # 0 /\ n - 1 = Len(q) /\ Len(q) \in 0 .. Len(q)
      BY <1>1, <2>3
    <3> QED
      BY <1>3, <1>4, <1>5, <2>3, <3>1
  <2> QED
    BY <1>1, <2>1, <2>2, <2>3
<1> QED
  BY <1>6, <1>7, Zenon DEF Steps, e, a

LEMMA StepsExist ==
  ASSUME NEW X, NEW S
  PROVE  \A q \in Seq(X) : \E f : Steps(f, q, S)
<1> DEFINE T == {n \in Nat : \A q \in Seq(X) : Len(q) = n => \E f : Steps(f, q, S)}
<1>1. 0 \in T
  <2>1. ASSUME NEW q \in Seq(X), Len(q) = 0 PROVE \E f : Steps(f, q, S)
    <3>1. Steps([n \in 0 .. 0 |-> <<>>], q, S)
      BY <2>1 DEF Steps
    <3> QED
      BY <3>1
  <2> QED
    BY <2>1
<1>2. ASSUME NEW n \in T PROVE n + 1 \in T
  <2>1. ASSUME NEW q \in Seq(X), Len(q) = n + 1 PROVE \E f : Steps(f, q, S)
    <3> DEFINE p == SubSeq(q, 1, n)
    <3>1. p \in Seq(X) /\ Len(p) = n /\ q[n + 1] \in X /\ q = Append(p, q[n + 1])
      BY <2>1
    <3>2. PICK f : Steps(f, p, S)
      BY <3>1
    <3>3. Steps(Extended(f, p, q[n + 1], S), Append(p, q[n + 1]), S)
      BY <3>1, <3>2, StepsExtended
    <3> QED
      BY <3>1, <3>3
  <2> QED
    BY <2>1
<1> HIDE DEF T
<1>3. T = Nat
  <2>1. T \in SUBSET Nat
    BY DEF T
  <2> QED
    BY <1>1, <1>2, <2>1, Induction
<1> QED
  BY <1>3 DEF T

LEMMA KeepSteps ==
  ASSUME NEW X, NEW q \in Seq(X), NEW S, NEW f, Steps(f, q, S)
  PROVE  Keep(q, S) = f[Len(q)]
<1>1. Steps(CHOOSE g : Steps(g, q, S), q, S)
  BY Zenon
<1>2. Len(q) \in Nat
  OBVIOUS
<1>3. (CHOOSE g : Steps(g, q, S)) = f
  BY <1>1, <1>2, StepsUnique
<1> QED
  BY <1>3, KeepChosen

LEMMA KeepNone == \A S : Keep(<<>>, S) = <<>>
<1> TAKE S
<1>1. Steps([n \in 0 .. 0 |-> <<>>], <<>>, S)
  BY DEF Steps
<1>2. <<>> \in Seq({}) /\ Len(<<>>) = 0
  OBVIOUS
<1> QED
  BY <1>1, <1>2, KeepSteps

LEMMA KeepAppend ==
  ASSUME NEW X, NEW S
  PROVE  \A q \in Seq(X), m \in X :
           Keep(Append(q, m), S) = IF m \in S THEN Append(Keep(q, S), m) ELSE Keep(q, S)
<1> TAKE q \in Seq(X), m \in X
<1>1. PICK f : Steps(f, q, S)
  BY StepsExist
<1>2. Keep(q, S) = f[Len(q)]
  BY <1>1, KeepSteps
<1>3. Append(q, m) \in Seq(X) /\ Len(Append(q, m)) = Len(q) + 1 /\ Len(q) \in Nat
  OBVIOUS
<1>4. Keep(Append(q, m), S) = Extended(f, q, m, S)[Len(q) + 1]
  BY <1>1, <1>3, StepsExtended, KeepSteps
<1>5. Extended(f, q, m, S)[Len(q) + 1]
        = IF m \in S THEN Append(f[Len(q)], m) ELSE f[Len(q)]
  BY <1>3 DEF Extended
<1> QED
  BY <1>2, <1>4, <1>5

LEMMA LastSplit ==
  ASSUME NEW X, NEW q \in Seq(X), NEW n \in Nat, Len(q) = n + 1
  PROVE  /\ SubSeq(q, 1, n) \in Seq(X) /\ Len(SubSeq(q, 1, n)) = n
         /\ q[n + 1] \in X /\ q = Append(SubSeq(q, 1, n), q[n + 1])
OBVIOUS

(* Induction over sequences, for a set of sequences. *)
LEMMA GrownFromEmpty ==
  ASSUME NEW X, NEW P, P \subseteq Seq(X), <<>> \in P,
         \A q \in P, m \in X : Append(q, m) \in P
  PROVE  P = Seq(X)
<1> DEFINE T == {n \in Nat : \A q \in Seq(X) : Len(q) = n => q \in P}
<1>1. 0 \in T
  OBVIOUS
<1>2. ASSUME NEW n \in T PROVE n + 1 \in T
  <2>1. ASSUME NEW q \in Seq(X), Len(q) = n + 1 PROVE q \in P
    <3> DEFINE p == SubSeq(q, 1, n)
    <3>1. p \in Seq(X) /\ Len(p) = n /\ q[n + 1] \in X /\ q = Append(p, q[n + 1])
      BY <2>1, LastSplit
    <3>2. p \in P
      BY <3>1
    <3> HIDE DEF p
    <3> QED
      BY <3>1, <3>2
  <2> QED
    BY <2>1
<1> HIDE DEF T
<1>3. T = Nat
  <2>1. T \in SUBSET Nat
    BY DEF T
  <2> QED
    BY <1>1, <1>2, <2>1, Induction
<1>4. ASSUME NEW q \in Seq(X) PROVE q \in P
  <2>1. Len(q) \in T
    BY <1>3
  <2> QED
    BY <2>1, Zenon DEF T
<1> QED
  BY <1>4, Zenon

LEMMA KeepKeeps ==
  ASSUME NEW X, NEW S, NEW Y, \A m \in X : m \in S => m \in Y
  PROVE  \A q \in Seq(X) : Keep(q, S) \in Seq(Y)
<1> DEFINE P == {q \in Seq(X) : Keep(q, S) \in Seq(Y)}
<1> HIDE DEF P
<1>1. <<>> \in P
  <2>1. Keep(<<>>, S) = <<>>
    BY KeepNone, Zenon
  <2>2. <<>> \in Seq(X) /\ <<>> \in Seq(Y)
    OBVIOUS
  <2> QED
    BY <2>1, <2>2, Zenon DEF P
<1>2. ASSUME NEW q \in P, NEW m \in X PROVE Append(q, m) \in P
  <2>1. q \in Seq(X) /\ Keep(q, S) \in Seq(Y)
    BY Zenon DEF P
  <2>2. Append(q, m) \in Seq(X) /\ (m \in S => Append(Keep(q, S), m) \in Seq(Y))
    BY <2>1
  <2>3. Keep(Append(q, m), S) = IF m \in S THEN Append(Keep(q, S), m) ELSE Keep(q, S)
    BY <2>1, KeepAppend
  <2> QED
    BY <2>1, <2>2, <2>3, Zenon DEF P
<1>3. P \subseteq Seq(X)
  BY Zenon DEF P
<1>4. P = Seq(X)
  BY <1>1, <1>2, <1>3, GrownFromEmpty
<1> QED
  BY <1>4, Zenon DEF P

LEMMA KeepSeq ==
  ASSUME NEW X, NEW S
  PROVE  \A q \in Seq(X) : Keep(q, S) \in Seq(X)
<1>1. \A m \in X : m \in S => m \in X
  OBVIOUS
<1> QED
  BY <1>1, KeepKeeps

(* Concatenation behind a name, for steps that need its laws but not its
   definition. *)
Cat(p, q) == p \o q
Add(q, m) == Append(q, m)

LEMMA CatLaws ==
  ASSUME NEW X
  PROVE  /\ \A p \in Seq(X) : Cat(p, <<>>) = p /\ Cat(<<>>, p) = p
         /\ \A p, q \in Seq(X) : Cat(p, q) \in Seq(X)
         /\ \A p, q \in Seq(X), m \in X : Add(Cat(p, q), m) = Cat(p, Add(q, m))
         /\ \A p, q, r \in Seq(X) : Cat(Cat(p, q), r) = Cat(p, Cat(q, r))
<1>1. \A p \in Seq(X) : Cat(p, <<>>) = p /\ Cat(<<>>, p) = p
  BY DEF Cat
<1>2. \A p, q \in Seq(X) : Cat(p, q) \in Seq(X)
  BY DEF Cat
<1>3. \A p, q \in Seq(X), m \in X : Add(Cat(p, q), m) = Cat(p, Add(q, m))
  BY DEF Cat, Add
<1>4. \A p, q, r \in Seq(X) : Cat(Cat(p, q), r) = Cat(p, Cat(q, r))
  BY DEF Cat
<1> QED
  BY <1>1, <1>2, <1>3, <1>4

LEMMA CatOfFour ==
  ASSUME NEW X
  PROVE  \A p, q, r, u \in Seq(X) :
           /\ Cat(q, Cat(r, u)) \in Seq(X)
           /\ Cat(Cat(Cat(p, q), r), u) = Cat(p, Cat(q, Cat(r, u)))
<1> TAKE p, q, r, u \in Seq(X)
<1>1. Cat(r, u) \in Seq(X) /\ Cat(p, q) \in Seq(X)
  BY CatLaws
<1>2. Cat(q, Cat(r, u)) \in Seq(X)
  BY <1>1, CatLaws
<1>3. Cat(Cat(Cat(p, q), r), u) = Cat(Cat(p, q), Cat(r, u))
  BY <1>1, CatLaws
<1>4. Cat(Cat(p, q), Cat(r, u)) = Cat(p, Cat(q, Cat(r, u)))
  BY <1>1, CatLaws
<1> QED
  BY <1>2, <1>3, <1>4

LEMMA KeepGrown ==
  ASSUME NEW X, NEW S, NEW p \in Seq(X), NEW q \in Seq(X), NEW m \in X
  PROVE  Keep(p \o q, S) = Keep(p, S) \o Keep(q, S)
           => Keep(p \o Append(q, m), S) = Keep(p, S) \o Keep(Append(q, m), S)
<1>1. p \o q \in Seq(X) /\ Append(p \o q, m) = p \o Append(q, m)
  OBVIOUS
<1>2. Keep(p, S) \in Seq(X) /\ Keep(q, S) \in Seq(X)
  BY KeepSeq
<1>3. Append(Keep(p, S) \o Keep(q, S), m) = Keep(p, S) \o Append(Keep(q, S), m)
  <2>1. Add(Cat(Keep(p, S), Keep(q, S)), m) = Cat(Keep(p, S), Add(Keep(q, S), m))
    BY <1>2, CatLaws
  <2> QED
    BY <2>1, Zenon DEF Cat, Add
<1>4. \A r \in Seq(X), l \in X :
        Keep(Append(r, l), S) = IF l \in S THEN Append(Keep(r, S), l) ELSE Keep(r, S)
  BY KeepAppend
<1>5. /\ Keep(Append(p \o q, m), S)
           = IF m \in S THEN Append(Keep(p \o q, S), m) ELSE Keep(p \o q, S)
      /\ Keep(Append(q, m), S) = IF m \in S THEN Append(Keep(q, S), m) ELSE Keep(q, S)
  BY <1>1, <1>4, Zenon
<1> QED
  BY <1>1, <1>3, <1>5, Zenon

LEMMA KeepConcat ==
  ASSUME NEW X, NEW S
  PROVE  \A p, q \in Seq(X) : Keep(p \o q, S) = Keep(p, S) \o Keep(q, S)
<1> SUFFICES ASSUME NEW p \in Seq(X)
             PROVE  \A q \in Seq(X) : Keep(p \o q, S) = Keep(p, S) \o Keep(q, S)
  OBVIOUS
<1> DEFINE P == {q \in Seq(X) : Keep(p \o q, S) = Keep(p, S) \o Keep(q, S)}
<1> HIDE DEF P
<1>1. <<>> \in P
  <2>1. Keep(<<>>, S) = <<>>
    BY KeepNone, Zenon
  <2>2. Keep(p, S) \in Seq(X)
    BY KeepSeq
  <2>3. p \o <<>> = p /\ Keep(p, S) \o <<>> = Keep(p, S) /\ <<>> \in Seq(X)
    BY <2>2
  <2> QED
    BY <2>1, <2>3, Zenon DEF P
<1>2. ASSUME NEW q \in P, NEW m \in X PROVE Append(q, m) \in P
  <2>1. q \in Seq(X) /\ Keep(p \o q, S) = Keep(p, S) \o Keep(q, S)
    BY Zenon DEF P
  <2>2. Append(q, m) \in Seq(X)
    BY <2>1
  <2>3. Keep(p \o Append(q, m), S) = Keep(p, S) \o Keep(Append(q, m), S)
    BY <2>1, KeepGrown
  <2> QED
    BY <2>2, <2>3, Zenon DEF P
<1>3. P \subseteq Seq(X)
  BY Zenon DEF P
<1>4. P = Seq(X)
  BY <1>1, <1>2, <1>3, GrownFromEmpty
<1> QED
  BY <1>4, Zenon DEF P

LEMMA KeepAll ==
  ASSUME NEW S
  PROVE  \A q \in Seq(S) : Keep(q, S) = q
<1> DEFINE P == {q \in Seq(S) : Keep(q, S) = q}
<1>1. <<>> \in P
  <2>1. Keep(<<>>, S) = <<>>
    BY KeepNone, Zenon
  <2> QED
    BY <2>1
<1>2. ASSUME NEW q \in P, NEW m \in S PROVE Append(q, m) \in P
  <2>1. q \in Seq(S) /\ Append(q, m) \in Seq(S) /\ Keep(q, S) = q
    OBVIOUS
  <2> QED
    BY <2>1, KeepAppend
<1>3. P \subseteq Seq(S)
  OBVIOUS
<1> HIDE DEF P
<1>4. P = Seq(S)
  BY <1>1, <1>2, <1>3, GrownFromEmpty
<1> QED
  BY <1>4 DEF P

LEMMA KeepNothing ==
  ASSUME NEW X, NEW S, \A m \in X : m \notin S
  PROVE  \A q \in Seq(X) : Keep(q, S) = <<>>
<1>1. \A q \in Seq({}) : q = <<>>
  OBVIOUS
<1>2. \A m \in X : m \in S => m \in {}
  OBVIOUS
<1>3. \A q \in Seq(X) : Keep(q, S) \in Seq({})
  BY <1>2, KeepKeeps
<1> QED
  BY <1>1, <1>3

LEMMA KeepOne ==
  ASSUME NEW S, NEW m
  PROVE  Keep(<<m>>, S) = IF m \in S THEN <<m>> ELSE <<>>
<1>1. <<>> \in Seq({m}) /\ <<m>> = Append(<<>>, m)
  OBVIOUS
<1>2. m \in {m}
  OBVIOUS
<1>3. Keep(Append(<<>>, m), S) = IF m \in S THEN Append(Keep(<<>>, S), m) ELSE Keep(<<>>, S)
  BY <1>1, <1>2, KeepAppend
<1> QED
  BY <1>1, <1>3, KeepNone

LEMMA KeepHeadTail ==
  ASSUME NEW X, NEW S, NEW q \in Seq(X), q # <<>>
  PROVE  Keep(q, S) = IF Head(q) \in S THEN <<Head(q)>> \o Keep(Tail(q), S)
                                       ELSE Keep(Tail(q), S)
<1>1. <<Head(q)>> \in Seq(X) /\ Tail(q) \in Seq(X) /\ q = <<Head(q)>> \o Tail(q)
  OBVIOUS
<1>2. Keep(q, S) = Keep(<<Head(q)>>, S) \o Keep(Tail(q), S)
  BY <1>1, KeepConcat
<1>3. Keep(Tail(q), S) \in Seq(X)
  BY <1>1, KeepSeq
<1>4. <<>> \o Keep(Tail(q), S) = Keep(Tail(q), S)
  BY <1>3
<1> QED
  BY <1>2, <1>4, KeepOne

=============================================================================
