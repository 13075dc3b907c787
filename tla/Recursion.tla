------------------------------- MODULE Recursion -------------------------------
(******************************************************************************)
(* Induction and recursion over the natural numbers, for the proofs about     *)
(* recursive functions.  A module that defines f[n] by Base(p) and            *)
(* Step(p, n, f[n - 1]) instantiates this one with these two operators and    *)
(* obtains the equation of f as a fact.                                       *)
(******************************************************************************)
EXTENDS Integers, NaturalsInduction, WellFoundedInduction, TLAPS

CONSTANTS
    Base(_),          \* the value at 0, for parameters p
    Step(_, _, _)     \* the value at n > 0, for p, n and the value at n - 1

(* The least number principle, for sets.                                      *)
LEMMA LeastNumber ==
    ASSUME NEW T \in SUBSET Nat, T # {}
    PROVE  \E x \in T : \A y \in T : x <= y
<1>1. IsWellFoundedOn(OpToRel(<, Nat), Nat)
  BY NatLessThanWellFounded
<1>2. PICK R : R = OpToRel(<, Nat)
  OBVIOUS
<1>3. PICK x \in T : \A y \in T : ~(<<y, x>> \in R)
  BY <1>1, <1>2, WFMin
<1>4. \A y \in Nat : y < x => <<y, x>> \in R
  BY <1>2 DEF OpToRel
<1>5. ASSUME NEW y \in T PROVE x <= y
  <2>1. x \in Nat /\ y \in Nat
    OBVIOUS
  <2>2. ~(y < x)
    BY <1>3, <1>4, <2>1, Zenon
  <2> QED
    BY <2>1, <2>2
<1> QED
  BY <1>5

(* Induction, for sets: a set with 0 that is closed under successors.         *)
LEMMA SetInduction ==
    ASSUME NEW T, 0 \in T, \A n \in Nat : n \in T => n + 1 \in T
    PROVE  Nat \subseteq T
<1> SUFFICES ASSUME Nat \ T # {} PROVE FALSE
  OBVIOUS
<1>1. PICK x \in Nat \ T : \A y \in Nat \ T : x <= y
  BY LeastNumber, Nat \ T \in SUBSET Nat
<1>2. x # 0 /\ x - 1 \in Nat
  BY <1>1
<1>3. x - 1 \in T
  BY <1>1, <1>2
<1> QED
  BY <1>1, <1>2, <1>3

-------------------------------------------------------------------------------
(* The function that Base and Step define.                                    *)
Rec(p) ==
    CHOOSE f : f = [n \in Nat |-> IF n = 0 THEN Base(p) ELSE Step(p, n, f[n - 1])]

(* g is the function up to n.                                                 *)
UpTo(p, n, g) ==
    /\ g = [i \in 0 .. n |-> g[i]]
    /\ g[0] = Base(p)
    /\ \A i \in 1 .. n : g[i] = Step(p, i, g[i - 1])

(* Two such functions agree where both are defined.                           *)
LEMMA UpToUnique ==
    ASSUME NEW p, NEW m \in Nat, NEW n \in Nat, NEW g, NEW h,
           UpTo(p, m, g), UpTo(p, n, h)
    PROVE  \A i \in Nat : i <= m /\ i <= n => g[i] = h[i]
<1> DEFINE T == {i \in Nat : i <= m /\ i <= n => g[i] = h[i]}
<1>1. 0 \in T
  BY DEF UpTo
<1>2. ASSUME NEW i \in Nat, i \in T PROVE i + 1 \in T
  <2> SUFFICES ASSUME i + 1 <= m /\ i + 1 <= n PROVE g[i + 1] = h[i + 1]
    OBVIOUS
  <2>1. g[i] = h[i]
    BY <1>2
  <2>2. i + 1 \in 1 .. m /\ i + 1 \in 1 .. n /\ (i + 1) - 1 = i
    OBVIOUS
  <2>3. g[i + 1] = Step(p, i + 1, g[i]) /\ h[i + 1] = Step(p, i + 1, h[i])
    BY <2>2 DEF UpTo
  <2> QED
    BY <2>1, <2>3
<1> HIDE DEF T
<1>3. Nat \subseteq T
  BY <1>1, <1>2, SetInduction
<1> QED
  BY <1>3 DEF T

(* There is one for every n.                                                  *)
LEMMA UpToExists ==
    ASSUME NEW p, NEW n \in Nat
    PROVE  \E g : UpTo(p, n, g)
<1> DEFINE T == {i \in Nat : \E g : UpTo(p, i, g)}
<1>1. 0 \in T
  <2>1. PICK g : g = [i \in 0 .. 0 |-> Base(p)]
    OBVIOUS
  <2>2. UpTo(p, 0, g)
    BY <2>1 DEF UpTo
  <2> QED
    BY <2>2
<1>2. ASSUME NEW i \in Nat, i \in T PROVE i + 1 \in T
  <2>1. PICK g : UpTo(p, i, g)
    BY <1>2
  <2>2. PICK v : v = Step(p, i + 1, g[i])
    OBVIOUS
  <2>3. PICK h : h = [j \in 0 .. i + 1 |-> IF j = i + 1 THEN v ELSE g[j]]
    OBVIOUS
  <2>4. h = [j \in 0 .. i + 1 |-> h[j]]
    BY <2>3
  <2>5. h[0] = Base(p)
    BY <2>1, <2>3 DEF UpTo
  <2>6. ASSUME NEW j \in 1 .. i + 1 PROVE h[j] = Step(p, j, h[j - 1])
    <3>1. j - 1 \in 0 .. i + 1 /\ j - 1 # i + 1 /\ j \in 0 .. i + 1
      OBVIOUS
    <3>2. h[j - 1] = g[j - 1]
      BY <2>3, <3>1
    <3>3. CASE j = i + 1
      <4>1. j - 1 = i /\ h[j] = v
        BY <2>3, <3>3
      <4> QED
        BY <2>2, <3>2, <3>3, <4>1
    <3>4. CASE j # i + 1
      <4>1. j \in 1 .. i /\ h[j] = g[j]
        BY <2>3, <3>4
      <4>2. g[j] = Step(p, j, g[j - 1])
        BY <2>1, <4>1 DEF UpTo
      <4> QED
        BY <3>2, <4>1, <4>2
    <3> QED
      BY <3>3, <3>4
  <2>7. UpTo(p, i + 1, h)
    BY <2>4, <2>5, <2>6 DEF UpTo
  <2> QED
    BY <2>7
<1> HIDE DEF T
<1>3. Nat \subseteq T
  BY <1>1, <1>2, SetInduction
<1> QED
  BY <1>3 DEF T

(* The function satisfies its equation.                                       *)
LEMMA RecEquation ==
    ASSUME NEW p
    PROVE  Rec(p) = [n \in Nat |-> IF n = 0 THEN Base(p)
                                   ELSE Step(p, n, Rec(p)[n - 1])]
<1>1. PICK f : f = [n \in Nat |-> (CHOOSE g : UpTo(p, n, g))[n]]
  OBVIOUS
<1>2. ASSUME NEW n \in Nat, NEW g, UpTo(p, n, g) PROVE f[n] = g[n]
  <2>1. PICK h : UpTo(p, n, h) /\ f[n] = h[n]
    BY <1>1, UpToExists
  <2> QED
    BY <1>2, <2>1, UpToUnique
<1>3. ASSUME NEW n \in Nat
      PROVE  f[n] = IF n = 0 THEN Base(p) ELSE Step(p, n, f[n - 1])
  <2>1. PICK g : UpTo(p, n, g)
    BY UpToExists
  <2>2. f[n] = g[n]
    BY <1>2, <2>1
  <2>3. CASE n = 0
    BY <2>1, <2>2, <2>3 DEF UpTo
  <2>4. CASE n # 0
    <3>1. n - 1 \in Nat /\ n - 1 <= n /\ n \in 1 .. n
      BY <2>4
    <3>2. PICK h : UpTo(p, n - 1, h)
      BY <3>1, UpToExists
    <3>3. f[n - 1] = h[n - 1] /\ h[n - 1] = g[n - 1]
      BY <1>2, <2>1, <3>1, <3>2, UpToUnique
    <3>4. g[n] = Step(p, n, g[n - 1])
      BY <2>1, <3>1 DEF UpTo
    <3> QED
      BY <2>2, <2>4, <3>3, <3>4
  <2> QED
    BY <2>3, <2>4
<1>4. f = [n \in Nat |-> IF n = 0 THEN Base(p) ELSE Step(p, n, f[n - 1])]
  BY <1>1, <1>3
<1> QED
  BY <1>4 DEF Rec

(* Its values one by one.                                                     *)
LEMMA RecValues ==
    ASSUME NEW p
    PROVE  /\ Rec(p)[0] = Base(p)
           /\ \A n \in Nat : Rec(p)[n + 1] = Step(p, n + 1, Rec(p)[n])
<1>1. Rec(p)[0] = Base(p)
  BY RecEquation
<1>2. ASSUME NEW n \in Nat PROVE Rec(p)[n + 1] = Step(p, n + 1, Rec(p)[n])
  <2>1. n + 1 \in Nat /\ n + 1 # 0 /\ (n + 1) - 1 = n
    OBVIOUS
  <2> QED
    BY <2>1, RecEquation
<1> QED
  BY <1>1, <1>2
===============================================================================
