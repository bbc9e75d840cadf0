-------------------------- MODULE NumberInduction --------------------------
(***************************************************************************)
(* Induction over numbers, for the proofs about loops and recursive        *)
(* functions: what is to be shown is the membership in a set.              *)
(***************************************************************************)
EXTENDS Integers, WellFoundedInduction, TLAPS

(* A set of numbers has a least element.                                   *)
LEMMA LeastNumber ==
  ASSUME NEW T \in SUBSET Nat, T # {}
  PROVE  \E m \in T : \A n \in T : m <= n
<1> DEFINE R == {ss \in Nat \X Nat : ss[1] < ss[2]}
<1>1. IsWellFoundedOn(R, Nat)
  BY NatLessThanWellFounded DEF OpToRel
<1>2. \E x \in T : \A y \in T : <<y, x>> \notin R
  <2> HIDE DEF R
  <2> QED
    BY <1>1, WFMin
<1>3. PICK x \in T : \A y \in T : <<y, x>> \notin R
  BY <1>2
<1>4. ASSUME NEW y \in T, y < x PROVE FALSE
  <2>1. <<y, x>> \in R
    BY <1>4, Zenon
  <2> QED
    BY <1>3, <2>1
<1>5. \A y \in T : x <= y
  <2> HIDE DEF R
  <2> QED
    BY <1>4
<1> QED
  BY <1>5

(* Induction up to n, for what a set of numbers says.                      *)
LEMMA UpTo ==
  ASSUME NEW n \in Nat, NEW S, 0 \in S, \A i \in 0 .. n - 1 : i \in S => i + 1 \in S
  PROVE  \A i \in 0 .. n : i \in S
<1> DEFINE T == {i \in 0 .. n : i \notin S}
<1> SUFFICES ASSUME T # {} PROVE FALSE
  OBVIOUS
<1>1. PICK m \in T : \A i \in T : m <= i
  <2>1. T \in SUBSET Nat
    OBVIOUS
  <2> HIDE DEF T
  <2> QED
    BY <2>1, LeastNumber
<1>2. m # 0 /\ m - 1 \in 0 .. n - 1 /\ m - 1 \in 0 .. n
  BY <1>1
<1>3. m - 1 \in S
  BY <1>1, <1>2
<1> QED
  BY <1>1, <1>2, <1>3

(* The same, when the step needs all that come before.                     *)
LEMMA UpToFromAll ==
  ASSUME NEW n \in Nat, NEW S, \A i \in 0 .. n : (\A j \in 0 .. i - 1 : j \in S) => i \in S
  PROVE  \A i \in 0 .. n : i \in S
<1> DEFINE T == {i \in 0 .. n : i \notin S}
<1> SUFFICES ASSUME T # {} PROVE FALSE
  OBVIOUS
<1>1. PICK m \in T : \A i \in T : m <= i
  <2>1. T \in SUBSET Nat
    OBVIOUS
  <2> HIDE DEF T
  <2> QED
    BY <2>1, LeastNumber
<1>2. \A j \in 0 .. m - 1 : j \in S
  <2> SUFFICES ASSUME NEW j \in 0 .. m - 1, j \notin S PROVE FALSE
    OBVIOUS
  <2>1. j \in 0 .. n
    BY <1>1
  <2> QED
    BY <1>1, <2>1
<1> QED
  BY <1>1, <1>2

(* A loop that goes up from 0 until it stops: the recursive function that  *)
(* describes it exists, and its value is that of the first stop.           *)
IsScan(f, n, Stop, g) == f = [k \in 0 .. n |-> IF k \in Stop THEN g[k] ELSE f[k + 1]]

LEMMA ScanExists ==
  ASSUME NEW n \in Nat, NEW Stop, Stop \subseteq 0 .. n, n \in Stop, NEW g
  PROVE  \E f : IsScan(f, n, Stop, g)
<1> DEFINE After(k) == {j \in Stop : k <= j}
           First(k) == CHOOSE m \in After(k) : \A j \in After(k) : m <= j
           f == [k \in 0 .. n |-> g[First(k)]]
<1> HIDE DEF First, f
<1>0. \A j \in Stop : j \in Nat
  OBVIOUS
<1>1. \A k \in 0 .. n : First(k) \in After(k) /\ \A j \in After(k) : First(k) <= j
  <2> SUFFICES ASSUME NEW k \in 0 .. n
               PROVE  First(k) \in After(k) /\ \A j \in After(k) : First(k) <= j
    OBVIOUS
  <2>1. After(k) \subseteq Nat
    BY <1>0, Zenon
  <2>2. n \in After(k)
    OBVIOUS
  <2>3. \E m \in After(k) : \A j \in After(k) : m <= j
    <3> HIDE DEF After
    <3> QED
      BY <2>1, <2>2, LeastNumber
  <2> HIDE DEF After
  <2> QED
    BY <2>3 DEF First
<1>2. ASSUME NEW k \in Stop PROVE First(k) = k
  <2>1. k \in 0 .. n /\ k \in After(k)
    BY <1>2
  <2>2. First(k) \in After(k) /\ First(k) <= k
    <3> HIDE DEF After
    <3> QED
      BY <1>1, <2>1
  <2>3. First(k) \in Nat /\ k <= First(k) /\ k \in Nat
    BY <1>0, <2>2
  <2> QED
    BY <2>2, <2>3
<1>3. ASSUME NEW k \in 0 .. n, k \notin Stop PROVE k + 1 \in 0 .. n /\ First(k + 1) = First(k)
  <2>1. \A j \in Stop : k <= j <=> k + 1 <= j
    BY <1>3
  <2>2. After(k) = After(k + 1)
    BY <2>1
  <2>3. k + 1 \in 0 .. n
    BY <1>3
  <2> HIDE DEF After
  <2> QED
    BY <2>2, <2>3 DEF First
<1>4. f = [k \in 0 .. n |-> IF k \in Stop THEN g[k] ELSE f[k + 1]]
  <2> SUFFICES ASSUME NEW k \in 0 .. n
               PROVE  g[First(k)] = IF k \in Stop THEN g[k] ELSE f[k + 1]
    BY DEF f
  <2> QED
    BY <1>2, <1>3 DEF f
<1> QED
  BY <1>4 DEF IsScan

(* m is where the loop ends.                                               *)
ScanEnds(f, n, Stop, g, m) ==
  /\ Stop \subseteq 0 .. n /\ IsScan(f, n, Stop, g)
  /\ m \in Stop /\ \A k \in 0 .. m - 1 : k \notin Stop

LEMMA ScanValue ==
  ASSUME NEW n \in Nat, NEW Stop, NEW g, NEW f, NEW m, ScanEnds(f, n, Stop, g, m)
  PROVE  f[0] = g[m]
<1> DEFINE S == {i \in 0 .. m : f[m - i] = g[m]}
<1>0. m \in 0 .. n
  BY DEF ScanEnds
<1>1. 0 \in S
  <2>1. m - 0 = m /\ 0 \in 0 .. m
    BY <1>0
  <2>2. f[m - 0] = g[m]
    BY <1>0, <2>1 DEF IsScan, ScanEnds
  <2> QED
    BY <2>1, <2>2
<1>2. ASSUME NEW i \in 0 .. m - 1, i \in S PROVE i + 1 \in S
  <2>1. m - (i + 1) \in 0 .. n /\ m - (i + 1) \notin Stop /\ m - (i + 1) + 1 = m - i
    BY <1>0 DEF ScanEnds
  <2> QED
    BY <1>2, <2>1 DEF IsScan, ScanEnds
<1>3. m \in Nat
  BY <1>0
<1>4. m \in S
  <2> HIDE DEF S
  <2>1. \A i \in 0 .. m : i \in S
    BY <1>1, <1>2, <1>3, UpTo, Zenon
  <2> QED
    BY <1>3, <2>1
<1> QED
  BY <1>3, <1>4
=============================================================================
