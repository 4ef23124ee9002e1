------------------------------ MODULE Induction ------------------------------
(***************************************************************************)
(* Induction over the naturals in a first-order form, for the proofs about *)
(* what the loops of the program compute: every set of naturals that is    *)
(* not empty has a least element, and a set that has 0 and with every      *)
(* number the next one has them all.                                       *)
(***************************************************************************)
EXTENDS Integers, WellFoundedInduction, TLAPS

LEMMA LessThanIsWellFounded ==
    \E R : IsWellFoundedOn(R, Nat) /\ \A i, j \in Nat : j < i => <<j, i>> \in R
<1> WITNESS OpToRel(<, Nat)
<1>1. IsWellFoundedOn(OpToRel(<, Nat), Nat)
      BY NatLessThanWellFounded
<1>2. \A i, j \in Nat : j < i => <<j, i>> \in OpToRel(<, Nat)
      BY DEF OpToRel
<1> QED BY Zenon, <1>1, <1>2

LEMMA Least ==
    ASSUME NEW S \in SUBSET Nat, S # {}
    PROVE  \E i \in S : \A j \in S : i <= j
<1>1. PICK R : IsWellFoundedOn(R, Nat) /\ \A i, j \in Nat : j < i => <<j, i>> \in R
      BY LessThanIsWellFounded
<1>2. PICK i \in S : \A j \in S : <<j, i>> \notin R
      BY <1>1, WFMin
<1>3. \A j \in S : ~(j < i)
      BY <1>1, <1>2
<1> QED BY <1>3

LEMMA SetInduction ==
    ASSUME NEW S, 0 \in S, \A n \in Nat : n \in S => n + 1 \in S
    PROVE  Nat \subseteq S
<1> SUFFICES ASSUME Nat \ S # {} PROVE FALSE
    OBVIOUS
<1>1. PICK x \in Nat \ S : \A y \in Nat \ S : x <= y
      BY Least
<1>2. x # 0 /\ x - 1 \in Nat /\ x - 1 \in S
      BY <1>1
<1> QED BY <1>1, <1>2

(***************************************************************************)
(* A function that is given by what it has at some places, "ends", and     *)
(* elsewhere by what it has at one of a lower rank, "prev", exists: there  *)
(* is one that is right below any rank k.                                  *)
(***************************************************************************)
Defines(h, m, ends, base, step, prev) ==
    h[m] = IF m \in ends THEN base[m] ELSE step[m][h[prev[m]]]

LEMMA RecursiveFunction ==
    ASSUME NEW D, NEW R, NEW n \in Nat, NEW rank \in [D -> 0 .. n], NEW ends \in SUBSET D,
           NEW base \in [D -> R], NEW step \in [D -> [R -> R]],
           NEW prev \in [D -> D], \A m \in D \ ends : rank[prev[m]] < rank[m]
    PROVE  \E h \in [D -> R] : \A m \in D : Defines(h, m, ends, base, step, prev)
<1> DEFINE Right(h, k) == \A m \in D : rank[m] < k => Defines(h, m, ends, base, step, prev)
           P(k) == \E h \in [D -> R] : Right(h, k)
           S == {k \in Nat : P(k)}
<1>0. \A a, b \in Nat : a < b + 1 /\ a # b => a < b
  OBVIOUS
<1>1. 0 \in S
  <2>1. base \in [D -> R] /\ Right(base, 0)
    OBVIOUS
  <2>2. QED
    BY <2>1
<1>2. ASSUME NEW k \in Nat, k \in S
      PROVE  k + 1 \in S
  <2>1. PICK h \in [D -> R] : Right(h, k)
    BY <1>2
  <2> DEFINE At(m) == IF m \in ends THEN base[m] ELSE step[m][h[prev[m]]]
             g == [m \in D |-> IF rank[m] = k THEN At(m) ELSE h[m]]
  <2>2. \A m \in D : At(m) \in R
    OBVIOUS
  <2>3. g \in [D -> R] /\ \A m \in D : g[m] = IF rank[m] = k THEN At(m) ELSE h[m]
    <3> HIDE DEF At
    <3>1. QED
      BY <2>2
  <2> HIDE DEF g
  <2>4. ASSUME NEW m \in D, rank[m] < k + 1
        PROVE  Defines(g, m, ends, base, step, prev)
    <3>1. m \notin ends => rank[prev[m]] < k /\ prev[m] \in D
      BY <2>4
    <3>2. m \notin ends => g[prev[m]] = h[prev[m]]
      BY <2>3, <3>1
    <3>3. CASE rank[m] = k
      <4>1. g[m] = At(m)
        BY <2>3, <3>3
      <4>2. QED
        BY <3>2, <4>1 DEF Defines
    <3>4. CASE rank[m] # k
      <4>0. rank[m] \in Nat
        OBVIOUS
      <4>1. rank[m] < k
        BY <1>0, <2>4, <3>4, <4>0, Zenon
      <4>3. g[m] = h[m]
        BY <2>3, <3>4
      <4>2. Defines(h, m, ends, base, step, prev)
        BY <2>1, <4>1
      <4>4. QED
        BY <3>2, <4>2, <4>3 DEF Defines
    <3>5. QED
      BY <3>3, <3>4
  <2>5. QED
    BY <2>3, <2>4
<1>3. n + 1 \in S
  <2> HIDE DEF S
  <2>1. QED
    BY <1>1, <1>2, SetInduction
<1>4. PICK h \in [D -> R] : Right(h, n + 1)
  BY <1>3
<1>5. \A m \in D : rank[m] < n + 1
  OBVIOUS
<1>6. QED
  BY <1>4, <1>5

=============================================================================
