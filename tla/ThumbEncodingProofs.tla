----------------------- MODULE ThumbEncodingProofs -----------------------
(***************************************************************************)
(* What the encodings make of their parts and find in a word, whatever the *)
(* values: the halfwords that each of them can have, and the words of some *)
(* that cannot be another's.                                               *)
(***************************************************************************)
EXTENDS ThumbEncoding, Induction, FiniteSetTheorems, TLAPS


(***************************************************************************)
(* Sums over a set: what MapThenSumSet goes through, in whatever order it  *)
(* takes the elements, is at most what the elements are at most, if they   *)
(* are nothing but for three.                                              *)
(***************************************************************************)
AnyOf(s) == CHOOSE x \in s : TRUE

Sums(g, F, S) ==
    \A s \in SUBSET S : g[s] = IF s = {} THEN 0 ELSE F[AnyOf(s)] + g[s \ {AnyOf(s)}]

LEMMA SumsExist ==
    ASSUME NEW S, IsFiniteSet(S), NEW F \in [S -> Nat]
    PROVE  \E g \in [SUBSET S -> Nat] : Sums(g, F, S)
<1> DEFINE D    == SUBSET S
           n    == Cardinality(S)
           rank == [s \in D |-> Cardinality(s)]
           ends == {{}}
           base == [s \in D |-> 0]
           step == [s \in D |-> [v \in Nat |-> IF s = {} THEN 0 ELSE F[AnyOf(s)] + v]]
           prev == [s \in D |-> IF s = {} THEN {} ELSE s \ {AnyOf(s)}]
<1>1. \A s \in D : s # {} => AnyOf(s) \in s /\ AnyOf(s) \in S
  BY DEF AnyOf
<1>2. n \in Nat /\ rank \in [D -> 0 .. n]
  <2>1. \A s \in D : IsFiniteSet(s) /\ Cardinality(s) <= n
    BY FS_Subset
  <2>2. \A s \in D : Cardinality(s) \in Nat
    BY <2>1, FS_CardinalityType
  <2>3. n \in Nat
    BY FS_CardinalityType
  <2>4. \A s \in D : Cardinality(s) \in 0 .. n
    BY <2>1, <2>2, <2>3
  <2>5. QED
    BY <2>3, <2>4
<1>3. ends \in SUBSET D /\ base \in [D -> Nat]
  OBVIOUS
<1>4. step \in [D -> [Nat -> Nat]]
  BY <1>1
<1>5. prev \in [D -> D]
  OBVIOUS
<1>6. ASSUME NEW s \in D \ ends
      PROVE  rank[prev[s]] < rank[s]
  <2>1. IsFiniteSet(s) /\ AnyOf(s) \in s
    BY <1>1, FS_Subset
  <2>2. Cardinality(s \ {AnyOf(s)}) = Cardinality(s) - 1 /\ Cardinality(s) \in Nat
    BY <2>1, FS_RemoveElement, FS_CardinalityType
  <2>3. rank[prev[s]] = Cardinality(s \ {AnyOf(s)}) /\ rank[s] = Cardinality(s)
    OBVIOUS
  <2> HIDE DEF rank
  <2>4. QED
    BY <2>2, <2>3
<1>7. PICK g \in [D -> Nat] : \A s \in D : Defines(g, s, ends, base, step, prev)
  <2> HIDE DEF D, n, rank, ends, base, step, prev
  <2>1. QED
    BY <1>2, <1>3, <1>4, <1>5, <1>6, RecursiveFunction
<1>8. ASSUME NEW s \in D
      PROVE  g[s] = IF s = {} THEN 0 ELSE F[AnyOf(s)] + g[s \ {AnyOf(s)}]
  <2>1. g[s] = IF s \in ends THEN base[s] ELSE step[s][g[prev[s]]]
    BY <1>7 DEF Defines
  <2>2. CASE s = {}
    BY <2>1, <2>2
  <2>3. CASE s # {}
    <3>1. prev[s] = s \ {AnyOf(s)} /\ prev[s] \in D /\ g[prev[s]] \in Nat
      BY <2>3
    <3>2. step[s][g[prev[s]]] = F[AnyOf(s)] + g[prev[s]]
      BY <2>3, <3>1
    <3>3. QED
      BY <2>1, <2>3, <3>1, <3>2
  <2>4. QED
    BY <2>2, <2>3
<1>9. Sums(g, F, S)
  BY <1>8 DEF Sums
<1>10. g \in [SUBSET S -> Nat]
  BY <1>7
<1>11. QED
  BY <1>9, <1>10, Zenon

Share(s, a, na) == IF a \in s THEN na ELSE 0

LEMMA SumAtMost ==
    ASSUME NEW S, IsFiniteSet(S), NEW F \in [S -> Nat],
           NEW g, Sums(g, F, S),
           NEW a, NEW na \in Nat, NEW b, NEW nb \in Nat, NEW c, NEW nc \in Nat,
           \A x \in S : F[x] <= Share({x}, a, na) + Share({x}, b, nb) + Share({x}, c, nc)
    PROVE  g[S] \in 0 .. na + nb + nc
<1> DEFINE Bound(s) == Share(s, a, na) + Share(s, b, nb) + Share(s, c, nc)
           P(s) == g[s] \in Nat /\ g[s] <= Bound(s)
           K == {k \in Nat : \A s \in SUBSET S : Cardinality(s) <= k => P(s)}
<1>0. \A s \in SUBSET S : IsFiniteSet(s) /\ Cardinality(s) \in Nat /\ Bound(s) \in Nat
  BY FS_Subset, FS_CardinalityType DEF Share
<1>1. 0 \in K
  <2>1. ASSUME NEW s \in SUBSET S, Cardinality(s) <= 0
        PROVE  P(s)
    <3>1. s = {}
      BY <1>0, <2>1, FS_EmptySet
    <3>2. g[s] = 0
      BY <3>1 DEF Sums
    <3>3. QED
      BY <1>0, <3>2
  <2>2. QED
    BY <2>1
<1>2. ASSUME NEW k \in Nat, k \in K
      PROVE  k + 1 \in K
  <2>1. ASSUME NEW s \in SUBSET S, Cardinality(s) <= k + 1
        PROVE  P(s)
    <3>1. CASE s = {}
      <4>1. g[s] = 0
        BY <3>1 DEF Sums
      <4>2. QED
        BY <1>0, <4>1
    <3>2. CASE s # {}
      <4> DEFINE x == AnyOf(s)
                 r == s \ {x}
      <4>1. x \in s /\ x \in S /\ r \in SUBSET S /\ g[s] = F[x] + g[r]
        BY <3>2 DEF AnyOf, Sums
      <4>2. Cardinality(r) = Cardinality(s) - 1
        BY <1>0, <4>1, FS_RemoveElement
      <4> HIDE DEF x
      <4>3. P(r)
        <5>1. Cardinality(r) \in Nat /\ Cardinality(s) \in Nat
          BY <1>0, <4>1
        <5>2. Cardinality(r) <= k
          BY <2>1, <4>2, <5>1
        <5> HIDE DEF P, r
        <5>3. QED
          BY <1>2, <4>1, <5>2
      <4>4. /\ Share({x}, a, na) + Share(r, a, na) = Share(s, a, na)
            /\ Share({x}, b, nb) + Share(r, b, nb) = Share(s, b, nb)
            /\ Share({x}, c, nc) + Share(r, c, nc) = Share(s, c, nc)
        BY <4>1 DEF Share
      <4>5. /\ Share({x}, a, na) \in Nat /\ Share(r, a, na) \in Nat
            /\ Share({x}, b, nb) \in Nat /\ Share(r, b, nb) \in Nat
            /\ Share({x}, c, nc) \in Nat /\ Share(r, c, nc) \in Nat
        BY DEF Share
      <4>6. F[x] \in Nat /\ F[x] <= Share({x}, a, na) + Share({x}, b, nb) + Share({x}, c, nc)
        BY <4>1
      <4> HIDE DEF r
      <4>8. QED
        BY <4>1, <4>3, <4>4, <4>5, <4>6
    <3>3. QED
      BY <3>1, <3>2
  <2>2. QED
    BY <2>1
<1>3. Cardinality(S) \in K
  <2> HIDE DEF K
  <2>1. QED
    BY <1>0, <1>1, <1>2, SetInduction
<1>4. P(S) /\ Bound(S) \in 0 .. na + nb + nc
  <2>1. P(S)
    BY <1>0, <1>3
  <2>2. Bound(S) \in 0 .. na + nb + nc
    BY DEF Share
  <2>3. QED
    BY <2>1, <2>2
<1>5. QED
  BY <1>0, <1>4

-----------------------------------------------------------------------------
(***************************************************************************)
(* The powers of two that the fields need, and the bits of a number.       *)
(***************************************************************************)
LEMMA Powers == \A k \in 0 .. 31 : 2^k \in Nat \ {0}
<1> DEFINE p(k) == 2^k
<1>1. /\ p(0) \in Nat \ {0} /\ p(1) \in Nat \ {0} /\ p(2) \in Nat \ {0} /\ p(3) \in Nat \ {0}
      /\ p(4) \in Nat \ {0} /\ p(5) \in Nat \ {0} /\ p(6) \in Nat \ {0} /\ p(7) \in Nat \ {0}
  OBVIOUS
<1>2. /\ p(8) \in Nat \ {0} /\ p(9) \in Nat \ {0} /\ p(10) \in Nat \ {0} /\ p(11) \in Nat \ {0}
      /\ p(12) \in Nat \ {0} /\ p(13) \in Nat \ {0} /\ p(14) \in Nat \ {0} /\ p(15) \in Nat \ {0}
  OBVIOUS
<1>3. /\ p(16) \in Nat \ {0} /\ p(17) \in Nat \ {0} /\ p(18) \in Nat \ {0} /\ p(19) \in Nat \ {0}
      /\ p(20) \in Nat \ {0} /\ p(21) \in Nat \ {0} /\ p(22) \in Nat \ {0} /\ p(23) \in Nat \ {0}
  OBVIOUS
<1>4. /\ p(24) \in Nat \ {0} /\ p(25) \in Nat \ {0} /\ p(26) \in Nat \ {0} /\ p(27) \in Nat \ {0}
      /\ p(28) \in Nat \ {0} /\ p(29) \in Nat \ {0} /\ p(30) \in Nat \ {0} /\ p(31) \in Nat \ {0}
  OBVIOUS
<1> HIDE DEF p
<1>5. \A k \in 0 .. 31 : p(k) \in Nat \ {0}
  BY <1>1, <1>2, <1>3, <1>4
<1>6. QED
  BY <1>5 DEF p

LEMMA ExtractRange ==
    ASSUME NEW value \in Int, NEW position \in 0 .. 31, NEW width \in 0 .. 31
    PROVE  Extract(value, position, width) \in 0 .. 2^width - 1
<1> DEFINE p == 2^position
           w == 2^width
<1>1. p \in Nat \ {0} /\ w \in Nat \ {0}
  BY Powers
<1>2. Extract(value, position, width) = (value \div p) % w
  BY DEF Extract
<1> HIDE DEF p, w
<1>3. value \div p \in Int
  BY <1>1
<1>4. (value \div p) % w \in 0 .. w - 1
  BY <1>1, <1>3
<1>5. Extract(value, position, width) \in 0 .. w - 1
  BY <1>2, <1>4
<1>6. QED
  BY <1>5 DEF w

\* A field as the encodings have them
Shaped(f) ==
    /\ f.width \in 1 .. 31
    /\ f.twisted \in BOOLEAN
    /\ f.twisted => f.width >= 3
    /\ IsFiniteSet(f.pieces)

WellFormed(f) ==
    /\ Shaped(f)
    /\ \A piece \in f.pieces : piece[1] \in 0 .. 31 /\ piece[2] \in 0 .. 31 /\ piece[3] \in 0 .. 31

LEMMA TwistType ==
    ASSUME NEW f, WellFormed(f), NEW raw \in Int
    PROVE  Twist(f, raw) \in Int
<1>1. CASE ~f.twisted
  BY <1>1 DEF Twist
<1>2. CASE f.twisted
  <2>1. f.width - 3 \in 0 .. 31 /\ 2 \in 0 .. 31
    BY <1>2 DEF WellFormed, Shaped
  <2> DEFINE x == Extract(raw, f.width - 3, 2)
             p == 2^(f.width - 3)
  <2>2. x \in 0 .. 2^2 - 1
    BY <2>1, ExtractRange
  <2>3. x \in Int /\ p \in Int
    BY <2>1, <2>2, Powers
  <2>4. Twist(f, raw) = raw \/ Twist(f, raw) = raw + (3 - 2 * x) * p
    BY DEF Twist
  <2> HIDE DEF x, p
  <2>5. QED
    BY <2>3, <2>4
<1>3. QED
  BY <1>1, <1>2 DEF WellFormed, Shaped

-----------------------------------------------------------------------------
\* What a field adds to the instruction's halfword h, and the most it can be
FieldSum(f, v, h) ==
    MapThenSumSet(LAMBDA piece : Extract(Twist(f, v % 2^f.width), piece[1], piece[2])
                                     * 2^(piece[3] % 16),
                  {piece \in f.pieces : piece[3] \div 16 + 1 = h})

Weight(piece) == (2^piece[2] - 1) * 2^(piece[3] % 16)

LEMMA FieldAtMost ==
    ASSUME NEW f, WellFormed(f), NEW v \in Int, NEW h,
           NEW a, NEW na \in Nat, NEW b, NEW nb \in Nat, NEW c, NEW nc \in Nat,
           \A x \in f.pieces : x[3] \div 16 + 1 = h =>
               Weight(x) <= Share({x}, a, na) + Share({x}, b, nb) + Share({x}, c, nc)
    PROVE  FieldSum(f, v, h) \in 0 .. na + nb + nc
<1> DEFINE S == {x \in f.pieces : x[3] \div 16 + 1 = h}
           raw == Twist(f, v % 2^f.width)
           F == [x \in S |-> Extract(raw, x[1], x[2]) * 2^(x[3] % 16)]
           Body(i) == [s \in SUBSET S |->
                          IF s = {} THEN 0
                          ELSE Extract(raw, AnyOf(s)[1], AnyOf(s)[2]) * 2^(AnyOf(s)[3] % 16)
                               + i[s \ {AnyOf(s)}]]
           iter == CHOOSE i : i = Body(i)
<1>1. IsFiniteSet(S)
  <2>1. S \in SUBSET f.pieces /\ IsFiniteSet(f.pieces)
    BY DEF WellFormed, Shaped
  <2> HIDE DEF S
  <2>2. QED
    BY <2>1, FS_Subset
<1>2. raw \in Int
  <2>0. f.width \in 0 .. 31
    BY DEF WellFormed, Shaped
  <2>1. 2^f.width \in Nat \ {0}
    BY <2>0, Powers, Zenon
  <2>2. v % 2^f.width \in Int
    BY <2>1
  <2>3. QED
    BY <2>2, TwistType
<1>3. ASSUME NEW x \in S
      PROVE  F[x] \in Nat /\ F[x] <= Weight(x)
  <2>1. x[1] \in 0 .. 31 /\ x[2] \in 0 .. 31 /\ x[3] % 16 \in 0 .. 31
    BY DEF WellFormed, Shaped
  <2>2. Extract(raw, x[1], x[2]) \in 0 .. 2^x[2] - 1
    BY <1>2, <2>1, ExtractRange
  <2>3. 2^x[2] \in Nat \ {0} /\ 2^(x[3] % 16) \in Nat \ {0}
    BY <2>1, Powers
  <2>4. \A i, k, p \in Nat : i <= k => i * p \in Nat /\ i * p <= k * p
    OBVIOUS
  <2>5. Extract(raw, x[1], x[2]) * 2^(x[3] % 16) \in Nat
        /\ Extract(raw, x[1], x[2]) * 2^(x[3] % 16) <= Weight(x)
    <3> DEFINE i == Extract(raw, x[1], x[2])
               k == 2^x[2] - 1
               p == 2^(x[3] % 16)
    <3>1. i \in Nat /\ k \in Nat /\ p \in Nat /\ i <= k
      BY <2>2, <2>3
    <3>2. Weight(x) = k * p
      BY DEF Weight
    <3> HIDE DEF i, k, p
    <3>3. i * p \in Nat /\ i * p <= Weight(x)
      BY <2>4, <3>1, <3>2
    <3>4. QED
      BY <3>3 DEF i, p
  <2> HIDE DEF raw
  <2>6. QED
    BY <2>5
<1>4. FieldSum(f, v, h) = iter[S]
  BY DEF FieldSum, MapThenSumSet, MapThenFoldSet, AnyOf
<1> HIDE DEF raw
<1>5. F \in [S -> Nat]
  BY <1>3
<1>6. ASSUME NEW i, NEW s \in SUBSET S
      PROVE  Body(i)[s] = IF s = {} THEN 0 ELSE F[AnyOf(s)] + i[s \ {AnyOf(s)}]
  <2>1. s # {} => AnyOf(s) \in S
    BY DEF AnyOf
  <2>2. QED
    BY <2>1
<1>7. PICK g \in [SUBSET S -> Nat] : Sums(g, F, S)
  <2> HIDE DEF S, F
  <2>1. QED
    BY <1>1, <1>5, SumsExist
<1>8. g = Body(g)
  <2>1. \A s \in SUBSET S : g[s] = Body(g)[s]
    BY <1>6, <1>7 DEF Sums
  <2>2. DOMAIN Body(g) = SUBSET S /\ Body(g) = [s \in SUBSET S |-> Body(g)[s]]
    OBVIOUS
  <2> HIDE DEF Body
  <2>3. QED
    BY <1>7, <2>1, <2>2
<1>9. iter = Body(iter)
  <2> HIDE DEF Body
  <2>1. QED
    BY <1>8
<1>10. Sums(iter, F, S)
  <2> HIDE DEF iter, F, Body
  <2>1. \A s \in SUBSET S : iter[s] = Body(iter)[s]
    BY <1>9
  <2>2. QED
    BY <1>6, <2>1 DEF Sums
<1>11. \A x \in S : F[x] <= Share({x}, a, na) + Share({x}, b, nb) + Share({x}, c, nc)
  <2>1. ASSUME NEW x \in S
        PROVE  F[x] <= Share({x}, a, na) + Share({x}, b, nb) + Share({x}, c, nc)
    <3>1. Share({x}, a, na) \in Nat /\ Share({x}, b, nb) \in Nat /\ Share({x}, c, nc) \in Nat
      BY DEF Share
    <3>2. Weight(x) <= Share({x}, a, na) + Share({x}, b, nb) + Share({x}, c, nc)
      OBVIOUS
    <3>3. Weight(x) \in Int
      <4>1. x[2] \in 0 .. 31 /\ x[3] % 16 \in 0 .. 31
        BY DEF WellFormed, Shaped
      <4>2. 2^x[2] \in Int /\ 2^(x[3] % 16) \in Int
        BY <4>1, Powers
      <4>3. QED
        BY <4>2 DEF Weight
    <3>4. F[x] \in Nat /\ F[x] <= Weight(x)
      BY <1>3
    <3> HIDE DEF F, S
    <3>5. QED
      BY <3>1, <3>2, <3>3, <3>4
  <2>2. QED
    BY <2>1
<1>12. QED
  <2> HIDE DEF iter, F, S, Body
  <2>1. iter[S] \in 0 .. na + nb + nc
    BY <1>1, <1>5, <1>10, <1>11, SumAtMost
  <2>2. QED
    BY <1>4, <2>1

\* Field f adds at most n to the first halfword.
Caps(f, n) == WellFormed(f) /\ \A v \in Int : FieldSum(f, v, 1) \in 0 .. n

IntegerParts(e, parts) == \A part \in DOMAIN e.fields : parts[part] \in Int

LEMMA StoredAtMost ==
    ASSUME NEW e, IsFiniteSet(DOMAIN e.fields), NEW parts, IntegerParts(e, parts),
           e.base[1] \in Nat,
           NEW a, NEW na \in Nat, NEW b, NEW nb \in Nat, NEW c, NEW nc \in Nat,
           \A part \in DOMAIN e.fields :
               Caps(e.fields[part], Share({part}, a, na) + Share({part}, b, nb) + Share({part}, c, nc))
    PROVE  Stored(e, parts, 1) \in e.base[1] .. e.base[1] + na + nb + nc
<1> DEFINE S == DOMAIN e.fields
           F == [x \in S |-> FieldSum(e.fields[x], parts[x], 1)]
           Body(i) == [s \in SUBSET S |->
                          IF s = {} THEN 0
                          ELSE FieldSum(e.fields[AnyOf(s)], parts[AnyOf(s)], 1) + i[s \ {AnyOf(s)}]]
           iter == CHOOSE i : i = Body(i)
<1>1. \A x \in S : F[x] \in Nat /\ F[x] <= Share({x}, a, na) + Share({x}, b, nb) + Share({x}, c, nc)
  <2>1. ASSUME NEW x \in S
        PROVE  F[x] \in Nat /\ F[x] <= Share({x}, a, na) + Share({x}, b, nb) + Share({x}, c, nc)
    <3>1. parts[x] \in Int
      BY DEF IntegerParts
    <3>2. F[x] \in 0 .. Share({x}, a, na) + Share({x}, b, nb) + Share({x}, c, nc)
      BY <3>1 DEF Caps
    <3>3. Share({x}, a, na) \in Nat /\ Share({x}, b, nb) \in Nat /\ Share({x}, c, nc) \in Nat
      BY DEF Share
    <3> HIDE DEF F
    <3>4. QED
      BY <3>2, <3>3
  <2>2. QED
    BY <2>1
<1>2. Stored(e, parts, 1) = e.base[1] + iter[S]
  BY DEF Stored, Placed, FieldSum, MapThenSumSet, MapThenFoldSet, AnyOf
<1>3. F \in [S -> Nat]
  BY <1>1
<1>4. ASSUME NEW i, NEW s \in SUBSET S
      PROVE  Body(i)[s] = IF s = {} THEN 0 ELSE F[AnyOf(s)] + i[s \ {AnyOf(s)}]
  <2>1. s # {} => AnyOf(s) \in S
    BY DEF AnyOf
  <2>2. QED
    BY <2>1
<1>5. PICK g \in [SUBSET S -> Nat] : Sums(g, F, S)
  <2> HIDE DEF F
  <2>1. QED
    BY <1>3, SumsExist
<1>6. g = Body(g)
  <2>1. \A s \in SUBSET S : g[s] = Body(g)[s]
    BY <1>4, <1>5 DEF Sums
  <2>2. DOMAIN Body(g) = SUBSET S /\ Body(g) = [s \in SUBSET S |-> Body(g)[s]]
    OBVIOUS
  <2> HIDE DEF Body
  <2>3. QED
    BY <1>5, <2>1, <2>2
<1>7. iter = Body(iter)
  <2> HIDE DEF Body
  <2>1. QED
    BY <1>6
<1>8. Sums(iter, F, S)
  <2> HIDE DEF iter, F, Body
  <2>1. \A s \in SUBSET S : iter[s] = Body(iter)[s]
    BY <1>7
  <2>2. QED
    BY <1>4, <2>1 DEF Sums
<1>9. iter[S] \in 0 .. na + nb + nc
  <2> HIDE DEF iter, F, Body
  <2>1. QED
    BY <1>1, <1>3, <1>8, SumAtMost
<1>10. QED
  <2> HIDE DEF iter
  <2>1. QED
    BY <1>2, <1>9

-----------------------------------------------------------------------------
(***************************************************************************)
(* The kinds of fields                                                     *)
(***************************************************************************)
LEMMA BitsCap ==
    ASSUME NEW width \in 1 .. 31, NEW at \in 0 .. 15
    PROVE  Caps(Bits(width, at), (2^width - 1) * 2^at)
<1> DEFINE f == Bits(width, at)
           x == <<0, width, at>>
           n == (2^width - 1) * 2^at
<1>1. /\ f.width = width /\ f.twisted = FALSE /\ f.pieces = {x}
      /\ x[1] = 0 /\ x[2] = width /\ x[3] = at
  BY DEF Bits, Field
<1>2. WellFormed(f)
  <2>1. IsFiniteSet({x})
    BY FS_Singleton
  <2>2. width \in 0 .. 31 /\ at \in 0 .. 31 /\ 0 \in 0 .. 31
    OBVIOUS
  <2> HIDE DEF f, x
  <2>3. \A piece \in f.pieces : piece[1] \in 0 .. 31 /\ piece[2] \in 0 .. 31 /\ piece[3] \in 0 .. 31
    BY <1>1, <2>2, Zenon
  <2>4. f.width \in 1 .. 31 /\ IsFiniteSet(f.pieces)
    BY <1>1, <2>1, Zenon
  <2>5. QED
    BY <1>1, <2>3, <2>4, Zenon DEF WellFormed, Shaped
<1>3. Weight(x) = n
  <2>1. at % 16 = at
    OBVIOUS
  <2> HIDE DEF x
  <2>2. QED
    BY <1>1, <2>1, Zenon DEF Weight
<1>4. n \in Nat
  <2>0. width \in 0 .. 31 /\ at \in 0 .. 31
    OBVIOUS
  <2>1. 2^width \in Nat \ {0} /\ 2^at \in Nat \ {0}
    BY <2>0, Powers, Zenon
  <2>2. QED
    BY <2>1
<1> HIDE DEF f, n
<1>5. ASSUME NEW v \in Int
      PROVE  FieldSum(f, v, 1) \in 0 .. n + 0 + 0
  <2>1. \A y \in f.pieces : Weight(y) <= Share({y}, x, n) + Share({y}, x, 0) + Share({y}, x, 0)
    BY <1>1, <1>3, <1>4 DEF Share
  <2> HIDE DEF x
  <2>2. QED
    BY <1>2, <1>4, <2>1, FieldAtMost
<1>6. Caps(f, n)
  BY <1>2, <1>4, <1>5 DEF Caps
<1>7. QED
  BY <1>6 DEF f, n

LEMMA BitsNone ==
    ASSUME NEW width \in 1 .. 31, NEW at \in 16 .. 31, NEW n \in Nat
    PROVE  Caps(Bits(width, at), n)
<1> DEFINE f == Bits(width, at)
           x == <<0, width, at>>
<1>1. /\ f.width = width /\ f.twisted = FALSE /\ f.pieces = {x}
      /\ x[1] = 0 /\ x[2] = width /\ x[3] = at
  BY DEF Bits, Field
<1>2. WellFormed(f)
  <2>1. IsFiniteSet({x})
    BY FS_Singleton
  <2>2. width \in 0 .. 31 /\ at \in 0 .. 31 /\ 0 \in 0 .. 31
    OBVIOUS
  <2> HIDE DEF f, x
  <2>3. \A piece \in f.pieces : piece[1] \in 0 .. 31 /\ piece[2] \in 0 .. 31 /\ piece[3] \in 0 .. 31
    BY <1>1, <2>2, Zenon
  <2>4. f.width \in 1 .. 31 /\ IsFiniteSet(f.pieces)
    BY <1>1, <2>1, Zenon
  <2>5. QED
    BY <1>1, <2>3, <2>4, Zenon DEF WellFormed, Shaped
<1> HIDE DEF f
<1>5. ASSUME NEW v \in Int
      PROVE  FieldSum(f, v, 1) \in 0 .. 0 + 0 + 0
  <2>1. \A y \in f.pieces : y[3] \div 16 + 1 # 1
    BY <1>1
  <2> HIDE DEF x
  <2>2. QED
    BY <1>2, <2>1, FieldAtMost
<1>6. Caps(f, n)
  BY <1>2, <1>5 DEF Caps
<1>7. QED
  BY <1>6 DEF f

LEMMA FewAreFinite ==
    ASSUME NEW a, NEW b, NEW c, NEW d, NEW e, NEW g, NEW S \in SUBSET {a, b, c, d, e, g}
    PROVE  IsFiniteSet(S)
<1>1. IsFiniteSet({a}) /\ IsFiniteSet({b}) /\ IsFiniteSet({c}) /\ IsFiniteSet({d}) /\ IsFiniteSet({e})
      /\ IsFiniteSet({g})
  BY FS_Singleton
<1>2. IsFiniteSet({a} \cup {b})
  BY <1>1, FS_Union
<1>3. IsFiniteSet(({a} \cup {b}) \cup {c})
  BY <1>1, <1>2, FS_Union
<1>4. IsFiniteSet((({a} \cup {b}) \cup {c}) \cup {d})
  BY <1>1, <1>3, FS_Union
<1>5. IsFiniteSet(((({a} \cup {b}) \cup {c}) \cup {d}) \cup {e})
  BY <1>1, <1>4, FS_Union
<1>6. IsFiniteSet((((({a} \cup {b}) \cup {c}) \cup {d}) \cup {e}) \cup {g})
  BY <1>1, <1>5, FS_Union
<1>7. (((({a} \cup {b}) \cup {c}) \cup {d}) \cup {e}) \cup {g} = {a, b, c, d, e, g}
  OBVIOUS
<1>8. QED
  BY <1>6, <1>7, FS_Subset

\* What is in the second halfword does not count.
Upper(piece)    == piece[3] \in 16 .. 31
InRange(piece)  == piece[1] \in 0 .. 31 /\ piece[2] \in 0 .. 31 /\ piece[3] \in 0 .. 31

\* In the first halfword there are a, of weight na, and b, of weight nb.
Lower(f, a, na, b, nb) ==
    \A y \in f.pieces :
        /\ InRange(y)
        /\ \/ y = a /\ Weight(y) = na
           \/ y = b /\ Weight(y) = nb
           \/ Upper(y)

LEMMA PiecesCap ==
    ASSUME NEW f, Shaped(f), NEW a, NEW b, NEW na \in Nat, NEW nb \in Nat,
           Lower(f, a, na, b, nb)
    PROVE  Caps(f, na + nb)
<1>1. WellFormed(f)
  BY Zenon DEF WellFormed, InRange, Lower
<1>2. ASSUME NEW v \in Int
      PROVE  FieldSum(f, v, 1) \in 0 .. na + nb + 0
  <2>0. \A k \in 16 .. 31 : k \div 16 + 1 # 1
    OBVIOUS
  <2>1. ASSUME NEW y \in f.pieces, y[3] \div 16 + 1 = 1
        PROVE  Weight(y) <= Share({y}, a, na) + Share({y}, b, nb) + Share({y}, a, 0)
    <3>1. ~Upper(y)
      BY <2>0, <2>1, Zenon DEF Upper
    <3>2. (y = a /\ Weight(y) = na) \/ (y = b /\ Weight(y) = nb)
      BY <3>1, Zenon DEF Lower
    <3>3. Share({y}, a, na) = (IF y = a THEN na ELSE 0) /\ Share({y}, b, nb) = (IF y = b THEN nb ELSE 0)
          /\ Share({y}, a, 0) = 0
      BY DEF Share
    <3>4. QED
      BY <3>2, <3>3
  <2>2. QED
    BY <1>1, <2>1, FieldAtMost
<1>3. QED
  BY <1>1, <1>2 DEF Caps

LEMMA SplitCaps ==
    /\ Caps(Split(4, {<<3, 1, 7>>, <<0, 3, 0>>}), 135)
    /\ Caps(Split(12, {<<8, 3, 28>>, <<0, 8, 16>>, <<11, 1, 10>>}), 1024)
    /\ Caps(Split(16, {<<8, 3, 28>>, <<0, 8, 16>>, <<11, 1, 10>>, <<12, 4, 0>>}), 1039)
    /\ Caps(Split(16, {<<0, 12, 16>>, <<12, 4, 0>>}), 15)
    /\ Caps(Branch(9, {<<1, 8, 0>>}), 255)
    /\ Caps(Branch(12, {<<1, 11, 0>>}), 2047)
    /\ Caps(Branch(21, {<<18, 1, 29>>, <<19, 1, 27>>, <<1, 11, 16>>, <<20, 1, 10>>, <<12, 6, 0>>}), 1087)
    /\ Caps(TwistedBranch(25, {<<23, 1, 29>>, <<22, 1, 27>>, <<1, 11, 16>>, <<24, 1, 10>>, <<12, 10, 0>>}), 2047)
    /\ Caps(Words(7, 6), 1984)
    /\ Caps(Words(10, 0), 255)
<1>1. Caps(Split(4, {<<3, 1, 7>>, <<0, 3, 0>>}), 135)
  <2> DEFINE a == <<3, 1, 7>>
             b == <<0, 3, 0>>
             f == Split(4, {a, b})
  <2>1. f.width = 4 /\ f.twisted = FALSE /\ f.pieces = {a, b}
    BY DEF Split, Field
  <2>2. InRange(a) /\ InRange(b)
    BY DEF InRange
  <2>3. Weight(a) = 128 /\ Weight(b) = 7
    BY DEF Weight
  <2> HIDE DEF a, b, f
  <2>4. f.pieces \in SUBSET {a, b, b, b, b, b}
    BY <2>1
  <2>5. IsFiniteSet(f.pieces)
    BY <2>4, FewAreFinite
  <2>6. Shaped(f)
    <3>1. f.width \in 1 .. 31 /\ f.width >= 3
      BY <2>1
    <3>2. QED
      BY <2>1, <2>5, <3>1, Zenon DEF Shaped
  <2>7. Lower(f, a, 128, b, 7)
    BY <2>1, <2>2, <2>3 DEF Lower
  <2>8. Caps(f, 128 + 7)
    BY <2>6, <2>7, PiecesCap
  <2>9. QED
    BY <2>8 DEF a, b, f
<1>2. Caps(Split(12, {<<8, 3, 28>>, <<0, 8, 16>>, <<11, 1, 10>>}), 1024)
  <2> DEFINE a == <<11, 1, 10>>
             b == <<8, 3, 28>>
             c == <<0, 8, 16>>
             f == Split(12, {b, c, a})
  <2>1. f.width = 12 /\ f.twisted = FALSE /\ f.pieces = {b, c, a}
    BY DEF Split, Field
  <2>2. InRange(a) /\ InRange(b) /\ InRange(c)
    BY DEF InRange
  <2>3. Weight(a) = 1024 /\ Upper(b) /\ Upper(c)
    BY DEF Weight, Upper
  <2> HIDE DEF a, b, c, f
  <2>4. f.pieces \in SUBSET {b, c, a, a, a, a}
    BY <2>1
  <2>5. IsFiniteSet(f.pieces)
    BY <2>4, FewAreFinite
  <2>6. Shaped(f)
    <3>1. f.width \in 1 .. 31 /\ f.width >= 3
      BY <2>1
    <3>2. QED
      BY <2>1, <2>5, <3>1, Zenon DEF Shaped
  <2>7. Lower(f, a, 1024, b, 0)
    BY <2>1, <2>2, <2>3 DEF Lower
  <2>8. Caps(f, 1024 + 0)
    BY <2>6, <2>7, PiecesCap
  <2>9. QED
    BY <2>8 DEF a, b, c, f
<1>3. Caps(Split(16, {<<8, 3, 28>>, <<0, 8, 16>>, <<11, 1, 10>>, <<12, 4, 0>>}), 1039)
  <2> DEFINE a == <<11, 1, 10>>
             b == <<12, 4, 0>>
             c == <<8, 3, 28>>
             d == <<0, 8, 16>>
             f == Split(16, {c, d, a, b})
  <2>1. f.width = 16 /\ f.twisted = FALSE /\ f.pieces = {c, d, a, b}
    BY DEF Split, Field
  <2>2. InRange(a) /\ InRange(b) /\ InRange(c) /\ InRange(d)
    BY DEF InRange
  <2>3. Weight(a) = 1024 /\ Weight(b) = 15 /\ Upper(c) /\ Upper(d)
    BY DEF Weight, Upper
  <2> HIDE DEF a, b, c, d, f
  <2>4. f.pieces \in SUBSET {c, d, a, b, b, b}
    BY <2>1
  <2>5. IsFiniteSet(f.pieces)
    BY <2>4, FewAreFinite
  <2>6. Shaped(f)
    <3>1. f.width \in 1 .. 31 /\ f.width >= 3
      BY <2>1
    <3>2. QED
      BY <2>1, <2>5, <3>1, Zenon DEF Shaped
  <2>7. Lower(f, a, 1024, b, 15)
    BY <2>1, <2>2, <2>3 DEF Lower
  <2>8. Caps(f, 1024 + 15)
    BY <2>6, <2>7, PiecesCap
  <2>9. QED
    BY <2>8 DEF a, b, c, d, f
<1>4. Caps(Split(16, {<<0, 12, 16>>, <<12, 4, 0>>}), 15)
  <2> DEFINE a == <<12, 4, 0>>
             b == <<0, 12, 16>>
             f == Split(16, {b, a})
  <2>1. f.width = 16 /\ f.twisted = FALSE /\ f.pieces = {b, a}
    BY DEF Split, Field
  <2>2. InRange(a) /\ InRange(b)
    BY DEF InRange
  <2>3. Weight(a) = 15 /\ Upper(b)
    BY DEF Weight, Upper
  <2> HIDE DEF a, b, f
  <2>4. f.pieces \in SUBSET {b, a, a, a, a, a}
    BY <2>1
  <2>5. IsFiniteSet(f.pieces)
    BY <2>4, FewAreFinite
  <2>6. Shaped(f)
    <3>1. f.width \in 1 .. 31 /\ f.width >= 3
      BY <2>1
    <3>2. QED
      BY <2>1, <2>5, <3>1, Zenon DEF Shaped
  <2>7. Lower(f, a, 15, b, 0)
    BY <2>1, <2>2, <2>3 DEF Lower
  <2>8. Caps(f, 15 + 0)
    BY <2>6, <2>7, PiecesCap
  <2>9. QED
    BY <2>8 DEF a, b, f
<1>5. Caps(Branch(9, {<<1, 8, 0>>}), 255)
  <2> DEFINE a == <<1, 8, 0>>
             f == Branch(9, {a})
  <2>1. f.width = 9 /\ f.twisted = FALSE /\ f.pieces = {a}
    BY DEF Branch, Field
  <2>2. InRange(a)
    BY DEF InRange
  <2>3. Weight(a) = 255
    BY DEF Weight
  <2> HIDE DEF a, f
  <2>4. f.pieces \in SUBSET {a, a, a, a, a, a}
    BY <2>1
  <2>5. IsFiniteSet(f.pieces)
    BY <2>4, FewAreFinite
  <2>6. Shaped(f)
    <3>1. f.width \in 1 .. 31 /\ f.width >= 3
      BY <2>1
    <3>2. QED
      BY <2>1, <2>5, <3>1, Zenon DEF Shaped
  <2>7. Lower(f, a, 255, a, 0)
    BY <2>1, <2>2, <2>3 DEF Lower
  <2>8. Caps(f, 255 + 0)
    BY <2>6, <2>7, PiecesCap
  <2>9. QED
    BY <2>8 DEF a, f
<1>6. Caps(Branch(12, {<<1, 11, 0>>}), 2047)
  <2> DEFINE a == <<1, 11, 0>>
             f == Branch(12, {a})
  <2>1. f.width = 12 /\ f.twisted = FALSE /\ f.pieces = {a}
    BY DEF Branch, Field
  <2>2. InRange(a)
    BY DEF InRange
  <2>3. Weight(a) = 2047
    BY DEF Weight
  <2> HIDE DEF a, f
  <2>4. f.pieces \in SUBSET {a, a, a, a, a, a}
    BY <2>1
  <2>5. IsFiniteSet(f.pieces)
    BY <2>4, FewAreFinite
  <2>6. Shaped(f)
    <3>1. f.width \in 1 .. 31 /\ f.width >= 3
      BY <2>1
    <3>2. QED
      BY <2>1, <2>5, <3>1, Zenon DEF Shaped
  <2>7. Lower(f, a, 2047, a, 0)
    BY <2>1, <2>2, <2>3 DEF Lower
  <2>8. Caps(f, 2047 + 0)
    BY <2>6, <2>7, PiecesCap
  <2>9. QED
    BY <2>8 DEF a, f
<1>7. Caps(Branch(21, {<<18, 1, 29>>, <<19, 1, 27>>, <<1, 11, 16>>, <<20, 1, 10>>, <<12, 6, 0>>}), 1087)
  <2> DEFINE a == <<20, 1, 10>>
             b == <<12, 6, 0>>
             c == <<18, 1, 29>>
             d == <<19, 1, 27>>
             e == <<1, 11, 16>>
             f == Branch(21, {c, d, e, a, b})
  <2>1. f.width = 21 /\ f.twisted = FALSE /\ f.pieces = {c, d, e, a, b}
    BY DEF Branch, Field
  <2>2. InRange(a) /\ InRange(b) /\ InRange(c) /\ InRange(d) /\ InRange(e)
    BY DEF InRange
  <2>3. Weight(a) = 1024 /\ Weight(b) = 63 /\ Upper(c) /\ Upper(d) /\ Upper(e)
    BY DEF Weight, Upper
  <2> HIDE DEF a, b, c, d, e, f
  <2>4. f.pieces \in SUBSET {c, d, e, a, b, b}
    BY <2>1
  <2>5. IsFiniteSet(f.pieces)
    BY <2>4, FewAreFinite
  <2>6. Shaped(f)
    <3>1. f.width \in 1 .. 31 /\ f.width >= 3
      BY <2>1
    <3>2. QED
      BY <2>1, <2>5, <3>1, Zenon DEF Shaped
  <2>7. Lower(f, a, 1024, b, 63)
    BY <2>1, <2>2, <2>3 DEF Lower
  <2>8. Caps(f, 1024 + 63)
    BY <2>6, <2>7, PiecesCap
  <2>9. QED
    BY <2>8 DEF a, b, c, d, e, f
<1>8. Caps(TwistedBranch(25, {<<23, 1, 29>>, <<22, 1, 27>>, <<1, 11, 16>>, <<24, 1, 10>>, <<12, 10, 0>>}), 2047)
  <2> DEFINE a == <<24, 1, 10>>
             b == <<12, 10, 0>>
             c == <<23, 1, 29>>
             d == <<22, 1, 27>>
             e == <<1, 11, 16>>
             f == TwistedBranch(25, {c, d, e, a, b})
  <2>1. f.width = 25 /\ f.twisted = TRUE /\ f.pieces = {c, d, e, a, b}
    BY DEF TwistedBranch, Branch, Field
  <2>2. InRange(a) /\ InRange(b) /\ InRange(c) /\ InRange(d) /\ InRange(e)
    BY DEF InRange
  <2>3. Weight(a) = 1024 /\ Weight(b) = 1023 /\ Upper(c) /\ Upper(d) /\ Upper(e)
    BY DEF Weight, Upper
  <2> HIDE DEF a, b, c, d, e, f
  <2>4. f.pieces \in SUBSET {c, d, e, a, b, b}
    BY <2>1
  <2>5. IsFiniteSet(f.pieces)
    BY <2>4, FewAreFinite
  <2>6. Shaped(f)
    <3>1. f.width \in 1 .. 31 /\ f.width >= 3
      BY <2>1
    <3>2. QED
      BY <2>1, <2>5, <3>1, Zenon DEF Shaped
  <2>7. Lower(f, a, 1024, b, 1023)
    BY <2>1, <2>2, <2>3 DEF Lower
  <2>8. Caps(f, 1024 + 1023)
    BY <2>6, <2>7, PiecesCap
  <2>9. QED
    BY <2>8 DEF a, b, c, d, e, f
<1>9. Caps(Words(7, 6), 1984)
  <2> DEFINE a == <<2, 5, 6>>
             f == Words(7, 6)
  <2>1. f.width = 7 /\ f.twisted = FALSE /\ f.pieces = {a}
    BY DEF Words, Field
  <2>2. InRange(a)
    BY DEF InRange
  <2>3. Weight(a) = 1984
    BY DEF Weight
  <2> HIDE DEF a, f
  <2>4. f.pieces \in SUBSET {a, a, a, a, a, a}
    BY <2>1
  <2>5. IsFiniteSet(f.pieces)
    BY <2>4, FewAreFinite
  <2>6. Shaped(f)
    <3>1. f.width \in 1 .. 31 /\ f.width >= 3
      BY <2>1
    <3>2. QED
      BY <2>1, <2>5, <3>1, Zenon DEF Shaped
  <2>7. Lower(f, a, 1984, a, 0)
    BY <2>1, <2>2, <2>3 DEF Lower
  <2>8. Caps(f, 1984 + 0)
    BY <2>6, <2>7, PiecesCap
  <2>9. QED
    BY <2>8 DEF a, f
<1>10. Caps(Words(10, 0), 255)
  <2> DEFINE a == <<2, 8, 0>>
             f == Words(10, 0)
  <2>1. f.width = 10 /\ f.twisted = FALSE /\ f.pieces = {a}
    BY DEF Words, Field
  <2>2. InRange(a)
    BY DEF InRange
  <2>3. Weight(a) = 255
    BY DEF Weight
  <2> HIDE DEF a, f
  <2>4. f.pieces \in SUBSET {a, a, a, a, a, a}
    BY <2>1
  <2>5. IsFiniteSet(f.pieces)
    BY <2>4, FewAreFinite
  <2>6. Shaped(f)
    <3>1. f.width \in 1 .. 31 /\ f.width >= 3
      BY <2>1
    <3>2. QED
      BY <2>1, <2>5, <3>1, Zenon DEF Shaped
  <2>7. Lower(f, a, 255, a, 0)
    BY <2>1, <2>2, <2>3 DEF Lower
  <2>8. Caps(f, 255 + 0)
    BY <2>6, <2>7, PiecesCap
  <2>9. QED
    BY <2>8 DEF a, f
<1>11. QED
  BY <1>1, <1>2, <1>3, <1>4, <1>5, <1>6, <1>7, <1>8, <1>9, <1>10

LEMMA BitsCaps ==
    /\ Caps(Bits(3, 0), 7)
    /\ Caps(Bits(4, 0), 15)
    /\ Caps(Bits(8, 0), 255)
    /\ Caps(Bits(3, 3), 56)
    /\ Caps(Bits(4, 3), 120)
    /\ Caps(Bits(1, 4), 16)
    /\ Caps(Bits(3, 6), 448)
    /\ Caps(Bits(4, 6), 960)
    /\ Caps(Bits(1, 7), 128)
    /\ Caps(Bits(1, 8), 256)
    /\ Caps(Bits(3, 8), 1792)
    /\ Caps(Bits(4, 8), 3840)
<1>1. Caps(Bits(3, 0), 7)
  <2>1. (2^3 - 1) * 2^0 = 7
    OBVIOUS
  <2>2. QED
    BY <2>1, BitsCap
<1>2. Caps(Bits(4, 0), 15)
  <2>1. (2^4 - 1) * 2^0 = 15
    OBVIOUS
  <2>2. QED
    BY <2>1, BitsCap
<1>3. Caps(Bits(8, 0), 255)
  <2>1. (2^8 - 1) * 2^0 = 255
    OBVIOUS
  <2>2. QED
    BY <2>1, BitsCap
<1>4. Caps(Bits(3, 3), 56)
  <2>1. (2^3 - 1) * 2^3 = 56
    OBVIOUS
  <2>2. QED
    BY <2>1, BitsCap
<1>5. Caps(Bits(4, 3), 120)
  <2>1. (2^4 - 1) * 2^3 = 120
    OBVIOUS
  <2>2. QED
    BY <2>1, BitsCap
<1>6. Caps(Bits(1, 4), 16)
  <2>1. (2^1 - 1) * 2^4 = 16
    OBVIOUS
  <2>2. QED
    BY <2>1, BitsCap
<1>7. Caps(Bits(3, 6), 448)
  <2>1. (2^3 - 1) * 2^6 = 448
    OBVIOUS
  <2>2. QED
    BY <2>1, BitsCap
<1>8. Caps(Bits(4, 6), 960)
  <2>1. (2^4 - 1) * 2^6 = 960
    OBVIOUS
  <2>2. QED
    BY <2>1, BitsCap
<1>9. Caps(Bits(1, 7), 128)
  <2>1. (2^1 - 1) * 2^7 = 128
    OBVIOUS
  <2>2. QED
    BY <2>1, BitsCap
<1>10. Caps(Bits(1, 8), 256)
  <2>1. (2^1 - 1) * 2^8 = 256
    OBVIOUS
  <2>2. QED
    BY <2>1, BitsCap
<1>11. Caps(Bits(3, 8), 1792)
  <2>1. (2^3 - 1) * 2^8 = 1792
    OBVIOUS
  <2>2. QED
    BY <2>1, BitsCap
<1>12. Caps(Bits(4, 8), 3840)
  <2>1. (2^4 - 1) * 2^8 = 3840
    OBVIOUS
  <2>2. QED
    BY <2>1, BitsCap
<1>13. QED
  BY <1>1, <1>2, <1>3, <1>4, <1>5, <1>6, <1>7, <1>8, <1>9, <1>10, <1>11, <1>12

LEMMA UpperCaps ==
    /\ Caps(Bits(4, 16), 0)
    /\ Caps(Bits(8, 16), 0)
    /\ Caps(Bits(12, 16), 0)
    /\ Caps(Bits(13, 16), 0)
    /\ Caps(Bits(2, 20), 0)
    /\ Caps(Bits(1, 24), 0)
    /\ Caps(Bits(4, 24), 0)
    /\ Caps(Bits(1, 25), 0)
    /\ Caps(Bits(1, 26), 0)
    /\ Caps(Bits(4, 28), 0)
    /\ Caps(Bits(1, 30), 0)
    /\ Caps(Bits(1, 31), 0)
  BY BitsNone

-----------------------------------------------------------------------------
(***************************************************************************)
(* An instruction of two halfwords starts with one from 16_E800 on, and one *)
(* of a single halfword is below.                                          *)
(***************************************************************************)
Border == 59392
Top    == 65535

Narrow(e) ==
    /\ DOMAIN e.base = {1}
    /\ \A parts : IntegerParts(e, parts) => Stored(e, parts, 1) \in 0 .. Border - 1

\* The fields of e are some that there can be.
WellFormedFields(e) ==
    IsFiniteSet(DOMAIN e.fields) /\ \A part \in DOMAIN e.fields : WellFormed(e.fields[part])

\* e has two halfwords, of which the first is from low to high.
Starts(e, low, high) ==
    /\ DOMAIN e.base = {1, 2} /\ e.base[2] \in Nat /\ WellFormedFields(e)
    /\ \A p : IntegerParts(e, p) => /\ Stored(e, p, 1) \in Nat
                                    /\ low <= Stored(e, p, 1) /\ Stored(e, p, 1) <= high

Wide(e) == Starts(e, Border, Top)

\* The names of the parts
Names ==
    {"imm3", "Rn", "Rd", "Rdn", "imm8", "imm12",
     "Rm", "cond", "simm8", "simm11", "simm21", "simm25",
     "imm7", "Rt", "imm10", "index", "add", "writeback",
     "lsl_shift_imm2", "imm16", "setflags", "pc", "regs", "lr"}

LEMMA NamesFinite == IsFiniteSet(Names)
<1>1. IsFiniteSet({"imm3", "Rn", "Rd", "Rdn", "imm8", "imm12"})
  BY FewAreFinite
<1>2. IsFiniteSet({"Rm", "cond", "simm8", "simm11", "simm21", "simm25"})
  BY FewAreFinite
<1>3. IsFiniteSet({"imm7", "Rt", "imm10", "index", "add", "writeback"})
  BY FewAreFinite
<1>4. IsFiniteSet({"lsl_shift_imm2", "imm16", "setflags", "pc", "regs", "lr"})
  BY FewAreFinite
<1> DEFINE A == {"imm3", "Rn", "Rd", "Rdn", "imm8", "imm12"}
           B1 == {"Rm", "cond", "simm8", "simm11", "simm21", "simm25"}
           C == {"imm7", "Rt", "imm10", "index", "add", "writeback"}
           D == {"lsl_shift_imm2", "imm16", "setflags", "pc", "regs", "lr"}
<1>5. Names = (A \cup B1) \cup (C \cup D)
  BY DEF Names
<1>6. IsFiniteSet(A) /\ IsFiniteSet(B1) /\ IsFiniteSet(C) /\ IsFiniteSet(D)
  BY <1>1, <1>2, <1>3, <1>4, Zenon
<1> HIDE DEF A, B1, C, D
<1>7. QED
  <2>1. IsFiniteSet(A \cup B1) /\ IsFiniteSet(C \cup D)
    BY <1>6, FS_Union
  <2>2. IsFiniteSet((A \cup B1) \cup (C \cup D))
    BY <2>1, FS_Union
  <2>3. QED
    BY <1>5, <2>2

\* In the first halfword the fields a, b and c of e have these caps.
Fields(e, a, na, b, nb, c, nc) ==
    /\ DOMAIN e.fields \in SUBSET Names
    /\ \A part \in DOMAIN e.fields :
           \/ part = a /\ Caps(e.fields[part], na)
           \/ part = b /\ Caps(e.fields[part], nb)
           \/ part = c /\ Caps(e.fields[part], nc)
           \/ Caps(e.fields[part], 0)

LEMMA FieldsAtMost ==
    ASSUME NEW e, NEW parts, IntegerParts(e, parts), NEW h \in Nat, e.base[1] = h,
           NEW a, NEW na \in Nat, NEW b, NEW nb \in Nat, NEW c, NEW nc \in Nat,
           Fields(e, a, na, b, nb, c, nc), NEW m \in Nat, h + na + nb + nc <= m
    PROVE  Stored(e, parts, 1) \in h .. m
<1>1. ASSUME NEW part \in DOMAIN e.fields
      PROVE  Caps(e.fields[part], Share({part}, a, na) + Share({part}, b, nb) + Share({part}, c, nc))
  <2> DEFINE n == Share({part}, a, na) + Share({part}, b, nb) + Share({part}, c, nc)
  <2>1. PICK k \in Nat : k <= n /\ Caps(e.fields[part], k)
    <3>1. n \in Nat /\ (part = a => na <= n) /\ (part = b => nb <= n) /\ (part = c => nc <= n)
      BY DEF Share
    <3> HIDE DEF n
    <3>2. QED
      BY <3>1 DEF Fields
  <2>2. n \in Nat
    BY DEF Share
  <2> HIDE DEF n
  <2>3. Caps(e.fields[part], n)
    BY <2>1, <2>2 DEF Caps
  <2>4. QED
    BY <2>3 DEF n
<1>2. IsFiniteSet(DOMAIN e.fields)
  <2>1. DOMAIN e.fields \in SUBSET Names
    BY DEF Fields
  <2>2. QED
    BY <2>1, NamesFinite, FS_Subset
<1>3. Stored(e, parts, 1) \in e.base[1] .. e.base[1] + na + nb + nc
  BY <1>1, <1>2, StoredAtMost
<1>4. \A x : x \in h .. h + na + nb + nc => x \in h .. m
  OBVIOUS
<1>5. Stored(e, parts, 1) \in h .. h + na + nb + nc
  BY <1>3, Zenon
<1>6. QED
  BY <1>4, <1>5, Zenon

NarrowMade(e, a, na, b, nb, c, nc) ==
    /\ DOMAIN e.base = {1} /\ e.base[1] \in Nat
    /\ na \in Nat /\ nb \in Nat /\ nc \in Nat
    /\ e.base[1] + na + nb + nc <= Border - 1
    /\ Fields(e, a, na, b, nb, c, nc)

LEMMA NarrowIsMade ==
    ASSUME NEW e, NEW a, NEW na, NEW b, NEW nb, NEW c, NEW nc,
           NarrowMade(e, a, na, b, nb, c, nc)
    PROVE  Narrow(e)
<1> DEFINE h == e.base[1]
<1>1. /\ DOMAIN e.base = {1} /\ h \in Nat
      /\ na \in Nat /\ nb \in Nat /\ nc \in Nat
      /\ h + na + nb + nc <= Border - 1
      /\ Fields(e, a, na, b, nb, c, nc)
  BY DEF NarrowMade
<1>2. Border - 1 \in Nat /\ Border \in Nat
  BY SMT DEF Border
<1>3. e.base[1] = h
  OBVIOUS
<1> HIDE DEF h
<1>4. ASSUME NEW parts, IntegerParts(e, parts)
      PROVE  Stored(e, parts, 1) \in h .. Border - 1
  BY <1>1, <1>2, <1>3, <1>4, FieldsAtMost, Zenon
<1>5. \A k, l, n \in Nat : l >= k => l .. n \subseteq k .. n
  OBVIOUS
<1>6. h .. Border - 1 \subseteq 0 .. Border - 1
  BY <1>1, <1>2, <1>5
<1>7. QED
  BY <1>1, <1>4, <1>6, Zenon DEF Narrow

WideMade(e, a, na, b, nb, c, nc) ==
    /\ DOMAIN e.base = {1, 2} /\ e.base[1] \in Nat /\ e.base[2] \in Nat
    /\ na \in Nat /\ nb \in Nat /\ nc \in Nat
    /\ Fields(e, a, na, b, nb, c, nc)

LEMMA WideStarts ==
    ASSUME NEW e, NEW a, NEW na, NEW b, NEW nb, NEW c, NEW nc,
           WideMade(e, a, na, b, nb, c, nc),
           NEW low, e.base[1] = low, NEW high, low + na + nb + nc = high
    PROVE  Starts(e, low, high)
<1>1. /\ DOMAIN e.base = {1, 2} /\ low \in Nat /\ e.base[2] \in Nat
      /\ na \in Nat /\ nb \in Nat /\ nc \in Nat
      /\ Fields(e, a, na, b, nb, c, nc)
  BY DEF WideMade
<1>2. high \in Nat /\ low + na + nb + nc <= high
  BY <1>1
<1>3. ASSUME NEW p, IntegerParts(e, p)
      PROVE  Stored(e, p, 1) \in low .. high
  BY <1>1, <1>2, <1>3, FieldsAtMost, Zenon
<1>4. \A x \in low .. high : x \in Nat /\ low <= x /\ x <= high
  BY <1>1, <1>2
<1>5. WellFormedFields(e)
  <2>1. DOMAIN e.fields \in SUBSET Names
    BY <1>1 DEF Fields
  <2>2. \A part \in DOMAIN e.fields : WellFormed(e.fields[part])
    BY <1>1, Zenon DEF Fields, Caps
  <2>3. QED
    BY <2>1, <2>2, NamesFinite, FS_Subset DEF WellFormedFields
<1>6. QED
  BY <1>1, <1>3, <1>4, <1>5, Zenon DEF Starts

LEMMA StartsIsWide ==
    ASSUME NEW e, NEW low \in Nat, NEW high \in Nat, Starts(e, low, high),
           Border <= low, high <= Top
    PROVE  Wide(e)
<1>1. Border \in Nat /\ Top \in Nat
  BY SMT DEF Border, Top
<1>2. \A x \in Nat : low <= x /\ x <= high => Border <= x /\ x <= Top
  BY <1>1
<1>3. QED
  BY <1>2, Zenon DEF Starts, Wide

LEMMA NarrowEncodings ==
    /\ Narrow(adds_i_t1) /\ DOMAIN adds_i_t1.fields = {"imm3", "Rn", "Rd"}
    /\ Narrow(adds_i_t2) /\ DOMAIN adds_i_t2.fields = {"Rdn", "imm8"}
    /\ Narrow(adds_r_t1) /\ DOMAIN adds_r_t1.fields = {"Rm", "Rn", "Rd"}
    /\ Narrow(add_r_t2) /\ DOMAIN add_r_t2.fields = {"Rdn", "Rm"}
    /\ Narrow(b_cond_t1_noit) /\ DOMAIN b_cond_t1_noit.fields = {"cond", "simm8"}
    /\ Narrow(b_t2) /\ DOMAIN b_t2.fields = {"simm11"}
    /\ Narrow(bkpt_t1) /\ DOMAIN bkpt_t1.fields = {"imm8"}
    /\ Narrow(blx_t1) /\ DOMAIN blx_t1.fields = {"Rm"}
    /\ Narrow(bx_t1) /\ DOMAIN bx_t1.fields = {"Rm"}
    /\ Narrow(cmp_i_t1) /\ DOMAIN cmp_i_t1.fields = {"Rn", "imm8"}
    /\ Narrow(cmp_r_t1) /\ DOMAIN cmp_r_t1.fields = {"Rm", "Rn"}
    /\ Narrow(cmp_r_t2) /\ DOMAIN cmp_r_t2.fields = {"Rn", "Rm"}
    /\ Narrow(ldr_i_t1) /\ DOMAIN ldr_i_t1.fields = {"imm7", "Rn", "Rt"}
    /\ Narrow(ldr_i_t2_sponly) /\ DOMAIN ldr_i_t2_sponly.fields = {"Rt", "imm10"}
    /\ Narrow(ldr_lit_t1) /\ DOMAIN ldr_lit_t1.fields = {"Rt", "imm10"}
    /\ Narrow(ldr_r_t1) /\ DOMAIN ldr_r_t1.fields = {"Rm", "Rn", "Rt"}
    /\ Narrow(nop_t1) /\ DOMAIN nop_t1.fields = {}
    /\ Narrow(movs_i_t1) /\ DOMAIN movs_i_t1.fields = {"Rd", "imm8"}
    /\ Narrow(mov_r_t1) /\ DOMAIN mov_r_t1.fields = {"Rd", "Rm"}
    /\ Narrow(movs_r_t2_noit) /\ DOMAIN movs_r_t2_noit.fields = {"Rm", "Rd"}
    /\ Narrow(pop_t1) /\ DOMAIN pop_t1.fields = {"pc", "regs"}
    /\ Narrow(push_t1) /\ DOMAIN push_t1.fields = {"lr", "regs"}
    /\ Narrow(subs_i_t1) /\ DOMAIN subs_i_t1.fields = {"imm3", "Rn", "Rd"}
    /\ Narrow(subs_i_t2) /\ DOMAIN subs_i_t2.fields = {"Rdn", "imm8"}
    /\ Narrow(subs_r_t1) /\ DOMAIN subs_r_t1.fields = {"Rm", "Rn", "Rd"}
    /\ Narrow(svc_t1) /\ DOMAIN svc_t1.fields = {"imm8"}
    /\ Narrow(udf_t1) /\ DOMAIN udf_t1.fields = {"imm8"}
<1>1. Narrow(adds_i_t1) /\ DOMAIN adds_i_t1.fields = {"imm3", "Rn", "Rd"}
  <2>1. /\ DOMAIN adds_i_t1.base = {1} /\ adds_i_t1.base[1] = 7168
        /\ DOMAIN adds_i_t1.fields = {"imm3", "Rn", "Rd"}
        /\ Caps(adds_i_t1.fields["imm3"], 448)
        /\ Caps(adds_i_t1.fields["Rn"], 56)
        /\ Caps(adds_i_t1.fields["Rd"], 7)
    BY BitsCaps DEF adds_i_t1, Encoding
  <2>2. Fields(adds_i_t1, "imm3", 448, "Rn", 56, "Rd", 7)
    BY <2>1 DEF Fields, Names
  <2>3. NarrowMade(adds_i_t1, "imm3", 448, "Rn", 56, "Rd", 7)
    BY <2>1, <2>2, SMT DEF NarrowMade, Border
  <2>4. QED
    BY <2>1, <2>3, NarrowIsMade
<1>2. Narrow(adds_i_t2) /\ DOMAIN adds_i_t2.fields = {"Rdn", "imm8"}
  <2>1. /\ DOMAIN adds_i_t2.base = {1} /\ adds_i_t2.base[1] = 12288
        /\ DOMAIN adds_i_t2.fields = {"Rdn", "imm8"}
        /\ Caps(adds_i_t2.fields["Rdn"], 1792)
        /\ Caps(adds_i_t2.fields["imm8"], 255)
    BY BitsCaps DEF adds_i_t2, Encoding
  <2>2. Fields(adds_i_t2, "Rdn", 1792, "imm8", 255, "none", 0)
    BY <2>1 DEF Fields, Names
  <2>3. NarrowMade(adds_i_t2, "Rdn", 1792, "imm8", 255, "none", 0)
    BY <2>1, <2>2, SMT DEF NarrowMade, Border
  <2>4. QED
    BY <2>1, <2>3, NarrowIsMade
<1>3. Narrow(adds_r_t1) /\ DOMAIN adds_r_t1.fields = {"Rm", "Rn", "Rd"}
  <2>1. /\ DOMAIN adds_r_t1.base = {1} /\ adds_r_t1.base[1] = 6144
        /\ DOMAIN adds_r_t1.fields = {"Rm", "Rn", "Rd"}
        /\ Caps(adds_r_t1.fields["Rm"], 448)
        /\ Caps(adds_r_t1.fields["Rn"], 56)
        /\ Caps(adds_r_t1.fields["Rd"], 7)
    BY BitsCaps DEF adds_r_t1, Encoding
  <2>2. Fields(adds_r_t1, "Rm", 448, "Rn", 56, "Rd", 7)
    BY <2>1 DEF Fields, Names
  <2>3. NarrowMade(adds_r_t1, "Rm", 448, "Rn", 56, "Rd", 7)
    BY <2>1, <2>2, SMT DEF NarrowMade, Border
  <2>4. QED
    BY <2>1, <2>3, NarrowIsMade
<1>4. Narrow(add_r_t2) /\ DOMAIN add_r_t2.fields = {"Rdn", "Rm"}
  <2>1. /\ DOMAIN add_r_t2.base = {1} /\ add_r_t2.base[1] = 17408
        /\ DOMAIN add_r_t2.fields = {"Rdn", "Rm"}
        /\ Caps(add_r_t2.fields["Rdn"], 135)
        /\ Caps(add_r_t2.fields["Rm"], 120)
    BY BitsCaps, SplitCaps DEF add_r_t2, Encoding
  <2>2. Fields(add_r_t2, "Rdn", 135, "Rm", 120, "none", 0)
    BY <2>1 DEF Fields, Names
  <2>3. NarrowMade(add_r_t2, "Rdn", 135, "Rm", 120, "none", 0)
    BY <2>1, <2>2, SMT DEF NarrowMade, Border
  <2>4. QED
    BY <2>1, <2>3, NarrowIsMade
<1>5. Narrow(b_cond_t1_noit) /\ DOMAIN b_cond_t1_noit.fields = {"cond", "simm8"}
  <2>1. /\ DOMAIN b_cond_t1_noit.base = {1} /\ b_cond_t1_noit.base[1] = 53248
        /\ DOMAIN b_cond_t1_noit.fields = {"cond", "simm8"}
        /\ Caps(b_cond_t1_noit.fields["cond"], 3840)
        /\ Caps(b_cond_t1_noit.fields["simm8"], 255)
    BY BitsCaps, SplitCaps DEF b_cond_t1_noit, Encoding
  <2>2. Fields(b_cond_t1_noit, "cond", 3840, "simm8", 255, "none", 0)
    BY <2>1 DEF Fields, Names
  <2>3. NarrowMade(b_cond_t1_noit, "cond", 3840, "simm8", 255, "none", 0)
    BY <2>1, <2>2, SMT DEF NarrowMade, Border
  <2>4. QED
    BY <2>1, <2>3, NarrowIsMade
<1>6. Narrow(b_t2) /\ DOMAIN b_t2.fields = {"simm11"}
  <2>1. /\ DOMAIN b_t2.base = {1} /\ b_t2.base[1] = 57344
        /\ DOMAIN b_t2.fields = {"simm11"}
        /\ Caps(b_t2.fields["simm11"], 2047)
    BY SplitCaps DEF b_t2, Encoding
  <2>2. Fields(b_t2, "simm11", 2047, "none", 0, "none", 0)
    BY <2>1 DEF Fields, Names
  <2>3. NarrowMade(b_t2, "simm11", 2047, "none", 0, "none", 0)
    BY <2>1, <2>2, SMT DEF NarrowMade, Border
  <2>4. QED
    BY <2>1, <2>3, NarrowIsMade
<1>7. Narrow(bkpt_t1) /\ DOMAIN bkpt_t1.fields = {"imm8"}
  <2>1. /\ DOMAIN bkpt_t1.base = {1} /\ bkpt_t1.base[1] = 48640
        /\ DOMAIN bkpt_t1.fields = {"imm8"}
        /\ Caps(bkpt_t1.fields["imm8"], 255)
    BY BitsCaps DEF bkpt_t1, Encoding
  <2>2. Fields(bkpt_t1, "imm8", 255, "none", 0, "none", 0)
    BY <2>1 DEF Fields, Names
  <2>3. NarrowMade(bkpt_t1, "imm8", 255, "none", 0, "none", 0)
    BY <2>1, <2>2, SMT DEF NarrowMade, Border
  <2>4. QED
    BY <2>1, <2>3, NarrowIsMade
<1>8. Narrow(blx_t1) /\ DOMAIN blx_t1.fields = {"Rm"}
  <2>1. /\ DOMAIN blx_t1.base = {1} /\ blx_t1.base[1] = 18304
        /\ DOMAIN blx_t1.fields = {"Rm"}
        /\ Caps(blx_t1.fields["Rm"], 120)
    BY BitsCaps DEF blx_t1, Encoding
  <2>2. Fields(blx_t1, "Rm", 120, "none", 0, "none", 0)
    BY <2>1 DEF Fields, Names
  <2>3. NarrowMade(blx_t1, "Rm", 120, "none", 0, "none", 0)
    BY <2>1, <2>2, SMT DEF NarrowMade, Border
  <2>4. QED
    BY <2>1, <2>3, NarrowIsMade
<1>9. Narrow(bx_t1) /\ DOMAIN bx_t1.fields = {"Rm"}
  <2>1. /\ DOMAIN bx_t1.base = {1} /\ bx_t1.base[1] = 18176
        /\ DOMAIN bx_t1.fields = {"Rm"}
        /\ Caps(bx_t1.fields["Rm"], 120)
    BY BitsCaps DEF bx_t1, Encoding
  <2>2. Fields(bx_t1, "Rm", 120, "none", 0, "none", 0)
    BY <2>1 DEF Fields, Names
  <2>3. NarrowMade(bx_t1, "Rm", 120, "none", 0, "none", 0)
    BY <2>1, <2>2, SMT DEF NarrowMade, Border
  <2>4. QED
    BY <2>1, <2>3, NarrowIsMade
<1>10. Narrow(cmp_i_t1) /\ DOMAIN cmp_i_t1.fields = {"Rn", "imm8"}
  <2>1. /\ DOMAIN cmp_i_t1.base = {1} /\ cmp_i_t1.base[1] = 10240
        /\ DOMAIN cmp_i_t1.fields = {"Rn", "imm8"}
        /\ Caps(cmp_i_t1.fields["Rn"], 1792)
        /\ Caps(cmp_i_t1.fields["imm8"], 255)
    BY BitsCaps DEF cmp_i_t1, Encoding
  <2>2. Fields(cmp_i_t1, "Rn", 1792, "imm8", 255, "none", 0)
    BY <2>1 DEF Fields, Names
  <2>3. NarrowMade(cmp_i_t1, "Rn", 1792, "imm8", 255, "none", 0)
    BY <2>1, <2>2, SMT DEF NarrowMade, Border
  <2>4. QED
    BY <2>1, <2>3, NarrowIsMade
<1>11. Narrow(cmp_r_t1) /\ DOMAIN cmp_r_t1.fields = {"Rm", "Rn"}
  <2>1. /\ DOMAIN cmp_r_t1.base = {1} /\ cmp_r_t1.base[1] = 17024
        /\ DOMAIN cmp_r_t1.fields = {"Rm", "Rn"}
        /\ Caps(cmp_r_t1.fields["Rm"], 56)
        /\ Caps(cmp_r_t1.fields["Rn"], 7)
    BY BitsCaps DEF cmp_r_t1, Encoding
  <2>2. Fields(cmp_r_t1, "Rm", 56, "Rn", 7, "none", 0)
    BY <2>1 DEF Fields, Names
  <2>3. NarrowMade(cmp_r_t1, "Rm", 56, "Rn", 7, "none", 0)
    BY <2>1, <2>2, SMT DEF NarrowMade, Border
  <2>4. QED
    BY <2>1, <2>3, NarrowIsMade
<1>12. Narrow(cmp_r_t2) /\ DOMAIN cmp_r_t2.fields = {"Rn", "Rm"}
  <2>1. /\ DOMAIN cmp_r_t2.base = {1} /\ cmp_r_t2.base[1] = 17664
        /\ DOMAIN cmp_r_t2.fields = {"Rn", "Rm"}
        /\ Caps(cmp_r_t2.fields["Rn"], 135)
        /\ Caps(cmp_r_t2.fields["Rm"], 120)
    BY BitsCaps, SplitCaps DEF cmp_r_t2, Encoding
  <2>2. Fields(cmp_r_t2, "Rn", 135, "Rm", 120, "none", 0)
    BY <2>1 DEF Fields, Names
  <2>3. NarrowMade(cmp_r_t2, "Rn", 135, "Rm", 120, "none", 0)
    BY <2>1, <2>2, SMT DEF NarrowMade, Border
  <2>4. QED
    BY <2>1, <2>3, NarrowIsMade
<1>13. Narrow(ldr_i_t1) /\ DOMAIN ldr_i_t1.fields = {"imm7", "Rn", "Rt"}
  <2>1. /\ DOMAIN ldr_i_t1.base = {1} /\ ldr_i_t1.base[1] = 26624
        /\ DOMAIN ldr_i_t1.fields = {"imm7", "Rn", "Rt"}
        /\ Caps(ldr_i_t1.fields["imm7"], 1984)
        /\ Caps(ldr_i_t1.fields["Rn"], 56)
        /\ Caps(ldr_i_t1.fields["Rt"], 7)
    BY BitsCaps, SplitCaps DEF ldr_i_t1, Encoding
  <2>2. Fields(ldr_i_t1, "imm7", 1984, "Rn", 56, "Rt", 7)
    BY <2>1 DEF Fields, Names
  <2>3. NarrowMade(ldr_i_t1, "imm7", 1984, "Rn", 56, "Rt", 7)
    BY <2>1, <2>2, SMT DEF NarrowMade, Border
  <2>4. QED
    BY <2>1, <2>3, NarrowIsMade
<1>14. Narrow(ldr_i_t2_sponly) /\ DOMAIN ldr_i_t2_sponly.fields = {"Rt", "imm10"}
  <2>1. /\ DOMAIN ldr_i_t2_sponly.base = {1} /\ ldr_i_t2_sponly.base[1] = 38912
        /\ DOMAIN ldr_i_t2_sponly.fields = {"Rt", "imm10"}
        /\ Caps(ldr_i_t2_sponly.fields["Rt"], 1792)
        /\ Caps(ldr_i_t2_sponly.fields["imm10"], 255)
    BY BitsCaps, SplitCaps DEF ldr_i_t2_sponly, Encoding
  <2>2. Fields(ldr_i_t2_sponly, "Rt", 1792, "imm10", 255, "none", 0)
    BY <2>1 DEF Fields, Names
  <2>3. NarrowMade(ldr_i_t2_sponly, "Rt", 1792, "imm10", 255, "none", 0)
    BY <2>1, <2>2, SMT DEF NarrowMade, Border
  <2>4. QED
    BY <2>1, <2>3, NarrowIsMade
<1>15. Narrow(ldr_lit_t1) /\ DOMAIN ldr_lit_t1.fields = {"Rt", "imm10"}
  <2>1. /\ DOMAIN ldr_lit_t1.base = {1} /\ ldr_lit_t1.base[1] = 18432
        /\ DOMAIN ldr_lit_t1.fields = {"Rt", "imm10"}
        /\ Caps(ldr_lit_t1.fields["Rt"], 1792)
        /\ Caps(ldr_lit_t1.fields["imm10"], 255)
    BY BitsCaps, SplitCaps DEF ldr_lit_t1, Encoding
  <2>2. Fields(ldr_lit_t1, "Rt", 1792, "imm10", 255, "none", 0)
    BY <2>1 DEF Fields, Names
  <2>3. NarrowMade(ldr_lit_t1, "Rt", 1792, "imm10", 255, "none", 0)
    BY <2>1, <2>2, SMT DEF NarrowMade, Border
  <2>4. QED
    BY <2>1, <2>3, NarrowIsMade
<1>16. Narrow(ldr_r_t1) /\ DOMAIN ldr_r_t1.fields = {"Rm", "Rn", "Rt"}
  <2>1. /\ DOMAIN ldr_r_t1.base = {1} /\ ldr_r_t1.base[1] = 22528
        /\ DOMAIN ldr_r_t1.fields = {"Rm", "Rn", "Rt"}
        /\ Caps(ldr_r_t1.fields["Rm"], 448)
        /\ Caps(ldr_r_t1.fields["Rn"], 56)
        /\ Caps(ldr_r_t1.fields["Rt"], 7)
    BY BitsCaps DEF ldr_r_t1, Encoding
  <2>2. Fields(ldr_r_t1, "Rm", 448, "Rn", 56, "Rt", 7)
    BY <2>1 DEF Fields, Names
  <2>3. NarrowMade(ldr_r_t1, "Rm", 448, "Rn", 56, "Rt", 7)
    BY <2>1, <2>2, SMT DEF NarrowMade, Border
  <2>4. QED
    BY <2>1, <2>3, NarrowIsMade
<1>17. Narrow(nop_t1) /\ DOMAIN nop_t1.fields = {}
  <2>1. /\ DOMAIN nop_t1.base = {1} /\ nop_t1.base[1] = 48896
        /\ DOMAIN nop_t1.fields = {}
    BY  DEF nop_t1, Encoding
  <2>2. Fields(nop_t1, "none", 0, "none", 0, "none", 0)
    BY <2>1 DEF Fields, Names
  <2>3. NarrowMade(nop_t1, "none", 0, "none", 0, "none", 0)
    BY <2>1, <2>2, SMT DEF NarrowMade, Border
  <2>4. QED
    BY <2>1, <2>3, NarrowIsMade
<1>18. Narrow(movs_i_t1) /\ DOMAIN movs_i_t1.fields = {"Rd", "imm8"}
  <2>1. /\ DOMAIN movs_i_t1.base = {1} /\ movs_i_t1.base[1] = 8192
        /\ DOMAIN movs_i_t1.fields = {"Rd", "imm8"}
        /\ Caps(movs_i_t1.fields["Rd"], 1792)
        /\ Caps(movs_i_t1.fields["imm8"], 255)
    BY BitsCaps DEF movs_i_t1, Encoding
  <2>2. Fields(movs_i_t1, "Rd", 1792, "imm8", 255, "none", 0)
    BY <2>1 DEF Fields, Names
  <2>3. NarrowMade(movs_i_t1, "Rd", 1792, "imm8", 255, "none", 0)
    BY <2>1, <2>2, SMT DEF NarrowMade, Border
  <2>4. QED
    BY <2>1, <2>3, NarrowIsMade
<1>19. Narrow(mov_r_t1) /\ DOMAIN mov_r_t1.fields = {"Rd", "Rm"}
  <2>1. /\ DOMAIN mov_r_t1.base = {1} /\ mov_r_t1.base[1] = 17920
        /\ DOMAIN mov_r_t1.fields = {"Rd", "Rm"}
        /\ Caps(mov_r_t1.fields["Rd"], 135)
        /\ Caps(mov_r_t1.fields["Rm"], 120)
    BY BitsCaps, SplitCaps DEF mov_r_t1, Encoding
  <2>2. Fields(mov_r_t1, "Rd", 135, "Rm", 120, "none", 0)
    BY <2>1 DEF Fields, Names
  <2>3. NarrowMade(mov_r_t1, "Rd", 135, "Rm", 120, "none", 0)
    BY <2>1, <2>2, SMT DEF NarrowMade, Border
  <2>4. QED
    BY <2>1, <2>3, NarrowIsMade
<1>20. Narrow(movs_r_t2_noit) /\ DOMAIN movs_r_t2_noit.fields = {"Rm", "Rd"}
  <2>1. /\ DOMAIN movs_r_t2_noit.base = {1} /\ movs_r_t2_noit.base[1] = 0
        /\ DOMAIN movs_r_t2_noit.fields = {"Rm", "Rd"}
        /\ Caps(movs_r_t2_noit.fields["Rm"], 56)
        /\ Caps(movs_r_t2_noit.fields["Rd"], 7)
    BY BitsCaps DEF movs_r_t2_noit, Encoding
  <2>2. Fields(movs_r_t2_noit, "Rm", 56, "Rd", 7, "none", 0)
    BY <2>1 DEF Fields, Names
  <2>3. NarrowMade(movs_r_t2_noit, "Rm", 56, "Rd", 7, "none", 0)
    BY <2>1, <2>2, SMT DEF NarrowMade, Border
  <2>4. QED
    BY <2>1, <2>3, NarrowIsMade
<1>21. Narrow(pop_t1) /\ DOMAIN pop_t1.fields = {"pc", "regs"}
  <2>1. /\ DOMAIN pop_t1.base = {1} /\ pop_t1.base[1] = 48128
        /\ DOMAIN pop_t1.fields = {"pc", "regs"}
        /\ Caps(pop_t1.fields["pc"], 256)
        /\ Caps(pop_t1.fields["regs"], 255)
    BY BitsCaps DEF pop_t1, Encoding
  <2>2. Fields(pop_t1, "pc", 256, "regs", 255, "none", 0)
    BY <2>1 DEF Fields, Names
  <2>3. NarrowMade(pop_t1, "pc", 256, "regs", 255, "none", 0)
    BY <2>1, <2>2, SMT DEF NarrowMade, Border
  <2>4. QED
    BY <2>1, <2>3, NarrowIsMade
<1>22. Narrow(push_t1) /\ DOMAIN push_t1.fields = {"lr", "regs"}
  <2>1. /\ DOMAIN push_t1.base = {1} /\ push_t1.base[1] = 46080
        /\ DOMAIN push_t1.fields = {"lr", "regs"}
        /\ Caps(push_t1.fields["lr"], 256)
        /\ Caps(push_t1.fields["regs"], 255)
    BY BitsCaps DEF push_t1, Encoding
  <2>2. Fields(push_t1, "lr", 256, "regs", 255, "none", 0)
    BY <2>1 DEF Fields, Names
  <2>3. NarrowMade(push_t1, "lr", 256, "regs", 255, "none", 0)
    BY <2>1, <2>2, SMT DEF NarrowMade, Border
  <2>4. QED
    BY <2>1, <2>3, NarrowIsMade
<1>23. Narrow(subs_i_t1) /\ DOMAIN subs_i_t1.fields = {"imm3", "Rn", "Rd"}
  <2>1. /\ DOMAIN subs_i_t1.base = {1} /\ subs_i_t1.base[1] = 7680
        /\ DOMAIN subs_i_t1.fields = {"imm3", "Rn", "Rd"}
        /\ Caps(subs_i_t1.fields["imm3"], 448)
        /\ Caps(subs_i_t1.fields["Rn"], 56)
        /\ Caps(subs_i_t1.fields["Rd"], 7)
    BY BitsCaps DEF subs_i_t1, Encoding
  <2>2. Fields(subs_i_t1, "imm3", 448, "Rn", 56, "Rd", 7)
    BY <2>1 DEF Fields, Names
  <2>3. NarrowMade(subs_i_t1, "imm3", 448, "Rn", 56, "Rd", 7)
    BY <2>1, <2>2, SMT DEF NarrowMade, Border
  <2>4. QED
    BY <2>1, <2>3, NarrowIsMade
<1>24. Narrow(subs_i_t2) /\ DOMAIN subs_i_t2.fields = {"Rdn", "imm8"}
  <2>1. /\ DOMAIN subs_i_t2.base = {1} /\ subs_i_t2.base[1] = 14336
        /\ DOMAIN subs_i_t2.fields = {"Rdn", "imm8"}
        /\ Caps(subs_i_t2.fields["Rdn"], 1792)
        /\ Caps(subs_i_t2.fields["imm8"], 255)
    BY BitsCaps DEF subs_i_t2, Encoding
  <2>2. Fields(subs_i_t2, "Rdn", 1792, "imm8", 255, "none", 0)
    BY <2>1 DEF Fields, Names
  <2>3. NarrowMade(subs_i_t2, "Rdn", 1792, "imm8", 255, "none", 0)
    BY <2>1, <2>2, SMT DEF NarrowMade, Border
  <2>4. QED
    BY <2>1, <2>3, NarrowIsMade
<1>25. Narrow(subs_r_t1) /\ DOMAIN subs_r_t1.fields = {"Rm", "Rn", "Rd"}
  <2>1. /\ DOMAIN subs_r_t1.base = {1} /\ subs_r_t1.base[1] = 6656
        /\ DOMAIN subs_r_t1.fields = {"Rm", "Rn", "Rd"}
        /\ Caps(subs_r_t1.fields["Rm"], 448)
        /\ Caps(subs_r_t1.fields["Rn"], 56)
        /\ Caps(subs_r_t1.fields["Rd"], 7)
    BY BitsCaps DEF subs_r_t1, Encoding
  <2>2. Fields(subs_r_t1, "Rm", 448, "Rn", 56, "Rd", 7)
    BY <2>1 DEF Fields, Names
  <2>3. NarrowMade(subs_r_t1, "Rm", 448, "Rn", 56, "Rd", 7)
    BY <2>1, <2>2, SMT DEF NarrowMade, Border
  <2>4. QED
    BY <2>1, <2>3, NarrowIsMade
<1>26. Narrow(svc_t1) /\ DOMAIN svc_t1.fields = {"imm8"}
  <2>1. /\ DOMAIN svc_t1.base = {1} /\ svc_t1.base[1] = 57088
        /\ DOMAIN svc_t1.fields = {"imm8"}
        /\ Caps(svc_t1.fields["imm8"], 255)
    BY BitsCaps DEF svc_t1, Encoding
  <2>2. Fields(svc_t1, "imm8", 255, "none", 0, "none", 0)
    BY <2>1 DEF Fields, Names
  <2>3. NarrowMade(svc_t1, "imm8", 255, "none", 0, "none", 0)
    BY <2>1, <2>2, SMT DEF NarrowMade, Border
  <2>4. QED
    BY <2>1, <2>3, NarrowIsMade
<1>27. Narrow(udf_t1) /\ DOMAIN udf_t1.fields = {"imm8"}
  <2>1. /\ DOMAIN udf_t1.base = {1} /\ udf_t1.base[1] = 56832
        /\ DOMAIN udf_t1.fields = {"imm8"}
        /\ Caps(udf_t1.fields["imm8"], 255)
    BY BitsCaps DEF udf_t1, Encoding
  <2>2. Fields(udf_t1, "imm8", 255, "none", 0, "none", 0)
    BY <2>1 DEF Fields, Names
  <2>3. NarrowMade(udf_t1, "imm8", 255, "none", 0, "none", 0)
    BY <2>1, <2>2, SMT DEF NarrowMade, Border
  <2>4. QED
    BY <2>1, <2>3, NarrowIsMade
<1>28. QED
  BY <1>1, <1>2, <1>3, <1>4, <1>5, <1>6, <1>7, <1>8, <1>9, <1>10, <1>11, <1>12,
     <1>13, <1>14, <1>15, <1>16, <1>17, <1>18, <1>19, <1>20, <1>21, <1>22, <1>23, <1>24,
     <1>25, <1>26, <1>27, Zenon

\* The wide encodings, with the range of each one's first halfword
LEMMA FirstHalfwords ==
    /\ Starts(addw_i_t4, 61952, 62991)
    /\ DOMAIN addw_i_t4.fields = {"imm12", "Rd", "Rn"}
    /\ Starts(b_cond_t3_noit, 61440, 63487)
    /\ DOMAIN b_cond_t3_noit.fields = {"simm21", "cond"}
    /\ Starts(b_t4, 61440, 63487)
    /\ DOMAIN b_t4.fields = {"simm25"}
    /\ Starts(bl_t1, 61440, 63487)
    /\ DOMAIN bl_t1.fields = {"simm25"}
    /\ Starts(ldr_i_t3, 63696, 63711)
    /\ DOMAIN ldr_i_t3.fields = {"Rt", "imm12", "Rn"}
    /\ Starts(ldr_i_t4, 63568, 63583)
    /\ DOMAIN ldr_i_t4.fields = {"Rt", "index", "add", "writeback", "imm8", "Rn"}
    /\ Starts(ldr_lit_t2, 63583, 63711)
    /\ DOMAIN ldr_lit_t2.fields = {"Rt", "imm12", "add"}
    /\ Starts(ldr_r_t2_lsl, 63568, 63583)
    /\ DOMAIN ldr_r_t2_lsl.fields = {"Rt", "lsl_shift_imm2", "Rm", "Rn"}
    /\ Starts(nop_t2, 62383, 62383)
    /\ DOMAIN nop_t2.fields = {}
    /\ Starts(movw_i_t3, 62016, 63055)
    /\ DOMAIN movw_i_t3.fields = {"imm16", "Rd"}
    /\ Starts(mov_r_t3_opt_s, 59983, 59999)
    /\ DOMAIN mov_r_t3_opt_s.fields = {"Rd", "Rm", "setflags"}
    /\ Starts(pop_t2, 59581, 59581)
    /\ DOMAIN pop_t2.fields = {"pc", "lr", "regs"}
    /\ Starts(pop_t3, 63581, 63581)
    /\ DOMAIN pop_t3.fields = {"Rt"}
    /\ Starts(push_t2, 59693, 59693)
    /\ DOMAIN push_t2.fields = {"lr", "regs"}
    /\ Starts(push_t3, 63565, 63565)
    /\ DOMAIN push_t3.fields = {"Rt"}
    /\ Starts(subw_i_t4, 62112, 63151)
    /\ DOMAIN subw_i_t4.fields = {"imm12", "Rd", "Rn"}
    /\ Starts(udf_t2, 63472, 63487)
    /\ DOMAIN udf_t2.fields = {"imm16"}
<1>1. Starts(addw_i_t4, 61952, 62991) /\ DOMAIN addw_i_t4.fields = {"imm12", "Rd", "Rn"}
  <2>1. /\ DOMAIN addw_i_t4.base = {1, 2} /\ addw_i_t4.base[1] = 61952 /\ addw_i_t4.base[2] = 0
        /\ DOMAIN addw_i_t4.fields = {"imm12", "Rd", "Rn"}
        /\ Caps(addw_i_t4.fields["imm12"], 1024)
        /\ Caps(addw_i_t4.fields["Rd"], 0)
        /\ Caps(addw_i_t4.fields["Rn"], 15)
    BY BitsCaps, SplitCaps, UpperCaps DEF addw_i_t4, Encoding
  <2>2. Fields(addw_i_t4, "imm12", 1024, "Rn", 15, "none", 0)
    BY <2>1 DEF Fields, Names
  <2>3. WideMade(addw_i_t4, "imm12", 1024, "Rn", 15, "none", 0)
    BY <2>1, <2>2, SMT DEF WideMade
  <2>4. 61952 + 1024 + 15 + 0 = 62991
    OBVIOUS
  <2>5. QED
    BY <2>1, <2>3, <2>4, WideStarts, SMT
<1>2. Starts(b_cond_t3_noit, 61440, 63487) /\ DOMAIN b_cond_t3_noit.fields = {"simm21", "cond"}
  <2>1. /\ DOMAIN b_cond_t3_noit.base = {1, 2} /\ b_cond_t3_noit.base[1] = 61440 /\ b_cond_t3_noit.base[2] = 32768
        /\ DOMAIN b_cond_t3_noit.fields = {"simm21", "cond"}
        /\ Caps(b_cond_t3_noit.fields["simm21"], 1087)
        /\ Caps(b_cond_t3_noit.fields["cond"], 960)
    BY BitsCaps, SplitCaps DEF b_cond_t3_noit, Encoding
  <2>2. Fields(b_cond_t3_noit, "simm21", 1087, "cond", 960, "none", 0)
    BY <2>1 DEF Fields, Names
  <2>3. WideMade(b_cond_t3_noit, "simm21", 1087, "cond", 960, "none", 0)
    BY <2>1, <2>2, SMT DEF WideMade
  <2>4. 61440 + 1087 + 960 + 0 = 63487
    OBVIOUS
  <2>5. QED
    BY <2>1, <2>3, <2>4, WideStarts, SMT
<1>3. Starts(b_t4, 61440, 63487) /\ DOMAIN b_t4.fields = {"simm25"}
  <2>1. /\ DOMAIN b_t4.base = {1, 2} /\ b_t4.base[1] = 61440 /\ b_t4.base[2] = 36864
        /\ DOMAIN b_t4.fields = {"simm25"}
        /\ Caps(b_t4.fields["simm25"], 2047)
    BY SplitCaps DEF b_t4, Encoding
  <2>2. Fields(b_t4, "simm25", 2047, "none", 0, "none", 0)
    BY <2>1 DEF Fields, Names
  <2>3. WideMade(b_t4, "simm25", 2047, "none", 0, "none", 0)
    BY <2>1, <2>2, SMT DEF WideMade
  <2>4. 61440 + 2047 + 0 + 0 = 63487
    OBVIOUS
  <2>5. QED
    BY <2>1, <2>3, <2>4, WideStarts, SMT
<1>4. Starts(bl_t1, 61440, 63487) /\ DOMAIN bl_t1.fields = {"simm25"}
  <2>1. /\ DOMAIN bl_t1.base = {1, 2} /\ bl_t1.base[1] = 61440 /\ bl_t1.base[2] = 53248
        /\ DOMAIN bl_t1.fields = {"simm25"}
        /\ Caps(bl_t1.fields["simm25"], 2047)
    BY SplitCaps DEF bl_t1, Encoding
  <2>2. Fields(bl_t1, "simm25", 2047, "none", 0, "none", 0)
    BY <2>1 DEF Fields, Names
  <2>3. WideMade(bl_t1, "simm25", 2047, "none", 0, "none", 0)
    BY <2>1, <2>2, SMT DEF WideMade
  <2>4. 61440 + 2047 + 0 + 0 = 63487
    OBVIOUS
  <2>5. QED
    BY <2>1, <2>3, <2>4, WideStarts, SMT
<1>5. Starts(ldr_i_t3, 63696, 63711) /\ DOMAIN ldr_i_t3.fields = {"Rt", "imm12", "Rn"}
  <2>1. /\ DOMAIN ldr_i_t3.base = {1, 2} /\ ldr_i_t3.base[1] = 63696 /\ ldr_i_t3.base[2] = 0
        /\ DOMAIN ldr_i_t3.fields = {"Rt", "imm12", "Rn"}
        /\ Caps(ldr_i_t3.fields["Rt"], 0)
        /\ Caps(ldr_i_t3.fields["imm12"], 0)
        /\ Caps(ldr_i_t3.fields["Rn"], 15)
    BY BitsCaps, UpperCaps DEF ldr_i_t3, Encoding
  <2>2. Fields(ldr_i_t3, "Rn", 15, "none", 0, "none", 0)
    BY <2>1 DEF Fields, Names
  <2>3. WideMade(ldr_i_t3, "Rn", 15, "none", 0, "none", 0)
    BY <2>1, <2>2, SMT DEF WideMade
  <2>4. 63696 + 15 + 0 + 0 = 63711
    OBVIOUS
  <2>5. QED
    BY <2>1, <2>3, <2>4, WideStarts, SMT
<1>6. Starts(ldr_i_t4, 63568, 63583) /\ DOMAIN ldr_i_t4.fields = {"Rt", "index", "add", "writeback", "imm8", "Rn"}
  <2>1. /\ DOMAIN ldr_i_t4.base = {1, 2} /\ ldr_i_t4.base[1] = 63568 /\ ldr_i_t4.base[2] = 2048
        /\ DOMAIN ldr_i_t4.fields = {"Rt", "index", "add", "writeback", "imm8", "Rn"}
        /\ Caps(ldr_i_t4.fields["Rt"], 0)
        /\ Caps(ldr_i_t4.fields["index"], 0)
        /\ Caps(ldr_i_t4.fields["add"], 0)
        /\ Caps(ldr_i_t4.fields["writeback"], 0)
        /\ Caps(ldr_i_t4.fields["imm8"], 0)
        /\ Caps(ldr_i_t4.fields["Rn"], 15)
    BY BitsCaps, UpperCaps DEF ldr_i_t4, Encoding
  <2>2. Fields(ldr_i_t4, "Rn", 15, "none", 0, "none", 0)
    BY <2>1 DEF Fields, Names
  <2>3. WideMade(ldr_i_t4, "Rn", 15, "none", 0, "none", 0)
    BY <2>1, <2>2, SMT DEF WideMade
  <2>4. 63568 + 15 + 0 + 0 = 63583
    OBVIOUS
  <2>5. QED
    BY <2>1, <2>3, <2>4, WideStarts, SMT
<1>7. Starts(ldr_lit_t2, 63583, 63711) /\ DOMAIN ldr_lit_t2.fields = {"Rt", "imm12", "add"}
  <2>1. /\ DOMAIN ldr_lit_t2.base = {1, 2} /\ ldr_lit_t2.base[1] = 63583 /\ ldr_lit_t2.base[2] = 0
        /\ DOMAIN ldr_lit_t2.fields = {"Rt", "imm12", "add"}
        /\ Caps(ldr_lit_t2.fields["Rt"], 0)
        /\ Caps(ldr_lit_t2.fields["imm12"], 0)
        /\ Caps(ldr_lit_t2.fields["add"], 128)
    BY BitsCaps, UpperCaps DEF ldr_lit_t2, Encoding
  <2>2. Fields(ldr_lit_t2, "add", 128, "none", 0, "none", 0)
    BY <2>1 DEF Fields, Names
  <2>3. WideMade(ldr_lit_t2, "add", 128, "none", 0, "none", 0)
    BY <2>1, <2>2, SMT DEF WideMade
  <2>4. 63583 + 128 + 0 + 0 = 63711
    OBVIOUS
  <2>5. QED
    BY <2>1, <2>3, <2>4, WideStarts, SMT
<1>8. Starts(ldr_r_t2_lsl, 63568, 63583) /\ DOMAIN ldr_r_t2_lsl.fields = {"Rt", "lsl_shift_imm2", "Rm", "Rn"}
  <2>1. /\ DOMAIN ldr_r_t2_lsl.base = {1, 2} /\ ldr_r_t2_lsl.base[1] = 63568 /\ ldr_r_t2_lsl.base[2] = 0
        /\ DOMAIN ldr_r_t2_lsl.fields = {"Rt", "lsl_shift_imm2", "Rm", "Rn"}
        /\ Caps(ldr_r_t2_lsl.fields["Rt"], 0)
        /\ Caps(ldr_r_t2_lsl.fields["lsl_shift_imm2"], 0)
        /\ Caps(ldr_r_t2_lsl.fields["Rm"], 0)
        /\ Caps(ldr_r_t2_lsl.fields["Rn"], 15)
    BY BitsCaps, UpperCaps DEF ldr_r_t2_lsl, Encoding
  <2>2. Fields(ldr_r_t2_lsl, "Rn", 15, "none", 0, "none", 0)
    BY <2>1 DEF Fields, Names
  <2>3. WideMade(ldr_r_t2_lsl, "Rn", 15, "none", 0, "none", 0)
    BY <2>1, <2>2, SMT DEF WideMade
  <2>4. 63568 + 15 + 0 + 0 = 63583
    OBVIOUS
  <2>5. QED
    BY <2>1, <2>3, <2>4, WideStarts, SMT
<1>9. Starts(nop_t2, 62383, 62383) /\ DOMAIN nop_t2.fields = {}
  <2>1. /\ DOMAIN nop_t2.base = {1, 2} /\ nop_t2.base[1] = 62383 /\ nop_t2.base[2] = 32768
        /\ DOMAIN nop_t2.fields = {}
    BY  DEF nop_t2, Encoding
  <2>2. Fields(nop_t2, "none", 0, "none", 0, "none", 0)
    BY <2>1 DEF Fields, Names
  <2>3. WideMade(nop_t2, "none", 0, "none", 0, "none", 0)
    BY <2>1, <2>2, SMT DEF WideMade
  <2>4. 62383 + 0 + 0 + 0 = 62383
    OBVIOUS
  <2>5. QED
    BY <2>1, <2>3, <2>4, WideStarts, SMT
<1>10. Starts(movw_i_t3, 62016, 63055) /\ DOMAIN movw_i_t3.fields = {"imm16", "Rd"}
  <2>1. /\ DOMAIN movw_i_t3.base = {1, 2} /\ movw_i_t3.base[1] = 62016 /\ movw_i_t3.base[2] = 0
        /\ DOMAIN movw_i_t3.fields = {"imm16", "Rd"}
        /\ Caps(movw_i_t3.fields["imm16"], 1039)
        /\ Caps(movw_i_t3.fields["Rd"], 0)
    BY SplitCaps, UpperCaps DEF movw_i_t3, Encoding
  <2>2. Fields(movw_i_t3, "imm16", 1039, "none", 0, "none", 0)
    BY <2>1 DEF Fields, Names
  <2>3. WideMade(movw_i_t3, "imm16", 1039, "none", 0, "none", 0)
    BY <2>1, <2>2, SMT DEF WideMade
  <2>4. 62016 + 1039 + 0 + 0 = 63055
    OBVIOUS
  <2>5. QED
    BY <2>1, <2>3, <2>4, WideStarts, SMT
<1>11. Starts(mov_r_t3_opt_s, 59983, 59999) /\ DOMAIN mov_r_t3_opt_s.fields = {"Rd", "Rm", "setflags"}
  <2>1. /\ DOMAIN mov_r_t3_opt_s.base = {1, 2} /\ mov_r_t3_opt_s.base[1] = 59983 /\ mov_r_t3_opt_s.base[2] = 0
        /\ DOMAIN mov_r_t3_opt_s.fields = {"Rd", "Rm", "setflags"}
        /\ Caps(mov_r_t3_opt_s.fields["Rd"], 0)
        /\ Caps(mov_r_t3_opt_s.fields["Rm"], 0)
        /\ Caps(mov_r_t3_opt_s.fields["setflags"], 16)
    BY BitsCaps, UpperCaps DEF mov_r_t3_opt_s, Encoding
  <2>2. Fields(mov_r_t3_opt_s, "setflags", 16, "none", 0, "none", 0)
    BY <2>1 DEF Fields, Names
  <2>3. WideMade(mov_r_t3_opt_s, "setflags", 16, "none", 0, "none", 0)
    BY <2>1, <2>2, SMT DEF WideMade
  <2>4. 59983 + 16 + 0 + 0 = 59999
    OBVIOUS
  <2>5. QED
    BY <2>1, <2>3, <2>4, WideStarts, SMT
<1>12. Starts(pop_t2, 59581, 59581) /\ DOMAIN pop_t2.fields = {"pc", "lr", "regs"}
  <2>1. /\ DOMAIN pop_t2.base = {1, 2} /\ pop_t2.base[1] = 59581 /\ pop_t2.base[2] = 0
        /\ DOMAIN pop_t2.fields = {"pc", "lr", "regs"}
        /\ Caps(pop_t2.fields["pc"], 0)
        /\ Caps(pop_t2.fields["lr"], 0)
        /\ Caps(pop_t2.fields["regs"], 0)
    BY UpperCaps DEF pop_t2, Encoding
  <2>2. Fields(pop_t2, "none", 0, "none", 0, "none", 0)
    BY <2>1 DEF Fields, Names
  <2>3. WideMade(pop_t2, "none", 0, "none", 0, "none", 0)
    BY <2>1, <2>2, SMT DEF WideMade
  <2>4. 59581 + 0 + 0 + 0 = 59581
    OBVIOUS
  <2>5. QED
    BY <2>1, <2>3, <2>4, WideStarts, SMT
<1>13. Starts(pop_t3, 63581, 63581) /\ DOMAIN pop_t3.fields = {"Rt"}
  <2>1. /\ DOMAIN pop_t3.base = {1, 2} /\ pop_t3.base[1] = 63581 /\ pop_t3.base[2] = 2820
        /\ DOMAIN pop_t3.fields = {"Rt"}
        /\ Caps(pop_t3.fields["Rt"], 0)
    BY UpperCaps DEF pop_t3, Encoding
  <2>2. Fields(pop_t3, "none", 0, "none", 0, "none", 0)
    BY <2>1 DEF Fields, Names
  <2>3. WideMade(pop_t3, "none", 0, "none", 0, "none", 0)
    BY <2>1, <2>2, SMT DEF WideMade
  <2>4. 63581 + 0 + 0 + 0 = 63581
    OBVIOUS
  <2>5. QED
    BY <2>1, <2>3, <2>4, WideStarts, SMT
<1>14. Starts(push_t2, 59693, 59693) /\ DOMAIN push_t2.fields = {"lr", "regs"}
  <2>1. /\ DOMAIN push_t2.base = {1, 2} /\ push_t2.base[1] = 59693 /\ push_t2.base[2] = 0
        /\ DOMAIN push_t2.fields = {"lr", "regs"}
        /\ Caps(push_t2.fields["lr"], 0)
        /\ Caps(push_t2.fields["regs"], 0)
    BY UpperCaps DEF push_t2, Encoding
  <2>2. Fields(push_t2, "none", 0, "none", 0, "none", 0)
    BY <2>1 DEF Fields, Names
  <2>3. WideMade(push_t2, "none", 0, "none", 0, "none", 0)
    BY <2>1, <2>2, SMT DEF WideMade
  <2>4. 59693 + 0 + 0 + 0 = 59693
    OBVIOUS
  <2>5. QED
    BY <2>1, <2>3, <2>4, WideStarts, SMT
<1>15. Starts(push_t3, 63565, 63565) /\ DOMAIN push_t3.fields = {"Rt"}
  <2>1. /\ DOMAIN push_t3.base = {1, 2} /\ push_t3.base[1] = 63565 /\ push_t3.base[2] = 3332
        /\ DOMAIN push_t3.fields = {"Rt"}
        /\ Caps(push_t3.fields["Rt"], 0)
    BY UpperCaps DEF push_t3, Encoding
  <2>2. Fields(push_t3, "none", 0, "none", 0, "none", 0)
    BY <2>1 DEF Fields, Names
  <2>3. WideMade(push_t3, "none", 0, "none", 0, "none", 0)
    BY <2>1, <2>2, SMT DEF WideMade
  <2>4. 63565 + 0 + 0 + 0 = 63565
    OBVIOUS
  <2>5. QED
    BY <2>1, <2>3, <2>4, WideStarts, SMT
<1>16. Starts(subw_i_t4, 62112, 63151) /\ DOMAIN subw_i_t4.fields = {"imm12", "Rd", "Rn"}
  <2>1. /\ DOMAIN subw_i_t4.base = {1, 2} /\ subw_i_t4.base[1] = 62112 /\ subw_i_t4.base[2] = 0
        /\ DOMAIN subw_i_t4.fields = {"imm12", "Rd", "Rn"}
        /\ Caps(subw_i_t4.fields["imm12"], 1024)
        /\ Caps(subw_i_t4.fields["Rd"], 0)
        /\ Caps(subw_i_t4.fields["Rn"], 15)
    BY BitsCaps, SplitCaps, UpperCaps DEF subw_i_t4, Encoding
  <2>2. Fields(subw_i_t4, "imm12", 1024, "Rn", 15, "none", 0)
    BY <2>1 DEF Fields, Names
  <2>3. WideMade(subw_i_t4, "imm12", 1024, "Rn", 15, "none", 0)
    BY <2>1, <2>2, SMT DEF WideMade
  <2>4. 62112 + 1024 + 15 + 0 = 63151
    OBVIOUS
  <2>5. QED
    BY <2>1, <2>3, <2>4, WideStarts, SMT
<1>17. Starts(udf_t2, 63472, 63487) /\ DOMAIN udf_t2.fields = {"imm16"}
  <2>1. /\ DOMAIN udf_t2.base = {1, 2} /\ udf_t2.base[1] = 63472 /\ udf_t2.base[2] = 40960
        /\ DOMAIN udf_t2.fields = {"imm16"}
        /\ Caps(udf_t2.fields["imm16"], 15)
    BY SplitCaps DEF udf_t2, Encoding
  <2>2. Fields(udf_t2, "imm16", 15, "none", 0, "none", 0)
    BY <2>1 DEF Fields, Names
  <2>3. WideMade(udf_t2, "imm16", 15, "none", 0, "none", 0)
    BY <2>1, <2>2, SMT DEF WideMade
  <2>4. 63472 + 15 + 0 + 0 = 63487
    OBVIOUS
  <2>5. QED
    BY <2>1, <2>3, <2>4, WideStarts, SMT
<1>18. QED
  BY <1>1, <1>2, <1>3, <1>4, <1>5, <1>6, <1>7, <1>8, <1>9, <1>10, <1>11, <1>12, <1>13, <1>14, <1>15, <1>16, <1>17, SMT

-----------------------------------------------------------------------------
(***************************************************************************)
(* Words that cannot be listed: a load with neither index nor writeback,   *)
(* and a branch on condition 15.                                           *)
(***************************************************************************)

LEMMA WideEncodings ==
    /\ Wide(addw_i_t4) /\ DOMAIN addw_i_t4.fields = {"imm12", "Rd", "Rn"}
    /\ Wide(b_cond_t3_noit) /\ DOMAIN b_cond_t3_noit.fields = {"simm21", "cond"}
    /\ Wide(b_t4) /\ DOMAIN b_t4.fields = {"simm25"}
    /\ Wide(bl_t1) /\ DOMAIN bl_t1.fields = {"simm25"}
    /\ Wide(ldr_i_t3) /\ DOMAIN ldr_i_t3.fields = {"Rt", "imm12", "Rn"}
    /\ Wide(ldr_i_t4) /\ DOMAIN ldr_i_t4.fields = {"Rt", "index", "add", "writeback", "imm8", "Rn"}
    /\ Wide(ldr_lit_t2) /\ DOMAIN ldr_lit_t2.fields = {"Rt", "imm12", "add"}
    /\ Wide(ldr_r_t2_lsl) /\ DOMAIN ldr_r_t2_lsl.fields = {"Rt", "lsl_shift_imm2", "Rm", "Rn"}
    /\ Wide(nop_t2) /\ DOMAIN nop_t2.fields = {}
    /\ Wide(movw_i_t3) /\ DOMAIN movw_i_t3.fields = {"imm16", "Rd"}
    /\ Wide(mov_r_t3_opt_s) /\ DOMAIN mov_r_t3_opt_s.fields = {"Rd", "Rm", "setflags"}
    /\ Wide(pop_t2) /\ DOMAIN pop_t2.fields = {"pc", "lr", "regs"}
    /\ Wide(pop_t3) /\ DOMAIN pop_t3.fields = {"Rt"}
    /\ Wide(push_t2) /\ DOMAIN push_t2.fields = {"lr", "regs"}
    /\ Wide(push_t3) /\ DOMAIN push_t3.fields = {"Rt"}
    /\ Wide(subw_i_t4) /\ DOMAIN subw_i_t4.fields = {"imm12", "Rd", "Rn"}
    /\ Wide(udf_t2) /\ DOMAIN udf_t2.fields = {"imm16"}
<1>1. Wide(addw_i_t4)
  <2>1. Starts(addw_i_t4, 61952, 62991)
    BY FirstHalfwords
  <2>2. QED
    BY <2>1, StartsIsWide, SMT DEF Border, Top
<1>2. Wide(b_cond_t3_noit)
  <2>1. Starts(b_cond_t3_noit, 61440, 63487)
    BY FirstHalfwords
  <2>2. QED
    BY <2>1, StartsIsWide, SMT DEF Border, Top
<1>3. Wide(b_t4)
  <2>1. Starts(b_t4, 61440, 63487)
    BY FirstHalfwords
  <2>2. QED
    BY <2>1, StartsIsWide, SMT DEF Border, Top
<1>4. Wide(bl_t1)
  <2>1. Starts(bl_t1, 61440, 63487)
    BY FirstHalfwords
  <2>2. QED
    BY <2>1, StartsIsWide, SMT DEF Border, Top
<1>5. Wide(ldr_i_t3)
  <2>1. Starts(ldr_i_t3, 63696, 63711)
    BY FirstHalfwords
  <2>2. QED
    BY <2>1, StartsIsWide, SMT DEF Border, Top
<1>6. Wide(ldr_i_t4)
  <2>1. Starts(ldr_i_t4, 63568, 63583)
    BY FirstHalfwords
  <2>2. QED
    BY <2>1, StartsIsWide, SMT DEF Border, Top
<1>7. Wide(ldr_lit_t2)
  <2>1. Starts(ldr_lit_t2, 63583, 63711)
    BY FirstHalfwords
  <2>2. QED
    BY <2>1, StartsIsWide, SMT DEF Border, Top
<1>8. Wide(ldr_r_t2_lsl)
  <2>1. Starts(ldr_r_t2_lsl, 63568, 63583)
    BY FirstHalfwords
  <2>2. QED
    BY <2>1, StartsIsWide, SMT DEF Border, Top
<1>9. Wide(nop_t2)
  <2>1. Starts(nop_t2, 62383, 62383)
    BY FirstHalfwords
  <2>2. QED
    BY <2>1, StartsIsWide, SMT DEF Border, Top
<1>10. Wide(movw_i_t3)
  <2>1. Starts(movw_i_t3, 62016, 63055)
    BY FirstHalfwords
  <2>2. QED
    BY <2>1, StartsIsWide, SMT DEF Border, Top
<1>11. Wide(mov_r_t3_opt_s)
  <2>1. Starts(mov_r_t3_opt_s, 59983, 59999)
    BY FirstHalfwords
  <2>2. QED
    BY <2>1, StartsIsWide, SMT DEF Border, Top
<1>12. Wide(pop_t2)
  <2>1. Starts(pop_t2, 59581, 59581)
    BY FirstHalfwords
  <2>2. QED
    BY <2>1, StartsIsWide, SMT DEF Border, Top
<1>13. Wide(pop_t3)
  <2>1. Starts(pop_t3, 63581, 63581)
    BY FirstHalfwords
  <2>2. QED
    BY <2>1, StartsIsWide, SMT DEF Border, Top
<1>14. Wide(push_t2)
  <2>1. Starts(push_t2, 59693, 59693)
    BY FirstHalfwords
  <2>2. QED
    BY <2>1, StartsIsWide, SMT DEF Border, Top
<1>15. Wide(push_t3)
  <2>1. Starts(push_t3, 63565, 63565)
    BY FirstHalfwords
  <2>2. QED
    BY <2>1, StartsIsWide, SMT DEF Border, Top
<1>16. Wide(subw_i_t4)
  <2>1. Starts(subw_i_t4, 62112, 63151)
    BY FirstHalfwords
  <2>2. QED
    BY <2>1, StartsIsWide, SMT DEF Border, Top
<1>17. Wide(udf_t2)
  <2>1. Starts(udf_t2, 63472, 63487)
    BY FirstHalfwords
  <2>2. QED
    BY <2>1, StartsIsWide, SMT DEF Border, Top
<1>18. QED
  BY <1>1, <1>2, <1>3, <1>4, <1>5, <1>6, <1>7, <1>8, <1>9, <1>10, <1>11, <1>12,
     <1>13, <1>14, <1>15, <1>16, <1>17, FirstHalfwords

LEMMA TopBits ==
    ASSUME NEW x \in Nat, x <= 65535
    PROVE  ((x \div 8192) % 8 = 7 /\ (x \div 2048) % 4 # 0) <=> x >= 59392
<1> DEFINE p == x \div 2048
           q == x \div 8192
<1>1. p \in Nat /\ 2048 * p <= x /\ x < 2048 * p + 2048
  BY SMT
<1>2. q \in Nat /\ 8192 * q <= x /\ x < 8192 * q + 8192
  BY SMT
<1> HIDE DEF p, q
<1>4. q \in 0 .. 7
  <2>1. 8192 * q <= 65535
    BY <1>2, SMT
  <2>2. q < 8
    BY <1>2, <2>1, SMT
  <2>3. QED
    BY <1>2, <2>2, SMT
<1>5. q % 8 = q
  BY <1>4, SMT
<1>6. p >= 4 * q /\ p < 4 * q + 4
  BY <1>1, <1>2, SMT
<1>7. p % 4 = p - 4 * q
  BY <1>1, <1>2, <1>6, SMT
<1>8. (q = 7 /\ p - 4 * q # 0) <=> x >= 59392
  BY <1>1, <1>2, <1>4, SMT
<1>9. QED
  BY <1>5, <1>7, <1>8, SMT DEF p, q

-----------------------------------------------------------------------------
(***************************************************************************)
(* The sums themselves, of a few elements one by one                       *)
(***************************************************************************)
\* n is the sum of F over S.
IsSum(n, F, S) == \E g : Sums(g, F, S) /\ n = g[S]

LEMMA SumRemoves ==
    ASSUME NEW S, IsFiniteSet(S), NEW F, \A x \in S : F[x] \in Nat, NEW g, Sums(g, F, S)
    PROVE  \A s \in SUBSET S : g[s] \in Nat /\ \A x \in s : g[s] = F[x] + g[s \ {x}]
<1> DEFINE P(s) == g[s] \in Nat /\ \A x \in s : g[s] = F[x] + g[s \ {x}]
           K == {k \in Nat : \A s \in SUBSET S : Cardinality(s) <= k => P(s)}
<1>0. \A s \in SUBSET S : IsFiniteSet(s) /\ Cardinality(s) \in Nat
  BY FS_Subset, FS_CardinalityType
<1>1. 0 \in K
  <2>1. ASSUME NEW s \in SUBSET S, Cardinality(s) <= 0
        PROVE  P(s)
    <3>1. s = {}
      BY <1>0, <2>1, FS_EmptySet
    <3>2. g[s] = 0
      BY <3>1 DEF Sums
    <3>3. QED
      BY <3>1, <3>2
  <2>2. QED
    BY <2>1
<1>2. ASSUME NEW k \in Nat, k \in K
      PROVE  k + 1 \in K
  <2>1. ASSUME NEW s \in SUBSET S, Cardinality(s) <= k + 1
        PROVE  P(s)
    <3>1. CASE s = {}
      <4>1. g[s] = 0
        BY <3>1 DEF Sums
      <4>2. QED
        BY <3>1, <4>1
    <3>2. CASE s # {}
      <4> DEFINE y == AnyOf(s)
      <4>1. y \in s /\ g[s] = F[y] + g[s \ {y}]
        BY <3>2 DEF AnyOf, Sums
      <4>2. ASSUME NEW x \in s
            PROVE  s \ {x} \in SUBSET S /\ P(s \ {x})
        <5>1. Cardinality(s \ {x}) = Cardinality(s) - 1 /\ s \ {x} \in SUBSET S
          BY <1>0, FS_RemoveElement
        <5>2. Cardinality(s \ {x}) <= k
          BY <1>0, <2>1, <5>1
        <5> HIDE DEF P
        <5>3. QED
          BY <1>2, <5>1, <5>2
      <4> HIDE DEF y
      <4>3. ASSUME NEW x \in s
            PROVE  g[s] = F[x] + g[s \ {x}]
        <5>1. CASE x = y
          BY <4>1, <5>1
        <5>2. CASE x # y
          <6> DEFINE r == (s \ {y}) \ {x}
          <6>1. g[s \ {y}] = F[x] + g[r]
            BY <4>1, <4>2, <5>2
          <6>2. g[s \ {x}] = F[y] + g[(s \ {x}) \ {y}]
            BY <4>1, <4>2, <5>2
          <6>3. (s \ {x}) \ {y} = r /\ r \in SUBSET S
            OBVIOUS
          <6>4. g[r] \in Nat
            <7>1. r \in SUBSET S /\ Cardinality(r) <= k
              <8>1. s \ {y} \in SUBSET S /\ x \in s \ {y} /\ r \in SUBSET S
                BY <4>1, <5>2
              <8>2. /\ Cardinality(s \ {y}) = Cardinality(s) - 1
                    /\ Cardinality(r) = Cardinality(s \ {y}) - 1
                BY <1>0, <4>1, <8>1, FS_RemoveElement
              <8>3. Cardinality(s) \in Nat /\ Cardinality(s \ {y}) \in Nat /\ Cardinality(r) \in Nat
                BY <1>0, <8>1
              <8> HIDE DEF r
              <8>4. QED
                BY <2>1, <8>1, <8>2, <8>3
            <7> HIDE DEF r
            <7>2. QED
              BY <1>2, <7>1
          <6> HIDE DEF r
          <6>5. F[x] \in Nat /\ F[y] \in Nat
            BY <4>1
          <6>6. g[s] = F[y] + (F[x] + g[r]) /\ g[s \ {x}] = F[y] + g[r]
            BY <4>1, <6>1, <6>2, <6>3
          <6>7. QED
            BY <6>4, <6>5, <6>6
        <5>3. QED
          BY <5>1, <5>2
      <4>4. g[s] \in Nat
        <5>1. g[s \ {y}] \in Nat /\ F[y] \in Nat
          BY <4>1, <4>2
        <5>2. QED
          BY <4>1, <5>1
      <4>5. QED
        BY <4>3, <4>4
    <3>3. QED
      BY <3>1, <3>2
  <2>2. QED
    BY <2>1
<1>3. Cardinality(S) \in K
  <2> HIDE DEF K
  <2>1. QED
    BY <1>0, <1>1, <1>2, SetInduction
<1>4. ASSUME NEW s \in SUBSET S
      PROVE  P(s)
  <2>1. Cardinality(s) <= Cardinality(S)
    BY FS_Subset
  <2> HIDE DEF P
  <2>2. QED
    BY <1>3, <2>1
<1>5. QED
  BY <1>4

LEMMA SumOut ==
    ASSUME NEW S, IsFiniteSet(S), NEW F, \A y \in S : F[y] \in Nat, NEW n, IsSum(n, F, S),
           NEW x \in S
    PROVE  \E m \in Nat : IsSum(m, F, S \ {x}) /\ n = F[x] + m
<1>1. PICK g : Sums(g, F, S) /\ n = g[S]
  BY DEF IsSum
<1>2. S \in SUBSET S /\ S \ {x} \in SUBSET S
  OBVIOUS
<1>3. g[S] = F[x] + g[S \ {x}] /\ g[S \ {x}] \in Nat
  BY <1>1, <1>2, SumRemoves
<1>4. Sums(g, F, S \ {x})
  BY <1>1 DEF Sums
<1>5. QED
  BY <1>1, <1>3, <1>4 DEF IsSum

LEMMA SumOfNone == ASSUME NEW n, NEW F, IsSum(n, F, {}) PROVE n = 0
  BY DEF IsSum, Sums

\* What MapThenSumSet looks for
SumStep(i, F, S) ==
    [s \in SUBSET S |-> IF s = {} THEN 0 ELSE F[AnyOf(s)] + i[s \ {AnyOf(s)}]]

LEMMA SumStepFixed ==
    ASSUME NEW S, IsFiniteSet(S), NEW F, \A y \in S : F[y] \in Nat
    PROVE  \E i : i = SumStep(i, F, S)
<1> DEFINE G == [y \in S |-> F[y]]
<1>1. G \in [S -> Nat]
  OBVIOUS
<1>2. PICK g \in [SUBSET S -> Nat] : Sums(g, G, S)
  <2> HIDE DEF G
  <2>1. QED
    BY <1>1, SumsExist
<1>3. \A s \in SUBSET S : s # {} => AnyOf(s) \in S /\ G[AnyOf(s)] = F[AnyOf(s)]
  BY DEF AnyOf
<1> HIDE DEF G
<1>4. \A s \in SUBSET S : g[s] = IF s = {} THEN 0 ELSE F[AnyOf(s)] + g[s \ {AnyOf(s)}]
  BY <1>2, <1>3 DEF Sums
<1>5. g = SumStep(g, F, S)
  BY <1>2, <1>4 DEF SumStep
<1>6. QED
  BY <1>5

LEMMA SumStepIsSum ==
    ASSUME NEW S, NEW F, NEW i, i = SumStep(i, F, S)
    PROVE  IsSum(i[S], F, S)
<1>1. \A s \in SUBSET S : i[s] = IF s = {} THEN 0 ELSE F[AnyOf(s)] + i[s \ {AnyOf(s)}]
  BY DEF SumStep
<1>2. Sums(i, F, S)
  BY <1>1 DEF Sums
<1>3. QED
  BY <1>2 DEF IsSum

\* ... and each of the numbers is one.
NatSum(n, F, S) == IsFiniteSet(S) /\ (\A y \in S : F[y] \in Nat) /\ IsSum(n, F, S)

LEMMA TakeOut ==
    ASSUME NEW n, NEW F, NEW S, NatSum(n, F, S), NEW x \in S
    PROVE  \E m \in Nat : NatSum(m, F, S \ {x}) /\ n = F[x] + m /\ F[x] \in Nat
<1>0. IsFiniteSet(S) /\ (\A y \in S : F[y] \in Nat) /\ IsSum(n, F, S)
  BY DEF NatSum
<1>1. PICK g : Sums(g, F, S) /\ n = g[S]
  BY DEF NatSum, IsSum
<1>2. g[S] = F[x] + g[S \ {x}] /\ g[S \ {x}] \in Nat
  <2>1. \A s \in SUBSET S : g[s] \in Nat /\ \A y \in s : g[s] = F[y] + g[s \ {y}]
    BY <1>0, <1>1, SumRemoves
  <2>2. S \in SUBSET S /\ S \ {x} \in SUBSET S
    OBVIOUS
  <2>3. QED
    BY <2>1, <2>2
<1>3. Sums(g, F, S \ {x})
  BY <1>1 DEF Sums
<1>4. IsSum(g[S \ {x}], F, S \ {x})
  BY <1>3 DEF IsSum
<1>5. IsFiniteSet(S \ {x})
  BY <1>0, FS_RemoveElement
<1>6. NatSum(g[S \ {x}], F, S \ {x})
  BY <1>0, <1>4, <1>5 DEF NatSum
<1>7. QED
  BY <1>0, <1>1, <1>2, <1>6

LEMMA NatSumIsNat == ASSUME NEW n, NEW F, NEW S, NatSum(n, F, S) PROVE n \in Nat
<1>1. IsFiniteSet(S) /\ \A y \in S : F[y] \in Nat
  BY DEF NatSum
<1>2. PICK g : Sums(g, F, S) /\ n = g[S]
  BY DEF NatSum, IsSum
<1>3. \A s \in SUBSET S : g[s] \in Nat
  BY <1>1, <1>2, SumRemoves
<1>4. QED
  BY <1>2, <1>3

LEMMA SumOfOne ==
    ASSUME NEW n, NEW F, NEW a, NatSum(n, F, {a})
    PROVE  n = F[a]
<1>1. PICK m \in Nat : NatSum(m, F, {a} \ {a}) /\ n = F[a] + m /\ F[a] \in Nat
  BY TakeOut
<1>2. {a} \ {a} = {}
  OBVIOUS
<1>3. m = 0
  BY <1>1, <1>2, SumOfNone DEF NatSum
<1>4. QED
  BY <1>1, <1>3

SumsOfTwo(n, F, a, b) ==
    /\ NatSum(n, F, {a, b})
    /\ a # b

LEMMA SumOfTwo ==
    ASSUME NEW n, NEW F, NEW a, NEW b, SumsOfTwo(n, F, a, b)
    PROVE  n = F[a] + F[b]
<1>0. /\ NatSum(n, F, {a, b})
      /\ a # b
  BY DEF SumsOfTwo
<1> USE <1>0
<1>1. PICK m \in Nat : NatSum(m, F, {a, b} \ {a}) /\ n = F[a] + m /\ F[a] \in Nat
  BY TakeOut
<1>2. {a, b} \ {a} = {b}
  OBVIOUS
<1>3. NatSum(m, F, {b})
  BY <1>1, <1>2
<1>4. m = F[b]
  BY <1>3, SumOfOne
<1>5. F[a] \in Nat /\ F[b] \in Nat
  BY DEF NatSum
<1>6. QED
  BY <1>1, <1>4, <1>5

SumsOfThree(n, F, a, b, c) ==
    /\ NatSum(n, F, {a, b, c})
    /\ a # b /\ a # c /\ b # c

LEMMA SumOfThree ==
    ASSUME NEW n, NEW F, NEW a, NEW b, NEW c, SumsOfThree(n, F, a, b, c)
    PROVE  n = F[a] + F[b] + F[c]
<1>0. /\ NatSum(n, F, {a, b, c})
      /\ a # b /\ a # c /\ b # c
  BY DEF SumsOfThree
<1> USE <1>0
<1>1. PICK m \in Nat : NatSum(m, F, {a, b, c} \ {a}) /\ n = F[a] + m /\ F[a] \in Nat
  <2> DEFINE S == {a, b, c}
  <2>1. NatSum(n, F, S) /\ a \in S
    OBVIOUS
  <2> HIDE <1>0 DEF S
  <2>2. \E m \in Nat : NatSum(m, F, S \ {a}) /\ n = F[a] + m /\ F[a] \in Nat
    BY <2>1, TakeOut
  <2>3. QED
    BY <2>2 DEF S
<1>2. {a, b, c} \ {a} = {b, c}
  OBVIOUS
<1>3. NatSum(m, F, {b, c})
  BY <1>1, <1>2
<1>4. m = F[b] + F[c]
  BY <1>3, SumOfTwo DEF SumsOfTwo
<1>5. F[a] \in Nat /\ F[b] \in Nat /\ F[c] \in Nat
  BY DEF NatSum
<1>6. QED
  BY <1>1, <1>4, <1>5

SumsOfFour(n, F, a, b, c, d) ==
    /\ NatSum(n, F, {a, b, c, d})
    /\ a # b /\ a # c /\ a # d /\ b # c /\ b # d /\ c # d

LEMMA SumOfFour ==
    ASSUME NEW n, NEW F, NEW a, NEW b, NEW c, NEW d, SumsOfFour(n, F, a, b, c, d)
    PROVE  n = F[a] + F[b] + F[c] + F[d]
<1>0. /\ NatSum(n, F, {a, b, c, d})
      /\ a # b /\ a # c /\ a # d /\ b # c /\ b # d /\ c # d
  BY DEF SumsOfFour
<1> USE <1>0
<1>1. PICK m \in Nat : NatSum(m, F, {a, b, c, d} \ {a}) /\ n = F[a] + m /\ F[a] \in Nat
  <2> DEFINE S == {a, b, c, d}
  <2>1. NatSum(n, F, S) /\ a \in S
    OBVIOUS
  <2> HIDE <1>0 DEF S
  <2>2. \E m \in Nat : NatSum(m, F, S \ {a}) /\ n = F[a] + m /\ F[a] \in Nat
    BY <2>1, TakeOut
  <2>3. QED
    BY <2>2 DEF S
<1>2. {a, b, c, d} \ {a} = {b, c, d}
  OBVIOUS
<1>3. NatSum(m, F, {b, c, d})
  BY <1>1, <1>2
<1>4. m = F[b] + F[c] + F[d]
  BY <1>3, SumOfThree DEF SumsOfThree
<1>5. F[a] \in Nat /\ F[b] \in Nat /\ F[c] \in Nat /\ F[d] \in Nat
  BY DEF NatSum
<1>6. QED
  BY <1>1, <1>4, <1>5

SumsOfSix(n, F, a, b, c, d, e, g) ==
    /\ NatSum(n, F, {a, b, c, d, e, g})
    /\ a # b /\ a # c /\ a # d /\ a # e /\ a # g /\ b # c /\ b # d /\ b # e
    /\ b # g /\ c # d /\ c # e /\ c # g /\ d # e /\ d # g /\ e # g

LEMMA SumOfSix ==
    ASSUME NEW n, NEW F, NEW a, NEW b, NEW c, NEW d, NEW e, NEW g, SumsOfSix(n, F, a, b, c, d, e, g)
    PROVE  n = F[a] + F[b] + F[c] + F[d] + F[e] + F[g]
<1>0. /\ NatSum(n, F, {a, b, c, d, e, g})
      /\ a # b /\ a # c /\ a # d /\ a # e /\ a # g /\ b # c /\ b # d /\ b # e
      /\ b # g /\ c # d /\ c # e /\ c # g /\ d # e /\ d # g /\ e # g
  BY DEF SumsOfSix
<1> USE <1>0
<1>1. PICK m \in Nat : NatSum(m, F, {a, b, c, d, e, g} \ {a}) /\ n = F[a] + m /\ F[a] \in Nat
  <2> DEFINE S == {a, b, c, d, e, g}
  <2>1. NatSum(n, F, S) /\ a \in S
    OBVIOUS
  <2> HIDE <1>0 DEF S
  <2>2. \E m \in Nat : NatSum(m, F, S \ {a}) /\ n = F[a] + m /\ F[a] \in Nat
    BY <2>1, TakeOut
  <2>3. QED
    BY <2>2 DEF S
<1>2. {a, b, c, d, e, g} \ {a} = {b, c, d, e, g}
  OBVIOUS
<1>3. NatSum(m, F, {b, c, d, e, g})
  BY <1>1, <1>2
<1>4. m = F[b] + F[c] + F[d] + F[e] + F[g]
  <2>1. PICK k \in Nat : NatSum(k, F, {b, c, d, e, g} \ {b}) /\ m = F[b] + k /\ F[b] \in Nat
    BY <1>3, TakeOut
  <2>2. {b, c, d, e, g} \ {b} = {c, d, e, g}
    OBVIOUS
  <2>3. NatSum(k, F, {c, d, e, g})
    BY <2>1, <2>2
  <2>4. k = F[c] + F[d] + F[e] + F[g]
    BY <2>3, SumOfFour DEF SumsOfFour
  <2>5. F[c] \in Nat /\ F[d] \in Nat /\ F[e] \in Nat /\ F[g] \in Nat
    BY <2>3 DEF NatSum
  <2>6. QED
    BY <2>1, <2>4, <2>5
<1>5. F[a] \in Nat /\ F[b] \in Nat /\ F[c] \in Nat /\ F[d] \in Nat /\ F[e] \in Nat /\ F[g] \in Nat
  BY DEF NatSum
<1>6. QED
  BY <1>1, <1>4, <1>5

-----------------------------------------------------------------------------
\* The pieces of f in halfword h, and a number that they make up
InHalf(f, h) == {piece \in f.pieces : piece[3] \div 16 + 1 = h}

Part(k, f, h) == [x \in InHalf(f, h) |-> k[x] * 2^(x[3] % 16)]

Made(n, f, h) ==
    \E k : /\ \A x \in InHalf(f, h) : k[x] \in 0 .. 2^x[2] - 1
           /\ IsSum(n, Part(k, f, h), InHalf(f, h))

\* What a field of an instruction adds to halfword h of the word that it is in
MatchSum(f, ins, h) ==
    MapThenSumSet(LAMBDA piece : Piece(ins, piece) * 2^(piece[3] % 16), InHalf(f, h))

\* The values of the pieces, of what is encoded and of what is in a word
Encoded(f, v, h)  == [x \in InHalf(f, h) |-> Extract(Twist(f, v % 2^f.width), x[1], x[2])]
Found(f, ins, h) == [x \in InHalf(f, h) |-> Piece(ins, x)]

LEMMA PartNat ==
    ASSUME NEW f, WellFormed(f), NEW h, NEW k, \A x \in InHalf(f, h) : k[x] \in Nat
    PROVE  /\ IsFiniteSet(InHalf(f, h))
           /\ \A x \in InHalf(f, h) : Part(k, f, h)[x] \in Nat
<1>1. IsFiniteSet(InHalf(f, h))
  <2>1. InHalf(f, h) \in SUBSET f.pieces /\ IsFiniteSet(f.pieces)
    BY DEF WellFormed, Shaped, InHalf
  <2>2. QED
    BY <2>1, FS_Subset
<1>2. ASSUME NEW x \in InHalf(f, h)
      PROVE  Part(k, f, h)[x] \in Nat
  <2>1. x[3] % 16 \in 0 .. 31
    BY DEF WellFormed, InHalf
  <2>2. 2^(x[3] % 16) \in Nat
    BY <2>1, Powers
  <2>3. \A i, p \in Nat : i * p \in Nat
    OBVIOUS
  <2>4. k[x] * 2^(x[3] % 16) \in Nat
    BY <2>2, <2>3, Zenon
  <2>5. QED
    BY <2>4 DEF Part
<1>3. QED
  BY <1>1, <1>2

LEMMA EncodedRange ==
    ASSUME NEW f, WellFormed(f), NEW v \in Int, NEW h, NEW x \in InHalf(f, h)
    PROVE  Encoded(f, v, h)[x] \in 0 .. 2^x[2] - 1
<1>1. f.width \in 0 .. 31 /\ x[1] \in 0 .. 31 /\ x[2] \in 0 .. 31
  BY DEF WellFormed, Shaped, InHalf
<1>2. 2^f.width \in Nat \ {0}
  BY <1>1, Powers, Zenon
<1>3. v % 2^f.width \in Int
  BY <1>2
<1>4. Twist(f, v % 2^f.width) \in Int
  BY <1>3, TwistType
<1>5. QED
  BY <1>1, <1>4, ExtractRange DEF Encoded

LEMMA FoundRange ==
    ASSUME NEW f, WellFormed(f), NEW h, NEW ins, ins[h] \in Int, NEW x \in InHalf(f, h)
    PROVE  Found(f, ins, h)[x] \in 0 .. 2^x[2] - 1
<1>1. x[3] % 16 \in 0 .. 31 /\ x[2] \in 0 .. 31 /\ x[3] \div 16 + 1 = h
  BY DEF WellFormed, Shaped, InHalf
<1>2. Piece(ins, x) = Extract(ins[h], x[3] % 16, x[2])
  BY <1>1 DEF Piece
<1>3. QED
  BY <1>1, <1>2, ExtractRange DEF Found

LEMMA RangeIsNat ==
    ASSUME NEW f, WellFormed(f), NEW h, NEW k, \A x \in InHalf(f, h) : k[x] \in 0 .. 2^x[2] - 1
    PROVE  \A x \in InHalf(f, h) : k[x] \in Nat
<1>1. \A m : \A i \in 0 .. m : i \in Nat
  OBVIOUS
<1>2. QED
  BY <1>1, Zenon

LEMMA FieldIsSum ==
    ASSUME NEW f, WellFormed(f), NEW v \in Int, NEW h
    PROVE  IsSum(FieldSum(f, v, h), Part(Encoded(f, v, h), f, h), InHalf(f, h))
<1> DEFINE S == InHalf(f, h)
           F == Part(Encoded(f, v, h), f, h)
           raw == Twist(f, v % 2^f.width)
           Body(i) == [s \in SUBSET S |->
                          IF s = {} THEN 0
                          ELSE Extract(raw, AnyOf(s)[1], AnyOf(s)[2]) * 2^(AnyOf(s)[3] % 16)
                               + i[s \ {AnyOf(s)}]]
           iter == CHOOSE i : i = Body(i)
<1>1. IsFiniteSet(S) /\ \A x \in S : F[x] \in Nat
  BY EncodedRange, RangeIsNat, PartNat
<1>2. FieldSum(f, v, h) = iter[S]
  BY DEF FieldSum, MapThenSumSet, MapThenFoldSet, AnyOf, InHalf
<1>3. \A i : Body(i) = SumStep(i, F, S)
  <2>1. \A s \in SUBSET S : s # {} => AnyOf(s) \in S
    BY DEF AnyOf
  <2>2. \A x \in S : F[x] = Extract(raw, x[1], x[2]) * 2^(x[3] % 16)
    BY DEF Part, Encoded
  <2> HIDE DEF raw, F, S
  <2>3. QED
    BY <2>1, <2>2 DEF SumStep
<1> HIDE DEF S, F, Body
<1>4. iter = Body(iter)
  <2>1. \E i : i = Body(i)
    BY <1>1, <1>3, SumStepFixed
  <2>2. QED
    BY <2>1
<1>5. IsSum(iter[S], F, S)
  <2> HIDE DEF iter
  <2>1. iter = SumStep(iter, F, S)
    BY <1>3, <1>4
  <2>2. QED
    BY <2>1, SumStepIsSum
<1>6. QED
  BY <1>2, <1>5 DEF S, F

LEMMA MatchIsSum ==
    ASSUME NEW f, WellFormed(f), NEW h, NEW ins, ins[h] \in Int
    PROVE  IsSum(MatchSum(f, ins, h), Part(Found(f, ins, h), f, h), InHalf(f, h))
<1> DEFINE S == InHalf(f, h)
           F == Part(Found(f, ins, h), f, h)
           Body(i) == [s \in SUBSET S |->
                          IF s = {} THEN 0
                          ELSE Piece(ins, AnyOf(s)) * 2^(AnyOf(s)[3] % 16)
                               + i[s \ {AnyOf(s)}]]
           iter == CHOOSE i : i = Body(i)
<1>1. IsFiniteSet(S) /\ \A x \in S : F[x] \in Nat
  BY FoundRange, RangeIsNat, PartNat
<1>2. MatchSum(f, ins, h) = iter[S]
  BY DEF MatchSum, MapThenSumSet, MapThenFoldSet, AnyOf
<1>3. \A i : Body(i) = SumStep(i, F, S)
  <2>1. \A s \in SUBSET S : s # {} => AnyOf(s) \in S
    BY DEF AnyOf
  <2>2. \A x \in S : F[x] = Piece(ins, x) * 2^(x[3] % 16)
    BY DEF Part, Found
  <2> HIDE DEF F, S
  <2>3. QED
    BY <2>1, <2>2 DEF SumStep
<1> HIDE DEF S, F, Body
<1>4. iter = Body(iter)
  <2>1. \E i : i = Body(i)
    BY <1>1, <1>3, SumStepFixed
  <2>2. QED
    BY <2>1
<1>5. IsSum(iter[S], F, S)
  <2> HIDE DEF iter
  <2>1. iter = SumStep(iter, F, S)
    BY <1>3, <1>4
  <2>2. QED
    BY <2>1, SumStepIsSum
<1>6. QED
  BY <1>2, <1>5 DEF S, F

LEMMA FieldSumMade ==
    ASSUME NEW f, WellFormed(f), NEW v \in Int, NEW h
    PROVE  Made(FieldSum(f, v, h), f, h)
  BY FieldIsSum, EncodedRange DEF Made

LEMMA MatchSumMade ==
    ASSUME NEW f, WellFormed(f), NEW h, NEW ins, ins[h] \in Int
    PROVE  Made(MatchSum(f, ins, h), f, h)
  BY MatchIsSum, FoundRange DEF Made

LEMMA MadeIsNat ==
    ASSUME NEW f, WellFormed(f), NEW h, NEW n, Made(n, f, h)
    PROVE  n \in Nat
<1>1. PICK k : /\ \A x \in InHalf(f, h) : k[x] \in 0 .. 2^x[2] - 1
               /\ IsSum(n, Part(k, f, h), InHalf(f, h))
  BY DEF Made
<1>2. IsFiniteSet(InHalf(f, h)) /\ \A x \in InHalf(f, h) : Part(k, f, h)[x] \in Nat
  BY <1>1, RangeIsNat, PartNat
<1>3. PICK g : Sums(g, Part(k, f, h), InHalf(f, h)) /\ n = g[InHalf(f, h)]
  BY <1>1 DEF IsSum
<1>4. QED
  BY <1>2, <1>3, SumRemoves

-----------------------------------------------------------------------------
(***************************************************************************)
(* The fields of an encoding: what each of them adds to a halfword that is *)
(* encoded, and what it finds in a word to match                           *)
(***************************************************************************)
\* What the fields of e add to halfword h of what is encoded, ...
AddedTo(e, p, h) == [part \in DOMAIN e.fields |-> FieldSum(e.fields[part], p[part], h)]

\* ... and to that of a word that matches
FoundIn(e, ins, h) == [part \in DOMAIN e.fields |-> MatchSum(e.fields[part], ins, h)]

LEMMA StoredIsSum ==
    ASSUME NEW e, WellFormedFields(e), NEW p, IntegerParts(e, p), NEW h
    PROVE  \E n : NatSum(n, AddedTo(e, p, h), DOMAIN e.fields) /\ Stored(e, p, h) = e.base[h] + n
<1> DEFINE S == DOMAIN e.fields
           F == AddedTo(e, p, h)
           Body(i) == [s \in SUBSET S |->
                          IF s = {} THEN 0
                          ELSE FieldSum(e.fields[AnyOf(s)], p[AnyOf(s)], h) + i[s \ {AnyOf(s)}]]
           iter == CHOOSE i : i = Body(i)
<1>1. IsFiniteSet(S)
  BY DEF WellFormedFields
<1>2. ASSUME NEW part \in S
      PROVE  F[part] \in Nat
  <2>1. WellFormed(e.fields[part]) /\ p[part] \in Int
    BY DEF WellFormedFields, IntegerParts
  <2>2. FieldSum(e.fields[part], p[part], h) \in Nat
    BY <2>1, FieldSumMade, MadeIsNat
  <2>3. QED
    BY <2>2 DEF AddedTo
<1>3. Stored(e, p, h) = e.base[h] + iter[S]
  BY DEF Stored, Placed, FieldSum, MapThenSumSet, MapThenFoldSet, AnyOf
<1>4. \A i : Body(i) = SumStep(i, F, S)
  <2>1. \A s \in SUBSET S : s # {} => AnyOf(s) \in S
    BY DEF AnyOf
  <2>2. \A x \in S : F[x] = FieldSum(e.fields[x], p[x], h)
    BY DEF AddedTo
  <2> HIDE DEF F, S
  <2>3. QED
    BY <2>1, <2>2 DEF SumStep
<1> HIDE DEF S, F, Body
<1>5. iter = Body(iter)
  <2>1. \E i : i = Body(i)
    BY <1>1, <1>2, <1>4, SumStepFixed
  <2>2. QED
    BY <2>1
<1>6. IsSum(iter[S], F, S)
  <2> HIDE DEF iter
  <2>1. iter = SumStep(iter, F, S)
    BY <1>4, <1>5
  <2>2. QED
    BY <2>1, SumStepIsSum
<1> HIDE DEF iter
<1>7. NatSum(iter[S], F, S)
  BY <1>1, <1>2, <1>6 DEF NatSum
<1>8. QED
  BY <1>3, <1>7 DEF S, F

LEMMA StoredIsNat ==
    ASSUME NEW e, WellFormedFields(e), NEW p, IntegerParts(e, p), NEW h, e.base[h] \in Nat
    PROVE  Stored(e, p, h) \in Nat
<1>1. PICK n : NatSum(n, AddedTo(e, p, h), DOMAIN e.fields) /\ Stored(e, p, h) = e.base[h] + n
  BY StoredIsSum
<1>2. n \in Nat
  BY <1>1, NatSumIsNat
<1>3. QED
  BY <1>1, <1>2

PlacedIn(e, ins, h) == Placed(e, h, LAMBDA part, piece : Piece(ins, piece))

LEMMA PlacedIsSum ==
    ASSUME NEW e, WellFormedFields(e), NEW ins, NEW h, ins[h] \in Int
    PROVE  NatSum(PlacedIn(e, ins, h), FoundIn(e, ins, h), DOMAIN e.fields)
<1> DEFINE S == DOMAIN e.fields
           F == FoundIn(e, ins, h)
           Body(i) == [s \in SUBSET S |->
                          IF s = {} THEN 0
                          ELSE MatchSum(e.fields[AnyOf(s)], ins, h) + i[s \ {AnyOf(s)}]]
           iter == CHOOSE i : i = Body(i)
<1>1. IsFiniteSet(S)
  BY DEF WellFormedFields
<1>2. ASSUME NEW part \in S
      PROVE  F[part] \in Nat
  <2>1. WellFormed(e.fields[part])
    BY DEF WellFormedFields
  <2>2. MatchSum(e.fields[part], ins, h) \in Nat
    BY <2>1, MatchSumMade, MadeIsNat
  <2>3. QED
    BY <2>2 DEF FoundIn
<1>3. PlacedIn(e, ins, h) = iter[S]
  BY DEF PlacedIn, Placed, MatchSum, InHalf, MapThenSumSet, MapThenFoldSet, AnyOf
<1>4. \A i : Body(i) = SumStep(i, F, S)
  <2>1. \A s \in SUBSET S : s # {} => AnyOf(s) \in S
    BY DEF AnyOf
  <2>2. \A x \in S : F[x] = MatchSum(e.fields[x], ins, h)
    BY DEF FoundIn
  <2> HIDE DEF F, S
  <2>3. QED
    BY <2>1, <2>2 DEF SumStep
<1> HIDE DEF S, F, Body
<1>5. iter = Body(iter)
  <2>1. \E i : i = Body(i)
    BY <1>1, <1>2, <1>4, SumStepFixed
  <2>2. QED
    BY <2>1
<1>6. IsSum(iter[S], F, S)
  <2> HIDE DEF iter
  <2>1. iter = SumStep(iter, F, S)
    BY <1>4, <1>5
  <2>2. QED
    BY <2>1, SumStepIsSum
<1> HIDE DEF iter
<1>7. NatSum(iter[S], F, S)
  BY <1>1, <1>2, <1>6 DEF NatSum
<1>8. QED
  BY <1>3, <1>7 DEF S, F

\* What Gathered adds up, before it is twisted
RawSum(f, ins) == MapThenSumSet(LAMBDA piece : Piece(ins, piece) * 2^piece[1], f.pieces)

Collected(f, ins) == [x \in f.pieces |-> Piece(ins, x) * 2^x[1]]

LEMMA RawIsSum ==
    ASSUME NEW f, WellFormed(f), NEW ins, \A x \in f.pieces : ins[x[3] \div 16 + 1] \in Int
    PROVE  NatSum(RawSum(f, ins), Collected(f, ins), f.pieces)
<1> DEFINE S == f.pieces
           F == Collected(f, ins)
           Body(i) == [s \in SUBSET S |->
                          IF s = {} THEN 0
                          ELSE Piece(ins, AnyOf(s)) * 2^AnyOf(s)[1] + i[s \ {AnyOf(s)}]]
           iter == CHOOSE i : i = Body(i)
<1>1. IsFiniteSet(S)
  BY DEF WellFormed, Shaped
<1>2. ASSUME NEW x \in S
      PROVE  F[x] \in Nat
  <2>1. x[1] \in 0 .. 31 /\ x[3] % 16 \in 0 .. 31 /\ x[2] \in 0 .. 31
    BY DEF WellFormed
  <2>2. Piece(ins, x) \in 0 .. 2^x[2] - 1
    BY <2>1, ExtractRange DEF Piece
  <2>3. \A m : \A i \in 0 .. m : i \in Nat
    OBVIOUS
  <2>4. Piece(ins, x) \in Nat /\ 2^x[1] \in Nat
    BY <2>1, <2>2, <2>3, Powers, Zenon
  <2>5. \A i, j \in Nat : i * j \in Nat
    OBVIOUS
  <2>6. Piece(ins, x) * 2^x[1] \in Nat
    BY <2>4, <2>5, Zenon
  <2>7. QED
    BY <2>6 DEF Collected
<1>3. RawSum(f, ins) = iter[S]
  BY DEF RawSum, MapThenSumSet, MapThenFoldSet, AnyOf
<1>4. \A i : Body(i) = SumStep(i, F, S)
  <2>1. \A s \in SUBSET S : s # {} => AnyOf(s) \in S
    BY DEF AnyOf
  <2>2. \A x \in S : F[x] = Piece(ins, x) * 2^x[1]
    BY DEF Collected
  <2> HIDE DEF F, S
  <2>3. QED
    BY <2>1, <2>2 DEF SumStep
<1> HIDE DEF S, F, Body
<1>5. iter = Body(iter)
  <2>1. \E i : i = Body(i)
    BY <1>1, <1>2, <1>4, SumStepFixed
  <2>2. QED
    BY <2>1
<1>6. IsSum(iter[S], F, S)
  <2> HIDE DEF iter
  <2>1. iter = SumStep(iter, F, S)
    BY <1>4, <1>5
  <2>2. QED
    BY <2>1, SumStepIsSum
<1>7. QED
  BY <1>1, <1>2, <1>3, <1>6 DEF NatSum, S, F

\* The field f is in halfword h alone, where it is size values of this weight.
LiesAt(f, h, size, weight) ==
    /\ WellFormed(f) /\ ~f.signed
    /\ \A v \in Int : FieldSum(f, v, h) = (v % size) * weight /\ FieldSum(f, v, 3 - h) = 0
    /\ \A ins : ins[h] \in Int =>
           /\ MatchSum(f, ins, h) = ((ins[h] \div weight) % size) * weight
           /\ Gathered(f, ins) = (ins[h] \div weight) % size
    /\ \A ins : ins[3 - h] \in Int => MatchSum(f, ins, 3 - h) = 0

LEMMA NoneInHalf ==
    ASSUME NEW f, WellFormed(f), NEW h, InHalf(f, h) = {}
    PROVE  /\ \A v \in Int : FieldSum(f, v, h) = 0
           /\ \A ins : ins[h] \in Int => MatchSum(f, ins, h) = 0
<1>1. ASSUME NEW v \in Int
      PROVE  FieldSum(f, v, h) = 0
  <2>1. IsSum(FieldSum(f, v, h), Part(Encoded(f, v, h), f, h), {})
    BY FieldIsSum
  <2>2. QED
    BY <2>1, SumOfNone
<1>2. ASSUME NEW ins, ins[h] \in Int
      PROVE  MatchSum(f, ins, h) = 0
  <2>1. IsSum(MatchSum(f, ins, h), Part(Found(f, ins, h), f, h), {})
    BY <1>2, MatchIsSum
  <2>2. QED
    BY <2>1, SumOfNone
<1>3. QED
  BY <1>1, <1>2

LEMMA BitsLie ==
    ASSUME NEW width \in 1 .. 31, NEW h \in {1, 2}, NEW b \in 0 .. 15, NEW at, at = 16 * (h - 1) + b
    PROVE  LiesAt(Bits(width, at), h, 2^width, 2^b)
<1> DEFINE f == Bits(width, at)
           x == <<0, width, at>>
           size == 2^width
           weight == 2^b
<1>1. /\ f.width = width /\ f.twisted = FALSE /\ f.pieces = {x} /\ f.signed = FALSE
      /\ x[1] = 0 /\ x[2] = width /\ x[3] = at
  BY DEF Bits, Field
<1>2. at \in 0 .. 31 /\ at \div 16 + 1 = h /\ at % 16 = b
  OBVIOUS
<1>3. WellFormed(f)
  <2>1. IsFiniteSet({x})
    BY FS_Singleton
  <2>2. width \in 0 .. 31 /\ at \in 0 .. 31 /\ 0 \in 0 .. 31
    BY <1>2
  <2> HIDE DEF f, x
  <2>3. \A piece \in f.pieces : piece[1] \in 0 .. 31 /\ piece[2] \in 0 .. 31 /\ piece[3] \in 0 .. 31
    BY <1>1, <2>2, Zenon
  <2>4. f.width \in 1 .. 31 /\ IsFiniteSet(f.pieces)
    BY <1>1, <2>1, Zenon
  <2>5. QED
    BY <1>1, <2>3, <2>4, Zenon DEF WellFormed, Shaped
<1>4. InHalf(f, h) = {x} /\ InHalf(f, 3 - h) = {}
  <2>1. 3 - h # h
    OBVIOUS
  <2> HIDE DEF f
  <2>2. QED
    BY <1>1, <1>2, <2>1 DEF InHalf
<1>5. size \in Nat \ {0} /\ weight \in Nat \ {0} /\ 2^0 = 1
  <2>1. width \in 0 .. 31 /\ b \in 0 .. 31
    OBVIOUS
  <2>2. 2^width \in Nat \ {0} /\ 2^b \in Nat \ {0}
    BY <2>1, Powers, Zenon
  <2>3. QED
    BY <2>2
<1> HIDE DEF f
<1>6. \A n, F : IsSum(n, F, {x}) /\ F[x] \in Nat => n = F[x]
  <2>1. ASSUME NEW n, NEW F, IsSum(n, F, {x}), F[x] \in Nat
        PROVE  n = F[x]
    <3>1. IsFiniteSet({x})
      BY FS_Singleton
    <3> HIDE DEF x
    <3>2. NatSum(n, F, {x})
      BY <2>1, <3>1 DEF NatSum
    <3>3. QED
      BY <3>2, SumOfOne
  <2>2. QED
    BY <2>1
<1>7. \A k : Part(k, f, h) = [y \in {x} |-> k[y] * 2^(y[3] % 16)]
  BY <1>4 DEF Part
<1>8. \A k : Part(k, f, h)[x] = k[x] * weight
  <2>1. x[3] % 16 = b
    BY <1>1, <1>2
  <2> HIDE DEF x
  <2>2. \A k : Part(k, f, h)[x] = k[x] * 2^(x[3] % 16)
    BY <1>7
  <2>3. QED
    BY <2>1, <2>2, Zenon
<1>9. ASSUME NEW v \in Int
      PROVE  FieldSum(f, v, h) = (v % size) * weight
  <2>1. v % size \in 0 .. size - 1
    BY <1>5
  <2>2. Twist(f, v % 2^f.width) = v % size
    BY <1>1 DEF Twist
  <2>3. Encoded(f, v, h)[x] = Extract(v % size, 0, width)
    BY <1>1, <1>4, <2>2 DEF Encoded
  <2>4. Extract(v % size, 0, width) = ((v % size) \div 1) % size
    BY <1>5 DEF Extract
  <2>5. \A r \in 0 .. size - 1 : (r \div 1) % size = r
    <3> HIDE DEF size
    <3>1. QED
      BY <1>5
  <2>6. Encoded(f, v, h)[x] = v % size
    BY <2>1, <2>3, <2>4, <2>5, Zenon
  <2>7. (v % size) * weight \in Nat
    <3> DEFINE r == v % size
    <3>1. r \in Nat /\ weight \in Nat
      BY <1>5, <2>1
    <3> HIDE DEF r, weight
    <3>2. r * weight \in Nat
      BY <3>1
    <3>3. QED
      BY <3>2 DEF r
  <2>8. Part(Encoded(f, v, h), f, h)[x] = (v % size) * weight
    BY <1>8, <2>6, Zenon
  <2>9. IsSum(FieldSum(f, v, h), Part(Encoded(f, v, h), f, h), {x})
    BY <1>3, <1>4, FieldIsSum
  <2>10. QED
    BY <1>6, <2>7, <2>8, <2>9, Zenon
<1>10. ASSUME NEW ins, ins[h] \in Int
       PROVE  /\ MatchSum(f, ins, h) = ((ins[h] \div weight) % size) * weight
              /\ Gathered(f, ins) = (ins[h] \div weight) % size
  <2> DEFINE r == (ins[h] \div weight) % size
  <2>1. r \in Nat
    <3> HIDE DEF size, weight
    <3>1. QED
      BY <1>5, <1>10
  <2>2. Piece(ins, x) = r
    <3>1. Piece(ins, x) = Extract(ins[h], b, width)
      BY <1>1, <1>2 DEF Piece
    <3>2. QED
      BY <3>1 DEF Extract
  <2> HIDE DEF r
  <2>3. Found(f, ins, h)[x] = r
    BY <1>4, <2>2 DEF Found
  <2>4. Part(Found(f, ins, h), f, h)[x] = r * weight
    BY <1>8, <2>3, Zenon
  <2>5. r * weight \in Nat
    <3> HIDE DEF weight
    <3>1. QED
      BY <1>5, <2>1
  <2>6. IsSum(MatchSum(f, ins, h), Part(Found(f, ins, h), f, h), {x})
    BY <1>3, <1>4, <1>10, MatchIsSum
  <2>7. MatchSum(f, ins, h) = r * weight
    BY <1>6, <2>4, <2>5, <2>6, Zenon
  <2>8. NatSum(RawSum(f, ins), Collected(f, ins), {x})
    <3>1. \A y \in f.pieces : ins[y[3] \div 16 + 1] \in Int
      BY <1>1, <1>2, <1>10
    <3>2. QED
      BY <1>1, <1>3, <3>1, RawIsSum
  <2>9. RawSum(f, ins) = Collected(f, ins)[x]
    <3> HIDE DEF x
    <3>1. QED
      BY <2>8, SumOfOne
  <2>10. Collected(f, ins)[x] = r * 1
    BY <1>1, <1>5, <2>2 DEF Collected
  <2>11. RawSum(f, ins) = r
    BY <2>1, <2>9, <2>10
  <2>12. Gathered(f, ins) = r
    BY <1>1, <2>11 DEF Gathered, RawSum, Twist
  <2>13. QED
    BY <2>7, <2>12 DEF r
<1>11. /\ \A v \in Int : FieldSum(f, v, 3 - h) = 0
       /\ \A ins : ins[3 - h] \in Int => MatchSum(f, ins, 3 - h) = 0
  BY <1>3, <1>4, NoneInHalf
<1>12. LiesAt(f, h, size, weight)
  <2>1. ~f.signed
    BY <1>1
  <2> HIDE DEF size, weight
  <2>2. QED
    BY <1>3, <1>9, <1>10, <1>11, <2>1 DEF LiesAt
<1>13. QED
  BY <1>12 DEF f

LEMMA BitsLieAt ==
    /\ LiesAt(Bits(4, 28), 2, 16, 4096)
    /\ LiesAt(Bits(1, 26), 2, 2, 1024)
    /\ LiesAt(Bits(1, 25), 2, 2, 512)
    /\ LiesAt(Bits(1, 24), 2, 2, 256)
    /\ LiesAt(Bits(8, 16), 2, 256, 1)
    /\ LiesAt(Bits(12, 16), 2, 4096, 1)
    /\ LiesAt(Bits(2, 20), 2, 4, 16)
    /\ LiesAt(Bits(4, 16), 2, 16, 1)
    /\ LiesAt(Bits(4, 24), 2, 16, 256)
    /\ LiesAt(Bits(4, 0), 1, 16, 1)
    /\ LiesAt(Bits(8, 0), 1, 256, 1)
    /\ LiesAt(Bits(1, 7), 1, 2, 128)
    /\ LiesAt(Bits(4, 6), 1, 16, 64)
    /\ LiesAt(Bits(4, 8), 1, 16, 256)
<1>1. LiesAt(Bits(4, 28), 2, 16, 4096)
  <2>1. 2^4 = 16 /\ 2^12 = 4096
    OBVIOUS
  <2>2. LiesAt(Bits(4, 28), 2, 2^4, 2^12)
    <3>1. 4 \in 1 .. 31 /\ 2 \in {1, 2} /\ 12 \in 0 .. 15 /\ 28 = 16 * (2 - 1) + 12
      OBVIOUS
    <3>2. QED
      BY <3>1, BitsLie, Zenon
  <2>3. QED
    BY <2>1, <2>2, SMT
<1>2. LiesAt(Bits(1, 26), 2, 2, 1024)
  <2>1. 2^1 = 2 /\ 2^10 = 1024
    OBVIOUS
  <2>2. LiesAt(Bits(1, 26), 2, 2^1, 2^10)
    <3>1. 1 \in 1 .. 31 /\ 2 \in {1, 2} /\ 10 \in 0 .. 15 /\ 26 = 16 * (2 - 1) + 10
      OBVIOUS
    <3>2. QED
      BY <3>1, BitsLie, Zenon
  <2>3. QED
    BY <2>1, <2>2, Zenon
<1>3. LiesAt(Bits(1, 25), 2, 2, 512)
  <2>1. 2^1 = 2 /\ 2^9 = 512
    OBVIOUS
  <2>2. LiesAt(Bits(1, 25), 2, 2^1, 2^9)
    <3>1. 1 \in 1 .. 31 /\ 2 \in {1, 2} /\ 9 \in 0 .. 15 /\ 25 = 16 * (2 - 1) + 9
      OBVIOUS
    <3>2. QED
      BY <3>1, BitsLie, Zenon
  <2>3. QED
    BY <2>1, <2>2, Zenon
<1>4. LiesAt(Bits(1, 24), 2, 2, 256)
  <2>1. 2^1 = 2 /\ 2^8 = 256
    OBVIOUS
  <2>2. LiesAt(Bits(1, 24), 2, 2^1, 2^8)
    <3>1. 1 \in 1 .. 31 /\ 2 \in {1, 2} /\ 8 \in 0 .. 15 /\ 24 = 16 * (2 - 1) + 8
      OBVIOUS
    <3>2. QED
      BY <3>1, BitsLie, Zenon
  <2>3. QED
    BY <2>1, <2>2, Zenon
<1>5. LiesAt(Bits(8, 16), 2, 256, 1)
  <2>1. 2^8 = 256 /\ 2^0 = 1
    OBVIOUS
  <2>2. LiesAt(Bits(8, 16), 2, 2^8, 2^0)
    <3>1. 8 \in 1 .. 31 /\ 2 \in {1, 2} /\ 0 \in 0 .. 15 /\ 16 = 16 * (2 - 1) + 0
      OBVIOUS
    <3>2. QED
      BY <3>1, BitsLie, Zenon
  <2>3. QED
    BY <2>1, <2>2, Zenon
<1>6. LiesAt(Bits(12, 16), 2, 4096, 1)
  <2>1. 2^12 = 4096 /\ 2^0 = 1
    OBVIOUS
  <2>2. LiesAt(Bits(12, 16), 2, 2^12, 2^0)
    <3>1. 12 \in 1 .. 31 /\ 2 \in {1, 2} /\ 0 \in 0 .. 15 /\ 16 = 16 * (2 - 1) + 0
      OBVIOUS
    <3>2. QED
      BY <3>1, BitsLie, Zenon
  <2>3. QED
    BY <2>1, <2>2, SMT
<1>7. LiesAt(Bits(2, 20), 2, 4, 16)
  <2>1. 2^2 = 4 /\ 2^4 = 16
    OBVIOUS
  <2>2. LiesAt(Bits(2, 20), 2, 2^2, 2^4)
    <3>1. 2 \in 1 .. 31 /\ 2 \in {1, 2} /\ 4 \in 0 .. 15 /\ 20 = 16 * (2 - 1) + 4
      OBVIOUS
    <3>2. QED
      BY <3>1, BitsLie, Zenon
  <2>3. QED
    BY <2>1, <2>2, Zenon
<1>8. LiesAt(Bits(4, 16), 2, 16, 1)
  <2>1. 2^4 = 16 /\ 2^0 = 1
    OBVIOUS
  <2>2. LiesAt(Bits(4, 16), 2, 2^4, 2^0)
    <3>1. 4 \in 1 .. 31 /\ 2 \in {1, 2} /\ 0 \in 0 .. 15 /\ 16 = 16 * (2 - 1) + 0
      OBVIOUS
    <3>2. QED
      BY <3>1, BitsLie, Zenon
  <2>3. QED
    BY <2>1, <2>2, Zenon
<1>9. LiesAt(Bits(4, 24), 2, 16, 256)
  <2>1. 2^4 = 16 /\ 2^8 = 256
    OBVIOUS
  <2>2. LiesAt(Bits(4, 24), 2, 2^4, 2^8)
    <3>1. 4 \in 1 .. 31 /\ 2 \in {1, 2} /\ 8 \in 0 .. 15 /\ 24 = 16 * (2 - 1) + 8
      OBVIOUS
    <3>2. QED
      BY <3>1, BitsLie, Zenon
  <2>3. QED
    BY <2>1, <2>2, Zenon
<1>10. LiesAt(Bits(4, 0), 1, 16, 1)
  <2>1. 2^4 = 16 /\ 2^0 = 1
    OBVIOUS
  <2>2. LiesAt(Bits(4, 0), 1, 2^4, 2^0)
    <3>1. 4 \in 1 .. 31 /\ 1 \in {1, 2} /\ 0 \in 0 .. 15 /\ 0 = 16 * (1 - 1) + 0
      OBVIOUS
    <3>2. QED
      BY <3>1, BitsLie, Zenon
  <2>3. QED
    BY <2>1, <2>2, Zenon
<1>11. LiesAt(Bits(8, 0), 1, 256, 1)
  <2>1. 2^8 = 256 /\ 2^0 = 1
    OBVIOUS
  <2>2. LiesAt(Bits(8, 0), 1, 2^8, 2^0)
    <3>1. 8 \in 1 .. 31 /\ 1 \in {1, 2} /\ 0 \in 0 .. 15 /\ 0 = 16 * (1 - 1) + 0
      OBVIOUS
    <3>2. QED
      BY <3>1, BitsLie, Zenon
  <2>3. QED
    BY <2>1, <2>2, Zenon
<1>12. LiesAt(Bits(1, 7), 1, 2, 128)
  <2>1. 2^1 = 2 /\ 2^7 = 128
    OBVIOUS
  <2>2. LiesAt(Bits(1, 7), 1, 2^1, 2^7)
    <3>1. 1 \in 1 .. 31 /\ 1 \in {1, 2} /\ 7 \in 0 .. 15 /\ 7 = 16 * (1 - 1) + 7
      OBVIOUS
    <3>2. QED
      BY <3>1, BitsLie, Zenon
  <2>3. QED
    BY <2>1, <2>2, Zenon
<1>13. LiesAt(Bits(4, 6), 1, 16, 64)
  <2>1. 2^4 = 16 /\ 2^6 = 64
    OBVIOUS
  <2>2. LiesAt(Bits(4, 6), 1, 2^4, 2^6)
    <3>1. 4 \in 1 .. 31 /\ 1 \in {1, 2} /\ 6 \in 0 .. 15 /\ 6 = 16 * (1 - 1) + 6
      OBVIOUS
    <3>2. QED
      BY <3>1, BitsLie, Zenon
  <2>3. QED
    BY <2>1, <2>2, Zenon
<1>14. LiesAt(Bits(4, 8), 1, 16, 256)
  <2>1. 2^4 = 16 /\ 2^8 = 256
    OBVIOUS
  <2>2. LiesAt(Bits(4, 8), 1, 2^4, 2^8)
    <3>1. 4 \in 1 .. 31 /\ 1 \in {1, 2} /\ 8 \in 0 .. 15 /\ 8 = 16 * (1 - 1) + 8
      OBVIOUS
    <3>2. QED
      BY <3>1, BitsLie, Zenon
  <2>3. QED
    BY <2>1, <2>2, Zenon
<1>15. QED
  BY <1>1, <1>2, <1>3, <1>4, <1>5, <1>6, <1>7, <1>8, <1>9, <1>10, <1>11, <1>12, <1>13, <1>14, SMT

-----------------------------------------------------------------------------
LEMMA MatchIsPlaced ==
    ASSUME NEW e, NEW ins
    PROVE  Match(e, ins) <=> /\ Len(ins) = Len(e.base)
                              /\ \A h \in DOMAIN ins : ins[h] = e.base[h] + PlacedIn(e, ins, h)
  BY DEF Match, PlacedIn

\* Piece x is up to m times w.
Weighs(x, m, w) == 2^x[2] - 1 = m /\ 2^(x[3] % 16) = w

Sums1(mx, wx)                 == {i * wx : i \in 0 .. mx}
Sums2(mx, wx, my, wy)         == {i * wx + j * wy : i \in 0 .. mx, j \in 0 .. my}
Sums3(mx, wx, my, wy, mz, wz) ==
    {i * wx + j * wy + l * wz : i \in 0 .. mx, j \in 0 .. my, l \in 0 .. mz}

OneIn(f, h, x, mx, wx) == WellFormed(f) /\ InHalf(f, h) = {x} /\ Weighs(x, mx, wx)

TwoIn(f, h, x, mx, wx, y, my, wy) ==
    /\ WellFormed(f) /\ InHalf(f, h) = {x, y} /\ x # y
    /\ Weighs(x, mx, wx) /\ Weighs(y, my, wy)

ThreeIn(f, h, x, mx, wx, y, my, wy, z, mz, wz) ==
    /\ WellFormed(f) /\ InHalf(f, h) = {x, y, z} /\ x # y /\ x # z /\ y # z
    /\ Weighs(x, mx, wx) /\ Weighs(y, my, wy) /\ Weighs(z, mz, wz)

\* One, two or three pieces of a field in a halfword
LEMMA OnePiece ==
    ASSUME NEW f, NEW h, NEW x, NEW mx, NEW wx, OneIn(f, h, x, mx, wx)
    PROVE  /\ \A n : Made(n, f, h) => n \in Sums1(mx, wx)
           /\ \A ins : ins[h] \in Int =>
                  MatchSum(f, ins, h) = Extract(ins[h], x[3] % 16, x[2]) * wx
<1>0. WellFormed(f) /\ InHalf(f, h) = {x} /\ Weighs(x, mx, wx)
  BY DEF OneIn
<1> USE <1>0
<1>1. ASSUME NEW k, \A y \in InHalf(f, h) : k[y] \in 0 .. 2^y[2] - 1,
             NEW n, IsSum(n, Part(k, f, h), InHalf(f, h))
      PROVE  n = k[x] * 2^(x[3] % 16) /\ k[x] \in 0 .. 2^x[2] - 1
  <2>1. IsFiniteSet(InHalf(f, h)) /\ \A y \in InHalf(f, h) : Part(k, f, h)[y] \in Nat
    BY <1>1, RangeIsNat, PartNat
  <2>2. NatSum(n, Part(k, f, h), {x})
    BY <1>1, <2>1 DEF NatSum
  <2>3. n = Part(k, f, h)[x]
    BY <2>2, SumOfOne
  <2>4. QED
    BY <1>1, <2>3 DEF Part
<1>2. ASSUME NEW n, Made(n, f, h)
      PROVE  \E i \in 0 .. 2^x[2] - 1 : n = i * 2^(x[3] % 16)
  <2>1. PICK k : /\ \A y \in InHalf(f, h) : k[y] \in 0 .. 2^y[2] - 1
                 /\ IsSum(n, Part(k, f, h), InHalf(f, h))
    BY <1>2 DEF Made
  <2>2. n = k[x] * 2^(x[3] % 16) /\ k[x] \in 0 .. 2^x[2] - 1
    BY <1>1, <2>1
  <2>3. QED
    BY <2>2, Zenon
<1>3. ASSUME NEW ins, ins[h] \in Int
      PROVE  MatchSum(f, ins, h) = Extract(ins[h], x[3] % 16, x[2]) * 2^(x[3] % 16)
  <2>1. MatchSum(f, ins, h) = Found(f, ins, h)[x] * 2^(x[3] % 16)
    BY <1>1, <1>3, FoundRange, MatchIsSum, Zenon
  <2>2. Found(f, ins, h)[x] = Extract(ins[h], x[3] % 16, x[2])
    <3>1. x \in InHalf(f, h) /\ x[3] \div 16 + 1 = h
      BY DEF InHalf
    <3>2. QED
      BY <3>1 DEF Found, Piece
  <2>3. QED
    BY <2>1, <2>2, Zenon
<1>4. QED
  BY <1>2, <1>3, Zenon DEF Weighs, Sums1

LEMMA TwoPieces ==
    ASSUME NEW f, NEW h, NEW x, NEW y, NEW mx, NEW wx, NEW my, NEW wy,
           TwoIn(f, h, x, mx, wx, y, my, wy), NEW n, Made(n, f, h)
    PROVE  n \in Sums2(mx, wx, my, wy)
<1>0. WellFormed(f) /\ InHalf(f, h) = {x, y} /\ x # y /\ Weighs(x, mx, wx) /\ Weighs(y, my, wy)
  BY DEF TwoIn
<1> USE <1>0
<1>1. PICK k : /\ \A z \in InHalf(f, h) : k[z] \in 0 .. 2^z[2] - 1
               /\ IsSum(n, Part(k, f, h), InHalf(f, h))
  BY DEF Made
<1>2. IsFiniteSet(InHalf(f, h)) /\ \A z \in InHalf(f, h) : Part(k, f, h)[z] \in Nat
  BY <1>1, RangeIsNat, PartNat
<1>3. NatSum(n, Part(k, f, h), {x, y})
  BY <1>1, <1>2 DEF NatSum
<1>4. n = Part(k, f, h)[x] + Part(k, f, h)[y]
  BY <1>3, SumOfTwo DEF SumsOfTwo, TwoIn
<1>5. Part(k, f, h)[x] = k[x] * 2^(x[3] % 16) /\ Part(k, f, h)[y] = k[y] * 2^(y[3] % 16)
  BY DEF Part
<1>6. k[x] \in 0 .. 2^x[2] - 1 /\ k[y] \in 0 .. 2^y[2] - 1
  BY <1>1
<1>7. n = k[x] * 2^(x[3] % 16) + k[y] * 2^(y[3] % 16)
  BY <1>4, <1>5, Zenon
<1>8. \E i \in 0 .. mx, j \in 0 .. my : n = i * wx + j * wy
  BY <1>6, <1>7, Zenon DEF Weighs
<1>9. QED
  BY <1>8 DEF Sums2

LEMMA ThreePieces ==
    ASSUME NEW f, NEW h, NEW x, NEW y, NEW z, NEW mx, NEW wx, NEW my, NEW wy, NEW mz, NEW wz,
           ThreeIn(f, h, x, mx, wx, y, my, wy, z, mz, wz), NEW n, Made(n, f, h)
    PROVE  n \in Sums3(mx, wx, my, wy, mz, wz)
<1>0. /\ WellFormed(f) /\ InHalf(f, h) = {x, y, z} /\ x # y /\ x # z /\ y # z
     /\ Weighs(x, mx, wx) /\ Weighs(y, my, wy) /\ Weighs(z, mz, wz)
  BY DEF ThreeIn
<1> USE <1>0
<1>1. PICK k : /\ \A u \in InHalf(f, h) : k[u] \in 0 .. 2^u[2] - 1
               /\ IsSum(n, Part(k, f, h), InHalf(f, h))
  BY DEF Made
<1>2. IsFiniteSet(InHalf(f, h)) /\ \A u \in InHalf(f, h) : Part(k, f, h)[u] \in Nat
  BY <1>1, RangeIsNat, PartNat
<1>3. NatSum(n, Part(k, f, h), {x, y, z})
  BY <1>1, <1>2 DEF NatSum
<1>4. n = Part(k, f, h)[x] + Part(k, f, h)[y] + Part(k, f, h)[z]
  <2>1. SumsOfThree(n, Part(k, f, h), x, y, z)
    BY <1>0, <1>3, Zenon DEF SumsOfThree
  <2>2. QED
    BY <2>1, SumOfThree
<1>5. /\ Part(k, f, h)[x] = k[x] * 2^(x[3] % 16) /\ Part(k, f, h)[y] = k[y] * 2^(y[3] % 16)
      /\ Part(k, f, h)[z] = k[z] * 2^(z[3] % 16)
  BY DEF Part
<1>6. k[x] \in 0 .. 2^x[2] - 1 /\ k[y] \in 0 .. 2^y[2] - 1 /\ k[z] \in 0 .. 2^z[2] - 1
  BY <1>1
<1>7. n = k[x] * 2^(x[3] % 16) + k[y] * 2^(y[3] % 16) + k[z] * 2^(z[3] % 16)
  BY <1>4, <1>5, Zenon
<1>8. \E i \in 0 .. mx, j \in 0 .. my, l \in 0 .. mz : n = i * wx + j * wy + l * wz
  BY <1>6, <1>7, Zenon DEF Weighs
<1>9. QED
  BY <1>8 DEF Sums3

\* What the pieces of immediates and branches can add to a halfword
ImmediateLow == Sums2(7, 4096, 255, 1)
BranchLow    == Sums3(1, 8192, 1, 2048, 2047, 1)
BranchHigh   == Sums2(1, 1024, 63, 1)
CodeHigh     == Sums1(15, 1)
CodeLow      == Sums1(4095, 1)

Gives(f, h, sums) ==
    /\ WellFormed(f)
    /\ \A v \in Int : FieldSum(f, v, h) \in sums
    /\ \A ins : ins[h] \in Int => MatchSum(f, ins, h) \in sums

LEMMA MadeGives ==
    ASSUME NEW f, WellFormed(f), NEW h, NEW sums, \A n : Made(n, f, h) => n \in sums
    PROVE  Gives(f, h, sums)
  BY FieldSumMade, MatchSumMade DEF Gives

LEMMA PiecesGive ==
    /\ Gives(Split(12, {<<8, 3, 28>>, <<0, 8, 16>>, <<11, 1, 10>>}), 2, ImmediateLow)
    /\ Gives(Split(16, {<<8, 3, 28>>, <<0, 8, 16>>, <<11, 1, 10>>, <<12, 4, 0>>}), 2, ImmediateLow)
    /\ Gives(Branch(21, {<<18, 1, 29>>, <<19, 1, 27>>, <<1, 11, 16>>, <<20, 1, 10>>, <<12, 6, 0>>}), 1, BranchHigh)
    /\ Gives(Branch(21, {<<18, 1, 29>>, <<19, 1, 27>>, <<1, 11, 16>>, <<20, 1, 10>>, <<12, 6, 0>>}), 2, BranchLow)
    /\ Gives(TwistedBranch(25, {<<23, 1, 29>>, <<22, 1, 27>>, <<1, 11, 16>>, <<24, 1, 10>>, <<12, 10, 0>>}), 2, BranchLow)
    /\ Gives(Split(16, {<<0, 12, 16>>, <<12, 4, 0>>}), 1, CodeHigh)
    /\ Gives(Split(16, {<<0, 12, 16>>, <<12, 4, 0>>}), 2, CodeLow)
<1>1. Gives(Split(12, {<<8, 3, 28>>, <<0, 8, 16>>, <<11, 1, 10>>}), 2, ImmediateLow)
  <2> DEFINE a == <<8, 3, 28>>
             b == <<0, 8, 16>>
             c == <<11, 1, 10>>
             f == Split(12, {a, b, c})
  <2>1. f.pieces = {a, b, c}
    BY DEF Split, Field
  <2>2. WellFormed(f)
    BY SplitCaps, Zenon DEF Caps
  <2>3. a[3] \div 16 + 1 = 2 /\ b[3] \div 16 + 1 = 2 /\ c[3] \div 16 + 1 # 2
    OBVIOUS
  <2>4. a # b
    OBVIOUS
  <2>5. Weighs(a, 7, 4096) /\ Weighs(b, 255, 1)
    BY DEF Weighs
  <2> HIDE DEF f, a, b, c
  <2>6. InHalf(f, 2) = {a, b}
    BY <2>1, <2>3, Zenon DEF InHalf
  <2>7. ASSUME NEW n, Made(n, f, 2)
        PROVE  n \in ImmediateLow
    <3>1. TwoIn(f, 2, a, 7, 4096, b, 255, 1)
      BY <2>2, <2>4, <2>5, <2>6 DEF TwoIn
    <3>2. n \in Sums2(7, 4096, 255, 1)
      BY <2>7, <3>1, TwoPieces
    <3>3. QED
      BY <3>2 DEF ImmediateLow
  <2>8. Gives(f, 2, ImmediateLow)
    BY <2>2, <2>7, MadeGives
  <2>9. QED
    BY <2>8 DEF f, a, b, c
<1>2. Gives(Split(16, {<<8, 3, 28>>, <<0, 8, 16>>, <<11, 1, 10>>, <<12, 4, 0>>}), 2, ImmediateLow)
  <2> DEFINE a == <<8, 3, 28>>
             b == <<0, 8, 16>>
             c == <<11, 1, 10>>
             d == <<12, 4, 0>>
             f == Split(16, {a, b, c, d})
  <2>1. f.pieces = {a, b, c, d}
    BY DEF Split, Field
  <2>2. WellFormed(f)
    BY SplitCaps, Zenon DEF Caps
  <2>3. a[3] \div 16 + 1 = 2 /\ b[3] \div 16 + 1 = 2 /\ c[3] \div 16 + 1 # 2 /\ d[3] \div 16 + 1 # 2
    OBVIOUS
  <2>4. a # b
    OBVIOUS
  <2>5. Weighs(a, 7, 4096) /\ Weighs(b, 255, 1)
    BY DEF Weighs
  <2> HIDE DEF f, a, b, c, d
  <2>6. InHalf(f, 2) = {a, b}
    BY <2>1, <2>3, Zenon DEF InHalf
  <2>7. ASSUME NEW n, Made(n, f, 2)
        PROVE  n \in ImmediateLow
    <3>1. TwoIn(f, 2, a, 7, 4096, b, 255, 1)
      BY <2>2, <2>4, <2>5, <2>6 DEF TwoIn
    <3>2. n \in Sums2(7, 4096, 255, 1)
      BY <2>7, <3>1, TwoPieces
    <3>3. QED
      BY <3>2 DEF ImmediateLow
  <2>8. Gives(f, 2, ImmediateLow)
    BY <2>2, <2>7, MadeGives
  <2>9. QED
    BY <2>8 DEF f, a, b, c, d
<1>3. Gives(Branch(21, {<<18, 1, 29>>, <<19, 1, 27>>, <<1, 11, 16>>, <<20, 1, 10>>, <<12, 6, 0>>}), 1, BranchHigh)
  <2> DEFINE a == <<18, 1, 29>>
             b == <<19, 1, 27>>
             c == <<1, 11, 16>>
             d == <<20, 1, 10>>
             e == <<12, 6, 0>>
             f == Branch(21, {a, b, c, d, e})
  <2>1. f.pieces = {a, b, c, d, e}
    BY DEF Branch, Field
  <2>2. WellFormed(f)
    BY SplitCaps, Zenon DEF Caps
  <2>3. a[3] \div 16 + 1 # 1 /\ b[3] \div 16 + 1 # 1 /\ c[3] \div 16 + 1 # 1 /\ d[3] \div 16 + 1 = 1 /\ e[3] \div 16 + 1 = 1
    OBVIOUS
  <2>4. d # e
    OBVIOUS
  <2>5. Weighs(d, 1, 1024) /\ Weighs(e, 63, 1)
    BY DEF Weighs
  <2> HIDE DEF f, a, b, c, d, e
  <2>6. InHalf(f, 1) = {d, e}
    BY <2>1, <2>3, Zenon DEF InHalf
  <2>7. ASSUME NEW n, Made(n, f, 1)
        PROVE  n \in BranchHigh
    <3>1. TwoIn(f, 1, d, 1, 1024, e, 63, 1)
      BY <2>2, <2>4, <2>5, <2>6 DEF TwoIn
    <3>2. n \in Sums2(1, 1024, 63, 1)
      BY <2>7, <3>1, TwoPieces
    <3>3. QED
      BY <3>2 DEF BranchHigh
  <2>8. Gives(f, 1, BranchHigh)
    BY <2>2, <2>7, MadeGives
  <2>9. QED
    BY <2>8 DEF f, a, b, c, d, e
<1>4. Gives(Branch(21, {<<18, 1, 29>>, <<19, 1, 27>>, <<1, 11, 16>>, <<20, 1, 10>>, <<12, 6, 0>>}), 2, BranchLow)
  <2> DEFINE a == <<18, 1, 29>>
             b == <<19, 1, 27>>
             c == <<1, 11, 16>>
             d == <<20, 1, 10>>
             e == <<12, 6, 0>>
             f == Branch(21, {a, b, c, d, e})
  <2>1. f.pieces = {a, b, c, d, e}
    BY DEF Branch, Field
  <2>2. WellFormed(f)
    BY SplitCaps, Zenon DEF Caps
  <2>3. a[3] \div 16 + 1 = 2 /\ b[3] \div 16 + 1 = 2 /\ c[3] \div 16 + 1 = 2 /\ d[3] \div 16 + 1 # 2 /\ e[3] \div 16 + 1 # 2
    OBVIOUS
  <2>4. a # b /\ a # c /\ b # c
    OBVIOUS
  <2>5. Weighs(a, 1, 8192) /\ Weighs(b, 1, 2048) /\ Weighs(c, 2047, 1)
    BY DEF Weighs
  <2> HIDE DEF f, a, b, c, d, e
  <2>6. InHalf(f, 2) = {a, b, c}
    BY <2>1, <2>3, Zenon DEF InHalf
  <2>7. ASSUME NEW n, Made(n, f, 2)
        PROVE  n \in BranchLow
    <3>1. ThreeIn(f, 2, a, 1, 8192, b, 1, 2048, c, 2047, 1)
      BY <2>2, <2>4, <2>5, <2>6 DEF ThreeIn
    <3>2. n \in Sums3(1, 8192, 1, 2048, 2047, 1)
      BY <2>7, <3>1, ThreePieces
    <3>3. QED
      BY <3>2 DEF BranchLow
  <2>8. Gives(f, 2, BranchLow)
    BY <2>2, <2>7, MadeGives
  <2>9. QED
    BY <2>8 DEF f, a, b, c, d, e
<1>5. Gives(TwistedBranch(25, {<<23, 1, 29>>, <<22, 1, 27>>, <<1, 11, 16>>, <<24, 1, 10>>, <<12, 10, 0>>}), 2, BranchLow)
  <2> DEFINE a == <<23, 1, 29>>
             b == <<22, 1, 27>>
             c == <<1, 11, 16>>
             d == <<24, 1, 10>>
             e == <<12, 10, 0>>
             f == TwistedBranch(25, {a, b, c, d, e})
  <2>1. f.pieces = {a, b, c, d, e}
    BY DEF TwistedBranch, Branch, Field
  <2>2. WellFormed(f)
    BY SplitCaps, Zenon DEF Caps
  <2>3. a[3] \div 16 + 1 = 2 /\ b[3] \div 16 + 1 = 2 /\ c[3] \div 16 + 1 = 2 /\ d[3] \div 16 + 1 # 2 /\ e[3] \div 16 + 1 # 2
    OBVIOUS
  <2>4. a # b /\ a # c /\ b # c
    OBVIOUS
  <2>5. Weighs(a, 1, 8192) /\ Weighs(b, 1, 2048) /\ Weighs(c, 2047, 1)
    BY DEF Weighs
  <2> HIDE DEF f, a, b, c, d, e
  <2>6. InHalf(f, 2) = {a, b, c}
    BY <2>1, <2>3, Zenon DEF InHalf
  <2>7. ASSUME NEW n, Made(n, f, 2)
        PROVE  n \in BranchLow
    <3>1. ThreeIn(f, 2, a, 1, 8192, b, 1, 2048, c, 2047, 1)
      BY <2>2, <2>4, <2>5, <2>6 DEF ThreeIn
    <3>2. n \in Sums3(1, 8192, 1, 2048, 2047, 1)
      BY <2>7, <3>1, ThreePieces
    <3>3. QED
      BY <3>2 DEF BranchLow
  <2>8. Gives(f, 2, BranchLow)
    BY <2>2, <2>7, MadeGives
  <2>9. QED
    BY <2>8 DEF f, a, b, c, d, e
<1>6. Gives(Split(16, {<<0, 12, 16>>, <<12, 4, 0>>}), 1, CodeHigh)
  <2> DEFINE a == <<0, 12, 16>>
             b == <<12, 4, 0>>
             f == Split(16, {a, b})
  <2>1. f.pieces = {a, b}
    BY DEF Split, Field
  <2>2. WellFormed(f)
    BY SplitCaps, Zenon DEF Caps
  <2>3. a[3] \div 16 + 1 # 1 /\ b[3] \div 16 + 1 = 1
    OBVIOUS
  <2>5. Weighs(b, 15, 1)
    BY DEF Weighs
  <2> HIDE DEF f, a, b
  <2>6. InHalf(f, 1) = {b}
    BY <2>1, <2>3, Zenon DEF InHalf
  <2>7. ASSUME NEW n, Made(n, f, 1)
        PROVE  n \in CodeHigh
    <3>1. OneIn(f, 1, b, 15, 1)
      BY <2>2, <2>5, <2>6 DEF OneIn
    <3>2. n \in Sums1(15, 1)
      BY <2>7, <3>1, OnePiece
    <3>3. QED
      BY <3>2 DEF CodeHigh
  <2>8. Gives(f, 1, CodeHigh)
    BY <2>2, <2>7, MadeGives
  <2>9. QED
    BY <2>8 DEF f, a, b
<1>7. Gives(Split(16, {<<0, 12, 16>>, <<12, 4, 0>>}), 2, CodeLow)
  <2> DEFINE a == <<0, 12, 16>>
             b == <<12, 4, 0>>
             f == Split(16, {a, b})
  <2>1. f.pieces = {a, b}
    BY DEF Split, Field
  <2>2. WellFormed(f)
    BY SplitCaps, Zenon DEF Caps
  <2>3. a[3] \div 16 + 1 = 2 /\ b[3] \div 16 + 1 # 2
    OBVIOUS
  <2>5. Weighs(a, 4095, 1)
    BY DEF Weighs
  <2> HIDE DEF f, a, b
  <2>6. InHalf(f, 2) = {a}
    BY <2>1, <2>3, Zenon DEF InHalf
  <2>7. ASSUME NEW n, Made(n, f, 2)
        PROVE  n \in CodeLow
    <3>1. OneIn(f, 2, a, 4095, 1)
      BY <2>2, <2>5, <2>6 DEF OneIn
    <3>2. n \in Sums1(4095, 1)
      BY <2>7, <3>1, OnePiece
    <3>3. QED
      BY <3>2 DEF CodeLow
  <2>8. Gives(f, 2, CodeLow)
    BY <2>2, <2>7, MadeGives
  <2>9. QED
    BY <2>8 DEF f, a, b
<1>8. QED
  BY <1>1, <1>2, <1>3, <1>4, <1>5, <1>6, <1>7

-----------------------------------------------------------------------------
(***************************************************************************)
(* The halfwords of the wide encodings                                     *)
(***************************************************************************)
AtPart(e, q, h, size, weight) == q \in DOMAIN e.fields /\ LiesAt(e.fields[q], h, size, weight)
SumPart(e, q, h, sums)        == q \in DOMAIN e.fields /\ Gives(e.fields[q], h, sums)
Halfwords(ins)               == ins[1] \in Int /\ ins[2] \in Int

LEMMA AddedHere ==
    ASSUME NEW e, NEW p, IntegerParts(e, p), NEW q, NEW h, NEW size, NEW weight,
           AtPart(e, q, h, size, weight)
    PROVE  AddedTo(e, p, h)[q] = (p[q] % size) * weight
  BY Zenon DEF AddedTo, LiesAt, AtPart, IntegerParts

LEMMA AddedElsewhere ==
    ASSUME NEW e, NEW p, IntegerParts(e, p), NEW q, NEW h \in {1, 2}, NEW size, NEW weight,
           AtPart(e, q, h, size, weight), NEW k \in {1, 2}, k # h
    PROVE  AddedTo(e, p, k)[q] = 0
<1>1. k = 3 - h
  OBVIOUS
<1>2. AddedTo(e, p, 3 - h)[q] = 0
  BY Zenon DEF AddedTo, LiesAt, AtPart, IntegerParts
<1>3. QED
  BY <1>1, <1>2, Zenon

LEMMA FoundHere ==
    ASSUME NEW e, NEW ins, Halfwords(ins), NEW q, NEW h \in {1, 2}, NEW size, NEW weight,
           AtPart(e, q, h, size, weight)
    PROVE  FoundIn(e, ins, h)[q] = ((ins[h] \div weight) % size) * weight
<1>1. ins[h] \in Int
  BY SMT DEF Halfwords
<1>2. QED
  BY <1>1, Zenon DEF FoundIn, LiesAt, AtPart

LEMMA FoundElsewhere ==
    ASSUME NEW e, NEW ins, Halfwords(ins), NEW q, NEW h \in {1, 2}, NEW size, NEW weight,
           AtPart(e, q, h, size, weight), NEW k \in {1, 2}, k # h
    PROVE  FoundIn(e, ins, k)[q] = 0
<1>1. ins[3 - h] \in Int /\ k = 3 - h
  BY SMT DEF Halfwords
<1>2. FoundIn(e, ins, 3 - h)[q] = 0
  BY <1>1, Zenon DEF FoundIn, LiesAt, AtPart
<1>3. QED
  BY <1>1, <1>2, Zenon

LEMMA AddedGiven ==
    ASSUME NEW e, NEW p, IntegerParts(e, p), NEW q, NEW h, NEW sums, SumPart(e, q, h, sums)
    PROVE  AddedTo(e, p, h)[q] \in sums
  BY Zenon DEF AddedTo, Gives, SumPart, IntegerParts

LEMMA FoundGiven ==
    ASSUME NEW e, NEW ins, Halfwords(ins), NEW q, NEW h \in {1, 2}, NEW sums,
           SumPart(e, q, h, sums)
    PROVE  FoundIn(e, ins, h)[q] \in sums
<1>1. ins[h] \in Int
  BY SMT DEF Halfwords
<1>2. QED
  BY <1>1, Zenon DEF FoundIn, Gives, SumPart

-----------------------------------------------------------------------------
(***************************************************************************)
(* Division by powers of two, and sums that are taken apart                *)
(***************************************************************************)
(***************************************************************************)
(* Powers of two and what is left of a division by them                    *)
(***************************************************************************)
LEMMA Doubles == \A k \in 0 .. 30 : 2^(k + 1) = 2 * 2^k
<1> DEFINE p(k) == 2^k
<1>1. /\ p(1) = 2 * p(0) /\ p(2) = 2 * p(1) /\ p(3) = 2 * p(2) /\ p(4) = 2 * p(3)
      /\ p(5) = 2 * p(4) /\ p(6) = 2 * p(5) /\ p(7) = 2 * p(6) /\ p(8) = 2 * p(7)
  OBVIOUS
<1>2. /\ p(9) = 2 * p(8) /\ p(10) = 2 * p(9) /\ p(11) = 2 * p(10) /\ p(12) = 2 * p(11)
      /\ p(13) = 2 * p(12) /\ p(14) = 2 * p(13) /\ p(15) = 2 * p(14) /\ p(16) = 2 * p(15)
  OBVIOUS
<1>3. /\ p(17) = 2 * p(16) /\ p(18) = 2 * p(17) /\ p(19) = 2 * p(18) /\ p(20) = 2 * p(19)
      /\ p(21) = 2 * p(20) /\ p(22) = 2 * p(21) /\ p(23) = 2 * p(22) /\ p(24) = 2 * p(23)
  OBVIOUS
<1>4. /\ p(25) = 2 * p(24) /\ p(26) = 2 * p(25) /\ p(27) = 2 * p(26) /\ p(28) = 2 * p(27)
      /\ p(29) = 2 * p(28) /\ p(30) = 2 * p(29) /\ p(31) = 2 * p(30)
  OBVIOUS
<1> HIDE DEF p
<1>5. \A k \in 0 .. 30 : p(k + 1) = 2 * p(k)
  <2>1. \A k \in 0 .. 7 : p(k + 1) = 2 * p(k)
    BY <1>1
  <2>2. \A k \in 8 .. 15 : p(k + 1) = 2 * p(k)
    BY <1>2
  <2>3. \A k \in 16 .. 23 : p(k + 1) = 2 * p(k)
    BY <1>3
  <2>4. \A k \in 24 .. 30 : p(k + 1) = 2 * p(k)
    BY <1>4
  <2>5. QED
    BY <2>1, <2>2, <2>3, <2>4
<1>6. QED
  BY <1>5 DEF p

LEMMA PowerOfSum ==
    ASSUME NEW a \in Nat, NEW b \in Nat, NEW s \in 0 .. 31, s = a + b
    PROVE  2^s = 2^a * 2^b
<1> DEFINE p(k) == 2^k
           S == {n \in Nat : a + n <= 31 => p(a + n) = p(a) * p(n)}
<1>1. p(0) = 1
  OBVIOUS
<1>2. \A k \in 0 .. 31 : p(k) \in Nat \ {0}
  BY Powers
<1>3. \A k \in 0 .. 30 : p(k + 1) = 2 * p(k)
  BY Doubles
<1> HIDE DEF p
<1>4. 0 \in S
  <2>1. a \in 0 .. 31 /\ a + 0 = a
    OBVIOUS
  <2>2. p(a) * 1 = p(a)
    BY <1>2, <2>1
  <2>3. QED
    BY <1>1, <2>1, <2>2
<1>5. ASSUME NEW n \in Nat, n \in S
      PROVE  n + 1 \in S
  <2>1. SUFFICES ASSUME a + (n + 1) <= 31 PROVE p(a + (n + 1)) = p(a) * p(n + 1)
    OBVIOUS
  <2>2. a + n \in 0 .. 30 /\ n \in 0 .. 30 /\ a \in 0 .. 31 /\ a + (n + 1) = (a + n) + 1
    BY <2>1
  <2>3. p(a + n) = p(a) * p(n)
    BY <1>5, <2>2
  <2>4. p((a + n) + 1) = 2 * p(a + n) /\ p(n + 1) = 2 * p(n)
    BY <1>3, <2>2
  <2>5. p(a) \in Nat /\ p(n) \in Nat
    BY <1>2, <2>2
  <2>6. \A x, y \in Nat : 2 * (x * y) = x * (2 * y)
    OBVIOUS
  <2>7. QED
    BY <2>2, <2>3, <2>4, <2>5, <2>6
<1>6. b \in S
  <2> HIDE DEF S
  <2>1. QED
    BY <1>4, <1>5, SetInduction
<1>7. QED
  BY <1>6 DEF p

LEMMA DivideIs ==
    ASSUME NEW d \in Nat \ {0}, NEW q \in Int, NEW r \in Int, 0 <= r, r < d,
           NEW x, x = d * q + r
    PROVE  x \div d = q /\ x % d = r
<1> DEFINE k == x \div d
           m == x % d
<1>1. x \in Int /\ k \in Int /\ m \in Int /\ 0 <= m /\ m < d /\ x = d * k + m
  OBVIOUS
<1> HIDE DEF k, m
<1>2. d * (q - k) = m - r
  BY <1>1
<1>3. \A i \in Int : (i >= 1 => d * i >= d) /\ (i <= -1 => d * i <= -d)
  OBVIOUS
<1>4. q - k = 0
  BY <1>1, <1>2, <1>3
<1>5. k = q /\ m = r
  BY <1>1, <1>4
<1>6. QED
  BY <1>5 DEF k, m

LEMMA DivideTo ==
    ASSUME NEW d \in Nat \ {0}, NEW x \in Int
    PROVE  /\ x \div d \in Int /\ x % d \in Int /\ 0 <= x % d /\ x % d < d
           /\ x = d * (x \div d) + (x % d)
<1> DEFINE k == x \div d
           m == x % d
<1>1. k \in Int /\ m \in Int /\ 0 <= m /\ m < d /\ x = d * k + m
  OBVIOUS
<1> HIDE DEF k, m
<1>2. QED
  BY <1>1, Zenon DEF k, m

\* Dividing by one number and then by another
Product(d, a, b) == d = a * b

LEMMA DivideTwice ==
    ASSUME NEW a \in Nat \ {0}, NEW b \in Nat \ {0}, NEW d, Product(d, a, b), NEW x \in Int
    PROVE  x \div d = (x \div a) \div b
<1> DEFINE k == x \div a
           m == x % a
           q == k \div b
           r == k % b
           s == a * r + m
<1>1. k \in Int /\ m \in Int /\ 0 <= m /\ m < a /\ x = a * k + m
  BY DivideTo
<1>2. q \in Int /\ r \in Int /\ 0 <= r /\ r < b /\ k = b * q + r
  <2> HIDE DEF k
  <2>1. QED
    BY <1>1, DivideTo
<1> HIDE DEF k, m, q, r
<1>0. d = a * b
  BY DEF Product
<1>3. d \in Nat \ {0}
  BY <1>0
<1>4. s \in Int /\ 0 <= s /\ s < d
  <2>1. a * r \in Int /\ 0 <= a * r
    BY <1>2
  <2>2. \A i \in Int : i <= b - 1 => a * i <= a * (b - 1)
    OBVIOUS
  <2>3. a * r <= a * (b - 1)
    BY <1>2, <2>2
  <2>4. a * (b - 1) = d - a /\ d \in Int
    BY <1>0
  <2>5. QED
    BY <1>0, <1>1, <2>1, <2>3, <2>4
<1>5. x = d * q + s
  <2>1. a * (b * q + r) = (a * b) * q + a * r
    BY <1>2
  <2>2. QED
    BY <1>0, <1>1, <1>2, <2>1
<1> HIDE DEF s
<1>6. x \div d = q
  BY <1>2, <1>3, <1>4, <1>5, DivideIs
<1>7. QED
  BY <1>6 DEF q, k

\* A multiple of d does not count.
LEMMA DivideSum ==
    ASSUME NEW d \in Nat \ {0}, NEW x \in Int, NEW i \in Int
    PROVE  (x + d * i) \div d = (x \div d) + i /\ (x + d * i) % d = x % d
<1> DEFINE k == x \div d
           m == x % d
<1>1. k \in Int /\ m \in Int /\ 0 <= m /\ m < d /\ x = d * k + m
  BY DivideTo
<1> HIDE DEF k, m
<1>2. k + i \in Int /\ x + d * i = d * (k + i) + m
  BY <1>1
<1> DEFINE y == x + d * i
           z == k + i
<1>3. z \in Int /\ y = d * z + m
  BY <1>2
<1> HIDE DEF y, z
<1>4. y \div d = z /\ y % d = m
  BY <1>1, <1>3, DivideIs
<1>5. QED
  BY <1>4 DEF k, m, y, z

-----------------------------------------------------------------------------
(***************************************************************************)
(* An interval of a number's bits and a value in it: <<width, at, value>>   *)
(***************************************************************************)
InPlace(t) ==
    /\ t[1] \in 0 .. 31 /\ t[2] \in 0 .. 31 /\ t[1] + t[2] <= 31
    /\ t[3] \in 0 .. 2^t[1] - 1

Apart(at, width, t) == at + width <= t[2] \/ t[2] + t[1] <= at

\* Adding m to a number that has nothing in the intervals of I gives them their
\* values, and changes no other interval, nor what is above.
Adds(m, I) ==
    /\ m \in Nat
    /\ \A n \in Nat : (\A t \in I : Extract(n, t[2], t[1]) = 0) =>
           /\ \A t \in I : Extract(n + m, t[2], t[1]) = t[3]
           /\ \A at, width \in 0 .. 31 : at + width <= 31 /\ (\A t \in I : Apart(at, width, t)) =>
                  Extract(n + m, at, width) = Extract(n, at, width)
           /\ \A c \in 0 .. 31 : (\A t \in I : t[2] + t[1] <= c) => (n + m) \div 2^c = n \div 2^c

\* One interval
LEMMA AddsInterval ==
    ASSUME NEW w \in 0 .. 31, NEW a \in 0 .. 31, w + a <= 31, NEW v \in 0 .. 2^w - 1
    PROVE  Adds(v * 2^a, {<<w, a, v>>})
<1> DEFINE t == <<w, a, v>>
           A == 2^a
           W == 2^w
           m == v * A
<1>0. /\ w \in 0 .. 31 /\ a \in 0 .. 31
      /\ t[1] = w /\ t[2] = a /\ t[3] = v
  OBVIOUS
<1>1. A \in Nat \ {0} /\ W \in Nat \ {0}
  BY <1>0, Powers
<1> DEFINE P == A * W
<1>p. Product(P, A, W)
  BY DEF Product
<1>2. v \in Nat /\ 0 <= v /\ v < W
  BY <1>1
<1> HIDE DEF A, W, t, P
<1>3. m \in Nat /\ m = A * v
  BY <1>1, <1>2
<1>4. ASSUME NEW n \in Nat, Extract(n, a, w) = 0
      PROVE  /\ Extract(n + m, a, w) = v
             /\ (n + m) \div P = n \div P
  <2> DEFINE k == n \div A
             q == k \div W
  <2>1. k \in Int /\ k % W = 0
    BY <1>1, <1>4, DivideTo DEF Extract, A, W
  <2>2. (n + m) \div A = k + v
    BY <1>1, <1>2, <1>3, DivideSum
  <2>3. q \in Int /\ k = W * q + 0
    <3> HIDE DEF k
    <3>1. QED
      BY <1>1, <2>1, DivideTo
  <2> HIDE DEF k, q
  <2> DEFINE y == k + v
  <2>5. y = W * q + v
    <3>1. W * q \in Int
      BY <1>1, <2>3
    <3>2. QED
      BY <1>2, <2>3, <3>1
  <2> HIDE DEF y
  <2>4. y % W = v /\ y \div W = q
    BY <1>1, <1>2, <2>3, <2>5, DivideIs
  <2>6. Extract(n + m, a, w) = v
    BY <2>2, <2>4 DEF Extract, A, W, y
  <2>7. (n + m) \div P = ((n + m) \div A) \div W /\ n \div P = (n \div A) \div W
    <3>1. ASSUME NEW x \in Int
          PROVE  x \div P = (x \div A) \div W
      BY <1>1, <1>p, <3>1, DivideTwice
    <3>2. n \in Int /\ n + m \in Int
      BY <1>3
    <3>3. QED
      BY <3>1, <3>2, Zenon
  <2>8. n \div A = k /\ k \div W = q
    BY DEF k, q
  <2>9. QED
    BY <2>2, <2>4, <2>6, <2>7, <2>8 DEF y
<1>5. P = 2^(a + w)
  <2> DEFINE s == a + w
  <2>1. s \in 0 .. 31 /\ s = a + w
    BY <1>0
  <2> HIDE DEF s
  <2>2. 2^s = 2^a * 2^w
    BY <1>0, <2>1, PowerOfSum
  <2>3. QED
    BY <2>1, <2>2 DEF P, A, W
<1>6. ASSUME NEW n \in Nat, Extract(n, a, w) = 0, NEW c \in 0 .. 31, a + w <= c
      PROVE  (n + m) \div 2^c = n \div 2^c
  <2> DEFINE d == c - (a + w)
             D == 2^d
             B == 2^(a + w)
  <2>1. d \in 0 .. 31 /\ a + w \in 0 .. 31 /\ c = (a + w) + d /\ c \in 0 .. 31
    BY <1>0, <1>6
  <2>2. 2^c = B * D
    <3> DEFINE b == a + w
    <3> HIDE DEF d, b
    <3>1. 2^c = 2^b * 2^d
      BY <2>1, PowerOfSum DEF b
    <3>2. QED
      BY <3>1 DEF b
  <2>3. D \in Nat \ {0} /\ B \in Nat \ {0}
    BY <2>1, Powers
  <2>4. (n + m) \div B = n \div B
    BY <1>4, <1>5, <1>6
  <2> DEFINE C == 2^c
  <2> HIDE DEF D, B, d, C
  <2>5. (n + m) \div C = ((n + m) \div B) \div D /\ n \div C = (n \div B) \div D
    <3>1. Product(C, B, D)
      BY <2>2 DEF C, Product
    <3>2. ASSUME NEW x \in Int
          PROVE  x \div C = (x \div B) \div D
      BY <2>3, <3>1, <3>2, DivideTwice
    <3>3. n \in Int /\ n + m \in Int
      BY <1>3
    <3>4. QED
      BY <3>2, <3>3
  <2>6. QED
    BY <2>4, <2>5 DEF C
<1>7. ASSUME NEW n \in Nat, Extract(n, a, w) = 0, NEW c \in 0 .. 31, NEW l \in 0 .. 31,
             c + l <= 31, Apart(c, l, t)
      PROVE  Extract(n + m, c, l) = Extract(n, c, l)
  <2>1. CASE c + l <= a
    <3> DEFINE b == a - (c + l)
               C == 2^c
               L == 2^l
               Z == 2^b
    <3>1. b \in 0 .. 31 /\ c + l \in 0 .. 31 /\ a = (c + l) + b /\ c \in 0 .. 31 /\ l \in 0 .. 31
      BY <1>0, <2>1
    <3>2. A = (C * L) * Z
      <4> DEFINE s == c + l
      <4> HIDE DEF b, s
      <4>1. 2^a = 2^s * 2^b
        BY <1>0, <3>1, PowerOfSum DEF s
      <4>2. 2^s = 2^c * 2^l
        BY <3>1, PowerOfSum DEF s
      <4>3. QED
        BY <4>1, <4>2 DEF A
    <3>3. C \in Nat \ {0} /\ L \in Nat \ {0} /\ Z \in Nat \ {0}
      BY <3>1, Powers
    <3> HIDE DEF C, L, Z, b
    <3> DEFINE i == L * (Z * v)
               k == n \div C
    <3>4. Z * v \in Int /\ i \in Int /\ k \in Int
      BY <1>2, <3>3, DivideTo
    <3>5. m = C * i
      BY <1>2, <1>3, <3>2, <3>3
    <3>6. (n + C * i) \div C = k + i
      BY <3>3, <3>4, DivideSum
    <3>7. (k + i) % L = k % L
      <4> HIDE DEF k
      <4>1. QED
        BY <3>3, <3>4, DivideSum
    <3>8. QED
      <4> HIDE DEF i
      <4>1. QED
        BY <3>5, <3>6, <3>7 DEF Extract, C, L
  <2>2. CASE a + w <= c
    BY <1>6, <1>7, <2>2 DEF Extract
  <2>3. QED
    BY <1>0, <1>7, <2>1, <2>2 DEF Apart
<1>8. a + w <= 31
  BY <1>0
<1>9. QED
  <2> HIDE DEF m
  <2>1. m = v * 2^a
    BY DEF m, A
  <2>2. Adds(m, {t})
    <3>1. t[1] = w /\ t[2] = a /\ t[3] = v
      BY DEF t
    <3>2. ASSUME NEW n \in Nat, \A u \in {t} : Extract(n, u[2], u[1]) = 0
          PROVE  /\ \A u \in {t} : Extract(n + m, u[2], u[1]) = u[3]
                 /\ \A at, width \in 0 .. 31 :
                        at + width <= 31 /\ (\A u \in {t} : Apart(at, width, u)) =>
                        Extract(n + m, at, width) = Extract(n, at, width)
                 /\ \A c \in 0 .. 31 :
                        (\A u \in {t} : u[2] + u[1] <= c) => (n + m) \div 2^c = n \div 2^c
      <4>1. Extract(n, a, w) = 0
        BY <3>1, <3>2
      <4>2. \A u \in {t} : Extract(n + m, u[2], u[1]) = u[3]
        <5>1. Extract(n + m, a, w) = v
          BY <1>4, <4>1
        <5>2. QED
          BY <3>1, <5>1
      <4>3. ASSUME NEW at \in 0 .. 31, NEW width \in 0 .. 31, at + width <= 31,
                   \A u \in {t} : Apart(at, width, u)
            PROVE  Extract(n + m, at, width) = Extract(n, at, width)
        <5>1. Apart(at, width, t)
          BY <4>3, Zenon
        <5>2. QED
          BY <1>7, <4>1, <4>3, <5>1
      <4>4. ASSUME NEW c \in 0 .. 31, \A u \in {t} : u[2] + u[1] <= c
            PROVE  (n + m) \div 2^c = n \div 2^c
        <5>1. a + w <= c
          BY <3>1, <4>4
        <5>2. QED
          BY <1>6, <4>1, <5>1
      <4>5. QED
        BY <4>2, <4>3, <4>4, Zenon
    <3>3. QED
      BY <1>3, <3>2, Zenon DEF Adds
  <2>3. QED
    BY <2>1, <2>2 DEF t

\* Two sets of intervals that are apart
AllApart(I, J) == \A t \in I, u \in J : Apart(u[2], u[1], t) /\ Apart(t[2], t[1], u)

Intervals(I) == \A t \in I : InPlace(t)

LEMMA AddsBoth ==
    ASSUME NEW m, NEW I, Adds(m, I), Intervals(I), NEW k, NEW J, Adds(k, J), Intervals(J),
           AllApart(I, J)
    PROVE  Adds(m + k, I \cup J)
<1>1. m \in Nat /\ k \in Nat /\ m + k \in Nat
  BY DEF Adds
<1>2. ASSUME NEW n \in Nat, \A t \in I \cup J : Extract(n, t[2], t[1]) = 0
      PROVE  /\ \A t \in I \cup J : Extract(n + (m + k), t[2], t[1]) = t[3]
             /\ \A at, width \in 0 .. 31 :
                   at + width <= 31 /\ (\A t \in I \cup J : Apart(at, width, t)) =>
                       Extract(n + (m + k), at, width) = Extract(n, at, width)
             /\ \A c \in 0 .. 31 : (\A t \in I \cup J : t[2] + t[1] <= c) =>
                    (n + (m + k)) \div 2^c = n \div 2^c
  <2> DEFINE x == n + m
             y == x + k
  <2>1. x \in Nat /\ y = n + (m + k)
    BY <1>1
  <2> HIDE DEF y
  <2>2. /\ \A t \in I : Extract(x, t[2], t[1]) = t[3]
        /\ \A at, width \in 0 .. 31 : at + width <= 31 /\ (\A t \in I : Apart(at, width, t)) =>
                Extract(x, at, width) = Extract(n, at, width)
        /\ \A c \in 0 .. 31 : (\A t \in I : t[2] + t[1] <= c) => x \div 2^c = n \div 2^c
    BY <1>2 DEF Adds
  <2> HIDE DEF x
  <2>3. \A u \in I \cup J : u[1] \in 0 .. 31 /\ u[2] \in 0 .. 31 /\ u[2] + u[1] <= 31
    BY DEF Intervals, InPlace
  <2>4. \A u \in J : Extract(x, u[2], u[1]) = 0
    BY <1>2, <2>2, <2>3 DEF AllApart
  <2>5. /\ \A t \in J : Extract(y, t[2], t[1]) = t[3]
        /\ \A at, width \in 0 .. 31 : at + width <= 31 /\ (\A t \in J : Apart(at, width, t)) =>
                Extract(y, at, width) = Extract(x, at, width)
        /\ \A c \in 0 .. 31 : (\A t \in J : t[2] + t[1] <= c) => y \div 2^c = x \div 2^c
    BY <2>1, <2>4 DEF Adds, y
  <2>6. \A t \in I : Extract(y, t[2], t[1]) = t[3]
    BY <2>2, <2>3, <2>5 DEF AllApart
  <2>7. QED
    BY <2>1, <2>2, <2>5, <2>6
<1>3. QED
  BY <1>1, <1>2 DEF Adds

LEMMA AddsNone == Adds(0, {})
  BY DEF Adds

\* The intervals of several numbers are those of their sum.
LEMMA AddsSum ==
    ASSUME NEW S, NEW F, NEW n, NatSum(n, F, S), NEW T,
           \A d \in S : Adds(F[d], T[d]) /\ Intervals(T[d]),
           \A d, e \in S : d # e => AllApart(T[d], T[e])
    PROVE  Adds(n, UNION {T[d] : d \in S})
<1> DEFINE All(s) == UNION {T[d] : d \in s}
           K == {k \in Nat : \A s \in SUBSET S : Cardinality(s) <= k =>
                                  \A m : NatSum(m, F, s) => Adds(m, All(s))}
<1>0. IsFiniteSet(S)
  BY DEF NatSum
<1>1. \A s \in SUBSET S : IsFiniteSet(s) /\ Cardinality(s) \in Nat
  BY <1>0, FS_Subset, FS_CardinalityType
<1>2. 0 \in K
  <2>1. ASSUME NEW s \in SUBSET S, Cardinality(s) <= 0, NEW m, NatSum(m, F, s)
        PROVE  Adds(m, All(s))
    <3>1. s = {}
      BY <1>1, <2>1, FS_EmptySet
    <3>2. m = 0
      BY <2>1, <3>1, SumOfNone DEF NatSum
    <3>3. All(s) = {}
      BY <3>1
    <3>4. QED
      BY <3>2, <3>3, AddsNone
  <2>2. QED
    BY <2>1
<1>3. ASSUME NEW k \in Nat, k \in K
      PROVE  k + 1 \in K
  <2>1. ASSUME NEW s \in SUBSET S, Cardinality(s) <= k + 1, NEW m, NatSum(m, F, s)
        PROVE  Adds(m, All(s))
    <3>1. CASE s = {}
      <4>1. m = 0
        BY <2>1, <3>1, SumOfNone DEF NatSum
      <4>2. All(s) = {}
        BY <3>1
      <4>3. QED
        BY <4>1, <4>2, AddsNone
    <3>2. CASE s # {}
      <4>1. PICK x \in s : TRUE
        BY <3>2
      <4> DEFINE r == s \ {x}
      <4>2. PICK l \in Nat : NatSum(l, F, r) /\ m = F[x] + l
        BY <2>1, <4>1, TakeOut
      <4>3. Cardinality(r) = Cardinality(s) - 1 /\ r \in SUBSET S
        BY <1>1, <4>1, FS_RemoveElement
      <4>4. Cardinality(r) <= k
        BY <1>1, <2>1, <4>3
      <4>5. Adds(l, All(r))
        <5> HIDE DEF All, r
        <5>1. QED
          BY <1>3, <4>2, <4>3, <4>4
      <4>6. Intervals(All(r)) /\ AllApart(T[x], All(r))
        BY DEF Intervals, AllApart
      <4>7. All(s) = T[x] \cup All(r)
        BY <4>1
      <4>8. Adds(F[x], T[x]) /\ Intervals(T[x])
        BY <4>1
      <4> HIDE DEF All, r
      <4>9. QED
        BY <4>2, <4>5, <4>6, <4>7, <4>8, AddsBoth
    <3>3. QED
      BY <3>1, <3>2
  <2>2. QED
    BY <2>1
<1>4. Cardinality(S) \in K
  <2> HIDE DEF K
  <2>1. QED
    BY <1>1, <1>2, <1>3, SetInduction
<1>5. QED
  BY <1>1, <1>4

-----------------------------------------------------------------------------
(***************************************************************************)
(* Where the fields of an encoding are: each in bits of its own, where     *)
(* the base has none. What is stored is the base and the fields side by    *)
(* side, so that each can be cut out again.                                *)
(***************************************************************************)
\* There is one sum.
LEMMA SumIsOne ==
    ASSUME NEW S, NEW F, NEW m, NatSum(m, F, S), NEW n, NatSum(n, F, S)
    PROVE  m = n
<1> DEFINE K == {k \in Nat : \A s \in SUBSET S : Cardinality(s) <= k =>
                     \A i, j : NatSum(i, F, s) /\ NatSum(j, F, s) => i = j}
<1>0. IsFiniteSet(S)
  BY DEF NatSum
<1>1. \A s \in SUBSET S : IsFiniteSet(s) /\ Cardinality(s) \in Nat
  BY <1>0, FS_Subset, FS_CardinalityType
<1>2. 0 \in K
  <2>1. ASSUME NEW s \in SUBSET S, Cardinality(s) <= 0, NEW i, NEW j, NatSum(i, F, s), NatSum(j, F, s)
        PROVE  i = j
    <3>1. s = {}
      BY <1>1, <2>1, FS_EmptySet
    <3>2. i = 0 /\ j = 0
      BY <2>1, <3>1, SumOfNone DEF NatSum
    <3>3. QED
      BY <3>2
  <2>2. QED
    BY <2>1
<1>3. ASSUME NEW k \in Nat, k \in K
      PROVE  k + 1 \in K
  <2>1. ASSUME NEW s \in SUBSET S, Cardinality(s) <= k + 1, NEW i, NEW j,
               NatSum(i, F, s), NatSum(j, F, s)
        PROVE  i = j
    <3>1. CASE s = {}
      <4>1. i = 0 /\ j = 0
        BY <2>1, <3>1, SumOfNone DEF NatSum
      <4>2. QED
        BY <4>1
    <3>2. CASE s # {}
      <4>1. PICK x \in s : TRUE
        BY <3>2
      <4> DEFINE r == s \ {x}
      <4>2. PICK a \in Nat : NatSum(a, F, r) /\ i = F[x] + a
        BY <2>1, <4>1, TakeOut
      <4>3. PICK b \in Nat : NatSum(b, F, r) /\ j = F[x] + b
        BY <2>1, <4>1, TakeOut
      <4>4. Cardinality(r) = Cardinality(s) - 1 /\ r \in SUBSET S
        BY <1>1, <4>1, FS_RemoveElement
      <4>5. Cardinality(r) <= k
        BY <1>1, <2>1, <4>4
      <4>6. a = b
        <5> HIDE DEF r
        <5>1. QED
          BY <1>3, <4>2, <4>3, <4>4, <4>5
      <4>7. QED
        BY <4>2, <4>3, <4>6
    <3>3. QED
      BY <3>1, <3>2
  <2>2. QED
    BY <2>1
<1>4. Cardinality(S) \in K
  <2> HIDE DEF K
  <2>1. QED
    BY <1>1, <1>2, <1>3, SetInduction
<1>5. QED
  BY <1>1, <1>4

-----------------------------------------------------------------------------
(***************************************************************************)
(* The pieces of an encoding are beside one another and beside its base.   *)
(***************************************************************************)
InOneHalf(x) ==
    /\ x[1] \in 0 .. 31 /\ x[2] \in 1 .. 16 /\ x[3] \in 0 .. 31
    /\ x[3] + x[2] <= 16 \/ (x[3] >= 16 /\ x[3] + x[2] <= 32)

Beside(x, y) == x[3] + x[2] <= y[3] \/ y[3] + y[2] <= x[3]

\* The interval of piece x in its halfword, with the value v
Span(x, v) == <<x[2], x[3] % 16, v>>

LEMMA SpanInPlace ==
    ASSUME NEW x, InOneHalf(x), NEW v \in 0 .. 2^x[2] - 1
    PROVE  InPlace(Span(x, v)) /\ (x[3] % 16) + x[2] <= 16
<1> DEFINE a == x[3]
           w == x[2]
<1>1. a % 16 \in 0 .. 15 /\ (a % 16) + w <= 16 /\ w \in 1 .. 16
  BY DEF InOneHalf
<1>2. Span(x, v)[1] = w /\ Span(x, v)[2] = a % 16 /\ Span(x, v)[3] = v
  BY DEF Span
<1> HIDE DEF a
<1>3. a % 16 \in 0 .. 31 /\ w \in 0 .. 31 /\ w + (a % 16) <= 31
  BY <1>1
<1>4. InPlace(Span(x, v))
  BY <1>2, <1>3 DEF InPlace
<1>5. QED
  BY <1>1, <1>4 DEF a

LEMMA SpansApart ==
    ASSUME NEW x, InOneHalf(x), NEW y, InOneHalf(y), Beside(x, y), x[3] \div 16 = y[3] \div 16,
           NEW v, NEW u
    PROVE  /\ Apart(x[3] % 16, x[2], Span(y, u))
           /\ Apart(y[3] % 16, y[2], Span(x, v))
<1> DEFINE a == x[3]
           b == y[3]
<1>1. /\ Span(x, v)[1] = x[2] /\ Span(x, v)[2] = a % 16
      /\ Span(y, u)[1] = y[2] /\ Span(y, u)[2] = b % 16
  BY DEF Span
<1>2. a \in Int /\ b \in Int /\ x[2] \in Int /\ y[2] \in Int
  BY DEF InOneHalf
<1>3. a = 16 * (a \div 16) + (a % 16) /\ b = 16 * (b \div 16) + (b % 16)
      /\ a \div 16 \in Int /\ b \div 16 \in Int /\ a % 16 \in Int /\ b % 16 \in Int
  BY <1>2
<1>4. \/ (a % 16) + x[2] <= b % 16
      \/ (b % 16) + y[2] <= a % 16
  BY <1>2, <1>3 DEF Beside
<1>5. QED
  BY <1>1, <1>4 DEF Apart

\* The intervals of the pieces of f in halfword h
Spans(f, h, k) == {Span(x, k[x]) : x \in InHalf(f, h)}

Loose(f) ==
    /\ WellFormed(f)
    /\ \A x \in f.pieces : InOneHalf(x)
    /\ \A x, y \in f.pieces : x # y => Beside(x, y)

LEMMA FieldAdds ==
    ASSUME NEW f, Loose(f), NEW h, NEW k, \A x \in InHalf(f, h) : k[x] \in 0 .. 2^x[2] - 1,
           NEW n, IsSum(n, Part(k, f, h), InHalf(f, h))
    PROVE  Adds(n, Spans(f, h, k)) /\ Intervals(Spans(f, h, k))
<1> DEFINE S == InHalf(f, h)
           F == Part(k, f, h)
           T == [x \in S |-> {Span(x, k[x])}]
<1>1. ASSUME NEW x \in S
      PROVE  InOneHalf(x) /\ k[x] \in 0 .. 2^x[2] - 1 /\ InPlace(Span(x, k[x]))
  <2>1. InOneHalf(x)
    BY DEF Loose, InHalf
  <2>2. QED
    BY <2>1, SpanInPlace
<1>2. ASSUME NEW x \in S
      PROVE  Adds(F[x], T[x]) /\ Intervals(T[x])
  <2>1. x[2] \in 0 .. 31 /\ x[3] % 16 \in 0 .. 31 /\ x[2] + (x[3] % 16) <= 31
    BY <1>1 DEF InPlace, Span
  <2>2. F[x] = k[x] * 2^(x[3] % 16) /\ T[x] = {<<x[2], x[3] % 16, k[x]>>}
    BY DEF Part, Span
  <2> DEFINE a == x[3] % 16
             w == x[2]
             v == k[x]
  <2>3. w \in 0 .. 31 /\ a \in 0 .. 31 /\ w + a <= 31 /\ v \in 0 .. 2^w - 1
    BY <1>1, <2>1
  <2>4. F[x] = v * 2^a /\ T[x] = {<<w, a, v>>}
    BY <2>2
  <2> HIDE DEF a, w, v, F, T
  <2>5. Adds(F[x], T[x])
    BY <2>3, <2>4, AddsInterval
  <2>6. Intervals(T[x])
    BY <1>1 DEF Intervals, T
  <2>7. QED
    BY <2>5, <2>6
<1>3. ASSUME NEW x \in S, NEW y \in S, x # y
      PROVE  AllApart(T[x], T[y])
  <2>1. Beside(x, y) /\ x[3] \div 16 = y[3] \div 16
    <3>1. /\ x \in f.pieces /\ y \in f.pieces
          /\ x[3] \div 16 + 1 = h /\ y[3] \div 16 + 1 = h
      BY DEF InHalf
    <3>2. x[3] \div 16 \in Int /\ y[3] \div 16 \in Int
      BY <1>1 DEF InOneHalf
    <3>3. QED
      BY <1>3, <3>1, <3>2 DEF Loose
  <2>2. /\ Apart(x[3] % 16, x[2], Span(y, k[y]))
        /\ Apart(y[3] % 16, y[2], Span(x, k[x]))
    BY <1>1, <2>1, SpansApart
  <2>3. QED
    BY <2>2 DEF AllApart, Span
<1>4. NatSum(n, F, S)
  <2>1. \A x \in S : k[x] \in Nat
    BY RangeIsNat DEF Loose
  <2>2. IsFiniteSet(S) /\ \A x \in S : F[x] \in Nat
    BY <2>1, PartNat DEF Loose
  <2>3. QED
    BY <2>2 DEF NatSum
<1>5. UNION {T[x] : x \in S} = Spans(f, h, k)
  BY DEF Spans
<1> HIDE DEF S, F, T
<1>6. Adds(n, UNION {T[x] : x \in S})
  BY <1>2, <1>3, <1>4, AddsSum
<1>7. Intervals(Spans(f, h, k))
  BY <1>1 DEF Intervals, Spans, S
<1>8. QED
  BY <1>5, <1>6, <1>7

Tidy(e) ==
    /\ Len(e.base) \in {1, 2} /\ DOMAIN e.base = 1 .. Len(e.base)
    /\ \A h \in DOMAIN e.base : e.base[h] \in 0 .. Top
    /\ IsFiniteSet(DOMAIN e.fields)
    /\ \A q \in DOMAIN e.fields :
           /\ Loose(e.fields[q])
           /\ \A x \in e.fields[q].pieces :
                  /\ x[3] \div 16 + 1 \in DOMAIN e.base
                  /\ Extract(e.base[x[3] \div 16 + 1], x[3] % 16, x[2]) = 0
    /\ \A q, r \in DOMAIN e.fields : q # r =>
           \A x \in e.fields[q].pieces, y \in e.fields[r].pieces : Beside(x, y)

LEMMA TidyFields ==
    ASSUME NEW e, Tidy(e)
    PROVE  WellFormedFields(e) /\ \A q \in DOMAIN e.fields : Loose(e.fields[q]) /\ WellFormed(e.fields[q])
  BY Zenon DEF Tidy, WellFormedFields, Loose

LEMMA TidyPiece ==
    ASSUME NEW e, Tidy(e), NEW q \in DOMAIN e.fields, NEW x \in e.fields[q].pieces
    PROVE  /\ InOneHalf(x) /\ x[3] \div 16 + 1 \in DOMAIN e.base
           /\ Extract(e.base[x[3] \div 16 + 1], x[3] % 16, x[2]) = 0
  BY Zenon DEF Tidy, Loose

LEMMA TidyPieces ==
    ASSUME NEW e, Tidy(e), NEW q \in DOMAIN e.fields, NEW r \in DOMAIN e.fields, q # r,
           NEW x \in e.fields[q].pieces, NEW y \in e.fields[r].pieces
    PROVE  Beside(x, y)
  BY Zenon DEF Tidy

LEMMA TidyBase ==
    ASSUME NEW e, Tidy(e), NEW h \in DOMAIN e.base
    PROVE  e.base[h] \in Nat /\ e.base[h] <= Top
<1>1. e.base[h] \in 0 .. Top
  BY Zenon DEF Tidy
<1>2. \A n \in 0 .. Top : n \in Nat /\ n <= Top
  BY DEF Top
<1>3. QED
  BY <1>1, <1>2, Zenon

\* What is stored of v as piece x of f
StoredAs(f, v, x) == Extract(Twist(f, v % 2^f.width), x[1], x[2])

\* The intervals of the pieces of e in halfword h, with what is stored of p
AllSpans(e, p, h) ==
    UNION {Spans(e.fields[q], h, Encoded(e.fields[q], p[q], h)) : q \in DOMAIN e.fields}

LEMMA StoredSpans ==
    ASSUME NEW e, Tidy(e), NEW p, IntegerParts(e, p), NEW h
    PROVE  \E n : Adds(n, AllSpans(e, p, h)) /\ Stored(e, p, h) = e.base[h] + n
<1> DEFINE S == DOMAIN e.fields
           F == AddedTo(e, p, h)
           T == [q \in S |-> Spans(e.fields[q], h, Encoded(e.fields[q], p[q], h))]
<1>1. PICK n : NatSum(n, F, S) /\ Stored(e, p, h) = e.base[h] + n
  BY TidyFields, StoredIsSum
<1>2. ASSUME NEW q \in S
      PROVE  Adds(F[q], T[q]) /\ Intervals(T[q])
  <2> DEFINE f == e.fields[q]
             k == Encoded(f, p[q], h)
  <2>1. Loose(f) /\ WellFormed(f) /\ p[q] \in Int
    BY TidyFields DEF IntegerParts
  <2> HIDE DEF f
  <2>2. \A x \in InHalf(f, h) : k[x] \in 0 .. 2^x[2] - 1
    BY <2>1, EncodedRange
  <2>3. IsSum(FieldSum(f, p[q], h), Part(k, f, h), InHalf(f, h))
    BY <2>1, FieldIsSum
  <2> HIDE DEF k
  <2>4. Adds(FieldSum(f, p[q], h), Spans(f, h, k)) /\ Intervals(Spans(f, h, k))
    BY <2>1, <2>2, <2>3, FieldAdds
  <2>5. F[q] = FieldSum(f, p[q], h) /\ T[q] = Spans(f, h, k)
    BY DEF AddedTo, f, k
  <2>6. QED
    BY <2>4, <2>5
<1>3. ASSUME NEW q \in S, NEW r \in S, q # r
      PROVE  AllApart(T[q], T[r])
  <2> DEFINE f == e.fields[q]
             g == e.fields[r]
             k == Encoded(f, p[q], h)
             l == Encoded(g, p[r], h)
  <2>1. T[q] = Spans(f, h, k) /\ T[r] = Spans(g, h, l)
    OBVIOUS
  <2>2. ASSUME NEW x \in InHalf(f, h), NEW y \in InHalf(g, h)
        PROVE  /\ Apart(x[3] % 16, x[2], Span(y, l[y]))
               /\ Apart(y[3] % 16, y[2], Span(x, k[x]))
    <3>1. /\ x \in f.pieces /\ y \in g.pieces
          /\ x[3] \div 16 + 1 = h /\ y[3] \div 16 + 1 = h
      BY DEF InHalf
    <3>2. InOneHalf(x) /\ InOneHalf(y) /\ Beside(x, y)
      BY <1>3, <3>1, TidyPiece, TidyPieces, Zenon
    <3>3. x[3] \div 16 \in Int /\ y[3] \div 16 \in Int
      BY <3>2 DEF InOneHalf
    <3>4. x[3] \div 16 = y[3] \div 16
      BY <3>1, <3>3
    <3>5. QED
      BY <3>2, <3>4, SpansApart
  <2> HIDE DEF k, l, f, g
  <2>3. AllApart(Spans(f, h, k), Spans(g, h, l))
    BY <2>2 DEF AllApart, Spans, Span
  <2>4. QED
    BY <2>1, <2>3
<1>4. UNION {T[q] : q \in S} = AllSpans(e, p, h)
  BY DEF AllSpans
<1> HIDE DEF S, F, T
<1>5. Adds(n, UNION {T[q] : q \in S})
  BY <1>1, <1>2, <1>3, AddsSum
<1>6. QED
  BY <1>1, <1>4, <1>5

\* The interval at .. at + width - 1 of halfword h is in no field of e.
IsFixed(e, h, at, width) ==
    /\ at \in 0 .. 15 /\ width \in 0 .. 16
    /\ \A q \in DOMAIN e.fields : \A x \in InHalf(e.fields[q], h) : Apart(at, width, Span(x, 0))

\* Each piece is found where it was stored, what is in no field is as in the base,
\* and it all fits in the halfword.
LEMMA StoredPieces ==
    ASSUME NEW e, Tidy(e), NEW p, IntegerParts(e, p), NEW h \in DOMAIN e.base
    PROVE  /\ \A q \in DOMAIN e.fields : \A x \in InHalf(e.fields[q], h) :
                  Extract(Stored(e, p, h), x[3] % 16, x[2]) = StoredAs(e.fields[q], p[q], x)
           /\ \A at, width : IsFixed(e, h, at, width) =>
                  Extract(Stored(e, p, h), at, width) = Extract(e.base[h], at, width)
           /\ Stored(e, p, h) \in 0 .. Top
<1>1. PICK n : Adds(n, AllSpans(e, p, h)) /\ Stored(e, p, h) = e.base[h] + n
  BY StoredSpans
<1>2. n \in Nat /\ e.base[h] \in Nat /\ e.base[h] <= Top
  BY <1>1, TidyBase DEF Adds
<1>3. ASSUME NEW t \in AllSpans(e, p, h)
      PROVE  \E q \in DOMAIN e.fields : \E x \in InHalf(e.fields[q], h) :
                 /\ InOneHalf(x) /\ x[3] \div 16 + 1 = h /\ x \in e.fields[q].pieces
                 /\ t = Span(x, Encoded(e.fields[q], p[q], h)[x])
  <2>1. PICK q \in DOMAIN e.fields : t \in Spans(e.fields[q], h, Encoded(e.fields[q], p[q], h))
    BY DEF AllSpans
  <2>2. PICK x \in InHalf(e.fields[q], h) : t = Span(x, Encoded(e.fields[q], p[q], h)[x])
    BY <2>1 DEF Spans
  <2>3. x[3] \div 16 + 1 = h /\ x \in e.fields[q].pieces
    BY DEF InHalf
  <2>4. InOneHalf(x)
    BY <2>3, TidyPiece, Zenon
  <2>5. QED
    BY <2>2, <2>3, <2>4, Zenon
<1>4. ASSUME NEW t \in AllSpans(e, p, h)
      PROVE  Extract(e.base[h], t[2], t[1]) = 0 /\ t[2] + t[1] <= 16
  <2>1. PICK q \in DOMAIN e.fields : \E x \in InHalf(e.fields[q], h) :
            /\ InOneHalf(x) /\ x[3] \div 16 + 1 = h /\ x \in e.fields[q].pieces
            /\ t = Span(x, Encoded(e.fields[q], p[q], h)[x])
    BY <1>3
  <2>8. PICK x \in InHalf(e.fields[q], h) :
            /\ InOneHalf(x) /\ x[3] \div 16 + 1 = h /\ x \in e.fields[q].pieces
            /\ t = Span(x, Encoded(e.fields[q], p[q], h)[x])
    BY <2>1
  <2>2. t[1] = x[2] /\ t[2] = x[3] % 16
    BY <2>8 DEF Span
  <2>3. Extract(e.base[h], x[3] % 16, x[2]) = 0
    BY <2>8, TidyPiece, Zenon
  <2>4. WellFormed(e.fields[q]) /\ p[q] \in Int
    BY TidyFields DEF IntegerParts
  <2>5. Encoded(e.fields[q], p[q], h)[x] \in 0 .. 2^x[2] - 1
    BY <2>4, EncodedRange
  <2>6. (x[3] % 16) + x[2] <= 16
    BY <2>8, <2>5, SpanInPlace
  <2>7. QED
    BY <2>2, <2>3, <2>6
<1> DEFINE b == e.base[h]
           s == Stored(e, p, h)
<1>5. s = b + n /\ s \in Nat
  BY <1>1, <1>2
<1>6. \A t \in AllSpans(e, p, h) : Extract(b, t[2], t[1]) = 0
  BY <1>4
<1> HIDE DEF b, s
<1>7. /\ \A t \in AllSpans(e, p, h) : Extract(s, t[2], t[1]) = t[3]
      /\ \A at, width \in 0 .. 31 : at + width <= 31 /\ (\A t \in AllSpans(e, p, h) : Apart(at, width, t)) =>
             Extract(s, at, width) = Extract(b, at, width)
      /\ \A c \in 0 .. 31 : (\A t \in AllSpans(e, p, h) : t[2] + t[1] <= c) => s \div 2^c = b \div 2^c
  <2>1. b \in Nat
    BY <1>2 DEF b
  <2>2. QED
    BY <1>1, <1>5, <1>6, <2>1 DEF Adds
<1>8. ASSUME NEW q \in DOMAIN e.fields, NEW x \in InHalf(e.fields[q], h)
      PROVE  Extract(s, x[3] % 16, x[2]) = StoredAs(e.fields[q], p[q], x)
  <2> DEFINE t == Span(x, Encoded(e.fields[q], p[q], h)[x])
  <2>1. t \in AllSpans(e, p, h)
    BY DEF AllSpans, Spans
  <2>2. t[1] = x[2] /\ t[2] = x[3] % 16 /\ t[3] = Encoded(e.fields[q], p[q], h)[x]
    BY DEF Span
  <2>3. Encoded(e.fields[q], p[q], h)[x] = StoredAs(e.fields[q], p[q], x)
    BY DEF Encoded, StoredAs
  <2> HIDE DEF t
  <2>4. Extract(s, t[2], t[1]) = t[3]
    BY <1>7, <2>1
  <2>5. QED
    BY <2>2, <2>3, <2>4
<1>9. ASSUME NEW at, NEW width, IsFixed(e, h, at, width)
      PROVE  Extract(s, at, width) = Extract(b, at, width)
  <2>1. ASSUME NEW t \in AllSpans(e, p, h)
        PROVE  Apart(at, width, t)
    <3>0. PICK q \in DOMAIN e.fields : \E x \in InHalf(e.fields[q], h) :
              t = Span(x, Encoded(e.fields[q], p[q], h)[x])
      BY <1>3
    <3>1. PICK x \in InHalf(e.fields[q], h) : t = Span(x, Encoded(e.fields[q], p[q], h)[x])
      BY <3>0
    <3>2. Apart(at, width, Span(x, 0))
      BY <1>9 DEF IsFixed
    <3>3. t[1] = Span(x, 0)[1] /\ t[2] = Span(x, 0)[2]
      BY <3>1 DEF Span
    <3>4. QED
      BY <3>2, <3>3 DEF Apart
  <2>2. at \in 0 .. 31 /\ width \in 0 .. 31 /\ at + width <= 31
    BY <1>9 DEF IsFixed
  <2>3. QED
    BY <1>7, <2>1, <2>2
<1>10. s \in 0 .. Top
  <2> DEFINE d == 2^16
  <2>1. s \div d = b \div d
    BY <1>4, <1>7
  <2>2. d \in Nat \ {0} /\ Top = d - 1
    BY DEF Top
  <2>3. b \in Nat /\ b <= Top
    BY <1>2 DEF b
  <2> HIDE DEF d
  <2>4. b \div d = 0
    <3>1. b \in Int /\ 0 <= b /\ b < d /\ b = d * 0 + b
      BY <2>2, <2>3
    <3>2. QED
      BY <2>2, <3>1, DivideIs
  <2>5. s = d * 0 + (s % d) /\ s % d \in Int /\ 0 <= s % d /\ s % d < d
    BY <1>5, <2>1, <2>2, <2>4, DivideTo
  <2>6. QED
    BY <1>5, <2>2, <2>5
<1>11. QED
  BY <1>8, <1>9, <1>10 DEF s, b

\* What is encoded of p, if it fits
Word(e, p) == [h \in DOMAIN e.base |-> Stored(e, p, h)]

LEMMA PiecesStored ==
    ASSUME NEW e, Tidy(e), NEW p, IntegerParts(e, p), NEW q \in DOMAIN e.fields,
           NEW x \in e.fields[q].pieces
    PROVE  Piece(Word(e, p), x) = StoredAs(e.fields[q], p[q], x)
<1> DEFINE h == x[3] \div 16 + 1
<1>1. h \in DOMAIN e.base
  BY TidyPiece
<1>2. x \in InHalf(e.fields[q], h)
  BY DEF InHalf
<1>3. Piece(Word(e, p), x) = Extract(Word(e, p)[h], x[3] % 16, x[2])
  BY DEF Piece
<1> HIDE DEF h
<1>4. Word(e, p)[h] = Stored(e, p, h)
  BY <1>1 DEF Word
<1>5. QED
  BY <1>1, <1>2, <1>3, <1>4, StoredPieces

LEMMA WordLength ==
    ASSUME NEW n \in Nat, NEW w, w = [h \in 1 .. n |-> w[h]]
    PROVE  Len(w) = n
<1> DEFINE S == {w[h] : h \in 1 .. n}
<1>1. w \in [1 .. n -> S]
  OBVIOUS
<1>2. w \in Seq(S)
  BY <1>1
<1>3. Len(w) \in Nat /\ DOMAIN w = 1 .. Len(w) /\ DOMAIN w = 1 .. n
  BY <1>1, <1>2
<1>4. \A i, k \in Nat : 1 .. i = 1 .. k => i = k
  OBVIOUS
<1> HIDE DEF S
<1>5. QED
  BY <1>3, <1>4

LEMMA WordType ==
    ASSUME NEW e, Tidy(e), NEW p, IntegerParts(e, p)
    PROVE  /\ Len(Word(e, p)) = Len(e.base) /\ DOMAIN Word(e, p) = DOMAIN e.base
           /\ \A h \in DOMAIN e.base : Word(e, p)[h] \in 0 .. Top
<1>1. DOMAIN e.base = 1 .. Len(e.base) /\ Len(e.base) \in {1, 2}
  BY Zenon DEF Tidy
<1>2. \A h \in DOMAIN e.base : Word(e, p)[h] \in 0 .. Top
  BY StoredPieces DEF Word
<1>3. DOMAIN Word(e, p) = 1 .. Len(e.base)
  BY <1>1 DEF Word
<1>4. Word(e, p) = [h \in 1 .. Len(e.base) |-> Word(e, p)[h]]
  BY <1>1, Zenon DEF Word
<1>5. Len(Word(e, p)) = Len(e.base)
  <2>1. Len(e.base) \in Nat
    BY <1>1
  <2> DEFINE w == Word(e, p)
             n == Len(e.base)
  <2>2. w = [h \in 1 .. n |-> w[h]]
    BY <1>4, Zenon
  <2>3. n \in Nat
    BY <2>1
  <2> HIDE DEF w, n
  <2>4. Len(w) = n
    BY <2>2, <2>3, WordLength
  <2>5. QED
    BY <2>4 DEF w, n
<1>6. QED
  BY <1>1, <1>2, <1>3, <1>5

LEMMA FieldFound ==
    ASSUME NEW f, WellFormed(f), NEW v \in Int, NEW h, NEW w, w[h] \in Int,
           \A x \in InHalf(f, h) : Piece(w, x) = StoredAs(f, v, x)
    PROVE  MatchSum(f, w, h) = FieldSum(f, v, h)
<1>1. Encoded(f, v, h) = Found(f, w, h)
  BY DEF Encoded, Found, StoredAs
<1> DEFINE k == Encoded(f, v, h)
           F == Part(k, f, h)
           S == InHalf(f, h)
<1>2. IsSum(FieldSum(f, v, h), F, S)
  BY FieldIsSum
<1>3. IsSum(MatchSum(f, w, h), F, S)
  BY <1>1, MatchIsSum
<1>4. IsFiniteSet(S) /\ \A x \in S : F[x] \in Nat
  <2>1. \A x \in S : k[x] \in 0 .. 2^x[2] - 1
    BY EncodedRange
  <2>2. \A x \in S : k[x] \in Nat
    <3> HIDE DEF k
    <3>1. QED
      BY <2>1, RangeIsNat
  <2> HIDE DEF k
  <2>3. QED
    BY <2>2, PartNat
<1> HIDE DEF F, S
<1>5. QED
  BY <1>2, <1>3, <1>4, SumIsOne DEF NatSum

\* What is encoded matches.
LEMMA WordMatches ==
    ASSUME NEW e, Tidy(e), NEW p, IntegerParts(e, p)
    PROVE  Match(e, Word(e, p))
<1> DEFINE w == Word(e, p)
<1>1. Len(w) = Len(e.base) /\ DOMAIN w = DOMAIN e.base /\ \A h \in DOMAIN e.base : w[h] \in Int
  <2>1. \A n \in 0 .. Top : n \in Int
    OBVIOUS
  <2>2. QED
    BY <2>1, WordType, Zenon
<1>2. ASSUME NEW h \in DOMAIN e.base
      PROVE  w[h] = e.base[h] + PlacedIn(e, w, h)
  <2>1. PICK n : NatSum(n, AddedTo(e, p, h), DOMAIN e.fields) /\ Stored(e, p, h) = e.base[h] + n
    BY TidyFields, StoredIsSum
  <2>2. w[h] \in Int /\ w[h] = Stored(e, p, h)
    BY <1>1 DEF Word
  <2>3. ASSUME NEW q \in DOMAIN e.fields
        PROVE  MatchSum(e.fields[q], w, h) = FieldSum(e.fields[q], p[q], h)
    <3>1. WellFormed(e.fields[q]) /\ p[q] \in Int
      BY TidyFields DEF IntegerParts
    <3>2. ASSUME NEW x \in InHalf(e.fields[q], h)
          PROVE  Piece(w, x) = StoredAs(e.fields[q], p[q], x)
      <4>1. x \in e.fields[q].pieces
        BY DEF InHalf
      <4>2. QED
        BY <4>1, PiecesStored
    <3> HIDE DEF w
    <3>3. QED
      BY <2>2, <3>1, <3>2, FieldFound
  <2> HIDE DEF w
  <2>4. FoundIn(e, w, h) = AddedTo(e, p, h)
    BY <2>3 DEF FoundIn, AddedTo
  <2>5. NatSum(PlacedIn(e, w, h), FoundIn(e, w, h), DOMAIN e.fields)
    BY <2>2, TidyFields, PlacedIsSum
  <2>6. PlacedIn(e, w, h) = n
    BY <2>1, <2>4, <2>5, SumIsOne
  <2>7. QED
    BY <2>1, <2>2, <2>6
<1>3. QED
  <2> HIDE DEF w
  <2>1. Match(e, w)
    BY <1>1, <1>2, MatchIsPlaced
  <2>2. QED
    BY <2>1 DEF w

-----------------------------------------------------------------------------
(***************************************************************************)
(* What a field is: pieces that make up its value, a sign and a twist      *)
(***************************************************************************)
\* The values of a field as they are before the sign is taken for one
Raws(f) == {r \in 0 .. 2^f.width - 1 : r % 2^f.skip = 0}

\* The pieces of a field are intervals of its value, apart from each other.
Ordered(f) ==
    /\ f.signed \in BOOLEAN /\ f.twisted \in BOOLEAN
    /\ f.width \in 1 .. 25 /\ f.skip \in 0 .. 2 /\ f.skip <= f.width
    /\ f.twisted => f.width = 25 /\ f.skip = 1
    /\ \A x \in f.pieces : f.skip <= x[1] /\ x[1] + x[2] <= f.width
    /\ \A x, y \in f.pieces : x # y => x[1] + x[2] <= y[1] \/ y[1] + y[2] <= x[1]

\* The pieces of raw at their places in it
Cut(f, raw) == [x \in f.pieces |-> Extract(raw, x[1], x[2]) * 2^x[1]]

\* ... make up all of it.
Covers(f) == \A raw \in Raws(f) : \A n : NatSum(n, Cut(f, raw), f.pieces) => n = raw

Exact(f) == Loose(f) /\ Ordered(f) /\ Covers(f)

LEMMA OrderedNumbers ==
    ASSUME NEW f, Ordered(f)
    PROVE  /\ f.width \in 1 .. 31 /\ f.width \in 0 .. 31 /\ f.skip \in 0 .. 31
           /\ f.width - f.skip \in 0 .. 31 /\ f.width - 1 \in 0 .. 30 /\ f.width - 1 \in 0 .. 31
           /\ f.skip \in Nat /\ f.width - f.skip \in Nat /\ f.width = f.skip + (f.width - f.skip)
<1>1. f.width \in 1 .. 25 /\ f.skip \in 0 .. 2 /\ f.skip <= f.width
  BY DEF Ordered
<1>2. QED
  BY <1>1

LEMMA RawOf ==
    ASSUME NEW f, Ordered(f), NEW v \in Int, v % 2^f.skip = 0
    PROVE  v % 2^f.width \in Raws(f)
<1> DEFINE a == f.skip
           b == f.width
           d == f.width - f.skip
           S == 2^a
           W == 2^b
           R == 2^d
<1>1. /\ a \in 0 .. 31 /\ b \in 0 .. 31 /\ d \in 0 .. 31 /\ b = a + d
      /\ a \in Nat /\ d \in Nat
  BY OrderedNumbers
<1>2. W = S * R
  <2> HIDE DEF a, b, d
  <2>1. QED
    BY <1>1, PowerOfSum
<1>3. S \in Nat \ {0} /\ W \in Nat \ {0} /\ R \in Nat \ {0}
  BY <1>1, Powers
<1>4. v % S = 0
  OBVIOUS
<1> HIDE DEF S, W, R
<1> DEFINE k == v \div W
           r == v % W
<1>5. k \in Int /\ r \in Int /\ 0 <= r /\ r < W /\ v = W * k + r
  BY <1>3, DivideTo
<1> HIDE DEF k, r
<1> DEFINE i == R * k
<1>6. i \in Int /\ W * k = S * i
  BY <1>2, <1>3, <1>5
<1>7. (r + S * i) % S = r % S
  <2> HIDE DEF i
  <2>1. QED
    BY <1>3, <1>5, <1>6, DivideSum
<1>8. r % S = 0 /\ r \in 0 .. W - 1
  <2> HIDE DEF i
  <2>1. S * i \in Int
    BY <1>3, <1>6
  <2>2. v = r + S * i
    BY <1>5, <1>6, <2>1
  <2>3. QED
    BY <1>3, <1>4, <1>5, <1>7, <2>2
<1>9. QED
  BY <1>8 DEF Raws, r, S, W

\* Twisting twice is not twisting.
LEMMA TwistBack ==
    ASSUME NEW f, Ordered(f), NEW raw \in Raws(f)
    PROVE  Twist(f, raw) \in Raws(f) /\ Twist(f, Twist(f, raw)) = raw
<1>1. CASE ~f.twisted
  BY <1>1 DEF Twist
<1>2. CASE f.twisted
  <2>1. f.width = 25 /\ f.skip = 1
    BY <1>2 DEF Ordered
  <2> DEFINE p(k) == 2^k
             Q == p(22)
             H == p(24)
             W == p(25)
             Z == p(21)
             T(r) == IF (r \div H) % 2 = 1 THEN r ELSE r + (3 - 2 * ((r \div Q) % 4)) * Q
  <2>2. \A r : Twist(f, r) = T(r)
    <3>1. 2^1 = 2 /\ 2^2 = 4 /\ 25 - 1 = 24 /\ 25 - 3 = 22
      OBVIOUS
    <3>2. QED
      BY <1>2, <2>1, <3>1 DEF Twist, Extract
  <2>3. \A r : r \in Raws(f) <=> r \in 0 .. W - 1 /\ r % 2 = 0
    <3>1. 2^1 = 2
      OBVIOUS
    <3>2. QED
      BY <2>1, <3>1 DEF Raws
  <2>4. W = 8 * Q /\ H = 4 * Q /\ Q = 2 * Z /\ Z \in Nat \ {0}
    <3>1. \A k \in 0 .. 30 : p(k + 1) = 2 * p(k)
      BY Doubles
    <3>2. \A k \in 0 .. 31 : p(k) \in Nat \ {0}
      BY Powers
    <3> HIDE DEF p
    <3>3. p(21 + 1) = 2 * p(21) /\ p(22 + 1) = 2 * p(22) /\ p(23 + 1) = 2 * p(23)
          /\ p(24 + 1) = 2 * p(24)
      BY <3>1
    <3>4. QED
      BY <3>2, <3>3
  <2> HIDE DEF p, Q, H, W, Z
  <2>5. Q \in Nat \ {0} /\ H \in Nat \ {0} /\ W \in Nat \ {0}
    BY <2>4
  <2>6. ASSUME NEW r \in 0 .. W - 1, r % 2 = 0
        PROVE  T(r) \in 0 .. W - 1 /\ T(r) % 2 = 0 /\ T(T(r)) = r
    <3> DEFINE k == r \div Q
               q == r % Q
    <3>1. r \in Int /\ k \in Int /\ q \in Int /\ 0 <= q /\ q < Q /\ r = Q * k + q
      BY <2>5, DivideTo
    <3> HIDE DEF k, q
    <3>2. k \in 0 .. 7
      <4>1. CASE k < 0
        <5>1. Q * k <= -Q
          BY <2>5, <3>1, <4>1
        <5>2. QED
          BY <2>5, <3>1, <5>1
      <4>2. CASE k >= 8
        <5>1. Q * k >= Q * 8
          BY <2>5, <3>1, <4>2
        <5>2. QED
          BY <2>4, <2>5, <3>1, <5>1
      <4>3. QED
        BY <3>1, <4>1, <4>2
    <3>3. CASE k >= 4
      <4>1. r - H \in Int /\ 0 <= r - H /\ r - H < H /\ r = H * 1 + (r - H)
        BY <2>4, <2>5, <3>1, <3>2, <3>3
      <4>2. r \div H = 1
        BY <2>5, <3>1, <4>1, DivideIs
      <4>3. QED
        BY <2>6, <4>2
    <3>4. CASE k < 4
      <4>1. ASSUME NEW j \in 0 .. 3, NEW t, t = Q * j + q
            PROVE  t \in Int /\ t \div H = 0 /\ t \div Q = j /\ T(t) = Q * (3 - j) + q
        <5>1. t \in Int /\ 0 <= t /\ t < H /\ t = H * 0 + t
          BY <2>4, <2>5, <3>1, <4>1
        <5>2. t \div H = 0
          BY <2>5, <5>1, DivideIs
        <5>3. j \in Int
          OBVIOUS
        <5>4. t \div Q = j
          BY <2>5, <3>1, <4>1, <5>1, <5>3, DivideIs
        <5>5. T(t) = t + (3 - 2 * j) * Q
          BY <5>2, <5>4
        <5>6. t + (3 - 2 * j) * Q = Q * (3 - j) + q
          BY <2>5, <3>1, <4>1
        <5>7. QED
          BY <5>1, <5>2, <5>4, <5>5, <5>6
      <4> DEFINE t == Q * (3 - k) + q
      <4>2. k \in 0 .. 3 /\ 3 - k \in 0 .. 3 /\ 3 - (3 - k) = k
        BY <3>2, <3>4
      <4>3. T(r) = t
        BY <3>1, <4>1, <4>2
      <4>4. T(t) = r
        <5>1. T(t) = Q * (3 - (3 - k)) + q
          <6> DEFINE j == 3 - k
          <6>1. j \in 0 .. 3 /\ t = Q * j + q
            BY <4>2
          <6> HIDE DEF j, t, T
          <6>2. T(t) = Q * (3 - j) + q
            BY <4>1, <6>1
          <6>3. QED
            BY <6>2 DEF j
        <5> HIDE DEF t, T
        <5>2. QED
          BY <3>1, <4>2, <5>1
      <4>5. t \in 0 .. W - 1
        BY <2>4, <2>5, <3>1, <4>2
      <4>6. t % 2 = 0
        <5>1. t = r + 2 * (Z * (3 - 2 * k)) /\ Z * (3 - 2 * k) \in Int
          BY <2>4, <3>1, <4>2
        <5> DEFINE i == Z * (3 - 2 * k)
        <5> HIDE DEF i, t
        <5>2. (r + 2 * i) % 2 = r % 2
          BY <3>1, <5>1, DivideSum DEF i
        <5>3. QED
          BY <2>6, <5>1, <5>2 DEF i
      <4> HIDE DEF t, T
      <4>7. QED
        BY <4>3, <4>4, <4>5, <4>6
    <3>5. QED
      BY <3>2, <3>3, <3>4
  <2>7. raw \in 0 .. W - 1 /\ raw % 2 = 0
    BY <2>3
  <2> HIDE DEF T
  <2>8. QED
    BY <2>2, <2>3, <2>6, <2>7
<1>3. QED
  BY <1>1, <1>2 DEF Ordered

\* A raw value for the number it stands for
Signs(f, raw) == IF f.signed /\ Extract(raw, f.width - 1, 1) = 1 THEN raw - 2^f.width ELSE raw

\* What comes back of v
Wrap(f, v) == Signs(f, v % 2^f.width)

\* One part of what Decode gives
Decoded(f, ins) == Signs(f, Gathered(f, ins))

LEMMA SignsHolds ==
    ASSUME NEW f, Ordered(f), NEW raw \in Raws(f)
    PROVE  /\ Signs(f, raw) \in Int /\ Holds(f, Signs(f, raw))
           /\ Signs(f, raw) % 2^f.width = raw
<1> DEFINE W == 2^f.width
           P == 2^(f.width - 1)
           S == 2^f.skip
<1>1. W \in Nat \ {0} /\ P \in Nat \ {0} /\ S \in Nat \ {0}
  BY OrderedNumbers, Powers
<1>2. W = 2 * P
  <2> DEFINE b == f.width - 1
  <2>1. b \in 0 .. 30 /\ f.width = b + 1
    BY OrderedNumbers
  <2> HIDE DEF b
  <2>2. 2^(b + 1) = 2 * 2^b
    BY <2>1, Doubles
  <2>3. QED
    BY <2>1, <2>2 DEF b
<1>3. raw \in 0 .. W - 1 /\ raw % S = 0
  BY DEF Raws
<1>4. Extract(raw, f.width - 1, 1) = (raw \div P) % 2
  <2>1. 2^1 = 2
    OBVIOUS
  <2>2. QED
    BY <2>1 DEF Extract
<1>s. f.signed \in BOOLEAN
  BY DEF Ordered
<1>5. /\ (raw - W) % S = 0
  <2> DEFINE R == 2^(f.width - f.skip)
  <2>1. W = S * R
    <3> DEFINE a == f.skip
               b == f.width
               d == f.width - f.skip
    <3>1. a \in Nat /\ b \in 0 .. 31 /\ d \in Nat /\ b = a + d
      BY OrderedNumbers
    <3> HIDE DEF a, b, d
    <3>2. 2^b = 2^a * 2^d
      BY <3>1, PowerOfSum
    <3>3. QED
      BY <3>2 DEF a, b, d
  <2>2. R \in Nat
    BY OrderedNumbers, Powers
  <2> HIDE DEF R, W, P, S
  <2>3. raw \in Int /\ -R \in Int
    BY <1>1, <1>3, <2>2
  <2>4. (raw + S * (-R)) % S = raw % S
    BY <1>1, <2>3, DivideSum
  <2>5. raw - W = raw + S * (-R)
    BY <1>1, <2>1, <2>2, <2>3
  <2>6. QED
    BY <1>3, <2>4, <2>5
<1>6. /\ Holds(f, raw - W) <=> (raw - W) % S = 0 /\ IF f.signed THEN raw - W \in -P .. P - 1
                                                     ELSE raw - W \in 0 .. W - 1
      /\ Holds(f, raw) <=> raw % S = 0 /\ IF f.signed THEN raw \in -P .. P - 1
                                                     ELSE raw \in 0 .. W - 1
  BY DEF Holds
<1>7. Signs(f, raw) = IF f.signed /\ (raw \div P) % 2 = 1 THEN raw - W ELSE raw
  BY <1>4 DEF Signs
<1> HIDE DEF W, P, S
<1>8. /\ (raw \div P) % 2 = 1 <=> raw >= P
  <2>1. CASE raw >= P
    <3>1. raw = P * 1 + (raw - P) /\ raw - P \in Int /\ 0 <= raw - P /\ raw - P < P
      BY <1>1, <1>2, <1>3, <2>1
    <3>2. raw \div P = 1
      BY <1>1, <3>1, DivideIs
    <3>3. QED
      BY <2>1, <3>2
  <2>2. CASE ~(raw >= P)
    <3>1. raw = P * 0 + raw /\ raw \in Int /\ 0 <= raw /\ raw < P
      BY <1>1, <1>2, <1>3, <2>2
    <3>2. raw \div P = 0
      BY <1>1, <3>1, DivideIs
    <3>3. QED
      BY <2>2, <3>2
  <2>3. QED
    BY <2>1, <2>2
<1>9. CASE f.signed /\ raw >= P
  <2>1. Signs(f, raw) = raw - W
    BY <1>7, <1>8, <1>9
  <2>2. raw - W \in Int /\ raw - W \in -P .. P - 1
    BY <1>1, <1>2, <1>3, <1>9
  <2>3. (raw - W) % W = raw
    <3>1. raw - W = W * (-1) + raw /\ raw \in Int /\ 0 <= raw /\ raw < W /\ -1 \in Int
      BY <1>1, <1>3
    <3>2. QED
      BY <1>1, <2>2, <3>1, DivideIs
  <2>4. QED
    BY <1>5, <1>6, <1>9, <2>1, <2>2, <2>3 DEF W
<1>10. CASE ~(f.signed /\ raw >= P)
  <2>1. Signs(f, raw) = raw
    BY <1>7, <1>8, <1>10
  <2>2. raw \in Int /\ (f.signed => raw \in -P .. P - 1)
    BY <1>1, <1>2, <1>3, <1>10
  <2>3. raw % W = raw
    <3>1. raw = W * 0 + raw /\ raw \in Int /\ 0 <= raw /\ raw < W
      BY <1>1, <1>3
    <3>2. QED
      BY <1>1, <3>1, DivideIs
  <2>4. QED
    BY <1>3, <1>6, <2>1, <2>2, <2>3 DEF W
<1>11. QED
  BY <1>9, <1>10

LEMMA HoldsWraps ==
    ASSUME NEW f, Ordered(f), NEW v, Holds(f, v)
    PROVE  Wrap(f, v) = v
<1> DEFINE W == 2^f.width
           P == 2^(f.width - 1)
<1>1. W \in Nat \ {0} /\ P \in Nat \ {0}
  BY OrderedNumbers, Powers
<1>2. W = 2 * P
  <2> DEFINE b == f.width - 1
  <2>1. b \in 0 .. 30 /\ f.width = b + 1
    BY OrderedNumbers
  <2> HIDE DEF b
  <2>2. 2^(b + 1) = 2 * 2^b
    BY <2>1, Doubles
  <2>3. QED
    BY <2>1, <2>2 DEF b
<1>3. IF f.signed THEN v \in -P .. P - 1 ELSE v \in 0 .. W - 1
  BY DEF Holds
<1> DEFINE r == v % W
<1>4. Wrap(f, v) = IF f.signed /\ (r \div P) % 2 = 1 THEN r - W ELSE r
  <2>1. 2^1 = 2
    OBVIOUS
  <2>2. QED
    BY <2>1 DEF Wrap, Signs, Extract
<1>s. f.signed \in BOOLEAN
  BY DEF Ordered
<1> HIDE DEF W, P
<1>5. CASE f.signed /\ v < 0
  <2>1. v + W \in Int /\ 0 <= v + W /\ v + W < W /\ v \in Int /\ v = W * (-1) + (v + W) /\ -1 \in Int
    BY <1>1, <1>2, <1>3, <1>5
  <2>2. r = v + W
    <3> DEFINE u == v + W
               m == -1
    <3>1. u \in Int /\ 0 <= u /\ u < W /\ v = W * m + u /\ m \in Int /\ v \in Int
      BY <2>1
    <3> HIDE DEF u, m
    <3>2. r = u
      BY <1>1, <3>1, DivideIs
    <3>3. QED
      BY <3>2 DEF u
  <2> HIDE DEF r
  <2>3. r \in Int /\ r - P \in Int /\ r = P * 1 + (r - P) /\ 0 <= r - P /\ r - P < P
    BY <1>1, <1>2, <1>3, <1>5, <2>1, <2>2
  <2>4. r \div P = 1
    BY <1>1, <2>3, DivideIs
  <2>5. QED
    BY <1>1, <1>4, <1>5, <2>1, <2>2, <2>4
<1>6. CASE ~(f.signed /\ v < 0)
  <2>1. v \in Int /\ 0 <= v /\ v < W /\ v = W * 0 + v /\ (f.signed => v < P)
    BY <1>1, <1>2, <1>3, <1>6
  <2>2. r = v
    BY <1>1, <2>1, DivideIs
  <2> HIDE DEF r
  <2>3. CASE f.signed
    <3>1. v = P * 0 + v
      BY <1>1, <2>1
    <3>2. v \div P = 0
      BY <1>1, <2>1, <2>3, <3>1, DivideIs
    <3>3. QED
      BY <1>4, <2>2, <3>2
  <2>4. CASE ~f.signed
    BY <1>4, <2>2, <2>4
  <2>5. QED
    BY <1>s, <2>3, <2>4
<1>7. QED
  BY <1>5, <1>6

LEMMA NothingExtracted ==
    ASSUME NEW a \in 0 .. 31, NEW w \in 0 .. 31
    PROVE  Extract(0, a, w) = 0 /\ 0 \div 2^a = 0
<1> DEFINE A == 2^a
           W == 2^w
<1>1. A \in Nat \ {0} /\ W \in Nat \ {0}
  BY Powers
<1> HIDE DEF A, W
<1>2. 0 \div A = 0 /\ 0 % W = 0
  BY <1>1
<1>3. QED
  BY <1>2 DEF Extract, A, W

\* A piece of a field, in the field's value
PartOf(x, v) == <<x[2], x[1], v>>

LEMMA GatheredRaw ==
    ASSUME NEW f, Exact(f), NEW ins, \A x \in f.pieces : ins[x[3] \div 16 + 1] \in Int
    PROVE  /\ RawSum(f, ins) \in Raws(f)
           /\ \A x \in f.pieces : Extract(RawSum(f, ins), x[1], x[2]) = Piece(ins, x)
<1> DEFINE S == f.pieces
           F == Collected(f, ins)
           n == RawSum(f, ins)
           T == [x \in S |-> {PartOf(x, Piece(ins, x))}]
           I == UNION {T[d] : d \in S}
<1>1. WellFormed(f) /\ Ordered(f) /\ \A x \in S : InOneHalf(x)
  BY Zenon DEF Exact, Loose
<1>2. NatSum(n, F, S)
  BY <1>1, RawIsSum
<1>3. ASSUME NEW x \in S
      PROVE  /\ x[1] \in 0 .. 31 /\ x[2] \in 0 .. 31 /\ x[2] + x[1] <= 31
             /\ x[2] + x[1] <= f.width /\ f.skip <= x[1]
             /\ Piece(ins, x) \in 0 .. 2^x[2] - 1
  <2>1. InOneHalf(x) /\ f.skip <= x[1] /\ x[1] + x[2] <= f.width /\ f.width \in 1 .. 25
    BY <1>1, Zenon DEF Ordered
  <2>2. x[1] \in 0 .. 31 /\ x[2] \in 0 .. 31 /\ x[3] \in 0 .. 31
    BY <2>1 DEF InOneHalf
  <2>3. x[3] % 16 \in 0 .. 31
    BY <2>2
  <2>4. Piece(ins, x) \in 0 .. 2^x[2] - 1
    BY <2>2, <2>3, ExtractRange DEF Piece
  <2>5. x[2] + x[1] <= f.width /\ x[2] + x[1] <= 31
    BY <2>1, <2>2
  <2>6. QED
    BY <2>1, <2>2, <2>4, <2>5
<1>4. \A x \in S : Adds(F[x], T[x]) /\ Intervals(T[x])
  <2>1. ASSUME NEW x \in S
        PROVE  Adds(F[x], T[x]) /\ Intervals(T[x])
    <3> DEFINE v == Piece(ins, x)
               w == x[2]
               a == x[1]
    <3>1. w \in 0 .. 31 /\ a \in 0 .. 31 /\ w + a <= 31 /\ v \in 0 .. 2^w - 1
      BY <1>3
    <3>2. F[x] = v * 2^a /\ T[x] = {<<w, a, v>>}
      BY DEF Collected, PartOf
    <3> HIDE DEF v, w, a, F, T
    <3>3. Adds(v * 2^a, {<<w, a, v>>})
      BY <3>1, AddsInterval
    <3>4. Intervals({<<w, a, v>>})
      BY <3>1 DEF Intervals, InPlace
    <3>5. QED
      BY <3>2, <3>3, <3>4
  <2>2. QED
    BY <2>1
<1>5. \A x, y \in S : x # y => AllApart(T[x], T[y])
  <2>1. ASSUME NEW x \in S, NEW y \in S, x # y
        PROVE  AllApart(T[x], T[y])
    <3>1. x[1] + x[2] <= y[1] \/ y[1] + y[2] <= x[1]
      BY <1>1, <2>1, Zenon DEF Ordered
    <3>2. x[1] \in 0 .. 31 /\ x[2] \in 0 .. 31 /\ y[1] \in 0 .. 31 /\ y[2] \in 0 .. 31
      BY <1>3
    <3>3. T[x] = {PartOf(x, Piece(ins, x))} /\ T[y] = {PartOf(y, Piece(ins, y))}
      OBVIOUS
    <3>4. QED
      BY <3>1, <3>2, <3>3 DEF AllApart, Apart, PartOf
  <2>2. QED
    BY <2>1
<1>6. \A x \in S : PartOf(x, Piece(ins, x)) \in I
  OBVIOUS
<1>7. \A t \in I : \E x \in S : t = PartOf(x, Piece(ins, x))
  OBVIOUS
<1> HIDE DEF T, F, n
<1>8. Adds(n, I)
  BY <1>2, <1>4, <1>5, AddsSum
<1> HIDE DEF I
<1>9. \A t \in I : Extract(0, t[2], t[1]) = 0
  <2>1. ASSUME NEW x \in S
        PROVE  Extract(0, x[1], x[2]) = 0
    BY <1>3, NothingExtracted
  <2>2. \A x, v : PartOf(x, v)[2] = x[1] /\ PartOf(x, v)[1] = x[2]
    BY DEF PartOf
  <2>3. QED
    BY <1>7, <2>1, <2>2
<1>10. n \in Nat /\ 0 + n = n
  BY <1>8 DEF Adds
<1>11. /\ \A t \in I : Extract(n, t[2], t[1]) = t[3]
       /\ \A at, width \in 0 .. 31 : at + width <= 31 /\ (\A t \in I : Apart(at, width, t)) =>
              Extract(n, at, width) = Extract(0, at, width)
       /\ \A c \in 0 .. 31 : (\A t \in I : t[2] + t[1] <= c) => n \div 2^c = 0 \div 2^c
  <2>1. /\ \A t \in I : Extract(0 + n, t[2], t[1]) = t[3]
        /\ \A at, width \in 0 .. 31 : at + width <= 31 /\ (\A t \in I : Apart(at, width, t)) =>
               Extract(0 + n, at, width) = Extract(0, at, width)
        /\ \A c \in 0 .. 31 : (\A t \in I : t[2] + t[1] <= c) => (0 + n) \div 2^c = 0 \div 2^c
    <3>1. 0 \in Nat
      OBVIOUS
    <3>2. QED
      BY <1>8, <1>9, <3>1, Zenon DEF Adds
  <2>2. QED
    BY <1>10, <2>1, Zenon
<1>12. ASSUME NEW x \in S
       PROVE  Extract(n, x[1], x[2]) = Piece(ins, x)
  BY <1>6, <1>11 DEF PartOf
<1>13. n \div 2^f.width = 0
  <2>1. \A t \in I : t[2] + t[1] <= f.width
    <3>1. \A x \in S : \A v : PartOf(x, v)[2] + PartOf(x, v)[1] = x[1] + x[2]
      BY DEF PartOf
    <3>2. \A x \in S : x[1] + x[2] <= f.width
      BY <1>1, Zenon DEF Ordered
    <3>3. QED
      BY <1>7, <3>1, <3>2
  <2>2. f.width \in 0 .. 31
    BY <1>1, OrderedNumbers
  <2>3. QED
    BY <1>11, <2>1, <2>2, NothingExtracted
<1>14. Extract(n, 0, f.skip) = 0
  <2>1. \A t \in I : Apart(0, f.skip, t)
    <3>1. \A x \in S : \A v : PartOf(x, v)[2] = x[1]
      BY DEF PartOf
    <3>2. \A x \in S : f.skip <= x[1]
      BY <1>1, Zenon DEF Ordered
    <3>3. 0 + f.skip = f.skip
      BY <1>1 DEF Ordered
    <3>4. QED
      BY <1>7, <3>1, <3>2, <3>3 DEF Apart
  <2>2. 0 \in 0 .. 31 /\ f.skip \in 0 .. 31 /\ 0 + f.skip <= 31
    BY <1>1, OrderedNumbers
  <2>3. QED
    BY <1>11, <2>1, <2>2, NothingExtracted
<1>15. n \in Raws(f)
  <2> DEFINE W == 2^f.width
             Z == 2^f.skip
  <2>1. W \in Nat \ {0} /\ Z \in Nat \ {0}
    BY <1>1, OrderedNumbers, Powers
  <2>2. (n \div 2^0) % Z = 0 /\ 2^0 = 1
    BY <1>14 DEF Extract
  <2>3. n \div W = 0
    BY <1>13
  <2> HIDE DEF W, Z
  <2>4. n = W * 0 + (n % W) /\ n % W < W /\ n % W \in Int
    BY <1>10, <2>1, <2>3, DivideTo
  <2>5. n < W /\ n \div 1 = n
    BY <1>10, <2>1, <2>4
  <2>6. n \in 0 .. W - 1 /\ n % Z = 0
    BY <1>10, <2>1, <2>2, <2>5
  <2>7. QED
    BY <2>6 DEF Raws, W, Z
<1>16. QED
  BY <1>12, <1>15 DEF n

\* What a field stores is what it gives back, ...
LEMMA FieldBack ==
    ASSUME NEW f, Exact(f), NEW v \in Int, v % 2^f.skip = 0, NEW ins,
           \A x \in f.pieces : ins[x[3] \div 16 + 1] \in Int /\ Piece(ins, x) = StoredAs(f, v, x)
    PROVE  Decoded(f, ins) = Wrap(f, v)
<1> DEFINE raw == v % 2^f.width
           t == Twist(f, raw)
<1>1. WellFormed(f) /\ Ordered(f) /\ Covers(f)
  BY Zenon DEF Exact, Loose
<1>2. raw \in Raws(f)
  BY <1>1, RawOf
<1> HIDE DEF raw
<1>3. t \in Raws(f) /\ Twist(f, t) = raw
  BY <1>1, <1>2, TwistBack
<1>4. Collected(f, ins) = Cut(f, t)
  BY DEF Collected, Cut, StoredAs, raw
<1> HIDE DEF t
<1>5. NatSum(RawSum(f, ins), Cut(f, t), f.pieces)
  BY <1>1, <1>4, RawIsSum
<1>6. RawSum(f, ins) = t
  BY <1>1, <1>3, <1>5 DEF Covers
<1>7. Gathered(f, ins) = Twist(f, RawSum(f, ins))
  BY DEF Gathered, RawSum
<1>8. QED
  BY <1>3, <1>6, <1>7 DEF Decoded, Wrap, raw

\* ... and what it gives back, it can hold and stores.
LEMMA FieldAgain ==
    ASSUME NEW f, Exact(f), NEW ins, \A x \in f.pieces : ins[x[3] \div 16 + 1] \in Int
    PROVE  /\ Decoded(f, ins) \in Int /\ Holds(f, Decoded(f, ins))
           /\ \A x \in f.pieces : StoredAs(f, Decoded(f, ins), x) = Piece(ins, x)
<1> DEFINE n == RawSum(f, ins)
           raw == Twist(f, n)
<1>1. Ordered(f)
  BY Zenon DEF Exact
<1>2. n \in Raws(f) /\ \A x \in f.pieces : Extract(n, x[1], x[2]) = Piece(ins, x)
  BY GatheredRaw
<1> HIDE DEF n
<1>3. raw \in Raws(f) /\ Twist(f, raw) = n
  BY <1>1, <1>2, TwistBack
<1>4. Gathered(f, ins) = raw
  BY DEF Gathered, RawSum, n
<1> HIDE DEF raw
<1>5. /\ Signs(f, raw) \in Int /\ Holds(f, Signs(f, raw))
      /\ Signs(f, raw) % 2^f.width = raw
  BY <1>1, <1>3, SignsHolds
<1>6. Decoded(f, ins) = Signs(f, raw)
  BY <1>4 DEF Decoded
<1>7. QED
  BY <1>2, <1>3, <1>5, <1>6, Zenon DEF StoredAs

-----------------------------------------------------------------------------
(***************************************************************************)
(* From the fields to the instruction, and back                            *)
(***************************************************************************)
\* What a field can hold, its encoder lets through.
LEMMA HoldsFits ==
    ASSUME NEW f, Ordered(f), NEW v, Holds(f, v)
    PROVE  Fits(f, v) /\ v \in Int
<1> DEFINE W == 2^f.width
           P == 2^(f.width - 1)
           Z == 2^f.skip
<1>1. W \in Nat \ {0} /\ P \in Nat \ {0} /\ Z \in Nat \ {0}
  BY OrderedNumbers, Powers
<1>2. v % Z = 0 /\ IF f.signed THEN v \in -P .. P - 1 ELSE v \in 0 .. W - 1
  BY DEF Holds
<1>s. f.signed \in BOOLEAN
  BY DEF Ordered
<1> HIDE DEF W, P, Z
<1>3. v \in Int
  BY <1>1, <1>2, <1>s
<1> DEFINE k == v \div Z
<1>4. k \in Int /\ v = Z * k
  <2>1. v = Z * k + (v % Z) /\ k \in Int
    BY <1>1, <1>3, DivideTo
  <2> HIDE DEF k
  <2>2. Z * k \in Int
    BY <1>1, <2>1
  <2>3. QED
    BY <1>2, <2>1, <2>2
<1> HIDE DEF k
<1>5. (k >= 0 => k <= v) /\ (k < 0 => v <= k)
  BY <1>1, <1>4
<1>6. IF f.signed THEN k \in -P .. P - 1 ELSE k \in 0 .. W - 1
  <2>1. CASE f.signed
    <3>1. v \in -P .. P - 1
      BY <1>2, <2>1
    <3>2. k \in -P .. P - 1
      BY <1>1, <1>3, <1>4, <1>5, <3>1
    <3>3. QED
      BY <2>1, <3>2
  <2>2. CASE ~f.signed
    <3>1. v \in 0 .. W - 1
      BY <1>2, <2>2
    <3>2. k >= 0
      <4>1. CASE k < 0
        <5>1. Z * k < 0
          BY <1>1, <1>4, <4>1
        <5>2. QED
          BY <1>1, <1>4, <3>1, <5>1
      <4>2. QED
        BY <1>4, <4>1
    <3>3. k \in 0 .. W - 1
      BY <1>1, <1>3, <1>4, <1>5, <3>1, <3>2
    <3>4. QED
      BY <2>2, <3>3
  <2>3. QED
    BY <1>s, <2>1, <2>2
<1>7. QED
  BY <1>2, <1>3, <1>6 DEF Fits, W, P, Z, k

\* An encoding whose fields are side by side and give back what they store
Sound(e) == Tidy(e) /\ \A q \in DOMAIN e.fields : Exact(e.fields[q])

\* What Decode gives back of p
Wrapped(e, p) == [q \in DOMAIN e.fields |-> Wrap(e.fields[q], p[q])]

Held(e, p) == \A q \in DOMAIN e.fields : Holds(e.fields[q], p[q])

LEMMA HeldFits ==
    ASSUME NEW e, Sound(e), NEW p, Held(e, p)
    PROVE  IntegerParts(e, p) /\ Encode(e, p) = Word(e, p)
<1>1. \A q \in DOMAIN e.fields : Fits(e.fields[q], p[q]) /\ p[q] \in Int
  <2>1. \A q \in DOMAIN e.fields : Ordered(e.fields[q])
    BY Zenon DEF Sound, Exact
  <2>2. QED
    BY <2>1, HoldsFits DEF Held
<1>2. QED
  BY <1>1 DEF IntegerParts, Encode, Word

LEMMA WrappedHeld ==
    ASSUME NEW e, Sound(e), NEW p, Held(e, p), p = [q \in DOMAIN e.fields |-> p[q]]
    PROVE  Wrapped(e, p) = p
<1>1. \A q \in DOMAIN e.fields : Wrap(e.fields[q], p[q]) = p[q]
  <2>1. \A q \in DOMAIN e.fields : Ordered(e.fields[q])
    BY Zenon DEF Sound, Exact
  <2>2. QED
    BY <2>1, HoldsWraps DEF Held
<1>2. QED
  BY <1>1 DEF Wrapped

\* What is encoded is words of the encoding, which match it and have its parts.
LEMMA EncodedMatches ==
    ASSUME NEW e, Sound(e), NEW p, IntegerParts(e, p), Encode(e, p) # <<>>
    PROVE  /\ Encode(e, p) = Word(e, p) /\ Match(e, Word(e, p))
           /\ Decode(e, Word(e, p)) = Wrapped(e, p)
           /\ Len(Word(e, p)) = Len(e.base) /\ DOMAIN Word(e, p) = DOMAIN e.base
           /\ DOMAIN e.base = 1 .. Len(e.base) /\ Len(e.base) \in {1, 2}
           /\ \A h \in DOMAIN e.base : Word(e, p)[h] \in 0 .. Top
<1> DEFINE w == Word(e, p)
<1>0. Tidy(e)
  BY DEF Sound
<1>1. Encode(e, p) = w /\ \A q \in DOMAIN e.fields : Fits(e.fields[q], p[q])
  BY DEF Encode, Word
<1>2. /\ Len(w) = Len(e.base) /\ DOMAIN w = DOMAIN e.base
      /\ \A h \in DOMAIN e.base : w[h] \in 0 .. Top
  BY <1>0, WordType
<1>3. DOMAIN e.base = 1 .. Len(e.base) /\ Len(e.base) \in {1, 2}
  BY <1>0, Zenon DEF Tidy
<1>4. Match(e, w)
  BY <1>0, WordMatches
<1>5. ASSUME NEW q \in DOMAIN e.fields
      PROVE  Decoded(e.fields[q], w) = Wrap(e.fields[q], p[q])
  <2> DEFINE f == e.fields[q]
             v == p[q]
  <2>1. Exact(f) /\ v \in Int /\ v % 2^f.skip = 0
    BY <1>1 DEF Sound, IntegerParts, Fits
  <2>2. ASSUME NEW x \in f.pieces
        PROVE  w[x[3] \div 16 + 1] \in Int /\ Piece(w, x) = StoredAs(f, v, x)
    <3>1. x[3] \div 16 + 1 \in DOMAIN e.base
      BY <1>0, TidyPiece
    <3>2. w[x[3] \div 16 + 1] \in 0 .. Top
      BY <1>2, <3>1, Zenon
    <3>3. \A n \in 0 .. Top : n \in Int
      OBVIOUS
    <3>4. w[x[3] \div 16 + 1] \in Int
      BY <3>2, <3>3, Zenon
    <3>5. Piece(w, x) = StoredAs(f, v, x)
      BY <1>0, PiecesStored
    <3>6. QED
      BY <3>4, <3>5
  <2> HIDE DEF w, f, v
  <2>3. Decoded(f, w) = Wrap(f, v)
    BY <2>1, <2>2, FieldBack
  <2>4. QED
    BY <2>3 DEF f, v
<1>6. Decode(e, w) = [q \in DOMAIN e.fields |-> Decoded(e.fields[q], w)]
  BY DEF Decode, Decoded, Signs
<1>7. Decode(e, w) = Wrapped(e, p)
  BY <1>5, <1>6, Zenon DEF Wrapped
<1>8. QED
  BY <1>1, <1>2, <1>3, <1>4, <1>7, Zenon

Halves(ins) == ins = [h \in 1 .. Len(ins) |-> ins[h]] /\ \A h \in DOMAIN ins : ins[h] \in Int

\* Words that match an encoding are what it encodes of what it decodes.
LEMMA DecodedEncodes ==
    ASSUME NEW e, Sound(e), NEW ins, Halves(ins), Match(e, ins)
    PROVE  /\ IntegerParts(e, Decode(e, ins)) /\ Held(e, Decode(e, ins))
           /\ Decode(e, ins) = [q \in DOMAIN e.fields |-> Decode(e, ins)[q]]
           /\ Word(e, Decode(e, ins)) = ins /\ Encode(e, Decode(e, ins)) = ins
<1> DEFINE p == Decode(e, ins)
<1>0. Tidy(e)
  BY DEF Sound
<1>1. /\ Len(ins) = Len(e.base)
      /\ \A h \in DOMAIN ins : ins[h] = e.base[h] + PlacedIn(e, ins, h)
  BY MatchIsPlaced
<1>2. DOMAIN e.base = 1 .. Len(e.base)
  BY <1>0, Zenon DEF Tidy
<1>3. DOMAIN ins = DOMAIN e.base /\ \A h \in DOMAIN e.base : ins[h] \in Int
  <2>1. DOMAIN ins = 1 .. Len(ins) /\ \A h \in DOMAIN ins : ins[h] \in Int
    BY DEF Halves
  <2>2. QED
    BY <1>1, <1>2, <2>1, Zenon
<1>4. p = [q \in DOMAIN e.fields |-> Decoded(e.fields[q], ins)]
  BY DEF Decode, Decoded, Signs
<1> HIDE DEF p
<1>5. ASSUME NEW q \in DOMAIN e.fields
      PROVE  /\ p[q] \in Int /\ Holds(e.fields[q], p[q])
             /\ \A x \in e.fields[q].pieces : StoredAs(e.fields[q], p[q], x) = Piece(ins, x)
  <2> DEFINE f == e.fields[q]
  <2>1. Exact(f)
    BY DEF Sound
  <2>2. \A x \in f.pieces : ins[x[3] \div 16 + 1] \in Int
    <3>1. \A x \in f.pieces : x[3] \div 16 + 1 \in DOMAIN e.base
      BY <1>0, TidyPiece
    <3>2. QED
      BY <1>3, <3>1, Zenon
  <2>3. p[q] = Decoded(f, ins)
    BY <1>4
  <2> HIDE DEF f
  <2>4. /\ Decoded(f, ins) \in Int /\ Holds(f, Decoded(f, ins))
        /\ \A x \in f.pieces : StoredAs(f, Decoded(f, ins), x) = Piece(ins, x)
    BY <2>1, <2>2, FieldAgain
  <2>5. QED
    BY <2>3, <2>4, Zenon DEF f
<1>6. IntegerParts(e, p) /\ Held(e, p)
  BY <1>5 DEF IntegerParts, Held
<1>7. ASSUME NEW h \in DOMAIN e.base
      PROVE  Stored(e, p, h) = ins[h]
  <2>1. PICK n : NatSum(n, AddedTo(e, p, h), DOMAIN e.fields) /\ Stored(e, p, h) = e.base[h] + n
    BY <1>0, <1>6, TidyFields, StoredIsSum
  <2>2. ASSUME NEW q \in DOMAIN e.fields
        PROVE  MatchSum(e.fields[q], ins, h) = FieldSum(e.fields[q], p[q], h)
    <3>1. WellFormed(e.fields[q]) /\ p[q] \in Int
      BY <1>0, <1>5, TidyFields
    <3>2. ASSUME NEW x \in InHalf(e.fields[q], h)
          PROVE  Piece(ins, x) = StoredAs(e.fields[q], p[q], x)
      <4>1. x \in e.fields[q].pieces
        BY DEF InHalf
      <4>2. QED
        BY <1>5, <4>1
    <3>3. ins[h] \in Int
      BY <1>3
    <3>4. QED
      BY <3>1, <3>2, <3>3, FieldFound
  <2>3. FoundIn(e, ins, h) = AddedTo(e, p, h)
    BY <2>2 DEF FoundIn, AddedTo
  <2>4. NatSum(PlacedIn(e, ins, h), FoundIn(e, ins, h), DOMAIN e.fields)
    BY <1>0, <1>3, TidyFields, PlacedIsSum
  <2>5. PlacedIn(e, ins, h) = n
    BY <2>1, <2>3, <2>4, SumIsOne
  <2>6. QED
    BY <1>1, <1>3, <2>1, <2>5
<1>8. ins = [h \in DOMAIN e.base |-> ins[h]]
  <2>1. ins = [h \in 1 .. Len(ins) |-> ins[h]]
    BY Zenon DEF Halves
  <2>2. QED
    BY <1>1, <1>2, <2>1, Zenon
<1>9. Word(e, p) = ins
  BY <1>7, <1>8 DEF Word
<1>10. Encode(e, p) = Word(e, p)
  BY <1>6, HeldFits
<1>11. p = [q \in DOMAIN e.fields |-> p[q]]
  BY <1>4
<1>12. QED
  BY <1>6, <1>9, <1>10, <1>11, Zenon DEF p

-----------------------------------------------------------------------------
(***************************************************************************)
(* The kinds of fields                                                     *)
(***************************************************************************)
\* Taking the lowest w bits off what is above bit a
LEMMA PieceStep ==
    ASSUME NEW raw \in Nat, NEW a \in 0 .. 31, NEW w \in 0 .. 31, NEW s \in 0 .. 31, s = a + w
    PROVE  raw \div 2^a = 2^w * (raw \div 2^s) + Extract(raw, a, w)
<1> DEFINE A == 2^a
           W == 2^w
           B == 2^s
           k == raw \div A
<1>1. A \in Nat \ {0} /\ W \in Nat \ {0} /\ B \in Nat \ {0}
  BY Powers
<1>2. Product(B, A, W)
  <2>1. a \in Nat /\ w \in Nat
    OBVIOUS
  <2>2. QED
    BY <2>1, PowerOfSum DEF Product
<1> HIDE DEF A, W, B
<1>3. raw \div B = k \div W
  <2>1. raw \in Int
    OBVIOUS
  <2>2. ASSUME NEW r \in Int
        PROVE  r \div B = (r \div A) \div W
    <3>1. A \in Nat \ {0}
      BY <1>1
    <3>2. W \in Nat \ {0}
      BY <1>1
    <3>3. Product(B, A, W)
      BY <1>2
    <3>4. r \in Int
      BY <2>2
    <3> HIDE DEF k
    <3>5. QED
      BY <3>1, <3>2, <3>3, <3>4, DivideTwice
  <2>3. QED
    BY <2>1, <2>2
<1>4. k \in Int
  BY <1>1, DivideTo
<1> HIDE DEF k
<1>5. k = W * (k \div W) + (k % W)
  BY <1>1, <1>4, DivideTo
<1>6. QED
  BY <1>3, <1>5 DEF Extract, A, W, B, k

LEMMA RawEnds ==
    ASSUME NEW f, f.width \in 1 .. 25, f.skip \in 0 .. 2, NEW raw \in Raws(f)
    PROVE  /\ raw \in Nat /\ raw \div 2^f.width = 0
           /\ raw = 2^f.skip * (raw \div 2^f.skip) /\ raw \div 2^f.skip \in Int
<1> DEFINE W == 2^f.width
           Z == 2^f.skip
<1>1. W \in Nat \ {0} /\ Z \in Nat \ {0}
  <2>1. f.width \in 0 .. 31 /\ f.skip \in 0 .. 31
    OBVIOUS
  <2>2. QED
    BY <2>1, Powers
<1>2. raw \in 0 .. W - 1 /\ raw % Z = 0
  BY DEF Raws
<1> HIDE DEF W, Z
<1>r. raw \in Nat /\ 0 <= raw /\ raw < W /\ raw % Z = 0
  BY <1>1, <1>2
<1>3. raw \in Nat /\ raw \in Int /\ raw = W * 0 + raw /\ 0 <= raw /\ raw < W
  BY <1>1, <1>r
<1>4. raw \div W = 0
  <2>1. ASSUME NEW r \in Int, 0 <= r, r < W
        PROVE  r \div W = 0
    <3>1. r = W * 0 + r /\ 0 \in Int
      BY <1>1, <2>1
    <3>2. QED
      BY <1>1, <2>1, <3>1, DivideIs
  <2>2. QED
    BY <1>3, <2>1
<1>5. raw = Z * (raw \div Z) + (raw % Z) /\ raw \div Z \in Int
  BY <1>1, <1>3, DivideTo
<1> DEFINE k == raw \div Z
<1> HIDE DEF k
<1>6. Z * k \in Int /\ raw = Z * k
  <2>1. k \in Int /\ raw = Z * k + 0
    BY <1>2, <1>5 DEF k
  <2>2. Z * k \in Int
    BY <1>1, <2>1
  <2>3. QED
    BY <2>1, <2>2
<1>7. QED
  BY <1>3, <1>4, <1>5, <1>6 DEF W, Z, k

\* A field of one piece
LEMMA OnePieceExact ==
    ASSUME NEW f, NEW x, f.pieces = {x}, InOneHalf(x), x[1] = f.skip, x[1] + x[2] = f.width,
           f.width \in 1 .. 25, f.skip \in 0 .. 2, f.signed \in BOOLEAN, f.twisted = FALSE
    PROVE  Exact(f)
<1>0. x[1] \in 0 .. 31 /\ x[2] \in 0 .. 31 /\ x[3] \in 0 .. 31
  BY DEF InOneHalf
<1>1. Loose(f)
  <2>1. IsFiniteSet(f.pieces)
    BY FS_Singleton
  <2>2. f.width \in 1 .. 31
    OBVIOUS
  <2>3. WellFormed(f)
    BY <1>0, <2>1, <2>2, Zenon DEF WellFormed, Shaped
  <2>4. QED
    BY <2>3, Zenon DEF Loose
<1>2. Ordered(f)
  <2>1. \A y \in f.pieces : f.skip <= y[1] /\ y[1] + y[2] <= f.width
    BY <1>0
  <2>2. f.skip <= f.width
    BY <1>0
  <2>3. QED
    BY <2>1, <2>2, Zenon DEF Ordered
<1>3. ASSUME NEW raw \in Raws(f), NEW n, NatSum(n, Cut(f, raw), f.pieces)
      PROVE  n = raw
  <2>1. n = Extract(raw, x[1], x[2]) * 2^x[1]
    <3>0. NatSum(n, Cut(f, raw), {x})
      BY <1>3
    <3>1. n = Cut(f, raw)[x]
      BY <3>0, SumOfOne
    <3>2. QED
      BY <3>1 DEF Cut
  <2>2. /\ raw \in Nat /\ raw \div 2^f.width = 0
        /\ raw = 2^f.skip * (raw \div 2^f.skip) /\ raw \div 2^f.skip \in Int
    BY RawEnds
  <2> DEFINE a == x[1]
             w == x[2]
             s == f.width
  <2>3. raw \div 2^a = 2^w * (raw \div 2^s) + Extract(raw, a, w)
    <3>1. a \in 0 .. 31 /\ w \in 0 .. 31 /\ s \in 0 .. 31 /\ s = a + w
      BY <1>0
    <3> HIDE DEF a, w, s
    <3>2. QED
      BY <2>2, <3>1, PieceStep
  <2> DEFINE A == 2^a
             k == raw \div A
             y == Extract(raw, a, w)
             W == 2^w
  <2>4. W \in Nat /\ A \in Nat
    BY <1>0, Powers
  <2>5. k = W * 0 + y /\ n = y * A /\ raw = A * k /\ k \in Int
    <3>1. k = W * 0 + y
      BY <2>2, <2>3
    <3>2. n = y * A
      BY <2>1
    <3>3. A = 2^f.skip
      OBVIOUS
    <3>4. raw = A * k /\ k \in Int
      BY <2>2, <3>3
    <3>5. QED
      BY <3>1, <3>2, <3>4
  <2>6. y \in Int
    <3>1. y \in 0 .. 2^w - 1
      <4>1. a \in 0 .. 31 /\ w \in 0 .. 31 /\ raw \in Int
        BY <1>0, <2>2
      <4> HIDE DEF a, w
      <4>2. QED
        BY <4>1, ExtractRange
    <3>2. \A m : \A i \in 0 .. m : i \in Int
      OBVIOUS
    <3>3. QED
      BY <3>1, <3>2, Zenon
  <2> HIDE DEF A, k, y, W
  <2>7. QED
    BY <2>4, <2>5, <2>6
<1>4. QED
  BY <1>1, <1>2, <1>3, Zenon DEF Exact, Covers

InHalfword(w, at) ==
    w \in 1 .. 16 /\ at \in 0 .. 31 /\ (at + w <= 16 \/ (at >= 16 /\ at + w <= 32))

LEMMA BitsExact ==
    ASSUME NEW w, NEW at, InHalfword(w, at)
    PROVE  Exact(Bits(w, at))
<1> DEFINE f == Bits(w, at)
           x == <<0, w, at>>
<1>0. w \in 1 .. 16 /\ at \in 0 .. 31 /\ (at + w <= 16 \/ (at >= 16 /\ at + w <= 32))
  BY DEF InHalfword
<1>1. f.pieces = {x} /\ f.width = w /\ f.skip = 0
  BY DEF Bits, Field
<1>2. f.signed \in BOOLEAN /\ f.twisted = FALSE
  BY Zenon DEF Bits, Field
<1>3. x[1] = 0 /\ x[2] = w /\ x[3] = at
  OBVIOUS
<1>4. InOneHalf(x)
  BY <1>0, <1>3 DEF InOneHalf
<1> HIDE DEF f, x
<1>5. x[1] = f.skip /\ x[1] + x[2] = f.width /\ f.width \in 1 .. 25 /\ f.skip \in 0 .. 2
  BY <1>0, <1>1, <1>3
<1>6. Exact(f)
  BY <1>1, <1>2, <1>4, <1>5, OnePieceExact
<1>7. QED
  BY <1>6 DEF f

\* The fields that are not all of one piece, or not of all bits
SumsOfFive(n, F, a, b, c, d, e) ==
    /\ NatSum(n, F, {a, b, c, d, e})
    /\ a # b /\ a # c /\ a # d /\ a # e /\ b # c /\ b # d /\ b # e /\ c # d /\ c # e /\ d # e

LEMMA SumOfFive ==
    ASSUME NEW n, NEW F, NEW a, NEW b, NEW c, NEW d, NEW e, SumsOfFive(n, F, a, b, c, d, e)
    PROVE  n = F[a] + F[b] + F[c] + F[d] + F[e]
<1>0. /\ NatSum(n, F, {a, b, c, d, e})
      /\ a # b /\ a # c /\ a # d /\ a # e /\ b # c /\ b # d /\ b # e /\ c # d /\ c # e /\ d # e
  BY DEF SumsOfFive
<1> USE <1>0
<1> DEFINE S == {a, b, c, d, e}
<1>1. PICK m \in Nat : NatSum(m, F, S \ {a}) /\ n = F[a] + m /\ F[a] \in Nat
  <2>1. a \in S
    OBVIOUS
  <2> HIDE DEF S
  <2>2. NatSum(n, F, S)
    BY DEF S
  <2>3. QED
    BY <2>1, <2>2, TakeOut
<1>2. S \ {a} = {b, c, d, e}
  OBVIOUS
<1>3. NatSum(m, F, {b, c, d, e})
  BY <1>1, <1>2
<1>4. m = F[b] + F[c] + F[d] + F[e]
  BY <1>3, SumOfFour DEF SumsOfFour
<1>5. F[a] \in Nat /\ F[b] \in Nat /\ F[c] \in Nat /\ F[d] \in Nat /\ F[e] \in Nat
  BY <1>1, <1>3 DEF NatSum
<1>6. QED
  BY <1>1, <1>4, <1>5

\* What a value has from bit k on
Above(raw, k) == raw \div 2^k

\* The pieces of a value, and what is above each
LEMMA Slices ==
    ASSUME NEW f, Ordered(f), \A x \in f.pieces : InOneHalf(x), NEW raw \in Raws(f)
    PROVE  /\ raw = 2^f.skip * Above(raw, f.skip) /\ Above(raw, f.width) = 0
           /\ \A x \in f.pieces :
                  /\ Cut(f, raw)[x] = Extract(raw, x[1], x[2]) * 2^x[1]
                  /\ Above(raw, x[1]) = 2^x[2] * Above(raw, x[1] + x[2]) + Extract(raw, x[1], x[2])
                  /\ Above(raw, x[1]) \in Int /\ Above(raw, x[1] + x[2]) \in Int
                  /\ Extract(raw, x[1], x[2]) \in Int
<1>1. /\ raw \in Nat /\ raw \div 2^f.width = 0
      /\ raw = 2^f.skip * (raw \div 2^f.skip)
  <2>1. f.width \in 1 .. 25 /\ f.skip \in 0 .. 2
    BY DEF Ordered
  <2>2. QED
    BY <2>1, RawEnds
<1>2. ASSUME NEW a \in 0 .. 31
      PROVE  raw \div 2^a \in Int
  <2> DEFINE A == 2^a
  <2>1. A \in Nat \ {0}
    BY Powers
  <2> HIDE DEF A
  <2>2. raw \div A \in Int
    BY <1>1, <2>1, DivideTo
  <2>3. QED
    BY <2>2 DEF A
<1>3. ASSUME NEW x \in f.pieces
      PROVE  /\ Cut(f, raw)[x] = Extract(raw, x[1], x[2]) * 2^x[1]
             /\ Above(raw, x[1]) = 2^x[2] * Above(raw, x[1] + x[2]) + Extract(raw, x[1], x[2])
             /\ Above(raw, x[1]) \in Int /\ Above(raw, x[1] + x[2]) \in Int
             /\ Extract(raw, x[1], x[2]) \in Int
  <2> DEFINE a == x[1]
             w == x[2]
             s == x[1] + x[2]
  <2>1. a \in 0 .. 31 /\ w \in 0 .. 31 /\ s \in 0 .. 31 /\ s = a + w
    <3>1. InOneHalf(x) /\ s <= f.width /\ f.width \in 1 .. 25
      BY Zenon DEF Ordered
    <3>2. QED
      BY <3>1 DEF InOneHalf
  <2>2. Cut(f, raw)[x] = Extract(raw, a, w) * 2^a
    BY DEF Cut
  <2> HIDE DEF a, w, s
  <2>3. raw \div 2^a = 2^w * (raw \div 2^s) + Extract(raw, a, w)
    BY <1>1, <2>1, PieceStep
  <2>4. raw \div 2^a \in Int /\ raw \div 2^s \in Int
    BY <1>2, <2>1
  <2>5. Extract(raw, a, w) \in Int
    <3>1. raw \in Int
      BY <1>1
    <3>2. Extract(raw, a, w) \in 0 .. 2^w - 1
      BY <2>1, <3>1, ExtractRange
    <3>3. \A m : \A i \in 0 .. m : i \in Int
      OBVIOUS
    <3>4. QED
      BY <3>2, <3>3, Zenon
  <2>6. QED
    BY <2>2, <2>3, <2>4, <2>5, Zenon DEF a, w, s, Above
<1>4. QED
  BY <1>1, <1>3, Zenon DEF Above

\* The fields of one piece whose lowest bits are not stored
LEMMA OthersExact ==
    /\ Exact(Words(7, 6))
    /\ Exact(Words(10, 0))
    /\ Exact(Branch(9, {<<1, 8, 0>>}))
    /\ Exact(Branch(12, {<<1, 11, 0>>}))
<1>1. Exact(Words(7, 6))
  <2> DEFINE f == Words(7, 6)
             x == <<2, 5, 6>>
  <2>1. f.pieces = {x} /\ f.width = 7 /\ f.skip = 2
    BY DEF Words, Branch, Field
  <2>2. f.signed \in BOOLEAN /\ f.twisted = FALSE
    BY Zenon DEF Words, Branch, Field
  <2>3. x[1] = 2 /\ x[2] = 5 /\ x[3] = 6
    OBVIOUS
  <2>4. InOneHalf(x)
    BY <2>3 DEF InOneHalf
  <2> HIDE DEF f, x
  <2>5. x[1] = f.skip /\ x[1] + x[2] = f.width /\ f.width \in 1 .. 25 /\ f.skip \in 0 .. 2
    BY <2>1, <2>3
  <2>6. Exact(f)
    BY <2>1, <2>2, <2>4, <2>5, OnePieceExact
  <2>7. QED
    BY <2>6 DEF f
<1>2. Exact(Words(10, 0))
  <2> DEFINE f == Words(10, 0)
             x == <<2, 8, 0>>
  <2>1. f.pieces = {x} /\ f.width = 10 /\ f.skip = 2
    BY DEF Words, Branch, Field
  <2>2. f.signed \in BOOLEAN /\ f.twisted = FALSE
    BY Zenon DEF Words, Branch, Field
  <2>3. x[1] = 2 /\ x[2] = 8 /\ x[3] = 0
    OBVIOUS
  <2>4. InOneHalf(x)
    BY <2>3 DEF InOneHalf
  <2> HIDE DEF f, x
  <2>5. x[1] = f.skip /\ x[1] + x[2] = f.width /\ f.width \in 1 .. 25 /\ f.skip \in 0 .. 2
    BY <2>1, <2>3
  <2>6. Exact(f)
    BY <2>1, <2>2, <2>4, <2>5, OnePieceExact
  <2>7. QED
    BY <2>6 DEF f
<1>3. Exact(Branch(9, {<<1, 8, 0>>}))
  <2> DEFINE f == Branch(9, {<<1, 8, 0>>})
             x == <<1, 8, 0>>
  <2>1. f.pieces = {x} /\ f.width = 9 /\ f.skip = 1
    BY DEF Words, Branch, Field
  <2>2. f.signed \in BOOLEAN /\ f.twisted = FALSE
    BY Zenon DEF Words, Branch, Field
  <2>3. x[1] = 1 /\ x[2] = 8 /\ x[3] = 0
    OBVIOUS
  <2>4. InOneHalf(x)
    BY <2>3 DEF InOneHalf
  <2> HIDE DEF f, x
  <2>5. x[1] = f.skip /\ x[1] + x[2] = f.width /\ f.width \in 1 .. 25 /\ f.skip \in 0 .. 2
    BY <2>1, <2>3
  <2>6. Exact(f)
    BY <2>1, <2>2, <2>4, <2>5, OnePieceExact
  <2>7. QED
    BY <2>6 DEF f
<1>4. Exact(Branch(12, {<<1, 11, 0>>}))
  <2> DEFINE f == Branch(12, {<<1, 11, 0>>})
             x == <<1, 11, 0>>
  <2>1. f.pieces = {x} /\ f.width = 12 /\ f.skip = 1
    BY DEF Words, Branch, Field
  <2>2. f.signed \in BOOLEAN /\ f.twisted = FALSE
    BY Zenon DEF Words, Branch, Field
  <2>3. x[1] = 1 /\ x[2] = 11 /\ x[3] = 0
    OBVIOUS
  <2>4. InOneHalf(x)
    BY <2>3 DEF InOneHalf
  <2> HIDE DEF f, x
  <2>5. x[1] = f.skip /\ x[1] + x[2] = f.width /\ f.width \in 1 .. 25 /\ f.skip \in 0 .. 2
    BY <2>1, <2>3
  <2>6. Exact(f)
    BY <2>1, <2>2, <2>4, <2>5, OnePieceExact
  <2>7. QED
    BY <2>6 DEF f
<1>5. QED
  BY <1>1, <1>2, <1>3, <1>4

LEMMA SplitRegisterExact == Exact(Split(4, {<<3, 1, 7>>, <<0, 3, 0>>}))
<1> DEFINE a == <<3, 1, 7>>
           b == <<0, 3, 0>>
           f == Split(4, {a, b})
<1>1. f.width = 4 /\ f.skip = 0 /\ f.pieces = {a, b}
  BY DEF Split, TwistedBranch, Branch, Field
<1>2. f.signed = FALSE /\ f.twisted = FALSE
  BY Zenon DEF Split, TwistedBranch, Branch, Field
<1>3. /\ a[1] = 3 /\ a[2] = 1 /\ a[3] = 7
      /\ b[1] = 0 /\ b[2] = 3 /\ b[3] = 0
  OBVIOUS
<1>4. InOneHalf(a) /\ InOneHalf(b)
  BY DEF InOneHalf
<1> HIDE DEF a, b, f
<1>5. \A x, y \in f.pieces : x # y =>
          Beside(x, y) /\ (x[1] + x[2] <= y[1] \/ y[1] + y[2] <= x[1])
  BY <1>1, <1>3 DEF Beside
<1>6. \A x \in f.pieces : InOneHalf(x) /\ f.skip <= x[1] /\ x[1] + x[2] <= f.width
  BY <1>1, <1>3, <1>4
<1>7. WellFormed(f)
  <2>1. f.pieces \in SUBSET {a, b, b, b, b, b}
    BY <1>1
  <2>2. IsFiniteSet(f.pieces)
    BY <2>1, FewAreFinite
  <2>3. f.width \in 1 .. 31 /\ f.width >= 3
    BY <1>1
  <2>4. \A x \in f.pieces : x[1] \in 0 .. 31 /\ x[2] \in 0 .. 31 /\ x[3] \in 0 .. 31
    BY <1>1, <1>3
  <2>5. QED
    BY <1>2, <2>2, <2>3, <2>4, Zenon DEF WellFormed, Shaped
<1>8. Loose(f)
  BY <1>5, <1>6, <1>7, Zenon DEF Loose
<1>9. Ordered(f)
  <2>1. f.width \in 1 .. 25 /\ f.skip \in 0 .. 2 /\ f.skip <= f.width
    BY <1>1
  <2>2. f.signed \in BOOLEAN /\ f.twisted \in BOOLEAN /\ (f.twisted => f.width = 25 /\ f.skip = 1)
    BY <1>1, <1>2, Zenon
  <2>3. QED
    BY <1>5, <1>6, <2>1, <2>2, Zenon DEF Ordered
<1>10. ASSUME NEW raw \in Raws(f), NEW n, NatSum(n, Cut(f, raw), f.pieces)
       PROVE  n = raw
  <2> DEFINE F == Cut(f, raw)
  <2>1. a # b
    BY <1>3
  <2>2. n = F[a] + F[b]
    <3>1. NatSum(n, F, {a, b})
      BY <1>1, <1>10
    <3> HIDE DEF F
    <3>2. SumsOfTwo(n, F, a, b)
      BY <2>1, <3>1, Zenon DEF SumsOfTwo
    <3>3. QED
      BY <3>2, SumOfTwo
  <2> DEFINE Ea == Extract(raw, 3, 1)
             Eb == Extract(raw, 0, 3)
             D0 == Above(raw, 0)
             D3 == Above(raw, 3)
             D4 == Above(raw, 4)
  <2>3. /\ raw = 2^0 * D0 /\ D4 = 0
        /\ \A x \in f.pieces :
               /\ F[x] = Extract(raw, x[1], x[2]) * 2^x[1]
               /\ Above(raw, x[1]) = 2^x[2] * Above(raw, x[1] + x[2]) + Extract(raw, x[1], x[2])
               /\ Above(raw, x[1]) \in Int /\ Above(raw, x[1] + x[2]) \in Int
               /\ Extract(raw, x[1], x[2]) \in Int
    <3>1. \A x \in f.pieces : InOneHalf(x)
      BY <1>6
    <3>2. /\ raw = 2^f.skip * Above(raw, f.skip) /\ Above(raw, f.width) = 0
          /\ \A x \in f.pieces :
                 /\ F[x] = Extract(raw, x[1], x[2]) * 2^x[1]
                 /\ Above(raw, x[1]) = 2^x[2] * Above(raw, x[1] + x[2]) + Extract(raw, x[1], x[2])
                 /\ Above(raw, x[1]) \in Int /\ Above(raw, x[1] + x[2]) \in Int
                 /\ Extract(raw, x[1], x[2]) \in Int
      BY <1>9, <3>1, Slices
    <3>3. raw = 2^0 * D0 /\ D4 = 0
      BY <1>1, <3>2
    <3>4. QED
      BY <3>2, <3>3, Zenon
  <2>4. /\ F[b] = Eb * 2^0 /\ Eb \in Int /\ D0 \in Int /\ D3 \in Int
        /\ D0 = 2^3 * D3 + Eb
        /\ F[a] = Ea * 2^3 /\ Ea \in Int /\ D3 \in Int /\ D4 \in Int
        /\ D3 = 2^1 * D4 + Ea
    <3>1. /\ F[b] = Eb * 2^0 /\ Eb \in Int /\ D0 \in Int /\ D3 \in Int
          /\ D0 = 2^3 * D3 + Eb
      <4>1. 0 + 3 = 3 /\ b \in f.pieces
        BY <1>1
      <4> HIDE DEF F
      <4>2. QED
        BY <1>3, <2>3, <4>1, Zenon
    <3>2. /\ F[a] = Ea * 2^3 /\ Ea \in Int /\ D3 \in Int /\ D4 \in Int
          /\ D3 = 2^1 * D4 + Ea
      <4>1. 3 + 1 = 4 /\ a \in f.pieces
        BY <1>1
      <4> HIDE DEF F
      <4>2. QED
        BY <1>3, <2>3, <4>1, Zenon
    <3>3. QED
      BY <3>1, <3>2
  <2> HIDE DEF Ea, Eb, D0, D3, D4, F
  <2>5. raw = Ea * 2^3 + Eb * 2^0
    BY SMT, <2>3, <2>4
  <2>6. QED
    BY SMT, <2>2, <2>4, <2>5
<1>11. QED
  <2>1. Exact(f)
    BY <1>8, <1>9, <1>10, Zenon DEF Exact, Covers
  <2>2. QED
    BY <2>1 DEF f, a, b

LEMMA SplitTwelveExact == Exact(Split(12, {<<8, 3, 28>>, <<0, 8, 16>>, <<11, 1, 10>>}))
<1> DEFINE a == <<8, 3, 28>>
           b == <<0, 8, 16>>
           c == <<11, 1, 10>>
           f == Split(12, {a, b, c})
<1>1. f.width = 12 /\ f.skip = 0 /\ f.pieces = {a, b, c}
  BY DEF Split, TwistedBranch, Branch, Field
<1>2. f.signed = FALSE /\ f.twisted = FALSE
  BY Zenon DEF Split, TwistedBranch, Branch, Field
<1>3. /\ a[1] = 8 /\ a[2] = 3 /\ a[3] = 28
      /\ b[1] = 0 /\ b[2] = 8 /\ b[3] = 16
      /\ c[1] = 11 /\ c[2] = 1 /\ c[3] = 10
  OBVIOUS
<1>4. InOneHalf(a) /\ InOneHalf(b) /\ InOneHalf(c)
  BY DEF InOneHalf
<1> HIDE DEF a, b, c, f
<1>5. \A x, y \in f.pieces : x # y =>
          Beside(x, y) /\ (x[1] + x[2] <= y[1] \/ y[1] + y[2] <= x[1])
  BY <1>1, <1>3 DEF Beside
<1>6. \A x \in f.pieces : InOneHalf(x) /\ f.skip <= x[1] /\ x[1] + x[2] <= f.width
  BY <1>1, <1>3, <1>4
<1>7. WellFormed(f)
  <2>1. f.pieces \in SUBSET {a, b, c, c, c, c}
    BY <1>1
  <2>2. IsFiniteSet(f.pieces)
    BY <2>1, FewAreFinite
  <2>3. f.width \in 1 .. 31 /\ f.width >= 3
    BY <1>1
  <2>4. \A x \in f.pieces : x[1] \in 0 .. 31 /\ x[2] \in 0 .. 31 /\ x[3] \in 0 .. 31
    BY <1>1, <1>3
  <2>5. QED
    BY <1>2, <2>2, <2>3, <2>4, Zenon DEF WellFormed, Shaped
<1>8. Loose(f)
  BY <1>5, <1>6, <1>7, Zenon DEF Loose
<1>9. Ordered(f)
  <2>1. f.width \in 1 .. 25 /\ f.skip \in 0 .. 2 /\ f.skip <= f.width
    BY <1>1
  <2>2. f.signed \in BOOLEAN /\ f.twisted \in BOOLEAN /\ (f.twisted => f.width = 25 /\ f.skip = 1)
    BY <1>1, <1>2, Zenon
  <2>3. QED
    BY <1>5, <1>6, <2>1, <2>2, Zenon DEF Ordered
<1>10. ASSUME NEW raw \in Raws(f), NEW n, NatSum(n, Cut(f, raw), f.pieces)
       PROVE  n = raw
  <2> DEFINE F == Cut(f, raw)
  <2>1. a # b /\ a # c /\ b # c
    BY <1>3
  <2>2. n = F[a] + F[b] + F[c]
    <3>1. NatSum(n, F, {a, b, c})
      BY <1>1, <1>10
    <3> HIDE DEF F
    <3>2. SumsOfThree(n, F, a, b, c)
      BY <2>1, <3>1, Zenon DEF SumsOfThree
    <3>3. QED
      BY <3>2, SumOfThree
  <2> DEFINE Ea == Extract(raw, 8, 3)
             Eb == Extract(raw, 0, 8)
             Ec == Extract(raw, 11, 1)
             D0 == Above(raw, 0)
             D8 == Above(raw, 8)
             D11 == Above(raw, 11)
             D12 == Above(raw, 12)
  <2>3. /\ raw = 2^0 * D0 /\ D12 = 0
        /\ \A x \in f.pieces :
               /\ F[x] = Extract(raw, x[1], x[2]) * 2^x[1]
               /\ Above(raw, x[1]) = 2^x[2] * Above(raw, x[1] + x[2]) + Extract(raw, x[1], x[2])
               /\ Above(raw, x[1]) \in Int /\ Above(raw, x[1] + x[2]) \in Int
               /\ Extract(raw, x[1], x[2]) \in Int
    <3>1. \A x \in f.pieces : InOneHalf(x)
      BY <1>6
    <3>2. /\ raw = 2^f.skip * Above(raw, f.skip) /\ Above(raw, f.width) = 0
          /\ \A x \in f.pieces :
                 /\ F[x] = Extract(raw, x[1], x[2]) * 2^x[1]
                 /\ Above(raw, x[1]) = 2^x[2] * Above(raw, x[1] + x[2]) + Extract(raw, x[1], x[2])
                 /\ Above(raw, x[1]) \in Int /\ Above(raw, x[1] + x[2]) \in Int
                 /\ Extract(raw, x[1], x[2]) \in Int
      BY <1>9, <3>1, Slices
    <3>3. raw = 2^0 * D0 /\ D12 = 0
      BY <1>1, <3>2
    <3>4. QED
      BY <3>2, <3>3, Zenon
  <2>4. /\ F[b] = Eb * 2^0 /\ Eb \in Int /\ D0 \in Int /\ D8 \in Int
        /\ D0 = 2^8 * D8 + Eb
        /\ F[a] = Ea * 2^8 /\ Ea \in Int /\ D8 \in Int /\ D11 \in Int
        /\ D8 = 2^3 * D11 + Ea
        /\ F[c] = Ec * 2^11 /\ Ec \in Int /\ D11 \in Int /\ D12 \in Int
        /\ D11 = 2^1 * D12 + Ec
    <3>1. /\ F[b] = Eb * 2^0 /\ Eb \in Int /\ D0 \in Int /\ D8 \in Int
          /\ D0 = 2^8 * D8 + Eb
      <4>1. 0 + 8 = 8 /\ b \in f.pieces
        BY <1>1
      <4> HIDE DEF F
      <4>2. QED
        BY <1>3, <2>3, <4>1, Zenon
    <3>2. /\ F[a] = Ea * 2^8 /\ Ea \in Int /\ D8 \in Int /\ D11 \in Int
          /\ D8 = 2^3 * D11 + Ea
      <4>1. 8 + 3 = 11 /\ a \in f.pieces
        BY <1>1
      <4> HIDE DEF F
      <4>2. QED
        BY <1>3, <2>3, <4>1, Zenon
    <3>3. /\ F[c] = Ec * 2^11 /\ Ec \in Int /\ D11 \in Int /\ D12 \in Int
          /\ D11 = 2^1 * D12 + Ec
      <4>1. 11 + 1 = 12 /\ c \in f.pieces
        BY <1>1
      <4> HIDE DEF F
      <4>2. QED
        BY <1>3, <2>3, <4>1, Zenon
    <3>4. QED
      BY <3>1, <3>2, <3>3
  <2> HIDE DEF Ea, Eb, Ec, D0, D8, D11, D12, F
  <2>5. raw = Ea * 2^8 + Eb * 2^0 + Ec * 2^11
    BY SMT, <2>3, <2>4
  <2>6. QED
    BY SMT, <2>2, <2>4, <2>5
<1>11. QED
  <2>1. Exact(f)
    BY <1>8, <1>9, <1>10, Zenon DEF Exact, Covers
  <2>2. QED
    BY <2>1 DEF f, a, b, c

LEMMA SplitSixteenExact == Exact(Split(16, {<<8, 3, 28>>, <<0, 8, 16>>, <<11, 1, 10>>, <<12, 4, 0>>}))
<1> DEFINE a == <<8, 3, 28>>
           b == <<0, 8, 16>>
           c == <<11, 1, 10>>
           d == <<12, 4, 0>>
           f == Split(16, {a, b, c, d})
<1>1. f.width = 16 /\ f.skip = 0 /\ f.pieces = {a, b, c, d}
  BY DEF Split, TwistedBranch, Branch, Field
<1>2. f.signed = FALSE /\ f.twisted = FALSE
  BY Zenon DEF Split, TwistedBranch, Branch, Field
<1>3. /\ a[1] = 8 /\ a[2] = 3 /\ a[3] = 28
      /\ b[1] = 0 /\ b[2] = 8 /\ b[3] = 16
      /\ c[1] = 11 /\ c[2] = 1 /\ c[3] = 10
      /\ d[1] = 12 /\ d[2] = 4 /\ d[3] = 0
  OBVIOUS
<1>4. InOneHalf(a) /\ InOneHalf(b) /\ InOneHalf(c) /\ InOneHalf(d)
  BY DEF InOneHalf
<1> HIDE DEF a, b, c, d, f
<1>5. \A x, y \in f.pieces : x # y =>
          Beside(x, y) /\ (x[1] + x[2] <= y[1] \/ y[1] + y[2] <= x[1])
  BY <1>1, <1>3 DEF Beside
<1>6. \A x \in f.pieces : InOneHalf(x) /\ f.skip <= x[1] /\ x[1] + x[2] <= f.width
  BY <1>1, <1>3, <1>4
<1>7. WellFormed(f)
  <2>1. f.pieces \in SUBSET {a, b, c, d, d, d}
    BY <1>1
  <2>2. IsFiniteSet(f.pieces)
    BY <2>1, FewAreFinite
  <2>3. f.width \in 1 .. 31 /\ f.width >= 3
    BY <1>1
  <2>4. \A x \in f.pieces : x[1] \in 0 .. 31 /\ x[2] \in 0 .. 31 /\ x[3] \in 0 .. 31
    BY <1>1, <1>3
  <2>5. QED
    BY <1>2, <2>2, <2>3, <2>4, Zenon DEF WellFormed, Shaped
<1>8. Loose(f)
  BY <1>5, <1>6, <1>7, Zenon DEF Loose
<1>9. Ordered(f)
  <2>1. f.width \in 1 .. 25 /\ f.skip \in 0 .. 2 /\ f.skip <= f.width
    BY <1>1
  <2>2. f.signed \in BOOLEAN /\ f.twisted \in BOOLEAN /\ (f.twisted => f.width = 25 /\ f.skip = 1)
    BY <1>1, <1>2, Zenon
  <2>3. QED
    BY <1>5, <1>6, <2>1, <2>2, Zenon DEF Ordered
<1>10. ASSUME NEW raw \in Raws(f), NEW n, NatSum(n, Cut(f, raw), f.pieces)
       PROVE  n = raw
  <2> DEFINE F == Cut(f, raw)
  <2>1. a # b /\ a # c /\ a # d /\ b # c /\ b # d /\ c # d
    BY <1>3
  <2>2. n = F[a] + F[b] + F[c] + F[d]
    <3>1. NatSum(n, F, {a, b, c, d})
      BY <1>1, <1>10
    <3> HIDE DEF F
    <3>2. SumsOfFour(n, F, a, b, c, d)
      BY <2>1, <3>1, Zenon DEF SumsOfFour
    <3>3. QED
      BY <3>2, SumOfFour
  <2> DEFINE Ea == Extract(raw, 8, 3)
             Eb == Extract(raw, 0, 8)
             Ec == Extract(raw, 11, 1)
             Ed == Extract(raw, 12, 4)
             D0 == Above(raw, 0)
             D8 == Above(raw, 8)
             D11 == Above(raw, 11)
             D12 == Above(raw, 12)
             D16 == Above(raw, 16)
  <2>3. /\ raw = 2^0 * D0 /\ D16 = 0
        /\ \A x \in f.pieces :
               /\ F[x] = Extract(raw, x[1], x[2]) * 2^x[1]
               /\ Above(raw, x[1]) = 2^x[2] * Above(raw, x[1] + x[2]) + Extract(raw, x[1], x[2])
               /\ Above(raw, x[1]) \in Int /\ Above(raw, x[1] + x[2]) \in Int
               /\ Extract(raw, x[1], x[2]) \in Int
    <3>1. \A x \in f.pieces : InOneHalf(x)
      BY <1>6
    <3>2. /\ raw = 2^f.skip * Above(raw, f.skip) /\ Above(raw, f.width) = 0
          /\ \A x \in f.pieces :
                 /\ F[x] = Extract(raw, x[1], x[2]) * 2^x[1]
                 /\ Above(raw, x[1]) = 2^x[2] * Above(raw, x[1] + x[2]) + Extract(raw, x[1], x[2])
                 /\ Above(raw, x[1]) \in Int /\ Above(raw, x[1] + x[2]) \in Int
                 /\ Extract(raw, x[1], x[2]) \in Int
      BY <1>9, <3>1, Slices
    <3>3. raw = 2^0 * D0 /\ D16 = 0
      BY <1>1, <3>2
    <3>4. QED
      BY <3>2, <3>3, Zenon
  <2>4. /\ F[b] = Eb * 2^0 /\ Eb \in Int /\ D0 \in Int /\ D8 \in Int
        /\ D0 = 2^8 * D8 + Eb
        /\ F[a] = Ea * 2^8 /\ Ea \in Int /\ D8 \in Int /\ D11 \in Int
        /\ D8 = 2^3 * D11 + Ea
        /\ F[c] = Ec * 2^11 /\ Ec \in Int /\ D11 \in Int /\ D12 \in Int
        /\ D11 = 2^1 * D12 + Ec
        /\ F[d] = Ed * 2^12 /\ Ed \in Int /\ D12 \in Int /\ D16 \in Int
        /\ D12 = 2^4 * D16 + Ed
    <3>1. /\ F[b] = Eb * 2^0 /\ Eb \in Int /\ D0 \in Int /\ D8 \in Int
          /\ D0 = 2^8 * D8 + Eb
      <4>1. 0 + 8 = 8 /\ b \in f.pieces
        BY <1>1
      <4> HIDE DEF F
      <4>2. QED
        BY <1>3, <2>3, <4>1, Zenon
    <3>2. /\ F[a] = Ea * 2^8 /\ Ea \in Int /\ D8 \in Int /\ D11 \in Int
          /\ D8 = 2^3 * D11 + Ea
      <4>1. 8 + 3 = 11 /\ a \in f.pieces
        BY <1>1
      <4> HIDE DEF F
      <4>2. QED
        BY <1>3, <2>3, <4>1, Zenon
    <3>3. /\ F[c] = Ec * 2^11 /\ Ec \in Int /\ D11 \in Int /\ D12 \in Int
          /\ D11 = 2^1 * D12 + Ec
      <4>1. 11 + 1 = 12 /\ c \in f.pieces
        BY <1>1
      <4> HIDE DEF F
      <4>2. QED
        BY <1>3, <2>3, <4>1, Zenon
    <3>4. /\ F[d] = Ed * 2^12 /\ Ed \in Int /\ D12 \in Int /\ D16 \in Int
          /\ D12 = 2^4 * D16 + Ed
      <4>1. 12 + 4 = 16 /\ d \in f.pieces
        BY <1>1
      <4> HIDE DEF F
      <4>2. QED
        BY <1>3, <2>3, <4>1, Zenon
    <3>5. QED
      BY <3>1, <3>2, <3>3, <3>4
  <2> HIDE DEF Ea, Eb, Ec, Ed, D0, D8, D11, D12, D16, F
  <2>5. raw = Ea * 2^8 + Eb * 2^0 + Ec * 2^11 + Ed * 2^12
    BY SMT, <2>3, <2>4
  <2>6. QED
    BY SMT, <2>2, <2>4, <2>5
<1>11. QED
  <2>1. Exact(f)
    BY <1>8, <1>9, <1>10, Zenon DEF Exact, Covers
  <2>2. QED
    BY <2>1 DEF f, a, b, c, d

LEMMA SplitUdfExact == Exact(Split(16, {<<0, 12, 16>>, <<12, 4, 0>>}))
<1> DEFINE a == <<0, 12, 16>>
           b == <<12, 4, 0>>
           f == Split(16, {a, b})
<1>1. f.width = 16 /\ f.skip = 0 /\ f.pieces = {a, b}
  BY DEF Split, TwistedBranch, Branch, Field
<1>2. f.signed = FALSE /\ f.twisted = FALSE
  BY Zenon DEF Split, TwistedBranch, Branch, Field
<1>3. /\ a[1] = 0 /\ a[2] = 12 /\ a[3] = 16
      /\ b[1] = 12 /\ b[2] = 4 /\ b[3] = 0
  OBVIOUS
<1>4. InOneHalf(a) /\ InOneHalf(b)
  BY DEF InOneHalf
<1> HIDE DEF a, b, f
<1>5. \A x, y \in f.pieces : x # y =>
          Beside(x, y) /\ (x[1] + x[2] <= y[1] \/ y[1] + y[2] <= x[1])
  BY <1>1, <1>3 DEF Beside
<1>6. \A x \in f.pieces : InOneHalf(x) /\ f.skip <= x[1] /\ x[1] + x[2] <= f.width
  BY <1>1, <1>3, <1>4
<1>7. WellFormed(f)
  <2>1. f.pieces \in SUBSET {a, b, b, b, b, b}
    BY <1>1
  <2>2. IsFiniteSet(f.pieces)
    BY <2>1, FewAreFinite
  <2>3. f.width \in 1 .. 31 /\ f.width >= 3
    BY <1>1
  <2>4. \A x \in f.pieces : x[1] \in 0 .. 31 /\ x[2] \in 0 .. 31 /\ x[3] \in 0 .. 31
    BY <1>1, <1>3
  <2>5. QED
    BY <1>2, <2>2, <2>3, <2>4, Zenon DEF WellFormed, Shaped
<1>8. Loose(f)
  BY <1>5, <1>6, <1>7, Zenon DEF Loose
<1>9. Ordered(f)
  <2>1. f.width \in 1 .. 25 /\ f.skip \in 0 .. 2 /\ f.skip <= f.width
    BY <1>1
  <2>2. f.signed \in BOOLEAN /\ f.twisted \in BOOLEAN /\ (f.twisted => f.width = 25 /\ f.skip = 1)
    BY <1>1, <1>2, Zenon
  <2>3. QED
    BY <1>5, <1>6, <2>1, <2>2, Zenon DEF Ordered
<1>10. ASSUME NEW raw \in Raws(f), NEW n, NatSum(n, Cut(f, raw), f.pieces)
       PROVE  n = raw
  <2> DEFINE F == Cut(f, raw)
  <2>1. a # b
    BY <1>3
  <2>2. n = F[a] + F[b]
    <3>1. NatSum(n, F, {a, b})
      BY <1>1, <1>10
    <3> HIDE DEF F
    <3>2. SumsOfTwo(n, F, a, b)
      BY <2>1, <3>1, Zenon DEF SumsOfTwo
    <3>3. QED
      BY <3>2, SumOfTwo
  <2> DEFINE Ea == Extract(raw, 0, 12)
             Eb == Extract(raw, 12, 4)
             D0 == Above(raw, 0)
             D12 == Above(raw, 12)
             D16 == Above(raw, 16)
  <2>3. /\ raw = 2^0 * D0 /\ D16 = 0
        /\ \A x \in f.pieces :
               /\ F[x] = Extract(raw, x[1], x[2]) * 2^x[1]
               /\ Above(raw, x[1]) = 2^x[2] * Above(raw, x[1] + x[2]) + Extract(raw, x[1], x[2])
               /\ Above(raw, x[1]) \in Int /\ Above(raw, x[1] + x[2]) \in Int
               /\ Extract(raw, x[1], x[2]) \in Int
    <3>1. \A x \in f.pieces : InOneHalf(x)
      BY <1>6
    <3>2. /\ raw = 2^f.skip * Above(raw, f.skip) /\ Above(raw, f.width) = 0
          /\ \A x \in f.pieces :
                 /\ F[x] = Extract(raw, x[1], x[2]) * 2^x[1]
                 /\ Above(raw, x[1]) = 2^x[2] * Above(raw, x[1] + x[2]) + Extract(raw, x[1], x[2])
                 /\ Above(raw, x[1]) \in Int /\ Above(raw, x[1] + x[2]) \in Int
                 /\ Extract(raw, x[1], x[2]) \in Int
      BY <1>9, <3>1, Slices
    <3>3. raw = 2^0 * D0 /\ D16 = 0
      BY <1>1, <3>2
    <3>4. QED
      BY <3>2, <3>3, Zenon
  <2>4. /\ F[a] = Ea * 2^0 /\ Ea \in Int /\ D0 \in Int /\ D12 \in Int
        /\ D0 = 2^12 * D12 + Ea
        /\ F[b] = Eb * 2^12 /\ Eb \in Int /\ D12 \in Int /\ D16 \in Int
        /\ D12 = 2^4 * D16 + Eb
    <3>1. /\ F[a] = Ea * 2^0 /\ Ea \in Int /\ D0 \in Int /\ D12 \in Int
          /\ D0 = 2^12 * D12 + Ea
      <4>1. 0 + 12 = 12 /\ a \in f.pieces
        BY <1>1
      <4> HIDE DEF F
      <4>2. QED
        BY <1>3, <2>3, <4>1, Zenon
    <3>2. /\ F[b] = Eb * 2^12 /\ Eb \in Int /\ D12 \in Int /\ D16 \in Int
          /\ D12 = 2^4 * D16 + Eb
      <4>1. 12 + 4 = 16 /\ b \in f.pieces
        BY <1>1
      <4> HIDE DEF F
      <4>2. QED
        BY <1>3, <2>3, <4>1, Zenon
    <3>3. QED
      BY <3>1, <3>2
  <2> HIDE DEF Ea, Eb, D0, D12, D16, F
  <2>5. raw = Ea * 2^0 + Eb * 2^12
    BY SMT, <2>3, <2>4
  <2>6. QED
    BY SMT, <2>2, <2>4, <2>5
<1>11. QED
  <2>1. Exact(f)
    BY <1>8, <1>9, <1>10, Zenon DEF Exact, Covers
  <2>2. QED
    BY <2>1 DEF f, a, b

LEMMA ConditionalExact ==
    Exact(Branch(21, {<<18, 1, 29>>, <<19, 1, 27>>, <<1, 11, 16>>, <<20, 1, 10>>, <<12, 6, 0>>}))
<1> DEFINE a == <<18, 1, 29>>
           b == <<19, 1, 27>>
           c == <<1, 11, 16>>
           d == <<20, 1, 10>>
           e == <<12, 6, 0>>
           f == Branch(21, {a, b, c, d, e})
<1>1. f.width = 21 /\ f.skip = 1 /\ f.pieces = {a, b, c, d, e}
  BY DEF Split, TwistedBranch, Branch, Field
<1>2. f.signed = TRUE /\ f.twisted = FALSE
  BY Zenon DEF Split, TwistedBranch, Branch, Field
<1>3. /\ a[1] = 18 /\ a[2] = 1 /\ a[3] = 29
      /\ b[1] = 19 /\ b[2] = 1 /\ b[3] = 27
      /\ c[1] = 1 /\ c[2] = 11 /\ c[3] = 16
      /\ d[1] = 20 /\ d[2] = 1 /\ d[3] = 10
      /\ e[1] = 12 /\ e[2] = 6 /\ e[3] = 0
  OBVIOUS
<1>4. InOneHalf(a) /\ InOneHalf(b) /\ InOneHalf(c) /\ InOneHalf(d) /\ InOneHalf(e)
  BY DEF InOneHalf
<1> HIDE DEF a, b, c, d, e, f
<1>5. \A x, y \in f.pieces : x # y =>
          Beside(x, y) /\ (x[1] + x[2] <= y[1] \/ y[1] + y[2] <= x[1])
  BY <1>1, <1>3 DEF Beside
<1>6. \A x \in f.pieces : InOneHalf(x) /\ f.skip <= x[1] /\ x[1] + x[2] <= f.width
  BY <1>1, <1>3, <1>4
<1>7. WellFormed(f)
  <2>1. f.pieces \in SUBSET {a, b, c, d, e, e}
    BY <1>1
  <2>2. IsFiniteSet(f.pieces)
    BY <2>1, FewAreFinite
  <2>3. f.width \in 1 .. 31 /\ f.width >= 3
    BY <1>1
  <2>4. \A x \in f.pieces : x[1] \in 0 .. 31 /\ x[2] \in 0 .. 31 /\ x[3] \in 0 .. 31
    BY <1>1, <1>3
  <2>5. QED
    BY <1>2, <2>2, <2>3, <2>4, Zenon DEF WellFormed, Shaped
<1>8. Loose(f)
  BY <1>5, <1>6, <1>7, Zenon DEF Loose
<1>9. Ordered(f)
  <2>1. f.width \in 1 .. 25 /\ f.skip \in 0 .. 2 /\ f.skip <= f.width
    BY <1>1
  <2>2. f.signed \in BOOLEAN /\ f.twisted \in BOOLEAN /\ (f.twisted => f.width = 25 /\ f.skip = 1)
    BY <1>1, <1>2, Zenon
  <2>3. QED
    BY <1>5, <1>6, <2>1, <2>2, Zenon DEF Ordered
<1>10. ASSUME NEW raw \in Raws(f), NEW n, NatSum(n, Cut(f, raw), f.pieces)
       PROVE  n = raw
  <2> DEFINE F == Cut(f, raw)
  <2>1. a # b /\ a # c /\ a # d /\ a # e /\ b # c /\ b # d /\ b # e /\ c # d /\ c # e /\ d # e
    BY <1>3
  <2>2. n = F[a] + F[b] + F[c] + F[d] + F[e]
    <3>1. NatSum(n, F, {a, b, c, d, e})
      BY <1>1, <1>10
    <3> HIDE DEF F
    <3>2. SumsOfFive(n, F, a, b, c, d, e)
      BY <2>1, <3>1, Zenon DEF SumsOfFive
    <3>3. QED
      BY <3>2, SumOfFive
  <2> DEFINE Ea == Extract(raw, 18, 1)
             Eb == Extract(raw, 19, 1)
             Ec == Extract(raw, 1, 11)
             Ed == Extract(raw, 20, 1)
             Ee == Extract(raw, 12, 6)
             D1 == Above(raw, 1)
             D12 == Above(raw, 12)
             D18 == Above(raw, 18)
             D19 == Above(raw, 19)
             D20 == Above(raw, 20)
             D21 == Above(raw, 21)
  <2>3. /\ raw = 2^1 * D1 /\ D21 = 0
        /\ \A x \in f.pieces :
               /\ F[x] = Extract(raw, x[1], x[2]) * 2^x[1]
               /\ Above(raw, x[1]) = 2^x[2] * Above(raw, x[1] + x[2]) + Extract(raw, x[1], x[2])
               /\ Above(raw, x[1]) \in Int /\ Above(raw, x[1] + x[2]) \in Int
               /\ Extract(raw, x[1], x[2]) \in Int
    <3>1. \A x \in f.pieces : InOneHalf(x)
      BY <1>6
    <3>2. /\ raw = 2^f.skip * Above(raw, f.skip) /\ Above(raw, f.width) = 0
          /\ \A x \in f.pieces :
                 /\ F[x] = Extract(raw, x[1], x[2]) * 2^x[1]
                 /\ Above(raw, x[1]) = 2^x[2] * Above(raw, x[1] + x[2]) + Extract(raw, x[1], x[2])
                 /\ Above(raw, x[1]) \in Int /\ Above(raw, x[1] + x[2]) \in Int
                 /\ Extract(raw, x[1], x[2]) \in Int
      BY <1>9, <3>1, Slices
    <3>3. raw = 2^1 * D1 /\ D21 = 0
      BY <1>1, <3>2
    <3>4. QED
      BY <3>2, <3>3, Zenon
  <2>4. /\ F[c] = Ec * 2^1 /\ Ec \in Int /\ D1 \in Int /\ D12 \in Int
        /\ D1 = 2^11 * D12 + Ec
        /\ F[e] = Ee * 2^12 /\ Ee \in Int /\ D12 \in Int /\ D18 \in Int
        /\ D12 = 2^6 * D18 + Ee
        /\ F[a] = Ea * 2^18 /\ Ea \in Int /\ D18 \in Int /\ D19 \in Int
        /\ D18 = 2^1 * D19 + Ea
        /\ F[b] = Eb * 2^19 /\ Eb \in Int /\ D19 \in Int /\ D20 \in Int
        /\ D19 = 2^1 * D20 + Eb
        /\ F[d] = Ed * 2^20 /\ Ed \in Int /\ D20 \in Int /\ D21 \in Int
        /\ D20 = 2^1 * D21 + Ed
    <3>1. /\ F[c] = Ec * 2^1 /\ Ec \in Int /\ D1 \in Int /\ D12 \in Int
          /\ D1 = 2^11 * D12 + Ec
      <4>1. 1 + 11 = 12 /\ c \in f.pieces
        BY <1>1
      <4> HIDE DEF F
      <4>2. QED
        BY <1>3, <2>3, <4>1, Zenon
    <3>2. /\ F[e] = Ee * 2^12 /\ Ee \in Int /\ D12 \in Int /\ D18 \in Int
          /\ D12 = 2^6 * D18 + Ee
      <4>1. 12 + 6 = 18 /\ e \in f.pieces
        BY <1>1
      <4> HIDE DEF F
      <4>2. QED
        BY <1>3, <2>3, <4>1, Zenon
    <3>3. /\ F[a] = Ea * 2^18 /\ Ea \in Int /\ D18 \in Int /\ D19 \in Int
          /\ D18 = 2^1 * D19 + Ea
      <4>1. 18 + 1 = 19 /\ a \in f.pieces
        BY <1>1
      <4> HIDE DEF F
      <4>2. QED
        BY <1>3, <2>3, <4>1, Zenon
    <3>4. /\ F[b] = Eb * 2^19 /\ Eb \in Int /\ D19 \in Int /\ D20 \in Int
          /\ D19 = 2^1 * D20 + Eb
      <4>1. 19 + 1 = 20 /\ b \in f.pieces
        BY <1>1
      <4> HIDE DEF F
      <4>2. QED
        BY <1>3, <2>3, <4>1, Zenon
    <3>5. /\ F[d] = Ed * 2^20 /\ Ed \in Int /\ D20 \in Int /\ D21 \in Int
          /\ D20 = 2^1 * D21 + Ed
      <4>1. 20 + 1 = 21 /\ d \in f.pieces
        BY <1>1
      <4> HIDE DEF F
      <4>2. QED
        BY <1>3, <2>3, <4>1, Zenon
    <3>6. QED
      BY <3>1, <3>2, <3>3, <3>4, <3>5
  <2> HIDE DEF Ea, Eb, Ec, Ed, Ee, D1, D12, D18, D19, D20, D21, F
  <2>5. raw = Ea * 2^18 + Eb * 2^19 + Ec * 2^1 + Ed * 2^20 + Ee * 2^12
    BY SMT, <2>3, <2>4
  <2>6. QED
    BY SMT, <2>2, <2>4, <2>5
<1>11. QED
  <2>1. Exact(f)
    BY <1>8, <1>9, <1>10, Zenon DEF Exact, Covers
  <2>2. QED
    BY <2>1 DEF f, a, b, c, d, e

LEMMA TwistedExact ==
    Exact(TwistedBranch(25, {<<23, 1, 29>>, <<22, 1, 27>>, <<1, 11, 16>>, <<24, 1, 10>>, <<12, 10, 0>>}))
<1> DEFINE a == <<23, 1, 29>>
           b == <<22, 1, 27>>
           c == <<1, 11, 16>>
           d == <<24, 1, 10>>
           e == <<12, 10, 0>>
           f == TwistedBranch(25, {a, b, c, d, e})
<1>1. f.width = 25 /\ f.skip = 1 /\ f.pieces = {a, b, c, d, e}
  BY DEF Split, TwistedBranch, Branch, Field
<1>2. f.signed = TRUE /\ f.twisted = TRUE
  BY DEF Split, TwistedBranch, Branch, Field
<1>3. /\ a[1] = 23 /\ a[2] = 1 /\ a[3] = 29
      /\ b[1] = 22 /\ b[2] = 1 /\ b[3] = 27
      /\ c[1] = 1 /\ c[2] = 11 /\ c[3] = 16
      /\ d[1] = 24 /\ d[2] = 1 /\ d[3] = 10
      /\ e[1] = 12 /\ e[2] = 10 /\ e[3] = 0
  OBVIOUS
<1>4. InOneHalf(a) /\ InOneHalf(b) /\ InOneHalf(c) /\ InOneHalf(d) /\ InOneHalf(e)
  BY DEF InOneHalf
<1> HIDE DEF a, b, c, d, e, f
<1>5. \A x, y \in f.pieces : x # y =>
          Beside(x, y) /\ (x[1] + x[2] <= y[1] \/ y[1] + y[2] <= x[1])
  BY <1>1, <1>3 DEF Beside
<1>6. \A x \in f.pieces : InOneHalf(x) /\ f.skip <= x[1] /\ x[1] + x[2] <= f.width
  BY <1>1, <1>3, <1>4
<1>7. WellFormed(f)
  <2>1. f.pieces \in SUBSET {a, b, c, d, e, e}
    BY <1>1
  <2>2. IsFiniteSet(f.pieces)
    BY <2>1, FewAreFinite
  <2>3. f.width \in 1 .. 31 /\ f.width >= 3
    BY <1>1
  <2>4. \A x \in f.pieces : x[1] \in 0 .. 31 /\ x[2] \in 0 .. 31 /\ x[3] \in 0 .. 31
    BY <1>1, <1>3
  <2>5. QED
    BY <1>2, <2>2, <2>3, <2>4, Zenon DEF WellFormed, Shaped
<1>8. Loose(f)
  BY <1>5, <1>6, <1>7, Zenon DEF Loose
<1>9. Ordered(f)
  <2>1. f.width \in 1 .. 25 /\ f.skip \in 0 .. 2 /\ f.skip <= f.width
    BY <1>1
  <2>2. f.signed \in BOOLEAN /\ f.twisted \in BOOLEAN /\ (f.twisted => f.width = 25 /\ f.skip = 1)
    BY <1>1, <1>2, Zenon
  <2>3. QED
    BY <1>5, <1>6, <2>1, <2>2, Zenon DEF Ordered
<1>10. ASSUME NEW raw \in Raws(f), NEW n, NatSum(n, Cut(f, raw), f.pieces)
       PROVE  n = raw
  <2> DEFINE F == Cut(f, raw)
  <2>1. a # b /\ a # c /\ a # d /\ a # e /\ b # c /\ b # d /\ b # e /\ c # d /\ c # e /\ d # e
    BY <1>3
  <2>2. n = F[a] + F[b] + F[c] + F[d] + F[e]
    <3>1. NatSum(n, F, {a, b, c, d, e})
      BY <1>1, <1>10
    <3> HIDE DEF F
    <3>2. SumsOfFive(n, F, a, b, c, d, e)
      BY <2>1, <3>1, Zenon DEF SumsOfFive
    <3>3. QED
      BY <3>2, SumOfFive
  <2> DEFINE Ea == Extract(raw, 23, 1)
             Eb == Extract(raw, 22, 1)
             Ec == Extract(raw, 1, 11)
             Ed == Extract(raw, 24, 1)
             Ee == Extract(raw, 12, 10)
             D1 == Above(raw, 1)
             D12 == Above(raw, 12)
             D22 == Above(raw, 22)
             D23 == Above(raw, 23)
             D24 == Above(raw, 24)
             D25 == Above(raw, 25)
  <2>3. /\ raw = 2^1 * D1 /\ D25 = 0
        /\ \A x \in f.pieces :
               /\ F[x] = Extract(raw, x[1], x[2]) * 2^x[1]
               /\ Above(raw, x[1]) = 2^x[2] * Above(raw, x[1] + x[2]) + Extract(raw, x[1], x[2])
               /\ Above(raw, x[1]) \in Int /\ Above(raw, x[1] + x[2]) \in Int
               /\ Extract(raw, x[1], x[2]) \in Int
    <3>1. \A x \in f.pieces : InOneHalf(x)
      BY <1>6
    <3>2. /\ raw = 2^f.skip * Above(raw, f.skip) /\ Above(raw, f.width) = 0
          /\ \A x \in f.pieces :
                 /\ F[x] = Extract(raw, x[1], x[2]) * 2^x[1]
                 /\ Above(raw, x[1]) = 2^x[2] * Above(raw, x[1] + x[2]) + Extract(raw, x[1], x[2])
                 /\ Above(raw, x[1]) \in Int /\ Above(raw, x[1] + x[2]) \in Int
                 /\ Extract(raw, x[1], x[2]) \in Int
      BY <1>9, <3>1, Slices
    <3>3. raw = 2^1 * D1 /\ D25 = 0
      BY <1>1, <3>2
    <3>4. QED
      BY <3>2, <3>3, Zenon
  <2>4. /\ F[c] = Ec * 2^1 /\ Ec \in Int /\ D1 \in Int /\ D12 \in Int
        /\ D1 = 2^11 * D12 + Ec
        /\ F[e] = Ee * 2^12 /\ Ee \in Int /\ D12 \in Int /\ D22 \in Int
        /\ D12 = 2^10 * D22 + Ee
        /\ F[b] = Eb * 2^22 /\ Eb \in Int /\ D22 \in Int /\ D23 \in Int
        /\ D22 = 2^1 * D23 + Eb
        /\ F[a] = Ea * 2^23 /\ Ea \in Int /\ D23 \in Int /\ D24 \in Int
        /\ D23 = 2^1 * D24 + Ea
        /\ F[d] = Ed * 2^24 /\ Ed \in Int /\ D24 \in Int /\ D25 \in Int
        /\ D24 = 2^1 * D25 + Ed
    <3>1. /\ F[c] = Ec * 2^1 /\ Ec \in Int /\ D1 \in Int /\ D12 \in Int
          /\ D1 = 2^11 * D12 + Ec
      <4>1. 1 + 11 = 12 /\ c \in f.pieces
        BY <1>1
      <4> HIDE DEF F
      <4>2. QED
        BY <1>3, <2>3, <4>1, Zenon
    <3>2. /\ F[e] = Ee * 2^12 /\ Ee \in Int /\ D12 \in Int /\ D22 \in Int
          /\ D12 = 2^10 * D22 + Ee
      <4>1. 12 + 10 = 22 /\ e \in f.pieces
        BY <1>1
      <4> HIDE DEF F
      <4>2. QED
        BY <1>3, <2>3, <4>1, Zenon
    <3>3. /\ F[b] = Eb * 2^22 /\ Eb \in Int /\ D22 \in Int /\ D23 \in Int
          /\ D22 = 2^1 * D23 + Eb
      <4>1. 22 + 1 = 23 /\ b \in f.pieces
        BY <1>1
      <4> HIDE DEF F
      <4>2. QED
        BY <1>3, <2>3, <4>1, Zenon
    <3>4. /\ F[a] = Ea * 2^23 /\ Ea \in Int /\ D23 \in Int /\ D24 \in Int
          /\ D23 = 2^1 * D24 + Ea
      <4>1. 23 + 1 = 24 /\ a \in f.pieces
        BY <1>1
      <4> HIDE DEF F
      <4>2. QED
        BY <1>3, <2>3, <4>1, Zenon
    <3>5. /\ F[d] = Ed * 2^24 /\ Ed \in Int /\ D24 \in Int /\ D25 \in Int
          /\ D24 = 2^1 * D25 + Ed
      <4>1. 24 + 1 = 25 /\ d \in f.pieces
        BY <1>1
      <4> HIDE DEF F
      <4>2. QED
        BY <1>3, <2>3, <4>1, Zenon
    <3>6. QED
      BY <3>1, <3>2, <3>3, <3>4, <3>5
  <2> HIDE DEF Ea, Eb, Ec, Ed, Ee, D1, D12, D22, D23, D24, D25, F
  <2>5. raw = Ea * 2^23 + Eb * 2^22 + Ec * 2^1 + Ed * 2^24 + Ee * 2^12
    BY SMT, <2>3, <2>4
  <2>6. QED
    BY SMT, <2>2, <2>4, <2>5
<1>11. QED
  <2>1. Exact(f)
    BY <1>8, <1>9, <1>10, Zenon DEF Exact, Covers
  <2>2. QED
    BY <2>1 DEF f, a, b, c, d, e

-----------------------------------------------------------------------------
(***************************************************************************)
(* The encodings, one by one                                               *)
(***************************************************************************)
\* The base has nothing where the piece is.
Clear(e, x) ==
    /\ x[3] \div 16 + 1 \in DOMAIN e.base
    /\ Extract(e.base[x[3] \div 16 + 1], x[3] % 16, x[2]) = 0

Based(e) ==
    /\ Len(e.base) \in {1, 2} /\ DOMAIN e.base = 1 .. Len(e.base)
    /\ \A h \in DOMAIN e.base : e.base[h] \in 0 .. Top

LEMMA OneBased ==
    ASSUME NEW e, NEW a \in 0 .. Top, e.base = <<a>>
    PROVE  Based(e)
  BY DEF Based

LEMMA TwoBased ==
    ASSUME NEW e, NEW a \in 0 .. Top, NEW b \in 0 .. Top, e.base = <<a, b>>
    PROVE  Based(e)
  BY DEF Based

\* A window is <<halfword, lowest bit, width, value>>: the base has the value there, ...
Shows(e, k) ==
    /\ k[1] \in DOMAIN e.base /\ k[2] \in 0 .. 15 /\ k[3] \in 0 .. 16
    /\ Extract(e.base[k[1]], k[2], k[3]) = k[4]

\* ... and no piece of a field lies in it.
Outside(k, x) ==
    x[3] \div 16 + 1 = k[1] =>
        \/ k[2] + k[3] <= x[3] % 16
        \/ (x[3] % 16) + x[2] <= k[2]

Keeps(e, k) ==
    /\ Shows(e, k)
    /\ \A q \in DOMAIN e.fields : \A x \in e.fields[q].pieces : Outside(k, x)

\* Every word of the encoding has the value in the window.
LEMMA StoredKeeps ==
    ASSUME NEW e, Sound(e), NEW p, IntegerParts(e, p), NEW k, Keeps(e, k)
    PROVE  Extract(Stored(e, p, k[1]), k[2], k[3]) = k[4]
<1> DEFINE h == k[1]
           at == k[2]
           width == k[3]
<1>0. Tidy(e)
  BY DEF Sound
<1>1. /\ h \in DOMAIN e.base /\ at \in 0 .. 15 /\ width \in 0 .. 16
      /\ Extract(e.base[h], at, width) = k[4]
  BY Zenon DEF Keeps, Shows
<1>2. ASSUME NEW q \in DOMAIN e.fields, NEW x \in InHalf(e.fields[q], h)
      PROVE  Apart(at, width, Span(x, 0))
  <2>1. x \in e.fields[q].pieces /\ x[3] \div 16 + 1 = k[1]
    BY DEF InHalf
  <2>2. Outside(k, x)
    BY <2>1, Zenon DEF Keeps
  <2>3. k[2] + k[3] <= x[3] % 16 \/ (x[3] % 16) + x[2] <= k[2]
    BY <2>1, <2>2, Zenon DEF Outside
  <2>4. Span(x, 0)[1] = x[2] /\ Span(x, 0)[2] = x[3] % 16
    BY DEF Span
  <2>5. InOneHalf(x)
    BY <1>0, <2>1, Zenon DEF Tidy, Loose
  <2>6. x[2] \in Int /\ x[3] % 16 \in Int
    BY <2>5 DEF InOneHalf
  <2>7. (x[3] % 16) + x[2] = x[2] + (x[3] % 16)
    BY <2>6
  <2>8. QED
    BY <2>3, <2>4, <2>6 DEF Apart
<1>3. IsFixed(e, h, at, width)
  BY <1>1, <1>2, Zenon DEF IsFixed
<1> HIDE DEF h, at, width
<1>4. Extract(Stored(e, p, h), at, width) = Extract(e.base[h], at, width)
  <2>1. \A l, m : IsFixed(e, h, l, m) => Extract(Stored(e, p, h), l, m) = Extract(e.base[h], l, m)
    BY <1>0, <1>1, StoredPieces
  <2>2. QED
    BY <1>3, <2>1, Zenon
<1>5. QED
  BY <1>1, <1>4 DEF h, at, width

LEMMA SoundOf ==
    ASSUME NEW e, Based(e), IsFiniteSet(DOMAIN e.fields),
           \A q \in DOMAIN e.fields :
               Exact(e.fields[q]) /\ \A x \in e.fields[q].pieces : Clear(e, x),
           \A q, r \in DOMAIN e.fields : q # r =>
               \A x \in e.fields[q].pieces, y \in e.fields[r].pieces : Beside(x, y)
    PROVE  Sound(e)
  BY Zenon DEF Sound, Tidy, Based, Exact, Clear

LEMMA FieldPieces ==
    /\ \A w, at : Bits(w, at).pieces = {<<0, w, at>>}
    /\ \A w, at : Words(w, at).pieces = {<<2, w - 2, at>>}
    /\ \A w, s : Split(w, s).pieces = s
    /\ \A w, s : Branch(w, s).pieces = s
    /\ \A w, s : TwistedBranch(w, s).pieces = s
  BY DEF Bits, Words, Split, Branch, TwistedBranch, Field

LEMMA AllBitsExact ==
    /\ Exact(Bits(1, 4))
    /\ Exact(Bits(1, 7))
    /\ Exact(Bits(1, 8))
    /\ Exact(Bits(1, 24))
    /\ Exact(Bits(1, 25))
    /\ Exact(Bits(1, 26))
    /\ Exact(Bits(1, 30))
    /\ Exact(Bits(1, 31))
    /\ Exact(Bits(2, 20))
    /\ Exact(Bits(3, 0))
    /\ Exact(Bits(3, 3))
    /\ Exact(Bits(3, 6))
    /\ Exact(Bits(3, 8))
    /\ Exact(Bits(4, 0))
    /\ Exact(Bits(4, 3))
    /\ Exact(Bits(4, 6))
    /\ Exact(Bits(4, 8))
    /\ Exact(Bits(4, 16))
    /\ Exact(Bits(4, 24))
    /\ Exact(Bits(4, 28))
    /\ Exact(Bits(8, 0))
    /\ Exact(Bits(8, 16))
    /\ Exact(Bits(12, 16))
    /\ Exact(Bits(13, 16))
<1>1. Exact(Bits(1, 4))
  <2>1. InHalfword(1, 4)
    BY DEF InHalfword
  <2>2. QED
    BY <2>1, BitsExact, Zenon
<1>2. Exact(Bits(1, 7))
  <2>1. InHalfword(1, 7)
    BY DEF InHalfword
  <2>2. QED
    BY <2>1, BitsExact, Zenon
<1>3. Exact(Bits(1, 8))
  <2>1. InHalfword(1, 8)
    BY DEF InHalfword
  <2>2. QED
    BY <2>1, BitsExact, Zenon
<1>4. Exact(Bits(1, 24))
  <2>1. InHalfword(1, 24)
    BY DEF InHalfword
  <2>2. QED
    BY <2>1, BitsExact, Zenon
<1>5. Exact(Bits(1, 25))
  <2>1. InHalfword(1, 25)
    BY DEF InHalfword
  <2>2. QED
    BY <2>1, BitsExact, Zenon
<1>6. Exact(Bits(1, 26))
  <2>1. InHalfword(1, 26)
    BY DEF InHalfword
  <2>2. QED
    BY <2>1, BitsExact, Zenon
<1>7. Exact(Bits(1, 30))
  <2>1. InHalfword(1, 30)
    BY DEF InHalfword
  <2>2. QED
    BY <2>1, BitsExact, Zenon
<1>8. Exact(Bits(1, 31))
  <2>1. InHalfword(1, 31)
    BY DEF InHalfword
  <2>2. QED
    BY <2>1, BitsExact, Zenon
<1>9. Exact(Bits(2, 20))
  <2>1. InHalfword(2, 20)
    BY DEF InHalfword
  <2>2. QED
    BY <2>1, BitsExact, Zenon
<1>10. Exact(Bits(3, 0))
  <2>1. InHalfword(3, 0)
    BY DEF InHalfword
  <2>2. QED
    BY <2>1, BitsExact, Zenon
<1>11. Exact(Bits(3, 3))
  <2>1. InHalfword(3, 3)
    BY DEF InHalfword
  <2>2. QED
    BY <2>1, BitsExact, Zenon
<1>12. Exact(Bits(3, 6))
  <2>1. InHalfword(3, 6)
    BY DEF InHalfword
  <2>2. QED
    BY <2>1, BitsExact, Zenon
<1>13. Exact(Bits(3, 8))
  <2>1. InHalfword(3, 8)
    BY DEF InHalfword
  <2>2. QED
    BY <2>1, BitsExact, Zenon
<1>14. Exact(Bits(4, 0))
  <2>1. InHalfword(4, 0)
    BY DEF InHalfword
  <2>2. QED
    BY <2>1, BitsExact, Zenon
<1>15. Exact(Bits(4, 3))
  <2>1. InHalfword(4, 3)
    BY DEF InHalfword
  <2>2. QED
    BY <2>1, BitsExact, Zenon
<1>16. Exact(Bits(4, 6))
  <2>1. InHalfword(4, 6)
    BY DEF InHalfword
  <2>2. QED
    BY <2>1, BitsExact, Zenon
<1>17. Exact(Bits(4, 8))
  <2>1. InHalfword(4, 8)
    BY DEF InHalfword
  <2>2. QED
    BY <2>1, BitsExact, Zenon
<1>18. Exact(Bits(4, 16))
  <2>1. InHalfword(4, 16)
    BY DEF InHalfword
  <2>2. QED
    BY <2>1, BitsExact, Zenon
<1>19. Exact(Bits(4, 24))
  <2>1. InHalfword(4, 24)
    BY DEF InHalfword
  <2>2. QED
    BY <2>1, BitsExact, Zenon
<1>20. Exact(Bits(4, 28))
  <2>1. InHalfword(4, 28)
    BY DEF InHalfword
  <2>2. QED
    BY <2>1, BitsExact, Zenon
<1>21. Exact(Bits(8, 0))
  <2>1. InHalfword(8, 0)
    BY DEF InHalfword
  <2>2. QED
    BY <2>1, BitsExact, Zenon
<1>22. Exact(Bits(8, 16))
  <2>1. InHalfword(8, 16)
    BY DEF InHalfword
  <2>2. QED
    BY <2>1, BitsExact, Zenon
<1>23. Exact(Bits(12, 16))
  <2>1. InHalfword(12, 16)
    BY DEF InHalfword
  <2>2. QED
    BY <2>1, BitsExact, Zenon
<1>24. Exact(Bits(13, 16))
  <2>1. InHalfword(13, 16)
    BY DEF InHalfword
  <2>2. QED
    BY <2>1, BitsExact, Zenon
<1>25. QED
  BY <1>1, <1>2, <1>3, <1>4, <1>5, <1>6, <1>7, <1>8, <1>9, <1>10, <1>11, <1>12, <1>13, <1>14, <1>15, <1>16, <1>17, <1>18, <1>19, <1>20, <1>21, <1>22, <1>23, <1>24

LEMMA AddsIT1Sound ==
    /\ Sound(adds_i_t1)
    /\ \A k \in {<<1, 12, 4, 1>>, <<1, 11, 5, 3>>, <<1, 9, 7, 14>>} : Keeps(adds_i_t1, k)
<1> DEFINE e == adds_i_t1
           a == <<0, 3, 6>>
           b == <<0, 3, 3>>
           c == <<0, 3, 0>>
           K == {<<1, 12, 4, 1>>, <<1, 11, 5, 3>>, <<1, 9, 7, 14>>}
<1>1. e.base = <<\h1c00>>
  BY DEF adds_i_t1, Encoding
<1>2. Based(e)
  <2>1. \h1c00 \in 0 .. Top
    BY SMT DEF Top
  <2>2. QED
    BY <1>1, <2>1, OneBased
<1>w. \A k \in K : Shows(e, k)
  <2> HIDE DEF e
  <2>1. Shows(e, <<1, 12, 4, 1>>)
    BY SMT, <1>1 DEF Shows, Extract
  <2>2. Shows(e, <<1, 11, 5, 3>>)
    BY SMT, <1>1 DEF Shows, Extract
  <2>3. Shows(e, <<1, 9, 7, 14>>)
    BY SMT, <1>1 DEF Shows, Extract
  <2>4. QED
    BY Zenon, <2>1, <2>2, <2>3 DEF K
<1>3. DOMAIN e.fields = {"imm3", "Rn", "Rd"}
  BY DEF adds_i_t1, Encoding
<1>4. /\ e.fields["imm3"] = Bits(3, 6)
      /\ e.fields["Rn"] = Bits(3, 3)
      /\ e.fields["Rd"] = Bits(3, 0)
  BY DEF adds_i_t1, Encoding
<1> HIDE DEF e
<1>p. /\ e.fields["imm3"].pieces = {a}
      /\ e.fields["Rn"].pieces = {b}
      /\ e.fields["Rd"].pieces = {c}
  BY <1>4, FieldPieces DEF a, b, c
<1>5. Exact(e.fields["imm3"]) /\ Exact(e.fields["Rn"]) /\ Exact(e.fields["Rd"])
  BY <1>4, AllBitsExact, Zenon
<1>6. \A x \in {a, b, c} : Clear(e, x)
  <2>1. Clear(e, a)
    BY SMT, <1>1 DEF Clear, Extract
  <2>2. Clear(e, b)
    BY SMT, <1>1 DEF Clear, Extract
  <2>3. Clear(e, c)
    BY SMT, <1>1 DEF Clear, Extract
  <2>4. QED
    BY <2>1, <2>2, <2>3
<1>7. \A x, y \in {a, b, c} : x # y => Beside(x, y)
  BY DEF Beside
<1>8. a # b /\ a # c /\ b # c
  OBVIOUS
<1>o. \A x \in {a, b, c} : \A k \in K : Outside(k, x)
  BY DEF Outside
<1> HIDE DEF a, b, c
<1>9. IsFiniteSet(DOMAIN e.fields)
  <2>1. DOMAIN e.fields \in SUBSET {"imm3", "Rn", "Rd", "Rd", "Rd", "Rd"}
    BY <1>3
  <2>2. QED
    BY <2>1, FewAreFinite
<1>10. \A q \in DOMAIN e.fields :
           Exact(e.fields[q]) /\ \A x \in e.fields[q].pieces : Clear(e, x)
  BY <1>3, <1>p, <1>5, <1>6
<1>11. \A q, r \in DOMAIN e.fields : q # r =>
           \A x \in e.fields[q].pieces, y \in e.fields[r].pieces : Beside(x, y)
  BY <1>3, <1>p, <1>7, <1>8
<1>12. Sound(e)
  BY <1>2, <1>9, <1>10, <1>11, SoundOf
<1>13. \A q \in DOMAIN e.fields : \A x \in e.fields[q].pieces : \A k \in K : Outside(k, x)
  <2> HIDE DEF K
  <2>1. QED
    BY <1>3, <1>p, <1>o
<1>14. \A k \in K : Keeps(e, k)
  BY <1>w, <1>13, Zenon DEF Keeps
<1>15. QED
  BY <1>12, <1>14, Zenon DEF e, K

LEMMA AddsIT2Sound ==
    /\ Sound(adds_i_t2)
    /\ \A k \in {<<1, 12, 4, 3>>, <<1, 11, 5, 6>>} : Keeps(adds_i_t2, k)
<1> DEFINE e == adds_i_t2
           a == <<0, 3, 8>>
           b == <<0, 8, 0>>
           K == {<<1, 12, 4, 3>>, <<1, 11, 5, 6>>}
<1>1. e.base = <<\h3000>>
  BY DEF adds_i_t2, Encoding
<1>2. Based(e)
  <2>1. \h3000 \in 0 .. Top
    BY SMT DEF Top
  <2>2. QED
    BY <1>1, <2>1, OneBased
<1>w. \A k \in K : Shows(e, k)
  <2> HIDE DEF e
  <2>1. Shows(e, <<1, 12, 4, 3>>)
    BY SMT, <1>1 DEF Shows, Extract
  <2>2. Shows(e, <<1, 11, 5, 6>>)
    BY SMT, <1>1 DEF Shows, Extract
  <2>3. QED
    BY Zenon, <2>1, <2>2 DEF K
<1>3. DOMAIN e.fields = {"Rdn", "imm8"}
  BY DEF adds_i_t2, Encoding
<1>4. /\ e.fields["Rdn"] = Bits(3, 8)
      /\ e.fields["imm8"] = Bits(8, 0)
  BY DEF adds_i_t2, Encoding
<1> HIDE DEF e
<1>p. /\ e.fields["Rdn"].pieces = {a}
      /\ e.fields["imm8"].pieces = {b}
  BY <1>4, FieldPieces DEF a, b
<1>5. Exact(e.fields["Rdn"]) /\ Exact(e.fields["imm8"])
  BY <1>4, AllBitsExact, Zenon
<1>6. \A x \in {a, b} : Clear(e, x)
  <2>1. Clear(e, a)
    BY SMT, <1>1 DEF Clear, Extract
  <2>2. Clear(e, b)
    BY SMT, <1>1 DEF Clear, Extract
  <2>3. QED
    BY <2>1, <2>2
<1>7. \A x, y \in {a, b} : x # y => Beside(x, y)
  BY DEF Beside
<1>8. a # b
  OBVIOUS
<1>o. \A x \in {a, b} : \A k \in K : Outside(k, x)
  BY DEF Outside
<1> HIDE DEF a, b
<1>9. IsFiniteSet(DOMAIN e.fields)
  <2>1. DOMAIN e.fields \in SUBSET {"Rdn", "imm8", "imm8", "imm8", "imm8", "imm8"}
    BY <1>3
  <2>2. QED
    BY <2>1, FewAreFinite
<1>10. \A q \in DOMAIN e.fields :
           Exact(e.fields[q]) /\ \A x \in e.fields[q].pieces : Clear(e, x)
  BY <1>3, <1>p, <1>5, <1>6
<1>11. \A q, r \in DOMAIN e.fields : q # r =>
           \A x \in e.fields[q].pieces, y \in e.fields[r].pieces : Beside(x, y)
  BY <1>3, <1>p, <1>7, <1>8
<1>12. Sound(e)
  BY <1>2, <1>9, <1>10, <1>11, SoundOf
<1>13. \A q \in DOMAIN e.fields : \A x \in e.fields[q].pieces : \A k \in K : Outside(k, x)
  <2> HIDE DEF K
  <2>1. QED
    BY <1>3, <1>p, <1>o
<1>14. \A k \in K : Keeps(e, k)
  BY <1>w, <1>13, Zenon DEF Keeps
<1>15. QED
  BY <1>12, <1>14, Zenon DEF e, K

LEMMA AddwIT4Sound ==
    /\ Sound(addw_i_t4)
    /\ \A k \in {<<1, 11, 5, 30>>, <<2, 15, 1, 0>>, <<1, 4, 6, 32>>} : Keeps(addw_i_t4, k)
<1> DEFINE e == addw_i_t4
           a == <<8, 3, 28>>
           b == <<0, 8, 16>>
           c == <<11, 1, 10>>
           d == <<0, 4, 24>>
           g == <<0, 4, 0>>
           K == {<<1, 11, 5, 30>>, <<2, 15, 1, 0>>, <<1, 4, 6, 32>>}
<1>1. e.base = <<\hf200, \h0000>>
  BY DEF addw_i_t4, Encoding
<1>2. Based(e)
  <2>1. \hf200 \in 0 .. Top /\ \h0000 \in 0 .. Top
    BY SMT DEF Top
  <2>2. QED
    BY <1>1, <2>1, TwoBased
<1>w. \A k \in K : Shows(e, k)
  <2> HIDE DEF e
  <2>1. Shows(e, <<1, 11, 5, 30>>)
    BY SMT, <1>1 DEF Shows, Extract
  <2>2. Shows(e, <<2, 15, 1, 0>>)
    BY SMT, <1>1 DEF Shows, Extract
  <2>3. Shows(e, <<1, 4, 6, 32>>)
    BY SMT, <1>1 DEF Shows, Extract
  <2>4. QED
    BY Zenon, <2>1, <2>2, <2>3 DEF K
<1>3. DOMAIN e.fields = {"imm12", "Rd", "Rn"}
  BY DEF addw_i_t4, Encoding
<1>4. /\ e.fields["imm12"] = Split(12, {<<8, 3, 28>>, <<0, 8, 16>>, <<11, 1, 10>>})
      /\ e.fields["Rd"] = Bits(4, 24)
      /\ e.fields["Rn"] = Bits(4, 0)
  BY DEF addw_i_t4, Encoding
<1> HIDE DEF e
<1>p. /\ e.fields["imm12"].pieces = {a, b, c}
      /\ e.fields["Rd"].pieces = {d}
      /\ e.fields["Rn"].pieces = {g}
  BY <1>4, FieldPieces DEF a, b, c, d, g
<1>5. Exact(e.fields["imm12"]) /\ Exact(e.fields["Rd"]) /\ Exact(e.fields["Rn"])
  BY <1>4, SplitTwelveExact, AllBitsExact, Zenon
<1>6. \A x \in {a, b, c, d, g} : Clear(e, x)
  <2>1. Clear(e, a)
    BY SMT, <1>1 DEF Clear, Extract
  <2>2. Clear(e, b)
    BY SMT, <1>1 DEF Clear, Extract
  <2>3. Clear(e, c)
    BY SMT, <1>1 DEF Clear, Extract
  <2>4. Clear(e, d)
    BY SMT, <1>1 DEF Clear, Extract
  <2>5. Clear(e, g)
    BY SMT, <1>1 DEF Clear, Extract
  <2>6. QED
    BY <2>1, <2>2, <2>3, <2>4, <2>5
<1>7. \A x, y \in {a, b, c, d, g} : x # y => Beside(x, y)
  BY DEF Beside
<1>8. a # d /\ b # d /\ c # d /\ a # g /\ b # g /\ c # g /\ d # g
  OBVIOUS
<1>o. \A x \in {a, b, c, d, g} : \A k \in K : Outside(k, x)
  BY DEF Outside
<1> HIDE DEF a, b, c, d, g
<1>9. IsFiniteSet(DOMAIN e.fields)
  <2>1. DOMAIN e.fields \in SUBSET {"imm12", "Rd", "Rn", "Rn", "Rn", "Rn"}
    BY <1>3
  <2>2. QED
    BY <2>1, FewAreFinite
<1>10. \A q \in DOMAIN e.fields :
           Exact(e.fields[q]) /\ \A x \in e.fields[q].pieces : Clear(e, x)
  BY <1>3, <1>p, <1>5, <1>6
<1>11. \A q, r \in DOMAIN e.fields : q # r =>
           \A x \in e.fields[q].pieces, y \in e.fields[r].pieces : Beside(x, y)
  BY <1>3, <1>p, <1>7, <1>8
<1>12. Sound(e)
  BY <1>2, <1>9, <1>10, <1>11, SoundOf
<1>13. \A q \in DOMAIN e.fields : \A x \in e.fields[q].pieces : \A k \in K : Outside(k, x)
  <2> HIDE DEF K
  <2>1. QED
    BY <1>3, <1>p, <1>o
<1>14. \A k \in K : Keeps(e, k)
  BY <1>w, <1>13, Zenon DEF Keeps
<1>15. QED
  BY <1>12, <1>14, Zenon DEF e, K

LEMMA AddsRT1Sound ==
    /\ Sound(adds_r_t1)
    /\ \A k \in {<<1, 12, 4, 1>>, <<1, 11, 5, 3>>, <<1, 9, 7, 12>>} : Keeps(adds_r_t1, k)
<1> DEFINE e == adds_r_t1
           a == <<0, 3, 6>>
           b == <<0, 3, 3>>
           c == <<0, 3, 0>>
           K == {<<1, 12, 4, 1>>, <<1, 11, 5, 3>>, <<1, 9, 7, 12>>}
<1>1. e.base = <<\h1800>>
  BY DEF adds_r_t1, Encoding
<1>2. Based(e)
  <2>1. \h1800 \in 0 .. Top
    BY SMT DEF Top
  <2>2. QED
    BY <1>1, <2>1, OneBased
<1>w. \A k \in K : Shows(e, k)
  <2> HIDE DEF e
  <2>1. Shows(e, <<1, 12, 4, 1>>)
    BY SMT, <1>1 DEF Shows, Extract
  <2>2. Shows(e, <<1, 11, 5, 3>>)
    BY SMT, <1>1 DEF Shows, Extract
  <2>3. Shows(e, <<1, 9, 7, 12>>)
    BY SMT, <1>1 DEF Shows, Extract
  <2>4. QED
    BY Zenon, <2>1, <2>2, <2>3 DEF K
<1>3. DOMAIN e.fields = {"Rm", "Rn", "Rd"}
  BY DEF adds_r_t1, Encoding
<1>4. /\ e.fields["Rm"] = Bits(3, 6)
      /\ e.fields["Rn"] = Bits(3, 3)
      /\ e.fields["Rd"] = Bits(3, 0)
  BY DEF adds_r_t1, Encoding
<1> HIDE DEF e
<1>p. /\ e.fields["Rm"].pieces = {a}
      /\ e.fields["Rn"].pieces = {b}
      /\ e.fields["Rd"].pieces = {c}
  BY <1>4, FieldPieces DEF a, b, c
<1>5. Exact(e.fields["Rm"]) /\ Exact(e.fields["Rn"]) /\ Exact(e.fields["Rd"])
  BY <1>4, AllBitsExact, Zenon
<1>6. \A x \in {a, b, c} : Clear(e, x)
  <2>1. Clear(e, a)
    BY SMT, <1>1 DEF Clear, Extract
  <2>2. Clear(e, b)
    BY SMT, <1>1 DEF Clear, Extract
  <2>3. Clear(e, c)
    BY SMT, <1>1 DEF Clear, Extract
  <2>4. QED
    BY <2>1, <2>2, <2>3
<1>7. \A x, y \in {a, b, c} : x # y => Beside(x, y)
  BY DEF Beside
<1>8. a # b /\ a # c /\ b # c
  OBVIOUS
<1>o. \A x \in {a, b, c} : \A k \in K : Outside(k, x)
  BY DEF Outside
<1> HIDE DEF a, b, c
<1>9. IsFiniteSet(DOMAIN e.fields)
  <2>1. DOMAIN e.fields \in SUBSET {"Rm", "Rn", "Rd", "Rd", "Rd", "Rd"}
    BY <1>3
  <2>2. QED
    BY <2>1, FewAreFinite
<1>10. \A q \in DOMAIN e.fields :
           Exact(e.fields[q]) /\ \A x \in e.fields[q].pieces : Clear(e, x)
  BY <1>3, <1>p, <1>5, <1>6
<1>11. \A q, r \in DOMAIN e.fields : q # r =>
           \A x \in e.fields[q].pieces, y \in e.fields[r].pieces : Beside(x, y)
  BY <1>3, <1>p, <1>7, <1>8
<1>12. Sound(e)
  BY <1>2, <1>9, <1>10, <1>11, SoundOf
<1>13. \A q \in DOMAIN e.fields : \A x \in e.fields[q].pieces : \A k \in K : Outside(k, x)
  <2> HIDE DEF K
  <2>1. QED
    BY <1>3, <1>p, <1>o
<1>14. \A k \in K : Keeps(e, k)
  BY <1>w, <1>13, Zenon DEF Keeps
<1>15. QED
  BY <1>12, <1>14, Zenon DEF e, K

LEMMA AddRT2Sound ==
    /\ Sound(add_r_t2)
    /\ \A k \in {<<1, 12, 4, 4>>, <<1, 11, 5, 8>>, <<1, 8, 8, 68>>} : Keeps(add_r_t2, k)
<1> DEFINE e == add_r_t2
           a == <<3, 1, 7>>
           b == <<0, 3, 0>>
           c == <<0, 4, 3>>
           K == {<<1, 12, 4, 4>>, <<1, 11, 5, 8>>, <<1, 8, 8, 68>>}
<1>1. e.base = <<\h4400>>
  BY DEF add_r_t2, Encoding
<1>2. Based(e)
  <2>1. \h4400 \in 0 .. Top
    BY SMT DEF Top
  <2>2. QED
    BY <1>1, <2>1, OneBased
<1>w. \A k \in K : Shows(e, k)
  <2> HIDE DEF e
  <2>1. Shows(e, <<1, 12, 4, 4>>)
    BY SMT, <1>1 DEF Shows, Extract
  <2>2. Shows(e, <<1, 11, 5, 8>>)
    BY SMT, <1>1 DEF Shows, Extract
  <2>3. Shows(e, <<1, 8, 8, 68>>)
    BY SMT, <1>1 DEF Shows, Extract
  <2>4. QED
    BY Zenon, <2>1, <2>2, <2>3 DEF K
<1>3. DOMAIN e.fields = {"Rdn", "Rm"}
  BY DEF add_r_t2, Encoding
<1>4. /\ e.fields["Rdn"] = Split(4, {<<3, 1, 7>>, <<0, 3, 0>>})
      /\ e.fields["Rm"] = Bits(4, 3)
  BY DEF add_r_t2, Encoding
<1> HIDE DEF e
<1>p. /\ e.fields["Rdn"].pieces = {a, b}
      /\ e.fields["Rm"].pieces = {c}
  BY <1>4, FieldPieces DEF a, b, c
<1>5. Exact(e.fields["Rdn"]) /\ Exact(e.fields["Rm"])
  BY <1>4, SplitRegisterExact, AllBitsExact, Zenon
<1>6. \A x \in {a, b, c} : Clear(e, x)
  <2>1. Clear(e, a)
    BY SMT, <1>1 DEF Clear, Extract
  <2>2. Clear(e, b)
    BY SMT, <1>1 DEF Clear, Extract
  <2>3. Clear(e, c)
    BY SMT, <1>1 DEF Clear, Extract
  <2>4. QED
    BY <2>1, <2>2, <2>3
<1>7. \A x, y \in {a, b, c} : x # y => Beside(x, y)
  BY DEF Beside
<1>8. a # c /\ b # c
  OBVIOUS
<1>o. \A x \in {a, b, c} : \A k \in K : Outside(k, x)
  BY DEF Outside
<1> HIDE DEF a, b, c
<1>9. IsFiniteSet(DOMAIN e.fields)
  <2>1. DOMAIN e.fields \in SUBSET {"Rdn", "Rm", "Rm", "Rm", "Rm", "Rm"}
    BY <1>3
  <2>2. QED
    BY <2>1, FewAreFinite
<1>10. \A q \in DOMAIN e.fields :
           Exact(e.fields[q]) /\ \A x \in e.fields[q].pieces : Clear(e, x)
  BY <1>3, <1>p, <1>5, <1>6
<1>11. \A q, r \in DOMAIN e.fields : q # r =>
           \A x \in e.fields[q].pieces, y \in e.fields[r].pieces : Beside(x, y)
  BY <1>3, <1>p, <1>7, <1>8
<1>12. Sound(e)
  BY <1>2, <1>9, <1>10, <1>11, SoundOf
<1>13. \A q \in DOMAIN e.fields : \A x \in e.fields[q].pieces : \A k \in K : Outside(k, x)
  <2> HIDE DEF K
  <2>1. QED
    BY <1>3, <1>p, <1>o
<1>14. \A k \in K : Keeps(e, k)
  BY <1>w, <1>13, Zenon DEF Keeps
<1>15. QED
  BY <1>12, <1>14, Zenon DEF e, K

LEMMA BCondT1NoitSound ==
    /\ Sound(b_cond_t1_noit)
    /\ \A k \in {<<1, 12, 4, 13>>} : Keeps(b_cond_t1_noit, k)
<1> DEFINE e == b_cond_t1_noit
           a == <<0, 4, 8>>
           b == <<1, 8, 0>>
           K == {<<1, 12, 4, 13>>}
<1>1. e.base = <<\hd000>>
  BY DEF b_cond_t1_noit, Encoding
<1>2. Based(e)
  <2>1. \hd000 \in 0 .. Top
    BY SMT DEF Top
  <2>2. QED
    BY <1>1, <2>1, OneBased
<1>w. \A k \in K : Shows(e, k)
  <2> HIDE DEF e
  <2>1. Shows(e, <<1, 12, 4, 13>>)
    BY SMT, <1>1 DEF Shows, Extract
  <2>2. QED
    BY Zenon, <2>1 DEF K
<1>3. DOMAIN e.fields = {"cond", "simm8"}
  BY DEF b_cond_t1_noit, Encoding
<1>4. /\ e.fields["cond"] = Bits(4, 8)
      /\ e.fields["simm8"] = Branch(9, {<<1, 8, 0>>})
  BY DEF b_cond_t1_noit, Encoding
<1> HIDE DEF e
<1>p. /\ e.fields["cond"].pieces = {a}
      /\ e.fields["simm8"].pieces = {b}
  BY <1>4, FieldPieces DEF a, b
<1>5. Exact(e.fields["cond"]) /\ Exact(e.fields["simm8"])
  BY <1>4, AllBitsExact, OthersExact, Zenon
<1>6. \A x \in {a, b} : Clear(e, x)
  <2>1. Clear(e, a)
    BY SMT, <1>1 DEF Clear, Extract
  <2>2. Clear(e, b)
    BY SMT, <1>1 DEF Clear, Extract
  <2>3. QED
    BY <2>1, <2>2
<1>7. \A x, y \in {a, b} : x # y => Beside(x, y)
  BY DEF Beside
<1>8. a # b
  OBVIOUS
<1>o. \A x \in {a, b} : \A k \in K : Outside(k, x)
  BY DEF Outside
<1> HIDE DEF a, b
<1>9. IsFiniteSet(DOMAIN e.fields)
  <2>1. DOMAIN e.fields \in SUBSET {"cond", "simm8", "simm8", "simm8", "simm8", "simm8"}
    BY <1>3
  <2>2. QED
    BY <2>1, FewAreFinite
<1>10. \A q \in DOMAIN e.fields :
           Exact(e.fields[q]) /\ \A x \in e.fields[q].pieces : Clear(e, x)
  BY <1>3, <1>p, <1>5, <1>6
<1>11. \A q, r \in DOMAIN e.fields : q # r =>
           \A x \in e.fields[q].pieces, y \in e.fields[r].pieces : Beside(x, y)
  BY <1>3, <1>p, <1>7, <1>8
<1>12. Sound(e)
  BY <1>2, <1>9, <1>10, <1>11, SoundOf
<1>13. \A q \in DOMAIN e.fields : \A x \in e.fields[q].pieces : \A k \in K : Outside(k, x)
  <2> HIDE DEF K
  <2>1. QED
    BY <1>3, <1>p, <1>o
<1>14. \A k \in K : Keeps(e, k)
  BY <1>w, <1>13, Zenon DEF Keeps
<1>15. QED
  BY <1>12, <1>14, Zenon DEF e, K

LEMMA BT2Sound ==
    /\ Sound(b_t2)
    /\ \A k \in {<<1, 12, 4, 14>>, <<1, 11, 5, 28>>} : Keeps(b_t2, k)
<1> DEFINE e == b_t2
           a == <<1, 11, 0>>
           K == {<<1, 12, 4, 14>>, <<1, 11, 5, 28>>}
<1>1. e.base = <<\he000>>
  BY DEF b_t2, Encoding
<1>2. Based(e)
  <2>1. \he000 \in 0 .. Top
    BY SMT DEF Top
  <2>2. QED
    BY <1>1, <2>1, OneBased
<1>w. \A k \in K : Shows(e, k)
  <2> HIDE DEF e
  <2>1. Shows(e, <<1, 12, 4, 14>>)
    BY SMT, <1>1 DEF Shows, Extract
  <2>2. Shows(e, <<1, 11, 5, 28>>)
    BY SMT, <1>1 DEF Shows, Extract
  <2>3. QED
    BY Zenon, <2>1, <2>2 DEF K
<1>3. DOMAIN e.fields = {"simm11"}
  BY DEF b_t2, Encoding
<1>4. /\ e.fields["simm11"] = Branch(12, {<<1, 11, 0>>})
  BY DEF b_t2, Encoding
<1> HIDE DEF e
<1>p. /\ e.fields["simm11"].pieces = {a}
  BY <1>4, FieldPieces DEF a
<1>5. Exact(e.fields["simm11"])
  BY <1>4, OthersExact, Zenon
<1>6. \A x \in {a} : Clear(e, x)
  <2>1. Clear(e, a)
    BY SMT, <1>1 DEF Clear, Extract
  <2>2. QED
    BY <2>1
<1>7. \A x, y \in {a} : x # y => Beside(x, y)
  BY DEF Beside
<1>o. \A x \in {a} : \A k \in K : Outside(k, x)
  BY DEF Outside
<1> HIDE DEF a
<1>8. IsFiniteSet(DOMAIN e.fields)
  <2>1. DOMAIN e.fields \in SUBSET {"simm11", "simm11", "simm11", "simm11", "simm11", "simm11"}
    BY <1>3
  <2>2. QED
    BY <2>1, FewAreFinite
<1>9. \A q \in DOMAIN e.fields :
           Exact(e.fields[q]) /\ \A x \in e.fields[q].pieces : Clear(e, x)
  BY <1>3, <1>p, <1>5, <1>6
<1>10. \A q, r \in DOMAIN e.fields : q # r =>
           \A x \in e.fields[q].pieces, y \in e.fields[r].pieces : Beside(x, y)
  BY <1>3, <1>p, <1>7
<1>11. Sound(e)
  BY <1>2, <1>8, <1>9, <1>10, SoundOf
<1>12. \A q \in DOMAIN e.fields : \A x \in e.fields[q].pieces : \A k \in K : Outside(k, x)
  <2> HIDE DEF K
  <2>1. QED
    BY <1>3, <1>p, <1>o
<1>13. \A k \in K : Keeps(e, k)
  BY <1>w, <1>12, Zenon DEF Keeps
<1>14. QED
  BY <1>11, <1>13, Zenon DEF e, K

LEMMA BCondT3NoitSound ==
    /\ Sound(b_cond_t3_noit)
    /\ \A k \in {<<1, 11, 5, 30>>, <<2, 15, 1, 1>>, <<2, 14, 2, 2>>, <<2, 12, 1, 0>>} : Keeps(b_cond_t3_noit, k)
<1> DEFINE e == b_cond_t3_noit
           a == <<18, 1, 29>>
           b == <<19, 1, 27>>
           c == <<1, 11, 16>>
           d == <<20, 1, 10>>
           g == <<12, 6, 0>>
           i == <<0, 4, 6>>
           K == {<<1, 11, 5, 30>>, <<2, 15, 1, 1>>, <<2, 14, 2, 2>>, <<2, 12, 1, 0>>}
<1>1. e.base = <<\hf000, \h8000>>
  BY DEF b_cond_t3_noit, Encoding
<1>2. Based(e)
  <2>1. \hf000 \in 0 .. Top /\ \h8000 \in 0 .. Top
    BY SMT DEF Top
  <2>2. QED
    BY <1>1, <2>1, TwoBased
<1>w. \A k \in K : Shows(e, k)
  <2> HIDE DEF e
  <2>1. Shows(e, <<1, 11, 5, 30>>)
    BY SMT, <1>1 DEF Shows, Extract
  <2>2. Shows(e, <<2, 15, 1, 1>>)
    BY SMT, <1>1 DEF Shows, Extract
  <2>3. Shows(e, <<2, 14, 2, 2>>)
    BY SMT, <1>1 DEF Shows, Extract
  <2>4. Shows(e, <<2, 12, 1, 0>>)
    BY SMT, <1>1 DEF Shows, Extract
  <2>5. QED
    BY Zenon, <2>1, <2>2, <2>3, <2>4 DEF K
<1>3. DOMAIN e.fields = {"simm21", "cond"}
  BY DEF b_cond_t3_noit, Encoding
<1>4. /\ e.fields["simm21"] = Branch(21, {<<18, 1, 29>>, <<19, 1, 27>>, <<1, 11, 16>>, <<20, 1, 10>>, <<12, 6, 0>>})
      /\ e.fields["cond"] = Bits(4, 6)
  BY DEF b_cond_t3_noit, Encoding
<1> HIDE DEF e
<1>p. /\ e.fields["simm21"].pieces = {a, b, c, d, g}
      /\ e.fields["cond"].pieces = {i}
  BY <1>4, FieldPieces DEF a, b, c, d, g, i
<1>5. Exact(e.fields["simm21"]) /\ Exact(e.fields["cond"])
  BY <1>4, ConditionalExact, AllBitsExact, Zenon
<1>6. \A x \in {a, b, c, d, g, i} : Clear(e, x)
  <2>1. Clear(e, a)
    BY SMT, <1>1 DEF Clear, Extract
  <2>2. Clear(e, b)
    BY SMT, <1>1 DEF Clear, Extract
  <2>3. Clear(e, c)
    BY SMT, <1>1 DEF Clear, Extract
  <2>4. Clear(e, d)
    BY SMT, <1>1 DEF Clear, Extract
  <2>5. Clear(e, g)
    BY SMT, <1>1 DEF Clear, Extract
  <2>6. Clear(e, i)
    BY SMT, <1>1 DEF Clear, Extract
  <2>7. QED
    BY <2>1, <2>2, <2>3, <2>4, <2>5, <2>6
<1>7. \A x, y \in {a, b, c, d, g, i} : x # y => Beside(x, y)
  BY DEF Beside
<1>8. a # i /\ b # i /\ c # i /\ d # i /\ g # i
  OBVIOUS
<1>o. \A x \in {a, b, c, d, g, i} : \A k \in K : Outside(k, x)
  BY DEF Outside
<1> HIDE DEF a, b, c, d, g, i
<1>9. IsFiniteSet(DOMAIN e.fields)
  <2>1. DOMAIN e.fields \in SUBSET {"simm21", "cond", "cond", "cond", "cond", "cond"}
    BY <1>3
  <2>2. QED
    BY <2>1, FewAreFinite
<1>10. \A q \in DOMAIN e.fields :
           Exact(e.fields[q]) /\ \A x \in e.fields[q].pieces : Clear(e, x)
  BY <1>3, <1>p, <1>5, <1>6
<1>11. \A q, r \in DOMAIN e.fields : q # r =>
           \A x \in e.fields[q].pieces, y \in e.fields[r].pieces : Beside(x, y)
  BY <1>3, <1>p, <1>7, <1>8
<1>12. Sound(e)
  BY <1>2, <1>9, <1>10, <1>11, SoundOf
<1>13. \A q \in DOMAIN e.fields : \A x \in e.fields[q].pieces : \A k \in K : Outside(k, x)
  <2> HIDE DEF K
  <2>1. QED
    BY <1>3, <1>p, <1>o
<1>14. \A k \in K : Keeps(e, k)
  BY <1>w, <1>13, Zenon DEF Keeps
<1>15. QED
  BY <1>12, <1>14, Zenon DEF e, K

LEMMA BT4Sound ==
    /\ Sound(b_t4)
    /\ \A k \in {<<1, 11, 5, 30>>, <<2, 15, 1, 1>>, <<2, 14, 2, 2>>, <<2, 12, 1, 1>>} : Keeps(b_t4, k)
<1> DEFINE e == b_t4
           a == <<23, 1, 29>>
           b == <<22, 1, 27>>
           c == <<1, 11, 16>>
           d == <<24, 1, 10>>
           g == <<12, 10, 0>>
           K == {<<1, 11, 5, 30>>, <<2, 15, 1, 1>>, <<2, 14, 2, 2>>, <<2, 12, 1, 1>>}
<1>1. e.base = <<\hf000, \h9000>>
  BY DEF b_t4, Encoding
<1>2. Based(e)
  <2>1. \hf000 \in 0 .. Top /\ \h9000 \in 0 .. Top
    BY SMT DEF Top
  <2>2. QED
    BY <1>1, <2>1, TwoBased
<1>w. \A k \in K : Shows(e, k)
  <2> HIDE DEF e
  <2>1. Shows(e, <<1, 11, 5, 30>>)
    BY SMT, <1>1 DEF Shows, Extract
  <2>2. Shows(e, <<2, 15, 1, 1>>)
    BY SMT, <1>1 DEF Shows, Extract
  <2>3. Shows(e, <<2, 14, 2, 2>>)
    BY SMT, <1>1 DEF Shows, Extract
  <2>4. Shows(e, <<2, 12, 1, 1>>)
    BY SMT, <1>1 DEF Shows, Extract
  <2>5. QED
    BY Zenon, <2>1, <2>2, <2>3, <2>4 DEF K
<1>3. DOMAIN e.fields = {"simm25"}
  BY DEF b_t4, Encoding
<1>4. /\ e.fields["simm25"] = TwistedBranch(25, {<<23, 1, 29>>, <<22, 1, 27>>, <<1, 11, 16>>, <<24, 1, 10>>, <<12, 10, 0>>})
  BY DEF b_t4, Encoding
<1> HIDE DEF e
<1>p. /\ e.fields["simm25"].pieces = {a, b, c, d, g}
  BY <1>4, FieldPieces DEF a, b, c, d, g
<1>5. Exact(e.fields["simm25"])
  BY <1>4, TwistedExact, Zenon
<1>6. \A x \in {a, b, c, d, g} : Clear(e, x)
  <2>1. Clear(e, a)
    BY SMT, <1>1 DEF Clear, Extract
  <2>2. Clear(e, b)
    BY SMT, <1>1 DEF Clear, Extract
  <2>3. Clear(e, c)
    BY SMT, <1>1 DEF Clear, Extract
  <2>4. Clear(e, d)
    BY SMT, <1>1 DEF Clear, Extract
  <2>5. Clear(e, g)
    BY SMT, <1>1 DEF Clear, Extract
  <2>6. QED
    BY <2>1, <2>2, <2>3, <2>4, <2>5
<1>7. \A x, y \in {a, b, c, d, g} : x # y => Beside(x, y)
  BY DEF Beside
<1>o. \A x \in {a, b, c, d, g} : \A k \in K : Outside(k, x)
  BY DEF Outside
<1> HIDE DEF a, b, c, d, g
<1>8. IsFiniteSet(DOMAIN e.fields)
  <2>1. DOMAIN e.fields \in SUBSET {"simm25", "simm25", "simm25", "simm25", "simm25", "simm25"}
    BY <1>3
  <2>2. QED
    BY <2>1, FewAreFinite
<1>9. \A q \in DOMAIN e.fields :
           Exact(e.fields[q]) /\ \A x \in e.fields[q].pieces : Clear(e, x)
  BY <1>3, <1>p, <1>5, <1>6
<1>10. \A q, r \in DOMAIN e.fields : q # r =>
           \A x \in e.fields[q].pieces, y \in e.fields[r].pieces : Beside(x, y)
  BY <1>3, <1>p, <1>7
<1>11. Sound(e)
  BY <1>2, <1>8, <1>9, <1>10, SoundOf
<1>12. \A q \in DOMAIN e.fields : \A x \in e.fields[q].pieces : \A k \in K : Outside(k, x)
  <2> HIDE DEF K
  <2>1. QED
    BY <1>3, <1>p, <1>o
<1>13. \A k \in K : Keeps(e, k)
  BY <1>w, <1>12, Zenon DEF Keeps
<1>14. QED
  BY <1>11, <1>13, Zenon DEF e, K

LEMMA BkptT1Sound ==
    /\ Sound(bkpt_t1)
    /\ \A k \in {<<1, 12, 4, 11>>, <<1, 11, 5, 23>>, <<1, 9, 7, 95>>, <<1, 8, 8, 190>>} : Keeps(bkpt_t1, k)
<1> DEFINE e == bkpt_t1
           a == <<0, 8, 0>>
           K == {<<1, 12, 4, 11>>, <<1, 11, 5, 23>>, <<1, 9, 7, 95>>, <<1, 8, 8, 190>>}
<1>1. e.base = <<\hbe00>>
  BY DEF bkpt_t1, Encoding
<1>2. Based(e)
  <2>1. \hbe00 \in 0 .. Top
    BY SMT DEF Top
  <2>2. QED
    BY <1>1, <2>1, OneBased
<1>w. \A k \in K : Shows(e, k)
  <2> HIDE DEF e
  <2>1. Shows(e, <<1, 12, 4, 11>>)
    BY SMT, <1>1 DEF Shows, Extract
  <2>2. Shows(e, <<1, 11, 5, 23>>)
    BY SMT, <1>1 DEF Shows, Extract
  <2>3. Shows(e, <<1, 9, 7, 95>>)
    BY SMT, <1>1 DEF Shows, Extract
  <2>4. Shows(e, <<1, 8, 8, 190>>)
    BY SMT, <1>1 DEF Shows, Extract
  <2>5. QED
    BY Zenon, <2>1, <2>2, <2>3, <2>4 DEF K
<1>3. DOMAIN e.fields = {"imm8"}
  BY DEF bkpt_t1, Encoding
<1>4. /\ e.fields["imm8"] = Bits(8, 0)
  BY DEF bkpt_t1, Encoding
<1> HIDE DEF e
<1>p. /\ e.fields["imm8"].pieces = {a}
  BY <1>4, FieldPieces DEF a
<1>5. Exact(e.fields["imm8"])
  BY <1>4, AllBitsExact, Zenon
<1>6. \A x \in {a} : Clear(e, x)
  <2>1. Clear(e, a)
    BY SMT, <1>1 DEF Clear, Extract
  <2>2. QED
    BY <2>1
<1>7. \A x, y \in {a} : x # y => Beside(x, y)
  BY DEF Beside
<1>o. \A x \in {a} : \A k \in K : Outside(k, x)
  BY DEF Outside
<1> HIDE DEF a
<1>8. IsFiniteSet(DOMAIN e.fields)
  <2>1. DOMAIN e.fields \in SUBSET {"imm8", "imm8", "imm8", "imm8", "imm8", "imm8"}
    BY <1>3
  <2>2. QED
    BY <2>1, FewAreFinite
<1>9. \A q \in DOMAIN e.fields :
           Exact(e.fields[q]) /\ \A x \in e.fields[q].pieces : Clear(e, x)
  BY <1>3, <1>p, <1>5, <1>6
<1>10. \A q, r \in DOMAIN e.fields : q # r =>
           \A x \in e.fields[q].pieces, y \in e.fields[r].pieces : Beside(x, y)
  BY <1>3, <1>p, <1>7
<1>11. Sound(e)
  BY <1>2, <1>8, <1>9, <1>10, SoundOf
<1>12. \A q \in DOMAIN e.fields : \A x \in e.fields[q].pieces : \A k \in K : Outside(k, x)
  <2> HIDE DEF K
  <2>1. QED
    BY <1>3, <1>p, <1>o
<1>13. \A k \in K : Keeps(e, k)
  BY <1>w, <1>12, Zenon DEF Keeps
<1>14. QED
  BY <1>11, <1>13, Zenon DEF e, K

LEMMA BlT1Sound ==
    /\ Sound(bl_t1)
    /\ \A k \in {<<1, 11, 5, 30>>, <<2, 15, 1, 1>>, <<2, 14, 2, 3>>, <<2, 12, 1, 1>>} : Keeps(bl_t1, k)
<1> DEFINE e == bl_t1
           a == <<23, 1, 29>>
           b == <<22, 1, 27>>
           c == <<1, 11, 16>>
           d == <<24, 1, 10>>
           g == <<12, 10, 0>>
           K == {<<1, 11, 5, 30>>, <<2, 15, 1, 1>>, <<2, 14, 2, 3>>, <<2, 12, 1, 1>>}
<1>1. e.base = <<\hf000, \hd000>>
  BY DEF bl_t1, Encoding
<1>2. Based(e)
  <2>1. \hf000 \in 0 .. Top /\ \hd000 \in 0 .. Top
    BY SMT DEF Top
  <2>2. QED
    BY <1>1, <2>1, TwoBased
<1>w. \A k \in K : Shows(e, k)
  <2> HIDE DEF e
  <2>1. Shows(e, <<1, 11, 5, 30>>)
    BY SMT, <1>1 DEF Shows, Extract
  <2>2. Shows(e, <<2, 15, 1, 1>>)
    BY SMT, <1>1 DEF Shows, Extract
  <2>3. Shows(e, <<2, 14, 2, 3>>)
    BY SMT, <1>1 DEF Shows, Extract
  <2>4. Shows(e, <<2, 12, 1, 1>>)
    BY SMT, <1>1 DEF Shows, Extract
  <2>5. QED
    BY Zenon, <2>1, <2>2, <2>3, <2>4 DEF K
<1>3. DOMAIN e.fields = {"simm25"}
  BY DEF bl_t1, Encoding
<1>4. /\ e.fields["simm25"] = TwistedBranch(25, {<<23, 1, 29>>, <<22, 1, 27>>, <<1, 11, 16>>, <<24, 1, 10>>, <<12, 10, 0>>})
  BY DEF bl_t1, Encoding
<1> HIDE DEF e
<1>p. /\ e.fields["simm25"].pieces = {a, b, c, d, g}
  BY <1>4, FieldPieces DEF a, b, c, d, g
<1>5. Exact(e.fields["simm25"])
  BY <1>4, TwistedExact, Zenon
<1>6. \A x \in {a, b, c, d, g} : Clear(e, x)
  <2>1. Clear(e, a)
    BY SMT, <1>1 DEF Clear, Extract
  <2>2. Clear(e, b)
    BY SMT, <1>1 DEF Clear, Extract
  <2>3. Clear(e, c)
    BY SMT, <1>1 DEF Clear, Extract
  <2>4. Clear(e, d)
    BY SMT, <1>1 DEF Clear, Extract
  <2>5. Clear(e, g)
    BY SMT, <1>1 DEF Clear, Extract
  <2>6. QED
    BY <2>1, <2>2, <2>3, <2>4, <2>5
<1>7. \A x, y \in {a, b, c, d, g} : x # y => Beside(x, y)
  BY DEF Beside
<1>o. \A x \in {a, b, c, d, g} : \A k \in K : Outside(k, x)
  BY DEF Outside
<1> HIDE DEF a, b, c, d, g
<1>8. IsFiniteSet(DOMAIN e.fields)
  <2>1. DOMAIN e.fields \in SUBSET {"simm25", "simm25", "simm25", "simm25", "simm25", "simm25"}
    BY <1>3
  <2>2. QED
    BY <2>1, FewAreFinite
<1>9. \A q \in DOMAIN e.fields :
           Exact(e.fields[q]) /\ \A x \in e.fields[q].pieces : Clear(e, x)
  BY <1>3, <1>p, <1>5, <1>6
<1>10. \A q, r \in DOMAIN e.fields : q # r =>
           \A x \in e.fields[q].pieces, y \in e.fields[r].pieces : Beside(x, y)
  BY <1>3, <1>p, <1>7
<1>11. Sound(e)
  BY <1>2, <1>8, <1>9, <1>10, SoundOf
<1>12. \A q \in DOMAIN e.fields : \A x \in e.fields[q].pieces : \A k \in K : Outside(k, x)
  <2> HIDE DEF K
  <2>1. QED
    BY <1>3, <1>p, <1>o
<1>13. \A k \in K : Keeps(e, k)
  BY <1>w, <1>12, Zenon DEF Keeps
<1>14. QED
  BY <1>11, <1>13, Zenon DEF e, K

LEMMA BlxT1Sound ==
    /\ Sound(blx_t1)
    /\ \A k \in {<<1, 12, 4, 4>>, <<1, 11, 5, 8>>, <<1, 8, 8, 71>>, <<1, 7, 9, 143>>} : Keeps(blx_t1, k)
<1> DEFINE e == blx_t1
           a == <<0, 4, 3>>
           K == {<<1, 12, 4, 4>>, <<1, 11, 5, 8>>, <<1, 8, 8, 71>>, <<1, 7, 9, 143>>}
<1>1. e.base = <<\h4780>>
  BY DEF blx_t1, Encoding
<1>2. Based(e)
  <2>1. \h4780 \in 0 .. Top
    BY SMT DEF Top
  <2>2. QED
    BY <1>1, <2>1, OneBased
<1>w. \A k \in K : Shows(e, k)
  <2> HIDE DEF e
  <2>1. Shows(e, <<1, 12, 4, 4>>)
    BY SMT, <1>1 DEF Shows, Extract
  <2>2. Shows(e, <<1, 11, 5, 8>>)
    BY SMT, <1>1 DEF Shows, Extract
  <2>3. Shows(e, <<1, 8, 8, 71>>)
    BY SMT, <1>1 DEF Shows, Extract
  <2>4. Shows(e, <<1, 7, 9, 143>>)
    BY SMT, <1>1 DEF Shows, Extract
  <2>5. QED
    BY Zenon, <2>1, <2>2, <2>3, <2>4 DEF K
<1>3. DOMAIN e.fields = {"Rm"}
  BY DEF blx_t1, Encoding
<1>4. /\ e.fields["Rm"] = Bits(4, 3)
  BY DEF blx_t1, Encoding
<1> HIDE DEF e
<1>p. /\ e.fields["Rm"].pieces = {a}
  BY <1>4, FieldPieces DEF a
<1>5. Exact(e.fields["Rm"])
  BY <1>4, AllBitsExact, Zenon
<1>6. \A x \in {a} : Clear(e, x)
  <2>1. Clear(e, a)
    BY SMT, <1>1 DEF Clear, Extract
  <2>2. QED
    BY <2>1
<1>7. \A x, y \in {a} : x # y => Beside(x, y)
  BY DEF Beside
<1>o. \A x \in {a} : \A k \in K : Outside(k, x)
  BY DEF Outside
<1> HIDE DEF a
<1>8. IsFiniteSet(DOMAIN e.fields)
  <2>1. DOMAIN e.fields \in SUBSET {"Rm", "Rm", "Rm", "Rm", "Rm", "Rm"}
    BY <1>3
  <2>2. QED
    BY <2>1, FewAreFinite
<1>9. \A q \in DOMAIN e.fields :
           Exact(e.fields[q]) /\ \A x \in e.fields[q].pieces : Clear(e, x)
  BY <1>3, <1>p, <1>5, <1>6
<1>10. \A q, r \in DOMAIN e.fields : q # r =>
           \A x \in e.fields[q].pieces, y \in e.fields[r].pieces : Beside(x, y)
  BY <1>3, <1>p, <1>7
<1>11. Sound(e)
  BY <1>2, <1>8, <1>9, <1>10, SoundOf
<1>12. \A q \in DOMAIN e.fields : \A x \in e.fields[q].pieces : \A k \in K : Outside(k, x)
  <2> HIDE DEF K
  <2>1. QED
    BY <1>3, <1>p, <1>o
<1>13. \A k \in K : Keeps(e, k)
  BY <1>w, <1>12, Zenon DEF Keeps
<1>14. QED
  BY <1>11, <1>13, Zenon DEF e, K

LEMMA BxT1Sound ==
    /\ Sound(bx_t1)
    /\ \A k \in {<<1, 12, 4, 4>>, <<1, 11, 5, 8>>, <<1, 8, 8, 71>>, <<1, 7, 9, 142>>} : Keeps(bx_t1, k)
<1> DEFINE e == bx_t1
           a == <<0, 4, 3>>
           K == {<<1, 12, 4, 4>>, <<1, 11, 5, 8>>, <<1, 8, 8, 71>>, <<1, 7, 9, 142>>}
<1>1. e.base = <<\h4700>>
  BY DEF bx_t1, Encoding
<1>2. Based(e)
  <2>1. \h4700 \in 0 .. Top
    BY SMT DEF Top
  <2>2. QED
    BY <1>1, <2>1, OneBased
<1>w. \A k \in K : Shows(e, k)
  <2> HIDE DEF e
  <2>1. Shows(e, <<1, 12, 4, 4>>)
    BY SMT, <1>1 DEF Shows, Extract
  <2>2. Shows(e, <<1, 11, 5, 8>>)
    BY SMT, <1>1 DEF Shows, Extract
  <2>3. Shows(e, <<1, 8, 8, 71>>)
    BY SMT, <1>1 DEF Shows, Extract
  <2>4. Shows(e, <<1, 7, 9, 142>>)
    BY SMT, <1>1 DEF Shows, Extract
  <2>5. QED
    BY Zenon, <2>1, <2>2, <2>3, <2>4 DEF K
<1>3. DOMAIN e.fields = {"Rm"}
  BY DEF bx_t1, Encoding
<1>4. /\ e.fields["Rm"] = Bits(4, 3)
  BY DEF bx_t1, Encoding
<1> HIDE DEF e
<1>p. /\ e.fields["Rm"].pieces = {a}
  BY <1>4, FieldPieces DEF a
<1>5. Exact(e.fields["Rm"])
  BY <1>4, AllBitsExact, Zenon
<1>6. \A x \in {a} : Clear(e, x)
  <2>1. Clear(e, a)
    BY SMT, <1>1 DEF Clear, Extract
  <2>2. QED
    BY <2>1
<1>7. \A x, y \in {a} : x # y => Beside(x, y)
  BY DEF Beside
<1>o. \A x \in {a} : \A k \in K : Outside(k, x)
  BY DEF Outside
<1> HIDE DEF a
<1>8. IsFiniteSet(DOMAIN e.fields)
  <2>1. DOMAIN e.fields \in SUBSET {"Rm", "Rm", "Rm", "Rm", "Rm", "Rm"}
    BY <1>3
  <2>2. QED
    BY <2>1, FewAreFinite
<1>9. \A q \in DOMAIN e.fields :
           Exact(e.fields[q]) /\ \A x \in e.fields[q].pieces : Clear(e, x)
  BY <1>3, <1>p, <1>5, <1>6
<1>10. \A q, r \in DOMAIN e.fields : q # r =>
           \A x \in e.fields[q].pieces, y \in e.fields[r].pieces : Beside(x, y)
  BY <1>3, <1>p, <1>7
<1>11. Sound(e)
  BY <1>2, <1>8, <1>9, <1>10, SoundOf
<1>12. \A q \in DOMAIN e.fields : \A x \in e.fields[q].pieces : \A k \in K : Outside(k, x)
  <2> HIDE DEF K
  <2>1. QED
    BY <1>3, <1>p, <1>o
<1>13. \A k \in K : Keeps(e, k)
  BY <1>w, <1>12, Zenon DEF Keeps
<1>14. QED
  BY <1>11, <1>13, Zenon DEF e, K

LEMMA CmpIT1Sound ==
    /\ Sound(cmp_i_t1)
    /\ \A k \in {<<1, 12, 4, 2>>, <<1, 11, 5, 5>>} : Keeps(cmp_i_t1, k)
<1> DEFINE e == cmp_i_t1
           a == <<0, 3, 8>>
           b == <<0, 8, 0>>
           K == {<<1, 12, 4, 2>>, <<1, 11, 5, 5>>}
<1>1. e.base = <<\h2800>>
  BY DEF cmp_i_t1, Encoding
<1>2. Based(e)
  <2>1. \h2800 \in 0 .. Top
    BY SMT DEF Top
  <2>2. QED
    BY <1>1, <2>1, OneBased
<1>w. \A k \in K : Shows(e, k)
  <2> HIDE DEF e
  <2>1. Shows(e, <<1, 12, 4, 2>>)
    BY SMT, <1>1 DEF Shows, Extract
  <2>2. Shows(e, <<1, 11, 5, 5>>)
    BY SMT, <1>1 DEF Shows, Extract
  <2>3. QED
    BY Zenon, <2>1, <2>2 DEF K
<1>3. DOMAIN e.fields = {"Rn", "imm8"}
  BY DEF cmp_i_t1, Encoding
<1>4. /\ e.fields["Rn"] = Bits(3, 8)
      /\ e.fields["imm8"] = Bits(8, 0)
  BY DEF cmp_i_t1, Encoding
<1> HIDE DEF e
<1>p. /\ e.fields["Rn"].pieces = {a}
      /\ e.fields["imm8"].pieces = {b}
  BY <1>4, FieldPieces DEF a, b
<1>5. Exact(e.fields["Rn"]) /\ Exact(e.fields["imm8"])
  BY <1>4, AllBitsExact, Zenon
<1>6. \A x \in {a, b} : Clear(e, x)
  <2>1. Clear(e, a)
    BY SMT, <1>1 DEF Clear, Extract
  <2>2. Clear(e, b)
    BY SMT, <1>1 DEF Clear, Extract
  <2>3. QED
    BY <2>1, <2>2
<1>7. \A x, y \in {a, b} : x # y => Beside(x, y)
  BY DEF Beside
<1>8. a # b
  OBVIOUS
<1>o. \A x \in {a, b} : \A k \in K : Outside(k, x)
  BY DEF Outside
<1> HIDE DEF a, b
<1>9. IsFiniteSet(DOMAIN e.fields)
  <2>1. DOMAIN e.fields \in SUBSET {"Rn", "imm8", "imm8", "imm8", "imm8", "imm8"}
    BY <1>3
  <2>2. QED
    BY <2>1, FewAreFinite
<1>10. \A q \in DOMAIN e.fields :
           Exact(e.fields[q]) /\ \A x \in e.fields[q].pieces : Clear(e, x)
  BY <1>3, <1>p, <1>5, <1>6
<1>11. \A q, r \in DOMAIN e.fields : q # r =>
           \A x \in e.fields[q].pieces, y \in e.fields[r].pieces : Beside(x, y)
  BY <1>3, <1>p, <1>7, <1>8
<1>12. Sound(e)
  BY <1>2, <1>9, <1>10, <1>11, SoundOf
<1>13. \A q \in DOMAIN e.fields : \A x \in e.fields[q].pieces : \A k \in K : Outside(k, x)
  <2> HIDE DEF K
  <2>1. QED
    BY <1>3, <1>p, <1>o
<1>14. \A k \in K : Keeps(e, k)
  BY <1>w, <1>13, Zenon DEF Keeps
<1>15. QED
  BY <1>12, <1>14, Zenon DEF e, K

LEMMA CmpRT1Sound ==
    /\ Sound(cmp_r_t1)
    /\ \A k \in {<<1, 12, 4, 4>>, <<1, 11, 5, 8>>, <<1, 8, 8, 66>>} : Keeps(cmp_r_t1, k)
<1> DEFINE e == cmp_r_t1
           a == <<0, 3, 3>>
           b == <<0, 3, 0>>
           K == {<<1, 12, 4, 4>>, <<1, 11, 5, 8>>, <<1, 8, 8, 66>>}
<1>1. e.base = <<\h4280>>
  BY DEF cmp_r_t1, Encoding
<1>2. Based(e)
  <2>1. \h4280 \in 0 .. Top
    BY SMT DEF Top
  <2>2. QED
    BY <1>1, <2>1, OneBased
<1>w. \A k \in K : Shows(e, k)
  <2> HIDE DEF e
  <2>1. Shows(e, <<1, 12, 4, 4>>)
    BY SMT, <1>1 DEF Shows, Extract
  <2>2. Shows(e, <<1, 11, 5, 8>>)
    BY SMT, <1>1 DEF Shows, Extract
  <2>3. Shows(e, <<1, 8, 8, 66>>)
    BY SMT, <1>1 DEF Shows, Extract
  <2>4. QED
    BY Zenon, <2>1, <2>2, <2>3 DEF K
<1>3. DOMAIN e.fields = {"Rm", "Rn"}
  BY DEF cmp_r_t1, Encoding
<1>4. /\ e.fields["Rm"] = Bits(3, 3)
      /\ e.fields["Rn"] = Bits(3, 0)
  BY DEF cmp_r_t1, Encoding
<1> HIDE DEF e
<1>p. /\ e.fields["Rm"].pieces = {a}
      /\ e.fields["Rn"].pieces = {b}
  BY <1>4, FieldPieces DEF a, b
<1>5. Exact(e.fields["Rm"]) /\ Exact(e.fields["Rn"])
  BY <1>4, AllBitsExact, Zenon
<1>6. \A x \in {a, b} : Clear(e, x)
  <2>1. Clear(e, a)
    BY SMT, <1>1 DEF Clear, Extract
  <2>2. Clear(e, b)
    BY SMT, <1>1 DEF Clear, Extract
  <2>3. QED
    BY <2>1, <2>2
<1>7. \A x, y \in {a, b} : x # y => Beside(x, y)
  BY DEF Beside
<1>8. a # b
  OBVIOUS
<1>o. \A x \in {a, b} : \A k \in K : Outside(k, x)
  BY DEF Outside
<1> HIDE DEF a, b
<1>9. IsFiniteSet(DOMAIN e.fields)
  <2>1. DOMAIN e.fields \in SUBSET {"Rm", "Rn", "Rn", "Rn", "Rn", "Rn"}
    BY <1>3
  <2>2. QED
    BY <2>1, FewAreFinite
<1>10. \A q \in DOMAIN e.fields :
           Exact(e.fields[q]) /\ \A x \in e.fields[q].pieces : Clear(e, x)
  BY <1>3, <1>p, <1>5, <1>6
<1>11. \A q, r \in DOMAIN e.fields : q # r =>
           \A x \in e.fields[q].pieces, y \in e.fields[r].pieces : Beside(x, y)
  BY <1>3, <1>p, <1>7, <1>8
<1>12. Sound(e)
  BY <1>2, <1>9, <1>10, <1>11, SoundOf
<1>13. \A q \in DOMAIN e.fields : \A x \in e.fields[q].pieces : \A k \in K : Outside(k, x)
  <2> HIDE DEF K
  <2>1. QED
    BY <1>3, <1>p, <1>o
<1>14. \A k \in K : Keeps(e, k)
  BY <1>w, <1>13, Zenon DEF Keeps
<1>15. QED
  BY <1>12, <1>14, Zenon DEF e, K

LEMMA CmpRT2Sound ==
    /\ Sound(cmp_r_t2)
    /\ \A k \in {<<1, 12, 4, 4>>, <<1, 11, 5, 8>>, <<1, 8, 8, 69>>} : Keeps(cmp_r_t2, k)
<1> DEFINE e == cmp_r_t2
           a == <<3, 1, 7>>
           b == <<0, 3, 0>>
           c == <<0, 4, 3>>
           K == {<<1, 12, 4, 4>>, <<1, 11, 5, 8>>, <<1, 8, 8, 69>>}
<1>1. e.base = <<\h4500>>
  BY DEF cmp_r_t2, Encoding
<1>2. Based(e)
  <2>1. \h4500 \in 0 .. Top
    BY SMT DEF Top
  <2>2. QED
    BY <1>1, <2>1, OneBased
<1>w. \A k \in K : Shows(e, k)
  <2> HIDE DEF e
  <2>1. Shows(e, <<1, 12, 4, 4>>)
    BY SMT, <1>1 DEF Shows, Extract
  <2>2. Shows(e, <<1, 11, 5, 8>>)
    BY SMT, <1>1 DEF Shows, Extract
  <2>3. Shows(e, <<1, 8, 8, 69>>)
    BY SMT, <1>1 DEF Shows, Extract
  <2>4. QED
    BY Zenon, <2>1, <2>2, <2>3 DEF K
<1>3. DOMAIN e.fields = {"Rn", "Rm"}
  BY DEF cmp_r_t2, Encoding
<1>4. /\ e.fields["Rn"] = Split(4, {<<3, 1, 7>>, <<0, 3, 0>>})
      /\ e.fields["Rm"] = Bits(4, 3)
  BY DEF cmp_r_t2, Encoding
<1> HIDE DEF e
<1>p. /\ e.fields["Rn"].pieces = {a, b}
      /\ e.fields["Rm"].pieces = {c}
  BY <1>4, FieldPieces DEF a, b, c
<1>5. Exact(e.fields["Rn"]) /\ Exact(e.fields["Rm"])
  BY <1>4, SplitRegisterExact, AllBitsExact, Zenon
<1>6. \A x \in {a, b, c} : Clear(e, x)
  <2>1. Clear(e, a)
    BY SMT, <1>1 DEF Clear, Extract
  <2>2. Clear(e, b)
    BY SMT, <1>1 DEF Clear, Extract
  <2>3. Clear(e, c)
    BY SMT, <1>1 DEF Clear, Extract
  <2>4. QED
    BY <2>1, <2>2, <2>3
<1>7. \A x, y \in {a, b, c} : x # y => Beside(x, y)
  BY DEF Beside
<1>8. a # c /\ b # c
  OBVIOUS
<1>o. \A x \in {a, b, c} : \A k \in K : Outside(k, x)
  BY DEF Outside
<1> HIDE DEF a, b, c
<1>9. IsFiniteSet(DOMAIN e.fields)
  <2>1. DOMAIN e.fields \in SUBSET {"Rn", "Rm", "Rm", "Rm", "Rm", "Rm"}
    BY <1>3
  <2>2. QED
    BY <2>1, FewAreFinite
<1>10. \A q \in DOMAIN e.fields :
           Exact(e.fields[q]) /\ \A x \in e.fields[q].pieces : Clear(e, x)
  BY <1>3, <1>p, <1>5, <1>6
<1>11. \A q, r \in DOMAIN e.fields : q # r =>
           \A x \in e.fields[q].pieces, y \in e.fields[r].pieces : Beside(x, y)
  BY <1>3, <1>p, <1>7, <1>8
<1>12. Sound(e)
  BY <1>2, <1>9, <1>10, <1>11, SoundOf
<1>13. \A q \in DOMAIN e.fields : \A x \in e.fields[q].pieces : \A k \in K : Outside(k, x)
  <2> HIDE DEF K
  <2>1. QED
    BY <1>3, <1>p, <1>o
<1>14. \A k \in K : Keeps(e, k)
  BY <1>w, <1>13, Zenon DEF Keeps
<1>15. QED
  BY <1>12, <1>14, Zenon DEF e, K

LEMMA LdrIT1Sound ==
    /\ Sound(ldr_i_t1)
    /\ \A k \in {<<1, 12, 4, 6>>, <<1, 11, 5, 13>>} : Keeps(ldr_i_t1, k)
<1> DEFINE e == ldr_i_t1
           a == <<2, 5, 6>>
           b == <<0, 3, 3>>
           c == <<0, 3, 0>>
           K == {<<1, 12, 4, 6>>, <<1, 11, 5, 13>>}
<1>1. e.base = <<\h6800>>
  BY DEF ldr_i_t1, Encoding
<1>2. Based(e)
  <2>1. \h6800 \in 0 .. Top
    BY SMT DEF Top
  <2>2. QED
    BY <1>1, <2>1, OneBased
<1>w. \A k \in K : Shows(e, k)
  <2> HIDE DEF e
  <2>1. Shows(e, <<1, 12, 4, 6>>)
    BY SMT, <1>1 DEF Shows, Extract
  <2>2. Shows(e, <<1, 11, 5, 13>>)
    BY SMT, <1>1 DEF Shows, Extract
  <2>3. QED
    BY Zenon, <2>1, <2>2 DEF K
<1>3. DOMAIN e.fields = {"imm7", "Rn", "Rt"}
  BY DEF ldr_i_t1, Encoding
<1>4. /\ e.fields["imm7"] = Words(7, 6)
      /\ e.fields["Rn"] = Bits(3, 3)
      /\ e.fields["Rt"] = Bits(3, 0)
  BY DEF ldr_i_t1, Encoding
<1> HIDE DEF e
<1>p. /\ e.fields["imm7"].pieces = {a}
      /\ e.fields["Rn"].pieces = {b}
      /\ e.fields["Rt"].pieces = {c}
  BY <1>4, FieldPieces DEF a, b, c
<1>5. Exact(e.fields["imm7"]) /\ Exact(e.fields["Rn"]) /\ Exact(e.fields["Rt"])
  BY <1>4, OthersExact, AllBitsExact, Zenon
<1>6. \A x \in {a, b, c} : Clear(e, x)
  <2>1. Clear(e, a)
    BY SMT, <1>1 DEF Clear, Extract
  <2>2. Clear(e, b)
    BY SMT, <1>1 DEF Clear, Extract
  <2>3. Clear(e, c)
    BY SMT, <1>1 DEF Clear, Extract
  <2>4. QED
    BY <2>1, <2>2, <2>3
<1>7. \A x, y \in {a, b, c} : x # y => Beside(x, y)
  BY DEF Beside
<1>8. a # b /\ a # c /\ b # c
  OBVIOUS
<1>o. \A x \in {a, b, c} : \A k \in K : Outside(k, x)
  BY DEF Outside
<1> HIDE DEF a, b, c
<1>9. IsFiniteSet(DOMAIN e.fields)
  <2>1. DOMAIN e.fields \in SUBSET {"imm7", "Rn", "Rt", "Rt", "Rt", "Rt"}
    BY <1>3
  <2>2. QED
    BY <2>1, FewAreFinite
<1>10. \A q \in DOMAIN e.fields :
           Exact(e.fields[q]) /\ \A x \in e.fields[q].pieces : Clear(e, x)
  BY <1>3, <1>p, <1>5, <1>6
<1>11. \A q, r \in DOMAIN e.fields : q # r =>
           \A x \in e.fields[q].pieces, y \in e.fields[r].pieces : Beside(x, y)
  BY <1>3, <1>p, <1>7, <1>8
<1>12. Sound(e)
  BY <1>2, <1>9, <1>10, <1>11, SoundOf
<1>13. \A q \in DOMAIN e.fields : \A x \in e.fields[q].pieces : \A k \in K : Outside(k, x)
  <2> HIDE DEF K
  <2>1. QED
    BY <1>3, <1>p, <1>o
<1>14. \A k \in K : Keeps(e, k)
  BY <1>w, <1>13, Zenon DEF Keeps
<1>15. QED
  BY <1>12, <1>14, Zenon DEF e, K

LEMMA LdrIT2SponlySound ==
    /\ Sound(ldr_i_t2_sponly)
    /\ \A k \in {<<1, 12, 4, 9>>, <<1, 11, 5, 19>>} : Keeps(ldr_i_t2_sponly, k)
<1> DEFINE e == ldr_i_t2_sponly
           a == <<0, 3, 8>>
           b == <<2, 8, 0>>
           K == {<<1, 12, 4, 9>>, <<1, 11, 5, 19>>}
<1>1. e.base = <<\h9800>>
  BY DEF ldr_i_t2_sponly, Encoding
<1>2. Based(e)
  <2>1. \h9800 \in 0 .. Top
    BY SMT DEF Top
  <2>2. QED
    BY <1>1, <2>1, OneBased
<1>w. \A k \in K : Shows(e, k)
  <2> HIDE DEF e
  <2>1. Shows(e, <<1, 12, 4, 9>>)
    BY SMT, <1>1 DEF Shows, Extract
  <2>2. Shows(e, <<1, 11, 5, 19>>)
    BY SMT, <1>1 DEF Shows, Extract
  <2>3. QED
    BY Zenon, <2>1, <2>2 DEF K
<1>3. DOMAIN e.fields = {"Rt", "imm10"}
  BY DEF ldr_i_t2_sponly, Encoding
<1>4. /\ e.fields["Rt"] = Bits(3, 8)
      /\ e.fields["imm10"] = Words(10, 0)
  BY DEF ldr_i_t2_sponly, Encoding
<1> HIDE DEF e
<1>p. /\ e.fields["Rt"].pieces = {a}
      /\ e.fields["imm10"].pieces = {b}
  BY <1>4, FieldPieces DEF a, b
<1>5. Exact(e.fields["Rt"]) /\ Exact(e.fields["imm10"])
  BY <1>4, AllBitsExact, OthersExact, Zenon
<1>6. \A x \in {a, b} : Clear(e, x)
  <2>1. Clear(e, a)
    BY SMT, <1>1 DEF Clear, Extract
  <2>2. Clear(e, b)
    BY SMT, <1>1 DEF Clear, Extract
  <2>3. QED
    BY <2>1, <2>2
<1>7. \A x, y \in {a, b} : x # y => Beside(x, y)
  BY DEF Beside
<1>8. a # b
  OBVIOUS
<1>o. \A x \in {a, b} : \A k \in K : Outside(k, x)
  BY DEF Outside
<1> HIDE DEF a, b
<1>9. IsFiniteSet(DOMAIN e.fields)
  <2>1. DOMAIN e.fields \in SUBSET {"Rt", "imm10", "imm10", "imm10", "imm10", "imm10"}
    BY <1>3
  <2>2. QED
    BY <2>1, FewAreFinite
<1>10. \A q \in DOMAIN e.fields :
           Exact(e.fields[q]) /\ \A x \in e.fields[q].pieces : Clear(e, x)
  BY <1>3, <1>p, <1>5, <1>6
<1>11. \A q, r \in DOMAIN e.fields : q # r =>
           \A x \in e.fields[q].pieces, y \in e.fields[r].pieces : Beside(x, y)
  BY <1>3, <1>p, <1>7, <1>8
<1>12. Sound(e)
  BY <1>2, <1>9, <1>10, <1>11, SoundOf
<1>13. \A q \in DOMAIN e.fields : \A x \in e.fields[q].pieces : \A k \in K : Outside(k, x)
  <2> HIDE DEF K
  <2>1. QED
    BY <1>3, <1>p, <1>o
<1>14. \A k \in K : Keeps(e, k)
  BY <1>w, <1>13, Zenon DEF Keeps
<1>15. QED
  BY <1>12, <1>14, Zenon DEF e, K

LEMMA LdrIT3Sound ==
    /\ Sound(ldr_i_t3)
    /\ \A k \in {<<1, 11, 5, 31>>, <<1, 8, 8, 248>>, <<1, 4, 3, 5>>, <<1, 7, 1, 1>>} : Keeps(ldr_i_t3, k)
<1> DEFINE e == ldr_i_t3
           a == <<0, 4, 28>>
           b == <<0, 12, 16>>
           c == <<0, 4, 0>>
           K == {<<1, 11, 5, 31>>, <<1, 8, 8, 248>>, <<1, 4, 3, 5>>, <<1, 7, 1, 1>>}
<1>1. e.base = <<\hf8d0, \h0000>>
  BY DEF ldr_i_t3, Encoding
<1>2. Based(e)
  <2>1. \hf8d0 \in 0 .. Top /\ \h0000 \in 0 .. Top
    BY SMT DEF Top
  <2>2. QED
    BY <1>1, <2>1, TwoBased
<1>w. \A k \in K : Shows(e, k)
  <2> HIDE DEF e
  <2>1. Shows(e, <<1, 11, 5, 31>>)
    BY SMT, <1>1 DEF Shows, Extract
  <2>2. Shows(e, <<1, 8, 8, 248>>)
    BY SMT, <1>1 DEF Shows, Extract
  <2>3. Shows(e, <<1, 4, 3, 5>>)
    BY SMT, <1>1 DEF Shows, Extract
  <2>4. Shows(e, <<1, 7, 1, 1>>)
    BY SMT, <1>1 DEF Shows, Extract
  <2>5. QED
    BY Zenon, <2>1, <2>2, <2>3, <2>4 DEF K
<1>3. DOMAIN e.fields = {"Rt", "imm12", "Rn"}
  BY DEF ldr_i_t3, Encoding
<1>4. /\ e.fields["Rt"] = Bits(4, 28)
      /\ e.fields["imm12"] = Bits(12, 16)
      /\ e.fields["Rn"] = Bits(4, 0)
  BY DEF ldr_i_t3, Encoding
<1> HIDE DEF e
<1>p. /\ e.fields["Rt"].pieces = {a}
      /\ e.fields["imm12"].pieces = {b}
      /\ e.fields["Rn"].pieces = {c}
  BY <1>4, FieldPieces DEF a, b, c
<1>5. Exact(e.fields["Rt"]) /\ Exact(e.fields["imm12"]) /\ Exact(e.fields["Rn"])
  BY <1>4, AllBitsExact, Zenon
<1>6. \A x \in {a, b, c} : Clear(e, x)
  <2>1. Clear(e, a)
    BY SMT, <1>1 DEF Clear, Extract
  <2>2. Clear(e, b)
    BY SMT, <1>1 DEF Clear, Extract
  <2>3. Clear(e, c)
    BY SMT, <1>1 DEF Clear, Extract
  <2>4. QED
    BY <2>1, <2>2, <2>3
<1>7. \A x, y \in {a, b, c} : x # y => Beside(x, y)
  BY DEF Beside
<1>8. a # b /\ a # c /\ b # c
  OBVIOUS
<1>o. \A x \in {a, b, c} : \A k \in K : Outside(k, x)
  BY DEF Outside
<1> HIDE DEF a, b, c
<1>9. IsFiniteSet(DOMAIN e.fields)
  <2>1. DOMAIN e.fields \in SUBSET {"Rt", "imm12", "Rn", "Rn", "Rn", "Rn"}
    BY <1>3
  <2>2. QED
    BY <2>1, FewAreFinite
<1>10. \A q \in DOMAIN e.fields :
           Exact(e.fields[q]) /\ \A x \in e.fields[q].pieces : Clear(e, x)
  BY <1>3, <1>p, <1>5, <1>6
<1>11. \A q, r \in DOMAIN e.fields : q # r =>
           \A x \in e.fields[q].pieces, y \in e.fields[r].pieces : Beside(x, y)
  BY <1>3, <1>p, <1>7, <1>8
<1>12. Sound(e)
  BY <1>2, <1>9, <1>10, <1>11, SoundOf
<1>13. \A q \in DOMAIN e.fields : \A x \in e.fields[q].pieces : \A k \in K : Outside(k, x)
  <2> HIDE DEF K
  <2>1. QED
    BY <1>3, <1>p, <1>o
<1>14. \A k \in K : Keeps(e, k)
  BY <1>w, <1>13, Zenon DEF Keeps
<1>15. QED
  BY <1>12, <1>14, Zenon DEF e, K

LEMMA LdrIT4Sound ==
    /\ Sound(ldr_i_t4)
    /\ \A k \in {<<1, 11, 5, 31>>, <<1, 8, 8, 248>>, <<1, 4, 3, 5>>, <<1, 7, 1, 0>>, <<2, 11, 1, 1>>} : Keeps(ldr_i_t4, k)
<1> DEFINE e == ldr_i_t4
           a == <<0, 4, 28>>
           b == <<0, 1, 26>>
           c == <<0, 1, 25>>
           d == <<0, 1, 24>>
           g == <<0, 8, 16>>
           i == <<0, 4, 0>>
           K == {<<1, 11, 5, 31>>, <<1, 8, 8, 248>>, <<1, 4, 3, 5>>, <<1, 7, 1, 0>>, <<2, 11, 1, 1>>}
<1>1. e.base = <<\hf850, \h0800>>
  BY DEF ldr_i_t4, Encoding
<1>2. Based(e)
  <2>1. \hf850 \in 0 .. Top /\ \h0800 \in 0 .. Top
    BY SMT DEF Top
  <2>2. QED
    BY <1>1, <2>1, TwoBased
<1>w. \A k \in K : Shows(e, k)
  <2> HIDE DEF e
  <2>1. Shows(e, <<1, 11, 5, 31>>)
    BY SMT, <1>1 DEF Shows, Extract
  <2>2. Shows(e, <<1, 8, 8, 248>>)
    BY SMT, <1>1 DEF Shows, Extract
  <2>3. Shows(e, <<1, 4, 3, 5>>)
    BY SMT, <1>1 DEF Shows, Extract
  <2>4. Shows(e, <<1, 7, 1, 0>>)
    BY SMT, <1>1 DEF Shows, Extract
  <2>5. Shows(e, <<2, 11, 1, 1>>)
    BY SMT, <1>1 DEF Shows, Extract
  <2>6. QED
    BY Zenon, <2>1, <2>2, <2>3, <2>4, <2>5 DEF K
<1>3. DOMAIN e.fields = {"Rt", "index", "add", "writeback", "imm8", "Rn"}
  BY DEF ldr_i_t4, Encoding
<1>4. /\ e.fields["Rt"] = Bits(4, 28)
      /\ e.fields["index"] = Bits(1, 26)
      /\ e.fields["add"] = Bits(1, 25)
      /\ e.fields["writeback"] = Bits(1, 24)
      /\ e.fields["imm8"] = Bits(8, 16)
      /\ e.fields["Rn"] = Bits(4, 0)
  BY DEF ldr_i_t4, Encoding
<1> HIDE DEF e
<1>p. /\ e.fields["Rt"].pieces = {a}
      /\ e.fields["index"].pieces = {b}
      /\ e.fields["add"].pieces = {c}
      /\ e.fields["writeback"].pieces = {d}
      /\ e.fields["imm8"].pieces = {g}
      /\ e.fields["Rn"].pieces = {i}
  BY <1>4, FieldPieces DEF a, b, c, d, g, i
<1>5. Exact(e.fields["Rt"]) /\ Exact(e.fields["index"]) /\ Exact(e.fields["add"]) /\
      Exact(e.fields["writeback"]) /\ Exact(e.fields["imm8"]) /\ Exact(e.fields["Rn"])
  BY <1>4, AllBitsExact, Zenon
<1>6. \A x \in {a, b, c, d, g, i} : Clear(e, x)
  <2>1. Clear(e, a)
    BY SMT, <1>1 DEF Clear, Extract
  <2>2. Clear(e, b)
    BY SMT, <1>1 DEF Clear, Extract
  <2>3. Clear(e, c)
    BY SMT, <1>1 DEF Clear, Extract
  <2>4. Clear(e, d)
    BY SMT, <1>1 DEF Clear, Extract
  <2>5. Clear(e, g)
    BY SMT, <1>1 DEF Clear, Extract
  <2>6. Clear(e, i)
    BY SMT, <1>1 DEF Clear, Extract
  <2>7. QED
    BY <2>1, <2>2, <2>3, <2>4, <2>5, <2>6
<1>7. \A x, y \in {a, b, c, d, g, i} : x # y => Beside(x, y)
  BY DEF Beside
<1>8. a # b /\ a # c /\ a # d /\ a # g /\ a # i /\ b # c /\ b # d /\ b # g /\ b # i /\
      c # d /\ c # g /\ c # i /\ d # g /\ d # i /\ g # i
  OBVIOUS
<1>o. \A x \in {a, b, c, d, g, i} : \A k \in K : Outside(k, x)
  BY DEF Outside
<1> HIDE DEF a, b, c, d, g, i
<1>9. IsFiniteSet(DOMAIN e.fields)
  <2>1. DOMAIN e.fields \in SUBSET {"Rt", "index", "add", "writeback", "imm8", "Rn"}
    BY <1>3
  <2>2. QED
    BY <2>1, FewAreFinite
<1>10. \A q \in DOMAIN e.fields :
           Exact(e.fields[q]) /\ \A x \in e.fields[q].pieces : Clear(e, x)
  BY <1>3, <1>p, <1>5, <1>6
<1>11. \A q, r \in DOMAIN e.fields : q # r =>
           \A x \in e.fields[q].pieces, y \in e.fields[r].pieces : Beside(x, y)
  BY <1>3, <1>p, <1>7, <1>8
<1>12. Sound(e)
  BY <1>2, <1>9, <1>10, <1>11, SoundOf
<1>13. \A q \in DOMAIN e.fields : \A x \in e.fields[q].pieces : \A k \in K : Outside(k, x)
  <2> HIDE DEF K
  <2>1. QED
    BY <1>3, <1>p, <1>o
<1>14. \A k \in K : Keeps(e, k)
  BY <1>w, <1>13, Zenon DEF Keeps
<1>15. QED
  BY <1>12, <1>14, Zenon DEF e, K

LEMMA LdrLitT1Sound ==
    /\ Sound(ldr_lit_t1)
    /\ \A k \in {<<1, 12, 4, 4>>, <<1, 11, 5, 9>>} : Keeps(ldr_lit_t1, k)
<1> DEFINE e == ldr_lit_t1
           a == <<0, 3, 8>>
           b == <<2, 8, 0>>
           K == {<<1, 12, 4, 4>>, <<1, 11, 5, 9>>}
<1>1. e.base = <<\h4800>>
  BY DEF ldr_lit_t1, Encoding
<1>2. Based(e)
  <2>1. \h4800 \in 0 .. Top
    BY SMT DEF Top
  <2>2. QED
    BY <1>1, <2>1, OneBased
<1>w. \A k \in K : Shows(e, k)
  <2> HIDE DEF e
  <2>1. Shows(e, <<1, 12, 4, 4>>)
    BY SMT, <1>1 DEF Shows, Extract
  <2>2. Shows(e, <<1, 11, 5, 9>>)
    BY SMT, <1>1 DEF Shows, Extract
  <2>3. QED
    BY Zenon, <2>1, <2>2 DEF K
<1>3. DOMAIN e.fields = {"Rt", "imm10"}
  BY DEF ldr_lit_t1, Encoding
<1>4. /\ e.fields["Rt"] = Bits(3, 8)
      /\ e.fields["imm10"] = Words(10, 0)
  BY DEF ldr_lit_t1, Encoding
<1> HIDE DEF e
<1>p. /\ e.fields["Rt"].pieces = {a}
      /\ e.fields["imm10"].pieces = {b}
  BY <1>4, FieldPieces DEF a, b
<1>5. Exact(e.fields["Rt"]) /\ Exact(e.fields["imm10"])
  BY <1>4, AllBitsExact, OthersExact, Zenon
<1>6. \A x \in {a, b} : Clear(e, x)
  <2>1. Clear(e, a)
    BY SMT, <1>1 DEF Clear, Extract
  <2>2. Clear(e, b)
    BY SMT, <1>1 DEF Clear, Extract
  <2>3. QED
    BY <2>1, <2>2
<1>7. \A x, y \in {a, b} : x # y => Beside(x, y)
  BY DEF Beside
<1>8. a # b
  OBVIOUS
<1>o. \A x \in {a, b} : \A k \in K : Outside(k, x)
  BY DEF Outside
<1> HIDE DEF a, b
<1>9. IsFiniteSet(DOMAIN e.fields)
  <2>1. DOMAIN e.fields \in SUBSET {"Rt", "imm10", "imm10", "imm10", "imm10", "imm10"}
    BY <1>3
  <2>2. QED
    BY <2>1, FewAreFinite
<1>10. \A q \in DOMAIN e.fields :
           Exact(e.fields[q]) /\ \A x \in e.fields[q].pieces : Clear(e, x)
  BY <1>3, <1>p, <1>5, <1>6
<1>11. \A q, r \in DOMAIN e.fields : q # r =>
           \A x \in e.fields[q].pieces, y \in e.fields[r].pieces : Beside(x, y)
  BY <1>3, <1>p, <1>7, <1>8
<1>12. Sound(e)
  BY <1>2, <1>9, <1>10, <1>11, SoundOf
<1>13. \A q \in DOMAIN e.fields : \A x \in e.fields[q].pieces : \A k \in K : Outside(k, x)
  <2> HIDE DEF K
  <2>1. QED
    BY <1>3, <1>p, <1>o
<1>14. \A k \in K : Keeps(e, k)
  BY <1>w, <1>13, Zenon DEF Keeps
<1>15. QED
  BY <1>12, <1>14, Zenon DEF e, K

LEMMA LdrLitT2Sound ==
    /\ Sound(ldr_lit_t2)
    /\ \A k \in {<<1, 11, 5, 31>>, <<1, 8, 8, 248>>, <<1, 4, 3, 5>>, <<1, 0, 4, 15>>} : Keeps(ldr_lit_t2, k)
<1> DEFINE e == ldr_lit_t2
           a == <<0, 4, 28>>
           b == <<0, 12, 16>>
           c == <<0, 1, 7>>
           K == {<<1, 11, 5, 31>>, <<1, 8, 8, 248>>, <<1, 4, 3, 5>>, <<1, 0, 4, 15>>}
<1>1. e.base = <<\hf85f, \h0000>>
  BY DEF ldr_lit_t2, Encoding
<1>2. Based(e)
  <2>1. \hf85f \in 0 .. Top /\ \h0000 \in 0 .. Top
    BY SMT DEF Top
  <2>2. QED
    BY <1>1, <2>1, TwoBased
<1>w. \A k \in K : Shows(e, k)
  <2> HIDE DEF e
  <2>1. Shows(e, <<1, 11, 5, 31>>)
    BY SMT, <1>1 DEF Shows, Extract
  <2>2. Shows(e, <<1, 8, 8, 248>>)
    BY SMT, <1>1 DEF Shows, Extract
  <2>3. Shows(e, <<1, 4, 3, 5>>)
    BY SMT, <1>1 DEF Shows, Extract
  <2>4. Shows(e, <<1, 0, 4, 15>>)
    BY SMT, <1>1 DEF Shows, Extract
  <2>5. QED
    BY Zenon, <2>1, <2>2, <2>3, <2>4 DEF K
<1>3. DOMAIN e.fields = {"Rt", "imm12", "add"}
  BY DEF ldr_lit_t2, Encoding
<1>4. /\ e.fields["Rt"] = Bits(4, 28)
      /\ e.fields["imm12"] = Bits(12, 16)
      /\ e.fields["add"] = Bits(1, 7)
  BY DEF ldr_lit_t2, Encoding
<1> HIDE DEF e
<1>p. /\ e.fields["Rt"].pieces = {a}
      /\ e.fields["imm12"].pieces = {b}
      /\ e.fields["add"].pieces = {c}
  BY <1>4, FieldPieces DEF a, b, c
<1>5. Exact(e.fields["Rt"]) /\ Exact(e.fields["imm12"]) /\ Exact(e.fields["add"])
  BY <1>4, AllBitsExact, Zenon
<1>6. \A x \in {a, b, c} : Clear(e, x)
  <2>1. Clear(e, a)
    BY SMT, <1>1 DEF Clear, Extract
  <2>2. Clear(e, b)
    BY SMT, <1>1 DEF Clear, Extract
  <2>3. Clear(e, c)
    BY SMT, <1>1 DEF Clear, Extract
  <2>4. QED
    BY <2>1, <2>2, <2>3
<1>7. \A x, y \in {a, b, c} : x # y => Beside(x, y)
  BY DEF Beside
<1>8. a # b /\ a # c /\ b # c
  OBVIOUS
<1>o. \A x \in {a, b, c} : \A k \in K : Outside(k, x)
  BY DEF Outside
<1> HIDE DEF a, b, c
<1>9. IsFiniteSet(DOMAIN e.fields)
  <2>1. DOMAIN e.fields \in SUBSET {"Rt", "imm12", "add", "add", "add", "add"}
    BY <1>3
  <2>2. QED
    BY <2>1, FewAreFinite
<1>10. \A q \in DOMAIN e.fields :
           Exact(e.fields[q]) /\ \A x \in e.fields[q].pieces : Clear(e, x)
  BY <1>3, <1>p, <1>5, <1>6
<1>11. \A q, r \in DOMAIN e.fields : q # r =>
           \A x \in e.fields[q].pieces, y \in e.fields[r].pieces : Beside(x, y)
  BY <1>3, <1>p, <1>7, <1>8
<1>12. Sound(e)
  BY <1>2, <1>9, <1>10, <1>11, SoundOf
<1>13. \A q \in DOMAIN e.fields : \A x \in e.fields[q].pieces : \A k \in K : Outside(k, x)
  <2> HIDE DEF K
  <2>1. QED
    BY <1>3, <1>p, <1>o
<1>14. \A k \in K : Keeps(e, k)
  BY <1>w, <1>13, Zenon DEF Keeps
<1>15. QED
  BY <1>12, <1>14, Zenon DEF e, K

LEMMA LdrRT1Sound ==
    /\ Sound(ldr_r_t1)
    /\ \A k \in {<<1, 12, 4, 5>>, <<1, 11, 5, 11>>} : Keeps(ldr_r_t1, k)
<1> DEFINE e == ldr_r_t1
           a == <<0, 3, 6>>
           b == <<0, 3, 3>>
           c == <<0, 3, 0>>
           K == {<<1, 12, 4, 5>>, <<1, 11, 5, 11>>}
<1>1. e.base = <<\h5800>>
  BY DEF ldr_r_t1, Encoding
<1>2. Based(e)
  <2>1. \h5800 \in 0 .. Top
    BY SMT DEF Top
  <2>2. QED
    BY <1>1, <2>1, OneBased
<1>w. \A k \in K : Shows(e, k)
  <2> HIDE DEF e
  <2>1. Shows(e, <<1, 12, 4, 5>>)
    BY SMT, <1>1 DEF Shows, Extract
  <2>2. Shows(e, <<1, 11, 5, 11>>)
    BY SMT, <1>1 DEF Shows, Extract
  <2>3. QED
    BY Zenon, <2>1, <2>2 DEF K
<1>3. DOMAIN e.fields = {"Rm", "Rn", "Rt"}
  BY DEF ldr_r_t1, Encoding
<1>4. /\ e.fields["Rm"] = Bits(3, 6)
      /\ e.fields["Rn"] = Bits(3, 3)
      /\ e.fields["Rt"] = Bits(3, 0)
  BY DEF ldr_r_t1, Encoding
<1> HIDE DEF e
<1>p. /\ e.fields["Rm"].pieces = {a}
      /\ e.fields["Rn"].pieces = {b}
      /\ e.fields["Rt"].pieces = {c}
  BY <1>4, FieldPieces DEF a, b, c
<1>5. Exact(e.fields["Rm"]) /\ Exact(e.fields["Rn"]) /\ Exact(e.fields["Rt"])
  BY <1>4, AllBitsExact, Zenon
<1>6. \A x \in {a, b, c} : Clear(e, x)
  <2>1. Clear(e, a)
    BY SMT, <1>1 DEF Clear, Extract
  <2>2. Clear(e, b)
    BY SMT, <1>1 DEF Clear, Extract
  <2>3. Clear(e, c)
    BY SMT, <1>1 DEF Clear, Extract
  <2>4. QED
    BY <2>1, <2>2, <2>3
<1>7. \A x, y \in {a, b, c} : x # y => Beside(x, y)
  BY DEF Beside
<1>8. a # b /\ a # c /\ b # c
  OBVIOUS
<1>o. \A x \in {a, b, c} : \A k \in K : Outside(k, x)
  BY DEF Outside
<1> HIDE DEF a, b, c
<1>9. IsFiniteSet(DOMAIN e.fields)
  <2>1. DOMAIN e.fields \in SUBSET {"Rm", "Rn", "Rt", "Rt", "Rt", "Rt"}
    BY <1>3
  <2>2. QED
    BY <2>1, FewAreFinite
<1>10. \A q \in DOMAIN e.fields :
           Exact(e.fields[q]) /\ \A x \in e.fields[q].pieces : Clear(e, x)
  BY <1>3, <1>p, <1>5, <1>6
<1>11. \A q, r \in DOMAIN e.fields : q # r =>
           \A x \in e.fields[q].pieces, y \in e.fields[r].pieces : Beside(x, y)
  BY <1>3, <1>p, <1>7, <1>8
<1>12. Sound(e)
  BY <1>2, <1>9, <1>10, <1>11, SoundOf
<1>13. \A q \in DOMAIN e.fields : \A x \in e.fields[q].pieces : \A k \in K : Outside(k, x)
  <2> HIDE DEF K
  <2>1. QED
    BY <1>3, <1>p, <1>o
<1>14. \A k \in K : Keeps(e, k)
  BY <1>w, <1>13, Zenon DEF Keeps
<1>15. QED
  BY <1>12, <1>14, Zenon DEF e, K

LEMMA LdrRT2LslSound ==
    /\ Sound(ldr_r_t2_lsl)
    /\ \A k \in {<<1, 11, 5, 31>>, <<1, 8, 8, 248>>, <<1, 4, 3, 5>>, <<1, 7, 1, 0>>, <<2, 11, 1, 0>>} : Keeps(ldr_r_t2_lsl, k)
<1> DEFINE e == ldr_r_t2_lsl
           a == <<0, 4, 28>>
           b == <<0, 2, 20>>
           c == <<0, 4, 16>>
           d == <<0, 4, 0>>
           K == {<<1, 11, 5, 31>>, <<1, 8, 8, 248>>, <<1, 4, 3, 5>>, <<1, 7, 1, 0>>, <<2, 11, 1, 0>>}
<1>1. e.base = <<\hf850, \h0000>>
  BY DEF ldr_r_t2_lsl, Encoding
<1>2. Based(e)
  <2>1. \hf850 \in 0 .. Top /\ \h0000 \in 0 .. Top
    BY SMT DEF Top
  <2>2. QED
    BY <1>1, <2>1, TwoBased
<1>w. \A k \in K : Shows(e, k)
  <2> HIDE DEF e
  <2>1. Shows(e, <<1, 11, 5, 31>>)
    BY SMT, <1>1 DEF Shows, Extract
  <2>2. Shows(e, <<1, 8, 8, 248>>)
    BY SMT, <1>1 DEF Shows, Extract
  <2>3. Shows(e, <<1, 4, 3, 5>>)
    BY SMT, <1>1 DEF Shows, Extract
  <2>4. Shows(e, <<1, 7, 1, 0>>)
    BY SMT, <1>1 DEF Shows, Extract
  <2>5. Shows(e, <<2, 11, 1, 0>>)
    BY SMT, <1>1 DEF Shows, Extract
  <2>6. QED
    BY Zenon, <2>1, <2>2, <2>3, <2>4, <2>5 DEF K
<1>3. DOMAIN e.fields = {"Rt", "lsl_shift_imm2", "Rm", "Rn"}
  BY DEF ldr_r_t2_lsl, Encoding
<1>4. /\ e.fields["Rt"] = Bits(4, 28)
      /\ e.fields["lsl_shift_imm2"] = Bits(2, 20)
      /\ e.fields["Rm"] = Bits(4, 16)
      /\ e.fields["Rn"] = Bits(4, 0)
  BY DEF ldr_r_t2_lsl, Encoding
<1> HIDE DEF e
<1>p. /\ e.fields["Rt"].pieces = {a}
      /\ e.fields["lsl_shift_imm2"].pieces = {b}
      /\ e.fields["Rm"].pieces = {c}
      /\ e.fields["Rn"].pieces = {d}
  BY <1>4, FieldPieces DEF a, b, c, d
<1>5. Exact(e.fields["Rt"]) /\ Exact(e.fields["lsl_shift_imm2"]) /\
      Exact(e.fields["Rm"]) /\ Exact(e.fields["Rn"])
  BY <1>4, AllBitsExact, Zenon
<1>6. \A x \in {a, b, c, d} : Clear(e, x)
  <2>1. Clear(e, a)
    BY SMT, <1>1 DEF Clear, Extract
  <2>2. Clear(e, b)
    BY SMT, <1>1 DEF Clear, Extract
  <2>3. Clear(e, c)
    BY SMT, <1>1 DEF Clear, Extract
  <2>4. Clear(e, d)
    BY SMT, <1>1 DEF Clear, Extract
  <2>5. QED
    BY <2>1, <2>2, <2>3, <2>4
<1>7. \A x, y \in {a, b, c, d} : x # y => Beside(x, y)
  BY DEF Beside
<1>8. a # b /\ a # c /\ a # d /\ b # c /\ b # d /\ c # d
  OBVIOUS
<1>o. \A x \in {a, b, c, d} : \A k \in K : Outside(k, x)
  BY DEF Outside
<1> HIDE DEF a, b, c, d
<1>9. IsFiniteSet(DOMAIN e.fields)
  <2>1. DOMAIN e.fields \in SUBSET {"Rt", "lsl_shift_imm2", "Rm", "Rn", "Rn", "Rn"}
    BY <1>3
  <2>2. QED
    BY <2>1, FewAreFinite
<1>10. \A q \in DOMAIN e.fields :
           Exact(e.fields[q]) /\ \A x \in e.fields[q].pieces : Clear(e, x)
  BY <1>3, <1>p, <1>5, <1>6
<1>11. \A q, r \in DOMAIN e.fields : q # r =>
           \A x \in e.fields[q].pieces, y \in e.fields[r].pieces : Beside(x, y)
  BY <1>3, <1>p, <1>7, <1>8
<1>12. Sound(e)
  BY <1>2, <1>9, <1>10, <1>11, SoundOf
<1>13. \A q \in DOMAIN e.fields : \A x \in e.fields[q].pieces : \A k \in K : Outside(k, x)
  <2> HIDE DEF K
  <2>1. QED
    BY <1>3, <1>p, <1>o
<1>14. \A k \in K : Keeps(e, k)
  BY <1>w, <1>13, Zenon DEF Keeps
<1>15. QED
  BY <1>12, <1>14, Zenon DEF e, K

LEMMA NopT1Sound ==
    /\ Sound(nop_t1)
    /\ \A k \in {<<1, 12, 4, 11>>, <<1, 11, 5, 23>>, <<1, 9, 7, 95>>, <<1, 8, 8, 191>>} : Keeps(nop_t1, k)
<1> DEFINE e == nop_t1
           K == {<<1, 12, 4, 11>>, <<1, 11, 5, 23>>, <<1, 9, 7, 95>>, <<1, 8, 8, 191>>}
<1>1. e.base = <<\hbf00>>
  BY DEF nop_t1, Encoding
<1>2. Based(e)
  <2>1. \hbf00 \in 0 .. Top
    BY SMT DEF Top
  <2>2. QED
    BY <1>1, <2>1, OneBased
<1>w. \A k \in K : Shows(e, k)
  <2> HIDE DEF e
  <2>1. Shows(e, <<1, 12, 4, 11>>)
    BY SMT, <1>1 DEF Shows, Extract
  <2>2. Shows(e, <<1, 11, 5, 23>>)
    BY SMT, <1>1 DEF Shows, Extract
  <2>3. Shows(e, <<1, 9, 7, 95>>)
    BY SMT, <1>1 DEF Shows, Extract
  <2>4. Shows(e, <<1, 8, 8, 191>>)
    BY SMT, <1>1 DEF Shows, Extract
  <2>5. QED
    BY Zenon, <2>1, <2>2, <2>3, <2>4 DEF K
<1>3. DOMAIN e.fields = {}
  BY DEF nop_t1, Encoding
<1>4. QED
  <2>1. IsFiniteSet(DOMAIN e.fields)
    BY <1>3, FS_EmptySet
  <2> HIDE DEF e
  <2>2. Sound(e)
    BY <1>2, <1>3, <2>1, SoundOf, Zenon
  <2>3. \A k \in K : Keeps(e, k)
    BY <1>3, <1>w, Zenon DEF Keeps
  <2>4. QED
    BY <2>2, <2>3, Zenon DEF e, K

LEMMA NopT2Sound ==
    /\ Sound(nop_t2)
    /\ \A k \in {<<1, 11, 5, 30>>, <<2, 15, 1, 1>>, <<2, 12, 1, 0>>, <<1, 8, 8, 243>>, <<1, 4, 4, 10>>,
                         <<1, 0, 4, 15>>, <<2, 12, 4, 8>>, <<2, 0, 12, 0>>} : Keeps(nop_t2, k)
<1> DEFINE e == nop_t2
           K == {<<1, 11, 5, 30>>, <<2, 15, 1, 1>>, <<2, 12, 1, 0>>, <<1, 8, 8, 243>>, <<1, 4, 4, 10>>,
                         <<1, 0, 4, 15>>, <<2, 12, 4, 8>>, <<2, 0, 12, 0>>}
<1>1. e.base = <<\hf3af, \h8000>>
  BY DEF nop_t2, Encoding
<1>2. Based(e)
  <2>1. \hf3af \in 0 .. Top /\ \h8000 \in 0 .. Top
    BY SMT DEF Top
  <2>2. QED
    BY <1>1, <2>1, TwoBased
<1>w. \A k \in K : Shows(e, k)
  <2> HIDE DEF e
  <2>1. Shows(e, <<1, 11, 5, 30>>)
    BY SMT, <1>1 DEF Shows, Extract
  <2>2. Shows(e, <<2, 15, 1, 1>>)
    BY SMT, <1>1 DEF Shows, Extract
  <2>3. Shows(e, <<2, 12, 1, 0>>)
    BY SMT, <1>1 DEF Shows, Extract
  <2>4. Shows(e, <<1, 8, 8, 243>>)
    BY SMT, <1>1 DEF Shows, Extract
  <2>5. Shows(e, <<1, 4, 4, 10>>)
    BY SMT, <1>1 DEF Shows, Extract
  <2>6. Shows(e, <<1, 0, 4, 15>>)
    BY SMT, <1>1 DEF Shows, Extract
  <2>7. Shows(e, <<2, 12, 4, 8>>)
    BY SMT, <1>1 DEF Shows, Extract
  <2>8. Shows(e, <<2, 0, 12, 0>>)
    BY SMT, <1>1 DEF Shows, Extract
  <2>9. QED
    BY Zenon, <2>1, <2>2, <2>3, <2>4, <2>5, <2>6, <2>7, <2>8 DEF K
<1>3. DOMAIN e.fields = {}
  BY DEF nop_t2, Encoding
<1>4. QED
  <2>1. IsFiniteSet(DOMAIN e.fields)
    BY <1>3, FS_EmptySet
  <2> HIDE DEF e
  <2>2. Sound(e)
    BY <1>2, <1>3, <2>1, SoundOf, Zenon
  <2>3. \A k \in K : Keeps(e, k)
    BY <1>3, <1>w, Zenon DEF Keeps
  <2>4. QED
    BY <2>2, <2>3, Zenon DEF e, K

LEMMA MovsIT1Sound ==
    /\ Sound(movs_i_t1)
    /\ \A k \in {<<1, 12, 4, 2>>, <<1, 11, 5, 4>>} : Keeps(movs_i_t1, k)
<1> DEFINE e == movs_i_t1
           a == <<0, 3, 8>>
           b == <<0, 8, 0>>
           K == {<<1, 12, 4, 2>>, <<1, 11, 5, 4>>}
<1>1. e.base = <<\h2000>>
  BY DEF movs_i_t1, Encoding
<1>2. Based(e)
  <2>1. \h2000 \in 0 .. Top
    BY SMT DEF Top
  <2>2. QED
    BY <1>1, <2>1, OneBased
<1>w. \A k \in K : Shows(e, k)
  <2> HIDE DEF e
  <2>1. Shows(e, <<1, 12, 4, 2>>)
    BY SMT, <1>1 DEF Shows, Extract
  <2>2. Shows(e, <<1, 11, 5, 4>>)
    BY SMT, <1>1 DEF Shows, Extract
  <2>3. QED
    BY Zenon, <2>1, <2>2 DEF K
<1>3. DOMAIN e.fields = {"Rd", "imm8"}
  BY DEF movs_i_t1, Encoding
<1>4. /\ e.fields["Rd"] = Bits(3, 8)
      /\ e.fields["imm8"] = Bits(8, 0)
  BY DEF movs_i_t1, Encoding
<1> HIDE DEF e
<1>p. /\ e.fields["Rd"].pieces = {a}
      /\ e.fields["imm8"].pieces = {b}
  BY <1>4, FieldPieces DEF a, b
<1>5. Exact(e.fields["Rd"]) /\ Exact(e.fields["imm8"])
  BY <1>4, AllBitsExact, Zenon
<1>6. \A x \in {a, b} : Clear(e, x)
  <2>1. Clear(e, a)
    BY SMT, <1>1 DEF Clear, Extract
  <2>2. Clear(e, b)
    BY SMT, <1>1 DEF Clear, Extract
  <2>3. QED
    BY <2>1, <2>2
<1>7. \A x, y \in {a, b} : x # y => Beside(x, y)
  BY DEF Beside
<1>8. a # b
  OBVIOUS
<1>o. \A x \in {a, b} : \A k \in K : Outside(k, x)
  BY DEF Outside
<1> HIDE DEF a, b
<1>9. IsFiniteSet(DOMAIN e.fields)
  <2>1. DOMAIN e.fields \in SUBSET {"Rd", "imm8", "imm8", "imm8", "imm8", "imm8"}
    BY <1>3
  <2>2. QED
    BY <2>1, FewAreFinite
<1>10. \A q \in DOMAIN e.fields :
           Exact(e.fields[q]) /\ \A x \in e.fields[q].pieces : Clear(e, x)
  BY <1>3, <1>p, <1>5, <1>6
<1>11. \A q, r \in DOMAIN e.fields : q # r =>
           \A x \in e.fields[q].pieces, y \in e.fields[r].pieces : Beside(x, y)
  BY <1>3, <1>p, <1>7, <1>8
<1>12. Sound(e)
  BY <1>2, <1>9, <1>10, <1>11, SoundOf
<1>13. \A q \in DOMAIN e.fields : \A x \in e.fields[q].pieces : \A k \in K : Outside(k, x)
  <2> HIDE DEF K
  <2>1. QED
    BY <1>3, <1>p, <1>o
<1>14. \A k \in K : Keeps(e, k)
  BY <1>w, <1>13, Zenon DEF Keeps
<1>15. QED
  BY <1>12, <1>14, Zenon DEF e, K

LEMMA MovwIT3Sound ==
    /\ Sound(movw_i_t3)
    /\ \A k \in {<<1, 11, 5, 30>>, <<2, 15, 1, 0>>, <<1, 4, 6, 36>>} : Keeps(movw_i_t3, k)
<1> DEFINE e == movw_i_t3
           a == <<8, 3, 28>>
           b == <<0, 8, 16>>
           c == <<11, 1, 10>>
           d == <<12, 4, 0>>
           g == <<0, 4, 24>>
           K == {<<1, 11, 5, 30>>, <<2, 15, 1, 0>>, <<1, 4, 6, 36>>}
<1>1. e.base = <<\hf240, \h0000>>
  BY DEF movw_i_t3, Encoding
<1>2. Based(e)
  <2>1. \hf240 \in 0 .. Top /\ \h0000 \in 0 .. Top
    BY SMT DEF Top
  <2>2. QED
    BY <1>1, <2>1, TwoBased
<1>w. \A k \in K : Shows(e, k)
  <2> HIDE DEF e
  <2>1. Shows(e, <<1, 11, 5, 30>>)
    BY SMT, <1>1 DEF Shows, Extract
  <2>2. Shows(e, <<2, 15, 1, 0>>)
    BY SMT, <1>1 DEF Shows, Extract
  <2>3. Shows(e, <<1, 4, 6, 36>>)
    BY SMT, <1>1 DEF Shows, Extract
  <2>4. QED
    BY Zenon, <2>1, <2>2, <2>3 DEF K
<1>3. DOMAIN e.fields = {"imm16", "Rd"}
  BY DEF movw_i_t3, Encoding
<1>4. /\ e.fields["imm16"] = Split(16, {<<8, 3, 28>>, <<0, 8, 16>>, <<11, 1, 10>>, <<12, 4, 0>>})
      /\ e.fields["Rd"] = Bits(4, 24)
  BY DEF movw_i_t3, Encoding
<1> HIDE DEF e
<1>p. /\ e.fields["imm16"].pieces = {a, b, c, d}
      /\ e.fields["Rd"].pieces = {g}
  BY <1>4, FieldPieces DEF a, b, c, d, g
<1>5. Exact(e.fields["imm16"]) /\ Exact(e.fields["Rd"])
  BY <1>4, SplitSixteenExact, AllBitsExact, Zenon
<1>6. \A x \in {a, b, c, d, g} : Clear(e, x)
  <2>1. Clear(e, a)
    BY SMT, <1>1 DEF Clear, Extract
  <2>2. Clear(e, b)
    BY SMT, <1>1 DEF Clear, Extract
  <2>3. Clear(e, c)
    BY SMT, <1>1 DEF Clear, Extract
  <2>4. Clear(e, d)
    BY SMT, <1>1 DEF Clear, Extract
  <2>5. Clear(e, g)
    BY SMT, <1>1 DEF Clear, Extract
  <2>6. QED
    BY <2>1, <2>2, <2>3, <2>4, <2>5
<1>7. \A x, y \in {a, b, c, d, g} : x # y => Beside(x, y)
  BY DEF Beside
<1>8. a # g /\ b # g /\ c # g /\ d # g
  OBVIOUS
<1>o. \A x \in {a, b, c, d, g} : \A k \in K : Outside(k, x)
  BY DEF Outside
<1> HIDE DEF a, b, c, d, g
<1>9. IsFiniteSet(DOMAIN e.fields)
  <2>1. DOMAIN e.fields \in SUBSET {"imm16", "Rd", "Rd", "Rd", "Rd", "Rd"}
    BY <1>3
  <2>2. QED
    BY <2>1, FewAreFinite
<1>10. \A q \in DOMAIN e.fields :
           Exact(e.fields[q]) /\ \A x \in e.fields[q].pieces : Clear(e, x)
  BY <1>3, <1>p, <1>5, <1>6
<1>11. \A q, r \in DOMAIN e.fields : q # r =>
           \A x \in e.fields[q].pieces, y \in e.fields[r].pieces : Beside(x, y)
  BY <1>3, <1>p, <1>7, <1>8
<1>12. Sound(e)
  BY <1>2, <1>9, <1>10, <1>11, SoundOf
<1>13. \A q \in DOMAIN e.fields : \A x \in e.fields[q].pieces : \A k \in K : Outside(k, x)
  <2> HIDE DEF K
  <2>1. QED
    BY <1>3, <1>p, <1>o
<1>14. \A k \in K : Keeps(e, k)
  BY <1>w, <1>13, Zenon DEF Keeps
<1>15. QED
  BY <1>12, <1>14, Zenon DEF e, K

LEMMA MovRT1Sound ==
    /\ Sound(mov_r_t1)
    /\ \A k \in {<<1, 12, 4, 4>>, <<1, 11, 5, 8>>, <<1, 8, 8, 70>>} : Keeps(mov_r_t1, k)
<1> DEFINE e == mov_r_t1
           a == <<3, 1, 7>>
           b == <<0, 3, 0>>
           c == <<0, 4, 3>>
           K == {<<1, 12, 4, 4>>, <<1, 11, 5, 8>>, <<1, 8, 8, 70>>}
<1>1. e.base = <<\h4600>>
  BY DEF mov_r_t1, Encoding
<1>2. Based(e)
  <2>1. \h4600 \in 0 .. Top
    BY SMT DEF Top
  <2>2. QED
    BY <1>1, <2>1, OneBased
<1>w. \A k \in K : Shows(e, k)
  <2> HIDE DEF e
  <2>1. Shows(e, <<1, 12, 4, 4>>)
    BY SMT, <1>1 DEF Shows, Extract
  <2>2. Shows(e, <<1, 11, 5, 8>>)
    BY SMT, <1>1 DEF Shows, Extract
  <2>3. Shows(e, <<1, 8, 8, 70>>)
    BY SMT, <1>1 DEF Shows, Extract
  <2>4. QED
    BY Zenon, <2>1, <2>2, <2>3 DEF K
<1>3. DOMAIN e.fields = {"Rd", "Rm"}
  BY DEF mov_r_t1, Encoding
<1>4. /\ e.fields["Rd"] = Split(4, {<<3, 1, 7>>, <<0, 3, 0>>})
      /\ e.fields["Rm"] = Bits(4, 3)
  BY DEF mov_r_t1, Encoding
<1> HIDE DEF e
<1>p. /\ e.fields["Rd"].pieces = {a, b}
      /\ e.fields["Rm"].pieces = {c}
  BY <1>4, FieldPieces DEF a, b, c
<1>5. Exact(e.fields["Rd"]) /\ Exact(e.fields["Rm"])
  BY <1>4, SplitRegisterExact, AllBitsExact, Zenon
<1>6. \A x \in {a, b, c} : Clear(e, x)
  <2>1. Clear(e, a)
    BY SMT, <1>1 DEF Clear, Extract
  <2>2. Clear(e, b)
    BY SMT, <1>1 DEF Clear, Extract
  <2>3. Clear(e, c)
    BY SMT, <1>1 DEF Clear, Extract
  <2>4. QED
    BY <2>1, <2>2, <2>3
<1>7. \A x, y \in {a, b, c} : x # y => Beside(x, y)
  BY DEF Beside
<1>8. a # c /\ b # c
  OBVIOUS
<1>o. \A x \in {a, b, c} : \A k \in K : Outside(k, x)
  BY DEF Outside
<1> HIDE DEF a, b, c
<1>9. IsFiniteSet(DOMAIN e.fields)
  <2>1. DOMAIN e.fields \in SUBSET {"Rd", "Rm", "Rm", "Rm", "Rm", "Rm"}
    BY <1>3
  <2>2. QED
    BY <2>1, FewAreFinite
<1>10. \A q \in DOMAIN e.fields :
           Exact(e.fields[q]) /\ \A x \in e.fields[q].pieces : Clear(e, x)
  BY <1>3, <1>p, <1>5, <1>6
<1>11. \A q, r \in DOMAIN e.fields : q # r =>
           \A x \in e.fields[q].pieces, y \in e.fields[r].pieces : Beside(x, y)
  BY <1>3, <1>p, <1>7, <1>8
<1>12. Sound(e)
  BY <1>2, <1>9, <1>10, <1>11, SoundOf
<1>13. \A q \in DOMAIN e.fields : \A x \in e.fields[q].pieces : \A k \in K : Outside(k, x)
  <2> HIDE DEF K
  <2>1. QED
    BY <1>3, <1>p, <1>o
<1>14. \A k \in K : Keeps(e, k)
  BY <1>w, <1>13, Zenon DEF Keeps
<1>15. QED
  BY <1>12, <1>14, Zenon DEF e, K

LEMMA MovsRT2NoitSound ==
    /\ Sound(movs_r_t2_noit)
    /\ \A k \in {<<1, 12, 4, 0>>, <<1, 11, 5, 0>>} : Keeps(movs_r_t2_noit, k)
<1> DEFINE e == movs_r_t2_noit
           a == <<0, 3, 3>>
           b == <<0, 3, 0>>
           K == {<<1, 12, 4, 0>>, <<1, 11, 5, 0>>}
<1>1. e.base = <<\h0000>>
  BY DEF movs_r_t2_noit, Encoding
<1>2. Based(e)
  <2>1. \h0000 \in 0 .. Top
    BY SMT DEF Top
  <2>2. QED
    BY <1>1, <2>1, OneBased
<1>w. \A k \in K : Shows(e, k)
  <2> HIDE DEF e
  <2>1. Shows(e, <<1, 12, 4, 0>>)
    BY SMT, <1>1 DEF Shows, Extract
  <2>2. Shows(e, <<1, 11, 5, 0>>)
    BY SMT, <1>1 DEF Shows, Extract
  <2>3. QED
    BY Zenon, <2>1, <2>2 DEF K
<1>3. DOMAIN e.fields = {"Rm", "Rd"}
  BY DEF movs_r_t2_noit, Encoding
<1>4. /\ e.fields["Rm"] = Bits(3, 3)
      /\ e.fields["Rd"] = Bits(3, 0)
  BY DEF movs_r_t2_noit, Encoding
<1> HIDE DEF e
<1>p. /\ e.fields["Rm"].pieces = {a}
      /\ e.fields["Rd"].pieces = {b}
  BY <1>4, FieldPieces DEF a, b
<1>5. Exact(e.fields["Rm"]) /\ Exact(e.fields["Rd"])
  BY <1>4, AllBitsExact, Zenon
<1>6. \A x \in {a, b} : Clear(e, x)
  <2>1. Clear(e, a)
    BY SMT, <1>1 DEF Clear, Extract
  <2>2. Clear(e, b)
    BY SMT, <1>1 DEF Clear, Extract
  <2>3. QED
    BY <2>1, <2>2
<1>7. \A x, y \in {a, b} : x # y => Beside(x, y)
  BY DEF Beside
<1>8. a # b
  OBVIOUS
<1>o. \A x \in {a, b} : \A k \in K : Outside(k, x)
  BY DEF Outside
<1> HIDE DEF a, b
<1>9. IsFiniteSet(DOMAIN e.fields)
  <2>1. DOMAIN e.fields \in SUBSET {"Rm", "Rd", "Rd", "Rd", "Rd", "Rd"}
    BY <1>3
  <2>2. QED
    BY <2>1, FewAreFinite
<1>10. \A q \in DOMAIN e.fields :
           Exact(e.fields[q]) /\ \A x \in e.fields[q].pieces : Clear(e, x)
  BY <1>3, <1>p, <1>5, <1>6
<1>11. \A q, r \in DOMAIN e.fields : q # r =>
           \A x \in e.fields[q].pieces, y \in e.fields[r].pieces : Beside(x, y)
  BY <1>3, <1>p, <1>7, <1>8
<1>12. Sound(e)
  BY <1>2, <1>9, <1>10, <1>11, SoundOf
<1>13. \A q \in DOMAIN e.fields : \A x \in e.fields[q].pieces : \A k \in K : Outside(k, x)
  <2> HIDE DEF K
  <2>1. QED
    BY <1>3, <1>p, <1>o
<1>14. \A k \in K : Keeps(e, k)
  BY <1>w, <1>13, Zenon DEF Keeps
<1>15. QED
  BY <1>12, <1>14, Zenon DEF e, K

LEMMA MovRT3OptSSound ==
    /\ Sound(mov_r_t3_opt_s)
    /\ \A k \in {<<1, 11, 5, 29>>, <<1, 8, 8, 234>>} : Keeps(mov_r_t3_opt_s, k)
<1> DEFINE e == mov_r_t3_opt_s
           a == <<0, 4, 24>>
           b == <<0, 4, 16>>
           c == <<0, 1, 4>>
           K == {<<1, 11, 5, 29>>, <<1, 8, 8, 234>>}
<1>1. e.base = <<\hea4f, \h0000>>
  BY DEF mov_r_t3_opt_s, Encoding
<1>2. Based(e)
  <2>1. \hea4f \in 0 .. Top /\ \h0000 \in 0 .. Top
    BY SMT DEF Top
  <2>2. QED
    BY <1>1, <2>1, TwoBased
<1>w. \A k \in K : Shows(e, k)
  <2> HIDE DEF e
  <2>1. Shows(e, <<1, 11, 5, 29>>)
    BY SMT, <1>1 DEF Shows, Extract
  <2>2. Shows(e, <<1, 8, 8, 234>>)
    BY SMT, <1>1 DEF Shows, Extract
  <2>3. QED
    BY Zenon, <2>1, <2>2 DEF K
<1>3. DOMAIN e.fields = {"Rd", "Rm", "setflags"}
  BY DEF mov_r_t3_opt_s, Encoding
<1>4. /\ e.fields["Rd"] = Bits(4, 24)
      /\ e.fields["Rm"] = Bits(4, 16)
      /\ e.fields["setflags"] = Bits(1, 4)
  BY DEF mov_r_t3_opt_s, Encoding
<1> HIDE DEF e
<1>p. /\ e.fields["Rd"].pieces = {a}
      /\ e.fields["Rm"].pieces = {b}
      /\ e.fields["setflags"].pieces = {c}
  BY <1>4, FieldPieces DEF a, b, c
<1>5. Exact(e.fields["Rd"]) /\ Exact(e.fields["Rm"]) /\ Exact(e.fields["setflags"])
  BY <1>4, AllBitsExact, Zenon
<1>6. \A x \in {a, b, c} : Clear(e, x)
  <2>1. Clear(e, a)
    BY SMT, <1>1 DEF Clear, Extract
  <2>2. Clear(e, b)
    BY SMT, <1>1 DEF Clear, Extract
  <2>3. Clear(e, c)
    BY SMT, <1>1 DEF Clear, Extract
  <2>4. QED
    BY <2>1, <2>2, <2>3
<1>7. \A x, y \in {a, b, c} : x # y => Beside(x, y)
  BY DEF Beside
<1>8. a # b /\ a # c /\ b # c
  OBVIOUS
<1>o. \A x \in {a, b, c} : \A k \in K : Outside(k, x)
  BY DEF Outside
<1> HIDE DEF a, b, c
<1>9. IsFiniteSet(DOMAIN e.fields)
  <2>1. DOMAIN e.fields \in SUBSET {"Rd", "Rm", "setflags", "setflags", "setflags", "setflags"}
    BY <1>3
  <2>2. QED
    BY <2>1, FewAreFinite
<1>10. \A q \in DOMAIN e.fields :
           Exact(e.fields[q]) /\ \A x \in e.fields[q].pieces : Clear(e, x)
  BY <1>3, <1>p, <1>5, <1>6
<1>11. \A q, r \in DOMAIN e.fields : q # r =>
           \A x \in e.fields[q].pieces, y \in e.fields[r].pieces : Beside(x, y)
  BY <1>3, <1>p, <1>7, <1>8
<1>12. Sound(e)
  BY <1>2, <1>9, <1>10, <1>11, SoundOf
<1>13. \A q \in DOMAIN e.fields : \A x \in e.fields[q].pieces : \A k \in K : Outside(k, x)
  <2> HIDE DEF K
  <2>1. QED
    BY <1>3, <1>p, <1>o
<1>14. \A k \in K : Keeps(e, k)
  BY <1>w, <1>13, Zenon DEF Keeps
<1>15. QED
  BY <1>12, <1>14, Zenon DEF e, K

LEMMA PopT1Sound ==
    /\ Sound(pop_t1)
    /\ \A k \in {<<1, 12, 4, 11>>, <<1, 11, 5, 23>>, <<1, 9, 7, 94>>} : Keeps(pop_t1, k)
<1> DEFINE e == pop_t1
           a == <<0, 1, 8>>
           b == <<0, 8, 0>>
           K == {<<1, 12, 4, 11>>, <<1, 11, 5, 23>>, <<1, 9, 7, 94>>}
<1>1. e.base = <<\hbc00>>
  BY DEF pop_t1, Encoding
<1>2. Based(e)
  <2>1. \hbc00 \in 0 .. Top
    BY SMT DEF Top
  <2>2. QED
    BY <1>1, <2>1, OneBased
<1>w. \A k \in K : Shows(e, k)
  <2> HIDE DEF e
  <2>1. Shows(e, <<1, 12, 4, 11>>)
    BY SMT, <1>1 DEF Shows, Extract
  <2>2. Shows(e, <<1, 11, 5, 23>>)
    BY SMT, <1>1 DEF Shows, Extract
  <2>3. Shows(e, <<1, 9, 7, 94>>)
    BY SMT, <1>1 DEF Shows, Extract
  <2>4. QED
    BY Zenon, <2>1, <2>2, <2>3 DEF K
<1>3. DOMAIN e.fields = {"pc", "regs"}
  BY DEF pop_t1, Encoding
<1>4. /\ e.fields["pc"] = Bits(1, 8)
      /\ e.fields["regs"] = Bits(8, 0)
  BY DEF pop_t1, Encoding
<1> HIDE DEF e
<1>p. /\ e.fields["pc"].pieces = {a}
      /\ e.fields["regs"].pieces = {b}
  BY <1>4, FieldPieces DEF a, b
<1>5. Exact(e.fields["pc"]) /\ Exact(e.fields["regs"])
  BY <1>4, AllBitsExact, Zenon
<1>6. \A x \in {a, b} : Clear(e, x)
  <2>1. Clear(e, a)
    BY SMT, <1>1 DEF Clear, Extract
  <2>2. Clear(e, b)
    BY SMT, <1>1 DEF Clear, Extract
  <2>3. QED
    BY <2>1, <2>2
<1>7. \A x, y \in {a, b} : x # y => Beside(x, y)
  BY DEF Beside
<1>8. a # b
  OBVIOUS
<1>o. \A x \in {a, b} : \A k \in K : Outside(k, x)
  BY DEF Outside
<1> HIDE DEF a, b
<1>9. IsFiniteSet(DOMAIN e.fields)
  <2>1. DOMAIN e.fields \in SUBSET {"pc", "regs", "regs", "regs", "regs", "regs"}
    BY <1>3
  <2>2. QED
    BY <2>1, FewAreFinite
<1>10. \A q \in DOMAIN e.fields :
           Exact(e.fields[q]) /\ \A x \in e.fields[q].pieces : Clear(e, x)
  BY <1>3, <1>p, <1>5, <1>6
<1>11. \A q, r \in DOMAIN e.fields : q # r =>
           \A x \in e.fields[q].pieces, y \in e.fields[r].pieces : Beside(x, y)
  BY <1>3, <1>p, <1>7, <1>8
<1>12. Sound(e)
  BY <1>2, <1>9, <1>10, <1>11, SoundOf
<1>13. \A q \in DOMAIN e.fields : \A x \in e.fields[q].pieces : \A k \in K : Outside(k, x)
  <2> HIDE DEF K
  <2>1. QED
    BY <1>3, <1>p, <1>o
<1>14. \A k \in K : Keeps(e, k)
  BY <1>w, <1>13, Zenon DEF Keeps
<1>15. QED
  BY <1>12, <1>14, Zenon DEF e, K

LEMMA PopT2Sound ==
    /\ Sound(pop_t2)
    /\ \A k \in {<<1, 11, 5, 29>>, <<1, 8, 8, 232>>} : Keeps(pop_t2, k)
<1> DEFINE e == pop_t2
           a == <<0, 1, 31>>
           b == <<0, 1, 30>>
           c == <<0, 13, 16>>
           K == {<<1, 11, 5, 29>>, <<1, 8, 8, 232>>}
<1>1. e.base = <<\he8bd, \h0000>>
  BY DEF pop_t2, Encoding
<1>2. Based(e)
  <2>1. \he8bd \in 0 .. Top /\ \h0000 \in 0 .. Top
    BY SMT DEF Top
  <2>2. QED
    BY <1>1, <2>1, TwoBased
<1>w. \A k \in K : Shows(e, k)
  <2> HIDE DEF e
  <2>1. Shows(e, <<1, 11, 5, 29>>)
    BY SMT, <1>1 DEF Shows, Extract
  <2>2. Shows(e, <<1, 8, 8, 232>>)
    BY SMT, <1>1 DEF Shows, Extract
  <2>3. QED
    BY Zenon, <2>1, <2>2 DEF K
<1>3. DOMAIN e.fields = {"pc", "lr", "regs"}
  BY DEF pop_t2, Encoding
<1>4. /\ e.fields["pc"] = Bits(1, 31)
      /\ e.fields["lr"] = Bits(1, 30)
      /\ e.fields["regs"] = Bits(13, 16)
  BY DEF pop_t2, Encoding
<1> HIDE DEF e
<1>p. /\ e.fields["pc"].pieces = {a}
      /\ e.fields["lr"].pieces = {b}
      /\ e.fields["regs"].pieces = {c}
  BY <1>4, FieldPieces DEF a, b, c
<1>5. Exact(e.fields["pc"]) /\ Exact(e.fields["lr"]) /\ Exact(e.fields["regs"])
  BY <1>4, AllBitsExact, Zenon
<1>6. \A x \in {a, b, c} : Clear(e, x)
  <2>1. Clear(e, a)
    BY SMT, <1>1 DEF Clear, Extract
  <2>2. Clear(e, b)
    BY SMT, <1>1 DEF Clear, Extract
  <2>3. Clear(e, c)
    BY SMT, <1>1 DEF Clear, Extract
  <2>4. QED
    BY <2>1, <2>2, <2>3
<1>7. \A x, y \in {a, b, c} : x # y => Beside(x, y)
  BY DEF Beside
<1>8. a # b /\ a # c /\ b # c
  OBVIOUS
<1>o. \A x \in {a, b, c} : \A k \in K : Outside(k, x)
  BY DEF Outside
<1> HIDE DEF a, b, c
<1>9. IsFiniteSet(DOMAIN e.fields)
  <2>1. DOMAIN e.fields \in SUBSET {"pc", "lr", "regs", "regs", "regs", "regs"}
    BY <1>3
  <2>2. QED
    BY <2>1, FewAreFinite
<1>10. \A q \in DOMAIN e.fields :
           Exact(e.fields[q]) /\ \A x \in e.fields[q].pieces : Clear(e, x)
  BY <1>3, <1>p, <1>5, <1>6
<1>11. \A q, r \in DOMAIN e.fields : q # r =>
           \A x \in e.fields[q].pieces, y \in e.fields[r].pieces : Beside(x, y)
  BY <1>3, <1>p, <1>7, <1>8
<1>12. Sound(e)
  BY <1>2, <1>9, <1>10, <1>11, SoundOf
<1>13. \A q \in DOMAIN e.fields : \A x \in e.fields[q].pieces : \A k \in K : Outside(k, x)
  <2> HIDE DEF K
  <2>1. QED
    BY <1>3, <1>p, <1>o
<1>14. \A k \in K : Keeps(e, k)
  BY <1>w, <1>13, Zenon DEF Keeps
<1>15. QED
  BY <1>12, <1>14, Zenon DEF e, K

LEMMA PopT3Sound ==
    /\ Sound(pop_t3)
    /\ \A k \in {<<1, 11, 5, 31>>, <<1, 8, 8, 248>>, <<1, 4, 3, 5>>, <<1, 7, 1, 0>>, <<2, 11, 1, 1>>} : Keeps(pop_t3, k)
<1> DEFINE e == pop_t3
           a == <<0, 4, 28>>
           K == {<<1, 11, 5, 31>>, <<1, 8, 8, 248>>, <<1, 4, 3, 5>>, <<1, 7, 1, 0>>, <<2, 11, 1, 1>>}
<1>1. e.base = <<\hf85d, \h0b04>>
  BY DEF pop_t3, Encoding
<1>2. Based(e)
  <2>1. \hf85d \in 0 .. Top /\ \h0b04 \in 0 .. Top
    BY SMT DEF Top
  <2>2. QED
    BY <1>1, <2>1, TwoBased
<1>w. \A k \in K : Shows(e, k)
  <2> HIDE DEF e
  <2>1. Shows(e, <<1, 11, 5, 31>>)
    BY SMT, <1>1 DEF Shows, Extract
  <2>2. Shows(e, <<1, 8, 8, 248>>)
    BY SMT, <1>1 DEF Shows, Extract
  <2>3. Shows(e, <<1, 4, 3, 5>>)
    BY SMT, <1>1 DEF Shows, Extract
  <2>4. Shows(e, <<1, 7, 1, 0>>)
    BY SMT, <1>1 DEF Shows, Extract
  <2>5. Shows(e, <<2, 11, 1, 1>>)
    BY SMT, <1>1 DEF Shows, Extract
  <2>6. QED
    BY Zenon, <2>1, <2>2, <2>3, <2>4, <2>5 DEF K
<1>3. DOMAIN e.fields = {"Rt"}
  BY DEF pop_t3, Encoding
<1>4. /\ e.fields["Rt"] = Bits(4, 28)
  BY DEF pop_t3, Encoding
<1> HIDE DEF e
<1>p. /\ e.fields["Rt"].pieces = {a}
  BY <1>4, FieldPieces DEF a
<1>5. Exact(e.fields["Rt"])
  BY <1>4, AllBitsExact, Zenon
<1>6. \A x \in {a} : Clear(e, x)
  <2>1. Clear(e, a)
    BY SMT, <1>1 DEF Clear, Extract
  <2>2. QED
    BY <2>1
<1>7. \A x, y \in {a} : x # y => Beside(x, y)
  BY DEF Beside
<1>o. \A x \in {a} : \A k \in K : Outside(k, x)
  BY DEF Outside
<1> HIDE DEF a
<1>8. IsFiniteSet(DOMAIN e.fields)
  <2>1. DOMAIN e.fields \in SUBSET {"Rt", "Rt", "Rt", "Rt", "Rt", "Rt"}
    BY <1>3
  <2>2. QED
    BY <2>1, FewAreFinite
<1>9. \A q \in DOMAIN e.fields :
           Exact(e.fields[q]) /\ \A x \in e.fields[q].pieces : Clear(e, x)
  BY <1>3, <1>p, <1>5, <1>6
<1>10. \A q, r \in DOMAIN e.fields : q # r =>
           \A x \in e.fields[q].pieces, y \in e.fields[r].pieces : Beside(x, y)
  BY <1>3, <1>p, <1>7
<1>11. Sound(e)
  BY <1>2, <1>8, <1>9, <1>10, SoundOf
<1>12. \A q \in DOMAIN e.fields : \A x \in e.fields[q].pieces : \A k \in K : Outside(k, x)
  <2> HIDE DEF K
  <2>1. QED
    BY <1>3, <1>p, <1>o
<1>13. \A k \in K : Keeps(e, k)
  BY <1>w, <1>12, Zenon DEF Keeps
<1>14. QED
  BY <1>11, <1>13, Zenon DEF e, K

LEMMA PushT1Sound ==
    /\ Sound(push_t1)
    /\ \A k \in {<<1, 12, 4, 11>>, <<1, 11, 5, 22>>} : Keeps(push_t1, k)
<1> DEFINE e == push_t1
           a == <<0, 1, 8>>
           b == <<0, 8, 0>>
           K == {<<1, 12, 4, 11>>, <<1, 11, 5, 22>>}
<1>1. e.base = <<\hb400>>
  BY DEF push_t1, Encoding
<1>2. Based(e)
  <2>1. \hb400 \in 0 .. Top
    BY SMT DEF Top
  <2>2. QED
    BY <1>1, <2>1, OneBased
<1>w. \A k \in K : Shows(e, k)
  <2> HIDE DEF e
  <2>1. Shows(e, <<1, 12, 4, 11>>)
    BY SMT, <1>1 DEF Shows, Extract
  <2>2. Shows(e, <<1, 11, 5, 22>>)
    BY SMT, <1>1 DEF Shows, Extract
  <2>3. QED
    BY Zenon, <2>1, <2>2 DEF K
<1>3. DOMAIN e.fields = {"lr", "regs"}
  BY DEF push_t1, Encoding
<1>4. /\ e.fields["lr"] = Bits(1, 8)
      /\ e.fields["regs"] = Bits(8, 0)
  BY DEF push_t1, Encoding
<1> HIDE DEF e
<1>p. /\ e.fields["lr"].pieces = {a}
      /\ e.fields["regs"].pieces = {b}
  BY <1>4, FieldPieces DEF a, b
<1>5. Exact(e.fields["lr"]) /\ Exact(e.fields["regs"])
  BY <1>4, AllBitsExact, Zenon
<1>6. \A x \in {a, b} : Clear(e, x)
  <2>1. Clear(e, a)
    BY SMT, <1>1 DEF Clear, Extract
  <2>2. Clear(e, b)
    BY SMT, <1>1 DEF Clear, Extract
  <2>3. QED
    BY <2>1, <2>2
<1>7. \A x, y \in {a, b} : x # y => Beside(x, y)
  BY DEF Beside
<1>8. a # b
  OBVIOUS
<1>o. \A x \in {a, b} : \A k \in K : Outside(k, x)
  BY DEF Outside
<1> HIDE DEF a, b
<1>9. IsFiniteSet(DOMAIN e.fields)
  <2>1. DOMAIN e.fields \in SUBSET {"lr", "regs", "regs", "regs", "regs", "regs"}
    BY <1>3
  <2>2. QED
    BY <2>1, FewAreFinite
<1>10. \A q \in DOMAIN e.fields :
           Exact(e.fields[q]) /\ \A x \in e.fields[q].pieces : Clear(e, x)
  BY <1>3, <1>p, <1>5, <1>6
<1>11. \A q, r \in DOMAIN e.fields : q # r =>
           \A x \in e.fields[q].pieces, y \in e.fields[r].pieces : Beside(x, y)
  BY <1>3, <1>p, <1>7, <1>8
<1>12. Sound(e)
  BY <1>2, <1>9, <1>10, <1>11, SoundOf
<1>13. \A q \in DOMAIN e.fields : \A x \in e.fields[q].pieces : \A k \in K : Outside(k, x)
  <2> HIDE DEF K
  <2>1. QED
    BY <1>3, <1>p, <1>o
<1>14. \A k \in K : Keeps(e, k)
  BY <1>w, <1>13, Zenon DEF Keeps
<1>15. QED
  BY <1>12, <1>14, Zenon DEF e, K

LEMMA PushT2Sound ==
    /\ Sound(push_t2)
    /\ \A k \in {<<1, 11, 5, 29>>, <<1, 8, 8, 233>>} : Keeps(push_t2, k)
<1> DEFINE e == push_t2
           a == <<0, 1, 30>>
           b == <<0, 13, 16>>
           K == {<<1, 11, 5, 29>>, <<1, 8, 8, 233>>}
<1>1. e.base = <<\he92d, \h0000>>
  BY DEF push_t2, Encoding
<1>2. Based(e)
  <2>1. \he92d \in 0 .. Top /\ \h0000 \in 0 .. Top
    BY SMT DEF Top
  <2>2. QED
    BY <1>1, <2>1, TwoBased
<1>w. \A k \in K : Shows(e, k)
  <2> HIDE DEF e
  <2>1. Shows(e, <<1, 11, 5, 29>>)
    BY SMT, <1>1 DEF Shows, Extract
  <2>2. Shows(e, <<1, 8, 8, 233>>)
    BY SMT, <1>1 DEF Shows, Extract
  <2>3. QED
    BY Zenon, <2>1, <2>2 DEF K
<1>3. DOMAIN e.fields = {"lr", "regs"}
  BY DEF push_t2, Encoding
<1>4. /\ e.fields["lr"] = Bits(1, 30)
      /\ e.fields["regs"] = Bits(13, 16)
  BY DEF push_t2, Encoding
<1> HIDE DEF e
<1>p. /\ e.fields["lr"].pieces = {a}
      /\ e.fields["regs"].pieces = {b}
  BY <1>4, FieldPieces DEF a, b
<1>5. Exact(e.fields["lr"]) /\ Exact(e.fields["regs"])
  BY <1>4, AllBitsExact, Zenon
<1>6. \A x \in {a, b} : Clear(e, x)
  <2>1. Clear(e, a)
    BY SMT, <1>1 DEF Clear, Extract
  <2>2. Clear(e, b)
    BY SMT, <1>1 DEF Clear, Extract
  <2>3. QED
    BY <2>1, <2>2
<1>7. \A x, y \in {a, b} : x # y => Beside(x, y)
  BY DEF Beside
<1>8. a # b
  OBVIOUS
<1>o. \A x \in {a, b} : \A k \in K : Outside(k, x)
  BY DEF Outside
<1> HIDE DEF a, b
<1>9. IsFiniteSet(DOMAIN e.fields)
  <2>1. DOMAIN e.fields \in SUBSET {"lr", "regs", "regs", "regs", "regs", "regs"}
    BY <1>3
  <2>2. QED
    BY <2>1, FewAreFinite
<1>10. \A q \in DOMAIN e.fields :
           Exact(e.fields[q]) /\ \A x \in e.fields[q].pieces : Clear(e, x)
  BY <1>3, <1>p, <1>5, <1>6
<1>11. \A q, r \in DOMAIN e.fields : q # r =>
           \A x \in e.fields[q].pieces, y \in e.fields[r].pieces : Beside(x, y)
  BY <1>3, <1>p, <1>7, <1>8
<1>12. Sound(e)
  BY <1>2, <1>9, <1>10, <1>11, SoundOf
<1>13. \A q \in DOMAIN e.fields : \A x \in e.fields[q].pieces : \A k \in K : Outside(k, x)
  <2> HIDE DEF K
  <2>1. QED
    BY <1>3, <1>p, <1>o
<1>14. \A k \in K : Keeps(e, k)
  BY <1>w, <1>13, Zenon DEF Keeps
<1>15. QED
  BY <1>12, <1>14, Zenon DEF e, K

LEMMA PushT3Sound ==
    /\ Sound(push_t3)
    /\ \A k \in {<<1, 11, 5, 31>>, <<1, 8, 8, 248>>, <<1, 4, 3, 4>>} : Keeps(push_t3, k)
<1> DEFINE e == push_t3
           a == <<0, 4, 28>>
           K == {<<1, 11, 5, 31>>, <<1, 8, 8, 248>>, <<1, 4, 3, 4>>}
<1>1. e.base = <<\hf84d, \h0d04>>
  BY DEF push_t3, Encoding
<1>2. Based(e)
  <2>1. \hf84d \in 0 .. Top /\ \h0d04 \in 0 .. Top
    BY SMT DEF Top
  <2>2. QED
    BY <1>1, <2>1, TwoBased
<1>w. \A k \in K : Shows(e, k)
  <2> HIDE DEF e
  <2>1. Shows(e, <<1, 11, 5, 31>>)
    BY SMT, <1>1 DEF Shows, Extract
  <2>2. Shows(e, <<1, 8, 8, 248>>)
    BY SMT, <1>1 DEF Shows, Extract
  <2>3. Shows(e, <<1, 4, 3, 4>>)
    BY SMT, <1>1 DEF Shows, Extract
  <2>4. QED
    BY Zenon, <2>1, <2>2, <2>3 DEF K
<1>3. DOMAIN e.fields = {"Rt"}
  BY DEF push_t3, Encoding
<1>4. /\ e.fields["Rt"] = Bits(4, 28)
  BY DEF push_t3, Encoding
<1> HIDE DEF e
<1>p. /\ e.fields["Rt"].pieces = {a}
  BY <1>4, FieldPieces DEF a
<1>5. Exact(e.fields["Rt"])
  BY <1>4, AllBitsExact, Zenon
<1>6. \A x \in {a} : Clear(e, x)
  <2>1. Clear(e, a)
    BY SMT, <1>1 DEF Clear, Extract
  <2>2. QED
    BY <2>1
<1>7. \A x, y \in {a} : x # y => Beside(x, y)
  BY DEF Beside
<1>o. \A x \in {a} : \A k \in K : Outside(k, x)
  BY DEF Outside
<1> HIDE DEF a
<1>8. IsFiniteSet(DOMAIN e.fields)
  <2>1. DOMAIN e.fields \in SUBSET {"Rt", "Rt", "Rt", "Rt", "Rt", "Rt"}
    BY <1>3
  <2>2. QED
    BY <2>1, FewAreFinite
<1>9. \A q \in DOMAIN e.fields :
           Exact(e.fields[q]) /\ \A x \in e.fields[q].pieces : Clear(e, x)
  BY <1>3, <1>p, <1>5, <1>6
<1>10. \A q, r \in DOMAIN e.fields : q # r =>
           \A x \in e.fields[q].pieces, y \in e.fields[r].pieces : Beside(x, y)
  BY <1>3, <1>p, <1>7
<1>11. Sound(e)
  BY <1>2, <1>8, <1>9, <1>10, SoundOf
<1>12. \A q \in DOMAIN e.fields : \A x \in e.fields[q].pieces : \A k \in K : Outside(k, x)
  <2> HIDE DEF K
  <2>1. QED
    BY <1>3, <1>p, <1>o
<1>13. \A k \in K : Keeps(e, k)
  BY <1>w, <1>12, Zenon DEF Keeps
<1>14. QED
  BY <1>11, <1>13, Zenon DEF e, K

LEMMA SubsIT1Sound ==
    /\ Sound(subs_i_t1)
    /\ \A k \in {<<1, 12, 4, 1>>, <<1, 11, 5, 3>>, <<1, 9, 7, 15>>} : Keeps(subs_i_t1, k)
<1> DEFINE e == subs_i_t1
           a == <<0, 3, 6>>
           b == <<0, 3, 3>>
           c == <<0, 3, 0>>
           K == {<<1, 12, 4, 1>>, <<1, 11, 5, 3>>, <<1, 9, 7, 15>>}
<1>1. e.base = <<\h1e00>>
  BY DEF subs_i_t1, Encoding
<1>2. Based(e)
  <2>1. \h1e00 \in 0 .. Top
    BY SMT DEF Top
  <2>2. QED
    BY <1>1, <2>1, OneBased
<1>w. \A k \in K : Shows(e, k)
  <2> HIDE DEF e
  <2>1. Shows(e, <<1, 12, 4, 1>>)
    BY SMT, <1>1 DEF Shows, Extract
  <2>2. Shows(e, <<1, 11, 5, 3>>)
    BY SMT, <1>1 DEF Shows, Extract
  <2>3. Shows(e, <<1, 9, 7, 15>>)
    BY SMT, <1>1 DEF Shows, Extract
  <2>4. QED
    BY Zenon, <2>1, <2>2, <2>3 DEF K
<1>3. DOMAIN e.fields = {"imm3", "Rn", "Rd"}
  BY DEF subs_i_t1, Encoding
<1>4. /\ e.fields["imm3"] = Bits(3, 6)
      /\ e.fields["Rn"] = Bits(3, 3)
      /\ e.fields["Rd"] = Bits(3, 0)
  BY DEF subs_i_t1, Encoding
<1> HIDE DEF e
<1>p. /\ e.fields["imm3"].pieces = {a}
      /\ e.fields["Rn"].pieces = {b}
      /\ e.fields["Rd"].pieces = {c}
  BY <1>4, FieldPieces DEF a, b, c
<1>5. Exact(e.fields["imm3"]) /\ Exact(e.fields["Rn"]) /\ Exact(e.fields["Rd"])
  BY <1>4, AllBitsExact, Zenon
<1>6. \A x \in {a, b, c} : Clear(e, x)
  <2>1. Clear(e, a)
    BY SMT, <1>1 DEF Clear, Extract
  <2>2. Clear(e, b)
    BY SMT, <1>1 DEF Clear, Extract
  <2>3. Clear(e, c)
    BY SMT, <1>1 DEF Clear, Extract
  <2>4. QED
    BY <2>1, <2>2, <2>3
<1>7. \A x, y \in {a, b, c} : x # y => Beside(x, y)
  BY DEF Beside
<1>8. a # b /\ a # c /\ b # c
  OBVIOUS
<1>o. \A x \in {a, b, c} : \A k \in K : Outside(k, x)
  BY DEF Outside
<1> HIDE DEF a, b, c
<1>9. IsFiniteSet(DOMAIN e.fields)
  <2>1. DOMAIN e.fields \in SUBSET {"imm3", "Rn", "Rd", "Rd", "Rd", "Rd"}
    BY <1>3
  <2>2. QED
    BY <2>1, FewAreFinite
<1>10. \A q \in DOMAIN e.fields :
           Exact(e.fields[q]) /\ \A x \in e.fields[q].pieces : Clear(e, x)
  BY <1>3, <1>p, <1>5, <1>6
<1>11. \A q, r \in DOMAIN e.fields : q # r =>
           \A x \in e.fields[q].pieces, y \in e.fields[r].pieces : Beside(x, y)
  BY <1>3, <1>p, <1>7, <1>8
<1>12. Sound(e)
  BY <1>2, <1>9, <1>10, <1>11, SoundOf
<1>13. \A q \in DOMAIN e.fields : \A x \in e.fields[q].pieces : \A k \in K : Outside(k, x)
  <2> HIDE DEF K
  <2>1. QED
    BY <1>3, <1>p, <1>o
<1>14. \A k \in K : Keeps(e, k)
  BY <1>w, <1>13, Zenon DEF Keeps
<1>15. QED
  BY <1>12, <1>14, Zenon DEF e, K

LEMMA SubsIT2Sound ==
    /\ Sound(subs_i_t2)
    /\ \A k \in {<<1, 12, 4, 3>>, <<1, 11, 5, 7>>} : Keeps(subs_i_t2, k)
<1> DEFINE e == subs_i_t2
           a == <<0, 3, 8>>
           b == <<0, 8, 0>>
           K == {<<1, 12, 4, 3>>, <<1, 11, 5, 7>>}
<1>1. e.base = <<\h3800>>
  BY DEF subs_i_t2, Encoding
<1>2. Based(e)
  <2>1. \h3800 \in 0 .. Top
    BY SMT DEF Top
  <2>2. QED
    BY <1>1, <2>1, OneBased
<1>w. \A k \in K : Shows(e, k)
  <2> HIDE DEF e
  <2>1. Shows(e, <<1, 12, 4, 3>>)
    BY SMT, <1>1 DEF Shows, Extract
  <2>2. Shows(e, <<1, 11, 5, 7>>)
    BY SMT, <1>1 DEF Shows, Extract
  <2>3. QED
    BY Zenon, <2>1, <2>2 DEF K
<1>3. DOMAIN e.fields = {"Rdn", "imm8"}
  BY DEF subs_i_t2, Encoding
<1>4. /\ e.fields["Rdn"] = Bits(3, 8)
      /\ e.fields["imm8"] = Bits(8, 0)
  BY DEF subs_i_t2, Encoding
<1> HIDE DEF e
<1>p. /\ e.fields["Rdn"].pieces = {a}
      /\ e.fields["imm8"].pieces = {b}
  BY <1>4, FieldPieces DEF a, b
<1>5. Exact(e.fields["Rdn"]) /\ Exact(e.fields["imm8"])
  BY <1>4, AllBitsExact, Zenon
<1>6. \A x \in {a, b} : Clear(e, x)
  <2>1. Clear(e, a)
    BY SMT, <1>1 DEF Clear, Extract
  <2>2. Clear(e, b)
    BY SMT, <1>1 DEF Clear, Extract
  <2>3. QED
    BY <2>1, <2>2
<1>7. \A x, y \in {a, b} : x # y => Beside(x, y)
  BY DEF Beside
<1>8. a # b
  OBVIOUS
<1>o. \A x \in {a, b} : \A k \in K : Outside(k, x)
  BY DEF Outside
<1> HIDE DEF a, b
<1>9. IsFiniteSet(DOMAIN e.fields)
  <2>1. DOMAIN e.fields \in SUBSET {"Rdn", "imm8", "imm8", "imm8", "imm8", "imm8"}
    BY <1>3
  <2>2. QED
    BY <2>1, FewAreFinite
<1>10. \A q \in DOMAIN e.fields :
           Exact(e.fields[q]) /\ \A x \in e.fields[q].pieces : Clear(e, x)
  BY <1>3, <1>p, <1>5, <1>6
<1>11. \A q, r \in DOMAIN e.fields : q # r =>
           \A x \in e.fields[q].pieces, y \in e.fields[r].pieces : Beside(x, y)
  BY <1>3, <1>p, <1>7, <1>8
<1>12. Sound(e)
  BY <1>2, <1>9, <1>10, <1>11, SoundOf
<1>13. \A q \in DOMAIN e.fields : \A x \in e.fields[q].pieces : \A k \in K : Outside(k, x)
  <2> HIDE DEF K
  <2>1. QED
    BY <1>3, <1>p, <1>o
<1>14. \A k \in K : Keeps(e, k)
  BY <1>w, <1>13, Zenon DEF Keeps
<1>15. QED
  BY <1>12, <1>14, Zenon DEF e, K

LEMMA SubwIT4Sound ==
    /\ Sound(subw_i_t4)
    /\ \A k \in {<<1, 11, 5, 30>>, <<2, 15, 1, 0>>, <<1, 4, 6, 42>>} : Keeps(subw_i_t4, k)
<1> DEFINE e == subw_i_t4
           a == <<8, 3, 28>>
           b == <<0, 8, 16>>
           c == <<11, 1, 10>>
           d == <<0, 4, 24>>
           g == <<0, 4, 0>>
           K == {<<1, 11, 5, 30>>, <<2, 15, 1, 0>>, <<1, 4, 6, 42>>}
<1>1. e.base = <<\hf2a0, \h0000>>
  BY DEF subw_i_t4, Encoding
<1>2. Based(e)
  <2>1. \hf2a0 \in 0 .. Top /\ \h0000 \in 0 .. Top
    BY SMT DEF Top
  <2>2. QED
    BY <1>1, <2>1, TwoBased
<1>w. \A k \in K : Shows(e, k)
  <2> HIDE DEF e
  <2>1. Shows(e, <<1, 11, 5, 30>>)
    BY SMT, <1>1 DEF Shows, Extract
  <2>2. Shows(e, <<2, 15, 1, 0>>)
    BY SMT, <1>1 DEF Shows, Extract
  <2>3. Shows(e, <<1, 4, 6, 42>>)
    BY SMT, <1>1 DEF Shows, Extract
  <2>4. QED
    BY Zenon, <2>1, <2>2, <2>3 DEF K
<1>3. DOMAIN e.fields = {"imm12", "Rd", "Rn"}
  BY DEF subw_i_t4, Encoding
<1>4. /\ e.fields["imm12"] = Split(12, {<<8, 3, 28>>, <<0, 8, 16>>, <<11, 1, 10>>})
      /\ e.fields["Rd"] = Bits(4, 24)
      /\ e.fields["Rn"] = Bits(4, 0)
  BY DEF subw_i_t4, Encoding
<1> HIDE DEF e
<1>p. /\ e.fields["imm12"].pieces = {a, b, c}
      /\ e.fields["Rd"].pieces = {d}
      /\ e.fields["Rn"].pieces = {g}
  BY <1>4, FieldPieces DEF a, b, c, d, g
<1>5. Exact(e.fields["imm12"]) /\ Exact(e.fields["Rd"]) /\ Exact(e.fields["Rn"])
  BY <1>4, SplitTwelveExact, AllBitsExact, Zenon
<1>6. \A x \in {a, b, c, d, g} : Clear(e, x)
  <2>1. Clear(e, a)
    BY SMT, <1>1 DEF Clear, Extract
  <2>2. Clear(e, b)
    BY SMT, <1>1 DEF Clear, Extract
  <2>3. Clear(e, c)
    BY SMT, <1>1 DEF Clear, Extract
  <2>4. Clear(e, d)
    BY SMT, <1>1 DEF Clear, Extract
  <2>5. Clear(e, g)
    BY SMT, <1>1 DEF Clear, Extract
  <2>6. QED
    BY <2>1, <2>2, <2>3, <2>4, <2>5
<1>7. \A x, y \in {a, b, c, d, g} : x # y => Beside(x, y)
  BY DEF Beside
<1>8. a # d /\ b # d /\ c # d /\ a # g /\ b # g /\ c # g /\ d # g
  OBVIOUS
<1>o. \A x \in {a, b, c, d, g} : \A k \in K : Outside(k, x)
  BY DEF Outside
<1> HIDE DEF a, b, c, d, g
<1>9. IsFiniteSet(DOMAIN e.fields)
  <2>1. DOMAIN e.fields \in SUBSET {"imm12", "Rd", "Rn", "Rn", "Rn", "Rn"}
    BY <1>3
  <2>2. QED
    BY <2>1, FewAreFinite
<1>10. \A q \in DOMAIN e.fields :
           Exact(e.fields[q]) /\ \A x \in e.fields[q].pieces : Clear(e, x)
  BY <1>3, <1>p, <1>5, <1>6
<1>11. \A q, r \in DOMAIN e.fields : q # r =>
           \A x \in e.fields[q].pieces, y \in e.fields[r].pieces : Beside(x, y)
  BY <1>3, <1>p, <1>7, <1>8
<1>12. Sound(e)
  BY <1>2, <1>9, <1>10, <1>11, SoundOf
<1>13. \A q \in DOMAIN e.fields : \A x \in e.fields[q].pieces : \A k \in K : Outside(k, x)
  <2> HIDE DEF K
  <2>1. QED
    BY <1>3, <1>p, <1>o
<1>14. \A k \in K : Keeps(e, k)
  BY <1>w, <1>13, Zenon DEF Keeps
<1>15. QED
  BY <1>12, <1>14, Zenon DEF e, K

LEMMA SubsRT1Sound ==
    /\ Sound(subs_r_t1)
    /\ \A k \in {<<1, 12, 4, 1>>, <<1, 11, 5, 3>>, <<1, 9, 7, 13>>} : Keeps(subs_r_t1, k)
<1> DEFINE e == subs_r_t1
           a == <<0, 3, 6>>
           b == <<0, 3, 3>>
           c == <<0, 3, 0>>
           K == {<<1, 12, 4, 1>>, <<1, 11, 5, 3>>, <<1, 9, 7, 13>>}
<1>1. e.base = <<\h1a00>>
  BY DEF subs_r_t1, Encoding
<1>2. Based(e)
  <2>1. \h1a00 \in 0 .. Top
    BY SMT DEF Top
  <2>2. QED
    BY <1>1, <2>1, OneBased
<1>w. \A k \in K : Shows(e, k)
  <2> HIDE DEF e
  <2>1. Shows(e, <<1, 12, 4, 1>>)
    BY SMT, <1>1 DEF Shows, Extract
  <2>2. Shows(e, <<1, 11, 5, 3>>)
    BY SMT, <1>1 DEF Shows, Extract
  <2>3. Shows(e, <<1, 9, 7, 13>>)
    BY SMT, <1>1 DEF Shows, Extract
  <2>4. QED
    BY Zenon, <2>1, <2>2, <2>3 DEF K
<1>3. DOMAIN e.fields = {"Rm", "Rn", "Rd"}
  BY DEF subs_r_t1, Encoding
<1>4. /\ e.fields["Rm"] = Bits(3, 6)
      /\ e.fields["Rn"] = Bits(3, 3)
      /\ e.fields["Rd"] = Bits(3, 0)
  BY DEF subs_r_t1, Encoding
<1> HIDE DEF e
<1>p. /\ e.fields["Rm"].pieces = {a}
      /\ e.fields["Rn"].pieces = {b}
      /\ e.fields["Rd"].pieces = {c}
  BY <1>4, FieldPieces DEF a, b, c
<1>5. Exact(e.fields["Rm"]) /\ Exact(e.fields["Rn"]) /\ Exact(e.fields["Rd"])
  BY <1>4, AllBitsExact, Zenon
<1>6. \A x \in {a, b, c} : Clear(e, x)
  <2>1. Clear(e, a)
    BY SMT, <1>1 DEF Clear, Extract
  <2>2. Clear(e, b)
    BY SMT, <1>1 DEF Clear, Extract
  <2>3. Clear(e, c)
    BY SMT, <1>1 DEF Clear, Extract
  <2>4. QED
    BY <2>1, <2>2, <2>3
<1>7. \A x, y \in {a, b, c} : x # y => Beside(x, y)
  BY DEF Beside
<1>8. a # b /\ a # c /\ b # c
  OBVIOUS
<1>o. \A x \in {a, b, c} : \A k \in K : Outside(k, x)
  BY DEF Outside
<1> HIDE DEF a, b, c
<1>9. IsFiniteSet(DOMAIN e.fields)
  <2>1. DOMAIN e.fields \in SUBSET {"Rm", "Rn", "Rd", "Rd", "Rd", "Rd"}
    BY <1>3
  <2>2. QED
    BY <2>1, FewAreFinite
<1>10. \A q \in DOMAIN e.fields :
           Exact(e.fields[q]) /\ \A x \in e.fields[q].pieces : Clear(e, x)
  BY <1>3, <1>p, <1>5, <1>6
<1>11. \A q, r \in DOMAIN e.fields : q # r =>
           \A x \in e.fields[q].pieces, y \in e.fields[r].pieces : Beside(x, y)
  BY <1>3, <1>p, <1>7, <1>8
<1>12. Sound(e)
  BY <1>2, <1>9, <1>10, <1>11, SoundOf
<1>13. \A q \in DOMAIN e.fields : \A x \in e.fields[q].pieces : \A k \in K : Outside(k, x)
  <2> HIDE DEF K
  <2>1. QED
    BY <1>3, <1>p, <1>o
<1>14. \A k \in K : Keeps(e, k)
  BY <1>w, <1>13, Zenon DEF Keeps
<1>15. QED
  BY <1>12, <1>14, Zenon DEF e, K

LEMMA SvcT1Sound ==
    /\ Sound(svc_t1)
    /\ \A k \in {<<1, 12, 4, 13>>, <<1, 11, 5, 27>>, <<1, 8, 8, 223>>} : Keeps(svc_t1, k)
<1> DEFINE e == svc_t1
           a == <<0, 8, 0>>
           K == {<<1, 12, 4, 13>>, <<1, 11, 5, 27>>, <<1, 8, 8, 223>>}
<1>1. e.base = <<\hdf00>>
  BY DEF svc_t1, Encoding
<1>2. Based(e)
  <2>1. \hdf00 \in 0 .. Top
    BY SMT DEF Top
  <2>2. QED
    BY <1>1, <2>1, OneBased
<1>w. \A k \in K : Shows(e, k)
  <2> HIDE DEF e
  <2>1. Shows(e, <<1, 12, 4, 13>>)
    BY SMT, <1>1 DEF Shows, Extract
  <2>2. Shows(e, <<1, 11, 5, 27>>)
    BY SMT, <1>1 DEF Shows, Extract
  <2>3. Shows(e, <<1, 8, 8, 223>>)
    BY SMT, <1>1 DEF Shows, Extract
  <2>4. QED
    BY Zenon, <2>1, <2>2, <2>3 DEF K
<1>3. DOMAIN e.fields = {"imm8"}
  BY DEF svc_t1, Encoding
<1>4. /\ e.fields["imm8"] = Bits(8, 0)
  BY DEF svc_t1, Encoding
<1> HIDE DEF e
<1>p. /\ e.fields["imm8"].pieces = {a}
  BY <1>4, FieldPieces DEF a
<1>5. Exact(e.fields["imm8"])
  BY <1>4, AllBitsExact, Zenon
<1>6. \A x \in {a} : Clear(e, x)
  <2>1. Clear(e, a)
    BY SMT, <1>1 DEF Clear, Extract
  <2>2. QED
    BY <2>1
<1>7. \A x, y \in {a} : x # y => Beside(x, y)
  BY DEF Beside
<1>o. \A x \in {a} : \A k \in K : Outside(k, x)
  BY DEF Outside
<1> HIDE DEF a
<1>8. IsFiniteSet(DOMAIN e.fields)
  <2>1. DOMAIN e.fields \in SUBSET {"imm8", "imm8", "imm8", "imm8", "imm8", "imm8"}
    BY <1>3
  <2>2. QED
    BY <2>1, FewAreFinite
<1>9. \A q \in DOMAIN e.fields :
           Exact(e.fields[q]) /\ \A x \in e.fields[q].pieces : Clear(e, x)
  BY <1>3, <1>p, <1>5, <1>6
<1>10. \A q, r \in DOMAIN e.fields : q # r =>
           \A x \in e.fields[q].pieces, y \in e.fields[r].pieces : Beside(x, y)
  BY <1>3, <1>p, <1>7
<1>11. Sound(e)
  BY <1>2, <1>8, <1>9, <1>10, SoundOf
<1>12. \A q \in DOMAIN e.fields : \A x \in e.fields[q].pieces : \A k \in K : Outside(k, x)
  <2> HIDE DEF K
  <2>1. QED
    BY <1>3, <1>p, <1>o
<1>13. \A k \in K : Keeps(e, k)
  BY <1>w, <1>12, Zenon DEF Keeps
<1>14. QED
  BY <1>11, <1>13, Zenon DEF e, K

LEMMA UdfT1Sound ==
    /\ Sound(udf_t1)
    /\ \A k \in {<<1, 12, 4, 13>>, <<1, 11, 5, 27>>, <<1, 8, 8, 222>>} : Keeps(udf_t1, k)
<1> DEFINE e == udf_t1
           a == <<0, 8, 0>>
           K == {<<1, 12, 4, 13>>, <<1, 11, 5, 27>>, <<1, 8, 8, 222>>}
<1>1. e.base = <<\hde00>>
  BY DEF udf_t1, Encoding
<1>2. Based(e)
  <2>1. \hde00 \in 0 .. Top
    BY SMT DEF Top
  <2>2. QED
    BY <1>1, <2>1, OneBased
<1>w. \A k \in K : Shows(e, k)
  <2> HIDE DEF e
  <2>1. Shows(e, <<1, 12, 4, 13>>)
    BY SMT, <1>1 DEF Shows, Extract
  <2>2. Shows(e, <<1, 11, 5, 27>>)
    BY SMT, <1>1 DEF Shows, Extract
  <2>3. Shows(e, <<1, 8, 8, 222>>)
    BY SMT, <1>1 DEF Shows, Extract
  <2>4. QED
    BY Zenon, <2>1, <2>2, <2>3 DEF K
<1>3. DOMAIN e.fields = {"imm8"}
  BY DEF udf_t1, Encoding
<1>4. /\ e.fields["imm8"] = Bits(8, 0)
  BY DEF udf_t1, Encoding
<1> HIDE DEF e
<1>p. /\ e.fields["imm8"].pieces = {a}
  BY <1>4, FieldPieces DEF a
<1>5. Exact(e.fields["imm8"])
  BY <1>4, AllBitsExact, Zenon
<1>6. \A x \in {a} : Clear(e, x)
  <2>1. Clear(e, a)
    BY SMT, <1>1 DEF Clear, Extract
  <2>2. QED
    BY <2>1
<1>7. \A x, y \in {a} : x # y => Beside(x, y)
  BY DEF Beside
<1>o. \A x \in {a} : \A k \in K : Outside(k, x)
  BY DEF Outside
<1> HIDE DEF a
<1>8. IsFiniteSet(DOMAIN e.fields)
  <2>1. DOMAIN e.fields \in SUBSET {"imm8", "imm8", "imm8", "imm8", "imm8", "imm8"}
    BY <1>3
  <2>2. QED
    BY <2>1, FewAreFinite
<1>9. \A q \in DOMAIN e.fields :
           Exact(e.fields[q]) /\ \A x \in e.fields[q].pieces : Clear(e, x)
  BY <1>3, <1>p, <1>5, <1>6
<1>10. \A q, r \in DOMAIN e.fields : q # r =>
           \A x \in e.fields[q].pieces, y \in e.fields[r].pieces : Beside(x, y)
  BY <1>3, <1>p, <1>7
<1>11. Sound(e)
  BY <1>2, <1>8, <1>9, <1>10, SoundOf
<1>12. \A q \in DOMAIN e.fields : \A x \in e.fields[q].pieces : \A k \in K : Outside(k, x)
  <2> HIDE DEF K
  <2>1. QED
    BY <1>3, <1>p, <1>o
<1>13. \A k \in K : Keeps(e, k)
  BY <1>w, <1>12, Zenon DEF Keeps
<1>14. QED
  BY <1>11, <1>13, Zenon DEF e, K

LEMMA UdfT2Sound ==
    /\ Sound(udf_t2)
    /\ \A k \in {<<1, 11, 5, 30>>, <<2, 15, 1, 1>>, <<2, 12, 1, 0>>, <<1, 8, 8, 247>>, <<1, 4, 4, 15>>,
                         <<2, 12, 4, 10>>} : Keeps(udf_t2, k)
<1> DEFINE e == udf_t2
           a == <<0, 12, 16>>
           b == <<12, 4, 0>>
           K == {<<1, 11, 5, 30>>, <<2, 15, 1, 1>>, <<2, 12, 1, 0>>, <<1, 8, 8, 247>>, <<1, 4, 4, 15>>,
                         <<2, 12, 4, 10>>}
<1>1. e.base = <<\hf7f0, \ha000>>
  BY DEF udf_t2, Encoding
<1>2. Based(e)
  <2>1. \hf7f0 \in 0 .. Top /\ \ha000 \in 0 .. Top
    BY SMT DEF Top
  <2>2. QED
    BY <1>1, <2>1, TwoBased
<1>w. \A k \in K : Shows(e, k)
  <2> HIDE DEF e
  <2>1. Shows(e, <<1, 11, 5, 30>>)
    BY SMT, <1>1 DEF Shows, Extract
  <2>2. Shows(e, <<2, 15, 1, 1>>)
    BY SMT, <1>1 DEF Shows, Extract
  <2>3. Shows(e, <<2, 12, 1, 0>>)
    BY SMT, <1>1 DEF Shows, Extract
  <2>4. Shows(e, <<1, 8, 8, 247>>)
    BY SMT, <1>1 DEF Shows, Extract
  <2>5. Shows(e, <<1, 4, 4, 15>>)
    BY SMT, <1>1 DEF Shows, Extract
  <2>6. Shows(e, <<2, 12, 4, 10>>)
    BY SMT, <1>1 DEF Shows, Extract
  <2>7. QED
    BY Zenon, <2>1, <2>2, <2>3, <2>4, <2>5, <2>6 DEF K
<1>3. DOMAIN e.fields = {"imm16"}
  BY DEF udf_t2, Encoding
<1>4. /\ e.fields["imm16"] = Split(16, {<<0, 12, 16>>, <<12, 4, 0>>})
  BY DEF udf_t2, Encoding
<1> HIDE DEF e
<1>p. /\ e.fields["imm16"].pieces = {a, b}
  BY <1>4, FieldPieces DEF a, b
<1>5. Exact(e.fields["imm16"])
  BY <1>4, SplitUdfExact, Zenon
<1>6. \A x \in {a, b} : Clear(e, x)
  <2>1. Clear(e, a)
    BY SMT, <1>1 DEF Clear, Extract
  <2>2. Clear(e, b)
    BY SMT, <1>1 DEF Clear, Extract
  <2>3. QED
    BY <2>1, <2>2
<1>7. \A x, y \in {a, b} : x # y => Beside(x, y)
  BY DEF Beside
<1>o. \A x \in {a, b} : \A k \in K : Outside(k, x)
  BY DEF Outside
<1> HIDE DEF a, b
<1>8. IsFiniteSet(DOMAIN e.fields)
  <2>1. DOMAIN e.fields \in SUBSET {"imm16", "imm16", "imm16", "imm16", "imm16", "imm16"}
    BY <1>3
  <2>2. QED
    BY <2>1, FewAreFinite
<1>9. \A q \in DOMAIN e.fields :
           Exact(e.fields[q]) /\ \A x \in e.fields[q].pieces : Clear(e, x)
  BY <1>3, <1>p, <1>5, <1>6
<1>10. \A q, r \in DOMAIN e.fields : q # r =>
           \A x \in e.fields[q].pieces, y \in e.fields[r].pieces : Beside(x, y)
  BY <1>3, <1>p, <1>7
<1>11. Sound(e)
  BY <1>2, <1>8, <1>9, <1>10, SoundOf
<1>12. \A q \in DOMAIN e.fields : \A x \in e.fields[q].pieces : \A k \in K : Outside(k, x)
  <2> HIDE DEF K
  <2>1. QED
    BY <1>3, <1>p, <1>o
<1>13. \A k \in K : Keeps(e, k)
  BY <1>w, <1>12, Zenon DEF Keeps
<1>14. QED
  BY <1>11, <1>13, Zenon DEF e, K

-----------------------------------------------------------------------------
(***************************************************************************)
(* What the three operations of each encoding are to each other            *)
(***************************************************************************)
\* All of them
Encodings ==
    {adds_i_t1, adds_i_t2, addw_i_t4, adds_r_t1, add_r_t2, b_cond_t1_noit, b_t2,
     b_cond_t3_noit, b_t4, bkpt_t1, bl_t1, blx_t1, bx_t1, cmp_i_t1, cmp_r_t1, cmp_r_t2,
     ldr_i_t1, ldr_i_t2_sponly, ldr_i_t3, ldr_i_t4, ldr_lit_t1, ldr_lit_t2, ldr_r_t1,
     ldr_r_t2_lsl, nop_t1, nop_t2, movs_i_t1, movw_i_t3, mov_r_t1, movs_r_t2_noit,
     mov_r_t3_opt_s, pop_t1, pop_t2, pop_t3, push_t1, push_t2, push_t3, subs_i_t1,
     subs_i_t2, subw_i_t4, subs_r_t1, svc_t1, udf_t1, udf_t2}

LEMMA EncodingsSound == \A e \in Encodings : Sound(e)
<1>1. Sound(adds_i_t1) /\ Sound(adds_i_t2) /\ Sound(addw_i_t4) /\ Sound(adds_r_t1) /\
      Sound(add_r_t2) /\ Sound(b_cond_t1_noit) /\ Sound(b_t2) /\ Sound(b_cond_t3_noit) /\
      Sound(b_t4) /\ Sound(bkpt_t1) /\ Sound(bl_t1)
  BY Zenon, AddsIT1Sound, AddsIT2Sound, AddwIT4Sound, AddsRT1Sound, AddRT2Sound, BCondT1NoitSound,
     BT2Sound, BCondT3NoitSound, BT4Sound, BkptT1Sound, BlT1Sound
<1>2. Sound(blx_t1) /\ Sound(bx_t1) /\ Sound(cmp_i_t1) /\ Sound(cmp_r_t1) /\ Sound(cmp_r_t2) /\
      Sound(ldr_i_t1) /\ Sound(ldr_i_t2_sponly) /\ Sound(ldr_i_t3) /\ Sound(ldr_i_t4) /\
      Sound(ldr_lit_t1) /\ Sound(ldr_lit_t2)
  BY Zenon, BlxT1Sound, BxT1Sound, CmpIT1Sound, CmpRT1Sound, CmpRT2Sound, LdrIT1Sound,
     LdrIT2SponlySound, LdrIT3Sound, LdrIT4Sound, LdrLitT1Sound, LdrLitT2Sound
<1>3. Sound(ldr_r_t1) /\ Sound(ldr_r_t2_lsl) /\ Sound(nop_t1) /\ Sound(nop_t2) /\ Sound(movs_i_t1) /\
      Sound(movw_i_t3) /\ Sound(mov_r_t1) /\ Sound(movs_r_t2_noit) /\ Sound(mov_r_t3_opt_s) /\
      Sound(pop_t1) /\ Sound(pop_t2)
  BY Zenon, LdrRT1Sound, LdrRT2LslSound, NopT1Sound, NopT2Sound, MovsIT1Sound, MovwIT3Sound,
     MovRT1Sound, MovsRT2NoitSound, MovRT3OptSSound, PopT1Sound, PopT2Sound
<1>4. Sound(pop_t3) /\ Sound(push_t1) /\ Sound(push_t2) /\ Sound(push_t3) /\ Sound(subs_i_t1) /\
      Sound(subs_i_t2) /\ Sound(subw_i_t4) /\ Sound(subs_r_t1) /\ Sound(svc_t1) /\ Sound(udf_t1) /\
      Sound(udf_t2)
  BY Zenon, PopT3Sound, PushT1Sound, PushT2Sound, PushT3Sound, SubsIT1Sound, SubsIT2Sound,
     SubwIT4Sound, SubsRT1Sound, SvcT1Sound, UdfT1Sound, UdfT2Sound
<1>5. QED
  BY <1>1, <1>2, <1>3, <1>4, Zenon DEF Encodings

\* What an encoder lets through, its matcher knows and its decoder gives back: as it
\* is, when the field holds it, and otherwise the number with the same stored bits
\* (encode_<e>, match_<e> and decode_<e> of t32_encoding.c agree).
THEOREM DecodeGivesBack ==
    ASSUME NEW e \in Encodings, NEW parts, IntegerParts(e, parts), Encode(e, parts) # <<>>
    PROVE  /\ Match(e, Encode(e, parts))
           /\ Decode(e, Encode(e, parts)) = [q \in DOMAIN e.fields |-> Wrap(e.fields[q], parts[q])]
           /\ \A q \in DOMAIN e.fields :
                  Holds(e.fields[q], parts[q]) => Wrap(e.fields[q], parts[q]) = parts[q]
<1>1. Sound(e)
  BY EncodingsSound, Zenon
<1>2. /\ Match(e, Encode(e, parts))
      /\ Decode(e, Encode(e, parts)) = Wrapped(e, parts)
  BY <1>1, EncodedMatches, Zenon
<1>3. \A q \in DOMAIN e.fields : Ordered(e.fields[q])
  BY <1>1, Zenon DEF Sound, Exact
<1>4. \A q \in DOMAIN e.fields :
          Holds(e.fields[q], parts[q]) => Wrap(e.fields[q], parts[q]) = parts[q]
  BY <1>3, HoldsWraps, Zenon
<1>5. QED
  BY <1>2, <1>4, Zenon DEF Wrapped

\* The words that a matcher knows are those that the encoder makes of what the
\* decoder finds in them: no bit of an instruction is lost between the two, and what
\* is found is what the encoder's fields hold.
THEOREM EncodeGivesBack ==
    ASSUME NEW e \in Encodings, NEW ins, Halves(ins), Match(e, ins)
    PROVE  /\ \A q \in DOMAIN e.fields : Holds(e.fields[q], Decode(e, ins)[q])
           /\ Encode(e, Decode(e, ins)) = ins
<1>1. Sound(e)
  BY EncodingsSound, Zenon
<1>2. QED
  BY <1>1, DecodedEncodes, Zenon DEF Held

-----------------------------------------------------------------------------
(***************************************************************************)
(* Which encoding an instruction is of: some of its bits tell              *)
(***************************************************************************)
\* What a matching instruction has in a window
LEMMA Window ==
    ASSUME NEW e, Sound(e), NEW ins, Halves(ins), Match(e, ins),
           NEW h, NEW at, NEW width, NEW c, Keeps(e, <<h, at, width, c>>)
    PROVE  Extract(ins[h], at, width) = c
<1> DEFINE k == <<h, at, width, c>>
           p == Decode(e, ins)
<1>1. IntegerParts(e, p) /\ Word(e, p) = ins
  BY DecodedEncodes
<1> HIDE DEF p
<1>2. k[1] = h /\ k[2] = at /\ k[3] = width /\ k[4] = c
  OBVIOUS
<1> HIDE DEF k
<1>3. Keeps(e, k)
  BY DEF k
<1>4. Extract(Stored(e, p, k[1]), k[2], k[3]) = k[4]
  BY <1>1, <1>3, StoredKeeps
<1>5. h \in DOMAIN e.base
  BY <1>2, <1>3, Zenon DEF Keeps, Shows
<1>6. ins[h] = Stored(e, p, h)
  BY <1>1, <1>5 DEF Word
<1>7. QED
  BY <1>2, <1>4, <1>6

NarrowEncodingSet ==
    {adds_i_t1, adds_i_t2, adds_r_t1, add_r_t2, b_cond_t1_noit, b_t2, bkpt_t1, blx_t1,
     bx_t1, cmp_i_t1, cmp_r_t1, cmp_r_t2, ldr_i_t1, ldr_i_t2_sponly, ldr_lit_t1, ldr_r_t1,
     nop_t1, movs_i_t1, mov_r_t1, movs_r_t2_noit, pop_t1, push_t1, subs_i_t1, subs_i_t2,
     subs_r_t1, svc_t1, udf_t1}

WideEncodingSet ==
    {addw_i_t4, b_cond_t3_noit, b_t4, bl_t1, ldr_i_t3, ldr_i_t4, ldr_lit_t2, ldr_r_t2_lsl,
     nop_t2, movw_i_t3, mov_r_t3_opt_s, pop_t2, pop_t3, push_t2, push_t3, subw_i_t4, udf_t2}

\* The narrow encoding that x can be of
NarrowAt(x) ==
    IF Extract(x, 12, 4) = 13
    THEN CASE Extract(x, 8, 8) = 222 -> udf_t1
           [] Extract(x, 8, 8) = 223 -> svc_t1
           [] OTHER -> b_cond_t1_noit
    ELSE CASE Extract(x, 11, 5) = 0 -> movs_r_t2_noit
           [] Extract(x, 11, 5) = 3 ->
                CASE Extract(x, 9, 7) = 12 -> adds_r_t1
                  [] Extract(x, 9, 7) = 13 -> subs_r_t1
                  [] Extract(x, 9, 7) = 14 -> adds_i_t1
                  [] OTHER -> subs_i_t1
           [] Extract(x, 11, 5) = 4 -> movs_i_t1
           [] Extract(x, 11, 5) = 5 -> cmp_i_t1
           [] Extract(x, 11, 5) = 6 -> adds_i_t2
           [] Extract(x, 11, 5) = 7 -> subs_i_t2
           [] Extract(x, 11, 5) = 8 ->
                CASE Extract(x, 8, 8) = 66 -> cmp_r_t1
                  [] Extract(x, 8, 8) = 68 -> add_r_t2
                  [] Extract(x, 8, 8) = 69 -> cmp_r_t2
                  [] Extract(x, 8, 8) = 70 -> mov_r_t1
                  [] OTHER -> IF Extract(x, 7, 9) = 142 THEN bx_t1 ELSE blx_t1
           [] Extract(x, 11, 5) = 9 -> ldr_lit_t1
           [] Extract(x, 11, 5) = 11 -> ldr_r_t1
           [] Extract(x, 11, 5) = 13 -> ldr_i_t1
           [] Extract(x, 11, 5) = 19 -> ldr_i_t2_sponly
           [] Extract(x, 11, 5) = 22 -> push_t1
           [] Extract(x, 11, 5) = 23 ->
                CASE Extract(x, 9, 7) = 94 -> pop_t1
                  [] OTHER -> IF Extract(x, 8, 8) = 190 THEN bkpt_t1 ELSE nop_t1
           [] OTHER -> b_t2

\* The wide encoding that x and y can be of, for the ones that thumb_disassemble()
\* tries first where two share words
IsUdf(x, y) == Extract(x, 8, 8) = 247 /\ Extract(x, 4, 4) = 15 /\ Extract(y, 12, 4) = 10

IsNop(x, y) ==
    /\ Extract(x, 8, 8) = 243 /\ Extract(x, 4, 4) = 10 /\ Extract(x, 0, 4) = 15
    /\ Extract(y, 12, 4) = 8 /\ Extract(y, 0, 12) = 0

WideAt(x, y) ==
    CASE Extract(x, 11, 5) = 30 /\ Extract(y, 15, 1) = 0 ->
            CASE Extract(x, 4, 6) = 36 -> movw_i_t3
              [] Extract(x, 4, 6) = 32 -> addw_i_t4
              [] OTHER -> subw_i_t4
      [] Extract(x, 11, 5) = 30 /\ Extract(y, 15, 1) = 1 ->
            IF Extract(y, 12, 1) = 1
            THEN IF Extract(y, 14, 2) = 3 THEN bl_t1 ELSE b_t4
            ELSE IF IsUdf(x, y) THEN udf_t2
            ELSE IF IsNop(x, y) THEN nop_t2
            ELSE b_cond_t3_noit
      [] Extract(x, 11, 5) = 29 ->
            CASE Extract(x, 8, 8) = 232 -> pop_t2
              [] Extract(x, 8, 8) = 233 -> push_t2
              [] OTHER -> mov_r_t3_opt_s
      [] OTHER ->
            IF Extract(x, 4, 3) = 4 THEN push_t3
            ELSE IF Extract(x, 7, 1) = 1 THEN ldr_i_t3
            ELSE IF Extract(y, 11, 1) = 1 THEN ldr_i_t4
            ELSE IF Extract(x, 0, 4) = 15 THEN ldr_lit_t2
            ELSE ldr_r_t2_lsl

LEMMA NarrowMatches ==
    ASSUME NEW ins, Halves(ins), NEW e \in NarrowEncodingSet, Match(e, ins)
    PROVE  \/ e = NarrowAt(ins[1])
           \/ e = b_cond_t1_noit /\ NarrowAt(ins[1]) \in {udf_t1, svc_t1}
<1> DEFINE x == ins[1]
           Known(z) == \/ z = NarrowAt(x)
                       \/ z = b_cond_t1_noit /\ NarrowAt(x) \in {udf_t1, svc_t1}
<1>1. ASSUME Match(adds_i_t1, ins)
      PROVE  Known(adds_i_t1)
  <2>1. Sound(adds_i_t1)
    BY AddsIT1Sound
  <2>2. /\ Keeps(adds_i_t1, <<1, 12, 4, 1>>)
        /\ Keeps(adds_i_t1, <<1, 11, 5, 3>>)
        /\ Keeps(adds_i_t1, <<1, 9, 7, 14>>)
    BY AddsIT1Sound
  <2>3. /\ Extract(x, 12, 4) = 1
        /\ Extract(x, 11, 5) = 3
        /\ Extract(x, 9, 7) = 14
    BY <1>1, <2>1, <2>2, Window
  <2>4. QED
    BY <2>3 DEF NarrowAt
<1>2. ASSUME Match(adds_i_t2, ins)
      PROVE  Known(adds_i_t2)
  <2>1. Sound(adds_i_t2)
    BY AddsIT2Sound
  <2>2. /\ Keeps(adds_i_t2, <<1, 12, 4, 3>>)
        /\ Keeps(adds_i_t2, <<1, 11, 5, 6>>)
    BY AddsIT2Sound
  <2>3. /\ Extract(x, 12, 4) = 3
        /\ Extract(x, 11, 5) = 6
    BY <1>2, <2>1, <2>2, Window
  <2>4. QED
    BY <2>3 DEF NarrowAt
<1>3. ASSUME Match(adds_r_t1, ins)
      PROVE  Known(adds_r_t1)
  <2>1. Sound(adds_r_t1)
    BY AddsRT1Sound
  <2>2. /\ Keeps(adds_r_t1, <<1, 12, 4, 1>>)
        /\ Keeps(adds_r_t1, <<1, 11, 5, 3>>)
        /\ Keeps(adds_r_t1, <<1, 9, 7, 12>>)
    BY AddsRT1Sound
  <2>3. /\ Extract(x, 12, 4) = 1
        /\ Extract(x, 11, 5) = 3
        /\ Extract(x, 9, 7) = 12
    BY <1>3, <2>1, <2>2, Window
  <2>4. QED
    BY <2>3 DEF NarrowAt
<1>4. ASSUME Match(add_r_t2, ins)
      PROVE  Known(add_r_t2)
  <2>1. Sound(add_r_t2)
    BY AddRT2Sound
  <2>2. /\ Keeps(add_r_t2, <<1, 12, 4, 4>>)
        /\ Keeps(add_r_t2, <<1, 11, 5, 8>>)
        /\ Keeps(add_r_t2, <<1, 8, 8, 68>>)
    BY AddRT2Sound
  <2>3. /\ Extract(x, 12, 4) = 4
        /\ Extract(x, 11, 5) = 8
        /\ Extract(x, 8, 8) = 68
    BY <1>4, <2>1, <2>2, Window
  <2>4. QED
    BY <2>3 DEF NarrowAt
<1>5. ASSUME Match(b_cond_t1_noit, ins)
      PROVE  Known(b_cond_t1_noit)
  <2>1. Sound(b_cond_t1_noit)
    BY BCondT1NoitSound
  <2>2. /\ Keeps(b_cond_t1_noit, <<1, 12, 4, 13>>)
    BY BCondT1NoitSound
  <2>3. /\ Extract(x, 12, 4) = 13
    BY <1>5, <2>1, <2>2, Window
  <2>4. QED
    BY <2>3 DEF NarrowAt
<1>6. ASSUME Match(b_t2, ins)
      PROVE  Known(b_t2)
  <2>1. Sound(b_t2)
    BY BT2Sound
  <2>2. /\ Keeps(b_t2, <<1, 12, 4, 14>>)
        /\ Keeps(b_t2, <<1, 11, 5, 28>>)
    BY BT2Sound
  <2>3. /\ Extract(x, 12, 4) = 14
        /\ Extract(x, 11, 5) = 28
    BY <1>6, <2>1, <2>2, Window
  <2>4. QED
    BY <2>3 DEF NarrowAt
<1>7. ASSUME Match(bkpt_t1, ins)
      PROVE  Known(bkpt_t1)
  <2>1. Sound(bkpt_t1)
    BY BkptT1Sound
  <2>2. /\ Keeps(bkpt_t1, <<1, 12, 4, 11>>)
        /\ Keeps(bkpt_t1, <<1, 11, 5, 23>>)
        /\ Keeps(bkpt_t1, <<1, 9, 7, 95>>)
        /\ Keeps(bkpt_t1, <<1, 8, 8, 190>>)
    BY BkptT1Sound
  <2>3. /\ Extract(x, 12, 4) = 11
        /\ Extract(x, 11, 5) = 23
        /\ Extract(x, 9, 7) = 95
        /\ Extract(x, 8, 8) = 190
    BY <1>7, <2>1, <2>2, Window
  <2>4. QED
    BY <2>3 DEF NarrowAt
<1>8. ASSUME Match(blx_t1, ins)
      PROVE  Known(blx_t1)
  <2>1. Sound(blx_t1)
    BY BlxT1Sound
  <2>2. /\ Keeps(blx_t1, <<1, 12, 4, 4>>)
        /\ Keeps(blx_t1, <<1, 11, 5, 8>>)
        /\ Keeps(blx_t1, <<1, 8, 8, 71>>)
        /\ Keeps(blx_t1, <<1, 7, 9, 143>>)
    BY BlxT1Sound
  <2>3. /\ Extract(x, 12, 4) = 4
        /\ Extract(x, 11, 5) = 8
        /\ Extract(x, 8, 8) = 71
        /\ Extract(x, 7, 9) = 143
    BY <1>8, <2>1, <2>2, Window
  <2>4. QED
    BY <2>3 DEF NarrowAt
<1>9. ASSUME Match(bx_t1, ins)
      PROVE  Known(bx_t1)
  <2>1. Sound(bx_t1)
    BY BxT1Sound
  <2>2. /\ Keeps(bx_t1, <<1, 12, 4, 4>>)
        /\ Keeps(bx_t1, <<1, 11, 5, 8>>)
        /\ Keeps(bx_t1, <<1, 8, 8, 71>>)
        /\ Keeps(bx_t1, <<1, 7, 9, 142>>)
    BY BxT1Sound
  <2>3. /\ Extract(x, 12, 4) = 4
        /\ Extract(x, 11, 5) = 8
        /\ Extract(x, 8, 8) = 71
        /\ Extract(x, 7, 9) = 142
    BY <1>9, <2>1, <2>2, Window
  <2>4. QED
    BY <2>3 DEF NarrowAt
<1>10. ASSUME Match(cmp_i_t1, ins)
      PROVE  Known(cmp_i_t1)
  <2>1. Sound(cmp_i_t1)
    BY CmpIT1Sound
  <2>2. /\ Keeps(cmp_i_t1, <<1, 12, 4, 2>>)
        /\ Keeps(cmp_i_t1, <<1, 11, 5, 5>>)
    BY CmpIT1Sound
  <2>3. /\ Extract(x, 12, 4) = 2
        /\ Extract(x, 11, 5) = 5
    BY <1>10, <2>1, <2>2, Window
  <2>4. QED
    BY <2>3 DEF NarrowAt
<1>11. ASSUME Match(cmp_r_t1, ins)
      PROVE  Known(cmp_r_t1)
  <2>1. Sound(cmp_r_t1)
    BY CmpRT1Sound
  <2>2. /\ Keeps(cmp_r_t1, <<1, 12, 4, 4>>)
        /\ Keeps(cmp_r_t1, <<1, 11, 5, 8>>)
        /\ Keeps(cmp_r_t1, <<1, 8, 8, 66>>)
    BY CmpRT1Sound
  <2>3. /\ Extract(x, 12, 4) = 4
        /\ Extract(x, 11, 5) = 8
        /\ Extract(x, 8, 8) = 66
    BY <1>11, <2>1, <2>2, Window
  <2>4. QED
    BY <2>3 DEF NarrowAt
<1>12. ASSUME Match(cmp_r_t2, ins)
      PROVE  Known(cmp_r_t2)
  <2>1. Sound(cmp_r_t2)
    BY CmpRT2Sound
  <2>2. /\ Keeps(cmp_r_t2, <<1, 12, 4, 4>>)
        /\ Keeps(cmp_r_t2, <<1, 11, 5, 8>>)
        /\ Keeps(cmp_r_t2, <<1, 8, 8, 69>>)
    BY CmpRT2Sound
  <2>3. /\ Extract(x, 12, 4) = 4
        /\ Extract(x, 11, 5) = 8
        /\ Extract(x, 8, 8) = 69
    BY <1>12, <2>1, <2>2, Window
  <2>4. QED
    BY <2>3 DEF NarrowAt
<1>13. ASSUME Match(ldr_i_t1, ins)
      PROVE  Known(ldr_i_t1)
  <2>1. Sound(ldr_i_t1)
    BY LdrIT1Sound
  <2>2. /\ Keeps(ldr_i_t1, <<1, 12, 4, 6>>)
        /\ Keeps(ldr_i_t1, <<1, 11, 5, 13>>)
    BY LdrIT1Sound
  <2>3. /\ Extract(x, 12, 4) = 6
        /\ Extract(x, 11, 5) = 13
    BY <1>13, <2>1, <2>2, Window
  <2>4. QED
    BY <2>3 DEF NarrowAt
<1>14. ASSUME Match(ldr_i_t2_sponly, ins)
      PROVE  Known(ldr_i_t2_sponly)
  <2>1. Sound(ldr_i_t2_sponly)
    BY LdrIT2SponlySound
  <2>2. /\ Keeps(ldr_i_t2_sponly, <<1, 12, 4, 9>>)
        /\ Keeps(ldr_i_t2_sponly, <<1, 11, 5, 19>>)
    BY LdrIT2SponlySound
  <2>3. /\ Extract(x, 12, 4) = 9
        /\ Extract(x, 11, 5) = 19
    BY <1>14, <2>1, <2>2, Window
  <2>4. QED
    BY <2>3 DEF NarrowAt
<1>15. ASSUME Match(ldr_lit_t1, ins)
      PROVE  Known(ldr_lit_t1)
  <2>1. Sound(ldr_lit_t1)
    BY LdrLitT1Sound
  <2>2. /\ Keeps(ldr_lit_t1, <<1, 12, 4, 4>>)
        /\ Keeps(ldr_lit_t1, <<1, 11, 5, 9>>)
    BY LdrLitT1Sound
  <2>3. /\ Extract(x, 12, 4) = 4
        /\ Extract(x, 11, 5) = 9
    BY <1>15, <2>1, <2>2, Window
  <2>4. QED
    BY <2>3 DEF NarrowAt
<1>16. ASSUME Match(ldr_r_t1, ins)
      PROVE  Known(ldr_r_t1)
  <2>1. Sound(ldr_r_t1)
    BY LdrRT1Sound
  <2>2. /\ Keeps(ldr_r_t1, <<1, 12, 4, 5>>)
        /\ Keeps(ldr_r_t1, <<1, 11, 5, 11>>)
    BY LdrRT1Sound
  <2>3. /\ Extract(x, 12, 4) = 5
        /\ Extract(x, 11, 5) = 11
    BY <1>16, <2>1, <2>2, Window
  <2>4. QED
    BY <2>3 DEF NarrowAt
<1>17. ASSUME Match(nop_t1, ins)
      PROVE  Known(nop_t1)
  <2>1. Sound(nop_t1)
    BY NopT1Sound
  <2>2. /\ Keeps(nop_t1, <<1, 12, 4, 11>>)
        /\ Keeps(nop_t1, <<1, 11, 5, 23>>)
        /\ Keeps(nop_t1, <<1, 9, 7, 95>>)
        /\ Keeps(nop_t1, <<1, 8, 8, 191>>)
    BY NopT1Sound
  <2>3. /\ Extract(x, 12, 4) = 11
        /\ Extract(x, 11, 5) = 23
        /\ Extract(x, 9, 7) = 95
        /\ Extract(x, 8, 8) = 191
    BY <1>17, <2>1, <2>2, Window
  <2>4. QED
    BY <2>3 DEF NarrowAt
<1>18. ASSUME Match(movs_i_t1, ins)
      PROVE  Known(movs_i_t1)
  <2>1. Sound(movs_i_t1)
    BY MovsIT1Sound
  <2>2. /\ Keeps(movs_i_t1, <<1, 12, 4, 2>>)
        /\ Keeps(movs_i_t1, <<1, 11, 5, 4>>)
    BY MovsIT1Sound
  <2>3. /\ Extract(x, 12, 4) = 2
        /\ Extract(x, 11, 5) = 4
    BY <1>18, <2>1, <2>2, Window
  <2>4. QED
    BY <2>3 DEF NarrowAt
<1>19. ASSUME Match(mov_r_t1, ins)
      PROVE  Known(mov_r_t1)
  <2>1. Sound(mov_r_t1)
    BY MovRT1Sound
  <2>2. /\ Keeps(mov_r_t1, <<1, 12, 4, 4>>)
        /\ Keeps(mov_r_t1, <<1, 11, 5, 8>>)
        /\ Keeps(mov_r_t1, <<1, 8, 8, 70>>)
    BY MovRT1Sound
  <2>3. /\ Extract(x, 12, 4) = 4
        /\ Extract(x, 11, 5) = 8
        /\ Extract(x, 8, 8) = 70
    BY <1>19, <2>1, <2>2, Window
  <2>4. QED
    BY <2>3 DEF NarrowAt
<1>20. ASSUME Match(movs_r_t2_noit, ins)
      PROVE  Known(movs_r_t2_noit)
  <2>1. Sound(movs_r_t2_noit)
    BY MovsRT2NoitSound
  <2>2. /\ Keeps(movs_r_t2_noit, <<1, 12, 4, 0>>)
        /\ Keeps(movs_r_t2_noit, <<1, 11, 5, 0>>)
    BY MovsRT2NoitSound
  <2>3. /\ Extract(x, 12, 4) = 0
        /\ Extract(x, 11, 5) = 0
    BY <1>20, <2>1, <2>2, Window
  <2>4. QED
    BY <2>3 DEF NarrowAt
<1>21. ASSUME Match(pop_t1, ins)
      PROVE  Known(pop_t1)
  <2>1. Sound(pop_t1)
    BY PopT1Sound
  <2>2. /\ Keeps(pop_t1, <<1, 12, 4, 11>>)
        /\ Keeps(pop_t1, <<1, 11, 5, 23>>)
        /\ Keeps(pop_t1, <<1, 9, 7, 94>>)
    BY PopT1Sound
  <2>3. /\ Extract(x, 12, 4) = 11
        /\ Extract(x, 11, 5) = 23
        /\ Extract(x, 9, 7) = 94
    BY <1>21, <2>1, <2>2, Window
  <2>4. QED
    BY <2>3 DEF NarrowAt
<1>22. ASSUME Match(push_t1, ins)
      PROVE  Known(push_t1)
  <2>1. Sound(push_t1)
    BY PushT1Sound
  <2>2. /\ Keeps(push_t1, <<1, 12, 4, 11>>)
        /\ Keeps(push_t1, <<1, 11, 5, 22>>)
    BY PushT1Sound
  <2>3. /\ Extract(x, 12, 4) = 11
        /\ Extract(x, 11, 5) = 22
    BY <1>22, <2>1, <2>2, Window
  <2>4. QED
    BY <2>3 DEF NarrowAt
<1>23. ASSUME Match(subs_i_t1, ins)
      PROVE  Known(subs_i_t1)
  <2>1. Sound(subs_i_t1)
    BY SubsIT1Sound
  <2>2. /\ Keeps(subs_i_t1, <<1, 12, 4, 1>>)
        /\ Keeps(subs_i_t1, <<1, 11, 5, 3>>)
        /\ Keeps(subs_i_t1, <<1, 9, 7, 15>>)
    BY SubsIT1Sound
  <2>3. /\ Extract(x, 12, 4) = 1
        /\ Extract(x, 11, 5) = 3
        /\ Extract(x, 9, 7) = 15
    BY <1>23, <2>1, <2>2, Window
  <2>4. QED
    BY <2>3 DEF NarrowAt
<1>24. ASSUME Match(subs_i_t2, ins)
      PROVE  Known(subs_i_t2)
  <2>1. Sound(subs_i_t2)
    BY SubsIT2Sound
  <2>2. /\ Keeps(subs_i_t2, <<1, 12, 4, 3>>)
        /\ Keeps(subs_i_t2, <<1, 11, 5, 7>>)
    BY SubsIT2Sound
  <2>3. /\ Extract(x, 12, 4) = 3
        /\ Extract(x, 11, 5) = 7
    BY <1>24, <2>1, <2>2, Window
  <2>4. QED
    BY <2>3 DEF NarrowAt
<1>25. ASSUME Match(subs_r_t1, ins)
      PROVE  Known(subs_r_t1)
  <2>1. Sound(subs_r_t1)
    BY SubsRT1Sound
  <2>2. /\ Keeps(subs_r_t1, <<1, 12, 4, 1>>)
        /\ Keeps(subs_r_t1, <<1, 11, 5, 3>>)
        /\ Keeps(subs_r_t1, <<1, 9, 7, 13>>)
    BY SubsRT1Sound
  <2>3. /\ Extract(x, 12, 4) = 1
        /\ Extract(x, 11, 5) = 3
        /\ Extract(x, 9, 7) = 13
    BY <1>25, <2>1, <2>2, Window
  <2>4. QED
    BY <2>3 DEF NarrowAt
<1>26. ASSUME Match(svc_t1, ins)
      PROVE  Known(svc_t1)
  <2>1. Sound(svc_t1)
    BY SvcT1Sound
  <2>2. /\ Keeps(svc_t1, <<1, 12, 4, 13>>)
        /\ Keeps(svc_t1, <<1, 11, 5, 27>>)
        /\ Keeps(svc_t1, <<1, 8, 8, 223>>)
    BY SvcT1Sound
  <2>3. /\ Extract(x, 12, 4) = 13
        /\ Extract(x, 11, 5) = 27
        /\ Extract(x, 8, 8) = 223
    BY <1>26, <2>1, <2>2, Window
  <2>4. QED
    BY <2>3 DEF NarrowAt
<1>27. ASSUME Match(udf_t1, ins)
      PROVE  Known(udf_t1)
  <2>1. Sound(udf_t1)
    BY UdfT1Sound
  <2>2. /\ Keeps(udf_t1, <<1, 12, 4, 13>>)
        /\ Keeps(udf_t1, <<1, 11, 5, 27>>)
        /\ Keeps(udf_t1, <<1, 8, 8, 222>>)
    BY UdfT1Sound
  <2>3. /\ Extract(x, 12, 4) = 13
        /\ Extract(x, 11, 5) = 27
        /\ Extract(x, 8, 8) = 222
    BY <1>27, <2>1, <2>2, Window
  <2>4. QED
    BY <2>3 DEF NarrowAt
<1>28. Known(e)
  <2> HIDE DEF Known
  <2>1. QED
    BY Zenon, <1>1, <1>2, <1>3, <1>4, <1>5, <1>6, <1>7, <1>8, <1>9, <1>10, <1>11, <1>12, <1>13,
       <1>14, <1>15, <1>16, <1>17, <1>18, <1>19, <1>20, <1>21, <1>22, <1>23, <1>24, <1>25,
       <1>26, <1>27
       DEF NarrowEncodingSet
<1>29. QED
  BY <1>28

LEMMA WideMatches ==
    ASSUME NEW ins, Halves(ins), NEW e \in WideEncodingSet, Match(e, ins)
    PROVE  \/ e = WideAt(ins[1], ins[2])
           \/ e = b_cond_t3_noit /\ WideAt(ins[1], ins[2]) \in {udf_t2, nop_t2}
           \/ e = ldr_lit_t2 /\ WideAt(ins[1], ins[2]) \in {ldr_i_t3, ldr_i_t4}
           \/ e = ldr_r_t2_lsl /\ WideAt(ins[1], ins[2]) = ldr_lit_t2
           \/ e = pop_t3 /\ WideAt(ins[1], ins[2]) = ldr_i_t4
<1> DEFINE x == ins[1]
           y == ins[2]
           Known(z) == \/ z = WideAt(x, y)
                       \/ z = b_cond_t3_noit /\ WideAt(x, y) \in {udf_t2, nop_t2}
                       \/ z = ldr_lit_t2 /\ WideAt(x, y) \in {ldr_i_t3, ldr_i_t4}
                       \/ z = ldr_r_t2_lsl /\ WideAt(x, y) = ldr_lit_t2
                       \/ z = pop_t3 /\ WideAt(x, y) = ldr_i_t4
<1>1. ASSUME Match(addw_i_t4, ins)
      PROVE  Known(addw_i_t4)
  <2>1. Sound(addw_i_t4)
    BY AddwIT4Sound
  <2>2. /\ Keeps(addw_i_t4, <<1, 11, 5, 30>>)
        /\ Keeps(addw_i_t4, <<2, 15, 1, 0>>)
        /\ Keeps(addw_i_t4, <<1, 4, 6, 32>>)
    BY AddwIT4Sound
  <2>3. /\ Extract(x, 11, 5) = 30
        /\ Extract(y, 15, 1) = 0
        /\ Extract(x, 4, 6) = 32
    BY <1>1, <2>1, <2>2, Window
  <2>4. QED
    BY <2>3 DEF WideAt, IsUdf, IsNop
<1>2. ASSUME Match(b_cond_t3_noit, ins)
      PROVE  Known(b_cond_t3_noit)
  <2>1. Sound(b_cond_t3_noit)
    BY BCondT3NoitSound
  <2>2. /\ Keeps(b_cond_t3_noit, <<1, 11, 5, 30>>)
        /\ Keeps(b_cond_t3_noit, <<2, 15, 1, 1>>)
        /\ Keeps(b_cond_t3_noit, <<2, 14, 2, 2>>)
        /\ Keeps(b_cond_t3_noit, <<2, 12, 1, 0>>)
    BY BCondT3NoitSound
  <2>3. /\ Extract(x, 11, 5) = 30
        /\ Extract(y, 15, 1) = 1
        /\ Extract(y, 14, 2) = 2
        /\ Extract(y, 12, 1) = 0
    BY <1>2, <2>1, <2>2, Window
  <2>4. QED
    BY <2>3 DEF WideAt, IsUdf, IsNop
<1>3. ASSUME Match(b_t4, ins)
      PROVE  Known(b_t4)
  <2>1. Sound(b_t4)
    BY BT4Sound
  <2>2. /\ Keeps(b_t4, <<1, 11, 5, 30>>)
        /\ Keeps(b_t4, <<2, 15, 1, 1>>)
        /\ Keeps(b_t4, <<2, 14, 2, 2>>)
        /\ Keeps(b_t4, <<2, 12, 1, 1>>)
    BY BT4Sound
  <2>3. /\ Extract(x, 11, 5) = 30
        /\ Extract(y, 15, 1) = 1
        /\ Extract(y, 14, 2) = 2
        /\ Extract(y, 12, 1) = 1
    BY <1>3, <2>1, <2>2, Window
  <2>4. QED
    BY <2>3 DEF WideAt, IsUdf, IsNop
<1>4. ASSUME Match(bl_t1, ins)
      PROVE  Known(bl_t1)
  <2>1. Sound(bl_t1)
    BY BlT1Sound
  <2>2. /\ Keeps(bl_t1, <<1, 11, 5, 30>>)
        /\ Keeps(bl_t1, <<2, 15, 1, 1>>)
        /\ Keeps(bl_t1, <<2, 14, 2, 3>>)
        /\ Keeps(bl_t1, <<2, 12, 1, 1>>)
    BY BlT1Sound
  <2>3. /\ Extract(x, 11, 5) = 30
        /\ Extract(y, 15, 1) = 1
        /\ Extract(y, 14, 2) = 3
        /\ Extract(y, 12, 1) = 1
    BY <1>4, <2>1, <2>2, Window
  <2>4. QED
    BY <2>3 DEF WideAt, IsUdf, IsNop
<1>5. ASSUME Match(ldr_i_t3, ins)
      PROVE  Known(ldr_i_t3)
  <2>1. Sound(ldr_i_t3)
    BY LdrIT3Sound
  <2>2. /\ Keeps(ldr_i_t3, <<1, 11, 5, 31>>)
        /\ Keeps(ldr_i_t3, <<1, 8, 8, 248>>)
        /\ Keeps(ldr_i_t3, <<1, 4, 3, 5>>)
        /\ Keeps(ldr_i_t3, <<1, 7, 1, 1>>)
    BY LdrIT3Sound
  <2>3. /\ Extract(x, 11, 5) = 31
        /\ Extract(x, 8, 8) = 248
        /\ Extract(x, 4, 3) = 5
        /\ Extract(x, 7, 1) = 1
    BY <1>5, <2>1, <2>2, Window
  <2>4. QED
    BY <2>3 DEF WideAt, IsUdf, IsNop
<1>6. ASSUME Match(ldr_i_t4, ins)
      PROVE  Known(ldr_i_t4)
  <2>1. Sound(ldr_i_t4)
    BY LdrIT4Sound
  <2>2. /\ Keeps(ldr_i_t4, <<1, 11, 5, 31>>)
        /\ Keeps(ldr_i_t4, <<1, 8, 8, 248>>)
        /\ Keeps(ldr_i_t4, <<1, 4, 3, 5>>)
        /\ Keeps(ldr_i_t4, <<1, 7, 1, 0>>)
        /\ Keeps(ldr_i_t4, <<2, 11, 1, 1>>)
    BY LdrIT4Sound
  <2>3. /\ Extract(x, 11, 5) = 31
        /\ Extract(x, 8, 8) = 248
        /\ Extract(x, 4, 3) = 5
        /\ Extract(x, 7, 1) = 0
        /\ Extract(y, 11, 1) = 1
    BY <1>6, <2>1, <2>2, Window
  <2>4. QED
    BY <2>3 DEF WideAt, IsUdf, IsNop
<1>7. ASSUME Match(ldr_lit_t2, ins)
      PROVE  Known(ldr_lit_t2)
  <2>1. Sound(ldr_lit_t2)
    BY LdrLitT2Sound
  <2>2. /\ Keeps(ldr_lit_t2, <<1, 11, 5, 31>>)
        /\ Keeps(ldr_lit_t2, <<1, 8, 8, 248>>)
        /\ Keeps(ldr_lit_t2, <<1, 4, 3, 5>>)
        /\ Keeps(ldr_lit_t2, <<1, 0, 4, 15>>)
    BY LdrLitT2Sound
  <2>3. /\ Extract(x, 11, 5) = 31
        /\ Extract(x, 8, 8) = 248
        /\ Extract(x, 4, 3) = 5
        /\ Extract(x, 0, 4) = 15
    BY <1>7, <2>1, <2>2, Window
  <2>4. QED
    BY <2>3 DEF WideAt, IsUdf, IsNop
<1>8. ASSUME Match(ldr_r_t2_lsl, ins)
      PROVE  Known(ldr_r_t2_lsl)
  <2>1. Sound(ldr_r_t2_lsl)
    BY LdrRT2LslSound
  <2>2. /\ Keeps(ldr_r_t2_lsl, <<1, 11, 5, 31>>)
        /\ Keeps(ldr_r_t2_lsl, <<1, 8, 8, 248>>)
        /\ Keeps(ldr_r_t2_lsl, <<1, 4, 3, 5>>)
        /\ Keeps(ldr_r_t2_lsl, <<1, 7, 1, 0>>)
        /\ Keeps(ldr_r_t2_lsl, <<2, 11, 1, 0>>)
    BY LdrRT2LslSound
  <2>3. /\ Extract(x, 11, 5) = 31
        /\ Extract(x, 8, 8) = 248
        /\ Extract(x, 4, 3) = 5
        /\ Extract(x, 7, 1) = 0
        /\ Extract(y, 11, 1) = 0
    BY <1>8, <2>1, <2>2, Window
  <2>4. QED
    BY <2>3 DEF WideAt, IsUdf, IsNop
<1>9. ASSUME Match(nop_t2, ins)
      PROVE  Known(nop_t2)
  <2>1. Sound(nop_t2)
    BY NopT2Sound
  <2>2. /\ Keeps(nop_t2, <<1, 11, 5, 30>>)
        /\ Keeps(nop_t2, <<2, 15, 1, 1>>)
        /\ Keeps(nop_t2, <<2, 12, 1, 0>>)
        /\ Keeps(nop_t2, <<1, 8, 8, 243>>)
        /\ Keeps(nop_t2, <<1, 4, 4, 10>>)
        /\ Keeps(nop_t2, <<1, 0, 4, 15>>)
        /\ Keeps(nop_t2, <<2, 12, 4, 8>>)
        /\ Keeps(nop_t2, <<2, 0, 12, 0>>)
    BY NopT2Sound
  <2>3. /\ Extract(x, 11, 5) = 30
        /\ Extract(y, 15, 1) = 1
        /\ Extract(y, 12, 1) = 0
        /\ Extract(x, 8, 8) = 243
        /\ Extract(x, 4, 4) = 10
        /\ Extract(x, 0, 4) = 15
        /\ Extract(y, 12, 4) = 8
        /\ Extract(y, 0, 12) = 0
    BY <1>9, <2>1, <2>2, Window
  <2>4. QED
    BY <2>3 DEF WideAt, IsUdf, IsNop
<1>10. ASSUME Match(movw_i_t3, ins)
      PROVE  Known(movw_i_t3)
  <2>1. Sound(movw_i_t3)
    BY MovwIT3Sound
  <2>2. /\ Keeps(movw_i_t3, <<1, 11, 5, 30>>)
        /\ Keeps(movw_i_t3, <<2, 15, 1, 0>>)
        /\ Keeps(movw_i_t3, <<1, 4, 6, 36>>)
    BY MovwIT3Sound
  <2>3. /\ Extract(x, 11, 5) = 30
        /\ Extract(y, 15, 1) = 0
        /\ Extract(x, 4, 6) = 36
    BY <1>10, <2>1, <2>2, Window
  <2>4. QED
    BY <2>3 DEF WideAt, IsUdf, IsNop
<1>11. ASSUME Match(mov_r_t3_opt_s, ins)
      PROVE  Known(mov_r_t3_opt_s)
  <2>1. Sound(mov_r_t3_opt_s)
    BY MovRT3OptSSound
  <2>2. /\ Keeps(mov_r_t3_opt_s, <<1, 11, 5, 29>>)
        /\ Keeps(mov_r_t3_opt_s, <<1, 8, 8, 234>>)
    BY MovRT3OptSSound
  <2>3. /\ Extract(x, 11, 5) = 29
        /\ Extract(x, 8, 8) = 234
    BY <1>11, <2>1, <2>2, Window
  <2>4. QED
    BY <2>3 DEF WideAt, IsUdf, IsNop
<1>12. ASSUME Match(pop_t2, ins)
      PROVE  Known(pop_t2)
  <2>1. Sound(pop_t2)
    BY PopT2Sound
  <2>2. /\ Keeps(pop_t2, <<1, 11, 5, 29>>)
        /\ Keeps(pop_t2, <<1, 8, 8, 232>>)
    BY PopT2Sound
  <2>3. /\ Extract(x, 11, 5) = 29
        /\ Extract(x, 8, 8) = 232
    BY <1>12, <2>1, <2>2, Window
  <2>4. QED
    BY <2>3 DEF WideAt, IsUdf, IsNop
<1>13. ASSUME Match(pop_t3, ins)
      PROVE  Known(pop_t3)
  <2>1. Sound(pop_t3)
    BY PopT3Sound
  <2>2. /\ Keeps(pop_t3, <<1, 11, 5, 31>>)
        /\ Keeps(pop_t3, <<1, 8, 8, 248>>)
        /\ Keeps(pop_t3, <<1, 4, 3, 5>>)
        /\ Keeps(pop_t3, <<1, 7, 1, 0>>)
        /\ Keeps(pop_t3, <<2, 11, 1, 1>>)
    BY PopT3Sound
  <2>3. /\ Extract(x, 11, 5) = 31
        /\ Extract(x, 8, 8) = 248
        /\ Extract(x, 4, 3) = 5
        /\ Extract(x, 7, 1) = 0
        /\ Extract(y, 11, 1) = 1
    BY <1>13, <2>1, <2>2, Window
  <2>4. QED
    BY <2>3 DEF WideAt, IsUdf, IsNop
<1>14. ASSUME Match(push_t2, ins)
      PROVE  Known(push_t2)
  <2>1. Sound(push_t2)
    BY PushT2Sound
  <2>2. /\ Keeps(push_t2, <<1, 11, 5, 29>>)
        /\ Keeps(push_t2, <<1, 8, 8, 233>>)
    BY PushT2Sound
  <2>3. /\ Extract(x, 11, 5) = 29
        /\ Extract(x, 8, 8) = 233
    BY <1>14, <2>1, <2>2, Window
  <2>4. QED
    BY <2>3 DEF WideAt, IsUdf, IsNop
<1>15. ASSUME Match(push_t3, ins)
      PROVE  Known(push_t3)
  <2>1. Sound(push_t3)
    BY PushT3Sound
  <2>2. /\ Keeps(push_t3, <<1, 11, 5, 31>>)
        /\ Keeps(push_t3, <<1, 8, 8, 248>>)
        /\ Keeps(push_t3, <<1, 4, 3, 4>>)
    BY PushT3Sound
  <2>3. /\ Extract(x, 11, 5) = 31
        /\ Extract(x, 8, 8) = 248
        /\ Extract(x, 4, 3) = 4
    BY <1>15, <2>1, <2>2, Window
  <2>4. QED
    BY <2>3 DEF WideAt, IsUdf, IsNop
<1>16. ASSUME Match(subw_i_t4, ins)
      PROVE  Known(subw_i_t4)
  <2>1. Sound(subw_i_t4)
    BY SubwIT4Sound
  <2>2. /\ Keeps(subw_i_t4, <<1, 11, 5, 30>>)
        /\ Keeps(subw_i_t4, <<2, 15, 1, 0>>)
        /\ Keeps(subw_i_t4, <<1, 4, 6, 42>>)
    BY SubwIT4Sound
  <2>3. /\ Extract(x, 11, 5) = 30
        /\ Extract(y, 15, 1) = 0
        /\ Extract(x, 4, 6) = 42
    BY <1>16, <2>1, <2>2, Window
  <2>4. QED
    BY <2>3 DEF WideAt, IsUdf, IsNop
<1>17. ASSUME Match(udf_t2, ins)
      PROVE  Known(udf_t2)
  <2>1. Sound(udf_t2)
    BY UdfT2Sound
  <2>2. /\ Keeps(udf_t2, <<1, 11, 5, 30>>)
        /\ Keeps(udf_t2, <<2, 15, 1, 1>>)
        /\ Keeps(udf_t2, <<2, 12, 1, 0>>)
        /\ Keeps(udf_t2, <<1, 8, 8, 247>>)
        /\ Keeps(udf_t2, <<1, 4, 4, 15>>)
        /\ Keeps(udf_t2, <<2, 12, 4, 10>>)
    BY UdfT2Sound
  <2>3. /\ Extract(x, 11, 5) = 30
        /\ Extract(y, 15, 1) = 1
        /\ Extract(y, 12, 1) = 0
        /\ Extract(x, 8, 8) = 247
        /\ Extract(x, 4, 4) = 15
        /\ Extract(y, 12, 4) = 10
    BY <1>17, <2>1, <2>2, Window
  <2>4. QED
    BY <2>3 DEF WideAt, IsUdf, IsNop
<1>18. Known(e)
  <2> HIDE DEF Known
  <2>1. QED
    BY Zenon, <1>1, <1>2, <1>3, <1>4, <1>5, <1>6, <1>7, <1>8, <1>9, <1>10, <1>11, <1>12, <1>13,
       <1>14, <1>15, <1>16, <1>17
       DEF WideEncodingSet
<1>19. QED
  BY <1>18

=============================================================================
