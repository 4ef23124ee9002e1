---------------------------- MODULE MonitorProofs ----------------------------
(***************************************************************************)
(* The safety of calls, stepping and faults, while numbers are typed, for  *)
(* every set of functions and every width of int.                          *)
(*                                                                         *)
(* One invariant has it all.  What it adds to the properties:              *)
(*  - ExcInv: a fault is being handled in the newest exception, which is   *)
(*    at its beginning;                                                    *)
(*  - PromptInv: debug_monitor with its menu open is the oldest exception  *)
(*    and not at its beginning, so that no fault in it is returned from;   *)
(*  - StepInv: what MON_STEP, last_pc and the user's last answer have to   *)
(*    do with one another between two instructions;                        *)
(*  - TypingInv: where the thread is while a number is typed.              *)
(*                                                                         *)
(* First what typing a number needs of its own, which is proved of Numbers *)
(* for every width of int: a typed number never overflows.  The invariant  *)
(* is NumberFits with the types of the locals; what carries it over a      *)
(* digit is that Room divides where Digit multiplies.  And what is shown   *)
(* is that number: ShownInv follows it through the pad to the line, and    *)
(* DigitsValue says that digits made by division are read back as the      *)
(* number they were made of.                                               *)
(***************************************************************************)
EXTENDS Monitor, Induction, SequenceTheorems, TLAPS

\* The quotient is the largest number that times the divisor is not above.
LEMMA QuotientIsBelow ==
    ASSUME NEW n \in Nat, NEW b \in Bases, NEW q \in Int, n \div b >= q
    PROVE  q * b <= n
<1>1. CASE b = 10
  BY <1>1, SMT
<1>2. CASE b = 16
  BY <1>2, SMT
<1>3. QED
  BY <1>1, <1>2 DEF Bases

\* Where there is room for a digit, the number with the digit is an int.
LEMMA RoomForDigit ==
    ASSUME base \in Bases, number \in Int32, sign \in BOOLEAN,
           number < 0 => sign, number > 0 => ~sign,
           NEW digit \in 0 .. 15, Room(digit)
    PROVE  /\ sign  => number * base - digit \in MinInt .. 0
           /\ ~sign => number * base + digit \in 0 .. MaxInt
<1> USE NumbersAssumption DEF Int32, MinInt
<1>1. ASSUME sign
      PROVE  number * base - digit \in MinInt .. 0
  <2>1. MaxInt + 1 - digit \in Nat /\ number \in Int /\ number <= 0
    BY <1>1
  <2>2. Quotient(MinInt + digit, base) = -((MaxInt + 1 - digit) \div base)
    <3>1. MinInt + digit < 0 /\ -(MinInt + digit) = MaxInt + 1 - digit
      OBVIOUS
    <3>2. QED
      BY <3>1 DEF Quotient
  <2>3. (MaxInt + 1 - digit) \div base >= -number
    <3>1. (MaxInt + 1 - digit) \div base \in Int
      BY <2>1 DEF Bases
    <3>2. QED
      BY <1>1, <2>1, <2>2, <3>1 DEF Room
  <2>4. (-number) * base <= MaxInt + 1 - digit
    BY <2>1, <2>3, QuotientIsBelow
  <2>5. number * base \in Int /\ (-number) * base = -(number * base) /\ number * base <= 0
    BY <2>1 DEF Bases
  <2>6. QED
    BY <2>4, <2>5
<1>2. ASSUME ~sign
      PROVE  number * base + digit \in 0 .. MaxInt
  <2>1. MaxInt - digit \in Nat /\ number \in Int /\ number >= 0
    BY <1>2
  <2>2. (MaxInt - digit) \div base >= number
    BY <1>2, <2>1 DEF Room, Quotient
  <2>3. number * base <= MaxInt - digit
    BY <2>1, <2>2, QuotientIsBelow
  <2>4. number * base \in Int /\ number * base >= 0
    BY <2>1 DEF Bases
  <2>5. QED
    BY <2>3, <2>4
<1>3. QED
  BY <1>1, <1>2

\* Removing the last digit takes the number toward zero.
LEMMA QuotientTowardZero ==
    ASSUME NEW n \in Int32, NEW b \in Bases
    PROVE  /\ Quotient(n, b) \in Int32
           /\ n >= 0 => Quotient(n, b) >= 0
           /\ n <= 0 => Quotient(n, b) <= 0
<1> USE NumbersAssumption DEF Int32, MinInt, Quotient
<1>1. CASE b = 10
  BY <1>1, SMT
<1>2. CASE b = 16
  BY <1>2, SMT
<1>3. QED
  BY <1>1, <1>2 DEF Bases

Inv ==
    /\ base \in Bases /\ sign \in BOOLEAN
    /\ NumberFits

\* A key that leaves an int with its own sign keeps the invariant.
LEMMA AgainInv ==
    ASSUME Inv, NEW n \in Int32, NEW s \in BOOLEAN, Again(n, s),
           ~negatedMin' => ~negatedMin,
           n < 0 => s, n > 0 => ~s,
           base' \in Bases
    PROVE  Inv'
BY DEF Inv, NumberFits, Again, Wrap, Int32

\* Once the sign of INT_MIN was changed nothing is said of the number.
LEMMA NegatedInv ==
    ASSUME base' \in Bases, sign' \in BOOLEAN, negatedMin'
    PROVE  Inv'
BY DEF Inv, NumberFits

LEMMA ZeroIsInt == 0 \in Int32 /\ 0 \in 0 .. MaxInt /\ ~(0 < 0) /\ ~(0 > 0)
BY NumbersAssumption DEF Int32, MinInt

LEMMA InitInv == NumbersInit => Inv
BY ZeroIsInt, Zenon DEF NumbersInit, InitNumber, Inv, NumberFits, Bases

LEMMA DigitInv ==
    ASSUME Inv, NEW digit \in 0 .. 15, Digit(digit)
    PROVE  Inv'
<1>0. base' = base /\ base \in Bases /\ negatedMin' = negatedMin
  BY DEF Digit, Inv
<1>1. CASE negatedMin
  <2>1. sign' \in BOOLEAN
    BY DEF Digit, Again, Inv
  <2>2. QED
    BY <1>0, <1>1, <2>1, NegatedInv
<1>2. CASE ~negatedMin
  <2>0. number \in Int32 /\ (number < 0 => sign) /\ (number > 0 => ~sign) /\ sign \in BOOLEAN
    BY <1>2 DEF Inv, NumberFits
  <2>1. CASE Room(digit) /\ sign /\ Again(number * base - digit, sign)
    <3>1. number * base - digit \in MinInt .. 0
      BY <1>0, <2>0, <2>1, RoomForDigit
    <3>2. number * base - digit \in Int32 /\ ~(number * base - digit > 0)
      BY <3>1, NumbersAssumption DEF Int32, MinInt
    <3>3. QED
      BY <1>0, <2>0, <2>1, <3>2, AgainInv
  <2>2. CASE Room(digit) /\ ~sign /\ Again(number * base + digit, sign)
    <3>1. number * base + digit \in 0 .. MaxInt
      BY <1>0, <2>0, <2>2, RoomForDigit
    <3>2. number * base + digit \in Int32 /\ ~(number * base + digit < 0)
      BY <3>1, NumbersAssumption DEF Int32, MinInt
    <3>3. QED
      BY <1>0, <2>0, <2>2, <3>2, AgainInv
  <2>3. CASE Again(number, sign)
    BY <1>0, <2>0, <2>3, AgainInv
  <2>4. QED
    BY <2>1, <2>2, <2>3 DEF Digit
<1>3. QED
  BY <1>1, <1>2

LEMMA ToggleSignInv ==
    ASSUME Inv, ToggleSign
    PROVE  Inv'
<1>0. base' \in Bases
  BY DEF ToggleSign, Inv
<1>1. CASE negatedMin'
  <2>1. sign' \in {~sign, -number < 0} \cup BOOLEAN
    BY Zenon DEF ToggleSign, Again
  <2>2. (-number < 0) \in BOOLEAN /\ (~sign) \in BOOLEAN
    OBVIOUS
  <2>3. sign' \in BOOLEAN
    BY <2>1, <2>2, Zenon
  <2>4. QED
    BY <1>0, <1>1, <2>3, NegatedInv
<1>2. CASE ~negatedMin'
  <2>0. ~negatedMin /\ number # MinInt
    BY <1>2 DEF ToggleSign
  <2>1. number \in Int32 /\ sign \in BOOLEAN
    BY <2>0 DEF Inv, NumberFits
  <2>2. CASE number = 0 /\ Again(number, ~sign)
    <3>1. (~sign) \in BOOLEAN /\ ~(number < 0) /\ ~(number > 0)
      BY <2>2, ZeroIsInt, Zenon
    <3>2. QED
      BY <1>0, <2>0, <2>1, <2>2, <3>1, AgainInv, Zenon
  <2>3. CASE number # 0 /\ Again(-number, -number < 0)
    <3>1. -number \in Int32
      BY <2>0, <2>1, NumbersAssumption DEF Int32, MinInt
    <3>2. -number > 0 => ~(-number < 0)
      BY <2>1, NumbersAssumption DEF Int32, MinInt
    <3>3. (-number < 0) \in BOOLEAN
      OBVIOUS
    <3>4. QED
      BY <1>0, <2>0, <2>3, <3>1, <3>2, <3>3, AgainInv, Zenon
  <2>4. QED
    BY <2>0, <2>2, <2>3 DEF ToggleSign
<1>3. QED
  BY <1>1, <1>2

\* The other keys, which leave negatedMin as it is.
LEMMA OtherKeyInv ==
    ASSUME Inv, UNCHANGED negatedMin, base' \in Bases,
           \/ Again(number, sign)
           \/ Again(Quotient(number, base), sign)
           \/ \E c \in 0 .. MaxInt : Again(c, FALSE)
    PROVE  Inv'
<1>1. CASE negatedMin
  <2>1. sign' \in BOOLEAN
    BY DEF Again, Inv
  <2>2. QED
    BY <1>1, <2>1, NegatedInv
<1>2. CASE ~negatedMin
  <2>0. /\ number \in Int32 /\ base \in Bases /\ sign \in BOOLEAN
        /\ number < 0 => sign
        /\ number > 0 => ~sign
    BY <1>2 DEF Inv, NumberFits
  <2>1. CASE Again(number, sign)
    BY <2>0, <2>1, AgainInv
  <2>2. CASE Again(Quotient(number, base), sign)
    <3>1. /\ Quotient(number, base) \in Int32
          /\ number >= 0 => Quotient(number, base) >= 0
          /\ number <= 0 => Quotient(number, base) <= 0
      BY <2>0, QuotientTowardZero
    <3>2. /\ Quotient(number, base) < 0 => sign
          /\ Quotient(number, base) > 0 => ~sign
      BY <2>0, <3>1, NumbersAssumption DEF Int32, MinInt
    <3>3. QED
      BY <2>0, <2>2, <3>1, <3>2, AgainInv
  <2>3. ASSUME NEW c \in 0 .. MaxInt, Again(c, FALSE)
        PROVE  Inv'
    <3>1. c \in Int32 /\ ~(c < 0)
      BY NumbersAssumption DEF Int32, MinInt
    <3>2. QED
      BY <2>3, <3>1, AgainInv
  <2>4. QED
    BY <2>1, <2>2, <2>3
<1>3. QED
  BY <1>1, <1>2 DEF Inv

LEMMA NextInv == Inv /\ [NumbersNext]_numberVars => Inv'
<1> SUFFICES ASSUME Inv, [NumbersNext]_numberVars
             PROVE  Inv'
  OBVIOUS
<1>1. CASE Open \/ Convert \/ Show \/ (\E a \in Int32 : Debug(a)) \/ UNCHANGED numberVars
  BY <1>1 DEF Open, Convert, Show, Debug, numberVars, locals, history, Inv, NumberFits
<1>2. CASE Submit \/ Close
  BY <1>2, ZeroIsInt, Zenon DEF Submit, Close, InitNumber, Inv, NumberFits, Bases
<1>3. ASSUME NEW digit \in 0 .. 15, Digit(digit)
      PROVE  Inv'
  BY <1>3, DigitInv
<1>4. CASE ToggleSign
  BY <1>4, ToggleSignInv
<1>5. CASE RemoveLast \/ ToggleBase
  BY <1>5, OtherKeyInv DEF RemoveLast, ToggleBase, Inv, Bases
<1>6. ASSUME NEW c \in 0 .. MaxInt, Again(c, FALSE), UNCHANGED <<base, negatedMin>>
      PROVE  Inv'
  <2>1. base' \in Bases
    BY <1>6 DEF Inv
  <2>2. QED
    BY <1>6, <2>1, OtherKeyInv
<1>7. CASE Initial \/ Zero
  <2>1. (InitNumber < 0) = FALSE
    BY DEF InitNumber
  <2>2. Again(0, FALSE) /\ UNCHANGED <<base, negatedMin>>
    BY <1>7, <2>1, Zenon DEF Initial, Zero, InitNumber
  <2>3. QED
    BY <1>6, <2>2, ZeroIsInt
<1>8. ASSUME NEW c \in 0 .. MaxChar, Character(c)
      PROVE  Inv'
  <2>1. c \in 0 .. MaxInt
    BY NumbersAssumption
  <2>2. QED
    BY <1>6, <1>8, <2>1 DEF Character
<1>9. QED
  BY <1>1, <1>2, <1>3, <1>4, <1>5, <1>7, <1>8 DEF NumbersNext, Key

\* However a number is typed, its int never overflows and its sign is the one room for
\* a digit is judged by, as long as the sign of INT_MIN is not changed
\* (menu_number, menu.c:167-224).
THEOREM NumberNeverOverflows == NumbersSpec => []NumberFits
<1>1. Inv => NumberFits
  BY DEF Inv
<1>2. QED
  BY <1>1, InitInv, NextInv, PTL DEF NumbersSpec

-----------------------------------------------------------------------------
(***************************************************************************)
(* The types of all variables; for the int's it is what Wrap makes of it.  *)
(***************************************************************************)
LEMMA ModRange ==
    ASSUME NEW a \in Int, NEW b \in Nat \ {0}
    PROVE  a % b \in 0 .. b - 1
OBVIOUS

LEMMA WrapIsInt ==
    ASSUME NEW n \in Int
    PROVE  Wrap(n) \in Int32
<1>1. 2 * MaxInt + 2 \in Nat \ {0} /\ n - MinInt \in Int
  BY NumbersAssumption DEF MinInt
<1>2. (n - MinInt) % (2 * MaxInt + 2) \in 0 .. (2 * MaxInt + 2) - 1
  BY <1>1, ModRange
<1>3. QED
  BY <1>2, NumbersAssumption DEF Wrap, Int32, MinInt

LEMMA AgainType ==
    ASSUME NumbersTypeOK, NEW n \in Int, NEW s \in BOOLEAN, Again(n, s),
           base' \in Bases, negatedMin' \in BOOLEAN
    PROVE  NumbersTypeOK'
<1>1. number' \in Int32
  BY WrapIsInt DEF Again
<1>2. /\ at' = "convert" /\ sign' \in BOOLEAN
      /\ overflown' = (overflown \/ n \notin Int32) /\ spoiled' = spoiled
  BY DEF Again
<1>3. overflown' \in BOOLEAN
  BY <1>2
<1>4. QED
  BY <1>1, <1>2, <1>3 DEF NumbersTypeOK

LEMMA KeyType ==
    ASSUME NumbersTypeOK, Key
    PROVE  NumbersTypeOK'
<1>0. number \in Int /\ base \in Nat \ {0} /\ base \in Bases /\ sign \in BOOLEAN /\ negatedMin \in BOOLEAN
  BY NumbersAssumption DEF NumbersTypeOK, Int32, MinInt, Bases
<1>1. ASSUME NEW digit \in 0 .. 15, Digit(digit)
      PROVE  NumbersTypeOK'
  <2>1. number * base - digit \in Int /\ number * base + digit \in Int
    BY <1>0
  <2>2. base' \in Bases /\ negatedMin' \in BOOLEAN
    BY <1>0, <1>1 DEF Digit
  <2>3. QED
    BY <1>0, <1>1, <2>1, <2>2, AgainType DEF Digit
<1>2. ASSUME NEW c \in 0 .. MaxChar, Character(c)
      PROVE  NumbersTypeOK'
  <2>1. c \in Int /\ FALSE \in BOOLEAN
    BY NumbersAssumption
  <2>2. QED
    BY <1>0, <1>2, <2>1, AgainType DEF Character
<1>3. CASE ToggleSign
  <2>1. -number \in Int /\ (~sign) \in BOOLEAN /\ (-number < 0) \in BOOLEAN
    BY <1>0
  <2>2. base' \in Bases
    BY <1>0, <1>3 DEF ToggleSign
  <2>3. negatedMin' \in BOOLEAN
    <3>1. negatedMin' = (negatedMin \/ number = MinInt)
      BY <1>3 DEF ToggleSign
    <3>2. QED
      BY <3>1
  <2>4. QED
    BY <1>0, <1>3, <2>1, <2>2, <2>3, AgainType, Zenon DEF ToggleSign
<1>4. CASE Initial \/ Zero
  <2>1. (InitNumber < 0) = FALSE /\ InitNumber = 0 /\ 0 \in Int
    BY DEF InitNumber
  <2>2. Again(0, FALSE) /\ UNCHANGED <<base, negatedMin>>
    BY <1>4, <2>1, Zenon DEF Initial, Zero
  <2>3. QED
    BY <1>0, <2>1, <2>2, AgainType
<1>5. CASE RemoveLast
  <2>1. Quotient(number, base) \in Int
    BY <1>0 DEF Quotient
  <2>2. QED
    BY <1>0, <1>5, <2>1, AgainType DEF RemoveLast
<1>6. CASE ToggleBase
  BY <1>0, <1>6, AgainType DEF ToggleBase, Bases
<1>7. QED
  BY <1>1, <1>2, <1>3, <1>4, <1>5, <1>6 DEF Key

\* Every variable keeps its type, whatever is typed.
THEOREM NumbersTypeCorrect == NumbersSpec => []NumbersTypeOK
<1>1. NumbersInit => NumbersTypeOK
  BY ZeroIsInt DEF NumbersInit, NumbersTypeOK, InitNumber, Bases
<1>2. NumbersTypeOK /\ [NumbersNext]_numberVars => NumbersTypeOK'
  <2> SUFFICES ASSUME NumbersTypeOK, [NumbersNext]_numberVars
               PROVE  NumbersTypeOK'
    OBVIOUS
  <2>1. CASE Open \/ Convert \/ Show \/ UNCHANGED numberVars
    BY <2>1 DEF Open, Convert, Show, numberVars, locals, history, NumbersTypeOK
  <2>2. CASE Submit \/ Close
    BY <2>2, ZeroIsInt DEF Submit, Close, InitNumber, NumbersTypeOK, Bases
  <2>3. ASSUME NEW a \in Int32, Debug(a)
        PROVE  NumbersTypeOK'
    <3>1. spoiled' = (spoiled \/ at = "print") /\ UNCHANGED <<at, locals, line, negatedMin, overflown>>
      BY <2>3 DEF Debug
    <3>2. spoiled' \in BOOLEAN
      BY <3>1
    <3>3. QED
      BY <3>1, <3>2 DEF locals, NumbersTypeOK
  <2>4. QED
    BY <2>1, <2>2, <2>3, KeyType DEF NumbersNext
<1>3. QED
  BY <1>1, <1>2, PTL DEF NumbersSpec

-----------------------------------------------------------------------------
(***************************************************************************)
(* Digits and Value are recursive functions.                               *)
(***************************************************************************)

\* utoa_pad's digits: of every m up to n, from those of m / b.
LEMMA DigitsOf ==
    ASSUME NEW n \in Nat, NEW b \in Bases
    PROVE  \E d \in [0 .. n -> Seq(Nat)] :
              /\ Digits(n, b) = d[n]
              /\ \A m \in 0 .. n : d[m] = IF m < b THEN <<m>> ELSE Append(d[m \div b], m % b)
<1> DEFINE Step(f) == [m \in 0 .. n |-> IF m < b THEN <<m>> ELSE Append(f[m \div b], m % b)]
           d == CHOOSE f : f = Step(f)
<1>0. b \in Nat /\ b > 1
  BY DEF Bases
<1>1. Digits(n, b) = d[n]
  BY DEF Digits
<1>2. \E h \in [0 .. n -> Seq(Nat)] : h = Step(h)
  <2> DEFINE ends  == {m \in 0 .. n : m < b}
             base0 == [m \in 0 .. n |-> <<m>>]
             step  == [m \in 0 .. n |-> [s \in Seq(Nat) |-> Append(s, m % b)]]
             prev  == [m \in 0 .. n |-> m \div b]
             rank  == [m \in 0 .. n |-> m]
  <2>1. \A m \in 0 .. n : m \div b \in 0 .. n /\ m % b \in Nat /\ (m >= b => m \div b < m)
    <3>1. CASE b = 10
      BY <3>1
    <3>2. CASE b = 16
      BY <3>2
    <3>3. QED
      BY <3>1, <3>2 DEF Bases
  <2>2. ends \in SUBSET (0 .. n) /\ 0 \in ends
    BY <1>0
  <2>3. base0 \in [0 .. n -> Seq(Nat)]
    OBVIOUS
  <2>4. step \in [0 .. n -> [Seq(Nat) -> Seq(Nat)]]
    BY <2>1, AppendProperties
  <2>5. prev \in [0 .. n -> 0 .. n]
    BY <2>1
  <2>6. /\ rank \in [0 .. n -> 0 .. n]
        /\ \A m \in (0 .. n) \ ends : rank[prev[m]] < rank[m]
    <3>1. \A m \in 0 .. n : rank[m] = m /\ prev[m] = m \div b /\ m \div b \in 0 .. n
      BY <2>1
    <3>2. \A m \in (0 .. n) \ ends : m \in 0 .. n /\ m >= b
      BY <1>0
    <3>3. rank \in [0 .. n -> 0 .. n]
      OBVIOUS
    <3> HIDE DEF rank, prev, ends
    <3>4. QED
      BY <2>1, <3>1, <3>2, <3>3
  <2>7. PICK h \in [0 .. n -> Seq(Nat)] :
            \A m \in 0 .. n : Defines(h, m, ends, base0, step, prev)
    <3> HIDE DEF ends, base0, step, prev, rank
    <3>1. QED
      BY <2>2, <2>3, <2>4, <2>5, <2>6, RecursiveFunction
  <2>8. ASSUME NEW m \in 0 .. n
        PROVE  h[m] = IF m < b THEN <<m>> ELSE Append(h[m \div b], m % b)
    <3>1. h[m] = IF m \in ends THEN base0[m] ELSE step[m][h[prev[m]]]
      BY <2>7 DEF Defines
    <3>2. (m \in ends <=> m < b) /\ base0[m] = <<m>> /\ prev[m] = m \div b
      OBVIOUS
    <3>3. h[m \div b] \in Seq(Nat)
      BY <2>1
    <3>4. step[m][h[m \div b]] = Append(h[m \div b], m % b)
      BY <3>3
    <3> HIDE DEF ends, base0, step, prev
    <3>5. QED
      BY <3>1, <3>2, <3>4
  <2>9. h = Step(h)
    BY <2>8
  <2>10. QED
    BY <2>9
<1>3. d = Step(d)
  BY <1>2
<1> HIDE DEF d
<1>4. \A m \in 0 .. n : d[m] = IF m < b THEN <<m>> ELSE Append(d[m \div b], m % b)
  BY <1>3
<1>5. ASSUME NEW m \in 0 .. n
      PROVE  d[m] \in Seq(Nat)
  <2> DEFINE Bad == {e \in 0 .. n : d[e] \notin Seq(Nat)}
  <2>1. ASSUME Bad # {}
        PROVE  FALSE
    <3>0. Bad \in SUBSET Nat
      OBVIOUS
    <3>1. PICK e \in Bad : \A x \in Bad : e <= x
      <4> HIDE DEF Bad
      <4>1. QED
        BY <2>1, <3>0, Least
    <3>2. e \in 0 .. n /\ d[e] \notin Seq(Nat) /\ d[e] = IF e < b THEN <<e>> ELSE Append(d[e \div b], e % b)
      BY <1>4
    <3>3. CASE e < b
      BY <3>2, <3>3
    <3>4. CASE ~(e < b)
      <4>1. e \div b \in 0 .. n /\ e \div b < e /\ e % b \in Nat
        <5>1. CASE b = 10
          BY <3>2, <3>4, <5>1
        <5>2. CASE b = 16
          BY <3>2, <3>4, <5>2
        <5>3. QED
          BY <5>1, <5>2 DEF Bases
      <4>2. d[e \div b] \in Seq(Nat)
        BY <3>1, <3>2, <4>1
      <4>3. QED
        BY <3>2, <3>4, <4>1, <4>2, AppendProperties
    <3>5. QED
      BY <3>3, <3>4
  <2>2. QED
    BY <2>1
<1>6. d = [m \in 0 .. n |-> d[m]]
  <2>1. DOMAIN d = 0 .. n
    BY <1>3
  <2>2. QED
    BY <1>3
<1>7. d \in [0 .. n -> Seq(Nat)]
  BY <1>5, <1>6
<1>8. QED
  BY <1>1, <1>4, <1>7

\* strtou's loop over the digits: the value of the first i, from that of one less.
LEMMA ValueOf ==
    ASSUME NEW s \in Seq(Nat), NEW b \in Bases
    PROVE  \E v \in [0 .. Len(s) -> Nat] :
              /\ Value(s, b) = v[Len(s)]
              /\ v[0] = 0 /\ \A i \in 1 .. Len(s) : v[i] = v[i - 1] * b + s[i]
<1> DEFINE n == Len(s)
           Step(f) == [i \in 0 .. n |-> IF i = 0 THEN 0 ELSE f[i - 1] * b + s[i]]
           v == CHOOSE f : f = Step(f)
<1>0. b \in Nat /\ n \in Nat /\ \A i \in 1 .. n : s[i] \in Nat
  BY DEF Bases
<1>1. Value(s, b) = v[n]
  BY DEF Value
<1>2. \E h \in [0 .. n -> Nat] : h = Step(h)
  <2> DEFINE base0 == [i \in 0 .. n |-> 0]
             step  == [i \in 0 .. n |-> [x \in Nat |-> IF i = 0 THEN 0 ELSE x * b + s[i]]]
             prev  == [i \in 0 .. n |-> IF i = 0 THEN 0 ELSE i - 1]
             rank  == [i \in 0 .. n |-> i]
  <2>1. {0} \in SUBSET (0 .. n) /\ 0 \in {0} /\ base0 \in [0 .. n -> Nat]
    BY <1>0
  <2>2. step \in [0 .. n -> [Nat -> Nat]]
    BY <1>0
  <2>3. /\ prev \in [0 .. n -> 0 .. n] /\ rank \in [0 .. n -> 0 .. n]
        /\ \A i \in (0 .. n) \ {0} : rank[prev[i]] < rank[i]
    BY <1>0
  <2>4. PICK h \in [0 .. n -> Nat] :
            \A i \in 0 .. n : Defines(h, i, {0}, base0, step, prev)
    <3> HIDE DEF base0, step, prev, rank, n
    <3>1. QED
      BY <1>0, <2>1, <2>2, <2>3, RecursiveFunction
  <2>5. ASSUME NEW i \in 0 .. n
        PROVE  h[i] = IF i = 0 THEN 0 ELSE h[i - 1] * b + s[i]
    <3>1. h[i] = IF i \in {0} THEN base0[i] ELSE step[i][h[prev[i]]]
      BY <2>4 DEF Defines
    <3>2. CASE i = 0
      BY <3>1, <3>2
    <3>3. CASE i # 0
      <4>1. prev[i] = i - 1 /\ h[i - 1] \in Nat
        BY <3>3
      <4>2. step[i][h[i - 1]] = h[i - 1] * b + s[i]
        BY <3>3, <4>1
      <4>3. QED
        BY <3>1, <3>3, <4>1, <4>2
    <3>4. QED
      BY <3>2, <3>3
  <2>6. h = Step(h)
    BY <2>5
  <2>7. QED
    BY <2>6
<1>3. v = Step(v)
  BY <1>2
<1> HIDE DEF v
<1>4. v[0] = 0 /\ \A i \in 1 .. n : v[i] = v[i - 1] * b + s[i]
  BY <1>0, <1>3
<1>5. \A i \in 0 .. n : v[i] \in Nat
  <2> DEFINE S == {i \in Nat : i <= n => v[i] \in Nat}
  <2>1. 0 \in S
    BY <1>4
  <2>2. ASSUME NEW i \in Nat, i \in S
        PROVE  i + 1 \in S
    <3>1. ASSUME i + 1 <= n
          PROVE  v[i + 1] \in Nat
      <4>1. i + 1 \in 1 .. n /\ (i + 1) - 1 = i /\ v[i] \in Nat /\ s[i + 1] \in Nat
        BY <1>0, <2>2, <3>1
      <4>2. v[i + 1] = v[i] * b + s[i + 1]
        BY <1>4, <4>1
      <4>3. ASSUME NEW x \in Nat, NEW y \in Nat
            PROVE  x * b + y \in Nat
        BY <1>0
      <4>4. v[i] * b + s[i + 1] \in Nat
        <5> HIDE DEF n
        <5>1. QED
          BY <4>1, <4>3
      <4>5. QED
        BY <4>2, <4>4
    <3>2. QED
      BY <3>1
  <2>3. Nat \subseteq S
    <3> HIDE DEF S
    <3>1. QED
      BY <2>1, <2>2, SetInduction
  <2>4. QED
    BY <1>0, <2>3
<1>6. v \in [0 .. n -> Nat]
  <2>1. v = [i \in 0 .. n |-> v[i]]
    BY <1>3
  <2>2. QED
    BY <1>5, <2>1
<1>7. QED
  BY <1>1, <1>4, <1>6

\* One digit more.
LEMMA ValueAppend ==
    ASSUME NEW s \in Seq(Nat), NEW x \in Nat, NEW b \in Bases
    PROVE  Value(Append(s, x), b) = Value(s, b) * b + x /\ Value(s, b) \in Nat
<1> DEFINE t == Append(s, x)
           n == Len(s)
<1>1. /\ t \in Seq(Nat) /\ Len(t) = n + 1 /\ n \in Nat
      /\ t[n + 1] = x /\ \A i \in 1 .. n : t[i] = s[i]
  BY AppendProperties
<1>2. PICK v \in [0 .. n -> Nat] :
          /\ Value(s, b) = v[n]
          /\ v[0] = 0 /\ \A i \in 1 .. n : v[i] = v[i - 1] * b + s[i]
  BY ValueOf
<1> HIDE DEF t
<1>3. PICK w \in [0 .. Len(t) -> Nat] :
          /\ Value(t, b) = w[Len(t)]
          /\ w[0] = 0 /\ \A i \in 1 .. Len(t) : w[i] = w[i - 1] * b + t[i]
  BY <1>1, ValueOf
<1> HIDE DEF n
<1>4. \A i \in 0 .. n : w[i] = v[i]
  <2> DEFINE S == {i \in Nat : i <= n => w[i] = v[i]}
  <2>1. 0 \in S
    BY <1>2, <1>3
  <2>2. ASSUME NEW i \in Nat, i \in S
        PROVE  i + 1 \in S
    <3>1. ASSUME i + 1 <= n
          PROVE  w[i + 1] = v[i + 1]
      <4>1. i + 1 \in 1 .. n /\ i + 1 \in 1 .. Len(t) /\ (i + 1) - 1 = i /\ w[i] = v[i]
        BY <1>1, <2>2, <3>1
      <4>2. w[i + 1] = w[i] * b + t[i + 1] /\ v[i + 1] = v[i] * b + s[i + 1]
        BY <1>2, <1>3, <4>1
      <4>3. t[i + 1] = s[i + 1]
        BY <1>1, <4>1
      <4>4. QED
        BY <4>1, <4>2, <4>3
    <3>2. QED
      BY <3>1
  <2>3. Nat \subseteq S
    <3> HIDE DEF S
    <3>1. QED
      BY <2>1, <2>2, SetInduction
  <2>4. QED
    BY <1>1, <2>3
<1>5. w[n + 1] = w[n] * b + x
  <2>1. n + 1 \in 1 .. Len(t) /\ (n + 1) - 1 = n
    BY <1>1
  <2>2. w[n + 1] = w[n] * b + t[n + 1]
    BY <1>3, <2>1
  <2>3. QED
    BY <1>1, <2>2
<1>6. w[n] = v[n] /\ v[n] \in Nat
  BY <1>1, <1>4
<1>7. QED
  BY <1>1, <1>2, <1>3, <1>5, <1>6 DEF t

\* Digits are read back as the number they were made of.
LEMMA DigitsValue ==
    ASSUME NEW n \in Nat, NEW b \in Bases
    PROVE  Value(Digits(n, b), b) = n
<1>1. PICK d \in [0 .. n -> Seq(Nat)] :
          /\ Digits(n, b) = d[n]
          /\ \A m \in 0 .. n : d[m] = IF m < b THEN <<m>> ELSE Append(d[m \div b], m % b)
  BY DigitsOf
<1> DEFINE Bad == {m \in 0 .. n : Value(d[m], b) # m}
<1>2. ASSUME Bad # {}
      PROVE  FALSE
  <2>0. Bad \in SUBSET Nat
    OBVIOUS
  <2>1. PICK m \in Bad : \A x \in Bad : m <= x
    <3> HIDE DEF Bad
    <3>1. QED
      BY <1>2, <2>0, Least
  <2>2. m \in 0 .. n /\ Value(d[m], b) # m
    OBVIOUS
  <2>3. CASE m < b
    <3>1. d[m] = Append(<<>>, m) /\ <<>> \in Seq(Nat)
      BY <1>1, <2>2, <2>3
    <3>2. Value(<<>>, b) = 0
      BY <3>1, ValueOf
    <3>3. m \in Nat
      BY <2>2
    <3>4. Value(Append(<<>>, m), b) = Value(<<>>, b) * b + m
      BY <3>1, <3>3, ValueAppend
    <3>5. 0 * b + m = m
      BY <3>3 DEF Bases
    <3>6. Value(d[m], b) = m
      BY <3>1, <3>2, <3>4, <3>5
    <3>7. QED
      BY <2>2, <3>6
  <2>4. CASE ~(m < b)
    <3>1. /\ m \div b \in 0 .. n /\ m \div b < m /\ m % b \in Nat
          /\ (m \div b) * b + (m % b) = m
      <4>1. CASE b = 10
        BY <2>2, <2>4, <4>1
      <4>2. CASE b = 16
        BY <2>2, <2>4, <4>2
      <4>3. QED
        BY <4>1, <4>2 DEF Bases
    <3>2. d[m] = Append(d[m \div b], m % b) /\ d[m \div b] \in Seq(Nat)
      BY <1>1, <2>2, <2>4, <3>1
    <3>3. Value(d[m \div b], b) = m \div b
      BY <2>1, <2>2, <3>1
    <3>4. Value(d[m], b) = (m \div b) * b + (m % b)
      BY <3>1, <3>2, <3>3, ValueAppend
    <3>5. QED
      BY <2>2, <3>1, <3>4
  <2>5. QED
    BY <2>3, <2>4
<1>3. n \in 0 .. n
  OBVIOUS
<1>4. QED
  BY <1>1, <1>2, <1>3

-----------------------------------------------------------------------------
(***************************************************************************)
(* The number that is shown.                                               *)
(***************************************************************************)
ShownInv ==
    /\ at = "print" /\ ~spoiled => pad = Itoa(number, base)
    /\ at = "key" /\ ~spoiled =>
          /\ line.digits = Digits(Abs(number), base)
          /\ line.neg <=> (number < 0 \/ (number = 0 /\ sign))

LEMMA NextShown == ShownInv /\ [NumbersNext]_numberVars => ShownInv'
<1> SUFFICES ASSUME ShownInv, [NumbersNext]_numberVars
             PROVE  ShownInv'
  OBVIOUS
<1>1. CASE Open \/ Submit \/ Close
  BY <1>1 DEF Open, Submit, Close, ShownInv
<1>2. CASE Convert
  BY <1>2 DEF Convert, locals, ShownInv
<1>3. CASE Show
  <2>1. /\ at = "print" /\ at' = "key" /\ UNCHANGED <<number, base, sign, spoiled>>
        /\ line' = [pad EXCEPT !.neg = @ \/ (number = 0 /\ sign)]
    BY <1>3 DEF Show, locals, history
  <2>2. ASSUME ~spoiled
        PROVE  /\ line'.digits = Digits(Abs(number), base)
               /\ line'.neg <=> (number < 0 \/ (number = 0 /\ sign))
    <3> DEFINE digits == Digits(Abs(number), base)
               below  == number < 0
               zero   == number = 0 /\ sign
    <3>1. pad = [neg |-> below, digits |-> digits]
      BY <2>1, <2>2 DEF ShownInv, Itoa
    <3>2. line' = [pad EXCEPT !.neg = pad.neg \/ zero]
      BY <2>1
    <3> HIDE DEF digits, below, zero
    <3>3. line' = [neg |-> below \/ zero, digits |-> digits]
      BY <3>1, <3>2
    <3>4. line'.digits = digits
      BY <3>3
    <3>5. line'.neg <=> (below \/ zero)
      BY <3>3
    <3>6. QED
      BY <3>4, <3>5 DEF digits, below, zero
  <2>3. QED
    BY <2>1, <2>2 DEF ShownInv
<1>4. ASSUME NEW a \in Int32, Debug(a)
      PROVE  ShownInv'
  BY <1>4 DEF Debug, locals, ShownInv
<1>5. ASSUME NEW n, NEW s, Again(n, s)
      PROVE  ShownInv'
  BY <1>5 DEF Again, ShownInv
<1>6. CASE Key
  BY <1>5, <1>6 DEF Key, Digit, Character, ToggleSign, Initial, Zero, RemoveLast, ToggleBase
<1>7. CASE UNCHANGED numberVars
  BY <1>7 DEF numberVars, locals, history, ShownInv
<1>8. QED
  BY <1>1, <1>2, <1>3, <1>4, <1>6, <1>7 DEF NumbersNext

\* What is on the line while a key is awaited is the number that RET would submit, in
\* its base, and the sign the next digit would take, whatever was typed, removed or
\* converted before, as long as debug_monitor did not print in between
\* (menu.c:159-165, string.c:36-55, 73-120).
THEOREM ShownIsTheNumber == NumbersSpec => []ShownIsNumber
<1>1. NumbersInit => ShownInv
  BY DEF NumbersInit, ShownInv
<1>2. NumbersTypeOK /\ ShownInv => ShownIsNumber
  <2> SUFFICES ASSUME NumbersTypeOK, ShownInv, at = "key", ~spoiled
               PROVE  /\ Value(line.digits, base) = Abs(number)
                      /\ line.neg <=> number < 0 \/ (number = 0 /\ sign)
    BY DEF ShownIsNumber
  <2>1. Abs(number) \in Nat /\ base \in Bases
    BY NumbersAssumption DEF NumbersTypeOK, Abs, Int32, MinInt
  <2>2. line.digits = Digits(Abs(number), base)
    BY DEF ShownInv
  <2>3. Value(line.digits, base) = Abs(number)
    BY <2>1, <2>2, DigitsValue
  <2>4. line.neg <=> number < 0 \/ (number = 0 /\ sign)
    BY DEF ShownInv
  <2>5. QED
    BY <2>3, <2>4
<1>3. QED
  BY <1>1, <1>2, NextShown, NumbersTypeCorrect, PTL DEF NumbersSpec

-----------------------------------------------------------------------------
(***************************************************************************)
(* The monitor                                                             *)
(***************************************************************************)
ExcInv ==
    /\ ExcTypeOK
    /\ FaultExitInThreadMode
    /\ faultAt \in {"handler", "unwind"} => active # <<>>
    /\ faultAt = "handler" => Newest.atFrame

PromptInv ==
    dbg = "prompt" => active # <<>> /\ ~active[1].atFrame /\ startStep = NULL

StepInv ==
    /\ dbg = "none" /\ startStep = NULL /\ monStep => stepped
    /\ dbg = "prompt" => ~monPend
    /\ monPend /\ InMenu => monStep
    /\ startStep # NULL /\ ~monPend => lastPc = pc
    /\ startStep # NULL /\ monPend /\ InMenu => lastPc # pc

TypingInv ==
    /\ at \in {"closed", "convert", "print", "key"}
    /\ at # "closed" => pc = <<at, 0>>

MonitorInv ==
    /\ TypeOK /\ ExcInv /\ PromptInv /\ StepInv /\ TypingInv
    /\ AutoStepArmed /\ BreakOnlyInCall /\ PromptInMenuOnlyIfStepped

-----------------------------------------------------------------------------
(***************************************************************************)
(* Exceptions                                                              *)
(***************************************************************************)
LEMMA TakeActive ==
    ASSUME ExcTypeOK, NEW n \in Nat, NEW b \in BOOLEAN, Take(n, b)
    PROVE  /\ active' \in Seq(ActiveException) /\ ipsr' \in Nat
           /\ active' # <<>> /\ Newest'.atFrame = b
           /\ active # <<>> => active'[1] = active[1]
           /\ active = <<>> => active'[1].atFrame = b
BY DEF ExcTypeOK, Take, Newest, ActiveException

\* One exception less; the oldest is still there if there were two.
LEMMA ReturnActive ==
    ASSUME ExcTypeOK, active # <<>>, NEW i \in Nat, NEW to, Return(i, to)
    PROVE  /\ active' \in Seq(ActiveException) /\ ipsr' \in Nat
           /\ faultAt' \in {to, "lost"}
           /\ Len(active) > 1 => active' # <<>> /\ active'[1] = active[1]
           /\ faultAt' = to /\ to # "lost" /\ Len(active) = 1 => active' = <<>>
           /\ faultAt' = "lost" /\ to # "lost" => active' = active
<1>1. Len(active) \in Nat \ {0} /\ active \in Seq(ActiveException)
  BY DEF ExcTypeOK
<1>2. CASE /\ active' = SubSeq(active, 1, Len(active) - 1)
           /\ ipsr' = i /\ faultAt' = to
  <2> DEFINE m == Len(active) - 1
  <2>1. 1 \in 1 .. Len(active) + 1 /\ m \in 1 - 1 .. Len(active)
    BY <1>1
  <2>2. /\ active' \in Seq(ActiveException)
        /\ Len(active') = IF 1 <= m THEN m - 1 + 1 ELSE 0
        /\ \A k \in 1 .. m - 1 + 1 : active'[k] = active[1 + k - 1]
    BY <1>1, <1>2, <2>1, SubSeqProperties
  <2>3. Len(active') = Len(active) - 1
    <3>1. \A k \in Nat \ {0} : (IF 1 <= k - 1 THEN k - 1 - 1 + 1 ELSE 0) = k - 1
      OBVIOUS
    <3>2. QED
      BY <1>1, <2>2, <3>1
  <2>4. Len(active) > 1 => active'[1] = active[1]
    <3>1. Len(active) > 1 => 1 \in 1 .. m - 1 + 1
      BY <1>1
    <3>2. QED
      BY <2>2, <3>1
  <2>5. /\ Len(active) > 1 => active' # <<>>
        /\ Len(active) = 1 => active' = <<>>
    <3> HIDE DEF m
    <3>1. Len(active') = 0 <=> active' = <<>>
      BY <2>2, EmptySeq
    <3>2. QED
      BY <1>1, <2>3, <3>1
  <2>6. QED
    BY <1>2, <2>2, <2>4, <2>5
<1>3. CASE faultAt' = "lost" /\ UNCHANGED <<active, ipsr>>
  BY <1>1, <1>3 DEF ExcTypeOK
<1>4. QED
  BY <1>2, <1>3 DEF Return

-----------------------------------------------------------------------------
(***************************************************************************)
(* Steps that only take and return from exceptions leave all else to hold  *)
(* as it did.                                                              *)
(***************************************************************************)
Rest == <<prog, thumb, core, userBreak, monStep, dbg, stat, zeroed, stepped, numberVars>>

LEMMA RestUnchanged ==
    ASSUME MonitorInv, UNCHANGED Rest, ExcInv', PromptInv'
    PROVE  MonitorInv'
BY DEF MonitorInv, Rest, core, stat, numberVars, TypeOK, ExcInv, StepInv, TypingInv,
       AutoStepArmed, BreakOnlyInCall, PromptInMenuOnlyIfStepped, InMenu, InCall

LEMMA TakenInv ==
    ASSUME MonitorInv, UNCHANGED Rest,
           NEW n \in Nat, NEW b \in BOOLEAN, Take(n, b),
           \/ faultAt' = "none"
           \/ faultAt' = "handler" /\ b,
           dbg = "none" \/ active # <<>>
    PROVE  MonitorInv'
<1>1. ExcTypeOK /\ PromptInv
  BY DEF MonitorInv, ExcInv
<1>2. /\ active' \in Seq(ActiveException) /\ ipsr' \in Nat
      /\ active' # <<>> /\ Newest'.atFrame = b
      /\ active # <<>> => active'[1] = active[1]
  BY <1>1, TakeActive
<1>3. ExcInv'
  BY <1>2 DEF ExcInv, ExcTypeOK, FaultExitInThreadMode
<1>4. UNCHANGED <<dbg, startStep>>
  BY DEF Rest, stat
<1>5. PromptInv'
  BY <1>1, <1>2, <1>4 DEF PromptInv
<1>6. QED
  BY <1>3, <1>5, RestUnchanged

LEMMA ExitFaultInv ==
    ASSUME MonitorInv, UNCHANGED Rest, active # <<>>, Newest.atFrame, ExitFault
    PROVE  MonitorInv'
<1>0. ExcTypeOK /\ PromptInv
  BY DEF MonitorInv, ExcInv
<1>1. Len(active) \in Nat \ {0} /\ active \in Seq(ActiveException)
  BY <1>0 DEF ExcTypeOK
<1>b. Len(active) = 1 <=> ~(Len(active) > 1)
  <2>1. \A k \in Nat \ {0} : k = 1 <=> ~(k > 1)
    OBVIOUS
  <2>2. QED
    BY <1>1, <2>1
<1>2. Newest \in ActiveException
  BY <1>1 DEF Newest
<1>3. IPSRMask(Newest.ipsr) \in Nat
  BY <1>2 DEF IPSRMask, ActiveException
<1>4. /\ active' \in Seq(ActiveException) /\ ipsr' \in Nat
      /\ faultAt' \in {ExitTo, "lost"}
      /\ Len(active) > 1 => active' # <<>> /\ active'[1] = active[1]
      /\ faultAt' = ExitTo /\ ExitTo # "lost" /\ Len(active) = 1 => active' = <<>>
      /\ faultAt' = "lost" /\ ExitTo # "lost" => active' = active
  BY <1>0, <1>3, ReturnActive DEF ExitFault
<1>5. ExcInv'
  BY <1>b, <1>4 DEF ExcInv, ExcTypeOK, FaultExitInThreadMode, ThreadMode, ExitTo
<1>6. UNCHANGED <<dbg, startStep>>
  BY DEF Rest, stat
<1>7. dbg = "prompt" => Len(active) > 1
  <2>1. Len(active) = 1 => active[1].atFrame
    BY DEF Newest
  <2>2. QED
    BY <1>0, <1>b, <2>1, Zenon DEF PromptInv
<1>8. PromptInv'
  BY <1>0, <1>4, <1>6, <1>7 DEF PromptInv
<1>9. QED
  BY <1>5, <1>8, RestUnchanged

LEMMA FaultInv ==
    ASSUME MonitorInv, UNCHANGED numberVars, Fault \/ DebugMonitorFault \/ HandleFault
    PROVE  MonitorInv'
<1>0. UNCHANGED Rest
  BY DEF Rest, Fault, DebugMonitorFault, HandleFault
<1>1. dbg = "none" \/ active # <<>>
  BY DEF MonitorInv, TypeOK, PromptInv
<1>2. CASE HardFault
  <2>1. 3 \in Nat /\ Take(3, TRUE) /\ faultAt' = "handler"
    BY <1>2 DEF HardFault, HardFaultNumber
  <2>2. QED
    BY <1>0, <1>1, <2>1, TakenInv
<1>3. CASE HardFaultHandler
  <2>1. active # <<>> /\ Newest.atFrame /\ ExitFault
    BY <1>3 DEF HardFaultHandler, MonitorInv, ExcInv
  <2>2. QED
    BY <1>0, <2>1, ExitFaultInv
<1>4. CASE UnwindException
  <2>0. faultAt = "unwind" /\ active # <<>>
    BY <1>4 DEF UnwindException, MonitorInv, ExcInv
  <2>1. CASE Newest.atFrame /\ ExitFault
    BY <1>0, <2>0, <2>1, ExitFaultInv
  <2>2. CASE faultAt' = "lost" /\ UNCHANGED <<active, ipsr>>
    <3>1. ExcInv' /\ PromptInv'
      BY <1>0, <2>2 DEF MonitorInv, ExcInv, ExcTypeOK, FaultExitInThreadMode, PromptInv, Rest, stat
    <3>2. QED
      BY <1>0, <3>1, RestUnchanged
  <2>3. QED
    BY <1>4, <2>1, <2>2 DEF UnwindException
<1>5. QED
  BY <1>2, <1>3, <1>4 DEF Fault, DebugMonitorFault, HandleFault

LEMMA ZeroVectorTakenInv ==
    ASSUME MonitorInv, UNCHANGED numberVars, ZeroVectorTaken
    PROVE  MonitorInv'
<1>1. UNCHANGED Rest /\ faultAt' = faultAt
  BY DEF Rest, ZeroVectorTaken
<1>2. faultAt = "none"
  BY DEF ZeroVectorTaken, Running
<1>3. dbg = "none"
  BY DEF ZeroVectorTaken, Running, ThreadMode, MonitorInv, TypeOK, PromptInv
<1>4. \E n \in {SVCallNumber, USART2Number} : Take(n, TRUE)
  BY DEF ZeroVectorTaken
<1>5. SVCallNumber \in Nat /\ USART2Number \in Nat
  BY DEF SVCallNumber, USART2Number
<1>6. QED
  BY <1>1, <1>2, <1>3, <1>4, <1>5, TakenInv

-----------------------------------------------------------------------------
(***************************************************************************)
(* The thread                                                              *)
(***************************************************************************)
MenuPlaces == {Menu, Loop} \cup Typing
CallTags   == {"fn", "setup", "after"}

\* The places are told apart by their names.
LEMMA PlacesDiffer ==
    /\ {Main, Menu, Loop, Setup, After} \subseteq Locations
    /\ MenuPlaces \subseteq Locations
    /\ Setup[1] \in CallTags /\ After[1] \in CallTags /\ Main[1] # "fn"
    /\ \A p \in MenuPlaces : p # Main /\ p[1] \notin CallTags
    /\ Setup \notin MenuPlaces /\ After \notin MenuPlaces /\ Main \notin MenuPlaces
    /\ Main # Setup /\ Main # After
<1> USE DEF Main, Menu, Loop, Setup, After, Typing, Locations, MenuPlaces, CallTags
<1>1. {Main, Menu, Loop, Setup, After} \subseteq Locations /\ MenuPlaces \subseteq Locations
  OBVIOUS
<1>2. Setup[1] \in CallTags /\ After[1] \in CallTags /\ Main[1] # "fn"
  OBVIOUS
<1>3. \A p \in MenuPlaces : p[1] \in {"menu", "loop", "convert", "print", "key"}
  OBVIOUS
<1>4. Main[1] = "main" /\ Setup[1] = "setup" /\ After[1] = "after"
  OBVIOUS
<1>5. QED
  BY <1>1, <1>2, <1>3, <1>4

LEMMA FunctionPlaces ==
    ASSUME NEW n \in Nat
    PROVE  /\ Fn(n) \in Locations /\ Fn(n)[1] = "fn" /\ Fn(n)[2] = n
           /\ Fn(n) \notin MenuPlaces /\ Fn(n) # Main
<1>1. Fn(n) \in Locations /\ Fn(n)[1] = "fn" /\ Fn(n)[2] = n
  BY DEF Fn, Locations
<1>2. QED
  BY <1>1, PlacesDiffer DEF CallTags

LEMMA PlaceOps ==
    /\ InMenu <=> pc \in MenuPlaces
    /\ InCall <=> pc[1] \in CallTags
    /\ InMenu' <=> pc' \in MenuPlaces
    /\ InCall' <=> pc'[1] \in CallTags
BY DEF InMenu, InCall, MenuPlaces, CallTags

\* Null is not a place.
LEMMA NullIsNoPlace ==
    /\ NULL \notin Locations
    /\ Entry \in Locations /\ Entry # NULL /\ Entry \notin MenuPlaces
<1>1. Entry \in Locations /\ Entry \notin MenuPlaces
  BY FunctionPlaces DEF Entry
<1>2. QED
  BY <1>1, DebuggerAssumption

\* In thread mode with no fault under way debug_monitor's menu is not open.
LEMMA RunningIs ==
    ASSUME MonitorInv, ThreadMode
    PROVE  dbg = "none"
BY DEF MonitorInv, TypeOK, PromptInv, ThreadMode

\* An instruction: where it leads, what it makes of the user break and what the
\* number's typing has to do with it.
LEMMA ExecuteInv ==
    ASSUME MonitorInv, NEW to \in Locations, Execute(to),
           UNCHANGED <<monStep, dbg, stat, stepped>>,
           zeroed' = zeroed \/ zeroed' \subseteq {SVCallNumber, USART2Number},
           prog' \in Programs \cup {<<>>}, thumb' \in BOOLEAN, userBreak' \in BOOLEAN,
           to # Main => (userBreak' <=> to[1] \in CallTags),
           to \in MenuPlaces => to # pc,
           at' \in {"closed", "convert", "print", "key"},
           at' # "closed" => to = <<at', 0>>
    PROVE  MonitorInv'
<1>0. /\ TypeOK /\ ExcInv /\ PromptInv /\ StepInv
      /\ AutoStepArmed /\ BreakOnlyInCall /\ PromptInMenuOnlyIfStepped
  BY DEF MonitorInv
<1>1. /\ ThreadMode /\ faultAt = "none" /\ ~monPend
      /\ pc' = to /\ monPend' = monStep
      /\ UNCHANGED <<active, ipsr, faultAt, startStep, lastPc>>
  BY DEF Execute, Running, excVars, stat
<1>2. dbg = "none" /\ dbg' = "none"
  BY <1>1, RunningIs
<1>3. monStep \in BOOLEAN
  BY <1>0 DEF TypeOK
<1>4. TypeOK'
  BY <1>0, <1>1, <1>3 DEF TypeOK, ExcTypeOK
<1>5. ExcInv' /\ PromptInv'
  BY <1>0, <1>1, <1>2 DEF ExcInv, ExcTypeOK, FaultExitInThreadMode, ThreadMode, Newest, PromptInv
<1>6. AutoStepArmed'
  BY <1>0, <1>1 DEF AutoStepArmed
<1>7. StepInv'
  <2>1. startStep # NULL => lastPc = pc /\ monStep
    BY <1>0, <1>1 DEF StepInv, AutoStepArmed
  <2>2. dbg' = "none" /\ startStep' = NULL /\ monStep' => stepped'
    BY <1>0, <1>1, <1>2 DEF StepInv
  <2>3. monPend' /\ InMenu' => monStep'
    BY <1>1
  <2>4. startStep' # NULL /\ ~monPend' => lastPc' = pc'
    BY <1>1, <2>1
  <2>5. startStep' # NULL /\ monPend' /\ InMenu' => lastPc' # pc'
    BY <1>1, <2>1, PlaceOps
  <2>6. QED
    BY <1>2, <2>2, <2>3, <2>4, <2>5 DEF StepInv
<1>8. BreakOnlyInCall'
  BY <1>1, PlaceOps DEF BreakOnlyInCall
<1>9. TypingInv' /\ PromptInMenuOnlyIfStepped'
  BY <1>1, <1>2 DEF TypingInv, PromptInMenuOnlyIfStepped
<1>10. QED
  BY <1>4, <1>5, <1>6, <1>7, <1>8, <1>9 DEF MonitorInv

\* DebugMonitor is made pending, out of the menu.
LEMMA PendedInv ==
    ASSUME MonitorInv, UNCHANGED numberVars, ThreadMode, pc \notin MenuPlaces, monPend' = TRUE,
           UNCHANGED <<prog, thumb, pc, userBreak, monStep, dbg, stat, zeroed, stepped, excVars>>
    PROVE  MonitorInv'
<1>1. ~InMenu /\ ~InMenu'
  BY PlaceOps
<1>2. UNCHANGED <<prog, thumb, pc, userBreak, monStep, dbg, startStep, lastPc, zeroed, stepped>>
  BY DEF stat
<1>3. UNCHANGED <<active, ipsr, faultAt, at>>
  BY DEF excVars, numberVars
<1>4. TypeOK' /\ ExcInv' /\ PromptInv'
  BY <1>2, <1>3 DEF MonitorInv, TypeOK, ExcInv, ExcTypeOK, FaultExitInThreadMode, ThreadMode,
                    Newest, PromptInv
<1>5. StepInv' /\ TypingInv' /\ AutoStepArmed' /\ PromptInMenuOnlyIfStepped'
  BY <1>1, <1>2, <1>3, RunningIs
     DEF MonitorInv, StepInv, TypingInv, AutoStepArmed, PromptInMenuOnlyIfStepped
<1>6. BreakOnlyInCall'
  BY <1>2 DEF MonitorInv, BreakOnlyInCall, InCall
<1>7. QED
  BY <1>4, <1>5, <1>6 DEF MonitorInv

\* In thread mode a step of the thread, or a command, while no number is typed.
LEMMA ThreadInv ==
    ASSUME MonitorInv, NotTyping, ThreadNext
    PROVE  MonitorInv'
<1>0. /\ at' = "closed" /\ TypeOK /\ pc \in Locations /\ BreakOnlyInCall
      /\ prog \in Programs \cup {<<>>} /\ thumb \in BOOLEAN /\ userBreak \in BOOLEAN
  BY DEF NotTyping, numberVars, MonitorInv, TypeOK
<1>1. CASE MonitorMain
  <2>1. <<>> \in Programs \cup {<<>>} /\ Menu # Main /\ Menu \in MenuPlaces
    BY DEF Menu, Main, MenuPlaces
  <2>2. /\ Execute(Menu) /\ pc = Main /\ userBreak' = FALSE
        /\ prog' = <<>> /\ thumb' = TRUE
        /\ UNCHANGED <<monStep, dbg, stat, zeroed, stepped>>
    BY <1>1 DEF MonitorMain, NoCall
  <2>3. QED
    BY <1>0, <2>1, <2>2, PlacesDiffer, ExecuteInv
<1>2. CASE EnterFunction
  <2>1. Entry[1] = "fn" /\ Entry \in Locations /\ Entry \notin MenuPlaces
    BY FunctionPlaces DEF Entry
  <2>2. userBreak
    BY <1>0, <1>2, PlacesDiffer, PlaceOps DEF EnterFunction, BreakOnlyInCall
  <2>3. QED
    BY <1>0, <1>2, <2>1, <2>2, ExecuteInv DEF EnterFunction, CallTags
<1>3. CASE Instruction
  <2>0. pc[1] = "fn" /\ pc[2] \in Nat /\ pc = Fn(pc[2])
    BY <1>0, <1>3 DEF Instruction, InFunction, Locations, Main, Menu, Loop, Setup, After, Typing, Fn
  <2>1. userBreak /\ pc \in Locations /\ pc \notin MenuPlaces
    BY <1>0, <2>0, PlacesDiffer, PlaceOps, FunctionPlaces DEF BreakOnlyInCall, CallTags
  <2>2. \E to \in {Fn(pc[2] + 1), Entry, pc, After} : Execute(to)
    BY <1>3 DEF Instruction
  <2>3. \A to \in {Fn(pc[2] + 1), Entry, pc, After} :
            to \in Locations /\ to \notin MenuPlaces /\ to[1] \in CallTags
    BY <2>0, <2>1, PlacesDiffer, FunctionPlaces DEF Entry, CallTags
  <2>4. UNCHANGED <<prog, thumb, userBreak, monStep, dbg, stat, zeroed, stepped>>
    BY <1>3 DEF Instruction
  <2>5. QED
    BY <1>0, <2>1, <2>2, <2>3, <2>4, ExecuteInv
<1>4. CASE SyscallExit
  BY <1>0, <1>4, PlacesDiffer, ExecuteInv DEF SyscallExit
<1>5. CASE AfterCall
  <2>1. <<>> \in Programs \cup {<<>>} /\ Menu \in MenuPlaces
    BY DEF MenuPlaces
  <2>2. /\ Execute(Menu) /\ pc = After /\ userBreak' = FALSE
        /\ prog' = <<>> /\ thumb' = TRUE
        /\ UNCHANGED <<monStep, dbg, stat, zeroed, stepped>>
    BY <1>5 DEF AfterCall, NoCall
  <2>3. QED
    BY <1>0, <2>1, <2>2, PlacesDiffer, ExecuteInv
<1>6. CASE Bkpt
  <2>1. /\ UNCHANGED <<prog, thumb, pc, userBreak, monStep, dbg, stat, zeroed, stepped>>
        /\ UNCHANGED excVars /\ monPend' = TRUE /\ pc[1] = "fn" /\ ThreadMode
    BY <1>6 DEF Bkpt, InFunction, Running
  <2>2. pc \notin MenuPlaces
    BY <2>1, PlacesDiffer DEF CallTags
  <2>3. QED
    BY <2>1, <2>2, PendedInv DEF NotTyping
<1>7. QED
  BY <1>1, <1>2, <1>3, <1>4, <1>5, <1>6 DEF ThreadNext

LEMMA CtrlCInv ==
    ASSUME MonitorInv, UNCHANGED numberVars, CtrlC
    PROVE  MonitorInv'
<1>1. pc \notin MenuPlaces
  BY PlacesDiffer, PlaceOps DEF CtrlC, MonitorInv, BreakOnlyInCall
<1>2. QED
  BY <1>1, PendedInv DEF CtrlC, Running

\* In the menu no number is typed and the user break is off.
LEMMA CommandInv ==
    ASSUME MonitorInv, NotTyping,
           OtherCommand \/ \E n \in {SVCallNumber, USART2Number} : ZeroVector(n)
    PROVE  MonitorInv'
<1>0. /\ at' = "closed" /\ TypeOK /\ BreakOnlyInCall
      /\ prog \in Programs \cup {<<>>} /\ thumb \in BOOLEAN /\ userBreak \in BOOLEAN
  BY DEF NotTyping, numberVars, MonitorInv, TypeOK
<1>1. Menu # Loop /\ Menu \in MenuPlaces /\ Loop \in MenuPlaces
  BY DEF Menu, Loop, MenuPlaces
<1>2. pc \in {Menu, Loop}
  BY DEF OtherCommand, ZeroVector
<1>3. ~userBreak
  BY <1>0, <1>1, <1>2, PlacesDiffer, PlaceOps DEF BreakOnlyInCall
<1>4. CASE OtherCommand
  BY <1>0, <1>1, <1>3, <1>4, PlacesDiffer, ExecuteInv DEF OtherCommand
<1>5. ASSUME NEW n \in {SVCallNumber, USART2Number}, ZeroVector(n)
      PROVE  MonitorInv'
  <2>1. /\ Execute(Loop) /\ pc = Menu /\ zeroed' = zeroed \cup {n}
        /\ UNCHANGED <<prog, thumb, userBreak, monStep, dbg, stat, stepped>>
    BY <1>5 DEF ZeroVector
  <2>2. zeroed' \subseteq {SVCallNumber, USART2Number}
    BY <1>0, <2>1 DEF TypeOK
  <2>3. QED
    BY <1>0, <1>1, <1>3, <2>1, <2>2, PlacesDiffer, ExecuteInv
<1>6. QED
  BY <1>4, <1>5

LEMMA CallInv ==
    ASSUME MonitorInv, NotTyping, NEW p \in Programs, NEW bit \in BOOLEAN, NEW step \in BOOLEAN,
           Call(p, bit, step)
    PROVE  MonitorInv'
<1>0. /\ TypeOK /\ ExcInv /\ PromptInv /\ StepInv /\ AutoStepArmed
  BY DEF MonitorInv
<1>1. /\ ThreadMode /\ faultAt = "none" /\ ~monPend /\ pc = Menu
      /\ prog' = p /\ thumb' = bit /\ pc' = Setup /\ userBreak' = TRUE /\ monPend' = monStep'
      /\ UNCHANGED <<dbg, lastPc, zeroed, stepped, active, ipsr, faultAt>>
      /\ \/ startStep' = Entry /\ monStep' = TRUE
         \/ UNCHANGED <<startStep, monStep>>
  BY DEF Call, Running, excVars, BeginSteppingAt
<1>2. dbg = "none" /\ dbg' = "none"
  BY <1>1, RunningIs
<1>3. Setup \in Locations /\ Setup # Main /\ ~InMenu' /\ InCall'
  BY <1>1, PlacesDiffer, PlaceOps
<1>4. Entry # NULL
  BY NullIsNoPlace
<1>5. TypeOK'
  <2>1. prog' \in Programs \cup {<<>>} /\ thumb' \in BOOLEAN /\ pc' \in Locations
    BY <1>1, <1>3
  <2>2. monStep' \in BOOLEAN /\ monPend' \in BOOLEAN /\ startStep' \in {Entry, NULL}
    BY <1>0, <1>1 DEF TypeOK
  <2>3. QED
    BY <1>0, <1>1, <2>1, <2>2 DEF TypeOK, ExcTypeOK
<1>6. ExcInv' /\ PromptInv'
  BY <1>0, <1>1, <1>2 DEF ExcInv, ExcTypeOK, FaultExitInThreadMode, ThreadMode, Newest, PromptInv
<1>7. AutoStepArmed'
  BY <1>0, <1>1, <1>4 DEF AutoStepArmed
<1>8. StepInv'
  BY <1>0, <1>1, <1>2, <1>3, <1>4, <1>7 DEF StepInv, AutoStepArmed
<1>9. TypingInv'
  BY DEF TypingInv, NotTyping, numberVars
<1>10. BreakOnlyInCall' /\ PromptInMenuOnlyIfStepped'
  BY <1>1, <1>3 DEF BreakOnlyInCall, PromptInMenuOnlyIfStepped
<1>11. QED
  BY <1>5, <1>6, <1>7, <1>8, <1>9, <1>10 DEF MonitorInv

\* Typing a number goes from place to place in menu_number, and back to the loop.
LEMMA TypeNumberInv ==
    ASSUME MonitorInv, TypeNumber
    PROVE  MonitorInv'
<1>0. /\ TypeOK /\ TypingInv /\ BreakOnlyInCall
      /\ prog \in Programs \cup {<<>>} /\ thumb \in BOOLEAN /\ userBreak \in BOOLEAN
  BY DEF MonitorInv, TypeOK
<1>1. /\ Execute(IF at' = "closed" THEN Loop ELSE <<at', 0>>)
      /\ UNCHANGED <<prog, thumb, userBreak, monStep, dbg, stat, zeroed, stepped>>
  BY DEF TypeNumber
<1>2. \/ pc = Menu /\ at' = "convert"
      \/ at = "convert" /\ at' = "print"
      \/ at = "print" /\ at' = "key"
      \/ at = "key" /\ at' \in {"convert", "closed"}
  BY DEF TypeNumber, Open, Convert, Show, Key, Digit, Character, ToggleSign, Initial, Zero,
         RemoveLast, ToggleBase, Again, Submit, Close
<1>3. pc \in MenuPlaces
  BY <1>0, <1>2 DEF TypingInv, MenuPlaces, Typing
<1>4. ~userBreak
  BY <1>0, <1>3, PlacesDiffer, PlaceOps DEF BreakOnlyInCall
<1>5. ASSUME NEW to, to = IF at' = "closed" THEN Loop ELSE <<at', 0>>
      PROVE  to \in MenuPlaces /\ to # pc
  BY <1>0, <1>2, <1>5 DEF TypingInv, MenuPlaces, Typing, Loop, Menu
<1>6. at' \in {"closed", "convert", "print", "key"}
  BY <1>2
<1>7. QED
  BY <1>0, <1>1, <1>4, <1>5, <1>6, PlacesDiffer, ExecuteInv

-----------------------------------------------------------------------------
(***************************************************************************)
(* debug_monitor                                                           *)
(***************************************************************************)
\* Where the menu opens in the monitor's own loop, the user had stepped: it is not
\* the start address, and the thread has got on since last_pc.
LEMMA PromptPrintsInv ==
    ASSUME MonitorInv, PromptPrints
    PROVE  MonitorInv'
<1>0. /\ TypeOK /\ ExcInv /\ StepInv /\ TypingInv /\ BreakOnlyInCall
  BY DEF MonitorInv
<1>1. /\ active = <<>> /\ faultAt = "none" /\ monPend /\ monPend' = FALSE
      /\ startStep = NULL \/ pc = startStep \/ pc = lastPc
      /\ dbg' = "prompt" /\ startStep' = NULL /\ lastPc' = NULL
      /\ UNCHANGED <<prog, thumb, pc, userBreak, monStep, zeroed, stepped, faultAt, at>>
  BY DEF PromptPrints, Prompt, Taken, ThreadMode, Stops, Debug
<1>2. /\ active' \in Seq(ActiveException) /\ ipsr' \in Nat
      /\ active' # <<>> /\ ~active'[1].atFrame
  <2>1. ExcTypeOK /\ 12 \in Nat /\ FALSE \in BOOLEAN /\ Take(12, FALSE)
    BY <1>0 DEF ExcInv, PromptPrints, Prompt, DebugMonitorNumber
  <2>2. QED
    BY <1>1, <2>1, TakeActive
<1>3. dbg = "none"
  BY <1>1, RunningIs DEF ThreadMode
<1>4. TypeOK' /\ ExcInv' /\ PromptInv'
  BY <1>0, <1>1, <1>2 DEF TypeOK, ExcInv, ExcTypeOK, FaultExitInThreadMode, PromptInv
<1>5. StepInv' /\ TypingInv' /\ AutoStepArmed' /\ BreakOnlyInCall'
  BY <1>0, <1>1 DEF StepInv, TypingInv, AutoStepArmed, BreakOnlyInCall, InCall
<1>6. PromptInMenuOnlyIfStepped'
  <2>1. SUFFICES ASSUME InMenu PROVE stepped
    BY <1>1 DEF PromptInMenuOnlyIfStepped, InMenu
  <2>2. pc \in MenuPlaces
    BY <2>1, PlaceOps
  <2>3. startStep = NULL
    BY <1>0, <1>1, <2>1, <2>2, NullIsNoPlace DEF StepInv, TypeOK
  <2>4. QED
    BY <1>0, <1>1, <1>3, <2>1, <2>3 DEF StepInv
<1>7. QED
  BY <1>4, <1>5, <1>6 DEF MonitorInv

LEMMA StepOnInv ==
    ASSUME MonitorInv, UNCHANGED numberVars, StepOn
    PROVE  MonitorInv'
<1>1. /\ active = <<>> /\ monPend /\ monPend' = FALSE
      /\ startStep # NULL /\ lastPc' = pc
      /\ UNCHANGED <<prog, thumb, pc, userBreak, monStep, dbg, startStep, zeroed, stepped>>
      /\ UNCHANGED <<active, ipsr, faultAt, at>>
  BY DEF StepOn, Taken, ThreadMode, excVars, numberVars
<1>2. dbg = "none"
  BY <1>1, RunningIs DEF ThreadMode
<1>3. TypeOK' /\ ExcInv' /\ PromptInv'
  BY <1>1, <1>2 DEF MonitorInv, TypeOK, ExcInv, ExcTypeOK, FaultExitInThreadMode, ThreadMode,
                    Newest, PromptInv
<1>4. StepInv' /\ TypingInv' /\ AutoStepArmed' /\ PromptInMenuOnlyIfStepped'
  BY <1>1, <1>2 DEF MonitorInv, StepInv, TypingInv, AutoStepArmed, PromptInMenuOnlyIfStepped
<1>5. BreakOnlyInCall'
  BY <1>1 DEF MonitorInv, BreakOnlyInCall, InCall
<1>6. QED
  BY <1>3, <1>4, <1>5 DEF MonitorInv

\* An answer that closes the menu makes MON_STEP what the user said.
LEMMA LeaveInv ==
    ASSUME MonitorInv, NEW step \in BOOLEAN, NEW to, Leave(step, to),
           \/ to = pc /\ UNCHANGED numberVars
           \/ to = Main /\ at' = "closed"
    PROVE  MonitorInv'
<1>0. /\ TypeOK /\ ExcInv /\ PromptInv /\ StepInv /\ TypingInv /\ AutoStepArmed /\ BreakOnlyInCall
  BY DEF MonitorInv
<1>1. /\ dbg = "prompt" /\ dbg' = "none" /\ Return(Newest.ipsr, "none")
      /\ monStep' = step /\ stepped' = step /\ pc' = to
      /\ UNCHANGED <<prog, thumb, monPend, userBreak, startStep, lastPc, zeroed>>
  BY DEF Leave, stat
<1>2. active # <<>> /\ startStep = NULL /\ ~monPend
  BY <1>0, <1>1 DEF PromptInv, StepInv
<1>3. /\ active' \in Seq(ActiveException) /\ ipsr' \in Nat
      /\ faultAt' \in {"none", "lost"}
  <2>1. active \in Seq(ActiveException) /\ Len(active) \in Nat \ {0}
    BY <1>0, <1>2 DEF ExcInv, ExcTypeOK
  <2>2. Newest \in ActiveException
    BY <2>1 DEF Newest
  <2>3. Newest.ipsr \in Nat
    BY <2>2 DEF ActiveException
  <2>4. QED
    BY <1>0, <1>1, <1>2, <2>3, ReturnActive DEF ExcInv
<1>4. Main \in Locations
  BY PlacesDiffer
<1>5. TypeOK'
  BY <1>0, <1>1, <1>3, <1>4 DEF TypeOK, ExcTypeOK
<1>6. ExcInv' /\ PromptInv'
  BY <1>1, <1>3 DEF ExcInv, ExcTypeOK, FaultExitInThreadMode, PromptInv
<1>7. StepInv' /\ AutoStepArmed' /\ PromptInMenuOnlyIfStepped'
  BY <1>0, <1>1, <1>2 DEF StepInv, AutoStepArmed, PromptInMenuOnlyIfStepped
<1>8. BreakOnlyInCall' /\ TypingInv'
  BY <1>0, <1>1 DEF BreakOnlyInCall, InCall, TypingInv, numberVars
<1>9. QED
  BY <1>5, <1>6, <1>7, <1>8 DEF MonitorInv

LEMMA AnswerSkipInv ==
    ASSUME MonitorInv, UNCHANGED numberVars, AnswerSkip
    PROVE  MonitorInv'
<1>0. /\ TypeOK /\ ExcInv /\ PromptInv /\ StepInv /\ TypingInv /\ AutoStepArmed /\ BreakOnlyInCall
  BY DEF MonitorInv
<1>1. /\ dbg = "prompt" /\ pc[1] = "fn" /\ pc' = Fn(pc[2] + 1)
      /\ UNCHANGED <<prog, thumb, monPend, userBreak, monStep, dbg, startStep, lastPc>>
      /\ UNCHANGED <<zeroed, stepped, active, ipsr, faultAt, at>>
  BY DEF AnswerSkip, InFunction, stat, excVars, numberVars
<1>2. pc[2] \in Nat
  BY <1>0, <1>1 DEF TypeOK, Locations, Main, Menu, Loop, Setup, After, Typing
<1>3. pc' \in Locations /\ pc'[1] = "fn" /\ pc' \notin MenuPlaces
  BY <1>1, <1>2, FunctionPlaces
<1>4. userBreak /\ at = "closed"
  BY <1>0, <1>1, PlacesDiffer, PlaceOps DEF BreakOnlyInCall, CallTags, TypingInv
<1>5. TypeOK' /\ ExcInv' /\ PromptInv'
  BY <1>0, <1>1, <1>3 DEF TypeOK, ExcInv, ExcTypeOK, FaultExitInThreadMode, ThreadMode,
                          Newest, PromptInv
<1>6. StepInv' /\ AutoStepArmed' /\ TypingInv'
  BY <1>0, <1>1, <1>4 DEF StepInv, AutoStepArmed, TypingInv, PromptInv
<1>7. BreakOnlyInCall' /\ PromptInMenuOnlyIfStepped'
  BY <1>1, <1>3, <1>4, PlaceOps DEF BreakOnlyInCall, PromptInMenuOnlyIfStepped, CallTags
<1>8. QED
  BY <1>5, <1>6, <1>7 DEF MonitorInv

-----------------------------------------------------------------------------
(***************************************************************************)
(* Back to monitor_main                                                    *)
(***************************************************************************)
LEMMA FaultExitInv ==
    ASSUME MonitorInv, at' = "closed", FaultExit
    PROVE  MonitorInv'
<1>0. /\ TypeOK /\ ExcInv /\ StepInv /\ AutoStepArmed
  BY DEF MonitorInv
<1>1. /\ ThreadMode /\ faultAt' = "none" /\ pc' = Main /\ monPend' = monStep
      /\ UNCHANGED <<prog, thumb, userBreak, monStep, dbg, startStep, lastPc>>
      /\ UNCHANGED <<zeroed, stepped, active, ipsr>>
  BY <1>0 DEF FaultExit, stat, ExcInv, FaultExitInThreadMode
<1>2. dbg = "none"
  BY <1>1, RunningIs
<1>3. Main \in Locations /\ Main \notin MenuPlaces
  BY PlacesDiffer
<1>4. TypeOK' /\ ExcInv' /\ PromptInv'
  BY <1>0, <1>1, <1>2, <1>3 DEF TypeOK, ExcInv, ExcTypeOK, FaultExitInThreadMode, PromptInv
<1>5. StepInv' /\ AutoStepArmed'
  BY <1>0, <1>1, <1>2, <1>3, PlaceOps DEF StepInv, AutoStepArmed
<1>6. TypingInv' /\ BreakOnlyInCall' /\ PromptInMenuOnlyIfStepped'
  BY <1>1, <1>2 DEF TypingInv, BreakOnlyInCall, PromptInMenuOnlyIfStepped
<1>7. QED
  BY <1>4, <1>5, <1>6 DEF MonitorInv

\* The state the monitor starts in, and resets to.
LEMMA InitInvariant ==
    ASSUME MonitorInit
    PROVE  MonitorInv
<1>1. Main \in Locations /\ Main \notin MenuPlaces
  BY PlacesDiffer
<1>2. /\ prog = <<>> /\ thumb = TRUE /\ pc = Main /\ monPend = FALSE /\ userBreak = FALSE
      /\ monStep = FALSE /\ dbg = "none" /\ startStep = NULL /\ lastPc = NULL
      /\ zeroed = {} /\ stepped = FALSE
      /\ active = <<>> /\ ipsr = 0 /\ faultAt = "none" /\ at = "closed"
  BY DEF MonitorInit, Init, NoCall, ExcInit, NumbersInit
<1>3. TypeOK
  <2>1. ExcTypeOK
    BY <1>2 DEF ExcTypeOK
  <2>2. {} \subseteq {SVCallNumber, USART2Number} /\ <<>> \in Programs \cup {<<>>}
    OBVIOUS
  <2>3. QED
    BY <1>1, <1>2, <2>1, <2>2 DEF TypeOK
<1>4. ExcInv /\ PromptInv /\ TypingInv
  BY <1>2 DEF ExcInv, ExcTypeOK, FaultExitInThreadMode, ThreadMode, PromptInv, TypingInv
<1>5. StepInv /\ AutoStepArmed /\ BreakOnlyInCall /\ PromptInMenuOnlyIfStepped
  BY <1>2 DEF StepInv, AutoStepArmed, BreakOnlyInCall, PromptInMenuOnlyIfStepped
<1>6. QED
  BY <1>3, <1>4, <1>5 DEF MonitorInv

LEMMA ResetInv ==
    ASSUME Reset, at' = "closed"
    PROVE  MonitorInv'
<1>1. Main \in Locations /\ Main \notin MenuPlaces
  BY PlacesDiffer
<1>2. /\ prog' = <<>> /\ thumb' = TRUE /\ pc' = Main /\ monPend' = FALSE /\ userBreak' = FALSE
      /\ monStep' = FALSE /\ dbg' = "none" /\ startStep' = NULL /\ lastPc' = NULL
      /\ zeroed' = {} /\ stepped' = FALSE
      /\ active' = <<>> /\ ipsr' = 0 /\ faultAt' = "none" /\ at' = "closed"
  BY DEF Reset, NoCall
<1>3. TypeOK'
  <2>1. ExcTypeOK'
    BY <1>2 DEF ExcTypeOK
  <2>2. {} \subseteq {SVCallNumber, USART2Number} /\ <<>> \in Programs \cup {<<>>}
    OBVIOUS
  <2>3. QED
    BY <1>1, <1>2, <2>1, <2>2 DEF TypeOK
<1>4. ExcInv' /\ PromptInv' /\ TypingInv'
  BY <1>2 DEF ExcInv, ExcTypeOK, FaultExitInThreadMode, ThreadMode, PromptInv, TypingInv
<1>5. StepInv' /\ AutoStepArmed' /\ BreakOnlyInCall' /\ PromptInMenuOnlyIfStepped'
  BY <1>2 DEF StepInv, AutoStepArmed, BreakOnlyInCall, PromptInMenuOnlyIfStepped
<1>6. QED
  BY <1>3, <1>4, <1>5 DEF MonitorInv

-----------------------------------------------------------------------------
LEMMA StepInvariant ==
    ASSUME MonitorInv, [MonitorNext]_allVars
    PROVE  MonitorInv'
<1>1. CASE ThreadNext /\ NotTyping
  BY <1>1, ThreadInv
<1>2. CASE MenuNext /\ NotTyping
  <2>1. CASE SysReset
    BY <1>2, <2>1, ResetInv DEF SysReset, NotTyping, numberVars
  <2>2. QED
    BY <1>2, <2>1, CommandInv, CallInv DEF MenuNext
<1>3. CASE ZeroVectorTaken /\ NotTyping
  BY <1>3, ZeroVectorTakenInv DEF NotTyping
<1>4. CASE TypeNumber
  BY <1>4, TypeNumberInv
<1>5. CASE PromptPrints
  BY <1>5, PromptPrintsInv
<1>6. CASE Leaves
  <2>1. at' = "closed"
    BY <1>6 DEF Leaves, Close
  <2>2. CASE AnswerExit
    BY <2>1, <2>2, LeaveInv DEF AnswerExit
  <2>3. QED
    BY <1>6, <2>1, <2>2, FaultExitInv, ResetInv DEF Leaves, ResetButton
<1>7. CASE Silent
  <2>1. CASE AnswerStep
    BY <1>7, <2>1, LeaveInv DEF AnswerStep, Silent
  <2>2. CASE AnswerContinue
    BY <1>7, <2>2, LeaveInv DEF AnswerContinue, Silent
  <2>3. QED
    BY <1>7, <2>1, <2>2, FaultInv, StepOnInv, CtrlCInv, AnswerSkipInv DEF Silent
<1>8. CASE UNCHANGED allVars
  <2>1. UNCHANGED Rest /\ UNCHANGED excVars
    BY <1>8 DEF allVars, vars, Rest
  <2>2. ExcInv' /\ PromptInv'
    BY <2>1 DEF MonitorInv, ExcInv, ExcTypeOK, FaultExitInThreadMode, ThreadMode, Newest,
                PromptInv, Rest, stat, excVars
  <2>3. QED
    BY <2>1, <2>2, RestUnchanged
<1>9. QED
  BY <1>1, <1>2, <1>3, <1>4, <1>5, <1>6, <1>7, <1>8 DEF MonitorNext

\* The invariant holds of the monitor.
THEOREM MonitorInvariant == MonitorSpec => []MonitorInv
<1>1. MonitorInit => MonitorInv
  BY InitInvariant
<1>2. MonitorInv /\ [MonitorNext]_allVars => MonitorInv'
  BY StepInvariant
<1>3. QED
  BY <1>1, <1>2, PTL DEF MonitorSpec

\* While the debugger steps on its own the core steps, and last_pc is of this time
\* (debug.c:70-90, 161-167), whatever functions are called, whatever is typed and
\* wherever faults strike.
THEOREM AutoSteppingIsArmed == MonitorSpec => []AutoStepArmed
<1>1. MonitorInv => AutoStepArmed
  BY DEF MonitorInv
<1>2. QED
  BY <1>1, MonitorInvariant, PTL

\* CTRL('c') breaks in on a called function and on nothing else (monitor.c:87,
\* monitor_call.c:25 and 38): every way a call can end leads past the reset of
\* enable_break.
THEOREM BreakIsOnlyInCalls == MonitorSpec => []BreakOnlyInCall
<1>1. MonitorInv => BreakOnlyInCall
  BY DEF MonitorInv
<1>2. QED
  BY <1>1, MonitorInvariant, PTL

\* The debugger does not open in the monitor's menu, or where a number is being
\* typed, unless the user's last answer was to step (debug.c:70-90, 120-130).
THEOREM NoPromptUnlessStepped == MonitorSpec => []PromptInMenuOnlyIfStepped
<1>1. MonitorInv => PromptInMenuOnlyIfStepped
  BY DEF MonitorInv
<1>2. QED
  BY <1>1, MonitorInvariant, PTL

\* fault_exit is reached with every exception returned from, however deep the fault
\* struck (startup.s:106-186).
THEOREM FaultsEndInThreadMode == MonitorSpec => []FaultExitInThreadMode
<1>1. MonitorInv => FaultExitInThreadMode
  BY DEF MonitorInv, ExcInv
<1>2. QED
  BY <1>1, MonitorInvariant, PTL

-----------------------------------------------------------------------------
(***************************************************************************)
(* A number is typed the same in the monitor as on its own: for Numbers,   *)
(* debug_monitor is a Debug, and all else does not touch it.               *)
(***************************************************************************)
THEOREM MonitorTypesNumbers == MonitorSpec => NumbersSpec
<1>1. MonitorInit => NumbersInit
  BY DEF MonitorInit
<1>2. [MonitorNext]_allVars => [NumbersNext]_numberVars
  <2>1. MaxInt \in Int32
    BY NumbersAssumption DEF Int32, MinInt
  <2>2. QED
    BY <2>1 DEF MonitorNext, NotTyping, TypeNumber, PromptPrints, Leaves, Silent, NumbersNext, allVars
<1>3. QED
  BY <1>1, <1>2, PTL DEF MonitorSpec, NumbersSpec

\* No number typed at the monitor overflows its int, debugged or not, unless the sign
\* of INT_MIN is changed (menu.c:167-224).
THEOREM MonitorNumberFits == MonitorSpec => []NumberFits
BY MonitorTypesNumbers, NumberNeverOverflows, PTL

\* Whatever is called, stepped or faults before, the line says the number that would be
\* submitted (menu.c:159-165), unless debug_monitor printed one of its own while it
\* was on its way there.
THEOREM MonitorShownIsNumber == MonitorSpec => []ShownIsNumber
BY MonitorTypesNumbers, ShownIsTheNumber, PTL

\* Every variable has its type.
THEOREM MonitorTypeCorrect == MonitorSpec => []MonitorTypeOK
<1>1. MonitorInv => TypeOK
  BY DEF MonitorInv
<1>2. QED
  BY <1>1, MonitorInvariant, MonitorTypesNumbers, NumbersTypeCorrect, PTL DEF MonitorTypeOK

=============================================================================
