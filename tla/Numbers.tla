------------------------------- MODULE Numbers -------------------------------
(***************************************************************************)
(* Typing a number: menu_number() of menu.c, and the conversions of        *)
(* string.c it shows the number with.  Every key leads back to the top of  *)
(* the loop, which converts the number into the one static pad and prints  *)
(* the pad.  DebugMonitor, when the monitor itself is being stepped, can   *)
(* come in between and convert numbers of its own.                         *)
(*                                                                         *)
(* The grouping of digits with '_' is left out.                            *)
(***************************************************************************)
EXTENDS Integers, Sequences

CONSTANTS
    MaxInt,     \* INT_MAX
    MaxChar     \* the largest character code

MinInt == -MaxInt - 1

ASSUME NumbersAssumption ==
    /\ MaxInt \in Nat /\ MaxInt >= 15
    /\ MaxChar \in 0 .. MaxInt

VARIABLES
    at,         \* "closed"; "convert", "print" or "key" in menu_number
    number, base, sign,     \* its locals
    pad,        \* the static pad of string.c, while it is being printed
    line,       \* what the line says after the prompt
    negatedMin, \* history: the sign of INT_MIN was changed
    overflown,  \* history: an int overflowed
    spoiled     \* history: the pad was overwritten before it was printed

locals     == <<number, base, sign>>
history    == <<negatedMin, overflown, spoiled>>
numberVars == <<at, locals, pad, line, history>>

Int32 == MinInt .. MaxInt
Bases == {10, 16}

Nothing == [neg |-> FALSE, digits |-> <<>>]

\* The value of the parameter init_number in every call there is.
InitNumber == 0

NumbersInit ==
    /\ at = "closed"
    /\ number = InitNumber /\ base = 10 /\ sign = FALSE
    /\ pad = Nothing /\ line = Nothing
    /\ negatedMin = FALSE /\ overflown = FALSE /\ spoiled = FALSE

-----------------------------------------------------------------------------
\* Division in C rounds toward zero.
Quotient(n, b) == IF n >= 0 THEN n \div b ELSE -((-n) \div b)

Abs(n) == IF n < 0 THEN -n ELSE n

\* The digits of utoa_pad, of a number that is not negative.
Digits(n, b) ==
    LET d[m \in 0 .. n] ==
            IF m < b THEN <<m>> ELSE Append(d[m \div b], m % b)
    IN  d[n]

\* Mutant: the digits are always decimal.
Itoa_decimal(n, b) == [neg |-> n < 0, digits |-> Digits(Abs(n), 10)]

\* itoa_pad
Itoa(n, b) == [neg |-> n < 0, digits |-> Digits(Abs(n), b)]

\* Reading digits back, the way of strtou.
Value(digits, b) ==
    LET v[i \in 0 .. Len(digits)] ==
            IF i = 0 THEN 0 ELSE v[i - 1] * b + digits[i]
    IN  v[Len(digits)]

-----------------------------------------------------------------------------
Open ==
    /\ at = "closed" /\ at' = "convert"
    /\ UNCHANGED <<locals, pad, line, history>>

\* The top of the loop ...
Convert ==
    /\ at = "convert" /\ at' = "print"
    /\ pad' = Itoa(number, base)
    /\ spoiled' = FALSE
    /\ UNCHANGED <<locals, line, negatedMin, overflown>>

\* ... where '-' goes in front of a zero that is to become negative.
Show ==
    /\ at = "print" /\ at' = "key"
    /\ line' = [pad EXCEPT !.neg = @ \/ (number = 0 /\ sign)]
    /\ pad' = Nothing
    /\ UNCHANGED <<locals, history>>

\* DebugMonitor converts some address.
Debug(address) ==
    /\ pad' = (IF at = "print" THEN Itoa(address, 16) ELSE pad)
    /\ spoiled' = (spoiled \/ at = "print")
    /\ UNCHANGED <<at, locals, line, negatedMin, overflown>>

\* An int that overflows wraps around.
Wrap(n) == IF n \in Int32 THEN n ELSE MinInt + ((n - MinInt) % (2 * MaxInt + 2))

Again(n, s) ==
    /\ at = "key" /\ at' = "convert"
    /\ number' = Wrap(n) /\ sign' = s
    /\ overflown' = (overflown \/ n \notin Int32)
    /\ line' = Nothing
    /\ UNCHANGED <<pad, spoiled>>

\* Mutant: the digit is left out of account.
Room_without_digit(digit) ==
    IF sign THEN Quotient(MinInt, base) <= number
            ELSE Quotient(MaxInt, base) >= number

\* There is room for the number and one more digit.
Room(digit) ==
    IF sign THEN Quotient(MinInt + digit, base) <= number
            ELSE Quotient(MaxInt - digit, base) >= number

\* A digit there is no room for is ignored.
Digit(digit) ==
    /\ digit < base
    /\ \/ Room(digit) /\ sign  /\ Again(number * base - digit, sign)
       \/ Room(digit) /\ ~sign /\ Again(number * base + digit, sign)
       \/ ~Room(digit) /\ Again(number, sign)
    /\ UNCHANGED <<base, negatedMin>>

\* '-' changes the sign.  INT_MIN has no opposite: on this core the negation leaves
\* it, but its sign afterwards is what the compiler makes of number < 0.
ToggleSign ==
    /\ \/ number = 0 /\ Again(number, ~sign)
       \/ number \notin {0, MinInt} /\ Again(-number, -number < 0)
       \/ number = MinInt /\ \E s \in BOOLEAN : Again(number, s)
    /\ negatedMin' = (negatedMin \/ number = MinInt)
    /\ UNCHANGED base

Initial    == Again(InitNumber, InitNumber < 0) /\ UNCHANGED <<base, negatedMin>>
Zero       == Again(0, FALSE) /\ UNCHANGED <<base, negatedMin>>
RemoveLast == Again(Quotient(number, base), sign) /\ UNCHANGED <<base, negatedMin>>

Character(c) == Again(c, FALSE) /\ UNCHANGED <<base, negatedMin>>

ToggleBase ==
    /\ Again(number, sign)
    /\ base' = (IF base = 10 THEN 16 ELSE 10)
    /\ UNCHANGED negatedMin

\* The call is over and its locals with it.
Close ==
    /\ at' = "closed"
    /\ number' = InitNumber /\ base' = 10 /\ sign' = FALSE
    /\ line' = Nothing
    /\ pad' = Nothing
    /\ negatedMin' = FALSE /\ overflown' = FALSE /\ spoiled' = FALSE

\* RET, or in menu_preset_register the name of a register.
Submit == at = "key" /\ Close

Key ==
    \/ \E digit \in 0 .. 15 : Digit(digit)
    \/ \E c \in 0 .. MaxChar : Character(c)
    \/ ToggleSign \/ Initial \/ Zero \/ RemoveLast \/ ToggleBase

\* Close alone is the debugger's exit, or a fault, in the middle of it.
NumbersNext ==
    Open \/ Convert \/ Show \/ Key \/ Submit \/ Close \/ \E a \in Int32 : Debug(a)

NumbersSpec == NumbersInit /\ [][NumbersNext]_numberVars

-----------------------------------------------------------------------------
NumbersTypeOK ==
    /\ at \in {"closed", "convert", "print", "key"}
    /\ number \in Int32 /\ base \in Bases /\ sign \in BOOLEAN
    /\ negatedMin \in BOOLEAN /\ overflown \in BOOLEAN /\ spoiled \in BOOLEAN

\* However a number is typed its int never overflows, and the sign that the room
\* for the next digit is judged by is the number's own (menu.c:167-224); unless the
\* sign of INT_MIN was changed.
NumberFits ==
    negatedMin \/ (/\ number \in Int32 /\ ~overflown
                   /\ number < 0 => sign
                   /\ number > 0 => ~sign)

\* What is shown while a key is awaited is the number that RET would submit, and the
\* sign the next digit would take; unless the debugger printed in between.
ShownIsNumber ==
    at = "key" /\ ~spoiled =>
        /\ Value(line.digits, base) = Abs(number)
        /\ line.neg <=> number < 0 \/ (number = 0 /\ sign)

=============================================================================
