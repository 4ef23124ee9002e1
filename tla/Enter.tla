-------------------------------- MODULE Enter --------------------------------
(***************************************************************************)
(* The Enter command, monitor_enter() of monitor_cmds/monitor_enter.c:     *)
(* memory is typed over in place, entry by entry, each row of entries on a *)
(* line of the screen.                                                     *)
(*                                                                         *)
(* An entry is the sequence of its halfwords, see UserMemory; a digit can   *)
(* make any of it.  Bytes are entered like halfwords and are left out.     *)
(***************************************************************************)
EXTENDS UserMemory, Sequences

CONSTANTS
    DigitsPerHalfword,  \* 4
    GroupDigits,        \* utoa_pad_w puts '_' after this many digits, 4: of one halfword
                        \* at least, ErasedChars only has room for one '_' in a word
    RowDigits           \* the digits in a row, 32

ASSUME EnterAssumption ==
    /\ RowDigits \in Nat
    /\ DigitsPerHalfword \in Nat \ {0, 1}
    /\ GroupDigits \in Nat /\ GroupDigits >= DigitsPerHalfword

VARIABLES
    type,           \* "hword", "word" or "instruction"; "none": not in monitor_enter
    entAddr, current, digitIdx, col,   \* struct enter_state
    row, line       \* the screen's last line: its address and what follows it

enterVars == <<type, entAddr, current, digitIdx, col, row, line>>

Types == {"hword", "word", "instruction"}

\* ent_type, in halfwords.
Size(t) == IF t = "word" THEN 2 ELSE 1

EnterInit ==
    /\ type = "none"
    /\ entAddr = 0 /\ current = <<>> /\ digitIdx = 0 /\ col = 0
    /\ row = 0 /\ line = <<>>

Entering == type # "none"

-----------------------------------------------------------------------------
\* Mutant: always the first entry's.
Load_short(mem, a, n) == [i \in 1 .. n |-> mem[a]]

\* load_current
Load(mem, a, n) == [i \in 1 .. n |-> mem[a + i - 1]]

\* store_current
Store(mem, a, cur) ==
    [b \in DOMAIN mem |-> IF b \in a .. a + Len(cur) - 1 THEN cur[b - a + 1] ELSE mem[b]]

\* digit_width
DigitWidth(cur) == Len(cur) * DigitsPerHalfword

\* An entry on the screen: a space, the digits and what is between their groups.
PrintedChars(cur) == 1 + DigitWidth(cur) + (DigitWidth(cur) - 1) \div GroupDigits

Put(text, cur) == text \o [k \in 1 .. PrintedChars(cur) |-> <<cur, k>>]

\* Mutant: the '_' is forgotten.
ErasedChars_no_extra == DigitWidth(current) + 1

\* What is erased for an entry: extra_space_in_number is for one '_'.
ErasedChars ==
    DigitWidth(current) + 1 + (IF DigitWidth(current) > GroupDigits THEN 1 ELSE 0)

Erase(text) == SubSeq(text, 1, Len(text) - ErasedChars)

\* Mutant: instructions are taken to be wide.
ColumnOverflow_wide(cur) ==
    IF type = "instruction" THEN col > 0
                            ELSE col + 1 = RowDigits \div DigitWidth(cur)

\* next_column, of whether the row is full with "cur".
ColumnOverflow(cur) ==
    IF type = "instruction" THEN col > 0 \/ ~cur[1]
                            ELSE col + 1 = RowDigits \div DigitWidth(cur)

-----------------------------------------------------------------------------
\* monitor_enter up to the first key.
Start(t, a) ==
    /\ ~Entering
    /\ a + Size(t) - 1 <= Top + 1
    /\ type' = t /\ entAddr' = a /\ row' = a
    /\ current' = Load(looksWide, a, Size(t))
    /\ digitIdx' = 0 /\ col' = 0
    /\ line' = Put(<<>>, current')
    /\ UNCHANGED looksWide

\* The loop from one key to the next, with an entry that is not complete ...
Incomplete(a, cur, idx, c, text) ==
    /\ entAddr' = a /\ current' = cur /\ digitIdx' = idx /\ col' = c
    /\ line' = Put(text, cur)
    /\ UNCHANGED <<looksWide, type, row>>

\* ... and with one that is: it is stored, the next one is loaded and printed.
Complete(cur) ==
    /\ entAddr + 2 * Len(cur) - 1 <= Top + 1
    /\ looksWide' = Store(looksWide, entAddr, cur)
    /\ entAddr' = entAddr + Len(cur)
    /\ current' = Load(looksWide', entAddr', Len(cur))
    /\ digitIdx' = 0
    /\ \/ /\ ColumnOverflow(cur)
          /\ col' = 0 /\ row' = entAddr'
          /\ line' = Put(<<>>, current')
       \/ /\ ~ColumnOverflow(cur)
          /\ col' = col + 1
          /\ line' = Put(Put(Erase(line), cur), current')
          /\ UNCHANGED row
    /\ UNCHANGED type

\* A digit, and what it makes of the entry.
Digit(cur) ==
    /\ Entering
    /\ \/ digitIdx + 1 < DigitWidth(cur)
          /\ Incomplete(entAddr, cur, digitIdx + 1, col, Erase(line))
       \/ digitIdx + 1 >= DigitWidth(cur) /\ Complete(cur)

\* A space takes the entry as it is shown.
Space == Entering /\ Complete(current)

Reload(a, c, text) == Incomplete(a, Load(looksWide, a, Len(current)), 0, c, text)

\* Mutant: back to the entry before without loading it.
GoBack_not_loaded ==
    /\ Entering /\ digitIdx = 0 /\ col > 0
    /\ Incomplete(entAddr - Len(current), current, 0, col - 1, Erase(Erase(line)))

\* '\b' goes back an entry, though not to the row before ...
GoBack ==
    /\ Entering /\ digitIdx = 0 /\ col > 0
    /\ Reload(entAddr - Len(current), col - 1, Erase(Erase(line)))

StayAtRowStart ==
    /\ Entering /\ digitIdx = 0 /\ col = 0
    /\ Incomplete(entAddr, current, digitIdx, col, Erase(line))

\* ... or takes back the digits of this one.
TakeBack ==
    /\ Entering /\ digitIdx > 0
    /\ Reload(entAddr, col, Erase(line))

\* RET stores the entry, complete or not, and leaves.
Return ==
    /\ Entering
    /\ looksWide' = Store(looksWide, entAddr, current)
    /\ type' = "none"
    /\ entAddr' = 0 /\ current' = <<>> /\ digitIdx' = 0 /\ col' = 0
    /\ row' = 0 /\ line' = <<>>

EnterKey ==
    \/ \E cur \in [1 .. Len(current) -> BOOLEAN] : Digit(cur)
    \/ Space \/ GoBack \/ StayAtRowStart \/ TakeBack \/ Return

-----------------------------------------------------------------------------
EnterTypeOK ==
    /\ type \in Types \cup {"none"}
    /\ entAddr \in 0 .. Top + 1 /\ row \in 0 .. Top + 1
    /\ Entering => current \in [1 .. Size(type) -> BOOLEAN]
    /\ digitIdx \in Nat /\ col \in Nat

\* The entry of column c of the row, as memory has it.
InMemory(c) == Load(looksWide, row + c * Len(current), Len(current))

\* The line is the row: the address it begins with, one entry per column as it is
\* in memory, and last the entry that is being typed, however often it was erased
\* and printed (monitor_enter.c:60-72, 109-143).
LineShowsMemory ==
    Entering =>
        /\ entAddr = row + col * Len(current)
        /\ Len(line) = (col + 1) * PrintedChars(current)
        /\ \A i \in 1 .. Len(line) :
              LET c == (i - 1) \div PrintedChars(current)
                  k == 1 + ((i - 1) % PrintedChars(current))
              IN  line[i] = <<IF c = col THEN current ELSE InMemory(c), k>>

\* Entering instructions, a row is one instruction: only a wide one has a second
\* column (monitor_enter.c:97-100).
RowIsOneInstruction ==
    type = "instruction" => col = 0 \/ (col = 1 /\ looksWide[row])

\* Memory only changes where and when digits were typed: an entry that was only come
\* by, forward or back, is stored as it was (monitor_enter.c:53-87).
OnlyTypedChanges ==
    [][Entering /\ looksWide' # looksWide =>
          /\ digitIdx > 0
          /\ \A b \in DOMAIN looksWide \ (entAddr .. entAddr + Len(current) - 1) :
                looksWide'[b] = looksWide[b]]_<<looksWide, enterVars>>

=============================================================================
