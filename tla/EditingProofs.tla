---------------------------- MODULE EditingProofs ----------------------------
(***************************************************************************)
(* The assembler, and Assemble and Enter one after the other, for every    *)
(* size of memory, section, row and number.                                *)
(*                                                                         *)
(* First the assembler alone: its cursor stays in what the session shows,  *)
(* and the session in its section.  Both follow from Settle, which every   *)
(* command ends with: it keeps the cursor up to the end and the section's  *)
(* size up to it, if it is given a cursor that is not before the start.    *)
(* Then what the walk over instructions comes by.                          *)
(*                                                                         *)
(* Then the two together: all this still holds with Enter writing in       *)
(* between, and Enter only changes what was typed.  The invariant of Enter *)
(* is Typing: the entry is where the row and the column say, and is what   *)
(* memory has there as long as no digit of it was typed.  With it goes     *)
(* LineInv: the line is the entries of the row, one after the other, each  *)
(* with all its characters.                                                *)
(***************************************************************************)
EXTENDS Editing, Induction, SequenceTheorems, TLAPS

Inv ==
    /\ secSize \in Nat
    /\ start \in Int /\ end \in Int /\ addr \in Int
    /\ CursorInSession
    /\ SectionCoversSession

LEMMA InitInv == Init => Inv
BY DEF Init, Inv, CursorInSession, SectionCoversSession, InMenu

\* Settle with a cursor in the session and an end it does not move down below the
\* start keeps the invariant.
LEMMA SettleInv ==
    ASSUME Inv, InMenu, UNCHANGED <<pc, start, hasSection>>,
           NEW a \in Int, NEW e \in Int, start <= a, start <= e, e <= end,
           Settle(a, e)
    PROVE  Inv'
BY DEF Inv, CursorInSession, SectionCoversSession, InMenu, Settle

LEMMA CloseInv ==
    ASSUME Inv, Close
    PROVE  Inv'
BY DEF Inv, Close, CursorInSession, SectionCoversSession, InMenu

\* A session is opened with its cursor clamped to the section, or without a section.
LEMMA OpenSectionInv ==
    ASSUME Inv, NEW a \in Int, OpenSection(a)
    PROVE  Inv'
BY UserMemoryAssumption
   DEF OpenSection, Inv, CursorInSession, SectionCoversSession, InMenu

LEMMA OpenAnywhereInv ==
    ASSUME Inv, NEW a \in Int, OpenAnywhere(a)
    PROVE  Inv'
BY DEF OpenAnywhere, Inv, CursorInSession, SectionCoversSession, InMenu

\* The previous instruction is between the start and the place it was looked for from.
LEMMA PreviousInSession ==
    ASSUME start \in Int, NEW a \in Int, NEW p \in Previous(a)
    PROVE  p \in Int /\ start <= p /\ p < a
<1>1. p \in Address /\ p >= start /\ Increment(p) = a
  BY DEF Previous, Walk
<1>2. p \in Int
  BY <1>1, UserMemoryAssumption DEF Address
<1>3. Width(p) \in {1, 2}
  BY DEF Width
<1>4. QED
  BY <1>1, <1>2, <1>3 DEF Increment

LEMMA MoveInv ==
    ASSUME Inv, ToStart \/ ToEnd \/ Up \/ Down \/ Rewind
    PROVE  Inv'
<1>0. /\ InMenu /\ UNCHANGED <<pc, start, hasSection>>
      /\ start \in Int /\ end \in Int /\ addr \in Int
      /\ start <= addr /\ addr <= end /\ start <= end
  BY DEF ToStart, ToEnd, Up, Down, Rewind, Inv, CursorInSession
<1>1. CASE ToStart \/ ToEnd
  BY <1>0, <1>1, SettleInv DEF ToStart, ToEnd
<1>2. CASE Up
  <2>1. PICK p \in Previous(addr) : Settle(p, end)
    BY <1>2 DEF Up
  <2>2. p \in Int /\ start <= p
    BY <1>0, <2>1, PreviousInSession
  <2>3. QED
    BY <1>0, <2>1, <2>2, SettleInv
<1>3. CASE Down
  <2>1. Increment(addr) \in Int /\ Increment(addr) > addr
    BY <1>0 DEF Increment, Width
  <2>2. QED
    BY <1>0, <1>3, <2>1, SettleInv DEF Down
<1>4. CASE Rewind
  <2>1. PICK e \in Previous(end) : Settle(IF addr > e THEN e ELSE addr, e)
    BY <1>4 DEF Rewind
  <2>2. e \in Int /\ start <= e /\ e < end
    BY <1>0, <2>1, PreviousInSession
  <2>3. /\ (IF addr > e THEN e ELSE addr) \in Int
        /\ start <= (IF addr > e THEN e ELSE addr)
    BY <1>0, <2>2
  <2>4. e <= end
    BY <1>0, <2>2
  <2>5. QED
    BY <1>0, <2>1, <2>2, <2>3, <2>4, SettleInv
<1>5. QED
  BY <1>1, <1>2, <1>3, <1>4

LEMMA AssembleInv ==
    ASSUME Inv, NEW wide \in BOOLEAN, NEW second \in BOOLEAN, Assemble(wide, second)
    PROVE  Inv'
<1>1. /\ InMenu /\ UNCHANGED <<pc, start, hasSection>>
      /\ start \in Int /\ end \in Int /\ addr \in Int
      /\ start <= addr /\ addr <= end /\ start <= end
  BY DEF Assemble, Inv, CursorInSession
<1>2. PICK a \in Int : start <= a /\ Settle(a, end)
  BY <1>1 DEF Assemble
<1>3. QED
  BY <1>1, <1>2, SettleInv

LEMMA NextInv == Inv /\ [Next]_vars => Inv'
<1> SUFFICES ASSUME Inv, [Next]_vars
             PROVE  Inv'
  OBVIOUS
<1>1. ASSUME NEW typed \in Address, NEW a \in Address, OpenAt(typed, a)
      PROVE  Inv'
  <2>1. a \in Int
    BY UserMemoryAssumption DEF Address
  <2>2. QED
    BY <1>1, <2>1, OpenSectionInv, OpenAnywhereInv DEF OpenAt
<1>2. CASE OpenUserSection
  <2>1. Top + 1 \in Int
    BY UserMemoryAssumption
  <2>2. QED
    BY <1>2, <2>1, OpenSectionInv DEF OpenUserSection
<1>3. ASSUME NEW wide \in BOOLEAN, NEW second \in BOOLEAN, Assemble(wide, second)
      PROVE  Inv'
  BY <1>3, AssembleInv
<1>4. CASE ToStart \/ ToEnd \/ Up \/ Down \/ Rewind
  BY <1>4, MoveInv
<1>5. CASE LostFault \/ Quit
  BY <1>5, CloseInv DEF LostFault, Quit
<1>6. CASE Lose
  BY <1>6 DEF Lose, session, Inv, CursorInSession, SectionCoversSession, InMenu
<1>7. CASE UNCHANGED vars
  BY <1>7 DEF vars, session, Inv, CursorInSession, SectionCoversSession, InMenu
<1>8. QED
  BY <1>1, <1>2, <1>3, <1>4, <1>5, <1>6, <1>7 DEF Next

-----------------------------------------------------------------------------
(***************************************************************************)
(* The walk over instructions, in any memory.  Walk is a recursive         *)
(* function; that there is one is shown by giving it: it is the smallest   *)
(* set of places that has the first and, with a place, the next one.       *)
(***************************************************************************)
Next1(mem, a) == a + (IF mem[a] THEN 2 ELSE 1)

WalkIn(mem, from) ==
    LET on[a \in Address] ==
            \/ a = from
            \/ \E p \in {a - 1, a - 2} : p >= from /\ on[p] /\ Next1(mem, p) = a
    IN  {a \in Address : a >= from /\ on[a]}

\* A place is one the walk comes by when it is the first, or after one.
Reached(mem, from, W, a) ==
    a = from \/ \E p \in {a - 1, a - 2} : p >= from /\ p \in W /\ Next1(mem, p) = a

LEMMA AddressIs == Address \subseteq Nat /\ \A a \in Address : \A b \in Nat : b <= a => b \in Address
BY UserMemoryAssumption DEF Address

LEMMA Next1Is ==
    ASSUME NEW mem, NEW a \in Nat
    PROVE  Next1(mem, a) \in Nat /\ Next1(mem, a) \in {a + 1, a + 2}
BY DEF Next1

LEMMA SmallestWalk ==
    ASSUME NEW mem, NEW from \in Address
    PROVE  \E W \in SUBSET Address : \A a \in Address : a \in W <=> Reached(mem, from, W, a)
<1> DEFINE Closed == {S \in SUBSET Address :
                        /\ from \in S
                        /\ \A p \in S : Next1(mem, p) \in Address => Next1(mem, p) \in S}
           W == {a \in Address : \A S \in Closed : a \in S}
<1>1. W \in Closed
  OBVIOUS
<1>2. \A S \in Closed : W \subseteq S
  OBVIOUS
<1>3. \A S : S \in Closed <=> /\ S \subseteq Address /\ from \in S
                            /\ \A p \in S : Next1(mem, p) \in Address => Next1(mem, p) \in S
  OBVIOUS
<1> HIDE DEF Closed, W
<1>4. \A p \in W : p \in Nat /\ p >= from
  <2> DEFINE S == {a \in Address : a >= from}
  <2>1. S \in Closed
    <3>1. S \subseteq Address /\ from \in S
      BY AddressIs
    <3>2. \A p \in S : Next1(mem, p) \in Address => Next1(mem, p) \in S
      BY AddressIs, Next1Is
    <3> HIDE DEF S
    <3>3. QED
      BY <1>3, <3>1, <3>2
  <2>2. QED
    BY <1>2, <2>1, AddressIs
<1>5. ASSUME NEW a \in Address, Reached(mem, from, W, a)
      PROVE  a \in W
  BY <1>1, <1>3, <1>5 DEF Reached
<1>6. ASSUME NEW a \in W, ~Reached(mem, from, W, a)
      PROVE  FALSE
  <2> DEFINE S == W \ {a}
  <2>1. S \subseteq Address /\ from \in S
    BY <1>1, <1>3, <1>6 DEF Reached
  <2>2. ASSUME NEW p \in S, Next1(mem, p) \in Address
        PROVE  Next1(mem, p) \in S
    <3>1. Next1(mem, p) \in W /\ p \in W /\ p \in Nat /\ p >= from
      BY <1>1, <1>3, <1>4, <2>2
    <3>2. CASE Next1(mem, p) = a
      <4>1. p \in {a - 1, a - 2}
        BY <3>1, <3>2, Next1Is
      <4>2. QED
        BY <1>6, <3>1, <3>2, <4>1 DEF Reached
    <3>3. QED
      BY <3>1, <3>2
  <2>3. S \in Closed
    <3> HIDE DEF S
    <3>1. QED
      BY <1>3, <2>1, <2>2
  <2>4. QED
    BY <1>2, <2>3
<1>7. W \in SUBSET Address /\ \A a \in Address : a \in W <=> Reached(mem, from, W, a)
  BY <1>1, <1>3, <1>5, <1>6
<1>8. QED
  BY <1>7

LEMMA WalkIs ==
    ASSUME NEW mem, NEW from \in Address
    PROVE  \A a \in Address :
              a \in WalkIn(mem, from) <=> a >= from /\ Reached(mem, from, WalkIn(mem, from), a)
<1> DEFINE Step(f) ==
              [a \in Address |->
                  \/ a = from
                  \/ \E p \in {a - 1, a - 2} : p >= from /\ f[p] /\ Next1(mem, p) = a]
           on == CHOOSE f : f = Step(f)
<1>1. WalkIn(mem, from) = {a \in Address : a >= from /\ on[a]}
  BY DEF WalkIn
<1>2. \E f : f = Step(f)
  <2>1. PICK W \in SUBSET Address : \A a \in Address : a \in W <=> Reached(mem, from, W, a)
    BY SmallestWalk
  <2> DEFINE f == [a \in Address |-> a \in W]
  <2>2. ASSUME NEW a \in Address
        PROVE  f[a] = Step(f)[a]
    <3>1. \A p \in {a - 1, a - 2} : p >= from => p \in Address
      BY AddressIs
    <3>2. (a \in W) <=> \/ a = from
                       \/ \E p \in {a - 1, a - 2} : p >= from /\ p \in W /\ Next1(mem, p) = a
      BY <2>1 DEF Reached
    <3>3. (a \in W) <=> \/ a = from
                       \/ \E p \in {a - 1, a - 2} : p >= from /\ f[p] /\ Next1(mem, p) = a
      BY <3>1, <3>2
    <3>4. f[a] = (a \in W)
      OBVIOUS
    <3> DEFINE R == \/ a = from
                    \/ \E p \in {a - 1, a - 2} : p >= from /\ f[p] /\ Next1(mem, p) = a
    <3>5. Step(f)[a] = R
      BY Zenon
    <3>5a. R \in BOOLEAN /\ (a \in W) \in BOOLEAN
      OBVIOUS
    <3>5b. (a \in W) <=> R
      BY <3>3
    <3> HIDE DEF R, f
    <3>6. (a \in W) = R
      BY <3>5a, <3>5b, Zenon
    <3>7. f[a] = R
      BY <3>4, <3>6, Zenon
    <3>8. QED
      BY <3>5, <3>7, Zenon
  <2>3. f = Step(f)
    BY <2>2
  <2>4. QED
    BY <2>3
<1>3. on = Step(on)
  BY <1>2
<1> HIDE DEF on
<1>4. ASSUME NEW a \in Address
      PROVE  a \in WalkIn(mem, from) <=> a >= from /\ Reached(mem, from, WalkIn(mem, from), a)
  <2>1. on[a] <=> \/ a = from
                  \/ \E p \in {a - 1, a - 2} : p >= from /\ on[p] /\ Next1(mem, p) = a
    BY <1>3
  <2>2. \A p \in {a - 1, a - 2} : p >= from => p \in Address
    BY AddressIs
  <2>3. \A p \in {a - 1, a - 2} : p >= from => (on[p] <=> p \in WalkIn(mem, from))
    BY <1>1, <2>2
  <2>4. QED
    BY <1>1, <2>1, <2>3 DEF Reached
<1>5. QED
  BY <1>4

\* The walk has its first place and with a place the next one, and every other place
\* has one before it.
LEMMA WalkFacts ==
    ASSUME NEW mem, NEW from \in Address
    PROVE  /\ WalkIn(mem, from) \subseteq Address
           /\ from \in WalkIn(mem, from)
           /\ \A a \in WalkIn(mem, from) :
                 /\ a >= from
                 /\ Next1(mem, a) \in Address => Next1(mem, a) \in WalkIn(mem, from)
                 /\ a # from => \E p \in WalkIn(mem, from) : p < a /\ Next1(mem, p) = a
<1> DEFINE W == WalkIn(mem, from)
<1>1. W \subseteq Address
  BY DEF WalkIn
<1>2. \A a \in Address : a \in W <=> a >= from /\ Reached(mem, from, W, a)
  BY WalkIs
<1> HIDE DEF W
<1>3. from \in W
  BY <1>2, AddressIs DEF Reached
<1>4. ASSUME NEW a \in W, Next1(mem, a) \in Address
      PROVE  Next1(mem, a) \in W
  <2>1. a \in Nat /\ from \in Nat /\ a >= from
    BY <1>1, <1>2, AddressIs
  <2>2. a \in {Next1(mem, a) - 1, Next1(mem, a) - 2} /\ Next1(mem, a) >= from
    BY <2>1, Next1Is
  <2>3. QED
    BY <1>2, <1>4, <2>1, <2>2 DEF Reached
<1>5. ASSUME NEW a \in W, a # from
      PROVE  \E p \in W : p < a /\ Next1(mem, p) = a
  <2>1. PICK p \in {a - 1, a - 2} : p \in W /\ Next1(mem, p) = a
    BY <1>1, <1>2, <1>5 DEF Reached
  <2>2. p < a
    BY <1>1, AddressIs
  <2>3. QED
    BY <2>1, <2>2
<1>6. QED
  BY <1>1, <1>2, <1>3, <1>4, <1>5 DEF W

\* The walk passes no place it comes by: an instruction on it ends where the next
\* one begins.
LEMMA WalkSteps ==
    ASSUME NEW mem, NEW from \in Address,
           NEW a \in WalkIn(mem, from), NEW c \in WalkIn(mem, from), a < c
    PROVE  Next1(mem, a) <= c
<1> DEFINE W   == WalkIn(mem, from)
           Bad == {e \in W : \E b \in W : b < e /\ ~(Next1(mem, b) <= e)}
<1>1. W \in SUBSET Nat /\ \A b \in W : Next1(mem, b) \in Nat
  BY WalkFacts, AddressIs, Next1Is
<1>2. ASSUME Bad # {}
      PROVE  FALSE
  <2>1. PICK e \in Bad : \A x \in Bad : e <= x
    BY <1>1, <1>2, Least
  <2>2. PICK b \in W : b < e /\ ~(Next1(mem, b) <= e)
    BY <2>1
  <2>3. e \in W /\ e \in Nat /\ b \in Nat /\ b >= from /\ from \in Nat
    BY <1>1, <2>1, WalkFacts, AddressIs
  <2>4. PICK p \in W : p < e /\ Next1(mem, p) = e
    BY <2>2, <2>3, WalkFacts
  <2>5. p \in Nat /\ p \notin Bad /\ b \notin Bad
    BY <1>1, <2>1, <2>2, <2>3, <2>4
  <2>6. CASE p < b
    BY <1>1, <2>2, <2>4, <2>5, <2>6
  <2>7. CASE b < p
    BY <1>1, <2>2, <2>3, <2>4, <2>5, <2>7
  <2>8. CASE p = b
    BY <1>1, <2>2, <2>3, <2>4, <2>8
  <2>9. QED
    BY <2>3, <2>5, <2>6, <2>7, <2>8
<1>3. a \in W /\ c \in W
  OBVIOUS
<1> HIDE DEF W
<1>4. QED
  BY <1>2, <1>3

\* The walk up to a place only depends on the instructions it comes by before it.
LEMMA WalkSame ==
    ASSUME NEW mem, NEW other, NEW from \in Address, NEW b \in Address,
           \A p \in WalkIn(mem, from) : p < b => other[p] = mem[p]
    PROVE  \A a \in Address : a <= b => (a \in WalkIn(mem, from) <=> a \in WalkIn(other, from))
<1> DEFINE W   == WalkIn(mem, from)
           V   == WalkIn(other, from)
           Bad == {a \in Address : a <= b /\ ~(a \in W <=> a \in V)}
<1>1. Bad \in SUBSET Nat /\ Address \subseteq Nat
  BY AddressIs
<1>2. ASSUME Bad # {}
      PROVE  FALSE
  <2>1. PICK a \in Bad : \A x \in Bad : a <= x
    BY <1>1, <1>2, Least
  <2>2. a \in Address /\ a \in Nat /\ a <= b /\ b \in Nat
    BY <1>1
  <2>3. a # from
    BY WalkFacts
  <2>4. \A p \in Address : p < a => (p \in W <=> p \in V) /\ p < b
    BY <1>1, <2>1, <2>2
  <2>5. \A p \in W : p < a => Next1(other, p) = Next1(mem, p)
    <3>1. \A p \in W : p < a => other[p] = mem[p]
      BY <2>4, WalkFacts
    <3>2. QED
      BY <3>1 DEF Next1
  <2>6. CASE a \in W
    <3>1. PICK p \in W : p < a /\ Next1(mem, p) = a
      BY <2>3, <2>6, WalkFacts
    <3>2. p \in V /\ Next1(other, p) = a
      BY <2>4, <2>5, <3>1, WalkFacts
    <3>3. a \in V
      BY <2>2, <3>2, WalkFacts
    <3>4. QED
      BY <2>6, <3>3
  <2>7. CASE a \in V
    <3>1. PICK p \in V : p < a /\ Next1(other, p) = a
      BY <2>3, <2>7, WalkFacts
    <3>2. p \in W /\ Next1(mem, p) = a
      BY <2>4, <2>5, <3>1, WalkFacts
    <3>3. a \in W
      BY <2>2, <3>2, WalkFacts
    <3>4. QED
      BY <2>7, <3>3
  <2>8. QED
    BY <2>6, <2>7
<1>3. QED
  BY <1>2

\* The session's walk is that of the memory there is.
LEMMA WalkUnprimed ==
    /\ \A from : Walk(from) = WalkIn(looksWide, from)
    /\ \A a : Increment(a) = Next1(looksWide, a)
BY DEF Walk, WalkIn, Increment, Width, Next1

LEMMA WalkPrimed == Walk(start)' = WalkIn(looksWide', start')
BY DEF Walk, WalkIn, Increment, Width, Next1

\* There is at most one instruction before a place, so that previous_thumb_instruction
\* need not look further than the first it comes by (monitor_assemble.c:19-35).
THEOREM PreviousIsOne ==
    ASSUME start \in Address, NEW a \in Address,
           NEW p \in Previous(a), NEW q \in Previous(a)
    PROVE  p = q
<1> DEFINE W == WalkIn(looksWide, start)
<1>1. /\ p \in W /\ q \in W
      /\ Next1(looksWide, p) = a /\ Next1(looksWide, q) = a
  BY WalkUnprimed DEF Previous
<1>2. p \in Nat /\ q \in Nat
  BY <1>1, WalkFacts, AddressIs
<1>3. ~(p < q)
  BY <1>1, <1>2, WalkSteps, Next1Is
<1>4. ~(q < p)
  BY <1>1, <1>2, WalkSteps, Next1Is
<1>5. QED
  BY <1>2, <1>3, <1>4

\* The cursor is never outside of what the session shows (monitor_assemble.c:445-467).
THEOREM CursorStaysInSession == Spec => []CursorInSession
<1>1. Inv => CursorInSession
  BY DEF Inv
<1>2. QED
  BY <1>1, InitInv, NextInv, PTL DEF Spec

\* What is in a session with a section is in the section (monitor_assemble.c:461-468).
THEOREM SessionStaysCovered == Spec => []SectionCoversSession
<1>1. Inv => SectionCoversSession
  BY DEF Inv
<1>2. QED
  BY <1>1, InitInv, NextInv, PTL DEF Spec

-----------------------------------------------------------------------------
(***************************************************************************)
(* Assemble and Enter                                                      *)
(***************************************************************************)
\* The session is in memory, in a section it is the section's.
SessionInv ==
    /\ Inv
    /\ TypeOK
    /\ SectionStart + secSize <= Top
    /\ hasSection => start = SectionStart

Typing ==
    Entering =>
        /\ current \in [1 .. Size(type) -> BOOLEAN]
        /\ entAddr = row + (IF type = "word" THEN 2 * col ELSE col)
        /\ entAddr + Size(type) - 1 <= Top + 1
        /\ digitIdx = 0 => current = Load(looksWide, entAddr, Size(type))

EditInv ==
    /\ SessionInv
    /\ EnterTypeOK
    /\ Typing
    /\ RowIsOneInstruction

-----------------------------------------------------------------------------
LEMMA EditInitInv == EditingInit => EditInv
<1> SUFFICES ASSUME EditingInit
             PROVE  EditInv
  OBVIOUS
<1>1. Inv
  BY InitInv DEF EditingInit
<1>2. TypeOK /\ SectionStart + secSize <= Top
  <2>1. 0 \in Address /\ 0 \in Nat /\ SectionStart + 0 <= Top
    BY UserMemoryAssumption DEF Address
  <2>2. QED
    BY <2>1 DEF EditingInit, Init, TypeOK
<1>3. ~hasSection /\ ~Entering /\ type = "none"
  BY DEF EditingInit, Init, EnterInit, Entering
<1>4. EnterTypeOK
  BY UserMemoryAssumption DEF EditingInit, EnterInit, EnterTypeOK, Entering
<1>5. QED
  BY <1>1, <1>2, <1>3, <1>4 DEF EditInv, SessionInv, Typing, RowIsOneInstruction

-----------------------------------------------------------------------------
(* The assembler's session.                                                 *)

\* Whatever a command ends with Settle keeps the session in memory, and the section.
LEMMA SettleInMemory ==
    ASSUME SessionInv, InMenu, UNCHANGED <<pc, start, hasSection, disturbed>>,
           looksWide' \in AnyMemory,
           NEW a \in Address, NEW e \in Address, start <= a,
           Settle(a, e), Inv'
    PROVE  SessionInv'
<1>1. a \in Int /\ e \in Int /\ start \in Int /\ Top \in Nat /\ SectionStart \in Nat
  BY UserMemoryAssumption DEF Address, SessionInv, TypeOK
<1>2. addr' \in Address /\ end' \in Address
  BY DEF Settle
<1>3. secSize' \in Nat /\ SectionStart + secSize' <= Top
  BY <1>1 DEF Settle, Address, SessionInv, TypeOK
<1>4. QED
  BY <1>2, <1>3 DEF SessionInv, TypeOK

LEMMA OpenInMemory ==
    ASSUME SessionInv, NEW a \in 0 .. Top + 1, Inv',
           OpenSection(a) \/ (OpenAnywhere(a) /\ a \in Address)
    PROVE  SessionInv'
<1>1. CASE OpenSection(a)
  <2>1. /\ start' = SectionStart /\ end' = SectionStart + secSize
        /\ addr' \in {start', end', a} /\ (addr' = a => a <= end')
        /\ UNCHANGED <<looksWide, secSize>> /\ hasSection' = TRUE /\ pc' = "menu"
        /\ disturbed' \in BOOLEAN
    BY <1>1 DEF OpenSection
  <2>2. start' \in Address /\ end' \in Address /\ addr' \in Address
    BY <2>1, UserMemoryAssumption DEF Address, SessionInv, TypeOK
  <2>3. QED
    BY <2>1, <2>2 DEF SessionInv, TypeOK
<1>2. CASE OpenAnywhere(a) /\ a \in Address
  BY <1>2 DEF OpenAnywhere, SessionInv, TypeOK
<1>3. QED
  BY <1>1, <1>2

LEMMA AssembleStepInv == SessionInv /\ [Next]_vars => SessionInv'
<1> SUFFICES ASSUME SessionInv, [Next]_vars
             PROVE  SessionInv'
  OBVIOUS
<1>0. /\ Inv' /\ start \in Address /\ end \in Address /\ addr \in Address
      /\ looksWide \in AnyMemory /\ Top \in Nat /\ start \in Int
  BY NextInv, UserMemoryAssumption DEF SessionInv, TypeOK, Address
<1>1. ASSUME NEW typed \in Address, NEW a \in Address, OpenAt(typed, a)
      PROVE  SessionInv'
  BY <1>0, <1>1, OpenInMemory DEF OpenAt, Address
<1>2. CASE OpenUserSection
  <2>1. Top + 1 \in 0 .. Top + 1
    BY <1>0
  <2>2. QED
    BY <1>0, <1>2, <2>1, OpenInMemory DEF OpenUserSection
<1>3. ASSUME NEW wide \in BOOLEAN, NEW second \in BOOLEAN, Assemble(wide, second)
      PROVE  SessionInv'
  <2>1. looksWide' \in AnyMemory
    BY <1>0, <1>3 DEF Assemble, AnyMemory
  <2>2. disturbed' \in BOOLEAN
    BY <1>3 DEF Assemble
  <2> DEFINE past == addr + (IF wide THEN 2 ELSE 1)
  <2>3. past \in Address /\ start <= past
    BY <1>0, <1>3 DEF Assemble, Address, SessionInv, Inv, CursorInSession
  <2>4. past \in Int /\ end \in Int /\ Settle(past, end)
        /\ InMenu /\ UNCHANGED <<pc, start, hasSection>>
    BY <1>0, <1>3, <2>3 DEF Assemble, Address
  <2>5. addr' \in Address /\ end' \in Address
    BY <1>0, <2>3, <2>4 DEF Settle
  <2>6. secSize' \in Nat /\ SectionStart + secSize' <= Top
    BY <1>0, <2>3, <2>4 DEF Settle, Address, SessionInv, TypeOK
  <2>7. QED
    BY <1>0, <2>1, <2>2, <2>4, <2>5, <2>6 DEF SessionInv, TypeOK
<1>4. CASE ToStart \/ ToEnd \/ Up \/ Down \/ Rewind
  <2>0. /\ InMenu /\ UNCHANGED <<looksWide, pc, start, hasSection, disturbed>>
        /\ start <= addr /\ start <= end
    BY <1>0, <1>4 DEF ToStart, ToEnd, Up, Down, Rewind, SessionInv, Inv, CursorInSession,
                      Address
  <2>1. CASE ToStart \/ ToEnd
    BY <1>0, <2>0, <2>1, SettleInMemory DEF ToStart, ToEnd
  <2>2. CASE Up
    <3>1. PICK p \in Previous(addr) : Settle(p, end)
      BY <2>2 DEF Up
    <3>2. p \in Address /\ start <= p
      BY <1>0, <3>1 DEF Previous, Walk, Address
    <3>3. QED
      BY <1>0, <2>0, <3>1, <3>2, SettleInMemory
  <2>3. CASE Down
    <3>1. Increment(addr) \in Address /\ start <= Increment(addr)
      BY <1>0, <2>0, <2>3 DEF Down, Increment, Width, Address
    <3>2. QED
      BY <1>0, <2>0, <2>3, <3>1, SettleInMemory DEF Down
  <2>4. CASE Rewind
    <3>1. PICK e \in Previous(end) : Settle(IF addr > e THEN e ELSE addr, e)
      BY <2>4 DEF Rewind
    <3>2. e \in Address /\ start <= e
      BY <1>0, <3>1 DEF Previous, Walk, Address
    <3>3. /\ (IF addr > e THEN e ELSE addr) \in Address
          /\ start <= (IF addr > e THEN e ELSE addr)
      BY <1>0, <2>0, <3>2
    <3>4. QED
      BY <1>0, <2>0, <3>1, <3>2, <3>3, SettleInMemory
  <2>5. QED
    BY <1>4, <2>1, <2>2, <2>3, <2>4
<1>5. CASE LostFault \/ Quit
  <2>1. 0 \in Address
    BY <1>0 DEF Address
  <2>2. Close
    BY <1>5 DEF LostFault, Quit
  <2>3. QED
    BY <1>0, <2>1, <2>2 DEF Close, SessionInv, TypeOK
<1>6. CASE Lose
  BY <1>0, <1>6 DEF Lose, session, SessionInv, TypeOK
<1>7. CASE UNCHANGED vars
  BY <1>0, <1>7 DEF vars, session, SessionInv, TypeOK
<1>8. QED
  BY <1>1, <1>2, <1>3, <1>4, <1>5, <1>6, <1>7 DEF Next

\* An instruction that is assembled over one of its own width, or at the end, leaves
\* the walk up to the end as it was, and is on it.
LEMMA AssembleOn ==
    ASSUME SessionInv, OnInstructions, ~disturbed',
           NEW wide \in BOOLEAN, NEW second \in BOOLEAN, Assemble(wide, second)
    PROVE  OnInstructions'
<1> DEFINE W   == WalkIn(looksWide, start)
           V   == WalkIn(looksWide', start)
           past == addr + (IF wide THEN 2 ELSE 1)
<1>1. /\ InMenu /\ start' = start /\ Settle(past, end) /\ past <= Top /\ pc' = pc
      /\ ~disturbed /\ (addr < end => wide = looksWide[addr])
  BY DEF Assemble
<1>2. /\ start \in Address /\ addr \in W /\ end \in W
      /\ start <= addr /\ addr <= end
  BY <1>1, WalkUnprimed DEF SessionInv, TypeOK, OnInstructions, Inv, CursorInSession
<1>3. /\ addr \in Address /\ end \in Address /\ addr \in Nat /\ end \in Nat /\ Top \in Nat
      /\ past \in Nat /\ past \in Address
  BY <1>1, <1>2, UserMemoryAssumption DEF SessionInv, TypeOK, Address
<1>4. /\ looksWide'[addr] = wide
      /\ \A p \in Address : p # addr /\ (p # addr + 1 \/ ~wide) => looksWide'[p] = looksWide[p]
  <2>1. looksWide \in [0 .. Top + 1 -> BOOLEAN] /\ addr \in 0 .. Top + 1
        /\ addr + 1 \in 0 .. Top + 1 /\ addr + 1 # addr
        /\ \A p \in Address : p \in 0 .. Top + 1
    BY <1>3 DEF SessionInv, TypeOK, AnyMemory, Address
  <2>2. looksWide' = [looksWide EXCEPT ![addr] = wide,
                                       ![addr + 1] = IF wide THEN second ELSE @]
    BY DEF Assemble
  <2>3. QED
    BY <2>1, <2>2
<1> HIDE DEF W, V
<1>5. \A a \in W : a < end => a < addr \/ a = addr \/ a >= Next1(looksWide, addr)
  <2>1. ASSUME NEW a \in W, a > addr
        PROVE  a >= Next1(looksWide, addr)
    <3>1. Next1(looksWide, addr) <= a
      BY <1>2, <2>1, WalkSteps DEF W
    <3>2. a \in Nat /\ Next1(looksWide, addr) \in Nat
      BY <1>2, <1>3, WalkFacts, AddressIs, Next1Is DEF W
    <3>3. QED
      BY <3>1, <3>2
  <2>2. \A a \in W : a \in Nat
    BY <1>2, WalkFacts, AddressIs DEF W
  <2>3. QED
    BY <1>3, <2>1, <2>2
<1>6. \A p \in W : p < end => looksWide'[p] = looksWide[p]
  <2>1. SUFFICES ASSUME NEW p \in W, p < end
                 PROVE  looksWide'[p] = looksWide[p]
    OBVIOUS
  <2>2. p \in Address /\ p \in Nat
    BY <1>2, WalkFacts, AddressIs DEF W
  <2>3. CASE p < addr
    <3>1. p # addr /\ p # addr + 1
      BY <1>3, <2>2, <2>3
    <3>2. QED
      BY <1>4, <2>2, <3>1
  <2>4. CASE p = addr
    BY <1>1, <1>4, <2>1, <2>4
  <2>5. CASE p >= Next1(looksWide, addr) /\ p # addr
    <3>1. addr < end
      BY <1>2, <1>3, <2>1, <2>2, <2>5, Next1Is
    <3>2. wide = looksWide[addr]
      BY <1>1, <3>1
    <3>3. p # addr + 1 \/ ~wide
      BY <1>3, <2>2, <2>5, <3>2 DEF Next1
    <3>4. QED
      BY <1>4, <2>2, <2>5, <3>3
  <2>6. QED
    BY <1>5, <2>1, <2>3, <2>4, <2>5
<1>7. \A a \in Address : a <= end => (a \in W <=> a \in V)
  BY <1>2, <1>3, <1>6, WalkSame DEF W, V
<1>8. addr \in V /\ end \in V
  BY <1>2, <1>3, <1>7
<1>9. past \in V
  <2>1. past = Next1(looksWide', addr)
    BY <1>4 DEF Next1
  <2>2. QED
    BY <1>2, <1>3, <1>8, <2>1, WalkFacts DEF V
<1>10. addr' \in V /\ end' \in V
  BY <1>1, <1>8, <1>9 DEF Settle
<1>11. QED
  BY <1>1, <1>10, WalkPrimed DEF OnInstructions, V, InMenu

LEMMA AssembleStepOn == SessionInv /\ OnInstructions /\ [Next]_vars => OnInstructions'
<1> SUFFICES ASSUME SessionInv, OnInstructions, [Next]_vars
             PROVE  OnInstructions'
  OBVIOUS
<1> DEFINE W == WalkIn(looksWide, start)
<1>0. /\ start \in Address /\ end \in Address /\ addr \in Address
      /\ InMenu /\ ~disturbed => addr \in W /\ end \in W
      /\ pc = "lost" => disturbed
      /\ SectionStart \in Address
  BY WalkUnprimed, UserMemoryAssumption DEF SessionInv, TypeOK, OnInstructions, Address
\* A command that moves the cursor, over the same memory.
<1>1. ASSUME InMenu, UNCHANGED <<looksWide, pc, start, disturbed>>,
             NEW a, NEW e, Settle(a, e), ~disturbed => a \in W /\ e \in W
      PROVE  OnInstructions'
  <2>1. Walk(start)' = W
    BY <1>1, WalkPrimed
  <2>2. ~disturbed => addr' \in W /\ end' \in W
    BY <1>1 DEF Settle
  <2>3. QED
    BY <1>0, <1>1, <2>1, <2>2 DEF OnInstructions, InMenu
<1>2. ASSUME NEW a, OpenSection(a)
      PROVE  OnInstructions'
  <2>1. start' = SectionStart /\ looksWide' = looksWide /\ pc' = "menu"
        /\ disturbed' = (addr' \notin Walk(SectionStart) \/ end' \notin Walk(SectionStart))
    BY <1>2 DEF OpenSection
  <2>2. Walk(start)' = Walk(SectionStart)
    BY <2>1, WalkPrimed, WalkUnprimed
  <2>3. QED
    BY <2>1, <2>2 DEF OnInstructions
<1>3. ASSUME NEW a \in Address, OpenAnywhere(a)
      PROVE  OnInstructions'
  <2>1. start' = a /\ end' = a /\ addr' = a /\ pc' = "menu"
    BY <1>3 DEF OpenAnywhere
  <2>2. a \in Walk(start)'
    BY <2>1, WalkPrimed, WalkFacts
  <2>3. QED
    BY <2>1, <2>2 DEF OnInstructions
<1>4. ASSUME NEW typed \in Address, NEW a \in Address, OpenAt(typed, a)
      PROVE  OnInstructions'
  BY <1>2, <1>3, <1>4 DEF OpenAt
<1>5. CASE OpenUserSection
  BY <1>2, <1>5 DEF OpenUserSection
<1>6. ASSUME NEW wide \in BOOLEAN, NEW second \in BOOLEAN, Assemble(wide, second)
      PROVE  OnInstructions'
  <2>1. pc' = "menu"
    BY <1>6 DEF Assemble, InMenu
  <2>2. CASE disturbed'
    BY <2>1, <2>2 DEF OnInstructions
  <2>3. CASE ~disturbed'
    BY <1>6, <2>3, AssembleOn
  <2>4. QED
    BY <2>2, <2>3
<1>7. CASE ToStart \/ ToEnd
  <2>1. start \in W
    BY <1>0, WalkFacts
  <2>2. QED
    BY <1>0, <1>1, <1>7, <2>1 DEF ToStart, ToEnd
<1>8. ASSUME NEW a, NEW p \in Previous(a)
      PROVE  p \in W
  BY <1>8, WalkUnprimed DEF Previous
<1>9. CASE Up
  <2>1. PICK p \in Previous(addr) : Settle(p, end)
    BY <1>9 DEF Up
  <2>2. QED
    BY <1>0, <1>1, <1>8, <1>9, <2>1 DEF Up
<1>10. CASE Down
  <2>1. Increment(addr) = Next1(looksWide, addr) /\ Increment(addr) \in Address
    BY <1>0, <1>10, WalkUnprimed, AddressIs, Next1Is, UserMemoryAssumption
       DEF Down, Address
  <2>2. ~disturbed => Increment(addr) \in W
    BY <1>0, <1>10, <2>1, WalkFacts DEF Down
  <2>3. QED
    BY <1>0, <1>1, <1>10, <2>2 DEF Down
<1>11. CASE Rewind
  <2>1. PICK e \in Previous(end) : Settle(IF addr > e THEN e ELSE addr, e)
    BY <1>11 DEF Rewind
  <2>2. e \in W
    BY <1>8, <2>1
  <2>3. ~disturbed => (IF addr > e THEN e ELSE addr) \in W /\ e \in W
    BY <1>0, <1>11, <2>2 DEF Rewind
  <2>4. QED
    BY <1>1, <1>11, <2>1, <2>3 DEF Rewind
<1>12. CASE Lose
  <2>1. ASSUME ~disturbed
        PROVE  FALSE
    <3>1. addr \in W /\ end \in W
      BY <1>0, <1>12, <2>1 DEF Lose
    <3>2. \A a \in W : a # start => Previous(a) # {}
      BY <1>0, WalkUnprimed, WalkFacts DEF Previous
    <3>3. (addr # start /\ Previous(addr) = {}) \/ (end # start /\ Previous(end) = {})
      BY <1>0, <1>12, AddressIs DEF Lose
    <3>4. QED
      BY <3>1, <3>2, <3>3
  <2>2. QED
    BY <1>12, <2>1 DEF Lose, OnInstructions, InMenu
<1>13. CASE LostFault \/ Quit
  BY <1>13 DEF LostFault, Quit, Close, OnInstructions, InMenu
<1>14. CASE UNCHANGED vars
  <2>1. Walk(start)' = W
    BY <1>14, WalkPrimed DEF vars, session
  <2>2. QED
    BY <1>0, <1>14, <2>1 DEF vars, session, OnInstructions, InMenu
<1>15. QED
  BY <1>4, <1>5, <1>6, <1>7, <1>9, <1>10, <1>11, <1>12, <1>13, <1>14 DEF Next

LEMMA EditNextOn == SessionInv /\ OnInstructions /\ [EditingNext]_allVars => OnInstructions'
<1> SUFFICES ASSUME SessionInv, OnInstructions, [EditingNext]_allVars
             PROVE  OnInstructions'
  OBVIOUS
<1>1. CASE AssembleStep
  BY <1>1, AssembleStepOn DEF AssembleStep
<1>2. CASE EnterStep
  BY <1>2 DEF EnterStep, sessionVars, OnInstructions, InMenu
<1>3. CASE UNCHANGED allVars
  BY <1>3, AssembleStepOn DEF allVars
<1>4. QED
  BY <1>1, <1>2, <1>3 DEF EditingNext

-----------------------------------------------------------------------------
(* Enter.                                                                   *)

\* What is loaded from memory is an entry.
LEMMA LoadType ==
    ASSUME NEW mem \in AnyMemory, NEW a \in Nat, NEW n \in {1, 2}, a + n - 1 <= Top + 1
    PROVE  Load(mem, a, n) \in [1 .. n -> BOOLEAN]
<1>1. \A i \in 1 .. n : a + i - 1 \in 0 .. Top + 1
  BY UserMemoryAssumption
<1>2. QED
  BY <1>1 DEF Load, AnyMemory

LEMMA StoreType ==
    ASSUME NEW mem \in AnyMemory, NEW a \in Nat, NEW n \in {1, 2},
           NEW cur \in [1 .. n -> BOOLEAN]
    PROVE  /\ Len(cur) = n
           /\ Store(mem, a, cur) \in AnyMemory
<1>1. Len(cur) = n
  BY LenProperties
<1>2. \A b \in a .. a + n - 1 : b - a + 1 \in 1 .. n
  OBVIOUS
<1>3. QED
  BY <1>1, <1>2 DEF Store, AnyMemory

LEMMA SameFunction ==
    ASSUME NEW S, NEW T, NEW f \in [S -> T], NEW g \in [S -> T], \A x \in S : f[x] = g[x]
    PROVE  f = g
OBVIOUS

\* Storing what was loaded changes nothing.
LEMMA StoreLoaded ==
    ASSUME NEW mem \in AnyMemory, NEW a \in Nat, NEW n \in {1, 2}, a + n - 1 <= Top + 1
    PROVE  Store(mem, a, Load(mem, a, n)) = mem
<1> DEFINE cur == Load(mem, a, n)
<1>1. cur \in [1 .. n -> BOOLEAN]
  BY LoadType
<1>2. Len(cur) = n /\ Store(mem, a, cur) \in AnyMemory
  BY <1>1, StoreType
<1>3. ASSUME NEW b \in 0 .. Top + 1
      PROVE  Store(mem, a, cur)[b] = mem[b]
  <2>1. CASE b \in a .. a + n - 1
    <3>1. b - a + 1 \in 1 .. n /\ a + (b - a + 1) - 1 = b
      BY <2>1
    <3>2. cur[b - a + 1] = mem[b]
      BY <3>1 DEF Load
    <3>3. QED
      BY <1>2, <2>1, <3>2 DEF Store, AnyMemory
  <2>2. CASE b \notin a .. a + n - 1
    BY <1>2, <2>2 DEF Store, AnyMemory
  <2>3. QED
    BY <2>1, <2>2
<1> DEFINE dom == 0 .. Top + 1
           stored == Store(mem, a, cur)
<1>4. stored \in [dom -> BOOLEAN] /\ mem \in [dom -> BOOLEAN]
  BY <1>2 DEF AnyMemory
<1>5. \A b \in dom : stored[b] = mem[b]
  BY <1>3
<1> HIDE DEF dom, stored
<1>6. stored = mem
  BY <1>4, <1>5, SameFunction
<1>7. QED
  BY <1>6 DEF stored

\* An entry that is loaded and shown, at a place in its row.
LEMMA IncompleteInv ==
    ASSUME EditInv, Entering, NEW a \in Nat, NEW c \in Nat, NEW idx \in Nat, NEW text,
           NEW cur \in [1 .. Size(type) -> BOOLEAN],
           Incomplete(a, cur, idx, c, text), UNCHANGED sessionVars,
           a = row + (IF type = "word" THEN 2 * c ELSE c),
           a + Size(type) - 1 <= Top + 1,
           idx = 0 => cur = Load(looksWide, a, Size(type)),
           c <= col
    PROVE  EditInv'
<1>1. /\ entAddr' = a /\ current' = cur /\ digitIdx' = idx /\ col' = c
      /\ UNCHANGED <<looksWide, type, row>>
  BY DEF Incomplete
<1>2. SessionInv'
  BY <1>1 DEF sessionVars, session, EditInv, SessionInv, Inv, CursorInSession,
              SectionCoversSession, InMenu, TypeOK
<1>3. Size(type) \in {1, 2} /\ Size(type)' = Size(type) /\ (Entering' <=> Entering)
  BY <1>1 DEF Size, Entering
<1>4. a \in 0 .. Top + 1
  BY <1>3, UserMemoryAssumption
<1>5. EnterTypeOK'
  BY <1>1, <1>3, <1>4 DEF EditInv, EnterTypeOK
<1>6. Typing'
  BY <1>1, <1>3 DEF Typing
<1>7. RowIsOneInstruction'
  BY <1>1 DEF EditInv, EnterTypeOK, RowIsOneInstruction
<1>8. QED
  BY <1>2, <1>5, <1>6, <1>7 DEF EditInv

\* The entry being typed, in memory.
LEMMA EntryFacts ==
    ASSUME EditInv, Entering
    PROVE  /\ type \in Types /\ Size(type) \in {1, 2} /\ Len(current) = Size(type)
           /\ current \in [1 .. Size(type) -> BOOLEAN]
           /\ entAddr \in Nat /\ row \in Nat /\ col \in Nat /\ digitIdx \in Nat
           /\ Top \in Nat /\ entAddr + Size(type) - 1 <= Top + 1
           /\ entAddr = row + (IF type = "word" THEN 2 * col ELSE col)
           /\ looksWide \in AnyMemory
<1>1. /\ type \in Types /\ Size(type) \in {1, 2} /\ Top \in Nat
      /\ current \in [1 .. Size(type) -> BOOLEAN]
      /\ looksWide \in AnyMemory
  BY UserMemoryAssumption DEF EditInv, SessionInv, TypeOK, EnterTypeOK, Entering, Size
<1>2. entAddr \in Nat /\ row \in Nat /\ col \in Nat /\ digitIdx \in Nat
  BY <1>1 DEF EditInv, EnterTypeOK
<1>3. Len(current) = Size(type)
  BY <1>1, <1>2, StoreType
<1>4. QED
  BY <1>1, <1>2, <1>3 DEF EditInv, Typing

LEMMA CompleteInv ==
    ASSUME EditInv, Entering, pc = "closed",
           NEW cur \in [1 .. Size(type) -> BOOLEAN], Complete(cur), UNCHANGED sessionVars
    PROVE  EditInv'
<1>0. /\ type \in Types /\ Size(type) \in {1, 2} /\ Len(cur) = Size(type)
      /\ entAddr \in Nat /\ row \in Nat /\ col \in Nat /\ Top \in Nat
      /\ entAddr = row + (IF type = "word" THEN 2 * col ELSE col)
      /\ looksWide \in AnyMemory
  BY EntryFacts, StoreType
<1>1. /\ entAddr + 2 * Size(type) - 1 <= Top + 1
      /\ looksWide' = Store(looksWide, entAddr, cur)
      /\ entAddr' = entAddr + Size(type)
      /\ current' = Load(looksWide', entAddr', Size(type))
      /\ digitIdx' = 0 /\ type' = type
      /\ \/ col' = 0 /\ row' = entAddr'
         \/ ~ColumnOverflow(cur) /\ col' = col + 1 /\ row' = row
  BY <1>0 DEF Complete
<1>2. looksWide' \in AnyMemory
  BY <1>0, <1>1, StoreType
<1>3. entAddr' \in Nat /\ entAddr' + Size(type) - 1 <= Top + 1 /\ entAddr' \in 0 .. Top + 1
  <2>1. \A n \in {1, 2}, a \in Nat :
            a + 2 * n - 1 <= Top + 1 => /\ (a + n) + n - 1 <= Top + 1
                                        /\ a + n \in Nat /\ a + n \in 0 .. Top + 1
    BY <1>0
  <2>2. /\ (entAddr + Size(type)) + Size(type) - 1 <= Top + 1
        /\ entAddr + Size(type) \in Nat /\ entAddr + Size(type) \in 0 .. Top + 1
    BY <1>0, <1>1, <2>1
  <2>3. QED
    BY <1>1, <2>2
<1>4. current' \in [1 .. Size(type) -> BOOLEAN]
  BY <1>0, <1>1, <1>2, <1>3, LoadType
<1>5. SessionInv'
  BY <1>2 DEF sessionVars, session, EditInv, SessionInv, Inv, CursorInSession,
              SectionCoversSession, InMenu, TypeOK
<1>6. Size(type)' = Size(type) /\ Entering'
  BY <1>1 DEF Size, Entering
<1>7. EnterTypeOK'
  BY <1>0, <1>1, <1>3, <1>4, <1>6 DEF EditInv, EnterTypeOK
<1>8. entAddr' = row' + (IF type = "word" THEN 2 * col' ELSE col')
  BY <1>0, <1>1 DEF Size
<1>9. Typing'
  BY <1>1, <1>3, <1>4, <1>6, <1>8 DEF Typing
<1>10. RowIsOneInstruction'
  <2>1. ASSUME type = "instruction", ~ColumnOverflow(cur), col' = col + 1, row' = row
        PROVE  col' = 1 /\ looksWide'[row']
    <3>1. col = 0 /\ cur[1] /\ Size(type) = 1
      BY <1>0, <2>1 DEF ColumnOverflow, Size
    <3>2. entAddr = row /\ row \in 0 .. Top + 1
      BY <1>0, <1>1, <2>1, <3>1
    <3>3. looksWide'[row] = cur[1]
      <4>1. Store(looksWide, row, cur)[row] = cur[row - row + 1]
        BY <1>0, <3>1, <3>2 DEF Store, AnyMemory
      <4>2. row - row + 1 = 1
        BY <1>0
      <4>3. QED
        BY <1>1, <3>2, <4>1, <4>2
    <3>4. QED
      BY <1>0, <2>1, <3>1, <3>3
  <2>2. QED
    BY <1>1, <2>1 DEF RowIsOneInstruction
<1>11. QED
  BY <1>5, <1>7, <1>9, <1>10 DEF EditInv

LEMMA EnterKeyInv ==
    ASSUME EditInv, pc = "closed", EnterKey, UNCHANGED sessionVars
    PROVE  EditInv'
<1>0. Entering
  BY DEF EnterKey, Digit, Space, GoBack, StayAtRowStart, TakeBack, Return
<1>1. /\ type \in Types /\ Size(type) \in {1, 2} /\ Len(current) = Size(type)
      /\ current \in [1 .. Size(type) -> BOOLEAN]
      /\ entAddr \in Nat /\ row \in Nat /\ col \in Nat /\ digitIdx \in Nat
      /\ Top \in Nat /\ entAddr + Size(type) - 1 <= Top + 1
      /\ entAddr = row + (IF type = "word" THEN 2 * col ELSE col)
      /\ looksWide \in AnyMemory
  BY <1>0, EntryFacts
<1>2. ASSUME NEW cur \in [1 .. Len(current) -> BOOLEAN], Digit(cur)
      PROVE  EditInv'
  <2>1. cur \in [1 .. Size(type) -> BOOLEAN] /\ digitIdx + 1 \in Nat /\ digitIdx + 1 # 0
    BY <1>1
  <2>2. CASE Incomplete(entAddr, cur, digitIdx + 1, col, Erase(line))
    BY <1>0, <1>1, <2>1, <2>2, IncompleteInv
  <2>3. CASE Complete(cur)
    BY <1>0, <2>1, <2>3, CompleteInv
  <2>4. QED
    BY <1>2, <2>2, <2>3 DEF Digit
<1>3. CASE Space
  BY <1>0, <1>1, <1>3, CompleteInv DEF Space
<1>4. CASE GoBack
  <2> DEFINE a == entAddr - Size(type)
             cur == Load(looksWide, a, Size(type))
  <2>1. /\ Incomplete(a, cur, 0, col - 1, Erase(Erase(line))) /\ col > 0
    BY <1>1, <1>4 DEF GoBack, Reload
  <2>2. /\ col - 1 \in Nat /\ col - 1 <= col /\ a \in Nat /\ a + Size(type) - 1 <= Top + 1
        /\ a = row + (IF type = "word" THEN 2 * (col - 1) ELSE col - 1)
    BY <1>1, <2>1 DEF Size
  <2>3. cur \in [1 .. Size(type) -> BOOLEAN]
    BY <1>1, <2>2, LoadType
  <2> HIDE DEF a, cur
  <2>4. cur = Load(looksWide, a, Size(type)) /\ 0 \in Nat
    BY DEF cur
  <2>5. QED
    BY <1>0, <2>1, <2>2, <2>3, <2>4, IncompleteInv
<1>5. CASE StayAtRowStart
  <2>1. /\ Incomplete(entAddr, current, digitIdx, col, Erase(line)) /\ col <= col
        /\ digitIdx = 0 => current = Load(looksWide, entAddr, Size(type))
    BY <1>0, <1>1, <1>5 DEF StayAtRowStart, EditInv, Typing
  <2>2. QED
    BY <1>0, <1>1, <2>1, IncompleteInv
<1>6. CASE TakeBack
  <2> DEFINE cur == Load(looksWide, entAddr, Size(type))
  <2>1. Incomplete(entAddr, cur, 0, col, Erase(line)) /\ col <= col
    BY <1>1, <1>6 DEF TakeBack, Reload
  <2>2. cur \in [1 .. Size(type) -> BOOLEAN]
    BY <1>1, LoadType
  <2> HIDE DEF cur
  <2>3. cur = Load(looksWide, entAddr, Size(type)) /\ 0 \in Nat
    BY DEF cur
  <2>4. QED
    BY <1>0, <1>1, <2>1, <2>2, <2>3, IncompleteInv
<1>7. CASE Return
  <2>1. /\ looksWide' \in AnyMemory /\ type' = "none"
        /\ entAddr' = 0 /\ digitIdx' = 0 /\ col' = 0 /\ row' = 0
    BY <1>1, <1>7, StoreType DEF Return
  <2>2. SessionInv'
    BY <2>1 DEF sessionVars, session, EditInv, SessionInv, Inv, CursorInSession,
                SectionCoversSession, InMenu, TypeOK
  <2>3. QED
    BY <1>1, <2>1, <2>2 DEF EditInv, EnterTypeOK, Typing, RowIsOneInstruction, Entering
<1>8. QED
  BY <1>2, <1>3, <1>4, <1>5, <1>6, <1>7 DEF EnterKey

LEMMA StartInv ==
    ASSUME EditInv, UNCHANGED sessionVars,
           NEW t \in Types, NEW a \in Address, Start(t, a)
    PROVE  EditInv'
<1>1. Size(t) \in {1, 2} /\ a \in Nat /\ a \in 0 .. Top + 1 /\ looksWide \in AnyMemory
  BY UserMemoryAssumption DEF Size, Address, EditInv, SessionInv, TypeOK
<1>2. /\ a + Size(t) - 1 <= Top + 1 /\ looksWide' = looksWide
      /\ type' = t /\ entAddr' = a /\ row' = a /\ digitIdx' = 0 /\ col' = 0
      /\ current' = Load(looksWide, a, Size(t)) /\ Size(type)' = Size(t)
  BY DEF Start, Size
<1>3. current' \in [1 .. Size(t) -> BOOLEAN]
  BY <1>1, <1>2, LoadType
<1>4. SessionInv'
  BY <1>2 DEF sessionVars, session, EditInv, SessionInv, Inv, CursorInSession,
              SectionCoversSession, InMenu, TypeOK
<1>5. EnterTypeOK'
  BY <1>1, <1>2, <1>3 DEF EnterTypeOK
<1>6. Typing'
  BY <1>1, <1>2, <1>3 DEF Typing
<1>7. QED
  BY <1>2, <1>4, <1>5, <1>6 DEF EditInv, RowIsOneInstruction

LEMMA EditNextInv == EditInv /\ [EditingNext]_allVars => EditInv'
<1> SUFFICES ASSUME EditInv, [EditingNext]_allVars
             PROVE  EditInv'
  OBVIOUS
<1>1. CASE AssembleStep
  <2>1. SessionInv' /\ UNCHANGED enterVars /\ type = "none"
    BY <1>1, AssembleStepInv DEF AssembleStep, EditInv, Entering
  <2>2. QED
    BY <2>1 DEF enterVars, EditInv, EnterTypeOK, Typing, RowIsOneInstruction, Entering
<1>2. CASE EnterStep
  BY <1>2, EnterKeyInv, StartInv DEF EnterStep
<1>3. CASE UNCHANGED allVars
  BY <1>3 DEF allVars, vars, session, enterVars, EditInv, SessionInv, Inv, CursorInSession,
              SectionCoversSession, InMenu, TypeOK, EnterTypeOK, Typing, RowIsOneInstruction,
              Entering
<1>4. QED
  BY <1>1, <1>2, <1>3 DEF EditingNext

-----------------------------------------------------------------------------
(***************************************************************************)
(* The line.  It shows the first n entries of a row, "cells", when they    *)
(* are on it one after the other with P characters each.                   *)
(***************************************************************************)
Text == Seq(Seq(BOOLEAN) \X Nat)

Shows(text, n, cells, P) ==
    /\ text \in Text /\ Len(text) = n * P
    /\ \A i \in 1 .. n * P : text[i] = <<cells[(i - 1) \div P], 1 + ((i - 1) % P)>>

\* The entries on the screen: those of the row before the cursor are memory's.
RowCells == [c \in 0 .. col |-> IF c = col THEN current ELSE InMemory(c)]

LineInv == Entering => Shows(line, col + 1, RowCells, PrintedChars(current))

LEMMA DivMod ==
    ASSUME NEW P \in Nat \ {0}, NEW n \in Nat, NEW k \in 0 .. P - 1
    PROVE  (n * P + k) \div P = n /\ (n * P + k) % P = k
OBVIOUS

LEMMA ColumnOf ==
    ASSUME NEW P \in Nat \ {0}, NEW n \in Nat, NEW i \in 1 .. n * P
    PROVE  (i - 1) \div P \in 0 .. n - 1
OBVIOUS

LEMMA ShowsNothing ==
    ASSUME NEW cells, NEW P \in Nat \ {0}
    PROVE  Shows(<<>>, 0, cells, P)
<1>1. <<>> \in Text /\ Len(<<>>) = 0 /\ 0 * P = 0
  BY EmptySeq DEF Text
<1>2. QED
  BY <1>1 DEF Shows

\* Only the entries on the line matter.
LEMMA ShowsSame ==
    ASSUME NEW P \in Nat \ {0}, NEW n \in Nat, NEW text, NEW cells, NEW others,
           Shows(text, n, cells, P), \A c \in 0 .. n - 1 : others[c] = cells[c]
    PROVE  Shows(text, n, others, P)
BY ColumnOf DEF Shows

LEMMA EraseShows ==
    ASSUME NEW P \in Nat \ {0}, NEW n \in Nat, NEW text, NEW cells,
           ErasedChars = P, Shows(text, n + 1, cells, P)
    PROVE  Shows(Erase(text), n, cells, P)
<1>1. /\ n * P \in Nat /\ (n + 1) * P = n * P + P /\ n * P + P - P = n * P
      /\ n * P <= (n + 1) * P
  OBVIOUS
<1> DEFINE N == n * P
           M == (n + 1) * P
           S == Seq(BOOLEAN) \X Nat
<1>2. N \in Nat /\ M \in Nat /\ N <= M /\ M - P = N
  BY <1>1
<1>3. text \in Seq(S) /\ Len(text) = M
  BY DEF Shows, Text
<1>4. Erase(text) = SubSeq(text, 1, N)
  BY <1>2, <1>3 DEF Erase
<1> HIDE DEF N, M, S
<1>5. \A i \in 1 .. N : text[i] \in S
  BY <1>2, <1>3, ElementOfSeq
<1>6. /\ SubSeq(text, 1, N) \in Seq(S)
      /\ Len(SubSeq(text, 1, N)) = IF 1 <= N THEN N - 1 + 1 ELSE 0
      /\ \A i \in 1 .. N - 1 + 1 : SubSeq(text, 1, N)[i] = text[1 + i - 1]
  BY <1>2, <1>5, SubSeqProperties
<1>7. /\ SubSeq(text, 1, N) \in Seq(S) /\ Len(SubSeq(text, 1, N)) = N
      /\ \A i \in 1 .. N : SubSeq(text, 1, N)[i] = text[i]
  BY <1>2, <1>6
<1>8. \A i \in 1 .. N : text[i] = <<cells[(i - 1) \div P], 1 + ((i - 1) % P)>>
  BY <1>2 DEF Shows, M
<1>9. /\ Erase(text) \in Text /\ Len(Erase(text)) = N
      /\ \A i \in 1 .. N : Erase(text)[i] = <<cells[(i - 1) \div P], 1 + ((i - 1) % P)>>
  BY <1>4, <1>7, <1>8 DEF Text, S
<1>10. QED
  BY <1>9 DEF Shows, N

LEMMA PutShows ==
    ASSUME NEW n \in Nat, NEW text, NEW cells, NEW cur \in Seq(BOOLEAN), cells[n] = cur,
           NEW P \in Nat \ {0}, PrintedChars(cur) = P, Shows(text, n, cells, P)
    PROVE  Shows(Put(text, cur), n + 1, cells, P)
<1> DEFINE S    == Seq(BOOLEAN) \X Nat
           N    == n * P
           tail == [k \in 1 .. P |-> <<cur, k>>]
           both == text \o tail
<1>1. N \in Nat /\ (n + 1) * P = N + P
  OBVIOUS
<1>2. tail \in Seq(S) /\ Len(tail) = P /\ \A k \in 1 .. P : tail[k] = <<cur, k>>
  BY LenProperties
<1>3. text \in Seq(S) /\ Len(text) = N /\ Put(text, cur) = both
  BY DEF Shows, Text, Put
<1>4. \A i \in 1 .. N : text[i] = <<cells[(i - 1) \div P], 1 + ((i - 1) % P)>>
  BY DEF Shows
<1>5. ASSUME NEW k \in 1 .. P
      PROVE  (N + k - 1) \div P = n /\ 1 + ((N + k - 1) % P) = k
  <2>1. k - 1 \in 0 .. P - 1
    OBVIOUS
  <2>2. (N + (k - 1)) \div P = n /\ (N + (k - 1)) % P = k - 1
    BY <2>1, DivMod
  <2>3. N + k - 1 = N + (k - 1)
    BY <1>1
  <2>4. QED
    BY <2>2, <2>3
<1> HIDE DEF S, N, tail
<1>6. /\ both \in Seq(S) /\ Len(both) = N + P
      /\ \A i \in 1 .. N + P : both[i] = IF i <= N THEN text[i] ELSE tail[i - N]
  <2>1. /\ text \o tail \in Seq(S) /\ Len(text \o tail) = Len(text) + Len(tail)
        /\ \A i \in 1 .. Len(text) + Len(tail) :
              (text \o tail)[i] = IF i <= Len(text) THEN text[i] ELSE tail[i - Len(text)]
    BY <1>2, <1>3, ConcatProperties
  <2>2. QED
    BY <1>2, <1>3, <2>1
<1> HIDE DEF both
<1>7. ASSUME NEW i \in 1 .. N + P
      PROVE  both[i] = <<cells[(i - 1) \div P], 1 + ((i - 1) % P)>>
  <2>1. CASE i <= N
    <3>1. i \in 1 .. N /\ both[i] = text[i]
      BY <1>1, <1>6, <2>1
    <3>2. QED
      BY <1>4, <3>1, Zenon
  <2>2. CASE i > N
    <3>1. PICK k \in 1 .. P : i = N + k
      <4>1. i - N \in 1 .. P /\ i = N + (i - N)
        BY <1>1, <2>2
      <4>2. QED
        BY <4>1
    <3>2. both[i] = <<cur, k>>
      <4>1. i - N = k
        BY <1>1, <3>1
      <4>2. QED
        BY <1>1, <1>2, <1>6, <2>2, <4>1
    <3>3. (i - 1) \div P = n /\ 1 + ((i - 1) % P) = k
      <4>1. (N + k - 1) \div P = n /\ 1 + ((N + k - 1) % P) = k
        BY <1>5
      <4>2. i - 1 = N + k - 1
        BY <1>1, <3>1
      <4> DEFINE j == i - 1
                 l == N + k - 1
      <4>3. j = l /\ l \div P = n /\ 1 + (l % P) = k
        BY <4>1, <4>2
      <4> HIDE DEF j, l
      <4>4. j \div P = n /\ 1 + (j % P) = k
        BY <4>3
      <4>5. QED
        BY <4>4 DEF j
    <3>4. QED
      BY <3>2, <3>3
  <2>3. QED
    BY <1>1, <2>1, <2>2
<1>8. both \in Text
  BY <1>6 DEF S, Text
<1>9. QED
  BY <1>1, <1>3, <1>6, <1>7, <1>8 DEF Shows

\* What is printed of an entry is what is erased of it, whatever it is.
LEMMA Printed ==
    ASSUME NEW cur \in Seq(BOOLEAN), Len(current) \in {1, 2}, Len(cur) = Len(current)
    PROVE  /\ PrintedChars(cur) = PrintedChars(current)
           /\ PrintedChars(current) \in Nat \ {0}
           /\ ErasedChars = PrintedChars(current)
<1>1. PrintedChars(cur) = PrintedChars(current)
  BY DEF PrintedChars, DigitWidth
<1> DEFINE W == DigitWidth(current)
           G == GroupDigits
<1>2. /\ G \in Nat \ {0} /\ W \in Nat \ {0} /\ W <= 2 * G
  <2> DEFINE D == DigitsPerHalfword
  <2>1. D \in Nat \ {0} /\ G \in Nat /\ D <= G
    BY EnterAssumption
  <2>2. W = 1 * D \/ W = 2 * D
    BY DEF DigitWidth
  <2> HIDE DEF D, G, W
  <2>3. QED
    BY <2>1, <2>2
<1>3. ErasedChars = W + 1 + (IF W > G THEN 1 ELSE 0)
  BY DEF ErasedChars
<1>4. PrintedChars(current) = 1 + W + ((W - 1) \div G)
  BY DEF PrintedChars
<1> HIDE DEF W, G
<1>5. (W - 1) \div G = IF W > G THEN 1 ELSE 0
  <2>1. CASE W > G
    <3>1. W - 1 = 1 * G + (W - 1 - G) /\ W - 1 - G \in 0 .. G - 1
      BY <1>2, <2>1
    <3>2. (1 * G + (W - 1 - G)) \div G = 1
      BY <1>2, <3>1, DivMod
    <3>3. QED
      BY <2>1, <3>1, <3>2
  <2>2. CASE ~(W > G)
    <3>1. W - 1 = 0 * G + (W - 1) /\ W - 1 \in 0 .. G - 1
      BY <1>2, <2>2
    <3>2. (0 * G + (W - 1)) \div G = 0
      BY <1>2, <3>1, DivMod
    <3>3. QED
      BY <2>2, <3>1, <3>2
  <2>3. QED
    BY <2>1, <2>2
<1>6. QED
  BY <1>1, <1>2, <1>3, <1>4, <1>5

LEMMA PrintedType ==
    ASSUME NEW cur \in Seq(BOOLEAN), Len(cur) \in {1, 2}
    PROVE  PrintedChars(cur) \in Nat \ {0}
<1> DEFINE W == DigitWidth(cur)
           G == GroupDigits
<1>1. W \in Nat \ {0} /\ G \in Nat \ {0}
  BY EnterAssumption DEF DigitWidth
<1>2. PrintedChars(cur) = 1 + W + ((W - 1) \div G)
  BY DEF PrintedChars
<1> HIDE DEF W, G
<1>3. (W - 1) \div G \in Nat
  BY <1>1
<1>4. QED
  BY <1>1, <1>2, <1>3

LEMMA EntrySeq ==
    ASSUME NEW n \in {1, 2}, NEW cur \in [1 .. n -> BOOLEAN]
    PROVE  cur \in Seq(BOOLEAN) /\ Len(cur) = n
<1>1. n \in Nat
  OBVIOUS
<1>2. QED
  BY <1>1, IsASeq, LenProperties

LEMMA Columns ==
    ASSUME NEW n \in {1, 2}, NEW r \in Nat, NEW k \in Nat
    PROVE  /\ r + k * n \in Nat
           /\ k > 0 => (r + k * n) - n \in Nat
           /\ \A c \in 0 .. k - 1 : r + c * n \in Nat /\ (r + c * n) + n <= r + k * n
<1>1. n = 1 \/ n = 2
  OBVIOUS
<1>2. CASE n = 1
  BY <1>2
<1>3. CASE n = 2
  BY <1>3
<1>4. QED
  BY <1>1, <1>2, <1>3

LEMMA IncompleteLine ==
    ASSUME EditInv, LineInv, Entering, EditInv',
           NEW a, NEW idx, NEW c \in Nat, NEW text,
           NEW cur \in [1 .. Size(type) -> BOOLEAN],
           Incomplete(a, cur, idx, c, text), c <= col,
           Shows(text, c, RowCells, PrintedChars(current))
    PROVE  LineInv'
<1>0. /\ Size(type) \in {1, 2} /\ Len(current) = Size(type) /\ col \in Nat
      /\ Len(cur) = Size(type) /\ cur \in Seq(BOOLEAN)
  BY EntryFacts, EntrySeq
<1> DEFINE P == PrintedChars(current)
<1>1. /\ PrintedChars(cur) = P /\ P \in Nat \ {0}
  BY <1>0, Printed
<1>2. /\ current' = cur /\ col' = c /\ line' = Put(text, cur)
      /\ UNCHANGED <<looksWide, type, row>> /\ Len(current') = Len(current)
  BY <1>0 DEF Incomplete
<1>3. PrintedChars(current)' = P
  BY <1>1, <1>2 DEF PrintedChars, DigitWidth
<1> DEFINE cells == RowCells'
<1>4. \A d \in 0 .. c - 1 : cells[d] = RowCells[d]
  BY <1>0, <1>2 DEF RowCells, InMemory
<1>5. cells[c] = cur
  BY <1>0, <1>2 DEF RowCells
<1> HIDE DEF P, cells
<1>6. Shows(text, c, cells, P)
  BY <1>1, <1>4, ShowsSame DEF P
<1>7. Shows(Put(text, cur), c + 1, cells, P)
  BY <1>0, <1>1, <1>5, <1>6, PutShows
<1>8. QED
  BY <1>2, <1>3, <1>7 DEF LineInv, cells, Shows

\* An entry that was stored is loaded again, and the entries before it are kept.
LEMMA LoadStored ==
    ASSUME NEW mem \in AnyMemory, NEW a \in Nat, NEW n \in {1, 2}, a + n - 1 <= Top + 1,
           NEW cur \in [1 .. n -> BOOLEAN]
    PROVE  Load(Store(mem, a, cur), a, n) = cur
<1>1. Len(cur) = n /\ Store(mem, a, cur) \in AnyMemory
  BY StoreType
<1>2. \A i \in 1 .. n : /\ a + i - 1 \in 0 .. Top + 1 /\ a + i - 1 \in a .. a + n - 1
                        /\ a + i - 1 - a + 1 = i
  BY UserMemoryAssumption
<1>3. \A i \in 1 .. n : Store(mem, a, cur)[a + i - 1] = cur[i]
  BY <1>1, <1>2 DEF Store, AnyMemory
<1> DEFINE l == Load(Store(mem, a, cur), a, n)
<1>4. l \in [1 .. n -> BOOLEAN]
  BY <1>1, LoadType
<1>5. \A i \in 1 .. n : l[i] = cur[i]
  BY <1>3 DEF Load
<1> HIDE DEF l
<1>6. l = cur
  BY <1>4, <1>5, SameFunction
<1>7. QED
  BY <1>6 DEF l

LEMMA LoadKept ==
    ASSUME NEW mem \in AnyMemory, NEW a \in Nat, NEW n \in {1, 2}, a + n - 1 <= Top + 1,
           NEW cur \in [1 .. n -> BOOLEAN], NEW b \in Nat, b + n <= a
    PROVE  Load(Store(mem, a, cur), b, n) = Load(mem, b, n)
<1>1. Len(cur) = n /\ Store(mem, a, cur) \in AnyMemory
  BY StoreType
<1>2. \A i \in 1 .. n : b + i - 1 \in 0 .. Top + 1 /\ b + i - 1 \notin a .. a + n - 1
  BY UserMemoryAssumption
<1>3. \A i \in 1 .. n : Store(mem, a, cur)[b + i - 1] = mem[b + i - 1]
  BY <1>1, <1>2 DEF Store, AnyMemory
<1> DEFINE l == Load(Store(mem, a, cur), b, n)
           m == Load(mem, b, n)
<1>4. b + n - 1 <= Top + 1
  BY UserMemoryAssumption
<1>5. l \in [1 .. n -> BOOLEAN] /\ m \in [1 .. n -> BOOLEAN]
  BY <1>1, <1>4, LoadType
<1>6. \A i \in 1 .. n : l[i] = m[i]
  BY <1>3 DEF Load
<1> HIDE DEF l, m
<1>7. l = m
  BY <1>5, <1>6, SameFunction
<1>8. QED
  BY <1>7 DEF l, m

LEMMA CompleteLine ==
    ASSUME EditInv, LineInv, Entering, EditInv',
           NEW cur \in [1 .. Size(type) -> BOOLEAN], Complete(cur)
    PROVE  LineInv'
<1> DEFINE n == Size(type)
           P == PrintedChars(current)
<1>0. /\ n \in {1, 2} /\ Len(current) = n /\ col \in Nat /\ row \in Nat
      /\ entAddr \in Nat /\ entAddr + n - 1 <= Top + 1
      /\ entAddr = row + col * n
      /\ looksWide \in AnyMemory /\ cur \in Seq(BOOLEAN) /\ Len(cur) = n
  <2>1. entAddr = row + (IF type = "word" THEN 2 * col ELSE col)
    BY EntryFacts
  <2>2. QED
    BY <2>1, EntryFacts, EntrySeq DEF Size
<1>0a. /\ n \in {1, 2} /\ looksWide \in AnyMemory /\ entAddr \in Nat
       /\ entAddr + n - 1 <= Top + 1 /\ cur \in [1 .. n -> BOOLEAN]
  BY <1>0
<1>1. Entering' /\ type' = type /\ Size(type)' = n
  BY DEF Complete, Entering, Size
<1>2. current' \in [1 .. n -> BOOLEAN] /\ current' \in Seq(BOOLEAN) /\ Len(current') = n
  <2>1. current' \in [1 .. n -> BOOLEAN]
    BY <1>1 DEF EditInv, EnterTypeOK
  <2>2. QED
    BY <1>0, <2>1, EntrySeq
<1>3. /\ P \in Nat \ {0} /\ ErasedChars = P /\ PrintedChars(cur) = P
      /\ PrintedChars(current') = P
  BY <1>0, <1>2, Printed
<1>4. PrintedChars(current)' = P
  BY <1>3 DEF PrintedChars, DigitWidth
<1>5. /\ looksWide' = Store(looksWide, entAddr, cur)
      /\ \/ col' = 0 /\ line' = Put(<<>>, current')
         \/ col' = col + 1 /\ row' = row /\ line' = Put(Put(Erase(line), cur), current')
  BY DEF Complete
<1>6. Shows(line, col + 1, RowCells, P)
  BY DEF LineInv
<1> DEFINE cells == RowCells'
<1>7. cells[col'] = current'
  <2>1. col' = 0 \/ col' = col + 1
    BY <1>5
  <2>2. col' \in Nat
    BY <1>0, <2>1
  <2>3. \A k \in Nat : k \in 0 .. k
    OBVIOUS
  <2>4. col' \in 0 .. col'
    BY <2>2, <2>3, Zenon
  <2>5. QED
    BY <2>4 DEF RowCells
<1> HIDE DEF P
<1>8. CASE col' = 0 /\ line' = Put(<<>>, current')
  <2>1. cells[0] = current'
    BY <1>7, <1>8
  <2> HIDE DEF cells
  <2>2. Shows(<<>>, 0, cells, P)
    BY <1>3, ShowsNothing
  <2>3. Shows(line', 0 + 1, cells, P)
    BY <1>2, <1>3, <1>8, <2>1, <2>2, PutShows
  <2>4. QED
    BY <1>4, <1>8, <2>3 DEF LineInv, cells, Shows
<1>9. CASE col' = col + 1 /\ row' = row /\ line' = Put(Put(Erase(line), cur), current')
  <2>1. \A c \in 0 .. col : cells[c] = Load(looksWide', row + c * n, n)
    BY <1>0, <1>2, <1>9 DEF RowCells, InMemory
  <2>2. \A c \in 0 .. col - 1 : cells[c] = RowCells[c]
    <3> SUFFICES ASSUME NEW c \in 0 .. col - 1
                 PROVE  cells[c] = RowCells[c]
      OBVIOUS
    <3>1. row + c * n \in Nat /\ (row + c * n) + n <= entAddr
      BY <1>0, Columns
    <3>2. RowCells[c] = Load(looksWide, row + c * n, n)
      BY <1>0 DEF RowCells, InMemory
    <3>3. Load(looksWide', row + c * n, n) = Load(looksWide, row + c * n, n)
      <4> DEFINE b == row + c * n
      <4>1. b \in Nat /\ b + n <= entAddr
        BY <3>1
      <4> HIDE DEF b
      <4>2. Load(Store(looksWide, entAddr, cur), b, n) = Load(looksWide, b, n)
        <5> HIDE DEF n
        <5>1. QED
          BY <1>0a, <4>1, LoadKept
      <4>3. QED
        BY <1>5, <4>2 DEF b
    <3>4. cells[c] = Load(looksWide', row + c * n, n)
      BY <1>0, <2>1
    <3>5. QED
      BY <3>2, <3>3, <3>4
  <2>3. cells[col] = cur
    <3>1. Load(looksWide', entAddr, n) = cur
      <4>1. Load(Store(looksWide, entAddr, cur), entAddr, n) = cur
        <5> HIDE DEF n
        <5>1. QED
          BY <1>0a, LoadStored
      <4>2. QED
        BY <1>5, <4>1
    <3>2. cells[col] = Load(looksWide', row + col * n, n)
      BY <1>0, <2>1
    <3>3. QED
      BY <1>0, <3>1, <3>2
  <2>4. cells[col + 1] = current'
    BY <1>7, <1>9
  <2> HIDE DEF cells
  <2>5. Shows(Erase(line), col, RowCells, P)
    BY <1>0, <1>3, <1>6, EraseShows
  <2>6. Shows(Erase(line), col, cells, P)
    BY <1>0, <1>3, <2>2, <2>5, ShowsSame
  <2>7. Shows(Put(Erase(line), cur), col + 1, cells, P)
    BY <1>0, <1>3, <2>3, <2>6, PutShows
  <2>8. Shows(line', (col + 1) + 1, cells, P)
    <3>1. col + 1 \in Nat
      BY <1>0
    <3>2. Shows(Put(Put(Erase(line), cur), current'), (col + 1) + 1, cells, P)
      BY <1>2, <1>3, <2>4, <2>7, <3>1, PutShows
    <3>3. QED
      BY <1>9, <3>2
  <2>9. QED
    BY <1>4, <1>9, <2>8 DEF LineInv, cells, Shows
<1>10. QED
  BY <1>5, <1>8, <1>9

LEMMA EnterKeyLine ==
    ASSUME EditInv, LineInv, EnterKey, EditInv'
    PROVE  LineInv'
<1>0. Entering
  BY DEF EnterKey, Digit, Space, GoBack, StayAtRowStart, TakeBack, Return
<1> DEFINE n == Size(type)
           P == PrintedChars(current)
<1>1. /\ n \in {1, 2} /\ Len(current) = n /\ col \in Nat /\ entAddr \in Nat
      /\ current \in [1 .. n -> BOOLEAN] /\ current \in Seq(BOOLEAN)
      /\ looksWide \in AnyMemory /\ entAddr + n - 1 <= Top + 1
      /\ entAddr = row + col * n /\ row \in Nat
  <2>1. entAddr = row + (IF type = "word" THEN 2 * col ELSE col)
    BY <1>0, EntryFacts
  <2>2. QED
    BY <1>0, <2>1, EntryFacts, EntrySeq DEF Size
<1>2. P \in Nat \ {0} /\ ErasedChars = P
  BY <1>1, Printed
<1>3. Shows(line, col + 1, RowCells, P)
  BY <1>0 DEF LineInv
<1> HIDE DEF P
<1>4. Shows(Erase(line), col, RowCells, P)
  BY <1>1, <1>2, <1>3, EraseShows
<1>5. ASSUME NEW cur \in [1 .. Len(current) -> BOOLEAN], Digit(cur)
      PROVE  LineInv'
  <2>1. cur \in [1 .. Size(type) -> BOOLEAN] /\ col <= col
    BY <1>1
  <2>2. CASE Incomplete(entAddr, cur, digitIdx + 1, col, Erase(line))
    BY <1>0, <1>1, <1>4, <2>1, <2>2, IncompleteLine DEF P
  <2>3. CASE Complete(cur)
    BY <1>0, <2>1, <2>3, CompleteLine
  <2>4. QED
    BY <1>5, <2>2, <2>3 DEF Digit
<1>6. CASE Space
  BY <1>0, <1>1, <1>6, CompleteLine DEF Space
<1>7. CASE GoBack
  <2> DEFINE a == entAddr - n
             cur == Load(looksWide, a, n)
  <2>1. Incomplete(a, cur, 0, col - 1, Erase(Erase(line))) /\ col > 0
    BY <1>1, <1>7 DEF GoBack, Reload
  <2>2. col - 1 \in Nat /\ col - 1 <= col /\ (col - 1) + 1 = col
        /\ a \in Nat /\ a + n - 1 <= Top + 1
    <3>1. (row + col * n) - n \in Nat
      BY <1>1, <2>1, Columns
    <3>2. entAddr \in Nat /\ n \in Nat /\ entAddr - n \in Nat /\ Top \in Nat
          /\ entAddr + n - 1 <= Top + 1
      BY <1>1, <3>1, UserMemoryAssumption
    <3> HIDE DEF n
    <3>3. (entAddr - n) + n - 1 <= Top + 1
      BY <3>2
    <3>4. QED
      BY <1>1, <2>1, <3>2, <3>3
  <2>3. cur \in [1 .. n -> BOOLEAN]
    BY <1>1, <2>2, LoadType
  <2> HIDE DEF a, cur
  <2>4. Shows(Erase(Erase(line)), col - 1, RowCells, P)
    BY <1>2, <1>4, <2>2, EraseShows
  <2>5. QED
    BY <1>0, <2>1, <2>2, <2>3, <2>4, IncompleteLine DEF P
<1>8. CASE StayAtRowStart
  BY <1>0, <1>1, <1>4, <1>8, IncompleteLine DEF StayAtRowStart, P
<1>9. CASE TakeBack
  <2> DEFINE cur == Load(looksWide, entAddr, n)
  <2>1. Incomplete(entAddr, cur, 0, col, Erase(line)) /\ col <= col
    BY <1>1, <1>9 DEF TakeBack, Reload
  <2>2. cur \in [1 .. n -> BOOLEAN]
    BY <1>1, LoadType
  <2> HIDE DEF cur
  <2>3. QED
    BY <1>0, <1>1, <1>4, <2>1, <2>2, IncompleteLine DEF P
<1>10. CASE Return
  BY <1>10 DEF Return, LineInv, Entering
<1>11. QED
  BY <1>5, <1>6, <1>7, <1>8, <1>9, <1>10 DEF EnterKey

LEMMA StartLine ==
    ASSUME EditInv', NEW t \in Types, NEW a \in Address, Start(t, a)
    PROVE  LineInv'
<1>1. /\ col' = 0 /\ line' = Put(<<>>, current') /\ Entering'
  BY DEF Start, Entering, Types
<1>2. /\ Size(type)' \in {1, 2} /\ current' \in [1 .. Size(type)' -> BOOLEAN]
  BY <1>1 DEF EditInv, EnterTypeOK, Size
<1>3. current' \in Seq(BOOLEAN) /\ Len(current)' \in {1, 2}
  BY <1>2, LenProperties
<1> DEFINE P == PrintedChars(current)'
           cells == RowCells'
           now == current'
<1>4. P \in Nat \ {0} /\ PrintedChars(now) = P
  BY <1>3, PrintedType DEF PrintedChars, DigitWidth
<1>5. cells[0] = now
  BY <1>1 DEF RowCells
<1> HIDE DEF P, cells, now
<1>6. Shows(<<>>, 0, cells, P)
  BY <1>4, ShowsNothing
<1>7. Shows(Put(<<>>, now), 0 + 1, cells, P)
  BY <1>3, <1>4, <1>5, <1>6, PutShows DEF now
<1>8. QED
  BY <1>1, <1>7 DEF LineInv, P, cells, now, Shows

LEMMA EditNextLine == EditInv /\ LineInv /\ [EditingNext]_allVars => LineInv'
<1> SUFFICES ASSUME EditInv, LineInv, [EditingNext]_allVars
             PROVE  LineInv'
  OBVIOUS
<1>0. EditInv'
  BY EditNextInv
<1>1. CASE AssembleStep
  BY <1>1 DEF AssembleStep, enterVars, LineInv, Entering
<1>2. CASE EnterStep
  BY <1>0, <1>2, EnterKeyLine, StartLine DEF EnterStep
<1>3. CASE UNCHANGED allVars
  BY <1>3 DEF allVars, vars, enterVars, LineInv, Entering, RowCells, InMemory, PrintedChars,
              DigitWidth, Shows
<1>4. QED
  BY <1>1, <1>2, <1>3 DEF EditingNext

LEMMA LineIsShown == EditInv /\ LineInv => LineShowsMemory
<1> SUFFICES ASSUME EditInv, LineInv, Entering
             PROVE  /\ entAddr = row + col * Len(current)
                    /\ Len(line) = (col + 1) * PrintedChars(current)
                    /\ \A i \in 1 .. Len(line) :
                          LET c == (i - 1) \div PrintedChars(current)
                              k == 1 + ((i - 1) % PrintedChars(current))
                          IN  line[i] = <<IF c = col THEN current ELSE InMemory(c), k>>
  BY DEF LineShowsMemory
<1> DEFINE P == PrintedChars(current)
<1>1. /\ Len(current) \in {1, 2} /\ current \in Seq(BOOLEAN) /\ col \in Nat
      /\ entAddr = row + col * Len(current)
  <2>1. /\ entAddr = row + (IF type = "word" THEN 2 * col ELSE col)
        /\ Len(current) = Size(type)
    BY EntryFacts
  <2>2. QED
    BY <2>1, EntryFacts DEF Size
<1>2. P \in Nat \ {0}
  BY <1>1, Printed
<1>3. Shows(line, col + 1, RowCells, P)
  BY DEF LineInv
<1> HIDE DEF P
<1>4. Len(line) = (col + 1) * P
  BY <1>3 DEF Shows
<1>5. ASSUME NEW i \in 1 .. (col + 1) * P
      PROVE  line[i] = <<IF (i - 1) \div P = col THEN current ELSE InMemory((i - 1) \div P),
                         1 + ((i - 1) % P)>>
  <2>1. (i - 1) \div P \in 0 .. col
    <3>1. (i - 1) \div P \in 0 .. (col + 1) - 1
      BY <1>1, <1>2, ColumnOf
    <3>2. QED
      BY <1>1, <3>1
  <2>2. line[i] = <<RowCells[(i - 1) \div P], 1 + ((i - 1) % P)>>
    BY <1>3 DEF Shows
  <2>3. QED
    BY <2>1, <2>2 DEF RowCells
<1>6. QED
  BY <1>1, <1>4, <1>5 DEF P

LEMMA EditInvariant == EditingSpec => []EditInv
BY EditInitInv, EditNextInv, PTL DEF EditingSpec

-----------------------------------------------------------------------------
\* The entry, its row and what is typed into it stay in memory, as the session and
\* its section do (monitor_enter.c:53-87, monitor_assemble.c:445-468).
THEOREM EditingTypeCorrect == EditingSpec => []EditingTypeOK
<1>1. EditInv => EditingTypeOK
  BY DEF EditInv, SessionInv, EditingTypeOK
<1>2. QED
  BY <1>1, EditInvariant, PTL

\* The cursor is in what the session shows, and the session in its section, whatever
\* Enter wrote there before (monitor_assemble.c:445-468).
THEOREM SessionKeptByEnter == EditingSpec => [](CursorInSession /\ SectionCoversSession)
<1>1. EditInv => CursorInSession /\ SectionCoversSession
  BY DEF EditInv, SessionInv, Inv
<1>2. QED
  BY <1>1, EditInvariant, PTL

\* The cursor and the end are where instructions begin, and previous_thumb_instruction
\* finds the one before them, in every session that was opened at an instruction and
\* had none replaced by one of another width: neither an assembled instruction nor
\* what Enter left in the section ever misleads the walk (monitor_assemble.c:19-35).
THEOREM SessionOnInstructions == EditingSpec => []OnInstructions
<1>1. EditingInit => OnInstructions
  BY DEF EditingInit, Init, OnInstructions, InMenu
<1>2. EditInv => SessionInv
  BY DEF EditInv
<1>3. QED
  BY <1>1, <1>2, EditInvariant, EditNextOn, PTL DEF EditingSpec

\* Entering instructions, a row is one instruction (monitor_enter.c:97-100).
THEOREM EnterRowIsOneInstruction == EditingSpec => []RowIsOneInstruction
<1>1. EditInv => RowIsOneInstruction
  BY DEF EditInv
<1>2. QED
  BY <1>1, EditInvariant, PTL

\* Memory only changes where and when digits were typed (monitor_enter.c:53-87): an
\* entry no digit was typed into is what memory has, so that storing it changes
\* nothing, and no entry is complete with its first digit.
THEOREM EnterOnlyTypedChanges == EditingSpec => OnlyTypedChanges
<1> DEFINE Kept == Entering /\ looksWide' # looksWide =>
                      /\ digitIdx > 0
                      /\ \A b \in DOMAIN looksWide \ (entAddr .. entAddr + Len(current) - 1) :
                            looksWide'[b] = looksWide[b]
<1>1. EditInv /\ [EditingNext]_allVars => [Kept]_<<looksWide, enterVars>>
  <2> SUFFICES ASSUME EditInv, EnterStep, Entering, looksWide' # looksWide
               PROVE  /\ digitIdx > 0
                      /\ \A b \in DOMAIN looksWide \ (entAddr .. entAddr + Len(current) - 1) :
                            looksWide'[b] = looksWide[b]
    BY DEF EditingNext, AssembleStep, allVars, vars
  <2>1. /\ Size(type) \in {1, 2} /\ Len(current) = Size(type)
        /\ current \in [1 .. Size(type) -> BOOLEAN]
        /\ entAddr \in Nat /\ digitIdx \in Nat /\ entAddr + Size(type) - 1 <= Top + 1
        /\ looksWide \in AnyMemory /\ DOMAIN looksWide = 0 .. Top + 1
    BY EntryFacts DEF AnyMemory
  <2>2. PICK cur \in [1 .. Size(type) -> BOOLEAN] :
            /\ looksWide' = Store(looksWide, entAddr, cur)
            /\ cur = current \/ digitIdx + 1 >= DigitWidth(cur)
    <3>1. EnterKey
      BY DEF EnterStep, Start
    <3>2. CASE \E c \in [1 .. Len(current) -> BOOLEAN] : Digit(c)
      BY <2>1, <3>2 DEF Digit, Incomplete, Complete
    <3>3. CASE Space \/ Return
      BY <2>1, <3>3 DEF Space, Return, Complete
    <3>4. CASE GoBack \/ StayAtRowStart \/ TakeBack
      BY <3>4 DEF GoBack, StayAtRowStart, TakeBack, Reload, Incomplete
    <3>5. QED
      BY <3>1, <3>2, <3>3, <3>4 DEF EnterKey
  <2>3. /\ Len(cur) = Size(type)
        /\ \A b \in DOMAIN looksWide \ (entAddr .. entAddr + Len(current) - 1) :
              looksWide'[b] = looksWide[b]
    <3>1. Len(cur) = Size(type)
      BY <2>1, StoreType
    <3>2. ASSUME NEW b \in DOMAIN looksWide \ (entAddr .. entAddr + Len(current) - 1)
          PROVE  Store(looksWide, entAddr, cur)[b] = looksWide[b]
      <4>1. b \in DOMAIN looksWide /\ b \notin entAddr .. entAddr + Len(cur) - 1
        BY <2>1, <3>1, <3>2
      <4>2. QED
        BY <4>1 DEF Store
    <3>3. QED
      BY <2>2, <3>1, <3>2
  <2>4. ASSUME digitIdx = 0
        PROVE  FALSE
    <3>1. CASE cur = current
      <4>1. current = Load(looksWide, entAddr, Size(type))
        BY <2>4 DEF EditInv, Typing
      <4>2. looksWide' = looksWide
        BY <2>1, <2>2, <3>1, <4>1, StoreLoaded
      <4>3. QED
        BY <4>2
    <3>2. CASE digitIdx + 1 >= DigitWidth(cur)
      <4>1. DigitsPerHalfword \in Nat /\ DigitsPerHalfword >= 2
        BY EnterAssumption
      <4>2. DigitWidth(cur) = DigitsPerHalfword \/ DigitWidth(cur) = 2 * DigitsPerHalfword
        BY <2>1, <2>3, <4>1 DEF DigitWidth
      <4>3. QED
        BY <2>4, <3>2, <4>1, <4>2
    <3>3. QED
      BY <2>2, <3>1, <3>2
  <2>5. QED
    BY <2>1, <2>3, <2>4
<1>2. QED
  BY <1>1, EditInvariant, PTL DEF EditingSpec, OnlyTypedChanges

\* However often entries were erased and printed again, the line is the row: its
\* entries as memory has them and last the one being typed, each with all its
\* characters (monitor_enter.c:60-72, 109-143).
THEOREM EnterLineShowsMemory == EditingSpec => []LineShowsMemory
<1>1. EditingInit => LineInv
  BY DEF EditingInit, EnterInit, LineInv, Entering
<1>2. EditingSpec => [](EditInv /\ LineInv)
  <2>1. EditInv /\ LineInv /\ [EditingNext]_allVars => (EditInv /\ LineInv)'
    BY EditNextInv, EditNextLine
  <2>2. QED
    BY EditInitInv, <1>1, <2>1, PTL DEF EditingSpec
<1>3. QED
  BY <1>2, LineIsShown, PTL

=============================================================================
