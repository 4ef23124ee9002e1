-------------------------- MODULE AssembleSession --------------------------
(***************************************************************************)
(* The assembler's session, monitor_assemble() of                          *)
(* monitor_cmds/monitor_assemble.c: a cursor that moves over instructions  *)
(* of one or two halfwords, some of them just assembled, some left from    *)
(* before.  Memory only knows halfwords; where an instruction begins is    *)
(* found by walking from the start of the session or section.              *)
(*                                                                         *)
(* What the instructions are, labels and calls do not concern the cursor.  *)
(***************************************************************************)
EXTENDS UserMemory

VARIABLES
    secSize,        \* the section's size, in halfwords
    pc,             \* "closed", "menu", or "lost" in previous_thumb_instruction
    start, end, addr,   \* starting_addr, end_addr, addr
    hasSection,     \* memory_section is not NULL
    disturbed       \* history: see Assemble and Open

session == <<start, end, addr, hasSection>>
vars    == <<looksWide, secSize, pc, session, disturbed>>

Init ==
    /\ looksWide \in AnyMemory
    /\ secSize = 0
    /\ pc = "closed"
    /\ start = 0 /\ end = 0 /\ addr = 0 /\ hasSection = FALSE
    /\ disturbed = FALSE

-----------------------------------------------------------------------------
\* thumb_is_wide_instruction and thumb_ins_ptr_increment
Width(a)     == IF looksWide[a] THEN 2 ELSE 1
Increment(a) == a + Width(a)

\* The places that a walk over instructions from "from" comes by, up to Top.
Walk(from) ==
    LET on[a \in Address] ==
            \/ a = from
            \/ \E p \in {a - 1, a - 2} : p >= from /\ on[p] /\ Increment(p) = a
    IN  {a \in Address : a >= from /\ on[a]}

\* Mutant: the place before, whatever it is.
Previous_halfword(a) == {a - 1}

\* previous_thumb_instruction: the instruction before a place the walk comes by, and
\* none before any other.
Previous(a) == {p \in Walk(start) : Increment(p) = a}

\* Mutant: the section's size is counted from the wrong side.
Settle_backwards(a, e) ==
    /\ addr' = a
    /\ end' = (IF a > e THEN a ELSE e)
    /\ secSize' = (IF a > e /\ hasSection THEN start - a ELSE secSize)

\* Mutant: the section is not told of the new end.
Settle_size_kept(a, e) ==
    /\ addr' = a
    /\ end' = (IF a > e THEN a ELSE e)
    /\ UNCHANGED secSize

\* The top of the loop, before the menu: a cursor past the end moves the end and,
\* in a section, sets its size.
Settle(a, e) ==
    /\ addr' = a
    /\ end' = (IF a > e THEN a ELSE e)
    /\ secSize' = (IF a > e /\ hasSection THEN a - start ELSE secSize)

InMenu == pc = "menu"

-----------------------------------------------------------------------------
\* Mutant: an address below the section is not clamped.
OpenSection_above_only(a) ==
    /\ pc = "closed"
    /\ hasSection' = TRUE
    /\ start' = SectionStart
    /\ end' = SectionStart + secSize
    /\ addr' = (IF a > end' THEN end' ELSE a)
    /\ pc' = "menu"
    /\ disturbed' = (addr' \notin Walk(SectionStart) \/ end' \notin Walk(SectionStart))
    /\ UNCHANGED <<looksWide, secSize>>

\* With a section the address is clamped to it.  It may be anywhere in it, also
\* inside an instruction: that disturbs the session, and so does a section left
\* by a session that was.
OpenSection(a) ==
    /\ pc = "closed"
    /\ hasSection' = TRUE
    /\ start' = SectionStart
    /\ end' = SectionStart + secSize
    /\ addr' = (IF a < start' THEN start' ELSE IF a > end' THEN end' ELSE a)
    /\ pc' = "menu"
    /\ disturbed' = (addr' \notin Walk(SectionStart) \/ end' \notin Walk(SectionStart))
    /\ UNCHANGED <<looksWide, secSize>>

OpenAnywhere(a) ==
    /\ pc = "closed"
    /\ hasSection' = FALSE
    /\ start' = a /\ end' = a /\ addr' = a
    /\ pc' = "menu"
    /\ disturbed' = FALSE
    /\ UNCHANGED <<looksWide, secSize>>

\* memory_lookup_section finds the user section, the only one there is; a section
\* ends with the address after it.
InUserSection(a) == SectionStart <= a /\ a <= SectionStart + secSize

\* The address asked for is what was typed in, or is a label's; the section is looked
\* up by what was typed, also for a label.
OpenAt(typed, a) ==
    \/ InUserSection(typed)  /\ OpenSection(a)
    \/ ~InUserSection(typed) /\ OpenAnywhere(a)

\* The user section is asked for: the address is the highest there is.
OpenUserSection == OpenSection(Top + 1)

\* Every assembling command: the instruction is written, the cursor goes past it.
\* An instruction of another width in place of one that was there disturbs the
\* session.  (If assembling fails nothing changes.)
Assemble(wide, second) ==
    /\ InMenu
    /\ addr + (IF wide THEN 2 ELSE 1) <= Top
    /\ looksWide' = [looksWide EXCEPT
                        ![addr] = wide,
                        ![addr + 1] = IF wide THEN second ELSE @]
    /\ Settle(addr + (IF wide THEN 2 ELSE 1), end)
    /\ disturbed' = (disturbed \/ (addr < end /\ wide # looksWide[addr]))
    /\ UNCHANGED <<pc, start, hasSection>>

ToStart ==
    /\ InMenu
    /\ Settle(start, end)
    /\ UNCHANGED <<looksWide, pc, start, hasSection, disturbed>>

ToEnd ==
    /\ InMenu
    /\ Settle(end, end)
    /\ UNCHANGED <<looksWide, pc, start, hasSection, disturbed>>

Up ==
    /\ InMenu /\ addr > start
    /\ \E p \in Previous(addr) : Settle(p, end)
    /\ UNCHANGED <<looksWide, pc, start, hasSection, disturbed>>

Down ==
    /\ InMenu /\ addr < end
    /\ Increment(addr) <= Top
    /\ Settle(Increment(addr), end)
    /\ UNCHANGED <<looksWide, pc, start, hasSection, disturbed>>

\* Rewind takes the last instruction off the session; the section keeps its size.
Rewind ==
    /\ InMenu /\ end > start
    /\ \E e \in Previous(end) : Settle(IF addr > e THEN e ELSE addr, e)
    /\ UNCHANGED <<looksWide, pc, start, hasSection, disturbed>>

\* The end of the call and of its locals.
Close ==
    /\ pc' = "closed"
    /\ start' = 0 /\ end' = 0 /\ addr' = 0 /\ hasSection' = FALSE
    /\ disturbed' = FALSE
    /\ UNCHANGED <<looksWide, secSize>>

\* Up or Rewind from a place the walk does not come by: the loop goes on ...
Lose ==
    /\ InMenu
    /\ \/ addr > start /\ Previous(addr) = {}
       \/ end > start /\ Previous(end) = {}
    /\ pc' = "lost"
    /\ UNCHANGED <<looksWide, secSize, session, disturbed>>

\* ... to the end of memory and a HardFault, which ends in monitor_main.
LostFault == pc = "lost" /\ Close

Quit == InMenu /\ Close

Next ==
    \/ \E typed, a \in Address : OpenAt(typed, a)
    \/ OpenUserSection
    \/ \E wide, second \in BOOLEAN : Assemble(wide, second)
    \/ ToStart \/ ToEnd \/ Up \/ Down \/ Rewind
    \/ Lose \/ LostFault \/ Quit

Spec == Init /\ [][Next]_vars

-----------------------------------------------------------------------------
TypeOK ==
    /\ looksWide \in AnyMemory
    /\ secSize \in Nat
    /\ pc \in {"closed", "menu", "lost"}
    /\ start \in Address /\ end \in Address /\ addr \in Address
    /\ hasSection \in BOOLEAN /\ disturbed \in BOOLEAN

\* The cursor is never outside of what the session shows (monitor_assemble.c:445-467).
CursorInSession == InMenu => start <= addr /\ addr <= end

\* The cursor and the end are where instructions begin, and Up and Rewind find
\* the instruction before them (monitor_assemble.c:19-35), as long as the session
\* was opened at one and no instruction was replaced by one of another width.
OnInstructions ==
    /\ InMenu /\ ~disturbed => addr \in Walk(start) /\ end \in Walk(start)
    /\ pc = "lost" => disturbed

\* In a section the end is the section's, but for instructions that were rewound:
\* what is in the session is in the section (monitor_assemble.c:461-468).
SectionCoversSession == InMenu /\ hasSection => end <= start + secSize

\* previous_thumb_instruction finds the last instruction.
PreviousIsFound == pc # "lost"

=============================================================================
