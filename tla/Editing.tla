------------------------------- MODULE Editing -------------------------------
(***************************************************************************)
(* The commands that write the user's memory from the keyboard, Assemble   *)
(* and Enter, one after the other: what Enter leaves behind is what the    *)
(* next session of the assembler finds in its section.                     *)
(***************************************************************************)
EXTENDS AssembleSession, Enter

sessionVars == <<secSize, pc, session, disturbed>>
allVars     == <<vars, enterVars>>

EditingInit == Init /\ EnterInit

AssembleStep == ~Entering /\ Next /\ UNCHANGED enterVars

EnterStep ==
    /\ pc = "closed"
    /\ \/ \E t \in Types, a \in Address : Start(t, a)
       \/ EnterKey
    /\ UNCHANGED sessionVars

EditingNext == AssembleStep \/ EnterStep

EditingSpec == EditingInit /\ [][EditingNext]_allVars

-----------------------------------------------------------------------------
EditingTypeOK == TypeOK /\ EnterTypeOK

=============================================================================
