----------------------------- MODULE UserMemory -----------------------------
(***************************************************************************)
(* The memory that the user's programs are put in, by the assembler        *)
(* (AssembleSession) and by the Enter command (Enter).                     *)
(*                                                                         *)
(* Addresses are halfwords.  Of a halfword it is kept whether it looks     *)
(* like the first half of a wide instruction: the second half of one may   *)
(* look like anything.                                                     *)
(***************************************************************************)
EXTENDS Integers

CONSTANTS
    SectionStart,   \* the address of the user section
    Top             \* bound: nothing is put beyond the halfword after this one

ASSUME UserMemoryAssumption ==
    SectionStart \in Nat /\ Top \in Nat /\ SectionStart <= Top

VARIABLE
    looksWide       \* memory, see above

Address == 0 .. Top

AnyMemory == [0 .. Top + 1 -> BOOLEAN]

=============================================================================
