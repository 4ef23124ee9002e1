------------------------------ MODULE MCEditing ------------------------------
(***************************************************************************)
(* An instance of Editing: the memory and the section of                   *)
(* MCAssembleSession, halfwords of two digits and rows of four of them, so *)
(* that a word has a '_' in it and a row of words two entries.             *)
(***************************************************************************)
EXTENDS Editing

=============================================================================
