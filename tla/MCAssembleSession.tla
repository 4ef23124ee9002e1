------------------------ MODULE MCAssembleSession ------------------------
(***************************************************************************)
(* An instance of AssembleSession: a section that begins one halfword      *)
(* above the lowest address, room for four halfwords in it and any content *)
(* of the memory, which is enough for a wide instruction over or under two *)
(* others and a rest.                                                      *)
(***************************************************************************)
EXTENDS AssembleSession

=============================================================================
