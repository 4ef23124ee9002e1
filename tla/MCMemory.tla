------------------------------ MODULE MCMemory ------------------------------
(***************************************************************************)
(* An instance of Memory: entries of four bytes in a space for six of      *)
(* them, allocations of less than, exactly and more than one entry, two    *)
(* names that can be labels and one that is too long, and an even and an   *)
(* odd address.                                                            *)
(***************************************************************************)
EXTENDS Memory

CONSTANTS a, b, long

MCNames == {a, b, long}
MCNameLen == [n \in MCNames |-> IF n = long THEN 3 ELSE 1]

=============================================================================
