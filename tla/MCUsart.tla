------------------------------ MODULE MCUsart ------------------------------
(***************************************************************************)
(* Instances of Usart for TLC.  Two or three buffer slots and three byte   *)
(* values suffice to fill the queue, wrap both indices and lose a byte; a  *)
(* length register that wraps at 5 shows the same underflow as one that    *)
(* wraps at 256.                                                           *)
(***************************************************************************)
EXTENDS Usart

CONSTANTS zero, x, brk

MCBytes == {zero, x, brk}

=============================================================================
