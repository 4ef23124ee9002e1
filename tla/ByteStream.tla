----------------------------- MODULE ByteStream -----------------------------
(***************************************************************************)
(* What the interrupt-driven USART receiver promises its caller: a bounded *)
(* FIFO behind a one-byte data register.  A byte is lost only by an        *)
(* overrun of the register or because the FIFO is full when it is taken    *)
(* from the register; every other byte is handed out once and in order.    *)
(***************************************************************************)
EXTENDS Naturals, Sequences

CONSTANTS Capacity, Bytes, Zero, NoByte

VARIABLES
    in,     \* the data register
    q,      \* the accepted bytes, oldest first
    out     \* the last byte handed out

streamVars == <<in, q, out>>

StreamInit == in = NoByte /\ q = <<>> /\ out = Zero

Receive(b) == in' = (IF in = NoByte THEN b ELSE in) /\ UNCHANGED <<q, out>>

Accept ==
    /\ in # NoByte
    /\ in' = NoByte
    /\ q' = (IF Len(q) = Capacity THEN q ELSE Append(q, in))
    /\ UNCHANGED out

HandOut ==
    /\ q # <<>>
    /\ out' = Head(q)
    /\ q' = Tail(q)
    /\ UNCHANGED in

Restart == in' = NoByte /\ q' = <<>> /\ out' = Zero

StreamNext == (\E b \in Bytes : Receive(b)) \/ Accept \/ HandOut \/ Restart

StreamSafety == StreamInit /\ [][StreamNext]_streamVars

\* A byte never stays in the data register: the interrupt fetches it.
StreamSpec == StreamSafety /\ WF_streamVars(Accept)

=============================================================================
