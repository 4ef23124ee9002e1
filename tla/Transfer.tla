------------------------------ MODULE Transfer ------------------------------
(***************************************************************************)
(* Sending a file to the board: tools/binsend.c on the host, and on the    *)
(* target either transfer_receive() (monitor/transfer.c), which reads      *)
(* USART1 through its driver, or the loader of clobber_sram.s, which polls *)
(* the data register itself.  The file goes out behind its two-byte length *)
(* and every byte waits for an ACK.                                        *)
(*                                                                         *)
(* The driver is the FIFO that Usart is shown to implement (ByteStream);   *)
(* what is kept of it is the gap between usart_getbyte's test of the queue *)
(* and its WFI.                                                            *)
(***************************************************************************)
EXTENDS Naturals, Sequences

CONSTANTS
    Base,           \* the values of a byte, 256 in the code
    BufferSize,     \* BUFFER_SIZE of the driver
    Files,          \* the files there are to send
    NoByte,
    HostFaults      \* {TRUE} if read() may fail and binsend be stopped, {FALSE} if
                    \* not, BOOLEAN for behaviours of both kinds

Byte == 0 .. Base - 1

ASSUME TransferAssumption ==
    /\ Base \in Nat \ {0}
    /\ BufferSize \in Nat \ {0}
    /\ Files \subseteq Seq(Byte)
    /\ NoByte \notin Byte
    /\ HostFaults \subseteq BOOLEAN

VARIABLES
    faults,             \* whether this host fails, see HostFaults
    spc, file, sent,    \* binsend: where it is, the file, the bytes acknowledged
    wire, acks,         \* bytes on the way to the target, ACKs on the way back
    rdr, q,             \* USART1's data register and queue
    loader,             \* the target runs clobber_sram.s, not transfer_receive()
    rpc,                \* where the target's thread is
    phase,              \* which of the two receive_into calls it is in
    need,               \* receive_into's len
    rxLen, mem          \* the length's bytes so far, the data so far

host   == <<faults, spc, file, sent>>
target == <<loader, rpc, phase, need, rxLen, mem>>
vars   == <<host, wire, acks, rdr, q, target>>

Init ==
    /\ faults \in HostFaults
    /\ spc = "closed" /\ file = <<>> /\ sent = 0
    /\ wire = NoByte /\ acks = 0
    /\ rdr = NoByte /\ q = <<>>
    /\ loader = FALSE
    /\ rpc = "menu" /\ phase = "length" /\ need = 0 /\ rxLen = <<>> /\ mem = <<>>

-----------------------------------------------------------------------------
(***************************************************************************)
(* binsend                                                                 *)
(***************************************************************************)
\* What is sent for a file: len_u16, low byte first, and the bytes.
Payload(f) == <<Len(f) % Base, (Len(f) \div Base) % Base>> \o f

\* A file whose size does not fit in 16 bits is refused.
Open(f) ==
    /\ spc \in {"closed", "done"}
    /\ Len(f) < Base * Base
    /\ spc' = "write" /\ file' = f /\ sent' = 0
    /\ acks' = 0
    /\ UNCHANGED <<faults, wire, rdr, q, target>>

\* transfer_byte: write one byte ...
WriteByte ==
    /\ spc = "write" /\ wire = NoByte
    /\ wire' = Payload(file)[sent + 1]
    /\ spc' = "read"
    /\ UNCHANGED <<faults, file, sent, acks, rdr, q, target>>

\* Mutant: an ACK is taken for granted.
ReadAck_unguarded ==
    /\ spc = "read"
    /\ acks' = acks - 1
    /\ sent' = sent + 1
    /\ spc' = (IF sent + 1 = Len(Payload(file)) THEN "done" ELSE "write")
    /\ UNCHANGED <<faults, file, wire, rdr, q, target>>

\* Mutant: the next byte is sent without waiting.
ReadAck_not_waiting ==
    /\ spc = "read"
    /\ acks' = (IF acks = 0 THEN 0 ELSE acks - 1)
    /\ sent' = sent + 1
    /\ spc' = (IF sent + 1 = Len(Payload(file)) THEN "done" ELSE "write")
    /\ UNCHANGED <<faults, file, wire, rdr, q, target>>

\* ... and block until its ACK is there.
ReadAck ==
    /\ spc = "read" /\ acks > 0
    /\ acks' = acks - 1
    /\ sent' = sent + 1
    /\ spc' = (IF sent + 1 = Len(Payload(file)) THEN "done" ELSE "write")
    /\ UNCHANGED <<faults, file, wire, rdr, q, target>>

\* read() fails.  In the length, transfer_bytes' result is ignored and the file's
\* bytes follow; in the file, the loop ends.
ReadFails ==
    /\ faults
    /\ spc = "read"
    /\ IF sent < 2
       THEN /\ sent' = 2
            /\ spc' = (IF file = <<>> THEN "done" ELSE "write")
       ELSE spc' = "closed" /\ UNCHANGED sent
    /\ UNCHANGED <<faults, file, wire, acks, rdr, q, target>>

\* The user stops binsend: the port is closed, what it had received is gone.
Stop ==
    /\ faults
    /\ spc \in {"write", "read"}
    /\ spc' = "closed" /\ acks' = 0
    /\ UNCHANGED <<faults, file, sent, wire, rdr, q, target>>

-----------------------------------------------------------------------------
(***************************************************************************)
(* USART1 on the target.                                                   *)
(***************************************************************************)
\* The byte reaches the data register; it is lost if the register is occupied.
Arrive ==
    /\ wire # NoByte
    /\ wire' = NoByte
    /\ rdr' = (IF rdr = NoByte THEN wire ELSE rdr)
    /\ UNCHANGED <<host, acks, q, target>>

\* Mutant: back to WFI after a wake-up, without testing the queue again.
Woken_sleeping_on == IF rpc = "asleep" THEN "wfi" ELSE rpc

Woken == IF rpc = "asleep" THEN "check" ELSE rpc

\* _usart_isr: queued, or dropped when the queue is full.
Isr ==
    /\ rdr # NoByte /\ rpc # "loaded"
    /\ rdr' = NoByte
    /\ q' = (IF Len(q) = BufferSize THEN q ELSE Append(q, rdr))
    /\ rpc' = Woken
    /\ UNCHANGED <<host, wire, acks, loader, phase, need, rxLen, mem>>

\* Another interrupt: a key typed at the terminal on USART2.
KeyPress ==
    /\ rpc = "asleep"
    /\ rpc' = Woken
    /\ UNCHANGED <<host, wire, acks, rdr, q, loader, phase, need, rxLen, mem>>

-----------------------------------------------------------------------------
(***************************************************************************)
(* The receiver.                                                           *)
(***************************************************************************)
\* The monitor's 'r', or "Exec from USART1" of its development menu.
Receive(exec) ==
    /\ rpc = "menu"
    /\ loader' = exec
    /\ rpc' = "check" /\ phase' = "length" /\ need' = 2
    /\ rxLen' = <<>> /\ mem' = <<>>
    /\ UNCHANGED <<host, wire, acks, rdr, q>>

\* *p++ = ...: into len, or into the destination.
Store(b) ==
    IF phase = "length"
    THEN rxLen' = Append(rxLen, b) /\ UNCHANGED mem
    ELSE mem' = Append(mem, b) /\ UNCHANGED rxLen

\* usart_getbyte by interrupts: a byte from the queue ...
TakeQueued ==
    /\ ~loader
    /\ rpc = "check" /\ q # <<>>
    /\ Store(Head(q))
    /\ q' = Tail(q)
    /\ rpc' = "ack"
    /\ UNCHANGED <<host, wire, acks, rdr, loader, phase, need>>

\* ... or WFI, which the interrupt of a byte queued just before does not end.
QueueEmpty ==
    /\ ~loader
    /\ rpc = "check" /\ q = <<>>
    /\ rpc' = "wfi"
    /\ UNCHANGED <<host, wire, acks, rdr, q, loader, phase, need, rxLen, mem>>

WaitForInterrupt ==
    /\ rpc = "wfi" /\ rdr = NoByte
    /\ rpc' = "asleep"
    /\ UNCHANGED <<host, wire, acks, rdr, q, loader, phase, need, rxLen, mem>>

\* rx of clobber_sram.s: a byte straight from the data register.  The USART1
\* interrupt is still enabled and competes for it.  (The loader writes over the
\* vector table and the driver; here both go on as they were.)
TakePolled ==
    /\ loader
    /\ rpc = "check" /\ rdr # NoByte
    /\ Store(rdr)
    /\ rdr' = NoByte
    /\ rpc' = "ack"
    /\ UNCHANGED <<host, wire, acks, q, loader, phase, need>>

\* Mutant: the length is read with its bytes swapped.
Length_swapped == rxLen[2] + Base * rxLen[1]

\* transfer_receive returns; the loader jumps into what it has loaded.
Done == IF loader THEN "loaded" ELSE "menu"

\* The length just received.
Length == rxLen[1] + Base * rxLen[2]

\* Mutant: receive_into tests len after the first byte, not before.
Ack_test_after ==
    /\ rpc = "ack"
    /\ acks' = acks + 1
    /\ \/ /\ need > 1
          /\ need' = need - 1
          /\ rpc' = "check"
          /\ UNCHANGED phase
       \/ /\ need = 1 /\ phase = "length"
          /\ need' = (IF Length = 0 THEN Base * Base ELSE Length) /\ phase' = "data"
          /\ rpc' = "check"
       \/ /\ need = 1 /\ phase = "data"
          /\ need' = 0
          /\ rpc' = Done
          /\ UNCHANGED phase
    /\ UNCHANGED <<host, wire, rdr, q, loader, rxLen, mem>>

\* usart1_putchar(ACK), and the next byte, the second receive_into or the end.
Ack ==
    /\ rpc = "ack"
    /\ acks' = acks + 1
    /\ \/ /\ need > 1
          /\ need' = need - 1
          /\ rpc' = "check"
          /\ UNCHANGED phase
       \/ /\ need = 1 /\ phase = "length" /\ Length > 0
          /\ need' = Length /\ phase' = "data"
          /\ rpc' = "check"
       \/ /\ need = 1 /\ (phase = "data" \/ Length = 0)
          /\ need' = 0
          /\ rpc' = Done
          /\ UNCHANGED phase
    /\ UNCHANGED <<host, wire, rdr, q, loader, rxLen, mem>>

-----------------------------------------------------------------------------
Next ==
    \/ \E f \in Files : Open(f)
    \/ WriteByte \/ ReadAck \/ ReadFails \/ Stop
    \/ Arrive \/ Isr \/ KeyPress
    \/ \E exec \in BOOLEAN : Receive(exec)
    \/ TakeQueued \/ QueueEmpty \/ WaitForInterrupt \/ TakePolled \/ Ack

Spec == Init /\ [][Next]_vars

\* The host, the wire and the core make progress and the user asks for the file.
Fairness ==
    /\ WF_vars(WriteByte) /\ WF_vars(ReadAck)
    /\ WF_vars(Arrive) /\ WF_vars(Isr)
    /\ WF_vars(Receive(FALSE)) /\ WF_vars(TakeQueued) /\ WF_vars(QueueEmpty)
    /\ WF_vars(WaitForInterrupt) /\ WF_vars(Ack)
    /\ WF_vars(TakePolled)

FairSpec == Spec /\ Fairness

\* In addition the user keeps typing while nothing seems to happen.
TypingSpec == FairSpec /\ WF_vars(KeyPress)

-----------------------------------------------------------------------------
TypeOK ==
    /\ faults \in BOOLEAN /\ spc \in {"closed", "write", "read", "done"}
    /\ file \in Seq(Byte) /\ sent \in Nat
    /\ wire \in Byte \cup {NoByte} /\ acks \in Nat
    /\ rdr \in Byte \cup {NoByte} /\ q \in Seq(Byte)
    /\ loader \in BOOLEAN /\ rpc \in {"menu", "check", "wfi", "asleep", "ack", "loaded"}
    /\ phase \in {"length", "data"} /\ need \in Nat
    /\ rxLen \in Seq(Byte) /\ mem \in Seq(Byte)

Present(b) == IF b = NoByte THEN 0 ELSE 1

\* The bytes and ACKs under way, wherever they are.
Outstanding ==
    Present(wire) + Present(rdr) + Len(q) + acks + (IF rpc = "ack" THEN 1 ELSE 0)

\* While nothing fails, the ACK protocol keeps a single byte or its ACK under way,
\* and only while binsend waits for it (binsend.c:73-93, transfer.c:12-15): so the
\* one-byte data register is never overrun and the queue never drops a byte.
Lockstep == ~faults => Outstanding = (IF spc = "read" THEN 1 ELSE 0)

\* When transfer_receive reports "Transfer complete" (transfer.c:29-30), or the
\* loader jumps, memory holds the file the host was asked to send, all of it.
CompleteIsTheFile ==
    [][~faults /\ rpc = "ack" /\ rpc' \in {"menu", "loaded"} => mem = file]_vars

\* receive_into never writes more than the announced number of bytes to the
\* destination (transfer.c:12-15), even when binsend fails or is stopped and run
\* again in the middle of a transfer.
WithinLength == phase = "data" => Len(mem) <= Length

\* A transfer the host has begun to a monitor that receives files finishes
\* (binsend.c:121-153).
TransferFinishes ==
    (spc = "write" /\ ~faults /\ ~loader) ~> (spc = "done" \/ loader)

\* So does one to a loader that waits for it (monitor_dev.c:20-22).
ExecFinishes ==
    (/\ spc = "write" /\ ~faults
     /\ loader /\ rpc = "check" /\ rxLen = <<>>) ~> (spc = "done")

=============================================================================
