--------------------------- MODULE TransferProofs ---------------------------
(***************************************************************************)
(* That what transfer_receive() reports as complete is the file, and the   *)
(* ACK protocol that makes it so, for all files and sizes of byte and      *)
(* queue.                                                                  *)
(*                                                                         *)
(* The argument has three invariants, each resting on the one before:      *)
(*  - Counted: the target counts down to the length it was announced, and  *)
(*    so never stores more;                                                *)
(*  - Lockstep: a single byte or ACK is under way;                         *)
(*  - Matched: that byte is the next of the file, so that what the target  *)
(*    has stored is as much of the file as binsend has sent.               *)
(***************************************************************************)
EXTENDS Transfer, SequenceTheorems, TLAPS

USE DEF host, target

-----------------------------------------------------------------------------
(***************************************************************************)
(* Lengths and the payload                                                 *)
(***************************************************************************)
LEMMA ByteIs == Byte = 0 .. Base - 1 /\ Base \in Nat \ {0} /\ NoByte \notin Byte
BY TransferAssumption DEF Byte

LEMMA PayloadIs ==
    ASSUME NEW f \in Seq(Byte)
    PROVE  /\ Payload(f) \in Seq(Byte) /\ Len(Payload(f)) = Len(f) + 2
           /\ Payload(f)[1] = Len(f) % Base
           /\ Payload(f)[2] = (Len(f) \div Base) % Base
           /\ \A i \in 1 .. Len(f) : Payload(f)[i + 2] = f[i]
<1> DEFINE l == Len(f) % Base
           h == (Len(f) \div Base) % Base
<1>1. l \in Byte /\ h \in Byte
  <2>1. \A n \in Nat : n % Base \in Byte /\ n \div Base \in Nat
    BY ByteIs
  <2>2. Len(f) \in Nat
    OBVIOUS
  <2>3. QED
    BY <2>1, <2>2
<1>2. <<l, h>> \in Seq(Byte) /\ Len(<<l, h>>) = 2 /\ <<l, h>>[1] = l /\ <<l, h>>[2] = h
  BY <1>1
<1> HIDE DEF l, h
<1>3. /\ <<l, h>> \o f \in Seq(Byte) /\ Len(<<l, h>> \o f) = Len(f) + 2
      /\ (<<l, h>> \o f)[1] = l /\ (<<l, h>> \o f)[2] = h
      /\ \A i \in 1 .. Len(f) : (<<l, h>> \o f)[i + 2] = f[i]
  BY <1>2, ConcatProperties
<1>4. Payload(f) = <<l, h>> \o f
  BY DEF Payload, l, h
<1>5. QED
  BY <1>3, <1>4 DEF l, h

LEMMA LengthType ==
    ASSUME rxLen \in Seq(Byte), Len(rxLen) = 2
    PROVE  Length \in Nat
<1>1. rxLen[1] \in Byte /\ rxLen[2] \in Byte
  OBVIOUS
<1>2. \A l, h \in Byte : l + Base * h \in Nat
  BY ByteIs
<1>3. QED
  BY <1>1, <1>2 DEF Length

\* A file's length survives its two bytes.
LEMMA LengthIs ==
    ASSUME NEW n \in Nat, n < Base * Base
    PROVE  (n % Base) + Base * ((n \div Base) % Base) = n
<1>1. Base \in Nat \ {0}
  BY ByteIs
<1>2. n \div Base \in Nat /\ n = Base * (n \div Base) + (n % Base) /\ n % Base >= 0
  BY <1>1
<1>3. n \div Base < Base
  <2>1. SUFFICES ASSUME n \div Base >= Base PROVE FALSE
    BY <1>1, <1>2
  <2>2. \A m \in Nat : m >= Base => Base * m >= Base * Base
    BY <1>1
  <2>3. Base * (n \div Base) >= Base * Base
    BY <1>2, <2>1, <2>2
  <2>4. QED
    BY <1>1, <1>2, <2>3
<1>4. (n \div Base) % Base = n \div Base
  BY <1>1, <1>2, <1>3
<1>5. QED
  BY <1>1, <1>2, <1>4

-----------------------------------------------------------------------------
(***************************************************************************)
(* Counting                                                                *)
(***************************************************************************)
Receiving == rpc \in {"check", "wfi", "asleep", "ack"}
Acking    == IF rpc = "ack" THEN 1 ELSE 0

SentInv == spc \in {"write", "read"} => sent < Len(file) + 2

CountInv ==
    /\ phase = "length" => mem = <<>>
    /\ phase = "data" => Len(rxLen) = 2 /\ Len(mem) <= Length
    /\ Receiving => need > 0
    /\ Receiving /\ phase = "length" => Len(rxLen) + need = 2 + Acking
    /\ Receiving /\ phase = "data" => Len(mem) + need = Length + Acking

Counted == TypeOK /\ SentInv /\ CountInv

LEMMA CountedInit == Init => Counted
<1> SUFFICES ASSUME Init
             PROVE  Counted
  OBVIOUS
<1>1. <<>> \in Seq(Byte)
  OBVIOUS
<1>2. TypeOK
  BY <1>1, TransferAssumption DEF Init, TypeOK
<1>3. SentInv /\ CountInv
  BY DEF Init, SentInv, CountInv, Receiving
<1>4. QED
  BY <1>2, <1>3 DEF Counted

LEMMA HostCounted ==
    ASSUME Counted, UNCHANGED <<rdr, q, target>>, UNCHANGED faults,
           spc' \in {"closed", "write", "read", "done"},
           file' \in Seq(Byte), sent' \in Nat, wire' \in Byte \cup {NoByte}, acks' \in Nat,
           spc' \in {"write", "read"} => sent' < Len(file') + 2
    PROVE  Counted'
BY DEF Counted, TypeOK, SentInv, CountInv, Receiving, Acking, Length

LEMMA TargetCounted ==
    ASSUME Counted, UNCHANGED host,
           wire' \in Byte \cup {NoByte}, acks' \in Nat, rdr' \in Byte \cup {NoByte},
           q' \in Seq(Byte), loader' \in BOOLEAN,
           rpc' \in {"menu", "check", "wfi", "asleep", "ack", "loaded"},
           phase' \in {"length", "data"}, need' \in Nat,
           rxLen' \in Seq(Byte), mem' \in Seq(Byte), CountInv'
    PROVE  Counted'
BY DEF Counted, TypeOK, SentInv

\* A byte is stored and counts as one of those that are needed.
LEMMA StoreCounted ==
    ASSUME Counted, rpc = "check", rpc' = "ack", UNCHANGED <<phase, need>>,
           NEW b \in Byte, Store(b)
    PROVE  CountInv' /\ rxLen' \in Seq(Byte) /\ mem' \in Seq(Byte)
<1>1. /\ rxLen \in Seq(Byte) /\ mem \in Seq(Byte) /\ need \in Nat /\ need > 0
      /\ Len(rxLen) \in Nat /\ Len(mem) \in Nat
  BY DEF Counted, TypeOK, CountInv, Receiving
<1>2. CASE phase = "length"
  <2>1. rxLen' = Append(rxLen, b) /\ mem' = mem /\ mem = <<>>
    BY <1>2 DEF Store, Counted, CountInv
  <2>2. rxLen' \in Seq(Byte) /\ Len(rxLen') = Len(rxLen) + 1
    BY <1>1, <2>1, AppendProperties
  <2>3. Len(rxLen) + need = 2
    BY <1>2 DEF Counted, CountInv, Receiving, Acking
  <2>4. Len(rxLen') + need' = 2 + 1
    BY <1>1, <2>2, <2>3
  <2>5. QED
    BY <1>1, <1>2, <2>1, <2>2, <2>4 DEF CountInv, Receiving, Acking
<1>3. CASE phase = "data"
  <2>1. mem' = Append(mem, b) /\ rxLen' = rxLen /\ Len(rxLen) = 2
    BY <1>3 DEF Store, Counted, CountInv
  <2>2. mem' \in Seq(Byte) /\ Len(mem') = Len(mem) + 1
    BY <1>1, <2>1, AppendProperties
  <2>3. Len(mem) + need = Length /\ Length \in Nat /\ Length' = Length
    BY <1>1, <1>3, <2>1, LengthType DEF Counted, CountInv, Receiving, Acking, Length
  <2>4. Len(mem') + need' = Length' + 1 /\ Len(mem') <= Length'
    BY <1>1, <2>2, <2>3
  <2>5. QED
    BY <1>1, <1>3, <2>1, <2>2, <2>4 DEF CountInv, Receiving, Acking
<1>4. QED
  BY <1>2, <1>3 DEF Counted, TypeOK

LEMMA AckCounted ==
    ASSUME Counted, Ack
    PROVE  CountInv' /\ need' \in Nat /\ phase' \in {"length", "data"}
<1>1. /\ rpc = "ack" /\ rxLen \in Seq(Byte) /\ mem \in Seq(Byte) /\ need \in Nat
      /\ Len(rxLen) \in Nat /\ Len(mem) \in Nat
      /\ UNCHANGED <<rxLen, mem, loader>> /\ Length' = Length
  BY DEF Ack, Counted, TypeOK, Length
<1>2. phase = "data" => Length \in Nat
  BY <1>1, LengthType DEF Counted, CountInv
<1>3. CASE need > 1 /\ need' = need - 1 /\ rpc' = "check" /\ UNCHANGED phase
  <2>1. Receiving /\ Acking = 1 /\ Acking' = 0
    BY <1>1, <1>3 DEF Receiving, Acking
  <2>2. CASE phase = "length"
    <3>1. Len(rxLen) + need = 3
      BY <2>1, <2>2 DEF Counted, CountInv
    <3>2. QED
      BY <1>1, <1>3, <2>1, <2>2, <3>1 DEF Counted, CountInv
  <2>3. CASE phase = "data"
    <3>1. Len(mem) + need = Length + 1
      BY <2>1, <2>3 DEF Counted, CountInv
    <3>2. QED
      BY <1>1, <1>2, <1>3, <2>1, <2>3, <3>1 DEF Counted, CountInv
  <2>4. QED
    BY <2>2, <2>3 DEF Counted, TypeOK
<1>4. CASE /\ need = 1 /\ phase = "length" /\ Length > 0
           /\ need' = Length /\ phase' = "data" /\ rpc' = "check"
  <2>0. mem = <<>> /\ Len(rxLen) + 1 = 2 + 1
    BY <1>1, <1>4, Zenon DEF Counted, CountInv, Receiving, Acking
  <2>a. \A k \in Nat : k + 1 = 2 + 1 => k = 2
    OBVIOUS
  <2>1. Len(rxLen) = 2 /\ mem = <<>>
    BY <1>1, <2>0, <2>a, Zenon
  <2>2. Length \in Nat /\ Len(mem) = 0
    BY <1>1, <2>1, LengthType
  <2>3. QED
    BY <1>1, <1>4, <2>1, <2>2 DEF CountInv, Receiving, Acking
<1>5. CASE need = 1 /\ need' = 0 /\ rpc' = Done /\ UNCHANGED phase
  <2>1. ~Receiving'
    BY <1>5 DEF Receiving, Done
  <2>2. QED
    BY <1>1, <1>5, <2>1 DEF Counted, CountInv, TypeOK
<1>6. QED
  BY <1>3, <1>4, <1>5 DEF Ack

LEMMA CountedStep == Counted /\ [Next]_vars => Counted'
<1> SUFFICES ASSUME Counted, [Next]_vars
             PROVE  Counted'
  OBVIOUS
<1>0. TypeOK /\ SentInv /\ CountInv
  BY DEF Counted
<1>1. ASSUME NEW f \in Files, Open(f)
      PROVE  Counted'
  BY <1>0, <1>1, HostCounted, TransferAssumption DEF Open, TypeOK
<1>2. CASE WriteByte
  <2>1. Payload(file) \in Seq(Byte) /\ Len(Payload(file)) = Len(file) + 2
    BY <1>0, PayloadIs DEF TypeOK
  <2>2. sent + 1 \in 1 .. Len(Payload(file))
    BY <1>0, <1>2, <2>1 DEF WriteByte, TypeOK, SentInv
  <2>3. Payload(file)[sent + 1] \in Byte
    BY <2>1, <2>2
  <2>4. QED
    BY <1>0, <1>2, <2>3, HostCounted DEF WriteByte, TypeOK, SentInv
<1>3. CASE ReadAck
  <2>1. Len(Payload(file)) = Len(file) + 2 /\ Len(file) \in Nat
    BY <1>0, PayloadIs DEF TypeOK
  <2>2. acks' \in Nat /\ sent' \in Nat
    BY <1>0, <1>3 DEF ReadAck, TypeOK
  <2>3. spc' \in {"done", "write"} /\ (spc' = "write" => sent' < Len(file) + 2)
    BY <1>0, <1>3, <2>1 DEF ReadAck, TypeOK, SentInv
  <2>4. QED
    BY <1>0, <1>3, <2>2, <2>3, HostCounted DEF ReadAck, TypeOK
<1>4. CASE ReadFails
  <2>1. file \in Seq(Byte) /\ (file # <<>> => 2 < Len(file) + 2)
    BY <1>0 DEF TypeOK
  <2>2. QED
    BY <1>0, <1>4, <2>1, HostCounted DEF ReadFails, TypeOK
<1>5. CASE Stop
  BY <1>0, <1>5, HostCounted DEF Stop, TypeOK
<1>6. CASE Arrive
  <2>1. CountInv'
    BY <1>0, <1>6 DEF Arrive, CountInv, Receiving, Acking, Length
  <2>2. QED
    BY <1>0, <1>6, <2>1, TargetCounted DEF Arrive, TypeOK
<1>7. CASE Isr
  <2>1. q' \in Seq(Byte)
    BY <1>0, <1>7 DEF Isr, TypeOK
  <2>2. CountInv' /\ rpc' \in {"menu", "check", "wfi", "asleep", "ack", "loaded"}
    BY <1>0, <1>7 DEF Isr, Woken, CountInv, TypeOK, Receiving, Acking, Length
  <2>3. QED
    BY <1>0, <1>7, <2>1, <2>2, TargetCounted DEF Isr, TypeOK
<1>8. CASE KeyPress \/ QueueEmpty \/ WaitForInterrupt
  <2>1. CountInv' /\ rpc' \in {"wfi", "asleep", "check"}
    BY <1>0, <1>8 DEF KeyPress, QueueEmpty, WaitForInterrupt, Woken, CountInv, Receiving, Acking,
                      Length
  <2>2. QED
    BY <1>0, <1>8, <2>1, TargetCounted DEF KeyPress, QueueEmpty, WaitForInterrupt, TypeOK
<1>9. ASSUME NEW exec \in BOOLEAN, Receive(exec)
      PROVE  Counted'
  <2>1. CountInv'
    BY <1>9 DEF Receive, CountInv, Receiving, Acking
  <2>2. QED
    BY <1>0, <1>9, <2>1, TargetCounted DEF Receive, TypeOK
<1>10. CASE TakeQueued
  <2>1. q \in Seq(Byte) /\ q # <<>> /\ q' = Tail(q)
    BY <1>0, <1>10 DEF TakeQueued, TypeOK
  <2>2. Head(q) \in Byte /\ q' \in Seq(Byte)
    BY <2>1
  <2>3. CountInv' /\ rxLen' \in Seq(Byte) /\ mem' \in Seq(Byte)
    BY <1>10, <2>2, StoreCounted DEF TakeQueued
  <2>4. QED
    BY <1>0, <1>10, <2>2, <2>3, TargetCounted DEF TakeQueued, TypeOK
<1>11. CASE TakePolled
  <2>1. rdr \in Byte
    BY <1>0, <1>11 DEF TakePolled, TypeOK
  <2>2. CountInv' /\ rxLen' \in Seq(Byte) /\ mem' \in Seq(Byte)
    BY <1>11, <2>1, StoreCounted DEF TakePolled
  <2>3. QED
    BY <1>0, <1>11, <2>2, TargetCounted DEF TakePolled, TypeOK
<1>12. CASE Ack
  <2>1. CountInv' /\ need' \in Nat /\ phase' \in {"length", "data"}
    BY <1>12, AckCounted
  <2>2. rpc' \in {"menu", "check", "loaded"} /\ acks' \in Nat
    BY <1>0, <1>12 DEF Ack, Done, TypeOK
  <2>3. QED
    BY <1>0, <1>12, <2>1, <2>2, TargetCounted DEF Ack, TypeOK
<1>13. CASE UNCHANGED vars
  BY <1>0, <1>13, HostCounted DEF vars, TypeOK, SentInv
<1>14. QED
  BY <1>1, <1>2, <1>3, <1>4, <1>5, <1>6, <1>7, <1>8, <1>9, <1>10, <1>11, <1>12, <1>13 DEF Next

LEMMA CountedInvariant == Spec => []Counted
BY CountedInit, CountedStep, PTL DEF Spec

\* Every variable has its type, whatever fails.
THEOREM TransferTypeOK == Spec => []TypeOK
<1>1. Counted => TypeOK
  BY DEF Counted
<1>2. QED
  BY <1>1, CountedInvariant, PTL

\* receive_into stores no more than was announced (transfer.c:12-15), even when
\* binsend fails, is stopped or is run again in the middle.
THEOREM TransferWithinLength == Spec => []WithinLength
<1>1. Counted => WithinLength
  BY DEF Counted, CountInv, WithinLength
<1>2. QED
  BY <1>1, CountedInvariant, PTL

-----------------------------------------------------------------------------
(***************************************************************************)
(* One byte or ACK under way                                               *)
(***************************************************************************)
LEMMA OneUnderWay ==
    ASSUME Counted, Lockstep, ~faults
    PROVE  /\ spc # "read" => /\ wire = NoByte /\ rdr = NoByte /\ q = <<>>
                              /\ acks = 0 /\ rpc # "ack"
           /\ wire # NoByte => rdr = NoByte /\ q = <<>> /\ acks = 0 /\ rpc # "ack"
           /\ rdr # NoByte => wire = NoByte /\ q = <<>> /\ acks = 0 /\ rpc # "ack"
           /\ q # <<>> => /\ wire = NoByte /\ rdr = NoByte /\ acks = 0 /\ rpc # "ack"
                          /\ Len(q) = 1
           /\ acks > 0 => /\ wire = NoByte /\ rdr = NoByte /\ q = <<>> /\ rpc # "ack"
                          /\ acks = 1
           /\ rpc = "ack" => wire = NoByte /\ rdr = NoByte /\ q = <<>> /\ acks = 0
<1> DEFINE w == Present(wire)
           r == Present(rdr)
           k == IF rpc = "ack" THEN 1 ELSE 0
<1>1. /\ w \in {0, 1} /\ r \in {0, 1} /\ k \in {0, 1}
      /\ (w = 0 <=> wire = NoByte) /\ (r = 0 <=> rdr = NoByte) /\ (k = 0 <=> rpc # "ack")
  BY DEF Present
<1>2. Len(q) \in Nat /\ acks \in Nat /\ (Len(q) = 0 <=> q = <<>>)
  BY EmptySeq DEF Counted, TypeOK
<1>3. w + r + Len(q) + acks + k = (IF spc = "read" THEN 1 ELSE 0)
  BY DEF Lockstep, Outstanding
<1> HIDE DEF w, r, k
<1>4. \A n \in Nat : w + r + n + acks + k = (IF spc = "read" THEN 1 ELSE 0) =>
          /\ spc # "read" => w = 0 /\ r = 0 /\ n = 0 /\ acks = 0 /\ k = 0
          /\ w # 0 => r = 0 /\ n = 0 /\ acks = 0 /\ k = 0
          /\ r # 0 => w = 0 /\ n = 0 /\ acks = 0 /\ k = 0
          /\ n # 0 => w = 0 /\ r = 0 /\ acks = 0 /\ k = 0 /\ n = 1
          /\ acks > 0 => w = 0 /\ r = 0 /\ n = 0 /\ k = 0 /\ acks = 1
          /\ k # 0 => w = 0 /\ r = 0 /\ n = 0 /\ acks = 0
  BY <1>1, <1>2
<1>5. QED
  BY <1>1, <1>2, <1>3, <1>4, Zenon

\* A byte or an ACK goes from one place to the next.
LEMMA LockstepIs ==
    ASSUME NEW w \in {0, 1}, NEW r \in {0, 1}, NEW n \in Nat, NEW a \in Nat, NEW k \in {0, 1},
           wire' = NoByte <=> w = 0, rdr' = NoByte <=> r = 0, Len(q') = n, acks' = a,
           rpc' = "ack" <=> k = 1,
           w + r + n + a + k = (IF spc' = "read" THEN 1 ELSE 0)
    PROVE  Lockstep'
BY DEF Lockstep, Outstanding, Present

LEMMA LockstepStep == Counted /\ Lockstep /\ [Next]_vars => Lockstep'
<1> SUFFICES ASSUME Counted, Lockstep, [Next]_vars
             PROVE  Lockstep'
  OBVIOUS
<1>0. /\ TypeOK /\ Len(q) \in Nat /\ Len(<<>>) = 0
      /\ NoByte \notin Byte /\ BufferSize \in Nat \ {0}
  BY TransferAssumption DEF Counted, TypeOK
<1>1. CASE faults
  <2>1. faults' = faults
    BY DEF Next, vars, Open, WriteByte, ReadAck, ReadFails, Stop, Arrive, Isr, KeyPress, Receive,
           TakeQueued, QueueEmpty, WaitForInterrupt, TakePolled, Ack
  <2>2. QED
    BY <1>1, <2>1 DEF Lockstep
<1>2. CASE ~faults
  <2>0. /\ spc # "read" => wire = NoByte /\ rdr = NoByte /\ q = <<>> /\ acks = 0 /\ rpc # "ack"
        /\ wire # NoByte => rdr = NoByte /\ q = <<>> /\ acks = 0 /\ rpc # "ack"
        /\ rdr # NoByte => wire = NoByte /\ q = <<>> /\ acks = 0 /\ rpc # "ack"
        /\ q # <<>> => wire = NoByte /\ rdr = NoByte /\ acks = 0 /\ rpc # "ack" /\ Len(q) = 1
        /\ acks > 0 => wire = NoByte /\ rdr = NoByte /\ q = <<>> /\ rpc # "ack" /\ acks = 1
        /\ rpc = "ack" => wire = NoByte /\ rdr = NoByte /\ q = <<>> /\ acks = 0
    BY <1>2, OneUnderWay
  <2>1. ASSUME NEW f \in Files, Open(f)
        PROVE  Lockstep'
    BY <1>0, <2>0, <2>1 DEF Open, Lockstep, Outstanding, Present
  <2>2. CASE WriteByte
    <3>1. /\ spc = "write" /\ spc' = "read" /\ wire' = Payload(file)[sent + 1]
          /\ UNCHANGED <<rdr, q, acks, rpc>>
      BY <2>2 DEF WriteByte
    <3>2. wire' \in Byte
      <4>1. Payload(file) \in Seq(Byte) /\ Len(Payload(file)) = Len(file) + 2
        BY <1>0, PayloadIs DEF TypeOK
      <4>2. sent + 1 \in 1 .. Len(Payload(file))
        BY <1>0, <3>1, <4>1 DEF Counted, TypeOK, SentInv
      <4>3. QED
        BY <3>1, <4>1, <4>2
    <3>3. QED
      BY <1>0, <2>0, <3>1, <3>2, LockstepIs
  <2>3. CASE ReadAck
    <3>1. /\ spc' # "read" /\ acks = 1 /\ acks' = 0
          /\ wire' = NoByte /\ rdr' = NoByte /\ q' = <<>> /\ rpc' # "ack"
      BY <2>0, <2>3 DEF ReadAck
    <3>2. QED
      BY <1>0, <3>1, LockstepIs
  <2>4. CASE ReadFails \/ Stop
    BY <1>2, <2>4 DEF ReadFails, Stop
  <2>5. CASE Arrive
    <3>1. /\ spc' = "read" /\ wire' = NoByte /\ rdr' # NoByte /\ q' = <<>> /\ acks' = 0
          /\ rpc' # "ack"
      BY <2>0, <2>5 DEF Arrive
    <3>2. QED
      BY <1>0, <3>1, LockstepIs
  <2>6. CASE Isr
    <3>1. /\ spc' = "read" /\ wire' = NoByte /\ rdr' = NoByte /\ acks' = 0 /\ rpc' # "ack"
          /\ q = <<>> /\ q' = Append(q, rdr)
      BY <1>0, <2>0, <2>6 DEF Isr, Woken
    <3>2. Len(q') = 1
      BY <3>1
    <3>3. QED
      BY <3>1, <3>2, LockstepIs
  <2>7. CASE KeyPress \/ QueueEmpty \/ WaitForInterrupt \/ \E exec \in BOOLEAN : Receive(exec)
    <3>1. /\ UNCHANGED <<faults, spc, wire, rdr, q, acks>> /\ rpc # "ack" /\ rpc' # "ack"
      BY <2>7 DEF KeyPress, QueueEmpty, WaitForInterrupt, Receive, Woken
    <3>2. QED
      BY <3>1 DEF Lockstep, Outstanding, Present
  <2>8. CASE TakeQueued
    <3>1. /\ spc' = "read" /\ wire' = NoByte /\ rdr' = NoByte /\ acks' = 0 /\ rpc' = "ack"
          /\ q # <<>> /\ Len(q) = 1 /\ q' = Tail(q)
      BY <2>0, <2>8 DEF TakeQueued
    <3>2. Len(q') = 0
      BY <1>0, <3>1 DEF TypeOK
    <3>3. QED
      BY <3>1, <3>2, LockstepIs
  <2>9. CASE TakePolled
    <3>1. /\ spc' = "read" /\ wire' = NoByte /\ rdr' = NoByte /\ acks' = 0 /\ rpc' = "ack"
          /\ q' = <<>>
      BY <2>0, <2>9 DEF TakePolled
    <3>2. QED
      BY <1>0, <3>1, LockstepIs
  <2>10. CASE Ack
    <3>1. /\ spc' = "read" /\ wire' = NoByte /\ rdr' = NoByte /\ q' = <<>> /\ acks' = 1
          /\ rpc' # "ack"
      BY <2>0, <2>10 DEF Ack, Done
    <3>2. QED
      BY <1>0, <3>1, LockstepIs
  <2>11. CASE UNCHANGED vars
    BY <2>11 DEF vars, Lockstep, Outstanding, Present
  <2>12. QED
    BY <2>1, <2>2, <2>3, <2>4, <2>5, <2>6, <2>7, <2>8, <2>9, <2>10, <2>11 DEF Next
<1>3. QED
  BY <1>1, <1>2

LEMMA LockstepInit == Init => Lockstep
<1> SUFFICES ASSUME Init
             PROVE  Lockstep
  OBVIOUS
<1>1. wire = NoByte /\ rdr = NoByte /\ Len(q) = 0 /\ acks = 0 /\ rpc # "ack" /\ spc # "read"
  BY DEF Init
<1>2. QED
  BY <1>1 DEF Lockstep, Outstanding, Present

\* A single byte or its ACK is under way while binsend waits for it, and none
\* otherwise (binsend.c:73-93, transfer.c:12-15), for every size of queue.
THEOREM TransferLockstep == Spec => []Lockstep
BY CountedInvariant, LockstepInit, LockstepStep, PTL DEF Spec

-----------------------------------------------------------------------------
(***************************************************************************)
(* The file                                                                *)
(***************************************************************************)
NextByte == Payload(file)[sent + 1]

\* What is under way is the byte that binsend waits to see acknowledged.
UnderWay ==
    /\ wire # NoByte => wire = NextByte
    /\ rdr # NoByte => rdr = NextByte
    /\ q # <<>> => Head(q) = NextByte

\* What the target has is how the payload begins.
Stored ==
    /\ \A i \in 1 .. Len(rxLen) : rxLen[i] = Payload(file)[i]
    /\ \A i \in 1 .. Len(mem) : mem[i] = Payload(file)[i + 2]

\* The target is in the middle of receiving what binsend sends, ...
Following ==
    /\ spc \in {"write", "read"}
    /\ Len(rxLen) + Len(mem) = sent + acks + Acking
    /\ Stored

\* ... or is not receiving: binsend has sent nothing or has yet to read the last
\* ACK, ...
Between ==
    /\ spc = "write" => sent = 0
    /\ spc = "read" => \/ sent = 0 /\ acks = 0
                       \/ sent + 1 = Len(file) + 2 /\ acks = 1

\* ... or it is ready for the next file.
Waiting ==
    /\ Between
    /\ rxLen = <<>> /\ mem = <<>> /\ rpc # "ack"
    /\ spc # "write" /\ (spc = "read" => acks = 1)

Matched ==
    ~faults =>
        /\ Len(file) < Base * Base
        /\ spc = "read" => UnderWay
        /\ Receiving => Following \/ Waiting
        /\ ~Receiving => Between

LEMMA MatchedInit == Init => Matched
<1> SUFFICES ASSUME Init
             PROVE  Matched
  OBVIOUS
<1>1. Len(file) = 0 /\ spc = "closed" /\ rpc = "menu"
  BY DEF Init
<1>2. 0 < Base * Base
  BY ByteIs
<1>3. QED
  BY <1>1, <1>2 DEF Matched, Receiving, Between

\* Once the target has the length it is the file's.
LEMMA LengthMatches ==
    ASSUME TypeOK, Stored, Len(rxLen) = 2, Len(file) < Base * Base
    PROVE  Length = Len(file)
<1>1. rxLen[1] = Payload(file)[1] /\ rxLen[2] = Payload(file)[2]
  BY DEF Stored
<1>2. /\ Payload(file)[1] = Len(file) % Base
      /\ Payload(file)[2] = (Len(file) \div Base) % Base
  BY PayloadIs DEF TypeOK
<1>3. Len(file) \in Nat
  BY DEF TypeOK
<1>4. (Len(file) % Base) + Base * ((Len(file) \div Base) % Base) = Len(file)
  BY <1>3, LengthIs
<1>5. QED
  BY <1>1, <1>2, <1>4 DEF Length

\* The target is not done before binsend is.
LEMMA NotAllReceived ==
    ASSUME Counted, Stored, Len(file) < Base * Base, Receiving, rpc # "ack"
    PROVE  Len(rxLen) + Len(mem) < Len(file) + 2
<1>1. /\ TypeOK /\ Len(rxLen) \in Nat /\ Len(mem) \in Nat /\ Len(file) \in Nat
      /\ need \in Nat /\ need > 0 /\ Acking = 0
  BY DEF Counted, TypeOK, CountInv, Acking
<1>2. CASE phase = "length"
  <2>1. mem = <<>> /\ Len(rxLen) + need = 2 + 0
    BY <1>1, <1>2 DEF Counted, CountInv
  <2>2. Len(mem) = 0
    BY <2>1
  <2>3. QED
    BY <1>1, <2>1, <2>2
<1>3. CASE phase = "data"
  <2>1. Len(rxLen) = 2 /\ Len(mem) + need = Length + 0
    BY <1>1, <1>3 DEF Counted, CountInv
  <2>2. Length = Len(file)
    BY <1>1, <2>1, LengthMatches
  <2>3. QED
    BY <1>1, <2>1, <2>2
<1>4. QED
  BY <1>1, <1>2, <1>3 DEF TypeOK

\* Storing the next byte.
LEMMA StoreMatches ==
    ASSUME Counted, Stored, UNCHANGED file, rpc = "check",
           Len(rxLen) + Len(mem) = sent, NEW b \in Byte, b = NextByte, Store(b)
    PROVE  Stored' /\ Len(rxLen') + Len(mem') = sent + 1
<1>1. /\ rxLen \in Seq(Byte) /\ mem \in Seq(Byte) /\ Len(rxLen) \in Nat /\ Len(mem) \in Nat
      /\ sent \in Nat
  BY DEF Counted, TypeOK
<1>2. CASE phase = "length"
  <2>1. rxLen' = Append(rxLen, b) /\ mem' = mem /\ mem = <<>>
    BY <1>2 DEF Store, Counted, CountInv
  <2>2. Len(mem) = 0 /\ Len(rxLen) = sent
    BY <1>1, <2>1
  <2>3. /\ Len(rxLen') = Len(rxLen) + 1
        /\ \A i \in 1 .. Len(rxLen) : rxLen'[i] = rxLen[i]
        /\ rxLen'[Len(rxLen) + 1] = b
    BY <1>1, <2>1, AppendProperties
  <2>4. \A i \in 1 .. Len(rxLen') : i \in 1 .. Len(rxLen) \/ i = Len(rxLen) + 1
    BY <1>1, <2>3
  <2>5. \A i \in 1 .. Len(rxLen') : rxLen'[i] = Payload(file)[i]
    BY <2>2, <2>3, <2>4 DEF Stored, NextByte
  <2>6. \A i \in 1 .. Len(mem') : mem'[i] = Payload(file)[i + 2]
    BY <2>1 DEF Stored
  <2>7. QED
    BY <1>1, <2>1, <2>2, <2>3, <2>5, <2>6 DEF Stored
<1>3. CASE phase = "data"
  <2>1. mem' = Append(mem, b) /\ rxLen' = rxLen /\ Len(rxLen) = 2
    BY <1>3 DEF Store, Counted, CountInv
  <2>2. Len(mem) + 2 = sent /\ Len(mem) + 1 + 2 = sent + 1
    BY <1>1, <2>1
  <2>3. /\ Len(mem') = Len(mem) + 1
        /\ \A i \in 1 .. Len(mem) : mem'[i] = mem[i]
        /\ mem'[Len(mem) + 1] = b
    BY <1>1, <2>1, AppendProperties
  <2>4. \A i \in 1 .. Len(mem') : i \in 1 .. Len(mem) \/ i = Len(mem) + 1
    BY <1>1, <2>3
  <2>5. \A i \in 1 .. Len(mem') : mem'[i] = Payload(file)[i + 2]
    <3>1. mem'[Len(mem) + 1] = Payload(file)[Len(mem) + 1 + 2]
      BY <2>2, <2>3 DEF NextByte
    <3>2. \A i \in 1 .. Len(mem) : mem'[i] = Payload(file)[i + 2]
      BY <2>3 DEF Stored
    <3>3. QED
      BY <2>4, <3>1, <3>2
  <2>6. QED
    BY <1>1, <2>1, <2>2, <2>3, <2>5 DEF Stored
<1>4. QED
  BY <1>2, <1>3 DEF Counted, TypeOK

\* With the last ACK the target has all of the file.
LEMMA AckCompletes ==
    ASSUME Counted, Lockstep, Matched, ~faults, Ack, rpc' \in {"menu", "loaded"}
    PROVE  /\ mem = file
           /\ Len(rxLen) + Len(mem) = Len(file) + 2
<1>1. /\ TypeOK /\ rxLen \in Seq(Byte) /\ mem \in Seq(Byte) /\ file \in Seq(Byte)
      /\ Len(rxLen) \in Nat /\ Len(mem) \in Nat /\ Len(file) \in Nat
      /\ rpc = "ack" /\ Receiving /\ Acking = 1 /\ need = 1
  BY DEF Counted, TypeOK, Ack, Receiving, Acking
<1>2. Stored /\ Len(file) < Base * Base
  BY <1>1 DEF Matched, Following, Waiting
<1>3. Len(rxLen) = 2 /\ Len(mem) = Length
  <2>1. CASE phase = "length"
    <3>1. mem = <<>> /\ Length = 0 /\ Len(rxLen) + 1 = 2 + 1
      BY <1>1, <2>1 DEF Ack, Counted, CountInv
    <3>2. \A k \in Nat : k + 1 = 2 + 1 => k = 2
      OBVIOUS
    <3>3. Len(rxLen) = 2
      BY <1>1, <3>1, <3>2, Zenon
    <3>4. Len(mem) = 0
      BY <3>1
    <3>5. QED
      BY <3>1, <3>3, <3>4, Zenon
  <2>2. CASE phase = "data"
    <3>1. Len(rxLen) = 2 /\ Len(mem) + 1 = Length + 1
      BY <1>1, <2>2 DEF Counted, CountInv
    <3>2. Length \in Nat
      BY <1>1, <3>1, LengthType
    <3>3. QED
      BY <1>1, <3>1, <3>2
  <2>3. QED
    BY <1>1, <2>1, <2>2 DEF TypeOK
<1>4. Length = Len(file)
  BY <1>1, <1>2, <1>3, LengthMatches
<1>5. \A i \in 1 .. Len(file) : mem[i] = file[i]
  BY <1>1, <1>2, <1>3, <1>4, PayloadIs DEF Stored
<1>6. mem = file
  BY <1>1, <1>3, <1>4, <1>5, SeqEqual
<1>7. QED
  BY <1>1, <1>3, <1>4, <1>6

LEMMA MatchedStep == Counted /\ Lockstep /\ Matched /\ [Next]_vars => Matched'
<1> SUFFICES ASSUME Counted, Lockstep, Matched, [Next]_vars, ~faults'
             PROVE  Matched'
  BY DEF Matched
<1>0. /\ TypeOK /\ Len(rxLen) \in Nat /\ Len(mem) \in Nat /\ Len(file) \in Nat
      /\ sent \in Nat /\ acks \in Nat
  BY DEF Counted, TypeOK
<1>a. ~faults /\ ~faults'
  BY DEF Next, vars, Open, WriteByte, ReadAck, ReadFails, Stop, Arrive, Isr, KeyPress, Receive,
         TakeQueued, QueueEmpty, WaitForInterrupt, TakePolled, Ack
<1>b. /\ Len(file) < Base * Base
      /\ spc = "read" => UnderWay
      /\ Receiving => Following \/ Waiting
      /\ ~Receiving => Between
  BY <1>a DEF Matched
<1>c. /\ spc # "read" => wire = NoByte /\ rdr = NoByte /\ q = <<>> /\ acks = 0 /\ rpc # "ack"
      /\ wire # NoByte => rdr = NoByte /\ q = <<>> /\ acks = 0 /\ rpc # "ack"
      /\ rdr # NoByte => wire = NoByte /\ q = <<>> /\ acks = 0 /\ rpc # "ack"
      /\ q # <<>> => wire = NoByte /\ rdr = NoByte /\ acks = 0 /\ rpc # "ack" /\ Len(q) = 1
      /\ acks > 0 => wire = NoByte /\ rdr = NoByte /\ q = <<>> /\ rpc # "ack" /\ acks = 1
      /\ rpc = "ack" => wire = NoByte /\ rdr = NoByte /\ q = <<>> /\ acks = 0
  BY <1>a, OneUnderWay
<1>1. ASSUME NEW f \in Files, Open(f)
      PROVE  Matched'
  <2>1. /\ spc \in {"closed", "done"} /\ spc' = "write" /\ sent' = 0 /\ acks' = 0 /\ file' = f
        /\ Len(f) < Base * Base /\ UNCHANGED <<rpc, rxLen, mem>>
    BY <1>1 DEF Open
  <2>2. ASSUME Receiving
        PROVE  Following'
    <3>1. rxLen' = <<>> /\ mem' = <<>> /\ rpc' # "ack"
      BY <1>b, <2>1, <2>2 DEF Following, Waiting
    <3>2. Len(rxLen') = 0 /\ Len(mem') = 0 /\ Acking' = 0
      BY <3>1 DEF Acking
    <3>3. QED
      BY <2>1, <3>2 DEF Following, Stored
  <2>3. Receiving' <=> Receiving
    BY <2>1 DEF Receiving
  <2>4. QED
    BY <2>1, <2>2, <2>3 DEF Matched, Between
<1>2. CASE WriteByte
  <2>1. /\ spc = "write" /\ spc' = "read" /\ wire' = NextByte
        /\ rdr' = NoByte /\ q' = <<>> /\ acks' = 0 /\ acks = 0
        /\ UNCHANGED <<file, sent, rpc, rxLen, mem>>
    BY <1>c, <1>2 DEF WriteByte, NextByte
  <2>2. UnderWay'
    BY <2>1 DEF UnderWay, NextByte
  <2>3. Receiving => Following'
    BY <1>b, <2>1 DEF Following, Waiting, Stored, Acking
  <2>4. ~Receiving => Between'
    BY <1>b, <2>1 DEF Between
  <2>5. QED
    BY <1>b, <2>1, <2>2, <2>3, <2>4 DEF Matched, Receiving
<1>3. CASE ReadAck
  <2>1. Len(Payload(file)) = Len(file) + 2
    BY <1>0, PayloadIs DEF TypeOK
  <2>2. /\ spc = "read" /\ acks = 1 /\ acks' = 0 /\ sent' = sent + 1 /\ rpc # "ack"
        /\ spc' = (IF sent + 1 = Len(file) + 2 THEN "done" ELSE "write")
        /\ UNCHANGED <<file, rpc, rxLen, mem>>
    BY <1>c, <1>3, <2>1 DEF ReadAck
  <2>3. ASSUME Following, Receiving
        PROVE  Following'
    <3>1. Len(rxLen) + Len(mem) = sent + 1 + 0 /\ Stored
      BY <2>2, <2>3 DEF Following, Acking
    <3>2. Len(rxLen) + Len(mem) < Len(file) + 2
      BY <1>b, <2>2, <2>3, <3>1, NotAllReceived
    <3>3. spc' = "write"
      BY <1>0, <2>2, <3>1, <3>2
    <3>4. Stored' /\ Acking' = 0
      BY <2>2, <3>1 DEF Stored, Acking
    <3>5. Len(rxLen') + Len(mem') = sent' + acks' + Acking'
      BY <1>0, <2>2, <3>1, <3>4
    <3>6. QED
      BY <3>3, <3>4, <3>5 DEF Following
  <2>4. ASSUME Between
        PROVE  spc' = "done"
    BY <2>2, <2>4 DEF Between
  <2>5. Receiving' <=> Receiving
    BY <2>2 DEF Receiving
  <2>6. Waiting => Waiting'
    BY <2>2, <2>4 DEF Waiting, Between
  <2>7. spc' # "read"
    BY <2>2
  <2>8. ~Receiving => Between'
    BY <1>b, <2>4 DEF Between
  <2>9. QED
    BY <1>b, <2>2, <2>3, <2>5, <2>6, <2>7, <2>8 DEF Matched
<1>4. CASE ReadFails \/ Stop
  BY <1>a, <1>4 DEF ReadFails, Stop
<1>5. CASE \/ Arrive \/ Isr \/ KeyPress \/ QueueEmpty \/ WaitForInterrupt \/ UNCHANGED vars
  <2>1. /\ UNCHANGED <<spc, file, sent, acks, rxLen, mem>>
        /\ rpc' = "ack" <=> rpc = "ack"
        /\ Receiving' <=> Receiving
    BY <1>5 DEF Arrive, Isr, Woken, KeyPress, QueueEmpty, WaitForInterrupt, vars, Receiving
  <2>2. spc = "read" => UnderWay'
    <3>1. CASE Arrive
      BY <1>b, <1>c, <3>1 DEF Arrive, UnderWay, NextByte
    <3>2. CASE Isr
      <4>1. /\ rdr # NoByte /\ wire' = NoByte /\ rdr' = NoByte /\ q = <<>>
            /\ q' = <<>> \/ q' = Append(q, rdr)
        BY <1>c, <3>2 DEF Isr
      <4>2. q' # <<>> => Head(q') = rdr
        BY <4>1
      <4>3. QED
        BY <1>b, <2>1, <4>1, <4>2 DEF UnderWay, NextByte
    <3>3. CASE UNCHANGED <<wire, rdr, q>>
      BY <1>b, <2>1, <3>3 DEF UnderWay, NextByte
    <3>4. QED
      BY <1>5, <3>1, <3>2, <3>3 DEF KeyPress, QueueEmpty, WaitForInterrupt, vars
  <2>3. Following => Following'
    BY <2>1 DEF Following, Stored, Acking
  <2>4. (Waiting => Waiting') /\ (Between => Between')
    BY <2>1 DEF Waiting, Between
  <2>5. QED
    BY <1>b, <2>1, <2>2, <2>3, <2>4 DEF Matched
<1>6. ASSUME NEW exec \in BOOLEAN, Receive(exec)
      PROVE  Matched'
  <2>1. /\ UNCHANGED <<spc, file, sent, acks, wire, rdr, q>>
        /\ rpc = "menu" /\ rpc' = "check" /\ rxLen' = <<>> /\ mem' = <<>>
    BY <1>6 DEF Receive
  <2>2. Between /\ Between' /\ Receiving' /\ Acking' = 0
    BY <1>b, <2>1 DEF Between, Receiving, Acking
  <2>3. Len(rxLen') = 0 /\ Len(mem') = 0
    BY <2>1
  <2>4. Following' \/ Waiting'
    <3>1. CASE spc \in {"write", "read"} /\ sent = 0 /\ acks = 0
      BY <2>1, <2>2, <2>3, <3>1 DEF Following, Stored
    <3>2. CASE spc # "write" /\ (spc = "read" => acks = 1)
      BY <2>1, <2>2, <3>2 DEF Waiting
    <3>3. spc = "write" => acks = 0
      BY <1>c
    <3>4. QED
      BY <2>2, <3>1, <3>2, <3>3 DEF Between
  <2>5. UnderWay => UnderWay'
    BY <2>1 DEF UnderWay, NextByte
  <2>6. QED
    BY <1>b, <2>1, <2>2, <2>4, <2>5 DEF Matched
<1>7. CASE TakeQueued \/ TakePolled
  <2>1. PICK b \in Byte : b = NextByte /\ Store(b)
    <3>1. CASE TakeQueued
      <4>1. q # <<>> /\ q \in Seq(Byte) /\ Store(Head(q)) /\ spc = "read"
        BY <1>0, <1>c, <3>1 DEF TakeQueued, TypeOK
      <4>2. Head(q) \in Byte /\ Head(q) = NextByte
        BY <1>b, <4>1 DEF UnderWay
      <4>3. QED
        BY <4>1, <4>2
    <3>2. CASE TakePolled
      <4>1. rdr # NoByte /\ rdr \in Byte /\ Store(rdr) /\ spc = "read"
        BY <1>0, <1>c, <3>2 DEF TakePolled, TypeOK
      <4>2. QED
        BY <1>b, <4>1 DEF UnderWay
    <3>3. QED
      BY <1>7, <3>1, <3>2
  <2>2. /\ spc = "read" /\ acks = 0 /\ rpc = "check" /\ rpc' = "ack"
        /\ UNCHANGED <<spc, file, sent, acks>>
    BY <1>c, <1>7 DEF TakeQueued, TakePolled
  <2>3. wire' = NoByte /\ rdr' = NoByte /\ q' = <<>>
    <3>1. CASE TakeQueued
      <4>1. q \in Seq(Byte) /\ Len(q) = 1 /\ q' = Tail(q) /\ wire' = NoByte /\ rdr' = NoByte
        BY <1>0, <1>c, <3>1 DEF TakeQueued, TypeOK
      <4>2. Tail(q) \in Seq(Byte) /\ Len(Tail(q)) = 0
        BY <4>1
      <4>3. QED
        BY <4>1, <4>2, EmptySeq
    <3>2. CASE TakePolled
      BY <1>c, <3>2 DEF TakePolled
    <3>3. QED
      BY <1>7, <3>1, <3>2
  <2>4. Following
    BY <1>b, <2>2 DEF Receiving, Waiting
  <2>5. Len(rxLen) + Len(mem) = sent /\ Stored
    BY <1>0, <2>2, <2>4 DEF Following, Acking
  <2>6. Stored' /\ Len(rxLen') + Len(mem') = sent + 1
    BY <2>1, <2>2, <2>5, StoreMatches
  <2>7. Following' /\ Receiving'
    BY <1>0, <2>2, <2>6 DEF Following, Acking, Receiving
  <2>8. UnderWay'
    BY <2>3 DEF UnderWay
  <2>9. QED
    BY <1>b, <2>2, <2>7, <2>8 DEF Matched
<1>8. CASE Ack
  <2>1. /\ spc = "read" /\ acks = 0 /\ acks' = 1 /\ rpc = "ack"
        /\ UNCHANGED <<spc, file, sent, wire, rdr, q, rxLen, mem>>
    BY <1>c, <1>8 DEF Ack
  <2>2. Len(rxLen) + Len(mem) = sent + 1 /\ Stored
    BY <1>0, <1>b, <2>1 DEF Receiving, Following, Waiting, Acking
  <2>3. UnderWay'
    BY <1>b, <2>1 DEF UnderWay, NextByte
  <2>4. CASE rpc' = "check"
    <3>1. Stored' /\ Acking' = 0 /\ Receiving'
      BY <2>1, <2>2, <2>4 DEF Stored, Acking, Receiving
    <3>2. Following'
      BY <1>0, <2>1, <2>2, <3>1 DEF Following
    <3>3. QED
      BY <1>b, <2>1, <2>3, <3>1, <3>2 DEF Matched
  <2>5. CASE rpc' \in {"menu", "loaded"}
    <3>1. Len(rxLen) + Len(mem) = Len(file) + 2
      BY <1>a, <1>8, <2>5, AckCompletes
    <3>2. Between' /\ ~Receiving'
      BY <2>1, <2>2, <2>5, <3>1 DEF Between, Receiving
    <3>3. QED
      BY <1>b, <2>1, <2>3, <3>2 DEF Matched
  <2>6. QED
    BY <1>8, <2>4, <2>5 DEF Ack, Done
<1>9. QED
  BY <1>1, <1>2, <1>3, <1>4, <1>5, <1>6, <1>7, <1>8 DEF Next

LEMMA MatchedInvariant == Spec => []Matched
BY CountedInvariant, TransferLockstep, MatchedInit, MatchedStep, PTL DEF Spec

\* When transfer_receive reports "Transfer complete" (transfer.c:29-30), or the loader
\* jumps, memory holds the whole file binsend was asked to send, if the host does not
\* fail: for every file whose length fits in two bytes, one after the other.
THEOREM TransferComplete == Spec => CompleteIsTheFile
<1>1. Counted /\ Lockstep /\ Matched /\ [Next]_vars
      => [~faults /\ rpc = "ack" /\ rpc' \in {"menu", "loaded"} => mem = file]_vars
  <2>1. SUFFICES ASSUME Counted, Lockstep, Matched, Next,
                        ~faults, rpc = "ack", rpc' \in {"menu", "loaded"}
                 PROVE  mem = file
    OBVIOUS
  <2>2. Ack
    BY <2>1 DEF Next, Open, WriteByte, ReadAck, ReadFails, Stop, Arrive, Isr, Woken, KeyPress,
                Receive, TakeQueued, QueueEmpty, WaitForInterrupt, TakePolled
  <2>3. QED
    BY <2>1, <2>2, AckCompletes
<1>2. QED
  BY <1>1, CountedInvariant, TransferLockstep, MatchedInvariant, PTL DEF Spec, CompleteIsTheFile

=============================================================================
