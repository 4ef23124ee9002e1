---------------------------- MODULE UsartProofs ----------------------------
(***************************************************************************)
(* Theorems about Usart for every buffer size, every width of len above it *)
(* and every set of bytes, with and without the debugger.                  *)
(***************************************************************************)
EXTENDS Usart, SequenceTheorems, TLAPS

(***************************************************************************)
(* Index arithmetic.                                                       *)
(***************************************************************************)
LEMMA ModSmall ==
    ASSUME NEW n \in Nat \ {0}, NEW a \in Nat, a < n
    PROVE  a % n = a
    OBVIOUS

LEMMA ModLarge ==
    ASSUME NEW n \in Nat \ {0}, NEW a \in Nat, n <= a, a < n + n
    PROVE  a % n = a - n
    OBVIOUS

LEMMA ModRange ==
    ASSUME NEW n \in Nat \ {0}, NEW a \in Nat
    PROVE  a % n \in 0 .. n - 1
    OBVIOUS

\* Decrementing a positive value modulo n does not wrap.
LEMMA ModDown ==
    ASSUME NEW n \in Nat \ {0}, NEW a \in Nat, 1 <= a, a < n
    PROVE  (a + n - 1) % n = a - 1
    OBVIOUS

\* Advancing an index before or after an offset is added makes no difference.
LEMMA ModAdd ==
    ASSUME NEW n \in Nat \ {0}, NEW a \in Nat, a <= n, NEW k \in Nat, k < n
    PROVE  ((a % n) + k) % n = (a + k) % n
<1>1. CASE a < n
      BY <1>1, ModSmall
<1>2. CASE a = n
  <2>1. a % n = 0
        BY <1>2, ModLarge
  <2>2. (a + k) % n = k
        BY <1>2, ModLarge
  <2>3. k % n = k
        BY ModSmall
  <2> QED BY <2>1, <2>2, <2>3
<1> QED BY <1>1, <1>2

\* Advancing an index that was itself reached from another by an offset.
LEMMA ModSucc ==
    ASSUME NEW n \in Nat \ {0}, NEW a \in Nat, NEW k \in Nat, a < n, k < n
    PROVE  (((a + k) % n) + 1) % n = (a + k + 1) % n
<1>1. CASE a + k < n
      BY <1>1, ModSmall
<1>2. CASE n <= a + k
  <2>1. (a + k) % n = a + k - n
        BY <1>2
  <2>2. a + k - n + 1 \in Nat /\ a + k - n + 1 < n
        BY <1>2
  <2>3. (a + k - n + 1) % n = a + k - n + 1
        BY <2>2, ModSmall
  <2>4. (a + k + 1) % n = a + k + 1 - n
        BY <1>2, <2>2
  <2> QED BY <2>1, <2>3, <2>4
<1> QED BY <1>1, <1>2

(***************************************************************************)
(* TypeOK needs to know that the critical section is entered once and only *)
(* by the thread.                                                          *)
(***************************************************************************)
InCritical == pc \in {"read", "dec", "store", "leave"}

CriticalInv ==
    /\ criticalCount = IF InCritical THEN 1 ELSE 0
    /\ InCritical => dpc = "none"

DataInv == QueueType /\ ThreadType /\ CriticalInv

USE DEF queue, driver, usart, thread, monitor

LEMMA FlagInit == Init => FlagType
    BY Zenon DEF Init, FlagType

LEMMA FlagStep == FlagType /\ [Next]_vars => FlagType'
<1> SUFFICES ASSUME FlagType, [Next]_vars PROVE FlagType'
    OBVIOUS
<1> USE DEF FlagType
<1>1. ASSUME NEW b \in Bytes, Arrive(b) PROVE FlagType'
      BY Zenon, <1>1 DEF Arrive
<1>2. CASE Isr
      BY Zenon, <1>2 DEF Isr, Woken
<1>3. CASE OtherIrq
      BY Zenon, <1>3 DEF OtherIrq, Woken
<1>4. CASE UsartEnable
      BY Zenon, <1>4 DEF UsartEnable, Step
<1>5. CASE MonitorMain
      BY Zenon, <1>5 DEF MonitorMain, Step
<1>6. CASE GetNext
  <2>1. CASE GetByte
        BY Zenon, <2>1 DEF GetByte, Step
  <2>2. CASE CheckSome
        BY Zenon, <2>2 DEF CheckSome, Step
  <2>3. CASE CheckNone
        BY Zenon, <2>3 DEF CheckNone, Step
  <2>4. CASE WaitForInterrupt
        BY Zenon, <2>4 DEF WaitForInterrupt, Step
  <2>5. CASE GetNone
        BY Zenon, <2>5 DEF GetNone, Step
  <2>6. CASE GetSome
        BY Zenon, <2>6 DEF GetSome, Step
  <2>7. CASE EnterCritical
        BY Zenon, <2>7 DEF EnterCritical, Step
  <2>8. CASE ReadFront
        BY Zenon, <2>8 DEF ReadFront, Step
  <2>9. CASE LoadLen
        BY Zenon, <2>9 DEF LoadLen, Step
  <2>10. CASE StoreLen
        BY Zenon, <2>10 DEF StoreLen, Step
  <2>11. CASE LeaveCritical
        BY Zenon, <2>11 DEF LeaveCritical, Step
  <2> QED BY <1>6, <2>1, <2>2, <2>3, <2>4, <2>5, <2>6, <2>7, <2>8, <2>9, <2>10, <2>11
          DEF GetNext
<1>7. CASE CallNext
  <2>1. CASE EndCall
        BY Zenon, <2>1 DEF EndCall, Step
  <2>2. CASE ExitToMonitor
        BY Zenon, <2>2 DEF ExitToMonitor, Step
  <2>3. CASE Breakpoint
        BY Zenon, <2>3 DEF Breakpoint
  <2>4. ASSUME NEW step \in BOOLEAN, BeginCall(step) PROVE FlagType'
        BY Zenon, <2>4 DEF BeginCall
  <2> QED BY <1>7, <2>1, <2>2, <2>3, <2>4
          DEF CallNext
<1>8. CASE SysReset
      BY Zenon, <1>8 DEF SysReset
<1>9. CASE MonitorNext
  <2>1. CASE DebugEnter
        BY Zenon, <2>1 DEF DebugEnter, InMonitor, Woken, Masked
  <2>2. CASE DisableRxInterrupt
        BY Zenon, <2>2 DEF DisableRxInterrupt, InMonitor
  <2>3. CASE ClearIrq
        BY Zenon, <2>3 DEF ClearIrq, InMonitor
  <2>4. CASE MenuByte
        BY Zenon, <2>4 DEF MenuByte, InMonitor
  <2>5. CASE InitQueue
        BY Zenon, <2>5 DEF InitQueue, InMonitor
  <2>6. CASE EnableRxInterrupt
        BY Zenon, <2>6 DEF EnableRxInterrupt, InMonitor
  <2>7. ASSUME NEW step \in BOOLEAN, NEW exit \in BOOLEAN, MenuChoice(step, exit) PROVE FlagType'
        BY Zenon, <2>7 DEF MenuChoice, InMonitor
  <2> QED BY <1>9, <2>1, <2>2, <2>3, <2>4, <2>5, <2>6, <2>7
          DEF MonitorNext
<1>10. CASE UNCHANGED vars
       BY Zenon, <1>10 DEF vars
<1> QED BY <1>1, <1>2, <1>3, <1>4, <1>5, <1>6, <1>7, <1>8, <1>9, <1>10 DEF Next

LEMMA DataInit == Init => DataInv
    BY UsartBufferAssumption, UsartBytesAssumption
       DEF Init, DataInv, QueueType, ThreadType, CriticalInv, InCritical, Index,
           ThreadLocations, MonitorLocations

LEMMA DataStep == DataInv /\ [Next]_vars => DataInv'
<1> SUFFICES ASSUME DataInv, [Next]_vars PROVE DataInv'
    OBVIOUS
<1> USE UsartBufferAssumption, UsartBytesAssumption
    DEF DataInv, QueueType, ThreadType, CriticalInv, InCritical, Index,
        ThreadLocations, MonitorLocations
<1>1. ASSUME NEW b \in Bytes, Arrive(b) PROVE DataInv'
      BY <1>1 DEF Arrive
<1>2. CASE Isr
  <2>1. CASE rdr = NoByte \/ IsBreak(rdr)
        BY <1>2, <2>1 DEF Isr, Woken
  <2>2. CASE rdr # NoByte /\ ~IsBreak(rdr)
    <3>1. Put(rdr)
          BY <1>2, <2>2 DEF Isr
    <3>2. back + 1 \in Nat /\ len + 1 \in Nat /\ LenMod \in Nat \ {0}
          OBVIOUS
    <3>3. (back + 1) % BufferSize \in Index
          BY <3>2, ModRange
    <3>4. (len + 1) % LenMod \in 0 .. LenMod - 1
          BY <3>2, ModRange
    <3>5. QueueType'
          BY <2>2, <3>1, <3>3, <3>4 DEF Put
    <3> QED BY <1>2, <2>2, <3>5 DEF Isr, Woken
  <2> QED BY <2>1, <2>2
<1>3. CASE OtherIrq
      BY <1>3 DEF OtherIrq, Woken
<1>4. CASE UsartEnable
      BY <1>4 DEF UsartEnable, Step
<1>5. CASE MonitorMain
      BY <1>5 DEF MonitorMain, Step
<1>6. CASE GetNext
  <2>1. CASE GetByte
        BY <2>1 DEF GetByte, Step
  <2>2. CASE CheckSome
        BY <2>2 DEF CheckSome, Step
  <2>3. CASE CheckNone
        BY <2>3 DEF CheckNone, Step
  <2>4. CASE WaitForInterrupt
        BY <2>4 DEF WaitForInterrupt, Step
  <2>5. CASE GetNone
        BY <2>5 DEF GetNone, Step
  <2>6. CASE GetSome
        BY <2>6 DEF GetSome, Step
  <2>7. CASE EnterCritical
        BY <2>7 DEF EnterCritical, Step
  <2>8. CASE ReadFront
    <3>1. (front + 1) % BufferSize \in Index
          BY ModRange
    <3>2. buffer[front] \in Bytes
          OBVIOUS
    <3> QED BY <2>8, <3>1, <3>2 DEF ReadFront, Step
  <2>9. CASE LoadLen
        BY <2>9 DEF LoadLen, Step
  <2>10. CASE StoreLen
    <3>1. (lenReg + LenMod - 1) % LenMod \in 0 .. LenMod - 1
          BY ModRange
    <3> QED BY <2>10, <3>1 DEF StoreLen, Step
  <2>11. CASE LeaveCritical
        BY <2>11 DEF LeaveCritical, Step
  <2> QED BY <1>6, <2>1, <2>2, <2>3, <2>4, <2>5, <2>6, <2>7, <2>8, <2>9, <2>10, <2>11
          DEF GetNext
<1>7. CASE CallNext
  <2>1. CASE EndCall
        BY <2>1 DEF EndCall, Step
  <2>2. CASE ExitToMonitor
        BY <2>2 DEF ExitToMonitor, Step
  <2>3. CASE Breakpoint
        BY <2>3 DEF Breakpoint
  <2>4. ASSUME NEW step \in BOOLEAN, BeginCall(step) PROVE DataInv'
        BY <2>4 DEF BeginCall
  <2> QED BY <1>7, <2>1, <2>2, <2>3, <2>4
          DEF CallNext
<1>8. CASE SysReset
      BY <1>8 DEF SysReset
<1>9. CASE MonitorNext
  <2>1. CASE DebugEnter
        BY <2>1 DEF DebugEnter, InMonitor, Woken, Masked
  <2>2. CASE DisableRxInterrupt
        BY <2>2 DEF DisableRxInterrupt, InMonitor
  <2>3. CASE ClearIrq
        BY <2>3 DEF ClearIrq, InMonitor
  <2>4. CASE MenuByte
        BY <2>4 DEF MenuByte, InMonitor
  <2>5. CASE InitQueue
        BY <2>5 DEF InitQueue, InMonitor
  <2>6. CASE EnableRxInterrupt
        BY <2>6 DEF EnableRxInterrupt, InMonitor
  <2>7. ASSUME NEW step \in BOOLEAN, NEW exit \in BOOLEAN, MenuChoice(step, exit) PROVE DataInv'
        BY <2>7 DEF MenuChoice, InMonitor
  <2> QED BY <1>9, <2>1, <2>2, <2>3, <2>4, <2>5, <2>6, <2>7
          DEF MonitorNext
<1>10. CASE UNCHANGED vars
       BY <1>10 DEF vars
<1> QED BY <1>1, <1>2, <1>3, <1>4, <1>5, <1>6, <1>7, <1>8, <1>9, <1>10 DEF Next

(***************************************************************************)
(* The driver's state has its type; in particular front and back always    *)
(* index the 24 bytes that were allocated (usart.c:92 and 106), whatever   *)
(* the debugger does to the queue.                                         *)
(***************************************************************************)
THEOREM UsartTypeOK == Spec => []TypeOK
<1>1. Spec => []FlagType
      BY FlagInit, FlagStep, PTL DEF Spec
<1>2. Spec => []DataInv
      BY DataInit, DataStep, PTL DEF Spec
<1>3. FlagType /\ DataInv => TypeOK
      BY DEF DataInv, TypeOK
<1> QED BY <1>1, <1>2, <1>3, PTL

(***************************************************************************)
(* The queue.  QueueConsistent is not inductive: what the thread has       *)
(* tested must still hold when it acts on it.  As long as the queue was    *)
(* not emptied in between, a queue found non-empty stays so until the      *)
(* critical section takes a byte from it, for the interrupt only adds, and *)
(* the copy of len that is decremented is still len.                       *)
(***************************************************************************)
SoundBody ==
    /\ QueueConsistent
    /\ pc \in {"get", "enter", "read"} => len > 0
    /\ pc = "store" => lenReg = len

SoundInv == ~interrupted => SoundBody

LEMMA SoundInit == Init => SoundInv
<1> SUFFICES ASSUME Init PROVE SoundBody
    BY DEF SoundInv
<1>1. 0 % BufferSize = 0
      BY UsartBufferAssumption, ModSmall
<1> QED BY <1>1, UsartBufferAssumption DEF Init, SoundBody, QueueConsistent, Length

\* A step that leaves the queue alone, and tests it if it enters a get.
LEMMA SoundUnchanged ==
    ASSUME SoundBody, UNCHANGED <<len, front, back, lenReg>>,
           pc' \notin {"dec", "store"}, pc \notin {"dec", "store"},
           pc' \in {"get", "enter", "read"} => pc \in {"get", "enter", "read"} \/ len > 0
    PROVE  SoundBody'
    BY DEF SoundBody, QueueConsistent, Length

LEMMA SoundPut ==
    ASSUME DataInv, SoundBody, ~InCritical, NEW b \in Bytes, Put(b), pc' = Woken,
           lenReg' = lenReg
    PROVE  SoundBody'
<1> USE UsartBufferAssumption
    DEF DataInv, QueueType, ThreadType, InCritical, Index, SoundBody
<1>1. Length = len /\ Length' = len'
      BY DEF Length, Woken
<1>2. CASE IsFull
      BY <1>1, <1>2 DEF Put, QueueConsistent, Woken, IsFull
<1>3. CASE ~IsFull
  <2>1. len < BufferSize /\ len \in Nat /\ front \in Nat /\ front < BufferSize
        BY <1>1, <1>3 DEF IsFull, QueueConsistent
  <2>2. len' = len + 1
    <3>1. len + 1 \in Nat /\ len + 1 < LenMod /\ LenMod \in Nat \ {0}
          BY <2>1
    <3> QED BY <1>3, <3>1, ModSmall DEF Put
  <2>3. back' = (front + len + 1) % BufferSize
        BY <1>1, <1>3, <2>1, ModSucc DEF Put, QueueConsistent
  <2>4. front' = front
        BY <1>3 DEF Put
  <2>5. QueueConsistent'
        BY <1>1, <2>1, <2>2, <2>3, <2>4 DEF QueueConsistent
  <2> QED BY <2>1, <2>2, <2>5 DEF Woken
<1> QED BY <1>2, <1>3

\* A queue that has just been emptied.
LEMMA SoundEmpty ==
    ASSUME len' = 0, front' = 0, back' = 0,
           pc' \notin {"get", "enter", "read", "dec", "store"}
    PROVE  SoundBody'
<1>1. 0 % BufferSize = 0
      BY UsartBufferAssumption, ModSmall
<1> QED BY <1>1, UsartBufferAssumption DEF SoundBody, QueueConsistent, Length

LEMMA SoundStep == DataInv /\ DataInv' /\ SoundInv /\ [Next]_vars => SoundInv'
<1> SUFFICES ASSUME DataInv, DataInv', SoundInv, [Next]_vars, ~interrupted'
             PROVE  SoundBody'
    BY DEF SoundInv
<1> USE UsartBufferAssumption, UsartBytesAssumption
    DEF DataInv, CriticalInv, InCritical
<1>0. CASE SysReset
      BY <1>0, SoundEmpty DEF SysReset
<1> SUFFICES ASSUME ~SysReset PROVE SoundBody'
    BY <1>0
<1>1. ~interrupted
      BY Zenon DEF Next, vars, GetNext, CallNext, MonitorNext, Arrive, Isr, OtherIrq,
         UsartEnable, MonitorMain, GetByte, CheckSome, CheckNone, WaitForInterrupt,
         GetNone, GetSome, EnterCritical, ReadFront, LoadLen, StoreLen, LeaveCritical,
         BeginCall, EndCall, ExitToMonitor, Breakpoint, DebugEnter, DisableRxInterrupt,
         ClearIrq, MenuByte, MenuChoice, InitQueue, EnableRxInterrupt
<1>2. SoundBody
      BY <1>1 DEF SoundInv
<1>3. ASSUME NEW b \in Bytes, Arrive(b) PROVE SoundBody'
      BY <1>2, <1>3 DEF Arrive, SoundBody, QueueConsistent, Length
<1>4. CASE Isr
  <2>1. ~InCritical
        BY <1>4 DEF Isr, Masked
  <2>2. CASE rdr = NoByte \/ IsBreak(rdr)
        BY <1>2, <1>4, <2>1, <2>2, SoundUnchanged DEF Isr, Woken
  <2>3. CASE rdr # NoByte /\ ~IsBreak(rdr)
        BY <1>2, <1>4, <2>1, <2>3, SoundPut DEF Isr, ThreadType
  <2> QED BY <2>2, <2>3
<1>5. CASE OtherIrq
      BY <1>2, <1>5, SoundUnchanged DEF OtherIrq, Woken
<1>6. CASE UsartEnable
      BY <1>6, SoundEmpty DEF UsartEnable, Step
<1>7. CASE MonitorMain
      BY <1>2, <1>7, SoundUnchanged DEF MonitorMain, Step
<1>8. CASE GetNext
  <2>1. CASE GetByte
        BY <1>2, <2>1, SoundUnchanged DEF GetByte, Step
  <2>2. CASE CheckSome
        BY <1>2, <2>2, SoundUnchanged DEF CheckSome, Step, IsEmpty, QueueType
  <2>3. CASE CheckNone
        BY <1>2, <2>3, SoundUnchanged DEF CheckNone, Step
  <2>4. CASE WaitForInterrupt
        BY <1>2, <2>4, SoundUnchanged DEF WaitForInterrupt, Step
  <2>5. CASE GetNone
        BY <1>2, <2>5, SoundUnchanged DEF GetNone, Step
  <2>6. CASE GetSome
        BY <1>2, <2>6, SoundUnchanged DEF GetSome, Step, IsEmpty, QueueType
  <2>7. CASE EnterCritical
        BY <1>2, <2>7, SoundUnchanged DEF EnterCritical, Step
  <2>8. CASE LeaveCritical
        BY <1>2, <2>8, SoundUnchanged DEF LeaveCritical, Step
  <2>9. CASE ReadFront
    <3>1. front \in Nat /\ front < BufferSize /\ len \in Nat /\ len - 1 \in Nat /\ len - 1 < BufferSize
          BY <1>2, <2>9 DEF ReadFront, Step, SoundBody, QueueConsistent, Length, QueueType,
             Index
    <3>2. (((front + 1) % BufferSize) + (len - 1)) % BufferSize
            = ((front + 1) + (len - 1)) % BufferSize
      <4>1. front + 1 \in Nat /\ front + 1 <= BufferSize
            BY <3>1
      <4> QED BY <3>1, <4>1, ModAdd
    <3>3. (front + 1) + (len - 1) = front + len
          BY <3>1
    <3> QED BY <1>2, <2>9, <3>1, <3>2, <3>3 DEF ReadFront, Step, SoundBody, QueueConsistent,
               Length
  <2>10. CASE LoadLen
        BY <1>2, <2>10 DEF LoadLen, Step, SoundBody, QueueConsistent, Length
  <2>11. CASE StoreLen
    <3>1. lenReg = len /\ len \in Nat /\ len >= 1 /\ len < LenMod
          BY <1>2, <2>11 DEF StoreLen, Step, SoundBody, QueueConsistent, Length, QueueType
    <3>2. LenMod \in Nat \ {0}
          BY <3>1
    <3>3. (len + LenMod - 1) % LenMod = len - 1
          BY <3>1, <3>2, ModDown
    <3>4. (lenReg + LenMod - 1) % LenMod = len - 1
          BY <3>1, <3>3
    <3> QED BY <1>2, <2>11, <3>1, <3>4 DEF StoreLen, Step, SoundBody, QueueConsistent,
               Length
  <2> QED BY <1>8, <2>1, <2>2, <2>3, <2>4, <2>5, <2>6, <2>7, <2>8, <2>9, <2>10, <2>11
          DEF GetNext
<1>9. CASE CallNext
  <2>1. CASE EndCall
        BY <1>2, <2>1, SoundUnchanged DEF EndCall, Step
  <2>2. CASE ExitToMonitor
        BY <1>2, <2>2, SoundUnchanged DEF ExitToMonitor, Step
  <2>3. CASE Breakpoint
        BY <1>2, <2>3, SoundUnchanged DEF Breakpoint
  <2>4. ASSUME NEW step \in BOOLEAN, BeginCall(step) PROVE SoundBody'
        BY <1>2, <2>4, SoundUnchanged DEF BeginCall
  <2> QED BY <1>9, <2>1, <2>2, <2>3, <2>4 DEF CallNext
<1>10. CASE MonitorNext
  <2>1. CASE DebugEnter
    <3>1. ~InCritical
          BY <2>1 DEF DebugEnter, Masked
    <3> QED BY <1>2, <2>1, <3>1, SoundUnchanged DEF DebugEnter, InMonitor, Woken
  <2>2. CASE DisableRxInterrupt
        BY <1>2, <2>2, SoundUnchanged DEF DisableRxInterrupt, InMonitor
  <2>3. CASE ClearIrq
        BY <1>2, <2>3, SoundUnchanged DEF ClearIrq, InMonitor
  <2>4. CASE MenuByte
        BY <1>2, <2>4, SoundUnchanged DEF MenuByte, InMonitor
  <2>5. CASE EnableRxInterrupt
        BY <1>2, <2>5, SoundUnchanged DEF EnableRxInterrupt, InMonitor
  <2>6. ASSUME NEW step \in BOOLEAN, NEW exit \in BOOLEAN, MenuChoice(step, exit)
        PROVE  SoundBody'
        BY <1>2, <2>6, SoundUnchanged DEF MenuChoice, InMonitor
  <2>7. CASE InitQueue
    <3>1. pc \notin {"get", "enter"}
          BY <2>7, Zenon DEF InitQueue
    <3> QED BY <2>7, <3>1, SoundEmpty DEF InitQueue, InMonitor
  <2> QED BY <1>10, <2>1, <2>2, <2>3, <2>4, <2>5, <2>6, <2>7
          DEF MonitorNext
<1>11. CASE UNCHANGED vars
       BY <1>2, <1>11 DEF vars, SoundBody, QueueConsistent, Length
<1> QED BY <1>3, <1>4, <1>5, <1>6, <1>7, <1>8, <1>9, <1>10, <1>11 DEF Next

LEMMA DataInvariant == Spec => []DataInv
    BY DataInit, DataStep, PTL DEF Spec

(***************************************************************************)
(* The queue stays one queue of at most BUFFER_SIZE bytes in every run in  *)
(* which the debugger did not empty it inside a get: the interrupt and the *)
(* thread share it soundly, at every buffer size.                          *)
(***************************************************************************)
THEOREM UsartQueueSound == Spec => []QueueSoundUnlessInterrupted
<1>1. SoundInv => QueueSoundUnlessInterrupted
      BY DEF SoundInv, SoundBody, QueueSoundUnlessInterrupted
<1> QED BY <1>1, DataInvariant, SoundInit, SoundStep, PTL DEF Spec

(***************************************************************************)
(* The receiver, which DebugMonitor switches to polling and back.  Where   *)
(* it is in that tells what is enabled and what is pending.  The drivers'  *)
(* locals tell the two ways apart: usart_poll is only set when the menu    *)
(* opens inside another, which does not happen.                            *)
(***************************************************************************)
SwitchingInv ==
    /\ dpc \in {"ie_off", "clear", "menu", "q_init"} => poll /\ ~usartPoll
    /\ dpc \in {"clear", "menu", "q_init", "ie_on"} => ~rxneie
    /\ dpc \in {"menu", "q_init", "ie_on"} => ~irqPend
    /\ dpc = "ie_on" => ~poll

\* Before usart_enable nothing is on, and nothing is in the queue.
ResetInv ==
    pc = "reset" =>
        /\ dpc = "none" /\ ~poll /\ ~monStep /\ ~monPend
        /\ ~receiving /\ ~irqPend /\ rdr = NoByte /\ len = 0

ReceiverInv == SwitchingInv /\ ResetInv /\ ReceiverArmed

LEMMA ReceiverInit == Init => ReceiverInv
    BY DEF Init, ReceiverInv, SwitchingInv, ResetInv, ReceiverArmed

LEMMA ReceiverStep == FlagType /\ DataInv /\ ReceiverInv /\ [Next]_vars => ReceiverInv'
<1> SUFFICES ASSUME FlagType, DataInv, ReceiverInv, [Next]_vars PROVE ReceiverInv'
    OBVIOUS
<1>0. dpc \in MonitorLocations
      BY DEF DataInv, ThreadType
<1> USE DEF ReceiverInv, SwitchingInv, ResetInv, ReceiverArmed
<1>1. ASSUME NEW b \in Bytes, Arrive(b) PROVE ReceiverInv'
      BY <1>1 DEF Arrive
<1>2. CASE Isr
      BY <1>2 DEF Isr, Woken
<1>3. CASE OtherIrq
      BY <1>3 DEF OtherIrq, Woken
<1>4. CASE UsartEnable
      BY <1>4 DEF UsartEnable, Step
<1>5. CASE MonitorMain
      BY <1>5 DEF MonitorMain, Step
<1>6. CASE GetNext
  <2>1. /\ pc # "reset" /\ pc' # "reset" /\ dpc = "none"
        /\ UNCHANGED <<poll, rxneie, rdr, irqPend, dpc, usartPoll>>
        BY <1>6 DEF GetNext, GetByte, CheckSome, CheckNone, WaitForInterrupt, GetNone, GetSome,
           EnterCritical, ReadFront, LoadLen, StoreLen, LeaveCritical, Step
  <2> QED BY <2>1
<1>7. CASE CallNext
      BY <1>7 DEF CallNext, BeginCall, EndCall, ExitToMonitor, Breakpoint, Step
<1>8. CASE SysReset
      BY <1>8 DEF SysReset
<1>9. CASE MonitorNext
  <2>1. CASE DebugEnter
        BY <2>1 DEF DebugEnter, InMonitor, Woken
  <2>2. CASE DisableRxInterrupt \/ ClearIrq \/ MenuByte
        BY <2>2 DEF DisableRxInterrupt, ClearIrq, MenuByte, InMonitor
  <2>3. ASSUME NEW step \in BOOLEAN, NEW exit \in BOOLEAN, MenuChoice(step, exit)
        PROVE  ReceiverInv'
        BY <2>3 DEF MenuChoice, InMonitor
  <2>4. CASE InitQueue
        BY <2>4 DEF InitQueue, InMonitor
  <2>5. CASE EnableRxInterrupt
    <3>1. /\ dpc = "ie_on" /\ dpc' = "none" /\ rxneie' = TRUE
          /\ rdr # NoByte => irqPend'
          /\ UNCHANGED <<poll, rdr, pc>>
          BY <2>5, Zenon DEF EnableRxInterrupt, InMonitor
    <3> QED BY <3>1
  <2> QED BY <1>9, <2>1, <2>2, <2>3, <2>4, <2>5 DEF MonitorNext
<1>10. CASE UNCHANGED vars
       BY <1>10 DEF vars
<1> QED BY <1>1, <1>2, <1>3, <1>4, <1>5, <1>6, <1>7, <1>8, <1>9, <1>10 DEF Next

LEMMA FlagInvariant == Spec => []FlagType
    BY FlagInit, FlagStep, PTL DEF Spec

LEMMA ReceiverInvariant == Spec => []ReceiverInv
    BY FlagInvariant, DataInvariant, ReceiverInit, ReceiverStep, PTL DEF Spec

\* No interrupt takes a byte from under the debugger's polling menu (debug.c:93-135).
THEOREM UsartMenuOwnsReceiver == Spec => []MenuOwnsReceiver
<1>1. ReceiverInv => MenuOwnsReceiver
      BY DEF ReceiverInv, SwitchingInv, MenuOwnsReceiver
<1> QED BY <1>1, ReceiverInvariant, PTL

\* However the debugger was entered and left, the receiver works by interrupts again
\* and a byte that came meanwhile has its interrupt (debug.c:140-143).
THEOREM UsartReceiverArmed == Spec => []ReceiverArmed
<1>1. ReceiverInv => ReceiverArmed
      BY DEF ReceiverInv
<1> QED BY <1>1, ReceiverInvariant, PTL

\* usart_getbyte returns the 0 of an empty queue (usart.c:87-89) only when the
\* debugger emptied the queue inside it.
THEOREM UsartZeroOnlyWhenInterrupted == Spec => ZeroOnlyWhenInterrupted
<1>1. SoundInv /\ [Next]_vars => [pc = "get" /\ pc' = "idle" => interrupted]_vars
  <2> SUFFICES ASSUME SoundInv, Next, pc = "get", pc' = "idle", ~interrupted PROVE FALSE
      OBVIOUS
  <2>1. len > 0
        BY DEF SoundInv, SoundBody
  <2>2. GetNone
        BY DEF Next, Arrive, Isr, OtherIrq, Woken, UsartEnable, MonitorMain, GetNext, CallNext,
           MonitorNext, GetByte, CheckSome, CheckNone, WaitForInterrupt, GetSome, EnterCritical,
           ReadFront, LoadLen, StoreLen, LeaveCritical, BeginCall, EndCall, ExitToMonitor,
           Breakpoint, DebugEnter, DisableRxInterrupt, ClearIrq, MenuByte, MenuChoice, InitQueue,
           EnableRxInterrupt, InMonitor, SysReset, Step
  <2> QED BY <2>1, <2>2 DEF GetNone, IsEmpty
<1> QED BY <1>1, DataInvariant, SoundInit, SoundStep, PTL DEF Spec, ZeroOnlyWhenInterrupted

(***************************************************************************)
(* Without the debugger the driver is the bounded FIFO of ByteStream.      *)
(***************************************************************************)
QuietInv == ~enableBreak /\ ~monStep /\ ~monPend /\ dpc = "none" /\ ~interrupted

LEMMA QuietInit == Init => QuietInv
    BY DEF Init, QuietInv

LEMMA QuietStep == ~Debugging /\ FlagType /\ QuietInv /\ [Next]_vars => QuietInv'
<1> SUFFICES ASSUME ~Debugging, FlagType, QuietInv, [Next]_vars PROVE QuietInv'
    OBVIOUS
<1> USE DEF QuietInv
<1>1. CASE GetNext
  <2>1. \E from, to \in ThreadLocations : Step(from, to)
        BY <1>1 DEF GetNext, GetByte, CheckSome, CheckNone, WaitForInterrupt, GetNone, GetSome,
           EnterCritical, ReadFront, LoadLen, StoreLen, LeaveCritical, ThreadLocations
  <2>2. UNCHANGED <<enableBreak, interrupted>>
        BY <1>1 DEF GetNext, GetByte, CheckSome, CheckNone, WaitForInterrupt, GetNone, GetSome,
           EnterCritical, ReadFront, LoadLen, StoreLen, LeaveCritical
  <2>3. UNCHANGED <<monStep, dpc>> /\ ~monPend'
        BY <2>1, Zenon DEF Step
  <2> QED BY <2>2, <2>3
<1>2. CASE CallNext \/ MonitorNext
      BY <1>2 DEF CallNext, BeginCall, EndCall, ExitToMonitor, Breakpoint, MonitorNext, DebugEnter,
         DisableRxInterrupt, ClearIrq, MenuByte, MenuChoice, InitQueue, EnableRxInterrupt, InMonitor
<1>3. CASE Isr
      BY <1>3 DEF Isr, IsBreak
<1>4. CASE UNCHANGED vars
      BY <1>4 DEF vars
<1>5. CASE UsartEnable \/ MonitorMain
  <2>1. UNCHANGED <<monStep, dpc, interrupted>> /\ ~enableBreak' /\ monPend' = (monPend \/ monStep)
        BY <1>5 DEF UsartEnable, MonitorMain, Step
  <2> QED BY <2>1, Zenon
<1>6. CASE (\E b \in Bytes : Arrive(b)) \/ OtherIrq \/ SysReset
      BY <1>6 DEF Arrive, OtherIrq, SysReset
<1> QED BY <1>1, <1>2, <1>3, <1>4, <1>5, <1>6 DEF Next

LEMMA QuietInvariant == ~Debugging => (Spec => []QuietInv)
<1> SUFFICES ASSUME ~Debugging PROVE Spec => []QuietInv
    OBVIOUS
<1>1. FlagType /\ QuietInv /\ [Next]_vars => QuietInv'
      BY QuietStep
<1> QED BY <1>1, QuietInit, FlagInvariant, PTL DEF Spec

LEMMA SoundInvariant == Spec => []SoundInv
    BY DataInvariant, SoundInit, SoundStep, PTL DEF Spec

\* Without the debugger the queue is sound without exception (usart.c:86-109).
THEOREM UsartQueueConsistent == ~Debugging => (Spec => []QueueConsistent)
<1> SUFFICES ASSUME ~Debugging PROVE Spec => []QueueConsistent
    OBVIOUS
<1>1. QuietInv /\ SoundInv => QueueConsistent
      BY DEF QuietInv, SoundInv, SoundBody
<1> QED BY <1>1, QuietInvariant, SoundInvariant, PTL

\* Less than a turn apart, two places in the ring buffer are different slots.
LEMMA ModDiffer ==
    ASSUME NEW n \in Nat \ {0}, NEW a \in Nat, NEW b \in Nat, a < b, b < a + n
    PROVE  a % n # b % n
<1> SUFFICES ASSUME a % n = b % n PROVE FALSE
    OBVIOUS
<1>0. /\ a = n * (a \div n) + (a % n) /\ b = n * (b \div n) + (b % n)
      /\ a \div n \in Int /\ b \div n \in Int
      OBVIOUS
<1>1. PICK p \in Int : a = n * p + (a % n)
      BY <1>0
<1>2. PICK q \in Int : b = n * q + (b % n)
      BY <1>0
<1>3. a % n \in Int /\ q - p \in Int
      OBVIOUS
<1>4. n * q - n * p = n * (q - p)
      OBVIOUS
<1>5. 0 < n * (q - p) /\ n * (q - p) < n
      BY <1>1, <1>2, <1>3, <1>4
<1>6. ASSUME NEW k \in Int, 0 < n * k, n * k < n PROVE FALSE
  <2>1. CASE k <= 0
        BY <1>6, <2>1
  <2>2. CASE k >= 1
        BY <1>6, <2>2
  <2> QED BY <2>1, <2>2
<1> QED BY <1>3, <1>5, <1>6

\* What a stretch of the ring buffer holds.
LEMMA Stretch ==
    ASSUME NEW b \in [Index -> Bytes], NEW f \in Index, NEW n \in Nat
    PROVE  /\ [i \in 1 .. n |-> b[(f + i - 1) % BufferSize]] \in Seq(Bytes)
           /\ Len([i \in 1 .. n |-> b[(f + i - 1) % BufferSize]]) = n
<1>1. ASSUME NEW i \in 1 .. n PROVE b[(f + i - 1) % BufferSize] \in Bytes
  <2>1. f + i - 1 \in Nat
        BY UsartBufferAssumption DEF Index
  <2>2. (f + i - 1) % BufferSize \in Index
        BY <2>1, UsartBufferAssumption, ModRange DEF Index
  <2> QED BY <2>2
<1> QED BY <1>1

LEMMA QueueIs ==
    ASSUME DataInv, QueueConsistent
    PROVE  /\ Length \in Nat /\ Length <= BufferSize
           /\ Queue \in Seq(Bytes) /\ Len(Queue) = Length
<1>1. Length \in Nat /\ Length <= BufferSize
      BY UsartBufferAssumption DEF QueueConsistent, Length, DataInv, QueueType
<1>2. buffer \in [Index -> Bytes] /\ front \in Index
      BY DEF DataInv, QueueType
<1> QED BY <1>1, <1>2, Stretch DEF Queue

LEMMA QueueIsNext ==
    ASSUME DataInv', QueueConsistent'
    PROVE  /\ Length' \in Nat /\ Length' <= BufferSize
           /\ Queue' \in Seq(Bytes) /\ Len(Queue') = Length'
<1>1. len' \in Nat /\ Length' >= 0 /\ len' <= BufferSize
      BY UsartBufferAssumption DEF QueueConsistent, DataInv, QueueType
<1>2. Length' = len' \/ Length' = len' - 1
      BY DEF Length
<1>3. ASSUME NEW l \in Nat, NEW n, n = l \/ n = l - 1, n >= 0, l <= BufferSize
      PROVE  n \in Nat /\ n <= BufferSize
      BY <1>3, UsartBufferAssumption
<1>4. Length' \in Nat /\ Length' <= BufferSize
      BY <1>1, <1>2, <1>3, Zenon
<1>5. buffer' \in [Index -> Bytes] /\ front' \in Index
      BY DEF DataInv, QueueType
<1> QED BY <1>4, <1>5, Stretch DEF Queue

\* The interrupt's put is at the end of the queue ...
LEMMA PutAccepts ==
    ASSUME DataInv, DataInv', QueueConsistent, QueueConsistent', ~InCritical,
           NEW b \in Bytes, Put(b), pc' = Woken
    PROVE  Queue' = IF Len(Queue) = BufferSize THEN Queue ELSE Append(Queue, b)
<1>1. Length = len /\ Length' = len' /\ Len(Queue) = len /\ Len(Queue') = len'
      BY QueueIs, QueueIsNext DEF Length, InCritical, Woken
<1>2. CASE IsFull
      BY <1>1, <1>2 DEF IsFull, Put, Queue
<1>3. CASE ~IsFull
  <2>1. /\ len \in Nat /\ len < BufferSize /\ front \in Nat /\ front < BufferSize
        /\ buffer \in [Index -> Bytes] /\ back \in Index
        BY <1>1, <1>3, UsartBufferAssumption
           DEF IsFull, QueueConsistent, DataInv, QueueType, Index
  <2>2. len' = len + 1
    <3>1. len + 1 \in Nat /\ len + 1 < LenMod /\ LenMod \in Nat \ {0}
          BY <2>1, UsartBufferAssumption
    <3> QED BY <1>3, <3>1, ModSmall DEF Put
  <2>3. /\ front' = front /\ back = (front + len) % BufferSize
        /\ buffer' = [buffer EXCEPT ![back] = b]
        BY <1>1, <1>3 DEF Put, QueueConsistent
  <2>4. ASSUME NEW i \in 1 .. len
        PROVE  (front + i - 1) % BufferSize \in Index /\ (front + i - 1) % BufferSize # back
    <3>1. front + i - 1 \in Nat /\ front + len \in Nat
          BY <2>1
    <3>2. front + i - 1 < front + len /\ front + len < front + i - 1 + BufferSize
          BY <2>1, UsartBufferAssumption
    <3>3. (front + i - 1) % BufferSize # (front + len) % BufferSize
          BY <3>1, <3>2, UsartBufferAssumption, ModDiffer
    <3>4. (front + i - 1) % BufferSize \in Index
          BY <3>1, UsartBufferAssumption, ModRange DEF Index
    <3> QED BY <2>3, <3>3, <3>4
  <2>5. Queue' = [i \in 1 .. len + 1 |-> buffer'[(front + i - 1) % BufferSize]]
        BY <1>1, <2>2, <2>3 DEF Queue
  <2>6. \A i \in 1 .. len : Queue'[i] = Queue[i]
    <3>1. TAKE i \in 1 .. len
    <3>2. Queue'[i] = buffer'[(front + i - 1) % BufferSize]
          BY <2>1, <2>5
    <3>3. Queue[i] = buffer[(front + i - 1) % BufferSize]
          BY <1>1 DEF Queue
    <3> QED BY <2>1, <2>3, <2>4, <3>2, <3>3
  <2>7. Queue'[len + 1] = b
    <3>1. Queue'[len + 1] = buffer'[(front + (len + 1) - 1) % BufferSize]
          BY <2>1, <2>5
    <3>2. front + (len + 1) - 1 = front + len
          BY <2>1
    <3> QED BY <2>1, <2>3, <3>1, <3>2
  <2>8. Queue \in Seq(Bytes) /\ Queue' \in Seq(Bytes) /\ Len(Queue') = len + 1
        BY <1>1, <2>2, QueueIs, QueueIsNext
  <2>9. Append(Queue, b) \in Seq(Bytes) /\ Len(Append(Queue, b)) = len + 1
        BY <1>1, <2>8, AppendProperties
  <2>10. \A i \in 1 .. len + 1 : Queue'[i] = Append(Queue, b)[i]
    <3>1. \A i \in 1 .. len : Append(Queue, b)[i] = Queue[i]
          BY <1>1, <2>8, AppendProperties
    <3>2. Append(Queue, b)[len + 1] = b
          BY <1>1, <2>8, AppendProperties
    <3>3. \A i \in 1 .. len + 1 : i \in 1 .. len \/ i = len + 1
          BY <2>1
    <3> QED BY <2>6, <2>7, <3>1, <3>2, <3>3
  <2>11. Queue' = Append(Queue, b)
         BY <2>8, <2>9, <2>10, SeqEqual
  <2> QED BY <1>1, <2>1, <2>11
<1> QED BY <1>2, <1>3

\* ... and the thread's get takes its head.
LEMMA ReadHandsOut ==
    ASSUME DataInv, DataInv', SoundBody, QueueConsistent', ReadFront
    PROVE  /\ Queue # <<>> /\ got' = Head(Queue) /\ Queue' = Tail(Queue)
<1>0. /\ pc = "read" /\ pc' = "dec" /\ UNCHANGED <<buffer, len>>
      /\ len \in Nat /\ front \in Nat /\ front < BufferSize /\ buffer \in [Index -> Bytes]
      BY UsartBufferAssumption DEF ReadFront, Step, DataInv, QueueType, Index
<1>1. /\ len \in Nat /\ len > 0 /\ Length = len /\ Length' = len - 1
      /\ front \in Nat /\ front < BufferSize /\ buffer \in [Index -> Bytes]
      BY <1>0 DEF SoundBody, Length
<1>2. /\ Queue \in Seq(Bytes) /\ Len(Queue) = len
      /\ Queue' \in Seq(Bytes) /\ Len(Queue') = len - 1
      BY <1>1, QueueIs, QueueIsNext DEF SoundBody
<1>3. Queue # <<>>
      BY <1>1, <1>2
<1>4. Head(Queue) = buffer[front]
  <2>1. Queue[1] = buffer[(front + 1 - 1) % BufferSize]
        BY <1>1 DEF Queue
  <2>2. (front + 1 - 1) % BufferSize = front
        BY <1>1, UsartBufferAssumption, ModSmall
  <2> QED BY <1>2, <1>3, <2>1, <2>2
<1>5. Tail(Queue) \in Seq(Bytes) /\ Len(Tail(Queue)) = len - 1
      BY <1>2, <1>3, HeadTailProperties
<1>6. \A i \in 1 .. len - 1 : Queue'[i] = Tail(Queue)[i]
  <2>1. TAKE i \in 1 .. len - 1
  <2>2. Tail(Queue)[i] = Queue[i + 1]
        BY <1>2, <1>3, <1>5, HeadTailProperties
  <2>3. Queue[i + 1] = buffer[(front + (i + 1) - 1) % BufferSize]
        BY <1>1 DEF Queue
  <2>4. Queue'[i] = buffer[(((front + 1) % BufferSize) + i - 1) % BufferSize]
        BY <1>1 DEF Queue, ReadFront
  <2>5. (((front + 1) % BufferSize) + (i - 1)) % BufferSize
          = ((front + 1) + (i - 1)) % BufferSize
    <3>1. front + 1 \in Nat /\ front + 1 <= BufferSize /\ i - 1 \in Nat
          BY <1>1, UsartBufferAssumption
    <3>2. i - 1 < BufferSize
          BY <1>1, UsartBufferAssumption DEF SoundBody, QueueConsistent
    <3> QED BY <3>1, <3>2, UsartBufferAssumption, ModAdd
  <2>6. /\ (front + 1) + (i - 1) = front + (i + 1) - 1
        /\ ((front + 1) % BufferSize) + i - 1 = ((front + 1) % BufferSize) + (i - 1)
    <3>1. (front + 1) % BufferSize \in Int
          BY <1>1, UsartBufferAssumption, ModRange
    <3> QED BY <1>1, <3>1
  <2> QED BY <2>2, <2>3, <2>4, <2>5, <2>6
<1>7. Queue' = Tail(Queue)
      BY <1>2, <1>5, <1>6, SeqEqual
<1> QED BY <1>3, <1>4, <1>7 DEF ReadFront

\* A step that leaves the ring as it is, with the length that goes with its place.
LEMMA QueueUnchanged ==
    ASSUME UNCHANGED <<buffer, front>>, Length' = Length
    PROVE  Queue' = Queue
    BY DEF Queue

LEMMA StreamStep ==
    ASSUME DataInv, DataInv', SoundInv, SoundInv', ReceiverInv, QuietInv, QuietInv', [Next]_vars
    PROVE  [Stream!StreamNext]_(Stream!streamVars)
<1>0. SoundBody /\ SoundBody' /\ QueueConsistent /\ QueueConsistent'
      BY DEF QuietInv, SoundInv, SoundBody
<1> USE DEF Stream!streamVars
<1>1. ASSUME NEW b \in Bytes, Arrive(b) PROVE Stream!Receive(b)
  <2>1. Queue' = Queue
        BY <1>1, QueueUnchanged DEF Arrive, Length
  <2> QED BY <1>1, <2>1 DEF Arrive, Stream!Receive
<1>2. CASE Isr
  <2>0. ~InCritical
        BY <1>2 DEF Isr, Masked, DataInv, CriticalInv
  <2>1. CASE rdr = NoByte
    <3>1. Queue' = Queue
          BY <1>2, <2>0, <2>1, QueueUnchanged DEF Isr, Length, InCritical, Woken
    <3> QED BY <1>2, <2>1, <3>1 DEF Isr
  <2>2. CASE rdr # NoByte
    <3>1. rdr \in Bytes /\ Put(rdr) /\ rdr' = NoByte /\ pc' = Woken /\ got' = got
          BY <1>2, <2>2 DEF Isr, IsBreak, QuietInv, DataInv, ThreadType
    <3>2. Queue' = IF Len(Queue) = BufferSize THEN Queue ELSE Append(Queue, rdr)
          BY <1>0, <2>0, <3>1, PutAccepts
    <3> QED BY <2>2, <3>1, <3>2 DEF Stream!StreamNext, Stream!Accept
  <2> QED BY <2>1, <2>2
<1>3. CASE OtherIrq
  <2>1. Queue' = Queue
        BY <1>3, QueueUnchanged DEF OtherIrq, Length, Woken
  <2> QED BY <1>3, <2>1 DEF OtherIrq
<1>4. CASE UsartEnable
  <2>1. Length = 0 /\ Length' = 0
        BY <1>4 DEF UsartEnable, Step, Length, ReceiverInv, ResetInv
  <2>2. Queue' = Queue
        BY <1>0, <2>1, QueueIs, QueueIsNext, EmptySeq
  <2> QED BY <1>4, <2>2 DEF UsartEnable
<1>5. CASE MonitorMain
  <2>1. Queue' = Queue
        BY <1>5, QueueUnchanged DEF MonitorMain, Step, Length
  <2> QED BY <1>5, <2>1 DEF MonitorMain
<1>6. CASE GetNext
  <2>1. CASE ReadFront
        BY <1>0, <2>1, ReadHandsOut DEF ReadFront, Stream!StreamNext, Stream!HandOut
  <2>2. CASE StoreLen
    <3>1. lenReg = len /\ len \in Nat /\ len >= 1 /\ len < LenMod
          BY <1>0, <2>2, UsartBufferAssumption DEF StoreLen, Step, SoundBody, QueueConsistent, Length, DataInv, QueueType
    <3>2. (len + LenMod - 1) % LenMod = len - 1
      <4>1. LenMod \in Nat \ {0}
            BY UsartBufferAssumption, <3>1
      <4> QED BY <3>1, <4>1, ModDown
    <3>3. Length' = Length
          BY <2>2, <3>1, <3>2 DEF StoreLen, Step, Length
    <3>4. Queue' = Queue
          BY <2>2, <3>3, QueueUnchanged DEF StoreLen
    <3> QED BY <2>2, <3>4 DEF StoreLen
  <2>3. CASE GetNone
        BY <1>0, <2>3 DEF GetNone, Step, IsEmpty, SoundBody
  <2>4. CASE \/ GetByte \/ CheckSome \/ CheckNone \/ WaitForInterrupt \/ GetSome
             \/ EnterCritical \/ LoadLen \/ LeaveCritical
    <3>1. /\ UNCHANGED <<buffer, front, len, rdr, got>>
          /\ pc' \in {"dec", "store"} <=> pc \in {"dec", "store"}
          BY <2>4 DEF GetByte, CheckSome, CheckNone, WaitForInterrupt, GetSome, EnterCritical,
             LoadLen, LeaveCritical, Step
    <3>2. Length' = Length
          BY <3>1 DEF Length
    <3> QED BY <3>1, <3>2, QueueUnchanged
  <2> QED BY <1>6, <2>1, <2>2, <2>3, <2>4 DEF GetNext
<1>7. CASE CallNext \/ MonitorNext
      BY <1>7 DEF CallNext, BeginCall, EndCall, ExitToMonitor, Breakpoint, MonitorNext, DebugEnter,
         DisableRxInterrupt, ClearIrq, MenuByte, MenuChoice, InitQueue, EnableRxInterrupt,
         InMonitor, QuietInv
<1>8. CASE SysReset
  <2>1. Length' = 0
        BY <1>8 DEF SysReset, Length
  <2>2. Queue' = <<>>
        BY <1>0, <2>1, QueueIsNext, EmptySeq
  <2> QED BY <1>8, <2>2 DEF SysReset, Stream!StreamNext, Stream!Restart
<1>9. CASE UNCHANGED vars
  <2>1. Queue' = Queue
        BY <1>9, QueueUnchanged DEF vars, Length
  <2> QED BY <1>9, <2>1 DEF vars
<1> QED BY <1>1, <1>2, <1>3, <1>4, <1>5, <1>6, <1>7, <1>8, <1>9 DEF Next, Stream!StreamNext

LEMMA StreamStart == Init => Stream!StreamInit
<1> SUFFICES ASSUME Init PROVE Queue = <<>>
    BY DEF Init, Stream!StreamInit
<1>1. DataInv /\ QueueConsistent
      BY DataInit, SoundInit DEF Init, SoundInv, SoundBody
<1>2. Length = 0
      BY DEF Init, Length
<1> QED BY <1>1, <1>2, QueueIs, EmptySeq

\* Refinement: seen from its caller the driver is a bounded FIFO (usart.c:86-109,
\* 202-215), at every buffer size and every width of len above it, as long as the
\* debugger is not used: bytes are handed out once and in order, and only lost by an
\* overrun or because the queue is full.
THEOREM UsartIsStream == ~Debugging => (Spec => Stream!StreamSafety)
<1> SUFFICES ASSUME ~Debugging PROVE Spec => Stream!StreamSafety
    OBVIOUS
<1>1. Init => Stream!StreamInit
      BY StreamStart
<1>2. /\ DataInv /\ DataInv' /\ SoundInv /\ SoundInv' /\ ReceiverInv /\ QuietInv /\ QuietInv'
      /\ [Next]_vars
      => [Stream!StreamNext]_(Stream!streamVars)
      BY StreamStep
<1> QED BY <1>1, <1>2, QuietInvariant, SoundInvariant, DataInvariant, ReceiverInvariant, PTL
        DEF Spec, Stream!StreamSafety

=============================================================================
