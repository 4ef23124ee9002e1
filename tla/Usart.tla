------------------------------- MODULE Usart -------------------------------
(***************************************************************************)
(* The USART receive path (hardware/stm32f411xce/stm32f411xce_usart.c) on  *)
(* the single Cortex-M4 core that runs it.  Three parties share the driver *)
(* state without any lock but util_enter_critical():                       *)
(*                                                                         *)
(*   - the thread, which reads bytes with usart_getbyte();                 *)
(*   - _usart_isr, which queues the byte the data register holds;          *)
(*   - the DebugMonitor exception (arm/debug.c), which switches the USART  *)
(*     to polling while its menu is open and back to interrupts when it is *)
(*     left, emptying the queue on the way.                                *)
(*                                                                         *)
(* No exception priority is ever set, so the interrupt and DebugMonitor    *)
(* never preempt one another: both run between two instructions of the     *)
(* thread.  The thread's steps are the accesses to shared state that other *)
(* parties can observe between.  The interrupt reads the data register     *)
(* once and is one step.  DebugMonitor is several, since bytes keep        *)
(* arriving while it runs.                                                 *)
(***************************************************************************)
EXTENDS Integers, Sequences

CONSTANTS
    BufferSize,     \* BUFFER_SIZE, 24 in the code
    LenMod,         \* len is a uint8_t: 256 in the code
    Bytes,          \* the byte values told apart
    Zero,           \* what intqueue_get returns for an empty queue
    CtrlC,          \* CTRL('c'), the user break
    NoByte,         \* the data register when RXNE is clear
    Debugging       \* whether functions are called (and so debugged) at all

ASSUME UsartBufferAssumption ==
    /\ BufferSize \in Nat \ {0}
    /\ LenMod \in Nat
    /\ BufferSize < LenMod

ASSUME UsartBytesAssumption ==
    /\ Zero \in Bytes
    /\ CtrlC \in Bytes
    /\ NoByte \notin Bytes

ASSUME UsartDebuggingAssumption == Debugging \in BOOLEAN

Index == 0 .. BufferSize - 1

VARIABLES
    buffer, len, front, back,   \* struct usart_intqueue
    enableBreak, poll,          \* the rest of struct usart_driver_state
    receiving,                  \* USART_CR1_RE
    rdr,                        \* the data register, NoByte when RXNE is clear
    rxneie,                     \* USART_CR1_RXNEIE
    irqPend,                    \* the interrupt is pending in the NVIC
    monStep, monPend,           \* DEMCR_MON_STEP; DebugMonitor is pending
    pc,                         \* where the thread is
    got,                        \* the byte usart_getbyte returns
    lenReg,                     \* the copy of len that len-- decrements
    criticalCount,              \* s_critical_count
    dpc,                        \* where DebugMonitor is, "none" when inactive
    usartPoll,                  \* debug_monitor's local of that name
    interrupted                 \* history: the queue was emptied inside a get

queue   == <<buffer, len, front, back>>
driver  == <<enableBreak, poll>>
usart   == <<receiving, rdr, rxneie, irqPend>>
thread  == <<pc, got, lenReg, criticalCount>>
monitor == <<dpc, usartPoll>>
vars    == <<queue, driver, usart, monStep, monPend, thread, monitor, interrupted>>

ThreadLocations ==
    {"reset", "main", "idle", "check", "get", "enter", "read", "dec", "store",
     "leave", "wfi", "asleep"}

MonitorLocations == {"none", "ie_off", "clear", "menu", "q_init", "ie_on"}

-----------------------------------------------------------------------------
(***************************************************************************)
(* Reset: .bss is zero, the core's DEMCR.MON_* bits are clear, the         *)
(* peripheral is off.                                                      *)
(***************************************************************************)
Init ==
    /\ buffer \in [Index -> Bytes]
    /\ len = 0 /\ front = 0 /\ back = 0
    /\ enableBreak = FALSE /\ poll = FALSE
    /\ receiving = FALSE /\ rdr = NoByte /\ rxneie = FALSE /\ irqPend = FALSE
    /\ monStep = FALSE /\ monPend = FALSE
    /\ pc = "reset" /\ got = Zero /\ lenReg = 0 /\ criticalCount = 0
    /\ dpc = "none" /\ usartPoll = FALSE
    /\ interrupted = FALSE

IsEmpty == len = 0              \* intqueue_is_empty
\* Mutant: full one byte too early.
IsFull_one_early == len = BufferSize - 1

IsFull  == len = BufferSize     \* intqueue_is_full

\* util_enter_critical sets FAULTMASK, which keeps every exception out.
Masked == criticalCount > 0

-----------------------------------------------------------------------------
(***************************************************************************)
(* The wire.  A byte that finds the data register occupied is an overrun   *)
(* and is lost.                                                            *)
(***************************************************************************)
Arrive(b) ==
    /\ receiving
    /\ rdr' = (IF rdr = NoByte THEN b ELSE rdr)
    /\ irqPend' = (irqPend \/ rxneie)
    /\ UNCHANGED <<receiving, rxneie, queue, driver, monStep, monPend, thread,
                   monitor, interrupted>>

-----------------------------------------------------------------------------
(***************************************************************************)
(* _usart_isr: a break character arms DebugMonitor and is not queued, any  *)
(* other byte is queued, or dropped when the queue is full.                *)
(***************************************************************************)
\* intqueue_put_from_isr
Put(b) ==
    IF IsFull
    THEN UNCHANGED queue
    ELSE /\ buffer' = [buffer EXCEPT ![back] = b]
         /\ back' = (back + 1) % BufferSize
         /\ len' = (len + 1) % LenMod
         /\ UNCHANGED front

IsBreak(b) == enableBreak /\ b = CtrlC

\* Mutant: back to WFI after a wake-up, without testing the queue again.
Woken_sleeping_on == IF pc = "asleep" THEN "wfi" ELSE pc

\* Mutant: the queue is taken to be non-empty after a wake-up.
Woken_unchecked == IF pc = "asleep" THEN "get" ELSE pc

\* An exception wakes the core: WFI then completes.
Woken == IF pc = "asleep" THEN "check" ELSE pc

Isr ==
    /\ dpc = "none" /\ ~Masked /\ ~monPend
    /\ irqPend
    /\ irqPend' = FALSE
    /\ rdr' = NoByte
    /\ IF rdr = NoByte
       THEN UNCHANGED <<queue, monPend>>
       ELSE IF IsBreak(rdr)
            THEN monPend' = TRUE /\ UNCHANGED queue
            ELSE Put(rdr) /\ UNCHANGED monPend
    /\ pc' = Woken
    /\ UNCHANGED <<driver, receiving, rxneie, monStep, got, lenReg, criticalCount,
                   monitor, interrupted>>

\* Any other interrupt: it leaves the queue alone but ends a WFI.
OtherIrq ==
    /\ dpc = "none" /\ pc = "asleep"
    /\ pc' = Woken
    /\ UNCHANGED <<queue, driver, usart, monStep, monPend, got, lenReg, criticalCount,
                   monitor, interrupted>>

-----------------------------------------------------------------------------
(***************************************************************************)
(* The thread.  It runs when no exception is active or about to be taken;  *)
(* with MON_STEP set, DebugMonitor becomes pending after its step.         *)
(***************************************************************************)
Step(from, to) ==
    /\ pc = from /\ pc' = to
    /\ dpc = "none"
    /\ Masked \/ ~(monPend \/ irqPend)
    /\ monPend' = (monPend \/ monStep)
    /\ UNCHANGED <<monStep, monitor>>

\* usart_enable, from board_init.
UsartEnable ==
    /\ Step("reset", "main")
    /\ poll' = FALSE /\ enableBreak' = FALSE
    /\ len' = 0 /\ front' = 0 /\ back' = 0
    /\ rxneie' = TRUE /\ receiving' = TRUE
    /\ UNCHANGED <<buffer, rdr, irqPend, got, lenReg, criticalCount, interrupted>>

\* monitor_main, up to its menu loop.
MonitorMain ==
    /\ Step("main", "idle")
    /\ enableBreak' = FALSE
    /\ UNCHANGED <<queue, poll, usart, got, lenReg, criticalCount, interrupted>>

\* monitor_call_function, with or without stepping, up to the call ...
BeginCall(step) ==
    /\ Debugging /\ ~enableBreak
    /\ pc = "idle" /\ dpc = "none" /\ ~monPend /\ ~irqPend
    /\ enableBreak' = TRUE
    /\ monStep' = (monStep \/ step)
    /\ monPend' = monStep'
    /\ UNCHANGED <<queue, poll, usart, thread, monitor, interrupted>>

\* ... and after it.  MON_STEP is left as it is.
EndCall ==
    /\ enableBreak
    /\ Step("idle", "idle")
    /\ enableBreak' = FALSE
    /\ UNCHANGED <<queue, poll, usart, got, lenReg, criticalCount, interrupted>>

\* The called function ends through system call 0 or a HardFault: monitor_main
\* is entered afresh.
ExitToMonitor ==
    /\ enableBreak
    /\ Step("idle", "main")
    /\ UNCHANGED <<queue, driver, usart, got, lenReg, criticalCount, interrupted>>

\* The called function executes BKPT (the debug fault is DebugMonitor).
Breakpoint ==
    /\ enableBreak
    /\ pc = "idle" /\ dpc = "none" /\ ~monPend /\ ~irqPend
    /\ monPend' = TRUE
    /\ UNCHANGED <<queue, driver, usart, monStep, thread, monitor, interrupted>>

\* usart_getbyte with poll clear.  The monitor calls it, not the called function.
GetByte ==
    /\ ~enableBreak /\ ~poll
    /\ Step("idle", "check")
    /\ UNCHANGED <<queue, driver, usart, got, lenReg, criticalCount, interrupted>>

\* The loop's test.  The build may merge it with intqueue_get's own.
CheckSome ==
    /\ ~IsEmpty
    /\ Step("check", "get") \/ Step("check", "enter")
    /\ UNCHANGED <<queue, driver, usart, got, lenReg, criticalCount, interrupted>>

CheckNone ==
    /\ IsEmpty
    /\ Step("check", "wfi")
    /\ UNCHANGED <<queue, driver, usart, got, lenReg, criticalCount, interrupted>>

WaitForInterrupt ==
    /\ Step("wfi", "asleep")
    /\ UNCHANGED <<queue, driver, usart, got, lenReg, criticalCount, interrupted>>

\* intqueue_get: its test of the queue ...
GetNone ==
    /\ IsEmpty
    /\ Step("get", "idle")
    /\ got' = Zero
    /\ UNCHANGED <<queue, driver, usart, lenReg, criticalCount, interrupted>>

GetSome ==
    /\ ~IsEmpty
    /\ Step("get", "enter")
    /\ UNCHANGED <<queue, driver, usart, got, lenReg, criticalCount, interrupted>>

\* ... and its critical section, len-- being a load and a store.
\* Mutant: no mask.
EnterCritical_unmasked ==
    /\ Step("enter", "read")
    /\ UNCHANGED <<queue, driver, usart, got, lenReg, criticalCount, interrupted>>

EnterCritical ==
    /\ Step("enter", "read")
    /\ criticalCount' = criticalCount + 1
    /\ UNCHANGED <<queue, driver, usart, got, lenReg, interrupted>>

\* Mutant: front does not wrap.
ReadFront_no_wrap ==
    /\ Step("read", "dec")
    /\ got' = buffer[front]
    /\ front' = front + 1
    /\ UNCHANGED <<buffer, len, back, driver, usart, lenReg, criticalCount, interrupted>>

ReadFront ==
    /\ Step("read", "dec")
    /\ got' = buffer[front]
    /\ front' = (front + 1) % BufferSize
    /\ UNCHANGED <<buffer, len, back, driver, usart, lenReg, criticalCount, interrupted>>

LoadLen ==
    /\ Step("dec", "store")
    /\ lenReg' = len
    /\ UNCHANGED <<queue, driver, usart, got, criticalCount, interrupted>>

StoreLen ==
    /\ Step("store", "leave")
    /\ len' = (lenReg + LenMod - 1) % LenMod
    /\ UNCHANGED <<buffer, front, back, driver, usart, got, lenReg, criticalCount,
                   interrupted>>

LeaveCritical ==
    /\ Step("leave", "idle")
    /\ criticalCount' = criticalCount - 1
    /\ UNCHANGED <<queue, driver, usart, got, lenReg, interrupted>>

\* CTRL('r') at the monitor's menu: scb_sys_reset_request.
SysReset ==
    /\ pc = "idle" /\ dpc = "none" /\ ~enableBreak /\ ~monPend /\ ~irqPend
    /\ UNCHANGED buffer
    /\ len' = 0 /\ front' = 0 /\ back' = 0
    /\ enableBreak' = FALSE /\ poll' = FALSE
    /\ receiving' = FALSE /\ rdr' = NoByte /\ rxneie' = FALSE /\ irqPend' = FALSE
    /\ monStep' = FALSE /\ monPend' = FALSE
    /\ pc' = "reset" /\ got' = Zero /\ lenReg' = 0 /\ criticalCount' = 0
    /\ UNCHANGED monitor
    /\ interrupted' = FALSE

GetNext ==
    \/ GetByte \/ CheckSome \/ CheckNone \/ WaitForInterrupt \/ GetNone \/ GetSome
    \/ EnterCritical \/ ReadFront \/ LoadLen \/ StoreLen \/ LeaveCritical

CallNext ==
    \/ \E step \in BOOLEAN : BeginCall(step)
    \/ EndCall \/ ExitToMonitor \/ Breakpoint

-----------------------------------------------------------------------------
(***************************************************************************)
(* DebugMonitor: debug_monitor() and the two halves of usart_set_polling() *)
(* it calls.  nvic_disable_irq() writes zeroes to a set-enable register    *)
(* and changes nothing.                                                    *)
(***************************************************************************)
InMonitor(from, to) ==
    /\ dpc = from /\ dpc' = to
    /\ UNCHANGED <<got, lenReg, criticalCount, receiving>>

DebugEnter ==
    /\ InMonitor("none", IF poll THEN "menu" ELSE "ie_off")
    /\ monPend /\ ~Masked
    /\ monPend' = FALSE
    /\ pc' = Woken
    /\ usartPoll' = poll
    /\ poll' = TRUE
    /\ UNCHANGED <<queue, enableBreak, rdr, rxneie, irqPend, monStep, interrupted>>

DisableRxInterrupt ==
    /\ InMonitor("ie_off", "clear")
    /\ rxneie' = FALSE
    /\ UNCHANGED <<queue, driver, rdr, irqPend, monStep, monPend, pc, usartPoll,
                   interrupted>>

\* Mutant: the pending interrupt is left pending.
ClearIrq_skipped ==
    /\ InMonitor("clear", "menu")
    /\ UNCHANGED <<queue, driver, usart, monStep, monPend, pc, usartPoll, interrupted>>

ClearIrq ==
    /\ InMonitor("clear", "menu")
    /\ irqPend' = FALSE
    /\ UNCHANGED <<queue, driver, rdr, rxneie, monStep, monPend, pc, usartPoll,
                   interrupted>>

\* One byte read by the menu, by polling; the menu stays open ...
MenuByte ==
    /\ InMonitor("menu", "menu")
    /\ rdr # NoByte /\ rdr' = NoByte
    /\ UNCHANGED <<queue, driver, rxneie, irqPend, monStep, monPend, pc, usartPoll,
                   interrupted>>

\* ... or it ends it: 's' steps, 'c' continues, 'm' goes back to monitor_main.
MenuChoice(step, exit) ==
    /\ InMonitor("menu", IF usartPoll THEN "none" ELSE "q_init")
    /\ rdr # NoByte /\ rdr' = NoByte
    /\ exit => ~step
    /\ monStep' = step
    /\ pc' = (IF exit THEN "main" ELSE pc)
    /\ UNCHANGED <<queue, driver, rxneie, irqPend, monPend, usartPoll, interrupted>>

\* Mutant: only len is cleared.
InitQueue_len_only ==
    /\ InMonitor("q_init", "ie_on")
    /\ poll' = FALSE
    /\ len' = 0
    /\ interrupted' = (interrupted \/ pc \in {"get", "enter"})
    /\ UNCHANGED <<buffer, front, back, enableBreak, rdr, rxneie, irqPend, monStep,
                   monPend, pc, usartPoll>>

\* intqueue_init
InitQueue ==
    /\ InMonitor("q_init", "ie_on")
    /\ poll' = FALSE
    /\ len' = 0 /\ front' = 0 /\ back' = 0
    /\ interrupted' = (interrupted \/ pc \in {"get", "enter"})
    /\ UNCHANGED <<buffer, enableBreak, rdr, rxneie, irqPend, monStep, monPend, pc,
                   usartPoll>>

\* Mutant: the pending interrupt is cleared after it was enabled.
EnableRxInterrupt_then_clear ==
    /\ InMonitor("ie_on", "none")
    /\ rxneie' = TRUE
    /\ irqPend' = FALSE
    /\ UNCHANGED <<queue, driver, rdr, monStep, monPend, pc, usartPoll, interrupted>>

EnableRxInterrupt ==
    /\ InMonitor("ie_on", "none")
    /\ rxneie' = TRUE
    /\ irqPend' = (irqPend \/ rdr # NoByte)
    /\ UNCHANGED <<queue, driver, rdr, monStep, monPend, pc, usartPoll, interrupted>>

MonitorNext ==
    \/ DebugEnter \/ DisableRxInterrupt \/ ClearIrq \/ MenuByte
    \/ \E step, exit \in BOOLEAN : MenuChoice(step, exit)
    \/ InitQueue \/ EnableRxInterrupt

-----------------------------------------------------------------------------
Next ==
    \/ \E b \in Bytes : Arrive(b)
    \/ Isr \/ OtherIrq
    \/ UsartEnable \/ MonitorMain \/ GetNext \/ CallNext \/ SysReset
    \/ MonitorNext

Spec == Init /\ [][Next]_vars

(***************************************************************************)
(* The core takes pending exceptions and executes instructions.  The       *)
(* thread's fairness is strong: interrupts suspend it again and again, but *)
(* a byte takes longer on the wire than its interrupt takes to run, so it  *)
(* executes between any two.  Bytes keep arriving only when whoever sends  *)
(* them does not wait for an answer.                                       *)
(***************************************************************************)
CoreFairness ==
    /\ WF_vars(Isr)
    /\ SF_vars(UsartEnable \/ MonitorMain \/ GetNext)

SteadySender == WF_vars(\E b \in Bytes : Arrive(b))

SteadySpec == Spec /\ CoreFairness /\ SteadySender

-----------------------------------------------------------------------------
QueueType ==
    /\ buffer \in [Index -> Bytes]
    /\ len \in 0 .. LenMod - 1 /\ front \in Index /\ back \in Index

FlagType ==
    /\ enableBreak \in BOOLEAN /\ poll \in BOOLEAN
    /\ receiving \in BOOLEAN /\ rxneie \in BOOLEAN /\ irqPend \in BOOLEAN
    /\ monStep \in BOOLEAN /\ monPend \in BOOLEAN
    /\ usartPoll \in BOOLEAN /\ interrupted \in BOOLEAN

ThreadType ==
    /\ pc \in ThreadLocations /\ got \in Bytes /\ lenReg \in 0 .. LenMod - 1
    /\ criticalCount \in {0, 1}
    /\ dpc \in MonitorLocations /\ rdr \in Bytes \cup {NoByte}

TypeOK == QueueType /\ FlagType /\ ThreadType

\* The bytes in the queue: between front++ and len-- one is already out of it.
Length == IF pc \in {"dec", "store"} THEN len - 1 ELSE len

Queue == [i \in 1 .. Length |-> buffer[(front + i - 1) % BufferSize]]

\* len, front and back describe one and the same queue, of at most BUFFER_SIZE
\* bytes, at every point where another party can look (intqueue_get, lines 86-98,
\* against intqueue_put_from_isr, lines 100-109).
QueueConsistent ==
    /\ Length >= 0 /\ len <= BufferSize
    /\ back = (front + Length) % BufferSize

\* The only thing that can break the queue is DebugMonitor emptying it between
\* usart_getbyte's test and its critical section (debug.c:142): neither the
\* interrupt nor a call, a reset or the exit to the monitor does.
QueueSoundUnlessInterrupted == ~interrupted => QueueConsistent

\* While the debugger's menu polls for input (debug.c:93-135), the interrupt
\* neither is enabled nor pends, so no byte is taken from under the menu.
MenuOwnsReceiver == dpc = "menu" => ~rxneie /\ ~irqPend

\* Outside the debugger the receiver works by interrupts, and a byte that came
\* while it was being switched back (debug.c:140-143) is not left in the data
\* register with no interrupt to fetch it.
ReceiverArmed ==
    dpc = "none" /\ pc \notin {"reset"} =>
        /\ ~poll /\ rxneie
        /\ rdr # NoByte => irqPend

\* usart_getbyte returns the 0 of an empty queue (usart.c:87-89) only when the
\* debugger emptied the queue after the loop had found it non-empty.
ZeroOnlyWhenInterrupted ==
    [][pc = "get" /\ pc' = "idle" => interrupted]_vars

\* Seen from its caller the driver is the bounded FIFO of ByteStream, as long as
\* the debugger is not used.
Stream == INSTANCE ByteStream
            WITH Capacity <- BufferSize, in <- rdr, q <- Queue, out <- got

ImplementsStream == Stream!StreamSpec

\* A thread that waits for a byte gets it once one has been queued, provided
\* that bytes keep coming: WFI is not guarded against a byte queued just before
\* it (usart.c:206-211), only the next interrupt ends the wait.
GetByteReturns == (pc \in {"check", "wfi", "asleep"} /\ len > 0) ~> (pc = "idle")

=============================================================================
