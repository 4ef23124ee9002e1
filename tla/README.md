# tw-monitor in TLA+

tw-monitor is an on-chip monitor and stepping debugger for a single Cortex-M4
(NUCLEO-F411RE): over a serial line the user dumps and enters memory, assembles
and disassembles Thumb instructions, calls functions, steps through them with
the DebugMonitor exception, and receives files over a second serial line.

This directory holds TLA+ modules that model the monitor, TLC configurations
that check them on small instances, and theorems with proofs for TLAPS. Paths
below are relative to `src/`; `usart.c` is
`monitor/hardware/stm32f411xce/stm32f411xce_usart.c`.

    tlc -workers 2 -config MCUsart_stream.cfg MCUsart      # one of the runs
    tlapm UsartProofs.tla                                  # one of the proofs

Contents: [the system](#the-system) · [modules](#modules) · [runs](#runs) ·
[fairness](#fairness) · [bounds](#bounds) · [what the runs found](#what-the-runs-found) ·
[what is proved](#what-is-proved) · [what is not modelled](#what-is-not-modelled) ·
[plan](#plan)

## The system

One core executes the *thread* (`monitor_main` and whatever it calls), the
USART *interrupts* and the *DebugMonitor*, *SVC* and *HardFault* exceptions. No
priorities are ever set, so that only a HardFault preempts a handler and the
others run between two instructions of the thread. The host sits at the
other end of the two serial lines. All concurrency of the program is here:

| Component | State | Operations | Interacts with |
|---|---|---|---|
| **USART receive driver** (`usart.c`, `arm/nvic.c`, `util.c`) | queue of 24 bytes with `len`, `front`, `back`; `poll`, `enable_break`; RXNEIE, RXNE, the pending interrupt; `s_critical_count` | `usart_enable`, `usart_getbyte`, `_usart_isr`, `usart_set_polling`, `usart_enable_break` | read by the thread, filled by the interrupt, emptied by DebugMonitor |
| **File transfer** (`monitor/transfer.c`, `clobber_sram.s`, `monitor_dev.c`, `tools/binsend.c`) | bytes and ACKs under way; where both ends are | `binsend`, `transfer_receive`, the loader behind "Exec from USART1" | the driver's queue, or the data register behind its back |
| **Memory entries** (`monitor/memory.c`) | a linked list that grows down from the stack's ceiling: user section, labels, allocations | create label, look up by name or by address, allocate, free, section size | assembler, disassembler, and the debugger at any instruction |
| **Debugger and calls** (`arm/debug.c`, `monitor_call.c`, `syscall.c`, `startup.s`) | MON_STEP, pending DebugMonitor, `s_start_stepping_address`, `last_pc`, the user break, the active exceptions, the vector table | call with or without stepping; step, continue, skip, exit; SVC 0 and 1; HardFault and its unwinding; reset | switches the driver to polling; steps the monitor's own code too |
| **Assembler session** (`monitor_assemble.c`) | `starting_addr`, `end_addr`, `addr`, the user section's size | open, assemble, up, down, start, end, rewind, quit | memory entries, Thumb assembler |
| **Thumb assembler and disassembler** (`thumb_asm.c`, `autogen_encodings/t32_encoding.c`) | none: pure functions on specifications and words | 44 encodings, `thumb_assemble`, `thumb_disassemble` | the session's menus, the disassemble command, the debugger's prompt |
| **Monitor main menu** (`monitor.c`) | none of its own | the commands | everything above |
| **Enter editor** (`monitor_enter.c`) | address, column, digit, value being typed | digits, space, backspace, return | memory |
| **Menus and number entry** (`menu.c`) | the number being typed, its sign and base | `menu`, `submenu`, `menu_number`, absolute address | console, strings |
| **Strings and console I/O** (`string.c`, `char.c`, `io.c`) | one static buffer for numbers | `utoa_pad`, `strtou`, `io_gettill` | the driver |
| **Terminal and VT** (`terminal.c`, `vt.c`) | none | cursor sequences | console |
| **Disassemble and memory dump** | none | listings | disassembler, labels |
| **Board start-up, SCB, timer, assertions, runtime ABI** | peripheral registers | set-up, reset, fault registers, halt | — |
| **Demos, scripts, host tests** | — | — | use the system calls |

What makes each hard, and what makes it correct:

* **Driver.** Three parties share the queue and only one of them masks the
  others (FAULTMASK in `intqueue_get`). Correct: `len`, `front` and `back`
  describe one queue whenever anybody can look; bytes come out once, in order,
  and are lost only by an overrun or a full queue; a waiting reader is woken; the
  receiver is handed to the debugger's menu and back without losing its
  interrupt.
* **Transfer.** No time-outs, no resynchronisation; a stop-and-wait protocol over
  a one-byte register. Correct: never two bytes under way, what is reported
  complete is the file, nothing is written beyond the announced length, and both
  ends finish.
* **Memory entries.** Entries are linked before they are filled in, and
  DebugMonitor looks labels up in between. Correct: no two entries overlap, an
  allocation has one holder, a name has one label, and lookups return usable
  entries.
* **Debugger.** A call can end by a return, SVC 0, a fault or the debugger's exit,
  and only the first goes through the end of `monitor_call_function`; static
  variables live on. Correct: the user break is on during calls only, automatic
  stepping ends and leaves nothing behind, the monitor itself is stepped only if
  the user asked to.
* **Exceptions.** A HardFault may strike in a handler, which then has to be
  returned from as well, by code that runs in its place. Correct: the monitor is
  only gone back to in thread mode, and it is gone back to.
* **Assembler session.** Nothing says where an instruction begins but a walk from
  the start. Correct: the cursor stays in the session, on instructions, and the
  instruction before it can be found, also after Enter wrote into the section.
* **Enter editor.** The entry being typed is a copy of memory, its column, its
  address and the screen are moved separately. Correct: only what was typed
  changes, and the screen shows what memory has.
* **Number entry.** A number, its sign and its base are edited separately, and it
  is shown through one static buffer. Correct: it never overflows, and what is
  shown is what is submitted.
* **Thumb.** Fields are split over two halfwords, inverted, shifted and shared
  by encodings; the order of the tests decides. Correct: what is listed is what
  was asked for, and typing in a listing gives the instruction again.

`PROJECT.json` lists every hazard with its line and the properties that cover it.

## Modules

Mutated forms of some definitions stand beside them ("Mutant: ..."): each is a
plausible bug, and `PROJECT.json` pairs it with the property that it breaks.
They are not part of any specification.

**`Usart`** — the receive driver. The thread's `usart_getbyte` is cut where
another party can observe a difference: the loop's test (`CheckSome`,
`CheckNone`), `WaitForInterrupt`, `intqueue_get`'s own test (`GetSome`,
`GetNone`), and the critical section (`EnterCritical`, `ReadFront`, `LoadLen`,
`StoreLen`, `LeaveCritical`; `len--` is a load and a store). `Isr` is one step,
for it touches the data register once and nothing preempts it; `OtherIrq` is any
other interrupt, which only ends a WFI. DebugMonitor is several steps
(`DebugEnter`, `DisableRxInterrupt`, `ClearIrq`, `MenuByte`, `MenuChoice`,
`InitQueue`, `EnableRxInterrupt`) since bytes keep arriving while it runs.
`CallNext` is what calls mean to the driver: the break is enabled, MON_STEP may
stay on, the call may end in `monitor_main`. `nvic_disable_irq` appears as what
it does, nothing. `interrupted` is a history variable: the debugger emptied the
queue between a successful test and its use.

**`ByteStream`** — the abstract receiver: a one-byte register, a bounded FIFO,
the last byte handed out. `Usart` implements it without the debugger, under the
mapping `in <- rdr`, `q <- Queue`, `out <- got`, where `Queue` reads the circular
buffer and counts a byte as gone from `front++` on.

**`Transfer`** — `binsend` (`Open`, `WriteByte`, `ReadAck`, `ReadFails`, `Stop`)
against both receivers: `transfer_receive` through the queue (`TakeQueued`,
`QueueEmpty`, `WaitForInterrupt`, `Ack`) and the loader that polls the register
(`TakePolled`, `Ack`). The driver is reduced to the FIFO it implements, plus the
gap between test and WFI. `KeyPress` is USART2's interrupt. Bytes are numbers in
base `Base`, so that the two-byte length means what it means in the code.

**`Memory`** — the list of entries as a sequence, each with its address. A
creation is split where the code writes in several steps: `CreateLabel` and
`AllocNew` link, `FillLabel`, `NameData`, `NameCode`, `SetInterwork`, `FillAlloc`
fill in. `held` is a history variable: which caller holds which allocation.
`LookupLabel` and `RlookupLabel` are evaluated at every step, as the debugger may.

**`Exceptions`** — the core's stack of active exceptions and `hardfault_handler`
of `startup.s`: it returns into `fault_exit` or, where a handler was interrupted,
into `fault_exit_unwind_exceptions`, which returns from that one in turn
(`HardFaultHandler`, `UnwindException`). The frame's IPSR is masked as the code
masks it. What follows where unwinding goes wrong is not modelled: `"lost"`.

**`Debugger`** — extends `Exceptions` with DebugMonitor pending or not, the called
function (one of a set of small programs) and the monitor as a few addresses.
`Execute` is one instruction: with MON_STEP it leaves DebugMonitor pending.
`Prompt` and `StepOn` are the two ways out of `debug_monitor`'s automatic
stepping; `AnswerStep`, `AnswerContinue`, `AnswerExit`, `AnswerSkip` are its menu.
`Fault` strikes in the function, in the call, in a handler whose vector was
zeroed (`ZeroVector`, `ZeroVectorTaken`), `DebugMonitorFault` in the debugger;
`SysReset` and `ResetButton` start over.

**`Numbers`** — `menu_number`: `Convert`, `Show` and one action per kind of key,
with the number in an int of any width, its sign and base, the static pad of
`string.c` and what the line says. `Debug` is a number printed by the debugger in
between. `negatedMin`, `overflown` and `spoiled` are history variables.

**`Monitor`** — composes `Debugger` and `Numbers`: numbers are typed by the
monitor's commands, at places of the thread that are stepped like any other, and
the debugger's prompt uses the same pad.

**`UserMemory`** — the memory that `AssembleSession` and `Enter` both write.
Addresses are halfwords, and of a halfword it is kept whether it looks like the
first half of a wide instruction.

**`AssembleSession`** — `Settle` is what every round of the loop ends with: the end
follows the cursor and the section follows the end. `OpenAt` looks the section up
by the address that was typed, which is not the label's that the session opens
at. `Previous` is what `previous_thumb_instruction` finds, if anything; `Lose` is
its walk when it steps over the cursor. `disturbed` remembers that the session was
opened inside an instruction or that an instruction was replaced by one of another
width.

**`Enter`** — `monitor_enter`: the entry being typed, its address, digit and
column, and the screen's last line as the sequence of its characters, each told
apart by the entry it prints and its place in it. `Digit`, `Space`, `GoBack`,
`StayAtRowStart`, `TakeBack`, `Return` are the keys, `Complete` and `Incomplete`
the two ways through the loop.

**`Editing`** — composes `AssembleSession` and `Enter`, one after the other on the
same memory: a session opens on whatever Enter left.

**`ThumbEncoding`** — `t32_encoding.c`, generated code of 1200 lines, is data
here: each encoding is its fixed bits and its fields, each field a list of pieces
of the words with its sign, inversion and unstored low bits. `Fits`, `Encode`,
`Match` and `Decode` give the data its meaning.

**`ThumbAsm`** — `Attempts` are the encodings `thumb_assemble` tries for a
specification, in its order; `Assembled` takes the first that accepts.
`Disassembled` is `thumb_disassemble`'s order of tests. The state machine is one
instruction's round: `Assemble` one of what the session's menus can ask for
(`Menus`), or `PointAt` any word; `ShowListing`; `Retype` what the listing says.

**`MC...`** — the instances, one module per component or composition.
**`UsartProofs`, `TransferProofs`, `MemoryProofs`, `EditingProofs`,
`ThumbEncodingProofs`, `ThumbProofs`, `MonitorProofs`** — theorems, see below;
**`Induction`** — what they use of induction over the naturals.

## Runs

| Run | Shows |
|---|---|
| `usart_stream` | Without the debugger: `QueueConsistent` at every step; the driver implements the FIFO, its fairness included (`ImplementsStream`); a waiting reader gets its byte when bytes keep coming (`GetByteReturns`). |
| `usart_debug` | With calls, breaks, stepping, resets and the debugger's menu at every point: nothing but the debugger's emptying breaks the queue (`QueueSoundUnlessInterrupted`), the menu's bytes are not taken by the interrupt (`MenuOwnsReceiver`), the interrupt is not lost on the way back (`ReceiverArmed`), and a 0 nobody sent is delivered only then (`ZeroOnlyWhenInterrupted`). |
| `usart_stepping` | *Violation* of `QueueConsistent` with the debugger. |
| `transfer_files` | A reliable host and one that fails or is stopped and run again, both receivers: one byte or its ACK under way (`Lockstep`), what completes is the file (`CompleteIsTheFile`), nothing beyond the announced length even after failures (`WithinLength`), and a transfer to the monitor ends while somebody types (`TransferFinishes`). |
| `transfer_lost_wakeup` | *Violation* of `TransferFinishes` when nobody types. |
| `transfer_exec` | *Violation* of `ExecFinishes`: the loader and the interrupt compete. |
| `memory_list` | Creations, frees and reuse in any order: `Tiled`, `UniqueNames`, `HeldAlone`, and what a lookup finds in the middle of a creation (`CodeLabelsCallable`, `LabelsFoundByAddress`). |
| `debugger_call` | Functions of every kind, with and without stepping, left in every way, and numbers typed before and after: automatic stepping is armed and leaves nothing behind (`AutoStepArmed`), the user break is on in calls only (`BreakOnlyInCall`), the monitor is debugged only after a step (`PromptInMenuOnlyIfStepped`), a stepped call is shown (`StepCallIsShown`); faults in the function, in handlers and in the debugger end in thread mode (`FaultExitInThreadMode`) and do end, where unwinding can work (`FaultIsUnwound`); numbers do not overflow (`NumberFits`) and are shown as they are (`ShownIsNumber`). |
| `assemble_cursor` | Any memory content, the assembler and Enter in turn: `CursorInSession`, `OnInstructions`, `SectionCoversSession`; Enter's line is what memory has (`LineShowsMemory`), a row is one instruction (`RowIsOneInstruction`), only what was typed changes (`OnlyTypedChanges`). |
| `assemble_lost` | *Violation* of `PreviousIsFound`. |
| `thumb_round` | Every command with operands at and beside the limits of every field, and words from elsewhere: `WidthAsAsked`, `ListedAsAsked`, `RetypedIsSame`, `PrintableUnlessFar`. |
| `thumb_assert` | *Violation* of `NotReached`, the assertion of `thumb_asm.c:221`. |

The Transfer configurations switch deadlock checking off: a host whose port is
closed and a target that waits for a byte, or the two waiting for each other, is
a system that has really stopped; whether it may is what the liveness properties
say. All others check for deadlock.

`ThumbEncoding` and `ThumbAsm` were in addition compared with `thumb_asm.c` and
`t32_encoding.c` compiled for the host, on 14,556 specifications and 9,120 words,
without a difference.

## Fairness

* `Usart!CoreFairness`: a pending interrupt is taken (weak), and the thread
  executes (strong: interrupts suspend it again and again, but a byte takes longer
  on the wire, 87 µs at 115200 baud, than `_usart_isr` takes to run).
  `SteadySender` — bytes keep arriving — is only assumed where a property says so.
* `Transfer!Fairness`: host, wire and core go on, and the user asks for the file
  on the target (`WF Receive(FALSE)`). Nothing is assumed of `Open`, of failures
  or of "Exec from USART1". `TypingSpec` adds that somebody types on USART2.
* `Monitor!MonitorSpec`: instructions of the called function and of the monitor's
  way into and out of it execute (`ThreadNext`), a pending DebugMonitor is taken
  (`PromptPrints`, `StepOn`), a fault is handled to its end (`Fault`,
  `HandleFault`, `FaultExit`). All are steps of the core that nothing holds up.
  The user may leave any menu open for ever, and may never call anything; keys
  are not fair. `Debugger!FairSpec` is the same without numbers.
* `Editing`, `AssembleSession`, `Memory`, `ThumbAsm`: no liveness, no fairness.

## Bounds

| Instance | Bound | Why it is enough |
|---|---|---|
| `MCUsart` | 2 or 3 slots, `len` modulo 4 or 5, bytes `zero`, `x`, `brk` | the queue fills, overflows and wraps both indices; `len` below zero exceeds the capacity as 255 exceeds 24; the values are the ones the code tells apart |
| `MCTransfer` | `Base` 2, files of 0, 2 and 4 bytes, 2 slots | the length takes both bytes at 2, does not fit at 4; lockstep never needs a second slot, failures do |
| `MCMemory` | entries of 4 bytes, room for six, sizes 3, 4, 5, two names that can be labels and one that is too long, an even and an odd address (`Floor` in `Link`) | all orders of label, allocation, free and reuse; sizes below, at and above one entry |
| `MCDebugger` | eight functions of up to three instructions; two vectors that can be zeroed, 11 and 54; `MaxInt` 31, `MaxChar` 2 | return, loop, self-loop, BKPT, SVC 0 and 1, fault, running off the end; an exception number on either side of the mask; numbers of up to two digits in either base, the last of which does not fit or just fits |
| `MCAssembleSession`, `MCEditing` | addresses 0..5, section from 1 (`Top` in `Assemble`, the walks and Enter); `MCEditing`: halfwords of two digits in groups of two, rows of eight digits | a wide instruction over, under and across two others; a word has a `_` and a halfword none, a row of words two entries and one of halfwords four |
| `MCThumbAsm` | operands at the limits of each field and next to them; conditions 0, 1, 14, 15; registers 7, 8, 13, 15 and 256; every sixty-fourth narrow word and sixteen families of wide ones | an encoding's acceptance changes only at these limits |

## What the runs found

1. **The queue under stepping** (`usart_stepping`). MON_STEP outlives a call, so
   the monitor itself can be stepped. If the debugger is left between
   `intqueue_get`'s test (`usart.c:87`) and its critical section (`:91`), its
   `intqueue_init()` has emptied the queue, and `len--` makes 255 of 0.
   `UsartQueueSound` proves this is the only way.
2. **A lost wake-up** (`transfer_lost_wakeup`). A byte queued between the test
   (`usart.c:208`) and the WFI (`:211`) does not end the WFI; `binsend` waits for
   its ACK, the target for another interrupt.
3. **Two readers of one register** (`transfer_exec`). "Exec from USART1" polls
   the data register with the receive interrupt on; when the interrupt is first,
   neither end goes on.
4. **An instruction that is not found** (`assemble_lost`). Up and Rewind walk from
   the start until an instruction ends at the cursor; from inside one it never does.
5. **An assertion that is reached** (`thumb_assert`). `LDR R7, [PC, #-2049]`
   assembles to a word the disassembler takes for another encoding, and stops.

Smaller facts are recorded as hazards:

* branch and load offsets beyond the range are let through and lose their upper
  bits; register numbers are kept in 8 bits; a condition field of 15 indexes past
  the names; a label as LDR's base is off by four;
* `nvic_disable_irq` disables nothing;
* `xPSR_IPSR_BIT_MASK` keeps five of IPSR's nine bits (`startup.s:94`, `:181`): a
  fault in USART2's handler (54) is shown, and unwound, as one in 22. Unwinding
  works at the beginning of a handler only, where LR is still EXC_RETURN, which
  is why `FaultIsUnwound` has both as its conditions;
* changing the sign of INT_MIN overflows (`menu.c:222`) and may leave a sign that
  is not the number's; the sign is computed from the number before the negation
  when compiled with optimisation. `NumberFits` excepts this one case, which
  `negatedMin` remembers;
* a number printed by the debugger overwrites the pad of one that is about to be
  printed, so that the wrong one is shown once (`spoiled`); the number itself is
  not affected;
* a label's section is looked up by the address that was typed (`menu.c:586`), so
  that a session may be opened on the section for a label outside of it, clamped,
  and on none for a label inside of it;
* Rewind leaves the section's size; CTRL('c') while the debugger steps on its own
  is swallowed (`debug.c:85`).

## What is proved

Checked by TLAPS for every value of the constants that satisfies the named
assumptions. Each module has one inductive invariant or a chain of them.

**`UsartProofs`**, from `UsartBufferAssumption` (a positive size that fits
`len`), `UsartBytesAssumption`, `UsartDebuggingAssumption`:

* `UsartTypeOK`. `TypeOK` alone is not inductive: `criticalCount` stays in
  {0, 1} only because the critical section is entered once and no exception
  runs inside it, which `CriticalInv` adds.
* `UsartQueueSound`: `QueueSoundUnlessInterrupted`. `QueueConsistent` is not
  inductive, for what the thread tested must still hold when it acts on it.
  `SoundBody` adds that a queue found non-empty stays so until its byte is taken
  and that the register `len--` works on is `len`; both hold until the debugger
  empties the queue, which is what `interrupted` records. The arithmetic of the
  indices is in the lemmas on `%`.
* `UsartMenuOwnsReceiver`, `UsartReceiverArmed`, `UsartZeroOnlyWhenInterrupted`:
  `SwitchingInv` says what polling, RXNEIE and the pending interrupt are at each
  step of the debugger.
* `UsartQueueConsistent`: without the debugger nothing is excepted.
* `UsartIsStream`: without the debugger the driver's steps are `ByteStream`'s
  (`StreamSafety`, its specification less fairness). A step that puts appends to
  `Queue` or drops the byte, one that gets takes its head, the others leave
  it: the lemmas `PutAccepts` and `ReadHandsOut`, and those before them, relate the
  ring and its indices to the sequence.

**`TransferProofs`**, from `TransferAssumption`, three invariants, each resting on
the one before:

* `Counted`: what is still needed and what is stored add up to the announced
  length. `TransferTypeOK` and `TransferWithinLength` follow, for hosts that fail
  as well.
* `TransferLockstep`: with a reliable host one byte or ACK is under way.
* `Matched`: that byte is the next of the payload, and what is stored is as much
  of it as was sent. The target may also be between two files, which is what
  `Between` and `Waiting` tell apart. `TransferComplete`: when the last ACK is
  sent memory is the file; so the two bytes of the length, modulo `Base`, are
  the file's length if it fits.

**`MemoryProofs`**, from `MemoryAssumption`. One invariant,
`Inv == TypeOK /\ CreationInv /\ GapInv /\ Tiled /\ NamesInv /\ HeldInv`, is
inductive: `CreationInv` says which entry is half made and of what kind,
`GapInv` that the room left for it is what its creation will claim (`Tiled`
excepts the entry until then), `NamesInv` that the name about to be written is
still unused, `HeldInv` that what is held is in the list. From it:

* `MemoryTypeOK`, `MemoryTiled` (no two entries overlap, at every step of every
  creation), `MemoryUniqueNames`, `MemoryHeldAlone`.
* `MemoryCodeLabelsCallable` and `MemoryLabelsFoundByAddress`, what DebugMonitor
  finds in the middle of a creation. The first needs `CodeInv`: only the last entry
  can be code without its bit, and only until `SetInterwork`. The lookups are the
  least index of a set (`FirstIs`), which is why an earlier entry can only shadow a
  later one if it names the same address.

**`EditingProofs`**, first of the assembler alone, from `UserMemoryAssumption`:
`CursorStaysInSession`, `SessionStaysCovered`. Every command ends with `Settle`, which keeps both if it is
given a cursor not before the start; that `Previous` only finds such places does
not need the walk. The walk itself is a recursive function over addresses, and
nothing is known of one until it is shown to exist: `SmallestWalk` gives it as the
smallest set that has the start and what follows each of its members. Then

* `WalkSteps`: an instruction on the walk ends at or before the next place on it;
  hence `PreviousIsOne`, one instruction at most ends at the cursor.
* `WalkSame`: the walk up to a place depends on the instructions before it only.

Then with Enter in between, with `EnterAssumption`. `EditInv` adds to the session's
invariant that the session is in memory and in its section, and of Enter
`Typing`: the entry's address is the row's and the column's, and as long as no
digit was typed the entry is what memory has. From it:

* `EditingTypeCorrect`, `SessionKeptByEnter`, `EnterRowIsOneInstruction`, and
  `EnterOnlyTypedChanges`, whose point is that what is stored without a digit was
  loaded from there.
* `SessionOnInstructions`: `OnInstructions`, for every memory and every length of
  it. By `WalkSame` an instruction assembled over one of its own width leaves the
  walk as it was up to the cursor, and its second halfword, whatever it looks like,
  is not on it; by `WalkSteps` no command passes the end. A session that is not
  `disturbed` therefore always finds the instruction before its cursor.
* `EnterLineShowsMemory`: `LineShowsMemory`. Place `i` of the line is character
  `1 + (i - 1) % P` of column `(i - 1) \div P`, where `P` is what an entry prints;
  `LineInv` says so with the columns as a function, `EraseShows` and `PutShows`
  that erasing and printing an entry keep it. What is printed is as much as is
  erased only if a group has at least the digits of a halfword, so that one is
  printed without a `_`; both are 4 in the code, and `EnterAssumption` says
  `GroupDigits >= DigitsPerHalfword`.

**`ThumbEncodingProofs`** has what the encodings make of their parts and find in a
word, for all values. What a field adds to a halfword is a sum over its pieces, and
what an encoding adds one over its fields; `SumsExist`, `SumAtMost` and `TakeOut` say
what such a sum is, in whatever order it is made. From that come the range of each
encoding's first halfword (`NarrowEncodings`, `FirstHalfwords`, 44 cases) and, of
the encodings whose words are close to one another, the halfwords bit by bit
(`...Stored2`, `...Matched1`). Two kinds of words are not printed to their end:
those of `ldr_i_t4` without index and writeback (`NeitherBit`) and those of a wide
branch on condition 15 (`NoCond`). `Quiet` says of an encoding and its parts that
they make neither; it is shown for 13 of the 17 wide encodings with any parts and
for three with the parts they are given. The last is UDF, whose wide words all look like
a branch without a condition; it is matched before.

**`ThumbProofs`**, from `ThumbAssumption` (numbers are numbers, a condition is one
of 16):

* `ThumbWidthAsAsked`: `WidthAsAsked` whatever is typed. An instruction is wide by
  its first halfword if that is 16_E800 or more (`IsWideBorder`). The rest is that
  `thumb_assemble` only tries encodings of the width that was asked for, and gives
  their parts numbers (`AttemptsGood`), command by command; the invariant `WInv` is
  that memory holds what was made of what was asked for.
* `ThumbPrintableUnlessFar`: `PrintableUnlessFar`. What the assertion of
  `thumb_asm.c:221` (`NotReached`) says fails only for a literal that is far. The
  disassembler stops at the first encoding that matches (`FirstMatch`), so a
  word is printed unless that is `ldr_i_t4` or a branch with a bad field
  (`PrintedWide`, `PrintedNarrow`: a narrow branch on 15 is SVC, which comes
  first). An attempt that is made for a literal that is not far, and accepted,
  never gives such a word (`Listable` in `AttemptsGood`): it is the offset's bit 11,
  with `add` not set, that makes a far one. `ListedInv` adds to `WInv` that what is
  listed is of what is in memory.

**`MonitorProofs`**, with `DebuggerAssumption`. `MonitorInv` adds to the
properties: `ExcInv`, a fault is handled in the newest exception, which is at its
beginning; `PromptInv`, the debugger with its menu open is the oldest exception
and not at its beginning, so that a fault in it is never returned from; `StepInv`,
what MON_STEP, `last_pc` and the user's last answer have to do with one another;
`TypingInv`, where the thread is while a number is typed. From it:

* `AutoSteppingIsArmed`, `BreakIsOnlyInCalls`, `NoPromptUnlessStepped`,
  `FaultsEndInThreadMode`, `MonitorTypeCorrect`.
* `MonitorTypesNumbers`, a refinement: to the number being typed the monitor and
  its debugger are an instance of `Numbers`. `MonitorNumberFits` and
  `MonitorShownIsNumber` are then `NumberNeverOverflows` and `ShownIsTheNumber`.

The module begins with the theorems of `Numbers` alone, from `NumbersAssumption` (INT_MAX at least 15).
`NumberNeverOverflows`: the test for room divides first, and the proof is the
arithmetic of C's division: if `(INT_MAX - d) / base >= n` then `n * base + d` is
an int, and the same below zero. That the sign is the number's own is what picks
the right one of the two. `ShownIsTheNumber`: `utoa_pad` and `strtou` are recursive
functions over the numbers and over the digits; `RecursiveFunction` shows once that
such functions exist, `DigitsValue` then that digits are read back as the number
they were made of, by the least number for which they are not. `ShownInv` says
that the pad is the number's between conversion and printing, and the line after.

**`Induction`** has induction over the naturals with a set in the place of a
predicate (`Least`, `SetInduction`), from the library's well-founded relations:
the theorems of the library that take an operator cannot be used by the provers
installed. The properties of walks, digits and lookups are sets of numbers there.

**Only model-checked**: whatever is liveness (`GetByteReturns`,
`TransferFinishes`, `StepCallIsShown`, `FaultIsUnwound`, the fairness in
`ImplementsStream`), for it and ENABLED are out of the prover's reach; and the
other three invariants of `ThumbAsm` (`TypeOK`, `ListedAsAsked`, `RetypedIsSame`).
Those are about what is decoded from a word, by whichever of the encodings matches it,
field by field; TLC computes exactly that.
No module here declares a RECURSIVE operator; walks and decoders are sets,
recursive functions and folds.

## What is not modelled

* Transmission and `usart_putbyte`: it polls and keeps no state;
  output of the thread and of the debugger's menu may mix. The baud rate
  divider: one assignment at start-up.
* The receiver's overrun flag ORE: whether it is set without RXNE depends on the
  peripheral, not on this code.
* What the core does after unwinding went wrong: it depends on what the stack
  holds.
* Bytes in the Enter command, which differ from halfwords in their width only;
  the grouping of digits with `_` in numbers (in Enter it is modelled); line
  input (`io_gettill`), `io_printf` and the mem functions; the wording of menus
  and listings.
* The addresses of labels in instructions (`monitor_assemble.c:348`): no module has
  labels and instructions together.
* Board start-up (register writes before anything runs concurrently) except the
  vector table, the timer (its callers are compiled out, `monitor.c:89-96`), SCB
  printing, terminal sequences except erasing, the runtime's 64-bit division,
  assertions (they print and halt), demos, scripts, unit tests.
* Hardware (halting) debug: takes priority over DebugMonitor; not attached here.

## Plan

1. Done here, in this order: `Usart` with `ByteStream`, `Transfer`, `Memory`,
   `Debugger`, `AssembleSession`, `ThumbEncoding` with `ThumbAsm`; then
   `Exceptions` under `Debugger`, `Numbers` and their composition `Monitor`;
   `Enter` and its composition with the assembler, `Editing`; the theorems above.
2. Labels and the assembler together: the address a label operand is loaded from
   (`monitor_assemble.c:348`), with `Memory` and `ThumbAsm` composed.
3. Line input (`io.c`, `string.c`) against a reference definition over bounded
   inputs; the names of labels are typed through it.
4. `ThumbAsm`: that `Decode` gives back what `Encode` stored, for a field's pieces
   that do not overlap, as a lemma; with it type correctness as a theorem.
