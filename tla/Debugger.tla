------------------------------ MODULE Debugger ------------------------------
(***************************************************************************)
(* Calling a function from the monitor and debugging it:                   *)
(* monitor_call_function() (monitor_cmds/monitor_call.c), debug_monitor()  *)
(* and arm_begin_stepping_at() (arm/debug.c), the system calls of          *)
(* syscall.c, the ways back into monitor_main() of startup.s.              *)
(*                                                                         *)
(* The core is what couples them: with DEMCR_MON_STEP set, DebugMonitor is *)
(* taken after every instruction of thread mode, the monitor's own         *)
(* included.  The called function is one of a set of small programs; of    *)
(* the monitor's code, only the places that matter have an address.        *)
(* Faults and the exceptions they strike in are those of Exceptions.       *)
(* Hardware (halting) debug is not attached.                               *)
(***************************************************************************)
EXTENDS Exceptions

CONSTANTS
    Programs,   \* the functions there are to call: sequences of instructions
    NULL        \* the null pointer

Instructions ==
    {"nop", "again", "self", "bkpt", "svc0", "svc1", "fault", "ret"}

VARIABLES
    prog, thumb,    \* the function being called, and whether its address has the
                    \* interwork bit; or NoCall
    pc,             \* the thread's program counter
    userBreak,      \* enable_break of USART2
    monStep,        \* DEMCR_MON_STEP
    monPend,        \* DebugMonitor is pending
    dbg,            \* "none", or "prompt" while debug_monitor's menu is open
    startStep,      \* s_start_stepping_address
    lastPc,         \* last_pc of debug_monitor
    zeroed,         \* the exceptions whose entry in vector_table is zero
    stepped         \* history: the user's last answer to the debugger was 's'

core   == <<pc, monPend>>
stat   == <<startStep, lastPc>>
vars   == <<prog, thumb, core, userBreak, monStep, dbg, stat, zeroed, stepped, excVars>>

Fn(a)  == <<"fn", a>>
Entry  == Fn(1)
Main   == <<"main", 0>>     \* exit_to_monitor, fault_exit
Menu   == <<"menu", 0>>     \* monitor_main waiting for a command ...
Loop   == <<"loop", 0>>     \* ... and going on to the next
Typing == {<<"convert", 0>>, <<"print", 0>>, <<"key", 0>>}
                            \* in menu_number, for which see Monitor
Setup  == <<"setup", 0>>    \* monitor_call_function before the call
After  == <<"after", 0>>    \* monitor_call_function after the call

Locations == {Main, Menu, Loop, Setup, After} \cup Typing \cup ({"fn"} \X Nat)

ASSUME DebuggerAssumption ==
    /\ Programs \subseteq Seq(Instructions)
    /\ NULL \notin Locations

InFunction == pc[1] = "fn"
InMenu     == pc \in {Menu, Loop} \cup Typing
InCall     == pc[1] \in {"fn", "setup", "after"}

\* The instruction at an address; beyond the function there is none to execute.
At(a) == IF a \in 1 .. Len(prog) THEN prog[a] ELSE "fault"

NoCall(p, bit) == p = <<>> /\ bit = TRUE

Init ==
    /\ NoCall(prog, thumb)
    /\ pc = Main /\ monPend = FALSE
    /\ userBreak = FALSE /\ monStep = FALSE
    /\ dbg = "none" /\ startStep = NULL /\ lastPc = NULL
    /\ zeroed = {} /\ stepped = FALSE
    /\ ExcInit

-----------------------------------------------------------------------------
(***************************************************************************)
(* The thread executes from one address to the next.                       *)
(***************************************************************************)
Running == ThreadMode /\ faultAt = "none" /\ ~monPend

Execute(to) ==
    /\ Running
    /\ pc' = to
    /\ monPend' = monStep
    /\ UNCHANGED excVars

\* The user's keys are received.
Keys == USART2Number \notin zeroed

\* monitor_main as startup.s enters it, up to its menu.
MonitorMain ==
    /\ pc = Main
    /\ Execute(Menu)
    /\ userBreak' = FALSE
    /\ NoCall(prog', thumb')
    /\ UNCHANGED <<monStep, dbg, stat, zeroed, stepped>>

\* Any other command of the monitor.
OtherCommand ==
    /\ \/ pc = Menu /\ Keys /\ Execute(Loop)
       \/ pc = Loop /\ Execute(Menu)
    /\ UNCHANGED <<prog, thumb, userBreak, monStep, dbg, stat, zeroed, stepped>>

\* monitor_dev zeroes the vector of SVCall, the Enter command any word.
ZeroVector(n) ==
    /\ pc = Menu /\ Keys /\ Execute(Loop)
    /\ zeroed' = zeroed \cup {n}
    /\ UNCHANGED <<prog, thumb, userBreak, monStep, dbg, stat, stepped>>

\* Mutant: the address is compared with its interwork bit.
BeginSteppingAt_with_bit == <<"odd", 1>>

\* The address arm_begin_stepping_at stops at, given the function's.
BeginSteppingAt == Entry

\* monitor_call_function up to the call, for an address with or without the
\* interwork bit (the user may fix it, proceed without or quit).
Call(p, bit, step) ==
    /\ pc = Menu /\ Keys /\ Running
    /\ prog' = p /\ thumb' = bit
    /\ pc' = Setup
    /\ userBreak' = TRUE
    /\ IF step
       THEN startStep' = BeginSteppingAt /\ monStep' = TRUE
       ELSE UNCHANGED <<startStep, monStep>>
    /\ monPend' = monStep'
    /\ UNCHANGED <<dbg, lastPc, zeroed, stepped, excVars>>

\* The call itself.
EnterFunction ==
    /\ pc = Setup /\ thumb
    /\ Execute(Entry)
    /\ UNCHANGED <<prog, thumb, userBreak, monStep, dbg, stat, zeroed, stepped>>

\* The vector of an exception, if it is not zero.
Vector(n) == n \notin zeroed

\* An instruction of the function that is over when it has executed.
Instruction ==
    /\ InFunction
    /\ LET a == pc[2]
       IN  \/ At(a) = "nop"   /\ Execute(Fn(a + 1))
           \/ At(a) = "svc1"  /\ Vector(SVCallNumber) /\ Execute(Fn(a + 1))
           \/ At(a) = "again" /\ Execute(Entry)
           \/ At(a) = "self"  /\ Execute(pc)
           \/ At(a) = "ret"   /\ Execute(After)
    /\ UNCHANGED <<prog, thumb, userBreak, monStep, dbg, stat, zeroed, stepped>>

\* SVC 0: syscall_handler points the frame's PC at exit_to_monitor.
SyscallExit ==
    /\ InFunction /\ At(pc[2]) = "svc0" /\ Vector(SVCallNumber)
    /\ Execute(Main)
    /\ UNCHANGED <<prog, thumb, userBreak, monStep, dbg, stat, zeroed, stepped>>

\* An SVC, or a key, whose vector is zero: the core enters the handler and cannot
\* execute its first instruction.
ZeroVectorTaken ==
    /\ Running
    /\ \/ /\ InFunction /\ At(pc[2]) \in {"svc0", "svc1"}
          /\ ~Vector(SVCallNumber) /\ Take(SVCallNumber, TRUE)
       \/ ~Keys /\ Take(USART2Number, TRUE)
    /\ UNCHANGED <<prog, thumb, core, userBreak, monStep, dbg, stat, zeroed, stepped, faultAt>>

\* A HardFault: of the function, of the call without the interwork bit, of a zero
\* vector's handler, or of debug_monitor when it disassembles what is not there.
Fault ==
    /\ \/ Running /\ InFunction /\ At(pc[2]) = "fault"
       \/ Running /\ pc = Setup /\ ~thumb
       \/ ~ThreadMode /\ Newest.exc \in zeroed
    /\ HardFault
    /\ UNCHANGED <<prog, thumb, core, userBreak, monStep, dbg, stat, zeroed, stepped>>

DebugMonitorFault ==
    /\ dbg = "prompt" /\ HardFault
    /\ UNCHANGED <<prog, thumb, core, userBreak, monStep, dbg, stat, zeroed, stepped>>

HandleFault ==
    /\ HardFaultHandler \/ UnwindException
    /\ UNCHANGED <<prog, thumb, core, userBreak, monStep, dbg, stat, zeroed, stepped>>

\* The thread goes on at fault_exit.
FaultExit ==
    /\ faultAt = "fault_exit"
    /\ faultAt' = "none"
    /\ pc' = Main /\ monPend' = monStep
    /\ UNCHANGED <<prog, thumb, userBreak, monStep, dbg, stat, zeroed, stepped, active, ipsr>>

\* BKPT: DebugMonitor, with the PC still at it.
Bkpt ==
    /\ InFunction /\ At(pc[2]) = "bkpt"
    /\ Running
    /\ monPend' = TRUE
    /\ UNCHANGED <<prog, thumb, pc, userBreak, monStep, dbg, stat, zeroed, stepped, excVars>>

\* Mutant: the break is left enabled.
AfterCall_break_left_on ==
    /\ pc = After
    /\ Execute(Menu)
    /\ NoCall(prog', thumb')
    /\ UNCHANGED <<userBreak, monStep, dbg, stat, zeroed, stepped>>

\* monitor_call_function after the call.
AfterCall ==
    /\ pc = After
    /\ Execute(Menu)
    /\ userBreak' = FALSE
    /\ NoCall(prog', thumb')
    /\ UNCHANGED <<monStep, dbg, stat, zeroed, stepped>>

\* CTRL('c') on USART2: _usart_isr calls arm_pend_debug_monitor.
CtrlC ==
    /\ userBreak /\ Keys
    /\ Running
    /\ monPend' = TRUE
    /\ UNCHANGED <<prog, thumb, pc, userBreak, monStep, dbg, stat, zeroed, stepped, excVars>>

-----------------------------------------------------------------------------
(***************************************************************************)
(* debug_monitor                                                           *)
(***************************************************************************)
Taken == ThreadMode /\ faultAt = "none" /\ monPend /\ monPend' = FALSE

\* Stepping on its own ends at the start address, or where the PC stays put.
Stops == pc = startStep \/ pc = lastPc

\* Mutant: last_pc is kept for the next time.
Prompt_keeping_last ==
    /\ Taken /\ Take(DebugMonitorNumber, FALSE)
    /\ startStep = NULL \/ Stops
    /\ dbg' = "prompt"
    /\ startStep' = NULL
    /\ UNCHANGED <<prog, thumb, pc, userBreak, monStep, lastPc, zeroed, stepped, faultAt>>

\* The menu is opened.
Prompt ==
    /\ Taken /\ Take(DebugMonitorNumber, FALSE)
    /\ startStep = NULL \/ Stops
    /\ dbg' = "prompt"
    /\ startStep' = NULL /\ lastPc' = NULL
    /\ UNCHANGED <<prog, thumb, pc, userBreak, monStep, zeroed, stepped, faultAt>>

\* Not there yet: step on without a word.
StepOn ==
    /\ Taken
    /\ startStep # NULL /\ ~Stops
    /\ lastPc' = pc
    /\ UNCHANGED <<prog, thumb, pc, userBreak, monStep, dbg, startStep, zeroed, stepped, excVars>>

Leave(step, to) ==
    /\ dbg = "prompt" /\ faultAt = "none"
    /\ Return(Newest.ipsr, "none")
    /\ dbg' = "none"
    /\ monStep' = step
    /\ pc' = to
    /\ stepped' = step
    /\ UNCHANGED <<prog, thumb, monPend, userBreak, stat, zeroed>>

\* 's' is arm_enable_debug_stepping(true) and one instruction; if that is a BKPT,
\* DebugMonitor is back at the same PC.
AnswerStep     == Leave(TRUE, pc)

\* Mutant: stepping is left as it is.
AnswerContinue_stepping ==
    /\ dbg = "prompt" /\ faultAt = "none"
    /\ Return(Newest.ipsr, "none")
    /\ dbg' = "none"
    /\ stepped' = FALSE
    /\ UNCHANGED <<prog, thumb, pc, monPend, userBreak, monStep, stat, zeroed>>

AnswerContinue == Leave(FALSE, pc)
AnswerExit     == Leave(FALSE, Main)

\* 'z' increments the PC, the menu stays open.  The user is taken to skip the
\* function's instructions only, not the monitor's.
AnswerSkip ==
    /\ dbg = "prompt" /\ faultAt = "none"
    /\ InFunction /\ pc[2] <= Len(prog)
    /\ pc' = Fn(pc[2] + 1)
    /\ UNCHANGED <<prog, thumb, monPend, userBreak, monStep, dbg, stat, zeroed, stepped, excVars>>

Reset ==
    /\ pc' = Main /\ monPend' = FALSE
    /\ monStep' = FALSE /\ userBreak' = FALSE
    /\ dbg' = "none" /\ startStep' = NULL /\ lastPc' = NULL
    /\ zeroed' = {} /\ stepped' = FALSE
    /\ active' = <<>> /\ ipsr' = 0 /\ faultAt' = "none"
    /\ NoCall(prog', thumb')

\* CTRL('r') at the monitor's menu, and the board's button, if nothing else is left.
SysReset == pc = Menu /\ Keys /\ Running /\ Reset

ResetButton == faultAt = "lost" /\ Reset

-----------------------------------------------------------------------------
ThreadNext ==
    \/ MonitorMain \/ EnterFunction \/ Instruction \/ SyscallExit \/ Bkpt \/ AfterCall

FaultNext == Fault \/ HandleFault \/ FaultExit

DebugNext ==
    \/ Prompt \/ StepOn
    \/ AnswerStep \/ AnswerContinue \/ AnswerExit \/ AnswerSkip
    \/ DebugMonitorFault

\* The commands of the monitor's menu.
MenuNext ==
    \/ OtherCommand \/ SysReset
    \/ \E n \in {SVCallNumber, USART2Number} : ZeroVector(n)
    \/ \E p \in Programs, bit, step \in BOOLEAN : Call(p, bit, step)

Next ==
    \/ ThreadNext \/ FaultNext \/ DebugNext \/ MenuNext
    \/ CtrlC \/ ZeroVectorTaken \/ ResetButton

Spec == Init /\ [][Next]_vars

\* The core executes instructions and handles exceptions; the user may leave a
\* menu open for ever.
FairSpec ==
    /\ Spec
    /\ WF_vars(ThreadNext) /\ WF_vars(FaultNext) /\ WF_vars(Prompt \/ StepOn)

-----------------------------------------------------------------------------
TypeOK ==
    /\ prog \in Programs \cup {<<>>} /\ thumb \in BOOLEAN
    /\ pc \in Locations /\ monPend \in BOOLEAN
    /\ userBreak \in BOOLEAN /\ monStep \in BOOLEAN
    /\ dbg \in {"none", "prompt"}
    /\ startStep \in {Entry, NULL} /\ lastPc \in Locations \cup {NULL}
    /\ zeroed \subseteq {SVCallNumber, USART2Number} /\ stepped \in BOOLEAN
    /\ ExcTypeOK

\* While the debugger is to step on its own, the core does step, so that
\* debug_monitor gets to see the start address or to notice it is stuck; and no
\* last_pc is left over from an earlier time, that would be taken for being stuck
\* (debug.c:70-90, 161-167).
AutoStepArmed ==
    /\ startStep # NULL => monStep
    /\ startStep = NULL => lastPc = NULL

\* The user break is on exactly while a function is called, whatever way the call
\* ended: return, SVC 0, a fault or the debugger's exit (monitor.c:87,
\* monitor_call.c:25 and 38).
BreakOnlyInCall == pc # Main => (userBreak <=> InCall)

\* The debugger opens in the monitor's own menu loop only when the user's last
\* answer to it was to step: continuing and exiting (debug.c:120-130) end that.
PromptInMenuOnlyIfStepped == dbg = "prompt" /\ InMenu => stepped

\* Called with step, a function that is called at all is shown in the debugger,
\* at its first instruction or before (monitor_call.c:28-36).
StepCallIsShown ==
    (pc = Setup /\ dbg = "none" /\ startStep # NULL) ~> (dbg = "prompt" \/ pc = Main)

\* A HardFault ends in the monitor, out of any handler that was at its beginning
\* and has a number that IPSRMask keeps (startup.s:106-186).
FaultIsUnwound ==
    (/\ faultAt = "handler"
     /\ \A i \in 1 .. Len(active) : active[i].atFrame /\ active[i].exc < 32)
        ~> (faultAt = "none" /\ pc = Main)

=============================================================================
