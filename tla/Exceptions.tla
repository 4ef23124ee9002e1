----------------------------- MODULE Exceptions -----------------------------
(***************************************************************************)
(* The core's exceptions, and how hardfault_handler of startup.s gets out  *)
(* of them: it returns into fault_exit, or, where a handler was            *)
(* interrupted, into fault_exit_unwind_exceptions, which runs with the     *)
(* handler's LR and SP and returns from it in turn.                        *)
(*                                                                         *)
(* That works at the beginning of the handler, where LR is EXC_RETURN and  *)
(* SP is at its frame.  Further on LR is the return address of some call   *)
(* and the words above SP belong to it: the handler goes on, its stack     *)
(* overwritten.  What comes of that is not modelled, and neither is what   *)
(* the core does after an invalid return: both are "lost".                 *)
(***************************************************************************)
EXTENDS Naturals, Sequences

VARIABLES
    active,     \* the active exceptions, the newest last
    ipsr,       \* IPSR, the exception that is being handled
    faultAt     \* "none", or where the handling of a HardFault is: "handler",
                \* "unwind", "fault_exit" or "lost"

excVars == <<active, ipsr, faultAt>>

HardFaultNumber    == 3
SVCallNumber       == 11
DebugMonitorNumber == 12
USART2Number       == 54    \* IRQ 38

\* An exception has the IPSR in its frame, and whether its handler is still at
\* its beginning.
ActiveException == [exc : Nat, ipsr : Nat, atFrame : BOOLEAN]

ExcInit == active = <<>> /\ ipsr = 0 /\ faultAt = "none"

ThreadMode == active = <<>>
Newest     == active[Len(active)]

-----------------------------------------------------------------------------
\* The core takes an exception.  All have the priority they have from reset, so
\* that only a HardFault preempts a handler.
Take(n, atFrame) ==
    /\ active' = Append(active, [exc |-> n, ipsr |-> ipsr, atFrame |-> atFrame])
    /\ ipsr' = n

\* The core returns from the newest exception, if it is the one in IPSR.
Return(stackedIpsr, to) ==
    \/ /\ ipsr = Newest.exc
       /\ active' = SubSeq(active, 1, Len(active) - 1)
       /\ ipsr' = stackedIpsr
       /\ faultAt' = to
    \/ /\ ipsr # Newest.exc
       /\ faultAt' = "lost"
       /\ UNCHANGED <<active, ipsr>>

HardFault ==
    /\ faultAt = "none"
    /\ Take(HardFaultNumber, TRUE)
    /\ faultAt' = "handler"

\* Mutant: a bit less.
IPSRMask_short(x) == x % 8

\* xPSR_IPSR_BIT_MASK, which leaves five of IPSR's nine bits.
IPSRMask(x) == x % 32

\* Mutant: a handler that was interrupted is forgotten.
ExitTo_forgetting == "fault_exit"

\* Where exit_fault has the exception return to, by EXC_RETURN.
ExitTo == IF Len(active) > 1 THEN "unwind" ELSE "fault_exit"

ExitFault == Return(IPSRMask(Newest.ipsr), ExitTo)

HardFaultHandler == faultAt = "handler" /\ ExitFault

\* fault_exit_unwind_exceptions, in the handler that was interrupted.
UnwindException ==
    /\ faultAt = "unwind"
    /\ \/ Newest.atFrame /\ ExitFault
       \/ ~Newest.atFrame /\ faultAt' = "lost" /\ UNCHANGED <<active, ipsr>>

-----------------------------------------------------------------------------
ExcTypeOK ==
    /\ active \in Seq(ActiveException) /\ ipsr \in Nat
    /\ faultAt \in {"none", "handler", "unwind", "fault_exit", "lost"}

\* The monitor is only gone back to in thread mode: every exception that was
\* active has been returned from (startup.s:168-177).
FaultExitInThreadMode == faultAt = "fault_exit" => ThreadMode

=============================================================================
