------------------------------- MODULE Monitor -------------------------------
(***************************************************************************)
(* Debugger and Numbers together: numbers are typed in the monitor's       *)
(* commands, which are stepped like anything else when DEMCR_MON_STEP is   *)
(* left set, and debug_monitor, when it opens, prints numbers itself.      *)
(***************************************************************************)
EXTENDS Debugger, Numbers

allVars == <<vars, numberVars>>

MonitorInit == Init /\ NumbersInit

NotTyping == at = "closed" /\ UNCHANGED numberVars

-----------------------------------------------------------------------------
\* A command asks for a number, and the thread goes on with that.
TypeNumber ==
    /\ \/ pc = Menu /\ Keys /\ Open
       \/ Convert \/ Show \/ Key
       \/ Submit
    /\ Execute(IF at' = "closed" THEN Loop ELSE <<at', 0>>)
    /\ UNCHANGED <<prog, thumb, userBreak, monStep, dbg, stat, zeroed, stepped>>

\* debug_monitor prints the registers.
PromptPrints == Prompt /\ Debug(MaxInt)

\* The thread leaves a command half way.
Leaves ==
    /\ AnswerExit \/ FaultExit \/ ResetButton
    /\ Close

Silent ==
    /\ \/ Fault \/ HandleFault \/ StepOn \/ CtrlC
       \/ AnswerStep \/ AnswerContinue \/ AnswerSkip \/ DebugMonitorFault
    /\ UNCHANGED numberVars

MonitorNext ==
    \/ (ThreadNext \/ MenuNext \/ ZeroVectorTaken) /\ NotTyping
    \/ TypeNumber \/ PromptPrints \/ Leaves \/ Silent

MonitorSpec ==
    /\ MonitorInit /\ [][MonitorNext]_allVars
    /\ WF_allVars(ThreadNext /\ NotTyping)
    /\ WF_allVars((Fault \/ HandleFault) /\ UNCHANGED numberVars)
    /\ WF_allVars(FaultExit /\ Close)
    /\ WF_allVars(PromptPrints)
    /\ WF_allVars(StepOn /\ UNCHANGED numberVars)

-----------------------------------------------------------------------------
MonitorTypeOK == TypeOK /\ NumbersTypeOK

=============================================================================
