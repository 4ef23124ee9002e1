SPECIFICATION MonitorSpec
CONSTANTS
  NULL = NULL
  Programs <- MCPrograms
  MaxInt = 31
  MaxChar = 2
INVARIANTS
  MonitorTypeOK
  AutoStepArmed
  BreakOnlyInCall
  PromptInMenuOnlyIfStepped
  FaultExitInThreadMode
  NumberFits
  ShownIsNumber
PROPERTIES
  StepCallIsShown
  FaultIsUnwound
