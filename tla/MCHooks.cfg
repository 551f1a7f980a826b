SPECIFICATION HookFairSpec
CONSTANTS
  hookMaxRetries = 3
  HookFaults <- CallsStaleLost
  MaxUpsets = 4
INVARIANTS PassedLeavesNothing
PROPERTIES ImplementsHookGate HookEnds
CHECK_DEADLOCK FALSE
