\* One session at the console.
CONSTANTS
  Nobody = Nobody
  MaxSent = 3
SPECIFICATION Spec
INVARIANT FilledIsSent
CHECK_DEADLOCK FALSE
