SPECIFICATION Spec
CONSTANTS
  Stoppers = {"disconnect"}
  MaxAttempts = 2
INVARIANTS
  StopTearsDown
