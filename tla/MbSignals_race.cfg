\* The cable changes at any step of the main context.
CONSTANTS
  Modes = {"10M", "100M"}
  MaxChanges = 2
  MaxErrors = 0
  Digits = 2
  Times = {42}
  MaxMeasures = 0
SPECIFICATION Spec
INVARIANT LinkKept
CHECK_DEADLOCK FALSE
