\* Two modes and two changes, up and down, a bus error and a measurement, each at any step.
\* Two digits: 0x80 has the sign bit.
CONSTANTS
  Modes = {"10M", "100M"}
  MaxChanges = 2
  MaxErrors = 1
  Digits = 2
  Times = {42, 80}
  MaxMeasures = 1
SPECIFICATION FairSpec
INVARIANTS
  ServicesInv
PROPERTIES
  LinkSettles
  TimeShown
  BusErrorServed
CHECK_DEADLOCK FALSE
