CONSTANTS
  Procs = {p1, p2}
  Absent = Absent
  Forged = Forged
  Unreadable = Unreadable
  Commands = {"append", "verify"}
  Faults = {"crash", "jam", "restore", "lose", "forge", "unreadable"}
  Starts = {"sealed", "pristine"}
  MaxEntries = 3
  MaxFaults = 2
SPECIFICATION Spec
SYMMETRY Symmetry
INVARIANTS AnchorInv GateMeansAnchored HealthyAppendNeverRefused QuietIsAnchored
PROPERTIES FileOnlyAdvances RestoreIsCaught
CHECK_DEADLOCK FALSE
