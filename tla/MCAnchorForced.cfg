CONSTANTS
  Procs = {p1, p2}
  Absent = Absent
  Forged = Forged
  Unreadable = Unreadable
  Commands = {"append", "reseal"}
  Faults = {}
  Starts = {"sealed"}
  MaxEntries = 4
  MaxFaults = 0
SPECIFICATION Spec
SYMMETRY Symmetry
INVARIANTS GateMeansAnchored
CHECK_DEADLOCK FALSE
