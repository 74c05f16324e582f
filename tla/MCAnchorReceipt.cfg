CONSTANTS
  Procs = {p1, p2}
  Absent = Absent
  Forged = Forged
  Unreadable = Unreadable
  Commands = {"append"}
  Faults = {}
  Starts = {"sealed"}
  MaxEntries = 6
  MaxFaults = 0
SPECIFICATION Spec
SYMMETRY Symmetry
PROPERTIES UnanchoredMeansBlocked
CHECK_DEADLOCK FALSE
