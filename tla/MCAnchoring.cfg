CONSTANTS
  Procs = {p1, p2}
  Absent = Absent
  Forged = Forged
  Unreadable = Unreadable
  Commands = {"append", "verify", "reseal"}
  Faults = {"jam", "crash"}
  Starts = {"sealed"}
  MaxEntries = 3
  MaxFaults = 1
  Writers = {w1, w2}
  Contents = {a, b}
  NoContent = NoContent
  Untrusted = Untrusted
  Free = Free
  Stray = Stray
  Openers = {o1, o2}
  NoSeal = NoSeal
  Damaged = Damaged
  Mishaps = {"crash", "jam", "wipe", "damage"}
  MaxMishaps = 2
SPECIFICATION AnchoringSpec
INVARIANTS LagIsTold SwapTypeOK LockedSwap BootstrapInv NobodyMistakesABootstrap OpenMeansAnchored
PROPERTIES CommandsReturn Linearizable CallsReturn OpenReturns
CHECK_DEADLOCK FALSE
