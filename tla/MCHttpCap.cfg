CONSTANTS
  Handlers = {c1, c2}
  MaxIds = 2
  MaxSessions = 1
SPECIFICATION HttpSpec
INVARIANTS SessionsAreCapped
CHECK_DEADLOCK FALSE
