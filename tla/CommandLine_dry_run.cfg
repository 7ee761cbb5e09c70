SPECIFICATION CallsSpec
CONSTANTS
  CliProcess = {p1, p2}
  MaxSessions = 2
INVARIANTS
  DryRunHarmless
CHECK_DEADLOCK FALSE
