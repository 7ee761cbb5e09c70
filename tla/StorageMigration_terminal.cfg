SPECIFICATION Spec
CONSTANTS
  t1 = t1
  t2 = t2
  f1 = f1
  f2 = f2
  f3 = f3
  w1 = w1
  w2 = w2
  Tasks = {t1}
  Files = {f1}
  Workers = {w1}
  Home = "local"
  Target <- Elsewhere
  Subtree <- AllFiles
  Faults = FALSE
PROPERTIES
  TerminalIsFinal
CHECK_DEADLOCK FALSE
