SPECIFICATION Spec
CONSTANTS
  Items = {w1}
  Owners = {o1}
  Workers = {k1}
  Pollers = {p1, p2}
  Priorities = {1, 3}
  MaxStamp = 1
  MaxVersion = 4
  MaxFaults = 1
INVARIANTS TypeOK HiddenP0IsAcknowledged
PROPERTIES HiddenWasSeen ClosedIsFinal SnoozeKept AcceptedIsProcessed

CHECK_DEADLOCK FALSE
