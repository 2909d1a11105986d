SPECIFICATION Spec
CONSTANTS
  Items = {w1}
  Owners = {o1}
  Workers = {k1}
  Pollers = {p1}
  Priorities = {1, 3}
  MaxStamp = 2
  MaxVersion = 4
  MaxFaults = 1
PROPERTY AcceptedIsApplied
CHECK_DEADLOCK FALSE
