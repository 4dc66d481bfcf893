CONSTANTS
  m1 = m1  m2 = m2  a1 = a1  a2 = a2  o1 = o1  o2 = o2
  NoMachine = NoMachine
  Machines = {m1}
  Agents = {a1}
  MachineOf <- Single
  Operators = {o1}
  Retention = 1
  MaxCommands = 2
  MaxClock = 3
  MaxLate = 0
SPECIFICATION Spec
CHECK_DEADLOCK FALSE
INVARIANTS OldestFirst EventTruth
PROPERTIES FinalIsFinal RetentionSafe
