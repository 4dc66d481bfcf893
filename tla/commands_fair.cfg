CONSTANTS
  m1 = m1  m2 = m2  a1 = a1  a2 = a2  o1 = o1  o2 = o2
  NoMachine = NoMachine
  Machines = {m1, m2}
  Agents = {a1, a2}
  MachineOf <- OwnToken
  Operators = {o1}
  Retention = 1
  MaxCommands = 2
  MaxClock = 1
  MaxLate = 1
SPECIFICATION MayFailSpec
CHECK_DEADLOCK FALSE
INVARIANT ExecutingIsRunning
PROPERTIES EventuallyClaimed AgentReturns CalmCompletes CalmInTimeline
