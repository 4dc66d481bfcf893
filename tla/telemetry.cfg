CONSTANTS
  q1 = q1  q2 = q2
  NoAnswer = NoAnswer
  Requests = {q1, q2}
  MaxReports = 2
  MaxStamp = 2
  UsedPercent <- TwoDisks
  FormValues = {150}
SPECIFICATION Spec
CHECK_DEADLOCK FALSE
INVARIANTS TypeOK PageWhole AlarmAtEnds
PROPERTIES LiveForward LiveCatchesUp
