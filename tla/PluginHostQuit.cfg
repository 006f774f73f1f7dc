SPECIFICATION HostSpec
CONSTANTS
  Calls = {r1, r2}
  Quitters = {r1}
  RowsCap = 1
  OutboxCap = 1
  OutputCap = 1
  MaxSay = 2
  Nobody = Nobody
CHECK_DEADLOCK FALSE
INVARIANT
  InOrder
PROPERTIES
  AnswersInTurn
  Delivered
  EveryoneIsTold
