\* Statements the code does not keep (README, section 6), one at a time.
SPECIFICATION HostSpec
CONSTANTS
  Calls = {r1, r2}
  Quitters = {r1}
  RowsCap = 1
  OutboxCap = 1
  OutputCap = 1
  MaxSay = 2
  Nobody = Nobody
CHECK_DEADLOCK FALSE
PROPERTY AbandonedLineIsDropped
\* INVARIANT NoSendOnClosed
