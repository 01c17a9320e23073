\* Two configured nodes and a table of one: the limit is passed before it is met.
SPECIFICATION Spec
CONSTANTS
  u1 = u1
  u2 = u2
  User <- OneUser
  Name = {n1, n2, n3}
  Configured = {n1, n2}
  MaxNodes = 1
  Worker = {w1}
  Activity <- MCIdle
  VNCSkew = 1
  FreshSkew = 2
  SeatSkew = 2
  DownSkew = 3
  DebugSkew = 4
  Epoch = 4
  MaxTime = 4
  ClockAhead = 0
PROPERTIES
  LimitHolds
