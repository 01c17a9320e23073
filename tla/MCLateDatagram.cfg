\* Datagrams that overtake a shutdown notice.
SPECIFICATION HSpec
CONSTANTS
  u1 = u1
  u2 = u2
  User <- OneUser
  Name = {n1}
  Configured = {}
  MaxNodes = 1
  Worker = {w1}
  Activity <- MCSessions
  VNCSkew = 1
  FreshSkew = 2
  SeatSkew = 2
  DownSkew = 3
  DebugSkew = 4
  Epoch = 4
  MaxTime = 8
  ClockAhead = 1
PROPERTIES
  NoticeKept
