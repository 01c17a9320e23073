\* Two nodes compete for a table of one, and two workers for its entry.
SPECIFICATION HSpec
CONSTANTS
  u1 = u1
  u2 = u2
  User <- OneUser
  Name = {n1, n2}
  Configured = {}
  MaxNodes = 1
  Worker = {w1, w2}
  Activity <- MCIdle
  VNCSkew = 1
  FreshSkew = 1
  SeatSkew = 1
  DownSkew = 2
  DebugSkew = 2
  Epoch = 3
  MaxTime = 5
  ClockAhead = 0
SYMMETRY Symmetry
INVARIANTS
  TypeOK
  TableBounded
PROPERTIES
  LimitHolds
  MarkKept
