\* One worker; two nodes compete for the only place while time passes.
SPECIFICATION Spec
CONSTANTS
  u1 = u1
  n2 = n2
  n3 = n3
  User <- MCUser
  Name = {n2, n3}
  Configured = {}
  MaxNodes = 1
  Worker = {w1}
  Report <- MCReport
  Asked = {n2, n3}
  Activity <- MCIdle
  VNCSkew = 1
  FreshSkew = 2
  SeatSkew = 2
  DownSkew = 3
  DebugSkew = 4
  Epoch = 4
  MaxTime = 6
  ClockAhead = 0
SYMMETRY Newcomers
INVARIANTS
  TypeOK
  LockDiscipline
PROPERTIES
  ImplementsTable
