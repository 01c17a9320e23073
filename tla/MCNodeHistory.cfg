\* One node with its sessions, two workers, two users, the whole clock.
SPECIFICATION HSpec
CONSTANTS
  u1 = u1
  u2 = u2
  User <- MCUser
  Name = {n1}
  Configured = {}
  MaxNodes = 1
  Worker = {w1, w2}
  Activity <- MCSessions
  VNCSkew = 1
  FreshSkew = 2
  SeatSkew = 2
  DownSkew = 3
  DebugSkew = 4
  Epoch = 4
  MaxTime = 8
  ClockAhead = 1
SYMMETRY Symmetry
INVARIANTS
  WakeInv
  WakeShown
  UsableIsHeard
  OccupiedNotOffered
  PagesAgree
  ListingDisturbs
