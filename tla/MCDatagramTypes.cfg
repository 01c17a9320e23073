\* A local session beside a remote one.
SPECIFICATION Spec
CONSTANTS
  u1 = u1
  u2 = u2
  tty2 = tty2
  tty3 = tty3
  c1 = c1
  c2 = c2
  c3 = c3
  c4 = c4
  Session <- MCThreeSessions
  User <- MCUser
  NoUser = NoUser
  VT <- MCVT
  AnyVT = AnyVT
  Kind <- MCTwoKinds
  MaxTTYs = 2
  Weight <- MCWeight
  Wrap = 16
INVARIANTS
  LocalTypesGiven
