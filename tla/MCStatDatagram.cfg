\* Up to four sessions, places for two local and two remote sessions.
SPECIFICATION Spec
CONSTANTS
  u1 = u1
  u2 = u2
  tty2 = tty2
  tty3 = tty3
  c1 = c1
  c2 = c2
  c3 = c3
  c4 = c4
  Session <- MCSession
  User <- MCUser
  NoUser = NoUser
  VT <- MCVT
  AnyVT = AnyVT
  Kind <- MCKind
  MaxTTYs = 2
  Weight <- MCWeight
  Wrap = 16
SYMMETRY Identifiers
INVARIANTS
  TypeOK
  LivingReported
  NobodyElseReported
  ActiveIsLocal
  
  Subgroups
  FilledIsValid
