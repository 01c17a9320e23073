\* Two addresses, as a host with IPv6 and IPv4 has.
SPECIFICATION Spec
CONSTANTS
  Addresses = 2
INVARIANTS
  TypeOK
  JoinedBeforeExit
  ErrorsReported
PROPERTIES
  StopsWhenListening
  ShutForGood
