\* The signal comes while the UDP server opens its socket.
SPECIFICATION Spec
CONSTANTS
  Addresses = 2
PROPERTIES
  AlwaysStops
