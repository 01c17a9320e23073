\* Two nodes, answers of one or two hosts.  The process ends.
SPECIFICATION FairSpec
CONSTANTS
  Name = {n1, n2}
  Text <- MCText
  Number <- MCNumber
  Answers <- MCAnswers
  Garbage = {0, 7}
  Libraries <- MCLibraries
  MaxConnections = 2
INVARIANTS
  TypeOK
  NothingLeft
  OneConnection
  NoCallUnbound
PROPERTIES
  ImplementsPowerTable
  KeepsPolling
  Stops
CHECK_DEADLOCK FALSE
