SPECIFICATION Spec
CONSTANTS
  Conns = {1, 2}
  NoEnding = NoEnding
  Nobody = Nobody
  Abnormal = 1
  HostSilence = 1
  MaxHeard = 1
  Arbitration = 1
  Concurrency = 2
  Sizes = {1, 2}
  Channels = {"x", "y"}
  Groups = {"g1", "g2"}
INVARIANTS
  DevicesAccounted
PROPERTIES
  ImplementsConnection
  SilenceKept
  CloseAnswers
CHECK_DEADLOCK FALSE
