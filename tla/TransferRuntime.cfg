SPECIFICATION Spec
CONSTANTS
  Length = 3
  Chunk = 2
  Window = 2
  MaxObservations = 3
  MaxResumes = 1
  MaxFaults = 2
  MaxChanges = 1
  None = None
INVARIANTS
  CheckpointTruthful
  FinalizedOnce
  SinkExact
PROPERTIES
  OutcomeHonest
  EveryStepCounts
CHECK_DEADLOCK FALSE
