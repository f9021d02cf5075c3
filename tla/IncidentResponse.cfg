SPECIFICATION Spec
CONSTANTS
  None = None
  p0 = p0
  p1 = p1
  Partitions = {p0, p1}
  SampleCount = 2
  SourceAge = 1
  ActivationCount = 2
  LagFloor = 10
  SlopeFloor = 2
  RecoveryCount = 2
  MinInterval = 2
  MaxInterval = 4
  LagMaximum = 3
  ProduceMinimum = 7
  ProduceMaximum = 7
  Before <- MCBefore
  After <- MCAfter
  Disturbed <- MCDisturbed
  Evidence <- MCEvidence
  Pauses = {1, 3, 6}
  Usual = 3
  Diagnoses = {d1}
  MaxCaptures = 6
  MaxFaults = 1
  MaxAttached = 2
INVARIANTS
  RecordIsValid
  CurrentIsNewest
  RecoveredIffSustained
  ActivatedIffGrowing
PROPERTIES
  ClosedIsFinal
CHECK_DEADLOCK FALSE
