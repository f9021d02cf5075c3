SPECIFICATION LabSpec
CONSTANTS
  None = None
  Undecided = Undecided
  p0 = p0
  p1 = p1
  t1 = t1
  Partitions = {p0, p1}
  SampleCount = 2
  SourceAge = 1
  ActivationCount = 2
  LagFloor = 10
  SlopeFloor = 2
  RecoveryCount = 2
  MinInterval = 2
  MaxInterval = 4
  LagMaximum = 3
  ProduceMinimum = 7
  ProduceMaximum = 7
  Evidence <- MCEvidence
  Profile <- MCProfile
  Reports <- MCReports
  Disturbed = {"partial"}
  Cadence = 3
  Planned = 6
  Overtime = 1
  MaxPolls = 2
  MaxFaults = 1
  Tools = {t1}
  ForbiddenNames = {"kubectl"}
  OtherNames = {"other"}
  Initial = {"activation"}
  Answers <- MCAnswers
  MaxSteps = 2
  MaxToolCalls = 2
  MaxRetries = 1
  MaxOutputRepairs = 1
  Outcomes <- MCOutcomes
  Modes = {"preflight", "calibrate"}
  Repeats = 2
INVARIANTS
  DiagnosisIsGrounded
  PromotedIsReplayable
  CalibrationIsConsistent
PROPERTIES
  ScriptsEnd
CHECK_DEADLOCK FALSE
