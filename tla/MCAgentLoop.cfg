\* Every kind of request, then one trial of the probe, one benchmark or one cache cycle.  It stops when they are done.
CONSTANTS
  Hash <- MCHash
  Names <- MCNames
  Fleets <- MCFleets
  Earlier <- MCEarlier
  Questions <- MCQuestions
  Options <- MCOptions
  MaxEarlier = 2
  MinRuns = 2
  MCAlike = FALSE
SPECIFICATION Spec
INVARIANTS RightEntry RefusalsExplained TrailValid AuditTells ReplayAgrees RebuildsAgree GateHonest
CHECK_DEADLOCK FALSE
