\* One cache cycle on two workers that run the same.
CONSTANTS
  Hash <- MCHash
  Names <- MCNames
  Fleets <- MCFleets
  Earlier <- MCEarlier
  Questions <- MCQuestions
  Options <- MCOptions
  MaxEarlier = 0
  MinRuns = 2
  MCAlike = TRUE
SPECIFICATION Spec
INVARIANT CyclePasses
CHECK_DEADLOCK FALSE
