CONSTANTS
  None = None
  a1 = a1
  far = far
  Addr = {a1, far}
  Far = {far}
  Kinds = {"inbound"}
  MaxId = 1
  MaxRuns = 1
  FeelerTime = 0
  NeverFirstTime = 1
  Flaky = TRUE
  MaxTime = 3
  MaxBytes = 3
  DayTime = 2
SPECIFICATION StudySpec
INVARIANTS SessionsApart NothingInvented
PROPERTIES OneConnection Spared Restored
