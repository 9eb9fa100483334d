SPECIFICATION StudySpec
CONSTANTS
  Process = {"dashboard", "peers", "relay", "race"}
  Releases = {10000, 11600}
  Tries = 2
  MaxBusy = 2
  MaxKills = 2
  MaxCount = 1
INVARIANTS ReadyOnWhole SwitchKept
PROPERTIES MeasuredKept PoolsStayRemoved FirstKept NoneTurnedAway AllReady
CHECK_DEADLOCK FALSE
