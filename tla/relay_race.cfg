SPECIFICATION Spec
CONSTANTS
  Peer = {q1, q2}
  MaxBlock = 2
  MaxTime = 1
  FirstWindow = 0
  Ahead = 0
  MaxCalls = 2
  Tail = 1
  Repeats = TRUE
  Flaky = TRUE
  Resets = TRUE
SYMMETRY PeerSymmetry
INVARIANTS TypeOK RollupAgrees OneCredit
PROPERTIES RaceStands
