CONSTANTS
  a1 = a1
  a2 = a2
  a3 = a3
  a4 = a4
  h1 = h1
  NoAddr = NoAddr
  Addr = {a1, a2, a3, a4}
  Actors = {h1}
  Rotators = {}
  s1 = s1
  Syncers = {s1}
  Cap = 1
  HandWants = {a1, a2}
  RotationWants = {}
  Conf = {}
  Foreign = {a3, a4}
  Reachable = {a1}
  Removable = {a1}
  Starrable = {}
  Parkable = {}
  Flaky = TRUE
  CanAbort = TRUE
SPECIFICATION CalmSpec
PROPERTY Settles
INVARIANT PassBound
