CONSTANTS
  a1 = a1
  a2 = a2
  h1 = h1
  NoAddr = NoAddr
  Addr = {a1, a2}
  Actors = {h1}
  Rotators = {}
  s1 = s1
  Syncers = {s1}
  Cap = 2
  HandWants = {a1, a2}
  RotationWants = {}
  Conf = {}
  Foreign = {}
  Reachable = {}
  Removable = {a1, a2}
  Starrable = {}
  Parkable = {}
  Flaky = FALSE
  CanAbort = FALSE
SPECIFICATION SyncSpec
PROPERTY RemovedNotAdopted
