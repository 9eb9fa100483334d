CONSTANTS
  a1 = a1
  a2 = a2
  a3 = a3
  a4 = a4
  h1 = h1
  r1 = r1
  NoAddr = NoAddr
  Addr = {a1, a2, a3, a4}
  Actors = {h1, r1}
  Rotators = {r1}
  Cap = 2
  HandWants = {a1, a2, a3, a4}
  RotationWants = {a1, a2, a3, a4}
  Conf = {}
  Foreign = {}
  Reachable = {}
  Removable = {}
  Starrable = {}
  Parkable = {}
  Flaky = FALSE
  CanAbort = FALSE
SPECIFICATION Spec
INVARIANT CapAtRest
