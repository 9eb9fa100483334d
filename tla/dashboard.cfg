SPECIFICATION Spec
CONSTANTS
  Tab = {t1}
  Slots = 1
  CatchUp = 1
  MaxRace = 3
  MaxOpens = 2
  MaxLosses = 2
  MaxFrames = 2
  GoneTime = 1
  MaxTime = 2
  MaxVersion = 3
  MaxAsks = 3
  MaxTurns = 2
  Flaky = TRUE
  MaxClicks = 2
  MaxReads = 4
  Lossy = TRUE
  Calls = {c1, c2}
  Timed = {c1}
  Sockets = 1
  MaxBytes = 2
  Short = 2
  Letters = {"c", "q", "t"}
  Needle <- Quoted
  Texts <- ReplyTexts
INVARIANTS WaveOnce NeverIdle BoxTrue CountExact
PROPERTIES DrawnNeverOlder StaysGone NewestShown RpcSettles
CHECK_DEADLOCK FALSE
