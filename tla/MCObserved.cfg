SPECIFICATION Spec
CONSTANTS
  r1 = r1
  r2 = r2
  Receivers = {r1, r2}
  Threads = {t}
  Nobody = Nobody
  Body <- MCBody
  Accept <- MCAccept
  Scenes <- MCScenes
  MaxCalls = 2
INVARIANTS
  EachInOnePlace
PROPERTIES
  OldestMatch
  OnlyEmbraceSticks
  MatchIsServed
CHECK_DEADLOCK FALSE
