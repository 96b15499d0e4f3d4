\* One input: the frame that is repeated is one of another place in it, or of none.
SPECIFICATION CutSpec
CONSTANTS
  long = long
  pair = pair
  short = short
  Files = {long}
  NoFile = NoFile
  Frames <- MCFrames
  Outputs = {o1}
  MaxOut = 3
  MaxLoop = 1
INVARIANT RepeatsLastFrame
CHECK_DEADLOCK FALSE
