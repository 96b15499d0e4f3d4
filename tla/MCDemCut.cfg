\* Two inputs, two outputs, single and double frames, ranges in both
\* directions; three blocks and then a range.
SPECIFICATION CutFairSpec
CONSTANTS
  long = long
  pair = pair
  short = short
  Files = {pair, short}
  NoFile = NoFile
  Frames <- MCFrames
  Outputs = {o1, o2}
  MaxOut = 3
  MaxLoop = 2
INVARIANTS CutTypeOK RangeIsWhatWasWritten RangeInFile RangeInOutput RepeatedIsLast CameraIsLast
PROPERTY RangeEnds
CHECK_DEADLOCK FALSE
