SPECIFICATION Spec
CONSTANTS
  StringMax = 4
  StringChars = 5
  BigChars = 8
  Reconnect = 1
  CmdConfigstrings = 2
  CmdBaselines = 3
  Record = 4
  Precache = 5
  PrecacheAlone = 6
  DM2_MAX_ITEMS = 3
  Recordings <- MCRecordings
  Strays <- MCStrays
INVARIANTS ConvertTypeOK ReadsWhatItWrote CopyOfTheCopy EditsPublicOnes ReadsItsOwn
PROPERTY NeverLonger
