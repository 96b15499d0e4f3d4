SPECIFICATION Spec
CONSTANTS
  StringMax = 80
  Reconnect = 201
  CmdConfigstrings = 202
  CmdBaselines = 203
  Record = 204
  Precache = 205
  PrecacheAlone = 206
  Restarted = 207
  Rest = 210
  DM2_MAX_ITEMS = 3
  MINBUF = 40
  MAXBUF = 44
  TicRate = 35
  Conversions <- MCConversions
  Repairable <- MCRepairable
INVARIANTS LmpcTypeOK StillARecording RepairedAsConverted TouchesNothingElse HeaderAsAsked TicsAsAsked
