\* All inputs of up to twelve symbols and one that fills the table, into buffers
\* that are too small, just large enough and larger; all streams of up to five bytes and a
\* long one.
SPECIFICATION LzwSpec
CONSTANTS
  SymBits = 1
  ByteBits = 2
  MaxBits = 4
  BufBits = 7
  MaxIn = 12
  MaxDamaged = 5
  Inputs <- MCInputs
  Sizes = {1, 4, 7, 30}
  AgainInputs <- MCAgain
  Damaged <- MCDamaged
INVARIANTS LzwTypeOK CleanBetweenCalls StaysInBuffers InStep RoundTrip
CHECK_DEADLOCK FALSE
