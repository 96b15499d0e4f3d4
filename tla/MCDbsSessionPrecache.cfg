\* The precache block arrives, none of its acknowledgements does in time.
SPECIFICATION Spec
CONSTANTS
  BlockSize <- MCBlockSize
  Script <- MCScript
  MaxBlockSize = 4
  MaxRetry = 2
  MaxOrders = 2
INVARIANT SendedIsReceived
CHECK_DEADLOCK FALSE
