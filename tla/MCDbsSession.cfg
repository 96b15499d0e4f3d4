\* Three retries and one keep-alive besides the client's three packets of orders.
SPECIFICATION FairSpec
CONSTANTS
  BlockSize <- MCBlockSize
  Script <- MCScript
  MaxBlockSize = 2
  MaxRetry = 3
  MaxOrders = 4
INVARIANTS SessionTypeOK AckedIsTaken OneBlockPerOrder DemoInOrder
PROPERTY SessionEnds
CHECK_DEADLOCK FALSE
