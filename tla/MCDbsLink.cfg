\* Three retries: one for a loss, one for a stale datagram, one for the last turn.
SPECIFICATION LinkFairSpec
CONSTANTS
  BlockSize <- MCBlockSize
  MaxBlockSize = 2
  MaxRetry = 3
  MaxOrders = 3
INVARIANTS LinkTypeOK SentIsReceived
PROPERTIES ImplementsDelivery CallEnds
CHECK_DEADLOCK FALSE
