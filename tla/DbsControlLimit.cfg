\* One slot: the smallest table that a second CONNECT can overfill.
SPECIFICATION Spec
CONSTANTS
  Clients = {c1, c2}
  NoClient = NoClient
  MaxPlayers = 1
  MaxChildren = 2
  MaxSent = 1
INVARIANT AtMostMaxPlayers
