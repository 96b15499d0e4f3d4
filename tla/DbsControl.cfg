\* Two slots, two clients, two children at a time: enough for a client that repeats
\* its CONNECT, a full table, a slot given back and taken again, and two children
\* on one slot.
SPECIFICATION FairSpec
CONSTANTS
  Clients = {c1, c2}
  NoClient = NoClient
  MaxPlayers = 2
  MaxChildren = 2
  MaxSent = 1
INVARIANTS TypeOK SlotHasOwner SlotPrivate OneChildPerClient SessionUndisturbed
PROPERTIES SlotReclaimed ConnectAnswered
