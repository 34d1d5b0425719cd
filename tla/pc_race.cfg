\* A registry that changes twice under a client and its two callers.
CONSTANTS
  i1 = i1
  i2 = i2
  Instances <- MCInstances
  Nil = Nil
  Watchers = {client}
  Client = client
  Initial <- MCInitial
  ChannelSize = 1
  MaxUpdates = 2
  Callers = {c1, c2}
  NoPool = NoPool
  Retries = 1
SPECIFICATION Spec
SYMMETRY Symmetry
INVARIANT ListsSound
INVARIANT ListInSync
