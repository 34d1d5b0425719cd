\* One Deregister, one call: the connection of the instance stays pooled.
CONSTANTS
  i1 = i1
  i2 = i2
  Instances <- MCInstances
  Nil = Nil
  Watchers = {client}
  Client = client
  Initial <- MCInitial
  ChannelSize = 1
  MaxUpdates = 1
  Callers = {c1}
  NoPool = NoPool
  Retries = 0
SPECIFICATION Spec
INVARIANT PoolOnlyOnline
