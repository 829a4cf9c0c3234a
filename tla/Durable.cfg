SPECIFICATION MCSpec
CONSTANTS
  p1 = p1
  p2 = p2
  p3 = p3
  g1 = g1
  g2 = g2
  h1 = h1
  h2 = h2
  c1 = c1
  c2 = c2
  c3 = c3
  t1 = t1
  t2 = t2
  k1 = k1
  k2 = k2
  Publishes = {p1, p2, p3}
  KernelPublishes = {p1, p2}
  BusKeyOf <- MCKeyOf
  Groups = {g1, g2}
  Handlers = {h1, h2}
  RetryLimit = 1
  MaxInflight = 1
  MaxRegistrations = 2
  MaxUnsubscribes = 1
  Calls = {c1, c2, c3}
  Partitions = {t1, t2}
  PartitionOf <- MCPartitionOf
  Kinds = {k1, k2}
  Restorers = {c1, c3}
  NoRecord = NoRecord
  PermitExpiry = 2
  MaxTime = 2
  e1 = e1
  e2 = e2
  e3 = e3
  r1 = r1
  Originals = {e1, e2, e3}
  Replays = {r1}
  ReplayOf <- MCReplayOf
  KeyOf <- MCEventKeyOf
  MaxDeliveryAttempts = 2
  MaxRetryAttempts = 3
  OutboxMaxAttempts = 2
  PoisonThreshold = 2
  RetryBudget = 1
  WindowLimit = 1
  Quota = 3
  Critical = {e2}
  RequestFaults = {"tampered", "no policy"}
  MaxFaults = 1
INVARIANTS BusesSafe StoresSafe EventsSafe
PROPERTIES PublishAnswers CheckpointForward StoredSettles
CHECK_DEADLOCK FALSE
