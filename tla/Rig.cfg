CONSTANTS
  Rigs = {r1, r2, r3}
  Sessions = {s1, s2}
  Conns = {c1, c2, c3}
  NoRig = NoRig
  NoConn = NoConn
  NoLease = NoLease
  Queries = {q1, q2, o1}
  Observing = {o1}
  MaxPending = 2
  Links = {l1, l2, l3}
  Identities = {i1, i2}
  Lookups = {u1}
  Orders = {u2}
  MaxGeneration = 2
  NoLink = NoLink
  NoIdentity = NoIdentity
  Updater = Updater
  Bot = Bot
  Callers = {Updater, Bot}
  Ids = {1, 2, 3, 4}
  MaxStalls = 1
  NoId = NoId
  Threshold = 3
SPECIFICATION RigSpec
INVARIANTS NothingLeftBehind OwnAnswersOnly
PROPERTIES LeaseSpec DeltaConsumedOrReplayed AnswersAreCurrent
CHECK_DEADLOCK FALSE
