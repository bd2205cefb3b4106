CONSTANTS
  Handlers = {h1, h2}
  Conns = {c1}
  Sessions = {n1}
  Channels = {a, b}
  Updaters = {u1, u2, u3}
  CanDisconnect = TRUE
  Loop = Loop
  Nobody = Nobody
SPECIFICATION Spec
INVARIANTS RemovalIsABarrier
CHECK_DEADLOCK FALSE
