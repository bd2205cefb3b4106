CONSTANTS
  Handlers = {h1, h2}
  Conns = {c1}
  Sessions = {n1}
  Channels = {a}
  Updaters = {u1, u2, u3}
  CanDisconnect = TRUE
  Loop = Loop
  Nobody = Nobody
SPECIFICATION FairSpec
INVARIANTS RemovalStopsPosting
PROPERTIES StaleUpdaterStops
CHECK_DEADLOCK FALSE
