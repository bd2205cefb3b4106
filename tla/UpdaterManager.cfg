CONSTANTS
  Handlers = {h1, h2}
  Conns = {c1, c2}
  Sessions = {n1, n2}
  Channels = {a, b}
  Updaters = {u1, u2}
  CanDisconnect = FALSE
  Loop = Loop
  Nobody = Nobody
  Users = {alice}
  Servers = {g1}
  States = {state1}
  Callbacks = {login1}
  Visits = {visit1, visit2}
  StateLifetime = 1
  SessionLifetime = 3
  CacheTtl = 2
  MaxLogins = 1
  LoginWindow = 1
  Latency = 1
  LastInstant = 4
  NoUser = NoUser
INIT ServersInit
NEXT ServersNext
SYMMETRY Symmetry
INVARIANTS RemovalIsABarrier OneUpdaterPosts ConnectedRigIsServed
PROPERTIES ManagersAreCurrent
CHECK_DEADLOCK FALSE
