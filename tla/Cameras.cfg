CONSTANTS
  Sockets = {s0, s1}
  Asks = {q1, q2}
  Settings = {x1, x2}
  MaxCredentials = 2
  MaxControls = 1
  MaxHandlers = 1
  MaxCalls = 2
  NoSocket = NoSocket
  NoAsk = NoAsk
  Cameras = {m1, m2}
  Uploads = {u1, u2, u3}
  NoCamera = NoCamera
  Slots = 1
  MaxConnections = 3
  Events = {e1, e2}
  Payloads = {p1, p2}
  Requested = {}
  Movies = {p2}
  Channels = {c1}
  MaxRoutes = 2
  Cooldown = 1
  Fresh = 1
  Lifetime = 1
  Retention = 1
  MaxTime = 2
  MaxSwallowed = 2
  None = None
INIT CamerasInit
NEXT CamerasNext
SYMMETRY Symmetry
INVARIANTS StaleSessionServedOnce AnswersAreTrue UploadSlotsHeld ReceiptsAreTrue DeliveredIsDelivered OneImagePerCooldown NoticeIsOwed
PROPERTIES NoBackfill RepostOnlyInDoubt
CHECK_DEADLOCK FALSE
