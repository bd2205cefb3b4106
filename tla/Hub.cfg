CONSTANTS
  Sockets = {s0, s1, s2}
  Owners = {o1, o2}
  Tokens = {n0, n1}
  Earlier = {s0}
  Outstanding = {n0}
  NoSocket = NoSocket
  NoToken = NoToken
  Telescopes = {t1, t2}
  Guilds = {g1, g2}
  g1 = g1
  g2 = g2
  f1 = f1
  f2 = f2
  Feeds = {f1, f2}
  GuildOf <- MCGuildOf
  Codes = {k1, k2}
  Requests = {r1, r2}
  Nothing = Nothing
  Grace = 2
  MaxClock = 6
  b1 = b1
  b2 = b2
  A = A
  Rows = {b1, b2}
  Names = {A}
  NameOf <- MCNameOf
  OwnerOf <- MCOwnerOf
  MaxOpened = 2
  NoRow = NoRow
  ByChannel = ByChannel
INIT HubInit
NEXT HubNext
SYMMETRY Symmetry
INVARIANTS RevocationIsFinal NoOrphanedConnection OneCredentialPerToken SharedFeedsArePaidFor CommandsReachTheirTelescope
PROPERTIES AnnouncementsAreEarned
CHECK_DEADLOCK FALSE
