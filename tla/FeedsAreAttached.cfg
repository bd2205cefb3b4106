CONSTANTS
  Telescopes = {t1, t2}
  Guilds = {g1, g2}
  g1 = g1
  g2 = g2
  f1 = f1
  f2 = f2
  Feeds = {f1, f2}
  GuildOf <- MCGuildOf
  Codes = {k1, k2}
  Requests = {q1, q2}
  Nothing = Nothing
SPECIFICATION TenancySpec
INVARIANTS FeedsAreAttached
CHECK_DEADLOCK FALSE
