CONSTANTS
  Sockets = {s0, s1, s2}
  Owners = {o1}
  Tokens = {t0}
  Earlier = {s0}
  Outstanding = {t0}
  NoSocket = NoSocket
  NoToken = NoToken
SPECIFICATION FairSpec
PROPERTIES RevokedIsClosed
CHECK_DEADLOCK FALSE
