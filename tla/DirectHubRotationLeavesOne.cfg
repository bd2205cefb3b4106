CONSTANTS
  Sockets = {s0, s1, s2}
  Owners = {o1, o2}
  Tokens = {t0, t1}
  Earlier = {s0}
  Outstanding = {t0}
  NoSocket = NoSocket
  NoToken = NoToken
SPECIFICATION Spec
INVARIANTS RotationLeavesOne
CHECK_DEADLOCK FALSE
