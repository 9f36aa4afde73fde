SPECIFICATION MCSpec
CONSTANTS
  p1 = p1
  p2 = p2
  c1 = c1
  k1 = k1
  b1 = b1
  b2 = b2
  b3 = b3
  Daemons = {p1, p2}
  Ports = {1, 2}
  Clients = {c1}
  Audiences = {"all", "other"}
  Follows <- MCFollows
  Controllers = {k1}
  Bridges = {b1, b2, b3}
  MaxEvents = 2
  MaxSubscriptions = 1
  MaxCalls = 1
PROPERTY QuietWhileKilled
CHECK_DEADLOCK FALSE
