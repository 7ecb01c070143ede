SPECIFICATION StoreFairSpec
CONSTANTS
  s1 = s1  s2 = s2  r1 = r1  r2 = r2  x = x  y = y  i1 = i1
  mx = mx  my = my  ax = ax  rx = rx  rx2 = rx2  ry = ry
  ref1 = ref1  ref2 = ref2  q1 = q1  q2 = q2  seen = seen
  Sessions = {s1, s2}  Runs = {r1, r2}  Releases = {x, y}  ArtifactIds = {i1}
  Digests = {mx, my, ax, rx, rx2, ry}  None = None
  Ttl = 2  MaxAge = 2  MaxSkew = 1
  Envelopes <- RemappingEnvelopes
  Times = {2, 5}  Damageable = {rx}  MaxFailures = 1
PROPERTIES KeepsTheBook CallsEnd
CHECK_DEADLOCK TRUE
