\* Three daemons with the pidfile and one without; nobody starts while another one ends.
SPECIFICATION CalmStartupSpec
CONSTANTS
  Daemons = {b, c, d, e}
  Guarded = {b, c, d}
  Inodes = {i, j, k}
  b = b
  c = c
  d = d
  e = e
  i = i
  j = j
  k = k
  NoInode = NoInode
INVARIANTS
  StartupTypeOK OneDaemon
  OneServer Reachable NoObstacle
