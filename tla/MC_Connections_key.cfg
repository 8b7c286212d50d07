SPECIFICATION Spec
CONSTANTS
  Clients = {c1, c2}
  Keys = {c1, c2}
  Peers <- MC_SharedPeer
  Fds = {f1, f2}
  Workers = {w1}
  None = None
  MaxSends = 1
  MaxIdle = 1
INVARIANTS
  EverySocketExpires
