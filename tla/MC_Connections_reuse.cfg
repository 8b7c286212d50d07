SPECIFICATION Spec
CONSTANTS
  Clients = {c1, c2}
  Keys = {c1, c2}
  Peers <- MC_OwnPeers
  Fds = {f1}
  Workers = {w1, w2}
  None = None
  MaxSends = 2
  MaxIdle = 1
INVARIANTS
  OneJobPerSocket
