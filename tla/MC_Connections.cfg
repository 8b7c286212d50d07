SPECIFICATION FairSpec
CONSTANTS
  Clients = {c1, c2}
  Keys = {c1, c2}
  Peers <- MC_Peers
  Fds = {f1, f2}
  Workers = {w1, w2}
  None = None
  MaxSends = 2
  MaxIdle = 1
INVARIANTS
  TypeOK
  OneHandlerWhileMuted
  NoSocketForgotten
PROPERTIES
  
  IdleSocketsAreClosed
