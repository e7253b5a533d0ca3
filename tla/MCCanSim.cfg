\* One application thread using the simulator beside its rx_daemon threads.
CONSTANTS
  Callers = {c1}
  Ports = {p1, p2}
  MaxProbes = 3
  NoPort = NoPort
SPECIFICATION Spec
INVARIANT  UniquePort NoStaleHandle JoinSafe
PROPERTY  CloseReturns
