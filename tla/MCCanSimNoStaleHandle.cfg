\* Two application threads calling the simulator concurrently: NoStaleHandle.
CONSTANTS
  Callers = {c1, c2}
  Ports = {p1, p2}
  MaxProbes = 3
  NoPort = NoPort
SPECIFICATION Spec
INVARIANT NoStaleHandle
