\* Two application threads calling the simulator concurrently: RxServed.
CONSTANTS
  Callers = {c1, c2}
  Ports = {p1, p2}
  MaxProbes = 2
  NoPort = NoPort
SPECIFICATION Spec
PROPERTY RxServed
