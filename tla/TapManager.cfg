SPECIFICATION Spec
CONSTANTS
  Callers = {c1, c2}
  Addrs = {a1, a2, a3, a4}
  Sessions = {s1, s2}
  NoSession = NoSession
SYMMETRY Symmetry
INVARIANTS SocketsAreSound ListeningIsServed OneSessionAtATime
