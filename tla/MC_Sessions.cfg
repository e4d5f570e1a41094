SPECIFICATION Spec
CONSTANTS
  p1 = p1
  p2 = p2
  Handler = {p1, p2}
  MaxTime = 2
  Life = 2
  Ttl = 1
  NoSession = NoSession
  NoToken = NoToken
  Idle = Idle
INVARIANTS
  SpentIsRefused
  LogoutStands
  NotLockedOut
SYMMETRY MCSymmetry
