SPECIFICATION MCSpec
CONSTANTS
  Trip = {t1, t2}
  NoTrip = NoTrip
  MaxOffered = 1
  MaxLosses = 1
  MaxMessages = 1
  MaxPushes = 1
  MaxDrops = 1
  None = None
  SosCall = {c1, c2}
  MaxFaults = 1
  Finished = {f1, f2}
  NoRide = NoRide
  Rating = {q1, q2}
  Stars = {2, 5}
  MaxAborts = 1
  MaxRows = 2
  Nothing = Nothing
  Place = {p1, p2}
  Slot = {home}
  Anywhere = other
  Save = {s1, s2}
  Blank = Blank
SYMMETRY ContactSymmetry
INVARIANT HomeAndWorkAreSingle
CONSTRAINT FewUnderWay
CHECK_DEADLOCK FALSE
