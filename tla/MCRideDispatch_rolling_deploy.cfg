SPECIFICATION Spec
CONSTANTS
  Rider = {c1, c2}
  Driver = {d1}
  Ride = {r1, r2}
  Request = {q1, q2}
  Matcher = {m1, m2}
  NoOne = NoOne
  MaxAttempts = 1
  MaxFaults = 0
CONSTRAINT Competing
SYMMETRY UserSymmetry
INVARIANTS
  OneActiveRidePerRider
  OneActiveRidePerDriver
