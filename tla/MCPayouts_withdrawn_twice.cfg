SPECIFICATION MCSpec
CONSTANTS
  Rider = {c1}
  Driver = {d1}
  Ride = {r1}
  Request = {q1}
  NoOne = NoOne
  Fare = 1
  Fee = 1
  Tips = {0, 1}
  TopUps = {2}
  MaxCredit = 2
  Payout = {p1, p2, p3}
  Dialog = {a1, a2}
  Amounts = {1, 2}
SYMMETRY PayoutSymmetry
INVARIANTS
  NoDoubleWithdrawal
