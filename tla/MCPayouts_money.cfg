SPECIFICATION MCSpec
CONSTANTS
  Rider = {c1}
  Driver = {d1, d2}
  Ride = {r1, r2}
  Request = {q1, q2}
  NoOne = NoOne
  Fare = 1
  Fee = 1
  Tips = {0, 1, 2}
  TopUps = {2}
  MaxCredit = 4
  Payout = {p1, p2}
  Dialog = {a1, a2}
  Amounts = {1, 2}
SYMMETRY PayoutSymmetry
CONSTRAINT OneRequestPerDriver
INVARIANTS
  WalletReconciles
  SettlementIsAtomic
  DriversGetWhatRidersPay
  NoDoubleWithdrawal
PROPERTIES
  SettlesOnce
