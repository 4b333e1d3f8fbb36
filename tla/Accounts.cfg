CONSTANTS
  alice = alice
  bob = bob
  k1 = k1
  k2 = k2
  k3 = k3
  c1 = c1
  c2 = c2
  c3 = c3
  w1 = w1
  w2 = w2
  w3 = w3
  Users = {alice, bob}
  Calls = {k1, k2, k3}
  Challenges = {c1, c2, c3}
  Wallets = {w1, w2, w3}
  WalletOf <- MCWalletOf
  Configs <- MCConfigs
  MaxFaults = 1
SPECIFICATION Spec
INVARIANTS
  GrantsAreProven
  PointsAreEarned
CHECK_DEADLOCK FALSE
