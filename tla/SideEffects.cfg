CONSTANTS
  t1 = t1
  x1 = x1
  x2 = x2
  k1 = k1
  k2 = k2
  k3 = k3
  u1 = u1
  u2 = u2
  s1 = s1
  s2 = s2
  c1 = c1
  c2 = c2
  Posted = Posted
  Trades = {t1}
  Txs = {x1, x2}
  Keys = {k1, k2, k3}
  Clients = {u1, u2}
  Sinks = {s1, s2}
  Handlers = {c1, c2}
  Limit = 1
  MaxForgotten = 1
  Scenarios <- MCScenarios
SPECIFICATION EffectsSpec
CHECK_DEADLOCK FALSE
INVARIANTS
  SentOncePerKey
  LedgerIsTrue
  AlertRateBounded
PROPERTIES
  AlertsAreAnswered
