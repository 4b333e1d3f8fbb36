CONSTANTS
  Orders = {o1}
  Quotes = {q1, q2}
  Clients = {r1, r2}
  Callers = {c1, c2}
  Configs <- MCConfigs
  Signed <- MCSigned
  Offers <- MCOffers
  Requests <- MCRequests
  Derive <- MCDerive
  Amount = 2
  QuoteTtl = 2
  RefundDelay = 1
  MaxTime = 1
SYMMETRY Symmetry
SPECIFICATION Spec
INVARIANTS
  BothHaveSigned
  FillsConserved
  AcceptanceIsUnique
  AnsweredIsWatched
  SweptWithinPrefund
PROPERTIES
  ClosedStaysClosed
CHECK_DEADLOCK FALSE
