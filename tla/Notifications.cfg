CONSTANTS
  m1 = m1
  m2 = m2
  t1 = t1
  t2 = t2
  n1 = n1
  n2 = n2
  r1 = r1
  r2 = r2
  Addresses = {m1, m2}
  Tokens = {t1, t2}
  Events = {n1, n2}
  Types = {"trade_status", "deadline_warning"}
  TypeOf <- MCTypeOf
  Deadlines = {n2}
  Rounds = {r1, r2}
  MailConfigs <- MCMailConfigs
  MaxAttempts = 2
  MaxUnsent = 3
SPECIFICATION MailSpec
INVARIANTS
  MailTypeOK
  OnlyProvenAddresses
  LateMailsBounded
PROPERTIES
  EveryDeliveryEnds
