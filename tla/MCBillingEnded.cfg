SPECIFICATION Spec
CONSTANTS
  c1 = c1
  c2 = c2
  m1 = m1
  m2 = m2
  m3 = m3
  f1 = f1
  f2 = f2
  fin1 = fin1
  fin2 = fin2
  fee = fee
  discount = discount
  ann = ann
  bob = bob
  cron = cron
  byHand = byHand
  FinalOf <- MCFinalOf
  ContractOf <- MCContractOf
  DueOn <- MCDueOn
  Gross <- MCGross
  Contract = {c1}
  Month = {m1, m2}
  Fine = {f1}
  Item = {}
  Charge = {}
  Staff = {ann}
  Run = {}
  Amount = {2}
  MaxDay = 1
  MaxCrashes = 0
CHECK_DEADLOCK FALSE
PROPERTY EndedEarnsOnlyWhatWasReached
