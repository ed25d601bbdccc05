SPECIFICATION Spec
CONSTANTS
  c1 = c1
  c2 = c2
  m1 = m1
  m2 = m2
  m3 = m3
  f1 = f1
  f2 = f2
  fin1 = fin1
  fin2 = fin2
  fee = fee
  discount = discount
  ann = ann
  bob = bob
  cron = cron
  byHand = byHand
  FinalOf <- MCFinalOf
  ContractOf <- MCContractOf
  DueOn <- MCDueOn
  Gross <- FreeGross
  Contract = {c1, c2}
  Month = {m2, m3}
  Fine = {}
  Item = {}
  Charge = {}
  Staff = {}
  Run = {cron, byHand}
  Amount = {1}
  MaxDay = 2
  MaxCrashes = 1
INVARIANTS
  OverdueIsOwed
