SPECIFICATION Spec
CONSTANTS
  c1 = c1
  c2 = c2
  m1 = m1
  m2 = m2
  m3 = m3
  f1 = f1
  f2 = f2
  fin1 = fin1
  fin2 = fin2
  fee = fee
  discount = discount
  ann = ann
  bob = bob
  cron = cron
  byHand = byHand
  FinalOf <- MCFinalOf
  ContractOf <- MCContractOf
  DueOn <- MCDueOn
  Gross <- MCGross
  Contract = {c1}
  Month = {m2}
  Fine = {f1, f2}
  Item = {fee}
  Charge = {fee}
  Staff = {ann, bob}
  Run = {}
  Amount = {2}
  MaxDay = 2
  MaxCrashes = 0
SYMMETRY Symmetry
INVARIANTS
  GaplessNumbers
  RevenueMatchesInvoices
  OverdueIsOwed
PROPERTIES
  ImplementsInvoiceBook
CHECK_DEADLOCK FALSE
