SPECIFICATION NightSpec
CONSTANTS
  lease = lease
  p1 = p1
  p2 = p2
  ann = ann
  bob = bob
  cron = cron
  byHand = byHand
  lapsed = lapsed
  old = old
  new = new
  Contract = {lease}
  Payable = {p1, p2}
  ContractOf <- MCContractOf
  DueOn <- MCDueOn
  Bills <- MCBills
  Staff = {ann, bob}
  Run = {cron, byHand}
  Amount = {1}
  MaxDay = 1
  MaxCrashes = 1
  Notice = {lapsed}
  Person = {ann, bob}
  Worker = {cron}
  LOOKBACK = 0
  Take = 1
  MaxDate = 1
  MaxDeaths = 1
  MaxBounces = 1
  Paper = {old, new}
  EXPIRES <- MCExpires
  OFFSETS = {0, 1}
  Office = {ann, bob}
  Scanner = {cron}
  LastDay = 2
  MaxFaults = 1
CHECK_DEADLOCK FALSE
INVARIANTS
  NightTypeOK
  PaidIsWhatWasPaid
  CostIsWhatWasRaised
  MailIsAccountedFor
  OneIsCurrent
PROPERTIES
  NothingRaisedAfterTheEnd
  DueIsRaised
  ImplementsPayables
  NobodyIsStranded
  OnlyOvertakenRevives
  LapseIsAnnounced
