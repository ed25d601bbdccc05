SPECIFICATION DeskSpec
CONSTANTS
  c1 = c1
  car1 = car1
  ann = ann
  bob = bob
  h1 = h1
  h2 = h2
  dent = dent
  r1 = r1
  f1 = f1
  a1 = a1
  i1 = i1
  l1 = l1
  l2 = l2
  m1 = m1
  row = row
  Contract = {c1}
  Vehicle = {car1}
  CarOf <- OneCar
  Form = {h1, h2}
  Mark = {dent}
  Record = {r1}
  Billed = {r1}
  Outcome = {"COMPLETED"}
  Staff = {ann, bob}
  MaxKm = 1
  Fine = {f1}
  Accident = {a1}
  Policy = {i1}
  Amount = {0, 1, 2}
  Lead = {l1, l2}
  Mobile = {m1}
  MaxQuotes = 2
  Row = {row}
  Client = {ann, bob}
  MaxVersion = 3
  MaxFaults = 1
  Role = {"manager"}
  RoleOf <- OneRole
  Permission = {"user.manage", "role.manage", "fine.manage"}
  MaxTime = 4
  MaxPassword = 1
  MaxFailures = 3
  MaxAttempts = 2
  Lockout = 2
  Ttl = 2
  Car = {"owned", "leased"}
  OwnerOf <- OwnerOfDeal
  FleetCost <- CostOnFile
  Texts <- DealTexts
CHECK_DEADLOCK FALSE
INVARIANT
  NoneIsForgotten
