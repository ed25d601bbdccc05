SPECIFICATION Spec
CHECK_DEADLOCK FALSE
CONSTANTS
  rental = rental
  lease = lease
  car1 = car1
  ann = ann
  bob = bob
  Contract = {rental, lease}
  Vehicle = {car1}
  Staff = {ann, bob}
  CarOf <- OneCar
  TypeOf <- MCTypeOf
INVARIANT LiveCarIsNotStray
