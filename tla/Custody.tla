------------------------------- MODULE Custody -------------------------------
(***************************************************************************)
(* Who has which car: the contract rows and the vehicle rows, and the      *)
(* request handlers that write them.                                       *)
(*                                                                         *)
(* A handler is a PostgreSQL transaction (READ COMMITTED) that reads, then *)
(* decides, then writes, so every handler whose write rests on an earlier  *)
(* read is two actions: one that reads, filling request[s], and one that   *)
(* writes.  Between the two any other request may commit.  What protects a *)
(* handler is what the code gives it: a lock on the contract row           *)
(* (SELECT ... FOR UPDATE), a compare-and-set on the vehicle's status, the *)
(* partial unique index on live contracts - or nothing.                    *)
(*                                                                         *)
(* The schedule, the money and the settlement's lines are in Billing.      *)
(***************************************************************************)
EXTENDS FleetStatus, ContractStatus

CONSTANTS
  Contract,    \* contract rows
  Vehicle,     \* vehicle rows
  Staff,       \* people (browser sessions) using the back office
  CarOf,       \* the vehicle each contract is written on
  TypeOf       \* RENTAL or LEASE_TO_OWN

ASSUME CustodyAssumption ==
  /\ CarOf \in [Contract -> Vehicle]
  /\ TypeOf \in [Contract -> {"RENTAL", "LEASE_TO_OWN"}]

VARIABLES
  contract,    \* status of each contract row; NONE before it is created
  settlement,  \* NONE, OPEN or SETTLED, one per contract
  vehicle,     \* status of each vehicle row
  ownership,   \* COMPANY_OWNED or B2B_SUPPLIER
  deleted,     \* the vehicle's deletedAt is set
  request      \* what each member of staff's running transaction has read

vars == <<contract, settlement, vehicle, ownership, deleted, request>>

Idle == [op |-> "idle"]

Requests ==
  {Idle}
  \cup [op : {"activate"}, c : Contract, seen : VehicleStatuses, own : Ownerships]
  \cup [op : {"terminate"}, c : Contract, seen : VehicleStatuses, own : Ownerships,
        to : {"RETURNED", "SOLD"}, outcome : EndedStatuses]
  \cup [op : {"move"}, v : Vehicle, seen : VehicleStatuses, own : Ownerships, to : VehicleStatuses]
  \cup [op : {"reclassify"}, v : Vehicle, seen : VehicleStatuses, to : Ownerships]
  \cup [op : {"delete"}, v : Vehicle, seen : VehicleStatuses]

-----------------------------------------------------------------------------

Live(c) == contract[c] \in LiveStatuses

(* Where a contract puts its car. *)
OutStatus(c) == IF TypeOf[c] = "LEASE_TO_OWN" THEN "LEASE_TO_OWN" ELSE "RENTED"

(* Mutant: no FOR UPDATE. *)
NeverLocked(c) == FALSE

(* The row lock a running activation or termination holds on its contract. *)
Locked(c) ==
  \E s \in Staff : request[s].op \in {"activate", "terminate"} /\ request[s].c = c

(* Mutant: an update by id alone. *)
WhateverItIs(s, v) == request[s].op # "idle"

(* The compare-and-set every status write makes: the car's status is still *)
(* the one the handler read.                                               *)
StillAsRead(s, v) == vehicle[v] = request[s].seen

(* Mutant: no such index. *)
NoIndex(v) == v \in Vehicle

(* contracts_one_live_contract_per_vehicle, a partial unique index. *)
IndexAllows(v) == \A d \in Contract : CarOf[d] = v => ~Live(d)

Respond(s) == request' = [request EXCEPT ![s] = Idle]

Init ==
  /\ contract = [c \in Contract |-> "NONE"]
  /\ settlement = [c \in Contract |-> "NONE"]
  /\ vehicle = [v \in Vehicle |-> "AVAILABLE"]
  /\ ownership \in [Vehicle -> Ownerships]
  /\ deleted = [v \in Vehicle |-> FALSE]
  /\ request = [s \in Staff |-> Idle]

(* createContract: a draft.  Its reads and its insert are one action: the  *)
(* draft binds nothing, and activation checks ownership again.             *)
CreateContract(c) ==
  /\ contract[c] = "NONE"
  /\ ~deleted[CarOf[c]]
  /\ ownership[CarOf[c]] = "B2B_SUPPLIER" => TypeOf[c] = "LEASE_TO_OWN"
  /\ contract' = [contract EXCEPT ![c] = "DRAFT"]
  /\ UNCHANGED <<settlement, vehicle, ownership, deleted, request>>

(* activateContract, up to the checks: the contract row is locked, the     *)
(* vehicle row is only read - and read whether or not it is deleted.       *)
ActivateRead(s, c) ==
  LET v == CarOf[c] IN
  /\ request[s] = Idle
  /\ ~Locked(c)
  /\ contract[c] # "NONE"
  /\ "ACTIVE" \in ContractMoves[contract[c]]
  /\ CanTransition(vehicle[v], OutStatus(c), ownership[v])
  /\ request' = [request EXCEPT ![s] = [op |-> "activate", c |-> c, seen |-> vehicle[v],
                                        own |-> ownership[v]]]
  /\ UNCHANGED <<contract, settlement, vehicle, ownership, deleted>>

(* activateContract, its writes: the charges, whose unique key refuses a   *)
(* contract that has its schedule already (an overdue one passes the       *)
(* transition check); compare-and-set on the vehicle's status; then the    *)
(* contract, under contracts_one_live_contract_per_vehicle.                *)
ActivateWrite(s) ==
  LET c == request[s].c
      v == CarOf[c] IN
  /\ request[s].op = "activate"
  /\ contract[c] \in {"DRAFT", "PENDING"}
  /\ StillAsRead(s, v)
  /\ IndexAllows(v)
  /\ vehicle' = [vehicle EXCEPT ![v] = OutStatus(c)]
  /\ contract' = [contract EXCEPT ![c] = "ACTIVE"]
  /\ Respond(s)
  /\ UNCHANGED <<settlement, ownership, deleted>>

(* Mutant: a draft is refreshed like a live contract. *)
RefreshOfDrafts(c) ==
  /\ contract[c] # "NONE"
  /\ ~Locked(c)
  /\ \E to \in LiveStatuses \cap ContractMoves[contract[c]] :
       contract' = [contract EXCEPT ![c] = to]
  /\ UNCHANGED <<settlement, vehicle, ownership, deleted, request>>

(* refreshContractStatus, which every payment, waiver and nightly pass     *)
(* ends with: the instalments (Billing) decide which way it goes.          *)
RefreshContractStatus(c) ==
  /\ Live(c)
  /\ ~Locked(c)
  /\ \E to \in LiveStatuses \cap ContractMoves[contract[c]] :
       contract' = [contract EXCEPT ![c] = to]
  /\ UNCHANGED <<settlement, vehicle, ownership, deleted, request>>

OpenSettlement(c) ==
  /\ ~Locked(c)
  /\ Live(c)
  /\ settlement[c] = "NONE"
  /\ settlement' = [settlement EXCEPT ![c] = "OPEN"]
  /\ UNCHANGED <<contract, vehicle, ownership, deleted, request>>

(* Mutant: a status the settlements' enum does not have. *)
SettleAsClosed(c) ==
  /\ ~Locked(c)
  /\ settlement[c] = "OPEN"
  /\ settlement' = [settlement EXCEPT ![c] = "CLOSED"]
  /\ UNCHANGED <<contract, vehicle, ownership, deleted, request>>

(* settleSettlement, as far as the car is concerned. *)
SettleSettlement(c) ==
  /\ ~Locked(c)
  /\ settlement[c] = "OPEN"
  /\ settlement' = [settlement EXCEPT ![c] = "SETTLED"]
  /\ UNCHANGED <<contract, vehicle, ownership, deleted, request>>

(* terminateContract, up to the checks, under the contract's lock. *)
TerminateRead(s, c, outcome, to) ==
  LET v == CarOf[c] IN
  /\ request[s] = Idle
  /\ ~Locked(c)
  /\ Live(c)
  /\ settlement[c] # "OPEN"
  /\ outcome \in ContractMoves[contract[c]]
  /\ CanTransition(vehicle[v], to, ownership[v])
  /\ request' = [request EXCEPT ![s] = [op |-> "terminate", c |-> c, seen |-> vehicle[v],
                                        own |-> ownership[v], to |-> to, outcome |-> outcome]]
  /\ UNCHANGED <<contract, settlement, vehicle, ownership, deleted>>

TerminateWrite(s) ==
  LET c == request[s].c
      v == CarOf[c] IN
  /\ request[s].op = "terminate"
  /\ StillAsRead(s, v)
  /\ vehicle' = [vehicle EXCEPT ![v] = request[s].to]
  /\ contract' = [contract EXCEPT ![c] = request[s].outcome]
  /\ Respond(s)
  /\ UNCHANGED <<settlement, ownership, deleted>>

(* Mutant: staff may also pick the statuses a contract manages. *)
MoveAnywhereRead(s, v, to) ==
  /\ request[s] = Idle
  /\ ~deleted[v]
  /\ CanTransition(vehicle[v], to, ownership[v])
  /\ request' = [request EXCEPT ![s] = [op |-> "move", v |-> v, seen |-> vehicle[v],
                                        own |-> ownership[v], to |-> to]]
  /\ UNCHANGED <<contract, settlement, vehicle, ownership, deleted>>

(* changeVehicleStatus, by hand: no contract is looked at. *)
MoveRead(s, v, to) ==
  /\ request[s] = Idle
  /\ ~deleted[v]
  /\ CanTransition(vehicle[v], to, ownership[v])
  /\ to \notin ContractManagedStatuses
  /\ request' = [request EXCEPT ![s] = [op |-> "move", v |-> v, seen |-> vehicle[v],
                                        own |-> ownership[v], to |-> to]]
  /\ UNCHANGED <<contract, settlement, vehicle, ownership, deleted>>

MoveWrite(s) ==
  LET v == request[s].v IN
  /\ request[s].op = "move"
  /\ StillAsRead(s, v)
  /\ ~deleted[v]
  /\ vehicle' = [vehicle EXCEPT ![v] = request[s].to]
  /\ Respond(s)
  /\ UNCHANGED <<contract, settlement, ownership, deleted>>

(* Mutant: a car on a plain rental may become a supplier's. *)
ReclassifyRentedRead(s, v, to) ==
  /\ request[s] = Idle
  /\ ~deleted[v]
  /\ to = "B2B_SUPPLIER" => vehicle[v] # "SOLD"
  /\ request' = [request EXCEPT ![s] = [op |-> "reclassify", v |-> v, seen |-> vehicle[v],
                                        to |-> to]]
  /\ UNCHANGED <<contract, settlement, vehicle, ownership, deleted>>

(* updateVehicleAction: the status is read, and the ownership then written *)
(* to the row whatever has happened to it since.                           *)
ReclassifyRead(s, v, to) ==
  /\ request[s] = Idle
  /\ ~deleted[v]
  /\ to = "B2B_SUPPLIER" => vehicle[v] \notin {"RENTED", "SOLD"}
  /\ request' = [request EXCEPT ![s] = [op |-> "reclassify", v |-> v, seen |-> vehicle[v],
                                        to |-> to]]
  /\ UNCHANGED <<contract, settlement, vehicle, ownership, deleted>>

ReclassifyWrite(s) ==
  /\ request[s].op = "reclassify"
  /\ ownership' = [ownership EXCEPT ![request[s].v] = request[s].to]
  /\ Respond(s)
  /\ UNCHANGED <<contract, settlement, vehicle, deleted>>

(* deleteVehicleAction: a soft delete, its status check done beforehand. *)
DeleteRead(s, v) ==
  /\ request[s] = Idle
  /\ ~deleted[v]
  /\ vehicle[v] \notin OnContractStatuses
  /\ request' = [request EXCEPT ![s] = [op |-> "delete", v |-> v, seen |-> vehicle[v]]]
  /\ UNCHANGED <<contract, settlement, vehicle, ownership, deleted>>

DeleteWrite(s) ==
  /\ request[s].op = "delete"
  /\ deleted' = [deleted EXCEPT ![request[s].v] = TRUE]
  /\ Respond(s)
  /\ UNCHANGED <<contract, settlement, vehicle, ownership>>

(* A transaction refused by a failed compare-and-set, by the unique index  *)
(* or by any other error: everything it did is rolled back.                *)
Abort(s) ==
  /\ request[s] # Idle
  /\ Respond(s)
  /\ UNCHANGED <<contract, settlement, vehicle, ownership, deleted>>

StaffStep(s) ==
  \/ \E c \in Contract : ActivateRead(s, c)
  \/ ActivateWrite(s)
  \/ \E c \in Contract, outcome \in EndedStatuses, to \in {"RETURNED", "SOLD"} :
       TerminateRead(s, c, outcome, to)
  \/ TerminateWrite(s)
  \/ \E v \in Vehicle, to \in VehicleStatuses : MoveRead(s, v, to)
  \/ MoveWrite(s)
  \/ \E v \in Vehicle, to \in Ownerships : ReclassifyRead(s, v, to)
  \/ ReclassifyWrite(s)
  \/ \E v \in Vehicle : DeleteRead(s, v)
  \/ DeleteWrite(s)
  \/ Abort(s)

ContractStep(c) ==
  \/ CreateContract(c)
  \/ RefreshContractStatus(c)
  \/ OpenSettlement(c)
  \/ SettleSettlement(c)

Next == \/ \E s \in Staff : StaffStep(s)
        \/ \E c \in Contract : ContractStep(c)

Spec == Init /\ [][Next]_vars

-----------------------------------------------------------------------------
(* Type correctness: every row holds one of its enum's values, and a       *)
(* running request one of the shapes a handler reads.                      *)
TypeOK ==
  /\ contract \in [Contract -> ContractStatuses \cup {"NONE"}]
  /\ settlement \in [Contract -> {"NONE", "OPEN", "SETTLED"}]
  /\ vehicle \in [Vehicle -> VehicleStatuses]
  /\ ownership \in [Vehicle -> Ownerships]
  /\ deleted \in [Vehicle -> BOOLEAN]
  /\ request \in [Staff -> Requests]

(* INV-9, the database's half: however activations race, a car is never on *)
(* two live contracts.                                                     *)
OneLiveContractPerCar ==
  \A c, d \in Contract : Live(c) /\ Live(d) /\ CarOf[c] = CarOf[d] => c = d

(* INV-9, the other way (reconcile.ts): a car that is Rented or on         *)
(* Lease-to-own is out on a live contract, and one of that very type,      *)
(* whatever hand moves, terminations and activations have raced.           *)
OutOnLiveContract ==
  \A v \in Vehicle : vehicle[v] \in ContractManagedStatuses =>
    \E c \in Contract : Live(c) /\ CarOf[c] = v /\ vehicle[v] = OutStatus(c)

(* A contract never ends with its reckoning still open (terminateContract: *)
(* "ending first and reckoning later is how the reckoning never happens"). *)
EndedIsReckoned ==
  \A c \in Contract : contract[c] \in EndedStatuses => settlement[c] # "OPEN"

(* No race takes a vehicle or a contract along an edge its status table    *)
(* does not have: a sold car stays sold, an ended contract stays ended.    *)
MovesAreLegal ==
  /\ \A v \in Vehicle : vehicle'[v] # vehicle[v] => vehicle'[v] \in VehicleMoves[vehicle[v]]
  /\ \A c \in Contract : contract'[c] # contract[c] =>
       \/ contract[c] = "NONE" /\ contract'[c] = "DRAFT"
       \/ contract[c] # "NONE" /\ contract'[c] \in ContractMoves[contract[c]]

LegalMoves == [][MovesAreLegal]_vars

(* What a contract does to its car is all or nothing: a car goes out in    *)
(* the step that makes its contract live, and a contract that stops being  *)
(* live leaves its car returned or sold in the same step.                  *)
GoesOutAndComesInTogether ==
  /\ \A v \in Vehicle :
       vehicle'[v] \in ContractManagedStatuses /\ vehicle'[v] # vehicle[v] =>
         \E c \in Contract : CarOf[c] = v /\ ~Live(c) /\ contract'[c] = "ACTIVE"
  /\ \A c \in Contract :
       Live(c) /\ contract'[c] \notin LiveStatuses => vehicle'[CarOf[c]] \in {"RETURNED", "SOLD"}

TogetherOrNotAtAll == [][GoesOutAndComesInTogether]_vars

(* A supplier's car gets onto a plain rental, or is sold though it was not *)
(* on lease-to-own, and a car promised or out disappears from the fleet,   *)
(* only by a write whose handler decided on what is no longer so: an       *)
(* ownership that has changed since it was read, which nothing compares,   *)
(* or a status under a write that does not compare it.                     *)
Car(r) == IF r.op \in {"activate", "terminate"} THEN CarOf[r.c] ELSE r.v

Overtaken(r) ==
  IF r.op \in {"reclassify", "delete"} THEN r.seen # vehicle[r.v] ELSE r.own # ownership[Car(r)]

Misplaced(v) ==
  \/ /\ ownership'[v] = "B2B_SUPPLIER"
     /\ <<vehicle'[v], ownership'[v]>> # <<vehicle[v], ownership[v]>>
     /\ ~OwnershipAllows(vehicle[v], vehicle'[v], "B2B_SUPPLIER")
  \/ deleted'[v] /\ ~deleted[v] /\ vehicle[v] \in OnContractStatuses

MisplacedByTheOvertaken ==
  \A v \in Vehicle : Misplaced(v) =>
    \E s \in Staff : /\ request[s] # Idle /\ request'[s] = Idle
                     /\ Car(request[s]) = v /\ Overtaken(request[s])

OnlyOvertakenMisplaces == [][MisplacedByTheOvertaken]_vars

(* Custody implements CarHolding: the contracts that hold a car are the    *)
(* live ones, and the cars out are the Rented and Lease-to-own ones.       *)
HeldContracts == {c \in Contract : Live(c)}
EndedContracts == {c \in Contract : contract[c] \in EndedStatuses}
CarsOut == {v \in Vehicle : vehicle[v] \in ContractManagedStatuses}

CH == INSTANCE CarHolding WITH held <- HeldContracts, ended <- EndedContracts, out <- CarsOut

ImplementsCarHolding == CH!Spec

-----------------------------------------------------------------------------
(* What the repository says and the code does not do.                      *)

(* INV-9, one way, in reconcile.ts's words: "a live contract's car is not  *)
(* sitting available, sold or inactive".                                   *)
LiveCarIsNotStray ==
  \A c \in Contract : Live(c) =>
    vehicle[CarOf[c]] \notin {"AVAILABLE", "SOLD", "INACTIVE", "RESERVED"}
=============================================================================
