----------------------------- MODULE FleetStatus -----------------------------
(***************************************************************************)
(* The vehicle status machine of packages/core/src/fleet/status.ts: the    *)
(* statuses a car can be in, the moves between them, and what a car's      *)
(* ownership forbids on top of the table.  Pure definitions; the modules   *)
(* that move cars (Custody) extend this one.                               *)
(***************************************************************************)

VehicleStatuses == { "AVAILABLE", "RESERVED", "RENTED", "LEASE_TO_OWN",
                     "MAINTENANCE", "ACCIDENT", "RETURNED", "SOLD", "INACTIVE" }

Ownerships == { "COMPANY_OWNED", "B2B_SUPPLIER" }

VehicleMoves ==
  [ AVAILABLE    |-> {"RESERVED", "RENTED", "LEASE_TO_OWN", "MAINTENANCE",
                      "ACCIDENT", "SOLD", "INACTIVE"},
    RESERVED     |-> {"AVAILABLE", "RENTED", "LEASE_TO_OWN"},
    RENTED       |-> {"RETURNED", "ACCIDENT"},
    LEASE_TO_OWN |-> {"RETURNED", "SOLD", "ACCIDENT"},
    MAINTENANCE  |-> {"AVAILABLE", "INACTIVE"},
    ACCIDENT     |-> {"MAINTENANCE", "INACTIVE", "SOLD"},
    RETURNED     |-> {"AVAILABLE", "MAINTENANCE", "ACCIDENT"},
    SOLD         |-> {},
    INACTIVE     |-> {"AVAILABLE", "SOLD"} ]

(* The car is promised to, or out with, a customer. *)
OnContractStatuses == {"RESERVED", "RENTED", "LEASE_TO_OWN"}

(* Only a contract's activation may put a car here, never a hand move. *)
ContractManagedStatuses == {"RENTED", "LEASE_TO_OWN"}

(* A car leased in from a supplier is never on a plain rental, and is sold *)
(* only as the buyout that ends a lease-to-own.                            *)
OwnershipAllows(from, to, owner) ==
  owner = "B2B_SUPPLIER" => /\ to # "RENTED"
                            /\ to = "SOLD" => from = "LEASE_TO_OWN"

CanTransition(from, to, owner) ==
  to \in VehicleMoves[from] /\ OwnershipAllows(from, to, owner)
=============================================================================
