------------------------------ MODULE MCCustody ------------------------------
(***************************************************************************)
(* An instance of Custody for TLC: one car, a rental and a lease-to-own    *)
(* written on it, and two members of staff, so that any two handlers meet  *)
(* on the same rows.                                                       *)
(***************************************************************************)
EXTENDS CustodyProofs, TLC

CONSTANTS rental, lease, car1, ann, bob

OneCar == [c \in {rental, lease} |-> car1]
MCTypeOf == (rental :> "RENTAL") @@ (lease :> "LEASE_TO_OWN")
=============================================================================
