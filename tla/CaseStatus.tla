----------------------------- MODULE CaseStatus -----------------------------
(***************************************************************************)
(* The status machines of a car's cases: a traffic fine, an accident and   *)
(* its insurance claim (packages/core/src/fines/status.ts and              *)
(* accidents/status.ts).  Pure definitions, with NONE for a case there is  *)
(* no row of.                                                              *)
(***************************************************************************)

FineStatuses ==
  {"OPEN", "DISPUTED", "CANCELLED", "PAID_BY_CUSTOMER", "PAID", "RECOVERED", "WAIVED"}

FineMoves == [
  OPEN             |-> {"DISPUTED", "CANCELLED", "PAID", "PAID_BY_CUSTOMER"},
  DISPUTED         |-> {"OPEN", "CANCELLED", "PAID", "PAID_BY_CUSTOMER"},
  CANCELLED        |-> {},
  PAID_BY_CUSTOMER |-> {},
  PAID             |-> {"RECOVERED", "WAIVED"},
  RECOVERED        |-> {"PAID"},
  WAIVED           |-> {"PAID"},
  NONE             |-> {}]

CostedFineStatuses == {"PAID", "RECOVERED", "WAIVED"}

AccidentStatuses == {"REPORTED", "UNDER_REPAIR", "REPAIRED", "WRITTEN_OFF", "CLOSED"}

AccidentMoves == [
  REPORTED     |-> {"UNDER_REPAIR", "WRITTEN_OFF", "CLOSED"},
  UNDER_REPAIR |-> {"REPAIRED", "WRITTEN_OFF"},
  REPAIRED     |-> {"UNDER_REPAIR", "CLOSED"},
  WRITTEN_OFF  |-> {"CLOSED"},
  CLOSED       |-> {},
  NONE         |-> {}]

ClaimStatuses == {"LODGED", "APPROVED", "SETTLED", "REJECTED", "WITHDRAWN"}

(* Mutant: a settled claim can be lodged again. *)
ClaimMovesReopened == [
  LODGED    |-> {"APPROVED", "REJECTED", "WITHDRAWN"},
  APPROVED  |-> {"SETTLED", "REJECTED"},
  SETTLED   |-> {"LODGED"},
  REJECTED  |-> {"LODGED"},
  WITHDRAWN |-> {"LODGED"},
  NONE      |-> {}]

ClaimMoves == [
  LODGED    |-> {"APPROVED", "REJECTED", "WITHDRAWN"},
  APPROVED  |-> {"SETTLED", "REJECTED"},
  SETTLED   |-> {},
  REJECTED  |-> {"LODGED"},
  WITHDRAWN |-> {"LODGED"},
  NONE      |-> {}]
=============================================================================
