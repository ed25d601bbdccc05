----------------------------- MODULE LeadStatus -----------------------------
(***************************************************************************)
(* The lead status machine of packages/core/src/leads/status.ts.  Pure     *)
(* definitions, with NONE for a lead there is no row of.                   *)
(***************************************************************************)

LeadStatuses == {"NEW", "CONTACTED", "QUALIFIED", "DEAL_CREATED", "CONTRACTED", "LOST"}

LeadMoves == [
  NEW          |-> {"CONTACTED", "QUALIFIED", "LOST"},
  CONTACTED    |-> {"QUALIFIED", "LOST"},
  QUALIFIED    |-> {"CONTACTED", "DEAL_CREATED", "LOST"},
  DEAL_CREATED |-> {"QUALIFIED", "CONTRACTED", "LOST"},
  CONTRACTED   |-> {},
  LOST         |-> {"NEW", "CONTACTED"},
  NONE         |-> {}]

(* Reached by saving a quotation and by converting, never by hand. *)
EarnedLeadStatuses == {"DEAL_CREATED", "CONTRACTED"}
=============================================================================
