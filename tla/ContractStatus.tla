--------------------------- MODULE ContractStatus ---------------------------
(***************************************************************************)
(* The contract status machine of packages/core/src/contracts/status.ts.   *)
(* PENDING is in the table, but nothing in the repository moves a contract *)
(* into it, nor cancels one before it is activated.                        *)
(***************************************************************************)

ContractStatuses == { "DRAFT", "PENDING", "ACTIVE", "OVERDUE", "COMPLETED", "CANCELLED" }

ContractMoves ==
  [ DRAFT     |-> {"PENDING", "ACTIVE", "CANCELLED"},
    PENDING   |-> {"ACTIVE", "DRAFT", "CANCELLED"},
    ACTIVE    |-> {"OVERDUE", "COMPLETED", "CANCELLED"},
    OVERDUE   |-> {"ACTIVE", "COMPLETED", "CANCELLED"},
    COMPLETED |-> {},
    CANCELLED |-> {} ]

(* A contract in one of these holds its car and has a running schedule. *)
LiveStatuses == {"ACTIVE", "OVERDUE"}

EndedStatuses == {"COMPLETED", "CANCELLED"}
=============================================================================
