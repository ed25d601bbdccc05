----------------------------- MODULE CarHolding -----------------------------
(***************************************************************************)
(* What the fleet promises about cars and contracts, with no transactions, *)
(* staff or status tables: a contract takes its car once, holds it alone,  *)
(* and gives it up for good when it ends; a car is out only while a        *)
(* contract holds it, though staff may bring it in before the end.         *)
(* Custody is shown to implement this specification.                       *)
(***************************************************************************)
CONSTANTS Contract, Vehicle, CarOf

VARIABLES held,      \* contracts that hold their car
          ended,     \* contracts that have given it up
          out        \* cars that are out with a customer

vars == <<held, ended, out>>

Init == held = {} /\ ended = {} /\ out = {}

(* A contract starts: no other contract holds the car, and it has not been *)
(* started before.  The car goes out with it.                              *)
Take(c) ==
  /\ c \notin held \cup ended
  /\ \A d \in held : CarOf[d] # CarOf[c]
  /\ held' = held \cup {c}
  /\ out' = out \cup {CarOf[c]}
  /\ UNCHANGED ended

(* The car comes in while its contract runs on. *)
ComeIn(v) ==
  /\ v \in out
  /\ out' = out \ {v}
  /\ UNCHANGED <<held, ended>>

(* The contract ends, and the car is not out any more. *)
Release(c) ==
  /\ c \in held
  /\ held' = held \ {c}
  /\ ended' = ended \cup {c}
  /\ out' = out \ {CarOf[c]}

Next == \/ \E c \in Contract : Take(c) \/ Release(c)
        \/ \E v \in Vehicle : ComeIn(v)

Spec == Init /\ [][Next]_vars
=============================================================================
