------------------------------ MODULE Payables ------------------------------
(***************************************************************************)
(* What DrivenX promises about the suppliers of its leased-in cars: a      *)
(* month's payable becomes a cost at most once, money is only ever added   *)
(* to what has been paid on it, never past what it bills, and one that has *)
(* become a cost or taken money is never dropped.                          *)
(***************************************************************************)
EXTENDS Naturals

CONSTANTS
  Payable,  \* months owed to a supplier
  Bills     \* what each bills, VAT included

VARIABLES
  owed,  \* the payables on the books
  cost,  \* those whose cost has been recognised
  spent  \* the money paid on each

vars == <<owed, cost, spent>>

Init == owed = {} /\ cost = {} /\ spent = [p \in Payable |-> 0]

(* A lease begins: some of its months may be a cost at once. *)
Write(P, due) ==
  /\ P \cap owed = {} /\ P \cap cost = {}
  /\ due \subseteq P
  /\ owed' = owed \cup P
  /\ cost' = cost \cup due
  /\ UNCHANGED spent

Recognise(P) ==
  /\ P \subseteq owed \ cost
  /\ cost' = cost \cup P
  /\ UNCHANGED <<owed, spent>>

Pay(p, amount) ==
  /\ p \in owed
  /\ spent[p] + amount <= Bills[p]
  /\ spent' = [spent EXCEPT ![p] = @ + amount]
  /\ UNCHANGED <<owed, cost>>

(* A lease ends early: the months it will not have are dropped. *)
Drop(P) ==
  /\ P \subseteq owed \ cost
  /\ \A p \in P : spent[p] = 0
  /\ owed' = owed \ P
  /\ UNCHANGED <<cost, spent>>

Next ==
  \/ \E P \in SUBSET Payable, due \in SUBSET Payable : Write(P, due)
  \/ \E P \in SUBSET Payable : Recognise(P) \/ Drop(P)
  \/ \E p \in Payable : \E amount \in 1..Bills[p] : Pay(p, amount)

Spec == Init /\ [][Next]_vars
=============================================================================
