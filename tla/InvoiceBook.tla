----------------------------- MODULE InvoiceBook -----------------------------
(***************************************************************************)
(* What the tax authority and the accounts are promised about invoices,    *)
(* with no contracts, payments, nightly runs or races: lines are invoiced  *)
(* in batches that take the next numbers with no gap, a number once given  *)
(* stays with its line, and an invoiced line's revenue is taken back at    *)
(* most once and never reinstated.  Billing is shown to implement this.    *)
(***************************************************************************)
EXTENDS Integers

CONSTANT Line

VARIABLES number,      \* each line's invoice number, 0 while it has none
          last,        \* the last number given
          reversed     \* invoiced lines whose revenue was taken back

vars == <<number, last, reversed>>

Init == number = [l \in Line |-> 0] /\ last = 0 /\ reversed = {}

(* A batch of lines takes the numbers last+1 .. top between them. *)
Issue(D, top) ==
  /\ \A l \in D : number[l] = 0
  /\ top > last
  /\ last' = top
  /\ \A l \in Line \ D : number'[l] = number[l]
  /\ \A l \in D : number'[l] \in (last + 1) .. top
  /\ \A n \in (last + 1) .. top : \E l \in D : number'[l] = n
  /\ \A l, m \in D : number'[l] = number'[m] => l = m
  /\ UNCHANGED reversed

Reverse(l) ==
  /\ number[l] # 0
  /\ l \notin reversed
  /\ reversed' = reversed \cup {l}
  /\ UNCHANGED <<number, last>>

Next == \/ \E D \in SUBSET Line : Issue(D, last')
        \/ \E l \in Line : Reverse(l)

Spec == Init /\ [][Next]_vars
=============================================================================
