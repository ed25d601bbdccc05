------------------------------ MODULE MCBilling ------------------------------
(***************************************************************************)
(* Instances of Billing for TLC.  m1 and m2 are the months of contract c1, *)
(* m3 the month of c2; m2 bills two units, so that it can be part-paid.    *)
(***************************************************************************)
EXTENDS Billing, TLC

CONSTANTS c1, c2, m1, m2, m3, f1, f2, fin1, fin2, fee, discount, ann, bob, cron, byHand

MCFinalOf == [c \in Contract |-> IF c = c1 THEN fin1 ELSE fin2]
MCContractOf == [l \in Line |-> IF l \in {m3, fin2} THEN c2 ELSE c1]
MCDueOn == [l \in Month |-> IF l = m1 THEN 0 ELSE 1]
MCGross == [l \in Line |-> IF l = m2 THEN 2 ELSE 1]

(* Which of two people asks, and about which of two fines of a contract    *)
(* and an amount, makes no difference to a safety property.                *)
Symmetry == {s @@ f : s \in Permutations(Staff), f \in Permutations(Fine)}

(* A contract written at no monthly rental, as the forms allow: its one    *)
(* month bills nothing.                                                    *)
FreeGross == [l \in Line |-> IF l = m3 THEN 0 ELSE 1]
=============================================================================
