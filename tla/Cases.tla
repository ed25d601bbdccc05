-------------------------------- MODULE Cases --------------------------------
(***************************************************************************)
(* What happens to a car beside its contracts: traffic fines, accidents    *)
(* with the repair and the insurer's claim, insurance policies; and the    *)
(* ledger entry each of them makes when money moves.                       *)
(*                                                                         *)
(* Every handler is a transaction that reads its case without a lock,      *)
(* decides, and writes by id, so each is a Read that fills request[s] and  *)
(* a Write.  Only the ledger, unique on what produced an entry, and the    *)
(* charge key of a recovered fine stand behind them.                       *)
(***************************************************************************)
EXTENDS Integers, CaseStatus

CONSTANTS
  Fine,      \* notices
  Accident,  \* crashes; the claim on one is named by it
  Policy,    \* insurance policies
  Staff,     \* people (browser sessions)
  Amount     \* bound: the sums bills, remittances and refunds can be, 0 included

VARIABLES
  fine,      \* status of each fine; NONE when there is no row
  linked,    \* fines with a recoveryInstallmentId
  charged,   \* fines with a `fine:<id>` charge and its instalment
  accident,  \* status of each accident
  repair,    \* repairNetFils
  claim,     \* status of the claim on each accident
  received,  \* receivedFils of that claim
  policy,    \* state of each policy
  refund,    \* refundFils
  ledger,    \* amount of each entry, by what produced it
  request    \* what each member of staff's running request has read

fines == <<fine, linked, charged>>
crashes == <<accident, repair, claim, received>>
covers == <<policy, refund>>
vars == <<fines, crashes, covers, ledger, request>>

None == -1
Sums == Amount \cup {None}
Idle == [op |-> "idle"]

Keys ==
  ({"cost.fine"} \X Fine)
  \cup ({"cost.repair", "revenue.insurance_claim"} \X Accident)
  \cup ({"cost.insurance", "InsurancePolicyRefund"} \X Policy)

Requests ==
  {Idle}
  \cup [op : {"fine"}, f : Fine, seen : FineStatuses, to : FineStatuses]
  \cup [op : {"recover"}, f : Fine, seen : FineStatuses]
  \cup [op : {"accident"}, a : Accident, seen : AccidentStatuses, to : AccidentStatuses]
  \cup [op : {"repair"}, a : Accident, seen : {None}, bill : Amount]
  \cup [op : {"claim"}, a : Accident, seen : ClaimStatuses, to : ClaimStatuses, got : Sums]
  \cup [op : {"cancel"}, p : Policy, seen : {"ACTIVE"}, back : Amount]

-----------------------------------------------------------------------------

Ask(s, r) == request[s] = Idle /\ request' = [request EXCEPT ![s] = r]
Respond(s) == request' = [request EXCEPT ![s] = Idle]

(* postToLedger: unique on what produced it; a second post is skipped. *)
Posted(key, amount) == IF ledger[key] = None THEN [ledger EXCEPT ![key] = amount] ELSE ledger

Init ==
  /\ fine = [f \in Fine |-> "NONE"]
  /\ linked = {} /\ charged = {}
  /\ accident = [a \in Accident |-> "NONE"]
  /\ repair = [a \in Accident |-> None]
  /\ claim = [a \in Accident |-> "NONE"]
  /\ received = [a \in Accident |-> None]
  /\ policy = [p \in Policy |-> "NONE"]
  /\ refund = [p \in Policy |-> None]
  /\ ledger = [k \in Keys |-> None]
  /\ request = [s \in Staff |-> Idle]

-----------------------------------------------------------------------------
(* Fines.  A penalty is one unit: no part of it is ever posted. *)

RecordFine(f) ==
  /\ fine[f] = "NONE"
  /\ fine' = [fine EXCEPT ![f] = "OPEN"]
  /\ UNCHANGED <<linked, charged, crashes, covers, ledger, request>>

(* transitionFine; RECOVERED is refused here, it "has its own path". *)
TransitionFineRead(s, f, to) ==
  /\ to \in FineMoves[fine[f]] \ {"RECOVERED"}
  /\ Ask(s, [op |-> "fine", f |-> f, seen |-> fine[f], to |-> to])
  /\ UNCHANGED <<fines, crashes, covers, ledger>>

(* Mutant: a disputed fine that is paid after all posts nothing. *)
FineCostIfOpen(r) == r.to = "PAID" /\ r.seen # "DISPUTED"

(* "posting the cost when - and only when - DrivenX pays the authority" *)
FineCost(r) == r.to = "PAID"

TransitionFineWrite(s) ==
  LET r == request[s] IN
  /\ r.op = "fine"
  /\ fine' = [fine EXCEPT ![r.f] = r.to]
  /\ ledger' = IF FineCost(r) THEN Posted(<<"cost.fine", r.f>>, 1) ELSE ledger
  /\ Respond(s)
  /\ UNCHANGED <<linked, charged, crashes, covers>>

(* recoverFine, the invoice apart (Billing). *)
RecoverFineRead(s, f) ==
  /\ "RECOVERED" \in FineMoves[fine[f]]
  /\ f \notin linked
  /\ Ask(s, [op |-> "recover", f |-> f, seen |-> fine[f]])
  /\ UNCHANGED <<fines, crashes, covers, ledger>>

(* A second charge under the key `fine:<id>` is refused (Abort). *)
RecoverFineWrite(s) ==
  LET r == request[s] IN
  /\ r.op = "recover"
  /\ r.f \notin charged
  /\ charged' = charged \cup {r.f}
  /\ linked' = linked \cup {r.f}
  /\ fine' = [fine EXCEPT ![r.f] = "RECOVERED"]
  /\ Respond(s)
  /\ UNCHANGED <<crashes, covers, ledger>>

-----------------------------------------------------------------------------
(* Accidents, repairs and claims. *)

RecordAccident(a) ==
  /\ accident[a] = "NONE"
  /\ accident' = [accident EXCEPT ![a] = "REPORTED"]
  /\ UNCHANGED <<fines, repair, claim, received, covers, ledger, request>>

TransitionAccidentRead(s, a, to) ==
  /\ to \in AccidentMoves[accident[a]]
  /\ Ask(s, [op |-> "accident", a |-> a, seen |-> accident[a], to |-> to])
  /\ UNCHANGED <<fines, crashes, covers, ledger>>

TransitionAccidentWrite(s) ==
  LET r == request[s] IN
  /\ r.op = "accident"
  /\ accident' = [accident EXCEPT ![r.a] = r.to]
  /\ Respond(s)
  /\ UNCHANGED <<fines, repair, claim, received, covers, ledger>>

RepairRead(s, a, bill) ==
  /\ accident[a] # "NONE" /\ repair[a] = None
  /\ Ask(s, [op |-> "repair", a |-> a, seen |-> repair[a], bill |-> bill])
  /\ UNCHANGED <<fines, crashes, covers, ledger>>

RepairWrite(s) ==
  LET r == request[s] IN
  /\ r.op = "repair"
  /\ repair' = [repair EXCEPT ![r.a] = r.bill]
  /\ ledger' = IF r.bill > 0 THEN Posted(<<"cost.repair", r.a>>, r.bill) ELSE ledger
  /\ Respond(s)
  /\ UNCHANGED <<fines, accident, claim, received, covers>>

(* lodgeClaim; a second for the accident is refused by its unique key. *)
LodgeClaim(a) ==
  /\ accident[a] # "NONE" /\ claim[a] = "NONE"
  /\ claim' = [claim EXCEPT ![a] = "LODGED"]
  /\ UNCHANGED <<fines, accident, repair, received, covers, ledger, request>>

(* transitionClaim; settling takes a figure, nothing else does. *)
TransitionClaimRead(s, a, to, got) ==
  /\ to \in ClaimMoves[claim[a]]
  /\ got = None <=> to # "SETTLED"
  /\ Ask(s, [op |-> "claim", a |-> a, seen |-> claim[a], to |-> to, got |-> got])
  /\ UNCHANGED <<fines, crashes, covers, ledger>>

TransitionClaimWrite(s) ==
  LET r == request[s] IN
  /\ r.op = "claim"
  /\ claim' = [claim EXCEPT ![r.a] = r.to]
  /\ received' = IF r.to = "SETTLED" THEN [received EXCEPT ![r.a] = r.got] ELSE received
  /\ ledger' = IF r.got > 0 THEN Posted(<<"revenue.insurance_claim", r.a>>, r.got) ELSE ledger
  /\ Respond(s)
  /\ UNCHANGED <<fines, accident, repair, covers>>

-----------------------------------------------------------------------------
(* Insurance policies. *)

CreatePolicy(p) ==
  /\ policy[p] = "NONE"
  /\ policy' = [policy EXCEPT ![p] = "ACTIVE"]
  /\ ledger' = Posted(<<"cost.insurance", p>>, 1)
  /\ UNCHANGED <<fines, crashes, refund, request>>

CancelPolicyRead(s, p, back) ==
  /\ policy[p] = "ACTIVE"
  /\ Ask(s, [op |-> "cancel", p |-> p, seen |-> policy[p], back |-> back])
  /\ UNCHANGED <<fines, crashes, covers, ledger>>

CancelPolicyWrite(s) ==
  LET r == request[s] IN
  /\ r.op = "cancel"
  /\ policy' = [policy EXCEPT ![r.p] = "CANCELLED"]
  /\ refund' = [refund EXCEPT ![r.p] = r.back]
  /\ ledger' = IF r.back > 0 THEN Posted(<<"InsurancePolicyRefund", r.p>>, r.back) ELSE ledger
  /\ Respond(s)
  /\ UNCHANGED <<fines, crashes>>

-----------------------------------------------------------------------------

(* A transaction that throws: nothing is written. *)
Abort(s) ==
  /\ request[s] # Idle
  /\ Respond(s)
  /\ UNCHANGED <<fines, crashes, covers, ledger>>

StaffStep(s) ==
  \/ \E f \in Fine : RecoverFineRead(s, f) \/ \E to \in FineStatuses : TransitionFineRead(s, f, to)
  \/ \E a \in Accident :
       \/ \E to \in AccidentStatuses : TransitionAccidentRead(s, a, to)
       \/ \E bill \in Amount : RepairRead(s, a, bill)
       \/ \E to \in ClaimStatuses, got \in Sums : TransitionClaimRead(s, a, to, got)
  \/ \E p \in Policy, back \in Amount : CancelPolicyRead(s, p, back)
  \/ TransitionFineWrite(s)
  \/ RecoverFineWrite(s)
  \/ TransitionAccidentWrite(s)
  \/ RepairWrite(s)
  \/ TransitionClaimWrite(s)
  \/ CancelPolicyWrite(s)
  \/ Abort(s)

Next ==
  \/ \E s \in Staff : StaffStep(s)
  \/ \E f \in Fine : RecordFine(f)
  \/ \E a \in Accident : RecordAccident(a) \/ LodgeClaim(a)
  \/ \E p \in Policy : CreatePolicy(p)

Spec == Init /\ [][Next]_vars

-----------------------------------------------------------------------------
(* Type correctness of the cases, the ledger and the running requests. *)
TypeOK ==
  /\ fine \in [Fine -> FineStatuses \cup {"NONE"}]
  /\ linked \subseteq Fine /\ charged \subseteq Fine
  /\ accident \in [Accident -> AccidentStatuses \cup {"NONE"}]
  /\ repair \in [Accident -> Sums]
  /\ claim \in [Accident -> ClaimStatuses \cup {"NONE"}]
  /\ received \in [Accident -> Sums]
  /\ policy \in [Policy -> {"NONE", "ACTIVE", "CANCELLED"}]
  /\ refund \in [Policy -> Sums]
  /\ ledger \in [Keys -> Sums]
  /\ request \in [Staff -> Requests]

(* Whatever races, money a case says has moved is in the ledger, and only  *)
(* once: a fine paid, a repair billed, a claim received, a refund agreed.  *)
MoneyIsBooked ==
  /\ \A f \in Fine : fine[f] \in CostedFineStatuses => ledger[<<"cost.fine", f>>] # None
  /\ \A a \in Accident :
       /\ repair[a] > 0 => ledger[<<"cost.repair", a>>] # None
       /\ received[a] > 0 => ledger[<<"revenue.insurance_claim", a>>] # None
  /\ \A p \in Policy :
       refund[p] > 0 => ledger[<<"InsurancePolicyRefund", p>>] # None

(* A case and its ledger entry tell the same story. *)
FineAgrees(f) == (fine[f] \in CostedFineStatuses) <=> (ledger[<<"cost.fine", f>>] # None)

Same(figure, key) == IF figure > 0 THEN ledger[key] = figure ELSE ledger[key] = None

ClaimAgrees(a) ==
  /\ Same(received[a], <<"revenue.insurance_claim", a>>)
  /\ received[a] # None => claim[a] = "SETTLED"

(* Only a request whose case was changed under it makes them disagree: two *)
(* people billing one repair, settling one claim, cancelling one policy or *)
(* deciding one fine at once.  The ledger then keeps what came first.      *)
OnlyOvertakenDisagrees ==
  [][/\ \A f \in Fine : FineAgrees(f) /\ ~FineAgrees(f)' =>
          \E s \in Staff : request[s].op = "fine" /\ request[s].f = f
                           /\ request[s].seen # fine[f]
     /\ \A a \in Accident :
          /\ LET k == <<"cost.repair", a>> IN
             Same(repair[a], k) /\ ~Same(repair[a], k)' =>
               \E s \in Staff : request[s].op = "repair" /\ request[s].a = a
                                /\ request[s].seen # repair[a]
          /\ ClaimAgrees(a) /\ ~ClaimAgrees(a)' =>
               \E s \in Staff : request[s].op = "claim" /\ request[s].a = a
                                /\ request[s].seen # claim[a]
     /\ \A p \in Policy :
          LET k == <<"InsurancePolicyRefund", p>> IN
          Same(refund[p], k) /\ ~Same(refund[p], k)' =>
            \E s \in Staff : request[s].op = "cancel" /\ request[s].p = p
                             /\ request[s].seen # policy[p]]_vars

-----------------------------------------------------------------------------
(* What the repository says and the code does not do.                      *)

(* "Recovery can be undone [...] which puts the fine back to paid and not  *)
(* yet recovered, where it can be recharged correctly."                    *)
PaidCanBeRecharged == \A f \in Fine : fine[f] = "PAID" => f \notin linked \cup charged
=============================================================================
