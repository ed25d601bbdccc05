----------------------------- MODULE CasesProofs -----------------------------
(***************************************************************************)
(* Theorems about Cases, for every set of fines, accidents, policies and   *)
(* staff, whatever requests overtake each other.                           *)
(***************************************************************************)
EXTENDS Cases, TLAPS

(* The bound on sums is one of money, a penalty's one unit among them.     *)
SumsAreMoney == Amount \subseteq Nat /\ 1 \in Amount

FineKey(f) == <<"cost.fine", f>>
RepairKey(a) == <<"cost.repair", a>>
ClaimKey(a) == <<"revenue.insurance_claim", a>>
RefundKey(p) == <<"InsurancePolicyRefund", p>>

(* What a running request read leaves true however long it waits: an entry *)
(* once posted stays, so a fine read as paid keeps its cost ...            *)
ReadsStand ==
  \A s \in Staff : LET r == request[s] IN
    /\ r.op = "fine" =>
         r.to \in FineMoves[r.seen] \ {"RECOVERED"}
         /\ (r.to \in CostedFineStatuses => r.to = "PAID" \/ ledger[FineKey(r.f)] # None)
    /\ r.op = "recover" => ledger[FineKey(r.f)] # None
    /\ r.op = "claim" => r.to \in ClaimMoves[r.seen] /\ (r.got = None <=> r.to # "SETTLED")

(* ... and a refund is written with the cancellation nothing undoes.       *)
RefundedIsCancelled == \A p \in Policy : refund[p] # None => policy[p] = "CANCELLED"

CasesInv == TypeOK /\ MoneyIsBooked /\ ReadsStand /\ RefundedIsCancelled

-----------------------------------------------------------------------------

(* The fields of a request, by kind. *)
LEMMA RequestFields ==
  ASSUME NEW r \in Requests
  PROVE  /\ r.op = "fine" => r.f \in Fine /\ r.seen \in FineStatuses /\ r.to \in FineStatuses
         /\ r.op = "recover" => r.f \in Fine /\ r.seen \in FineStatuses
         /\ r.op = "accident" => r.a \in Accident /\ r.to \in AccidentStatuses
         /\ r.op = "repair" => r.a \in Accident /\ r.seen = None /\ r.bill \in Amount
         /\ r.op = "claim" => /\ r.a \in Accident /\ r.to \in ClaimStatuses
                              /\ r.seen \in ClaimStatuses /\ r.got \in Sums
         /\ r.op = "cancel" => r.p \in Policy /\ r.seen = "ACTIVE" /\ r.back \in Amount
BY DEF Requests, Idle

(* What produced an entry names it alone. *)
LEMMA KeysDiffer ==
  /\ \A f \in Fine : FineKey(f) \in Keys
  /\ \A a \in Accident : RepairKey(a) \in Keys /\ ClaimKey(a) \in Keys
  /\ \A p \in Policy : RefundKey(p) \in Keys /\ <<"cost.insurance", p>> \in Keys
  /\ \A f, x : FineKey(f) = FineKey(x) => f = x
  /\ \A a, x : RepairKey(a) = RepairKey(x) => a = x
  /\ \A a, x : ClaimKey(a) = ClaimKey(x) => a = x
  /\ \A p, x : RefundKey(p) = RefundKey(x) => p = x
  /\ \A x, y : /\ FineKey(x) # RepairKey(y) /\ FineKey(x) # ClaimKey(y)
               /\ FineKey(x) # RefundKey(y) /\ FineKey(x) # <<"cost.insurance", y>>
               /\ RepairKey(x) # ClaimKey(y) /\ RepairKey(x) # RefundKey(y)
               /\ RepairKey(x) # <<"cost.insurance", y>>
               /\ ClaimKey(x) # RefundKey(y) /\ ClaimKey(x) # <<"cost.insurance", y>>
               /\ RefundKey(x) # <<"cost.insurance", y>>
BY DEF Keys, FineKey, RepairKey, ClaimKey, RefundKey

(* Posting: what was posted stays as it was, and the key has an entry. *)
LEMMA PostedFacts ==
  ASSUME SumsAreMoney, ledger \in [Keys -> Sums], NEW key \in Keys, NEW amount \in Amount,
         ledger' = Posted(key, amount)
  PROVE  /\ ledger' \in [Keys -> Sums]
         /\ \A k \in Keys : ledger[k] # None => ledger'[k] = ledger[k]
         /\ \A k \in Keys : k # key => ledger'[k] = ledger[k]
         /\ ledger'[key] # None
         /\ ledger[key] = None => ledger'[key] = amount
BY DEF SumsAreMoney, Posted, Sums, None

LEMMA TypeInit == Init => TypeOK
BY DEF Init, TypeOK, Sums, Requests

LEMMA TypeStep ==
  ASSUME SumsAreMoney, TypeOK, [Next]_vars
  PROVE  TypeOK'
<1> USE DEF TypeOK, fines, crashes, covers
<1>r. ASSUME NEW s \in Staff, NEW r \in Requests, Ask(s, r), UNCHANGED <<fines, crashes, covers, ledger>>
      PROVE  TypeOK'
  BY <1>r DEF Ask
<1>i. ASSUME NEW s \in Staff, Respond(s) PROVE request' \in [Staff -> Requests]
  BY <1>i DEF Respond, Requests
<1>1. CASE UNCHANGED vars
  BY <1>1 DEF vars
<1>2. ASSUME NEW s \in Staff, StaffStep(s) PROVE TypeOK'
  <2>1. ASSUME NEW f \in Fine, RecoverFineRead(s, f) PROVE TypeOK'
    <3>1. fine[f] \in FineStatuses
      BY <2>1 DEF RecoverFineRead, FineMoves
    <3>2. [op |-> "recover", f |-> f, seen |-> fine[f]] \in Requests
      BY <3>1 DEF Requests
    <3>. QED BY <1>r, <2>1, <3>2 DEF RecoverFineRead
  <2>2. ASSUME NEW f \in Fine, NEW to \in FineStatuses, TransitionFineRead(s, f, to) PROVE TypeOK'
    <3>1. fine[f] \in FineStatuses
      BY <2>2 DEF TransitionFineRead, FineMoves
    <3>2. [op |-> "fine", f |-> f, seen |-> fine[f], to |-> to] \in Requests
      BY <3>1 DEF Requests
    <3>. QED BY <1>r, <2>2, <3>2 DEF TransitionFineRead
  <2>3. ASSUME NEW a \in Accident, NEW to \in AccidentStatuses, TransitionAccidentRead(s, a, to)
        PROVE  TypeOK'
    <3>1. accident[a] \in AccidentStatuses
      BY <2>3 DEF TransitionAccidentRead, AccidentMoves
    <3>2. [op |-> "accident", a |-> a, seen |-> accident[a], to |-> to] \in Requests
      BY <3>1 DEF Requests
    <3>. QED BY <1>r, <2>3, <3>2 DEF TransitionAccidentRead
  <2>4. ASSUME NEW a \in Accident, NEW bill \in Amount, RepairRead(s, a, bill) PROVE TypeOK'
    <3>1. [op |-> "repair", a |-> a, seen |-> repair[a], bill |-> bill] \in Requests
      BY <2>4 DEF RepairRead, Requests
    <3>. QED BY <1>r, <2>4, <3>1 DEF RepairRead
  <2>5. ASSUME NEW a \in Accident, NEW to \in ClaimStatuses, NEW got \in Sums,
               TransitionClaimRead(s, a, to, got)
        PROVE  TypeOK'
    <3>1. claim[a] \in ClaimStatuses
      BY <2>5 DEF TransitionClaimRead, ClaimMoves
    <3>2. [op |-> "claim", a |-> a, seen |-> claim[a], to |-> to, got |-> got] \in Requests
      BY <3>1 DEF Requests
    <3>. QED BY <1>r, <2>5, <3>2 DEF TransitionClaimRead
  <2>6. ASSUME NEW p \in Policy, NEW back \in Amount, CancelPolicyRead(s, p, back) PROVE TypeOK'
    <3>1. [op |-> "cancel", p |-> p, seen |-> policy[p], back |-> back] \in Requests
      BY <2>6 DEF CancelPolicyRead, Requests
    <3>. QED BY <1>r, <2>6, <3>1 DEF CancelPolicyRead
  <2>7. CASE TransitionFineWrite(s)
    <3> DEFINE r == request[s]
    <3>1. r.f \in Fine /\ r.to \in FineStatuses
      BY <2>7, RequestFields DEF TransitionFineWrite
    <3>2. ledger' \in [Keys -> Sums]
      BY <2>7, <3>1, KeysDiffer, PostedFacts DEF TransitionFineWrite, FineKey, SumsAreMoney
    <3>. QED BY <1>i, <2>7, <3>1, <3>2 DEF TransitionFineWrite
  <2>8. CASE RecoverFineWrite(s)
    <3>1. request[s].f \in Fine
      BY <2>8, RequestFields DEF RecoverFineWrite
    <3>. QED BY <1>i, <2>8, <3>1 DEF RecoverFineWrite, FineStatuses
  <2>9. CASE TransitionAccidentWrite(s)
    <3>1. request[s].a \in Accident /\ request[s].to \in AccidentStatuses
      BY <2>9, RequestFields DEF TransitionAccidentWrite
    <3>. QED BY <1>i, <2>9, <3>1 DEF TransitionAccidentWrite
  <2>10. CASE RepairWrite(s)
    <3>1. request[s].a \in Accident /\ request[s].bill \in Amount
      BY <2>10, RequestFields DEF RepairWrite
    <3>2. ledger' \in [Keys -> Sums]
      BY <2>10, <3>1, KeysDiffer, PostedFacts DEF RepairWrite, RepairKey
    <3>. QED BY <1>i, <2>10, <3>1, <3>2 DEF RepairWrite, Sums
  <2>11. CASE TransitionClaimWrite(s)
    <3>1. /\ request[s].a \in Accident /\ request[s].to \in ClaimStatuses
          /\ request[s].got \in Sums
      BY <2>11, RequestFields DEF TransitionClaimWrite
    <3>2. request[s].got > 0 => request[s].got \in Amount
      BY <3>1 DEF Sums, None
    <3>3. ledger' \in [Keys -> Sums]
      BY <2>11, <3>1, <3>2, KeysDiffer, PostedFacts DEF TransitionClaimWrite, ClaimKey
    <3>. QED BY <1>i, <2>11, <3>1, <3>3 DEF TransitionClaimWrite
  <2>12. CASE CancelPolicyWrite(s)
    <3>1. request[s].p \in Policy /\ request[s].back \in Amount
      BY <2>12, RequestFields DEF CancelPolicyWrite
    <3>2. ledger' \in [Keys -> Sums]
      BY <2>12, <3>1, KeysDiffer, PostedFacts DEF CancelPolicyWrite, RefundKey
    <3>. QED BY <1>i, <2>12, <3>1, <3>2 DEF CancelPolicyWrite, Sums
  <2>13. CASE Abort(s)
    BY <1>i, <2>13 DEF Abort
  <2>. QED BY <1>2, <2>1, <2>2, <2>3, <2>4, <2>5, <2>6, <2>7, <2>8, <2>9, <2>10, <2>11, <2>12, <2>13
           DEF StaffStep
<1>3. ASSUME NEW f \in Fine, RecordFine(f) PROVE TypeOK'
  BY <1>3 DEF RecordFine, FineStatuses
<1>4. ASSUME NEW a \in Accident, RecordAccident(a) \/ LodgeClaim(a) PROVE TypeOK'
  BY <1>4 DEF RecordAccident, LodgeClaim, AccidentStatuses, ClaimStatuses
<1>5. ASSUME NEW p \in Policy, CreatePolicy(p) PROVE TypeOK'
  <2>1. ledger' \in [Keys -> Sums]
    BY <1>5, KeysDiffer, PostedFacts DEF CreatePolicy, SumsAreMoney
  <2>. QED BY <1>5, <2>1 DEF CreatePolicy
<1>. QED BY <1>1, <1>2, <1>3, <1>4, <1>5 DEF Next

(* Fines, accidents, policies, running requests and the sums in the ledger *)
(* keep their types, whichever of them meet.                               *)
THEOREM TypeCorrect == ASSUME SumsAreMoney PROVE Spec => []TypeOK
<1>1. TypeOK /\ [Next]_vars => TypeOK'
  BY TypeStep
<1>. QED BY <1>1, TypeInit, PTL DEF Spec

-----------------------------------------------------------------------------
(* What a step does to the ledger and to the requests.                     *)

Grows == \A k \in Keys : ledger[k] # None => ledger'[k] = ledger[k]

(* A request is as it was, over, or has just read.                         *)
FreshRead(s) ==
  LET r == request'[s] IN
  /\ UNCHANGED <<fines, crashes, covers, ledger>>
  /\ r.op = "fine" => /\ r.f \in Fine /\ r.seen = fine[r.f]
                      /\ r.to \in FineMoves[r.seen] \ {"RECOVERED"}
  /\ r.op = "recover" => r.f \in Fine /\ "RECOVERED" \in FineMoves[fine[r.f]]
  /\ r.op = "claim" => r.to \in ClaimMoves[r.seen] /\ (r.got = None <=> r.to # "SETTLED")

Requested == \A s \in Staff : request'[s] = request[s] \/ request'[s] = Idle \/ FreshRead(s)

LEMMA LedgerGrows ==
  ASSUME SumsAreMoney, TypeOK, Next
  PROVE  Grows
<1> USE DEF TypeOK
<1>1. ASSUME NEW s \in Staff, StaffStep(s) PROVE Grows
  <2>1. ledger' = ledger => Grows
    BY DEF Grows
  <2>2. CASE TransitionFineWrite(s)
    <3>1. request[s].f \in Fine
      BY <2>2, RequestFields DEF TransitionFineWrite
    <3>. QED BY <2>1, <2>2, <3>1, KeysDiffer, PostedFacts DEF TransitionFineWrite, FineKey, SumsAreMoney, Grows
  <2>3. CASE RepairWrite(s)
    <3>1. request[s].a \in Accident /\ request[s].bill \in Amount
      BY <2>3, RequestFields DEF RepairWrite
    <3>. QED BY <2>1, <2>3, <3>1, KeysDiffer, PostedFacts DEF RepairWrite, RepairKey, Grows
  <2>4. CASE TransitionClaimWrite(s)
    <3>1. request[s].a \in Accident /\ request[s].got \in Sums
      BY <2>4, RequestFields DEF TransitionClaimWrite
    <3>2. request[s].got > 0 => request[s].got \in Amount
      BY <3>1 DEF Sums, None
    <3>. QED BY <2>1, <2>4, <3>1, <3>2, KeysDiffer, PostedFacts DEF TransitionClaimWrite, ClaimKey, Grows
  <2>5. CASE CancelPolicyWrite(s)
    <3>1. request[s].p \in Policy /\ request[s].back \in Amount
      BY <2>5, RequestFields DEF CancelPolicyWrite
    <3>. QED BY <2>1, <2>5, <3>1, KeysDiffer, PostedFacts DEF CancelPolicyWrite, RefundKey, Grows
  <2>6. CASE UNCHANGED ledger
    BY <2>1, <2>6
  <2>. QED BY <1>1, <2>2, <2>3, <2>4, <2>5, <2>6
           DEF StaffStep, RecoverFineRead, TransitionFineRead, TransitionAccidentRead, RepairRead,
               TransitionClaimRead, CancelPolicyRead, RecoverFineWrite, TransitionAccidentWrite, Abort
<1>2. ASSUME NEW p \in Policy, CreatePolicy(p) PROVE Grows
  BY <1>2, KeysDiffer, PostedFacts DEF CreatePolicy, SumsAreMoney, Grows
<1>3. ASSUME NEW f \in Fine, RecordFine(f) PROVE Grows
  BY <1>3 DEF RecordFine, Grows
<1>4. ASSUME NEW a \in Accident, RecordAccident(a) \/ LodgeClaim(a) PROVE Grows
  BY <1>4 DEF RecordAccident, LodgeClaim, Grows
<1>. QED BY <1>1, <1>2, <1>3, <1>4 DEF Next

LEMMA RequestsStep ==
  ASSUME TypeOK, Next
  PROVE  Requested
<1> USE DEF TypeOK
<1>q. request' = request => Requested
  BY DEF Requested
<1>1. ASSUME NEW s \in Staff, StaffStep(s) PROVE Requested
  <2>w. ASSUME Respond(s) PROVE Requested
    BY <2>w DEF Respond, Requested
  <2>r. ASSUME NEW r, Ask(s, r), UNCHANGED <<fines, crashes, covers, ledger>>,
               r.op = "fine" => /\ r.f \in Fine /\ r.seen = fine[r.f]
                                /\ r.to \in FineMoves[r.seen] \ {"RECOVERED"},
               r.op = "recover" => r.f \in Fine /\ "RECOVERED" \in FineMoves[fine[r.f]],
               r.op = "claim" => r.to \in ClaimMoves[r.seen] /\ (r.got = None <=> r.to # "SETTLED")
        PROVE  Requested
    <3>1. request'[s] = r /\ \A u \in Staff \ {s} : request'[u] = request[u]
      BY <2>r DEF Ask
    <3>. QED BY <2>r, <3>1 DEF Requested, FreshRead
  <2>1. ASSUME NEW f \in Fine, RecoverFineRead(s, f) PROVE Requested
    BY <2>1, <2>r DEF RecoverFineRead
  <2>2. ASSUME NEW f \in Fine, NEW to \in FineStatuses, TransitionFineRead(s, f, to) PROVE Requested
    BY <2>2, <2>r DEF TransitionFineRead
  <2>3. ASSUME NEW a \in Accident, NEW to \in AccidentStatuses, TransitionAccidentRead(s, a, to)
        PROVE  Requested
    BY <2>3, <2>r DEF TransitionAccidentRead
  <2>4. ASSUME NEW a \in Accident, NEW bill \in Amount, RepairRead(s, a, bill) PROVE Requested
    BY <2>4, <2>r DEF RepairRead
  <2>5. ASSUME NEW a \in Accident, NEW to \in ClaimStatuses, NEW got \in Sums,
               TransitionClaimRead(s, a, to, got)
        PROVE  Requested
    BY <2>5, <2>r DEF TransitionClaimRead
  <2>6. ASSUME NEW p \in Policy, NEW back \in Amount, CancelPolicyRead(s, p, back) PROVE Requested
    BY <2>6, <2>r DEF CancelPolicyRead
  <2>. QED BY <1>1, <2>w, <2>1, <2>2, <2>3, <2>4, <2>5, <2>6
           DEF StaffStep, TransitionFineWrite, RecoverFineWrite, TransitionAccidentWrite, RepairWrite,
               TransitionClaimWrite, CancelPolicyWrite, Abort
<1>. QED BY <1>q, <1>1 DEF Next, RecordFine, RecordAccident, LodgeClaim, CreatePolicy

-----------------------------------------------------------------------------
(* What a step does to a case and to its entry: nothing, or what the       *)
(* request that decides it says.                                           *)
Decided(key, amount) ==
  IF amount > 0 THEN /\ ledger'[key] # None
                     /\ ledger[key] = None => ledger'[key] = amount
                ELSE ledger'[key] = ledger[key]

FineEffect(f) ==
  \/ fine'[f] = fine[f] /\ ledger'[FineKey(f)] = ledger[FineKey(f)]
  \/ fine[f] = "NONE" /\ fine'[f] = "OPEN" /\ ledger'[FineKey(f)] = ledger[FineKey(f)]
  \/ \E s \in Staff : LET r == request[s] IN
       /\ r.op = "fine" /\ r.f = f
       /\ fine'[f] = r.to
       /\ Decided(FineKey(f), IF r.to = "PAID" THEN 1 ELSE 0)
  \/ /\ \E s \in Staff : request[s].op = "recover" /\ request[s].f = f
     /\ fine'[f] = "RECOVERED" /\ ledger'[FineKey(f)] = ledger[FineKey(f)]

RepairEffect(a) ==
  \/ repair'[a] = repair[a] /\ ledger'[RepairKey(a)] = ledger[RepairKey(a)]
  \/ \E s \in Staff : LET r == request[s] IN
       /\ r.op = "repair" /\ r.a = a
       /\ repair'[a] = r.bill
       /\ Decided(RepairKey(a), r.bill)

ClaimEffect(a) ==
  \/ /\ received'[a] = received[a] /\ ledger'[ClaimKey(a)] = ledger[ClaimKey(a)]
     /\ claim'[a] = claim[a] \/ claim[a] = "NONE"
  \/ \E s \in Staff : LET r == request[s] IN
       /\ r.op = "claim" /\ r.a = a
       /\ claim'[a] = r.to
       /\ received'[a] = IF r.to = "SETTLED" THEN r.got ELSE received[a]
       /\ Decided(ClaimKey(a), r.got)

PolicyEffect(p) ==
  \/ /\ refund'[p] = refund[p] /\ ledger'[RefundKey(p)] = ledger[RefundKey(p)]
     /\ policy'[p] = policy[p] \/ policy[p] = "NONE"
  \/ \E s \in Staff : LET r == request[s] IN
       /\ r.op = "cancel" /\ r.p = p
       /\ policy'[p] = "CANCELLED" /\ refund'[p] = r.back
       /\ Decided(RefundKey(p), r.back)

Effects ==
  /\ \A f \in Fine : FineEffect(f)
  /\ \A a \in Accident : RepairEffect(a) /\ ClaimEffect(a)
  /\ \A p \in Policy : PolicyEffect(p)

(* Posting an amount, or nothing when there is none, decides an entry.     *)
LEMMA PostedDecides ==
  ASSUME SumsAreMoney, TypeOK, NEW key \in Keys, NEW amount \in Sums,
         ledger' = IF amount > 0 THEN Posted(key, amount) ELSE ledger
  PROVE  /\ Decided(key, amount)
         /\ \A k \in Keys : k # key => ledger'[k] = ledger[k]
<1>1. CASE amount > 0
  <2>1. amount \in Amount
    BY <1>1 DEF Sums, None
  <2>. QED BY <1>1, <2>1, PostedFacts DEF Decided, TypeOK
<1>2. CASE ~(amount > 0)
  BY <1>2 DEF Decided
<1>. QED BY <1>1, <1>2

LEMMA EffectsStep ==
  ASSUME SumsAreMoney, TypeOK, Next
  PROVE  Effects
<1> USE DEF TypeOK
<1> DEFINE FinesKept == \A f \in Fine : FineEffect(f)
           RepairsKept == \A a \in Accident : RepairEffect(a)
           ClaimsKept == \A a \in Accident : ClaimEffect(a)
           PoliciesKept == \A p \in Policy : PolicyEffect(p)
<1>f. ASSUME UNCHANGED fine, \A f \in Fine : ledger'[FineKey(f)] = ledger[FineKey(f)]
      PROVE  FinesKept
  BY <1>f DEF FineEffect
<1>r. ASSUME UNCHANGED repair, \A a \in Accident : ledger'[RepairKey(a)] = ledger[RepairKey(a)]
      PROVE  RepairsKept
  BY <1>r DEF RepairEffect
<1>c. ASSUME UNCHANGED <<claim, received>>, \A a \in Accident : ledger'[ClaimKey(a)] = ledger[ClaimKey(a)]
      PROVE  ClaimsKept
  BY <1>c DEF ClaimEffect
<1>p. ASSUME UNCHANGED <<policy, refund>>, \A p \in Policy : ledger'[RefundKey(p)] = ledger[RefundKey(p)]
      PROVE  PoliciesKept
  BY <1>p DEF PolicyEffect
<1>e. FinesKept /\ RepairsKept /\ ClaimsKept /\ PoliciesKept => Effects
  BY DEF Effects
<1> HIDE DEF FinesKept, RepairsKept, ClaimsKept, PoliciesKept
<1>q. ASSUME UNCHANGED <<fines, crashes, covers, ledger>> PROVE Effects
  BY <1>q, <1>f, <1>r, <1>c, <1>p, <1>e DEF fines, crashes, covers
<1>1. ASSUME NEW s \in Staff, TransitionFineWrite(s) PROVE Effects
  <2> DEFINE r == request[s]
  <2>1. r.op = "fine" /\ r.f \in Fine /\ FineKey(r.f) \in Keys
    BY <1>1, RequestFields, KeysDiffer DEF TransitionFineWrite
  <2>2. ledger' = IF (IF r.to = "PAID" THEN 1 ELSE 0) > 0
                    THEN Posted(FineKey(r.f), IF r.to = "PAID" THEN 1 ELSE 0) ELSE ledger
    BY <1>1 DEF TransitionFineWrite, FineCost, FineKey
  <2>3. CASE r.to = "PAID"
    <3>1. /\ Decided(FineKey(r.f), 1)
          /\ \A k \in Keys : k # FineKey(r.f) => ledger'[k] = ledger[k]
      BY <2>1, <2>2, <2>3, PostedDecides DEF Sums, SumsAreMoney
    <3>2. /\ \A f \in Fine \ {r.f} : ledger'[FineKey(f)] = ledger[FineKey(f)]
          /\ \A a \in Accident : ledger'[RepairKey(a)] = ledger[RepairKey(a)]
          /\ \A a \in Accident : ledger'[ClaimKey(a)] = ledger[ClaimKey(a)]
          /\ \A p \in Policy : ledger'[RefundKey(p)] = ledger[RefundKey(p)]
      BY <3>1, KeysDiffer
    <3>3. FinesKept
      BY <1>1, <2>1, <2>3, <3>1, <3>2 DEF FinesKept, FineEffect, TransitionFineWrite
    <3>4. RepairsKept /\ ClaimsKept /\ PoliciesKept
      BY <1>1, <1>r, <1>c, <1>p, <3>2 DEF TransitionFineWrite, crashes, covers
    <3>. QED BY <1>e, <3>3, <3>4
  <2>4. CASE r.to # "PAID"
    <3>1. ledger' = ledger
      BY <2>2, <2>4
    <3>2. FinesKept
      BY <1>1, <2>1, <2>4, <3>1 DEF FinesKept, FineEffect, TransitionFineWrite, Decided
    <3>3. RepairsKept /\ ClaimsKept /\ PoliciesKept
      BY <1>1, <1>r, <1>c, <1>p, <3>1 DEF TransitionFineWrite, crashes, covers
    <3>. QED BY <1>e, <3>2, <3>3
  <2>. QED BY <2>3, <2>4
<1>2. ASSUME NEW s \in Staff, RecoverFineWrite(s) PROVE Effects
  <2>1. request[s].f \in Fine
    BY <1>2, RequestFields DEF RecoverFineWrite
  <2>2. FinesKept
    BY <1>2, <2>1 DEF FinesKept, FineEffect, RecoverFineWrite
  <2>3. RepairsKept /\ ClaimsKept /\ PoliciesKept
    BY <1>2, <1>r, <1>c, <1>p DEF RecoverFineWrite, crashes, covers
  <2>. QED BY <1>e, <2>2, <2>3
<1>3. ASSUME NEW s \in Staff, RepairWrite(s) PROVE Effects
  <2> DEFINE r == request[s]
  <2>1. r.op = "repair" /\ r.a \in Accident /\ r.bill \in Sums /\ RepairKey(r.a) \in Keys
    BY <1>3, RequestFields, KeysDiffer DEF RepairWrite, Sums
  <2>2. ledger' = IF r.bill > 0 THEN Posted(RepairKey(r.a), r.bill) ELSE ledger
    BY <1>3 DEF RepairWrite, RepairKey
  <2>3. /\ Decided(RepairKey(r.a), r.bill)
        /\ \A k \in Keys : k # RepairKey(r.a) => ledger'[k] = ledger[k]
    BY <2>1, <2>2, PostedDecides
  <2>4. /\ \A f \in Fine : ledger'[FineKey(f)] = ledger[FineKey(f)]
        /\ \A a \in Accident \ {r.a} : ledger'[RepairKey(a)] = ledger[RepairKey(a)]
        /\ \A a \in Accident : ledger'[ClaimKey(a)] = ledger[ClaimKey(a)]
        /\ \A p \in Policy : ledger'[RefundKey(p)] = ledger[RefundKey(p)]
    BY <2>3, KeysDiffer
  <2>5. RepairsKept
    BY <1>3, <2>1, <2>3, <2>4 DEF RepairsKept, RepairEffect, RepairWrite
  <2>6. FinesKept /\ ClaimsKept /\ PoliciesKept
    BY <1>3, <1>f, <1>c, <1>p, <2>4 DEF RepairWrite, fines, covers
  <2>. QED BY <1>e, <2>5, <2>6
<1>4. ASSUME NEW s \in Staff, TransitionClaimWrite(s) PROVE Effects
  <2> DEFINE r == request[s]
  <2>1. r.op = "claim" /\ r.a \in Accident /\ r.got \in Sums /\ ClaimKey(r.a) \in Keys
    BY <1>4, RequestFields, KeysDiffer DEF TransitionClaimWrite
  <2>2. ledger' = IF r.got > 0 THEN Posted(ClaimKey(r.a), r.got) ELSE ledger
    BY <1>4 DEF TransitionClaimWrite, ClaimKey
  <2>3. /\ Decided(ClaimKey(r.a), r.got)
        /\ \A k \in Keys : k # ClaimKey(r.a) => ledger'[k] = ledger[k]
    BY <2>1, <2>2, PostedDecides
  <2>4. /\ \A f \in Fine : ledger'[FineKey(f)] = ledger[FineKey(f)]
        /\ \A a \in Accident : ledger'[RepairKey(a)] = ledger[RepairKey(a)]
        /\ \A a \in Accident \ {r.a} : ledger'[ClaimKey(a)] = ledger[ClaimKey(a)]
        /\ \A p \in Policy : ledger'[RefundKey(p)] = ledger[RefundKey(p)]
    BY <2>3, KeysDiffer
  <2>5. /\ claim' = [claim EXCEPT ![r.a] = r.to]
        /\ received' = IF r.to = "SETTLED" THEN [received EXCEPT ![r.a] = r.got] ELSE received
    BY <1>4 DEF TransitionClaimWrite
  <2>6. ClaimEffect(r.a)
    BY <2>1, <2>3, <2>5 DEF ClaimEffect
  <2>7. \A a \in Accident \ {r.a} : ClaimEffect(a)
    BY <2>4, <2>5 DEF ClaimEffect
  <2>8. ClaimsKept
    BY <2>6, <2>7 DEF ClaimsKept
  <2>9. FinesKept /\ RepairsKept /\ PoliciesKept
    BY <1>4, <1>f, <1>r, <1>p, <2>4 DEF TransitionClaimWrite, fines, covers
  <2>. QED BY <1>e, <2>8, <2>9
<1>5. ASSUME NEW s \in Staff, CancelPolicyWrite(s) PROVE Effects
  <2> DEFINE r == request[s]
  <2>1. r.op = "cancel" /\ r.p \in Policy /\ r.back \in Sums /\ RefundKey(r.p) \in Keys
    BY <1>5, RequestFields, KeysDiffer DEF CancelPolicyWrite, Sums
  <2>2. ledger' = IF r.back > 0 THEN Posted(RefundKey(r.p), r.back) ELSE ledger
    BY <1>5 DEF CancelPolicyWrite, RefundKey
  <2>3. /\ Decided(RefundKey(r.p), r.back)
        /\ \A k \in Keys : k # RefundKey(r.p) => ledger'[k] = ledger[k]
    BY <2>1, <2>2, PostedDecides
  <2>4. /\ \A f \in Fine : ledger'[FineKey(f)] = ledger[FineKey(f)]
        /\ \A a \in Accident : ledger'[RepairKey(a)] = ledger[RepairKey(a)]
        /\ \A a \in Accident : ledger'[ClaimKey(a)] = ledger[ClaimKey(a)]
        /\ \A p \in Policy \ {r.p} : ledger'[RefundKey(p)] = ledger[RefundKey(p)]
    BY <2>3, KeysDiffer
  <2>5. PoliciesKept
    BY <1>5, <2>1, <2>3, <2>4 DEF PoliciesKept, PolicyEffect, CancelPolicyWrite
  <2>6. FinesKept /\ RepairsKept /\ ClaimsKept
    BY <1>5, <1>f, <1>r, <1>c, <2>4 DEF CancelPolicyWrite, fines, crashes
  <2>. QED BY <1>e, <2>5, <2>6
<1>6. ASSUME NEW s \in Staff, TransitionAccidentWrite(s) PROVE Effects
  BY <1>6, <1>f, <1>r, <1>c, <1>p, <1>e DEF TransitionAccidentWrite, fines, covers
<1>7. ASSUME NEW s \in Staff, StaffStep(s) PROVE Effects
  BY <1>7, <1>q, <1>1, <1>2, <1>3, <1>4, <1>5, <1>6
     DEF StaffStep, RecoverFineRead, TransitionFineRead, TransitionAccidentRead, RepairRead,
         TransitionClaimRead, CancelPolicyRead, Abort
<1>8. ASSUME NEW f \in Fine, RecordFine(f) PROVE Effects
  <2>1. FinesKept
    BY <1>8 DEF FinesKept, FineEffect, RecordFine
  <2>. QED BY <1>8, <1>r, <1>c, <1>p, <1>e, <2>1 DEF RecordFine, crashes, covers
<1>9. ASSUME NEW a \in Accident, RecordAccident(a) PROVE Effects
  BY <1>9, <1>f, <1>r, <1>c, <1>p, <1>e DEF RecordAccident, fines, covers
<1>10. ASSUME NEW a \in Accident, LodgeClaim(a) PROVE Effects
  <2>1. ClaimsKept
    BY <1>10 DEF ClaimsKept, ClaimEffect, LodgeClaim
  <2>. QED BY <1>10, <1>f, <1>r, <1>p, <1>e, <2>1 DEF LodgeClaim, fines, covers
<1>11. ASSUME NEW p \in Policy, CreatePolicy(p) PROVE Effects
  <2>1. \A k \in Keys : k # <<"cost.insurance", p>> => ledger'[k] = ledger[k]
    BY <1>11, KeysDiffer, PostedFacts DEF CreatePolicy, SumsAreMoney
  <2>2. /\ \A f \in Fine : ledger'[FineKey(f)] = ledger[FineKey(f)]
        /\ \A a \in Accident : ledger'[RepairKey(a)] = ledger[RepairKey(a)]
        /\ \A a \in Accident : ledger'[ClaimKey(a)] = ledger[ClaimKey(a)]
        /\ \A q \in Policy : ledger'[RefundKey(q)] = ledger[RefundKey(q)]
    BY <2>1, KeysDiffer
  <2>3. PoliciesKept
    BY <1>11, <2>2 DEF PoliciesKept, PolicyEffect, CreatePolicy
  <2>. QED BY <1>11, <1>f, <1>r, <1>c, <1>e, <2>2, <2>3 DEF CreatePolicy, fines, crashes
<1>. QED BY <1>7, <1>8, <1>9, <1>10, <1>11 DEF Next

-----------------------------------------------------------------------------

LEMMA InvInit == Init => CasesInv
<1> SUFFICES ASSUME Init PROVE CasesInv
  OBVIOUS
<1>1. MoneyIsBooked
  BY DEF Init, MoneyIsBooked, CostedFineStatuses, None
<1>2. ReadsStand /\ RefundedIsCancelled
  BY DEF Init, ReadsStand, RefundedIsCancelled, Idle
<1>. QED BY <1>1, <1>2, TypeInit DEF CasesInv

LEMMA MoneyStep ==
  ASSUME SumsAreMoney, CasesInv, TypeOK', Grows, Effects
  PROVE  MoneyIsBooked' /\ RefundedIsCancelled'
<1> USE DEF CasesInv
<1>k. ASSUME NEW k \in Keys, ledger[k] # None PROVE ledger'[k] # None
  BY <1>k DEF Grows
<1>1. ASSUME NEW f \in Fine, fine'[f] \in CostedFineStatuses PROVE ledger'[FineKey(f)] # None
  <2>1. FineKey(f) \in Keys
    BY KeysDiffer
  <2>2. CASE fine[f] \in CostedFineStatuses
    BY <1>k, <2>1, <2>2 DEF MoneyIsBooked, FineKey
  <2>3. ASSUME NEW s \in Staff, request[s].op = "fine", request[s].f = f, fine'[f] = request[s].to,
               Decided(FineKey(f), IF request[s].to = "PAID" THEN 1 ELSE 0)
        PROVE  ledger'[FineKey(f)] # None
    BY <1>k, <1>1, <2>1, <2>3 DEF ReadsStand, Decided
  <2>4. CASE \E s \in Staff : request[s].op = "recover" /\ request[s].f = f
    BY <1>k, <2>1, <2>4 DEF ReadsStand
  <2>. QED BY <1>1, <2>2, <2>3, <2>4 DEF Effects, FineEffect, CostedFineStatuses
<1>2. ASSUME NEW a \in Accident, repair'[a] > 0 PROVE ledger'[RepairKey(a)] # None
  BY <1>2 DEF Effects, RepairEffect, Decided, MoneyIsBooked, RepairKey
<1>3. ASSUME NEW a \in Accident, received'[a] > 0 PROVE ledger'[ClaimKey(a)] # None
  <2>1. ClaimKey(a) \in Keys
    BY KeysDiffer
  <2>2. CASE received'[a] = received[a]
    BY <1>k, <1>3, <2>1, <2>2 DEF MoneyIsBooked, ClaimKey
  <2>. QED BY <1>3, <2>2 DEF Effects, ClaimEffect, Decided
<1>4. ASSUME NEW p \in Policy, refund'[p] > 0 PROVE ledger'[RefundKey(p)] # None
  BY <1>4 DEF Effects, PolicyEffect, Decided, MoneyIsBooked, RefundKey
<1>5. MoneyIsBooked'
  BY <1>1, <1>2, <1>3, <1>4 DEF MoneyIsBooked, FineKey, RepairKey, ClaimKey, RefundKey
<1>6. RefundedIsCancelled'
  BY DEF Effects, PolicyEffect, RefundedIsCancelled
<1>. QED BY <1>5, <1>6

LEMMA ReadsStep ==
  ASSUME CasesInv, Grows, Requested
  PROVE  ReadsStand'
<1> USE DEF CasesInv
<1> SUFFICES ASSUME NEW s \in Staff
    PROVE  LET r == request'[s] IN
      /\ r.op = "fine" =>
           r.to \in FineMoves[r.seen] \ {"RECOVERED"}
           /\ (r.to \in CostedFineStatuses => r.to = "PAID" \/ ledger'[FineKey(r.f)] # None)
      /\ r.op = "recover" => ledger'[FineKey(r.f)] # None
      /\ r.op = "claim" => r.to \in ClaimMoves[r.seen] /\ (r.got = None <=> r.to # "SETTLED")
  BY DEF ReadsStand
<1>k. ASSUME NEW f \in Fine, ledger[FineKey(f)] # None PROVE ledger'[FineKey(f)] # None
  BY <1>k, KeysDiffer DEF Grows
<1>1. CASE request'[s] = request[s]
  <2>1. request[s].op \in {"fine", "recover"} => request[s].f \in Fine
    BY RequestFields DEF TypeOK
  <2>. QED BY <1>1, <1>k, <2>1 DEF ReadsStand
<1>2. CASE request'[s] = Idle
  BY <1>2 DEF Idle
<1>3. CASE FreshRead(s)
  <2> DEFINE r == request'[s]
  <2>1. ASSUME r.op = "fine", r.to \in CostedFineStatuses PROVE r.to = "PAID" \/ ledger'[FineKey(r.f)] # None
    <3>1. r.f \in Fine /\ r.to \in FineMoves[fine[r.f]] \ {"RECOVERED"}
      BY <1>3, <2>1 DEF FreshRead
    <3>2. CASE r.to = "WAIVED"
      <4>1. fine[r.f] = "PAID"
        BY <3>1, <3>2 DEF FineMoves, FineStatuses, TypeOK
      <4>. QED BY <1>k, <3>1, <4>1 DEF MoneyIsBooked, CostedFineStatuses, FineKey
    <3>. QED BY <2>1, <3>1, <3>2 DEF CostedFineStatuses
  <2>2. ASSUME r.op = "recover" PROVE ledger'[FineKey(r.f)] # None
    <3>1. r.f \in Fine /\ "RECOVERED" \in FineMoves[fine[r.f]]
      BY <1>3, <2>2 DEF FreshRead
    <3>2. fine[r.f] = "PAID"
      BY <3>1 DEF FineMoves, FineStatuses, TypeOK
    <3>. QED BY <1>k, <3>1, <3>2 DEF MoneyIsBooked, CostedFineStatuses, FineKey
  <2>. QED BY <1>3, <2>1, <2>2 DEF FreshRead
<1>. QED BY <1>1, <1>2, <1>3 DEF Requested

LEMMA InvStep ==
  ASSUME SumsAreMoney, CasesInv, [Next]_vars
  PROVE  CasesInv'
<1>1. CASE Next
  <2>1. TypeOK /\ TypeOK'
    BY <1>1, TypeStep DEF CasesInv
  <2>2. Grows /\ Requested /\ Effects
    BY <1>1, <2>1, LedgerGrows, RequestsStep, EffectsStep
  <2>3. MoneyIsBooked' /\ RefundedIsCancelled'
    BY <2>1, <2>2, MoneyStep
  <2>. QED BY <2>1, <2>2, <2>3, ReadsStep DEF CasesInv
<1>2. CASE UNCHANGED vars
  BY <1>2, TypeStep DEF CasesInv, vars, fines, crashes, covers, MoneyIsBooked, ReadsStand,
                        RefundedIsCancelled
<1>. QED BY <1>1, <1>2

LEMMA InvHolds == ASSUME SumsAreMoney PROVE Spec => []CasesInv
<1>1. CasesInv /\ [Next]_vars => CasesInv'
  BY InvStep
<1>. QED BY <1>1, InvInit, PTL DEF Spec

(* Money a case says has moved - a fine paid, a repair billed, a claim     *)
(* received, a refund agreed - is in the ledger, whichever of two requests *)
(* on it committed first (transitionFine, recordRepair, transitionClaim,   *)
(* cancelPolicy).                                                          *)
THEOREM MoneyBooked == ASSUME SumsAreMoney PROVE Spec => []MoneyIsBooked
<1>1. CasesInv => MoneyIsBooked
  BY DEF CasesInv
<1>. QED BY <1>1, InvHolds, PTL

-----------------------------------------------------------------------------
(* A request that was not overtaken leaves its case and entry agreed.      *)

LEMMA FineStaysAgreed ==
  ASSUME CasesInv, Grows, NEW f \in Fine, FineEffect(f), FineAgrees(f),
         \A s \in Staff : request[s].op = "fine" /\ request[s].f = f => request[s].seen = fine[f]
  PROVE  FineAgrees(f)'
<1> USE DEF CasesInv
<1>1. FineKey(f) \in Keys
  BY KeysDiffer
<1>2. (fine[f] \in CostedFineStatuses) <=> (ledger[FineKey(f)] # None)
  BY DEF FineAgrees, FineKey
<1>3. ASSUME NEW s \in Staff, request[s].op = "fine", request[s].f = f, fine'[f] = request[s].to,
             Decided(FineKey(f), IF request[s].to = "PAID" THEN 1 ELSE 0)
      PROVE  (fine'[f] \in CostedFineStatuses) <=> (ledger'[FineKey(f)] # None)
  <2>1. request[s].to \in FineMoves[fine[f]] \ {"RECOVERED"}
    BY <1>3 DEF ReadsStand
  <2>2. CASE request[s].to = "PAID"
    BY <1>3, <2>2 DEF Decided, CostedFineStatuses
  <2>3. CASE request[s].to = "WAIVED"
    <3>1. fine[f] = "PAID"
      BY <2>1, <2>3 DEF FineMoves, FineStatuses, TypeOK
    <3>. QED BY <1>2, <1>3, <2>3, <3>1 DEF Decided, CostedFineStatuses
  <2>4. CASE request[s].to \notin {"PAID", "WAIVED"}
    <3>1. fine[f] \notin CostedFineStatuses
      BY <2>1, <2>4 DEF FineMoves, FineStatuses, TypeOK, CostedFineStatuses
    <3>2. request[s].to \notin CostedFineStatuses
      BY <2>1, <2>4 DEF CostedFineStatuses
    <3>. QED BY <1>2, <1>3, <2>4, <3>1, <3>2 DEF Decided
  <2>. QED BY <2>2, <2>3, <2>4
<1>4. ASSUME NEW s \in Staff, request[s].op = "recover", request[s].f = f,
             fine'[f] = "RECOVERED", ledger'[FineKey(f)] = ledger[FineKey(f)]
      PROVE  (fine'[f] \in CostedFineStatuses) <=> (ledger'[FineKey(f)] # None)
  BY <1>4 DEF ReadsStand, CostedFineStatuses
<1>5. (fine'[f] \in CostedFineStatuses) <=> (ledger'[FineKey(f)] # None)
  BY <1>2, <1>3, <1>4 DEF FineEffect, CostedFineStatuses
<1>. QED BY <1>5 DEF FineAgrees, FineKey

LEMMA RepairStaysAgreed ==
  ASSUME SumsAreMoney, CasesInv, NEW a \in Accident, RepairEffect(a), Same(repair[a], RepairKey(a)),
         \A s \in Staff : request[s].op = "repair" /\ request[s].a = a => request[s].seen = repair[a]
  PROVE  Same(repair[a], RepairKey(a))'
<1> USE DEF CasesInv
<1>1. ASSUME NEW s \in Staff, request[s].op = "repair", request[s].a = a,
             repair'[a] = request[s].bill, Decided(RepairKey(a), request[s].bill)
      PROVE  IF repair'[a] > 0 THEN ledger'[RepairKey(a)] = repair'[a] ELSE ledger'[RepairKey(a)] = None
  <2>1. repair[a] = None
    BY <1>1, RequestFields DEF TypeOK
  <2>2. ledger[RepairKey(a)] = None
    BY <2>1 DEF Same, None
  <2>. QED BY <1>1, <2>2 DEF Same, Decided
<1>2. IF repair'[a] > 0 THEN ledger'[RepairKey(a)] = repair'[a] ELSE ledger'[RepairKey(a)] = None
  BY <1>1 DEF RepairEffect, Same
<1>. QED BY <1>2 DEF Same, RepairKey

LEMMA ClaimStaysAgreed ==
  ASSUME SumsAreMoney, CasesInv, NEW a \in Accident, ClaimEffect(a), ClaimAgrees(a),
         \A s \in Staff : request[s].op = "claim" /\ request[s].a = a => request[s].seen = claim[a]
  PROVE  ClaimAgrees(a)'
<1> USE DEF CasesInv
<1>1. Same(received[a], ClaimKey(a)) /\ (received[a] # None => claim[a] = "SETTLED")
  BY DEF ClaimAgrees, ClaimKey
<1>2. ASSUME NEW s \in Staff, request[s].op = "claim", request[s].a = a, claim'[a] = request[s].to,
             received'[a] = IF request[s].to = "SETTLED" THEN request[s].got ELSE received[a],
             Decided(ClaimKey(a), request[s].got)
      PROVE  Same(received[a], ClaimKey(a))' /\ (received'[a] # None => claim'[a] = "SETTLED")
  <2>1. request[s].to \in ClaimMoves[claim[a]] /\ (request[s].got = None <=> request[s].to # "SETTLED")
    BY <1>2 DEF ReadsStand
  <2>2. claim[a] # "SETTLED"
    BY <2>1 DEF ClaimMoves
  <2>3. received[a] = None /\ ledger[ClaimKey(a)] = None
    BY <1>1, <2>2 DEF Same, None
  <2>4. CASE request[s].to = "SETTLED"
    BY <1>2, <2>3, <2>4 DEF Same, Decided
  <2>5. CASE request[s].to # "SETTLED"
    BY <1>2, <2>1, <2>3, <2>5 DEF Same, Decided, None
  <2>. QED BY <2>4, <2>5
<1>3. ASSUME received'[a] = received[a], ledger'[ClaimKey(a)] = ledger[ClaimKey(a)],
             claim'[a] = claim[a] \/ claim[a] = "NONE"
      PROVE  Same(received[a], ClaimKey(a))' /\ (received'[a] # None => claim'[a] = "SETTLED")
  BY <1>1, <1>3 DEF Same
<1>4. Same(received[a], ClaimKey(a))' /\ (received'[a] # None => claim'[a] = "SETTLED")
  BY <1>2, <1>3 DEF ClaimEffect
<1>. QED BY <1>4 DEF ClaimAgrees, ClaimKey

LEMMA RefundStaysAgreed ==
  ASSUME SumsAreMoney, CasesInv, NEW p \in Policy, PolicyEffect(p), Same(refund[p], RefundKey(p)),
         \A s \in Staff : request[s].op = "cancel" /\ request[s].p = p => request[s].seen = policy[p]
  PROVE  Same(refund[p], RefundKey(p))'
<1> USE DEF CasesInv
<1>1. ASSUME NEW s \in Staff, request[s].op = "cancel", request[s].p = p,
             refund'[p] = request[s].back, Decided(RefundKey(p), request[s].back)
      PROVE  IF refund'[p] > 0 THEN ledger'[RefundKey(p)] = refund'[p] ELSE ledger'[RefundKey(p)] = None
  <2>1. policy[p] = "ACTIVE"
    BY <1>1, RequestFields DEF TypeOK
  <2>2. refund[p] = None
    BY <2>1 DEF RefundedIsCancelled
  <2>3. ledger[RefundKey(p)] = None
    BY <2>2 DEF Same, None
  <2>. QED BY <1>1, <2>3 DEF Same, Decided
<1>2. IF refund'[p] > 0 THEN ledger'[RefundKey(p)] = refund'[p] ELSE ledger'[RefundKey(p)] = None
  BY <1>1 DEF PolicyEffect, Same
<1>. QED BY <1>2 DEF Same, RefundKey

(* A case and its ledger entry come to disagree only by a request whose    *)
(* case was changed between its read and its write: two people billing one *)
(* repair, settling one claim, cancelling one policy or deciding one fine. *)
THEOREM OvertakenAloneDisagrees == ASSUME SumsAreMoney PROVE Spec => OnlyOvertakenDisagrees
<1> DEFINE Agreed ==
      /\ \A f \in Fine : FineAgrees(f) /\ ~FineAgrees(f)' =>
           \E s \in Staff : request[s].op = "fine" /\ request[s].f = f
                            /\ request[s].seen # fine[f]
      /\ \A a \in Accident :
           /\ LET k == <<"cost.repair", a>> IN
              Same(repair[a], k) /\ ~Same(repair[a], k)' =>
                \E s \in Staff : request[s].op = "repair" /\ request[s].a = a
                                 /\ request[s].seen # repair[a]
           /\ ClaimAgrees(a) /\ ~ClaimAgrees(a)' =>
                \E s \in Staff : request[s].op = "claim" /\ request[s].a = a
                                 /\ request[s].seen # claim[a]
      /\ \A p \in Policy :
           LET k == <<"InsurancePolicyRefund", p>> IN
           Same(refund[p], k) /\ ~Same(refund[p], k)' =>
             \E s \in Staff : request[s].op = "cancel" /\ request[s].p = p
                              /\ request[s].seen # policy[p]
<1>1. ASSUME CasesInv, [Next]_vars PROVE [Agreed]_vars
  <2>1. CASE Next
    <3>1. Grows /\ Effects
      BY <1>1, <2>1, LedgerGrows, EffectsStep DEF CasesInv
    <3>2. ASSUME NEW f \in Fine, FineAgrees(f), ~FineAgrees(f)'
          PROVE  \E s \in Staff : request[s].op = "fine" /\ request[s].f = f
                                  /\ request[s].seen # fine[f]
      BY <1>1, <3>1, <3>2, FineStaysAgreed DEF Effects
    <3>3. ASSUME NEW a \in Accident, Same(repair[a], RepairKey(a)), ~Same(repair[a], RepairKey(a))'
          PROVE  \E s \in Staff : request[s].op = "repair" /\ request[s].a = a
                                  /\ request[s].seen # repair[a]
      BY <1>1, <3>1, <3>3, RepairStaysAgreed DEF Effects
    <3>4. ASSUME NEW a \in Accident, ClaimAgrees(a), ~ClaimAgrees(a)'
          PROVE  \E s \in Staff : request[s].op = "claim" /\ request[s].a = a
                                  /\ request[s].seen # claim[a]
      BY <1>1, <3>1, <3>4, ClaimStaysAgreed DEF Effects
    <3>5. ASSUME NEW p \in Policy, Same(refund[p], RefundKey(p)), ~Same(refund[p], RefundKey(p))'
          PROVE  \E s \in Staff : request[s].op = "cancel" /\ request[s].p = p
                                  /\ request[s].seen # policy[p]
      BY <1>1, <3>1, <3>5, RefundStaysAgreed DEF Effects
    <3>. QED BY <3>2, <3>3, <3>4, <3>5 DEF RepairKey, RefundKey
  <2>2. CASE UNCHANGED vars
    BY <2>2
  <2>. QED BY <1>1, <2>1, <2>2
<1>. QED BY <1>1, InvHolds, PTL DEF Spec, OnlyOvertakenDisagrees
=============================================================================
