---------------------------- MODULE BillingProofs ----------------------------
(***************************************************************************)
(* Theorems about Billing, for every set of contracts, instalments, fines, *)
(* staff and runs; only the last theorem is about a company that recovers  *)
(* no fine.                                                                *)
(***************************************************************************)
EXTENDS Billing, FiniteSetTheorems, TLAPS

Statuses == InstallmentStatuses \cup {"NONE"}

(* What it means that the batch D took the next numbers. *)
TookNumbers(D) ==
  /\ next' \in Nat
  /\ next' >= next
  /\ next' = next => D = {}
  /\ \A l \in Line \ D : number'[l] = number[l]
  /\ \A l \in D : number'[l] \in next..(next' - 1)
  /\ \A n \in next..(next' - 1) : \E l \in D : number'[l] = n
  /\ \A l, m \in D : number'[l] = number'[m] => l = m

(* What a step does to the books: the batch D is invoiced, or the revenue  *)
(* of the lines R is taken back.                                           *)
BookEffect(D, R) ==
  /\ \A l \in D : number[l] = 0
  /\ TookNumbers(D)
  /\ ledger' = ledger \cup Recognised(D) \cup ({"InstallmentWaiver"} \X R)
  /\ \A l \in R : number[l] # 0 /\ ~waived[l] /\ waived'[l]
  /\ \A l \in Line : waived[l] => waived'[l]
  /\ D = {} \/ R = {}
  /\ R = {} \/ \E l \in Line : R = {l}

(* What a step may do to the rows. *)
RowEffect ==
  /\ \A l \in Line : istatus'[l] = "NONE" =>
       /\ istatus[l] = "NONE"
       /\ number'[l] = number[l] /\ paid'[l] = paid[l] /\ waived'[l] = waived[l]
  /\ \A l \in Month : istatus'[l] # "NONE" =>
       istatus[l] # "NONE" \/ status'[ContractOf[l]] # "DRAFT"
  /\ \A l \in Line : paid'[l] <= Gross[l] /\ (waived'[l] => paid'[l] = 0)
  /\ \A c \in Contract : status'[c] = "DRAFT" => status[c] = "DRAFT"
  /\ \A s \in Staff : request'[s].op = "recover" =>
       \/ request'[s] = request[s]
       \/ \A l \in DOMAIN request'[s].seen : istatus[l] # "NONE"

(* A row not written yet is blank, and no month of a draft is written.     *)
UnwrittenIsBlank ==
  \A l \in Line : istatus[l] = "NONE" => number[l] = 0 /\ paid[l] = 0 /\ ~waived[l]

DraftHasNoSchedule ==
  \A l \in Month : status[ContractOf[l]] = "DRAFT" => istatus[l] = "NONE"

(* What a running recovery read is still there when it claims numbers.     *)
ReadsStand ==
  \A s \in Staff : request[s].op = "recover" =>
    \A l \in DOMAIN request[s].seen : istatus[l] # "NONE"

OnlyWaivedReversed ==
  \A l \in Line : <<"InstallmentWaiver", l>> \in ledger => number[l] # 0 /\ waived[l]

BillingInv ==
  /\ TypeOK
  /\ GaplessNumbers
  /\ RecognisedWhenInvoiced
  /\ OnlyWaivedReversed
  /\ PaidIsOwed
  /\ UnwrittenIsBlank
  /\ DraftHasNoSchedule
  /\ ReadsStand

-----------------------------------------------------------------------------

(* The numbers n .. m-1 a batch takes when the counter goes from n to m.   *)
LEMMA Taken ==
  \A n, m \in Nat :
    /\ m >= n /\ m # n => n \in n..(m - 1) /\ (n - 1) + 1 = n /\ m - 1 > n - 1
    /\ \A k \in 1..(m - 1) : k >= n => k \in n..(m - 1)
OBVIOUS

LEMMA FinalLines == FinalOf \in [Contract -> Line] /\ ContractOf \in [Line -> Contract]
BY BillingAssumption DEF Line, Final

LEMMA StatusComputed ==
  ASSUME NEW l, NEW d, NEW p, NEW day
  PROVE  InstallmentStatus(l, d, p, day) \in InstallmentStatuses
BY DEF InstallmentStatus, InstallmentStatuses

(* What issuing a batch does. *)
LEMMA InvoiceFacts ==
  ASSUME TypeOK,
         NEW D \in SUBSET Line, NEW dueOn \in [Line -> Day], NEW paidFils, NEW day \in Day,
         NEW others \in [Line -> Statuses],
         Invoice(D, dueOn, paidFils, day, others)
  PROVE  /\ TookNumbers(D)
         /\ number' \in [Line -> Nat]
         /\ next' \in Nat \ {0}
         /\ istatus' \in [Line -> Statuses]
         /\ \A l \in D : istatus'[l] \in InstallmentStatuses
         /\ \A l \in Line \ D : istatus'[l] = others[l]
         /\ ledger' = ledger \cup Recognised(D)
         /\ due' = dueOn
<1>1. IsFiniteSet(D) /\ Cardinality(D) \in Nat
  BY BillingAssumption, FS_Subset, FS_CardinalityType
<1>2. /\ next \in Nat \ {0}
      /\ number \in [Line -> Nat]
      /\ next' = next + Cardinality(D)
  BY DEF TypeOK, Invoice
<1>3. PICK num \in Numberings(D, dueOn) :
        number' = [l \in Line |-> IF l \in D THEN num[l] ELSE number[l]]
  BY DEF Invoice
<1>4. /\ num \in [D -> next..(next' - 1)]
      /\ \A l, m \in D : num[l] = num[m] => l = m
      /\ \A n \in next..(next' - 1) : \E l \in D : num[l] = n
  BY <1>1, <1>2 DEF Numberings
<1>5. Cardinality(D) = 0 => D = {}
  BY <1>1, FS_EmptySet
<1>6. TookNumbers(D) /\ number' \in [Line -> Nat] /\ next' \in Nat \ {0}
  BY <1>1, <1>2, <1>3, <1>4, <1>5 DEF TookNumbers
<1>7. /\ istatus' \in [Line -> Statuses]
      /\ \A l \in D : istatus'[l] \in InstallmentStatuses
      /\ \A l \in Line \ D : istatus'[l] = others[l]
  BY StatusComputed DEF Invoice, Statuses
<1>. QED BY <1>6, <1>7 DEF Invoice

LEMMA DueLinesAre ==
  ASSUME NEW c, NEW day
  PROVE  /\ DueLines(c, day) \in SUBSET Line
         /\ \A l \in DueLines(c, day) :
              ContractOf[l] = c /\ istatus[l] # "NONE" /\ number[l] = 0 /\ ~waived[l]
BY DEF DueLines, LinesOf

LEMMA RefreshFacts ==
  ASSUME NEW c \in Contract, status \in [Contract -> ContractStatuses], RefreshContractStatus(c)
  PROVE  /\ status' \in [Contract -> ContractStatuses]
         /\ \A d \in Contract :
              status'[d] = status[d] \/ (Live(d) /\ status'[d] \in LiveStatuses)
BY DEF RefreshContractStatus, ContractStatuses, LiveStatuses

(* The fields of a request and of a nightly run, by kind. *)
LEMMA RequestFields ==
  ASSUME NEW r \in Requests
  PROVE  /\ r.op \in {"idle", "settle", "add", "remove", "recover"}
         /\ r.op = "settle" => r.c \in Contract /\ r.day \in Day /\ r.items \in SUBSET Item
         /\ r.op \in {"add", "remove"} => r.c \in Contract /\ r.item \in Item
         /\ r.op = "recover" => /\ r.f \in Fine /\ r.day \in Day
                                /\ DOMAIN r.seen \in SUBSET Line
                                /\ r.seen \in [DOMAIN r.seen -> Nat]
BY DEF Requests, Idle

LEMMA RunFields ==
  ASSUME NEW r \in Runs, r.phase # "asleep"
  PROVE  /\ r.day \in Day /\ r.todo \in SUBSET Contract
         /\ r = [phase |-> r.phase, day |-> r.day, todo |-> r.todo]
         /\ r.phase \in {"issue", "list", "refresh"}
BY DEF Runs, Asleep

LEMMA TypeInit == Init => TypeOK
BY BillingAssumption
   DEF Init, TypeOK, Requests, Runs, Day, ContractStatuses, InstallmentStatuses

LEMMA TypeStep == TypeOK /\ [Next]_vars => TypeOK'
<1> SUFFICES ASSUME TypeOK, [Next]_vars PROVE TypeOK'
  OBVIOUS
<1> USE FinalLines
<1>l. /\ LiveStatuses \subseteq ContractStatuses
      /\ EndedStatuses \subseteq ContractStatuses
      /\ Idle \in Requests /\ Asleep \in Runs
      /\ istatus \in [Line -> Statuses] /\ due \in [Line -> Day] /\ today \in Day
  BY DEF LiveStatuses, EndedStatuses, ContractStatuses, Requests, Runs, TypeOK, Statuses
<1>1. CASE UNCHANGED vars
  BY <1>1 DEF vars, lines, TypeOK
<1>2. CASE Midnight
  BY <1>2, BillingAssumption DEF Midnight, lines, TypeOK, Day
<1>3. ASSUME NEW c \in Contract, ActivateContract(c) PROVE TypeOK'
  <2> DEFINE schedule == {l \in Month : ContractOf[l] = c}
             D == {l \in schedule : due[l] <= today}
             others == [l \in Line |-> IF l \in schedule THEN "UPCOMING" ELSE istatus[l]]
  <2>1. D \in SUBSET Line /\ others \in [Line -> Statuses]
    BY <1>l DEF Line, Statuses, InstallmentStatuses
  <2>2. Invoice(D, due, paid, today, others)
    BY <1>3 DEF ActivateContract
  <2> HIDE DEF D, others
  <2>3. /\ number' \in [Line -> Nat] /\ next' \in Nat \ {0} /\ istatus' \in [Line -> Statuses]
        /\ ledger' = ledger \cup Recognised(D) /\ due' = due
    BY <1>l, <2>1, <2>2, InvoiceFacts
  <2>. QED BY <1>3, <2>1, <2>3 DEF ActivateContract, TypeOK, Recognised, Statuses, ContractStatuses
<1>4. ASSUME NEW c \in Contract, NEW amount \in Amount, RecordPayment(c, amount) PROVE TypeOK'
  <2>1. PICK alloc \in Allocations(c, amount) :
          /\ paid' = [l \in Line |-> IF l \in LinesOf(c) /\ alloc[l] > 0
                        THEN paid[l] + alloc[l] ELSE paid[l]]
          /\ istatus' = [l \in Line |-> IF l \in LinesOf(c) /\ alloc[l] > 0
                        THEN InstallmentStatus(l, due[l], paid[l] + alloc[l], today)
                        ELSE istatus[l]]
    BY <1>4 DEF RecordPayment
  <2>2. alloc \in [LinesOf(c) -> 0..amount] /\ amount \in Nat
    BY BillingAssumption DEF Allocations
  <2>3. paid' \in [Line -> Nat]
    BY <2>1, <2>2 DEF TypeOK
  <2>4. istatus' \in [Line -> Statuses]
    BY <1>l, <2>1, StatusComputed DEF Statuses
  <2>5. status' \in [Contract -> ContractStatuses]
    BY <1>4, RefreshFacts DEF RecordPayment, TypeOK
  <2>. QED BY <1>4, <2>3, <2>4, <2>5 DEF RecordPayment, TypeOK, Statuses
<1>5. ASSUME NEW c \in Contract, NEW outcome \in EndedStatuses, TerminateContract(c, outcome)
      PROVE  TypeOK'
  BY <1>5, <1>l DEF TerminateContract, TypeOK, InstallmentStatuses
<1>6. ASSUME NEW c \in Contract, OpenSettlement(c) PROVE TypeOK'
  BY <1>6 DEF OpenSettlement, lines, TypeOK
<1>7. ASSUME NEW l \in Line, WaiveInstallment(l) PROVE TypeOK'
  <2>1. status' \in [Contract -> ContractStatuses]
    BY <1>7, RefreshFacts DEF WaiveInstallment, TypeOK
  <2>. QED BY <1>7, <2>1 DEF WaiveInstallment, Reversal, TypeOK, InstallmentStatuses
<1>8. ASSUME NEW s \in Staff, StaffStep(s) PROVE TypeOK'
  <2> DEFINE r == request[s]
  <2>r. r \in Requests
    BY DEF TypeOK
  <2>1. ASSUME NEW c \in Contract, NEW op \in {"add", "remove"}, NEW item \in Item,
               EditRead(s, c, op, item)
        PROVE  TypeOK'
    <3>1. [op |-> op, c |-> c, item |-> item] \in Requests
      BY DEF Requests
    <3>. QED BY <2>1, <3>1 DEF EditRead, Ask, lines, TypeOK
  <2>2. CASE EditWrite(s)
    <3>1. r.c \in Contract /\ r.item \in Item
      BY <2>2, <2>r, RequestFields DEF EditWrite
    <3>. QED BY <1>l, <2>2, <3>1 DEF EditWrite, Respond, lines, TypeOK
  <2>3. ASSUME NEW c \in Contract, SettleRead(s, c) PROVE TypeOK'
    <3>1. [op |-> "settle", c |-> c, day |-> today, items |-> items[c]] \in Requests
      BY DEF Requests, TypeOK
    <3>. QED BY <2>3, <3>1 DEF SettleRead, Ask, lines, TypeOK
  <2>4. CASE SettleWrite(s)
    <3> DEFINE f == FinalOf[r.c]
               D == DueLines(r.c, r.day) \cup {f}
    <3>1. r.c \in Contract /\ r.day \in Day /\ f \in Line
      BY <2>4, <2>r, RequestFields DEF SettleWrite
    <3>2. /\ settlement' \in [Contract -> {"NONE", "OPEN", "SETTLED"}]
          /\ request' \in [Staff -> Requests]
          /\ UNCHANGED <<today, status, endedOn, items, run, crashes, paid, waived>>
      BY <1>l, <2>4, <3>1 DEF SettleWrite, Respond, lines, TypeOK
    <3>3. CASE UNCHANGED lines
      BY <3>2, <3>3 DEF lines, TypeOK
    <3>4. CASE Invoice(D, [due EXCEPT ![f] = r.day], paid, r.day, istatus)
      <4>1. D \in SUBSET Line /\ [due EXCEPT ![f] = r.day] \in [Line -> Day]
        BY <1>l, <3>1, DueLinesAre
      <4> HIDE DEF D
      <4>2. /\ number' \in [Line -> Nat] /\ next' \in Nat \ {0} /\ istatus' \in [Line -> Statuses]
            /\ ledger' = ledger \cup Recognised(D) /\ due' = [due EXCEPT ![f] = r.day]
        BY <1>l, <3>1, <3>4, <4>1, InvoiceFacts
      <4>. QED BY <3>2, <4>1, <4>2 DEF TypeOK, Recognised, Statuses
    <3>. QED BY <2>4, <3>3, <3>4 DEF SettleWrite
  <2>5. ASSUME NEW f \in Fine, RecoverRead(s, f) PROVE TypeOK'
    <3> DEFINE seen == [l \in DueLines(ContractOf[f], today) |-> paid[l]]
    <3>1. seen \in UNION {[D -> Nat] : D \in SUBSET Line}
      <4>1. seen \in [DueLines(ContractOf[f], today) -> Nat]
        BY DueLinesAre DEF TypeOK
      <4>. QED BY <4>1, DueLinesAre
    <3> HIDE DEF seen
    <3>2. [op |-> "recover", f |-> f, day |-> today, seen |-> seen] \in Requests
      BY <1>l, <3>1 DEF Requests
    <3>. QED BY <2>5, <3>2 DEF RecoverRead, Ask, lines, TypeOK, seen
  <2>6. CASE RecoverWrite(s)
    <3> DEFINE D == DOMAIN r.seen \cup {r.f}
               dueOn == [due EXCEPT ![r.f] = r.day]
               old == [l \in D |-> IF l = r.f THEN 0 ELSE r.seen[l]]
    <3>1. /\ r.f \in Line /\ r.day \in Day /\ D \in SUBSET Line
          /\ dueOn \in [Line -> Day]
      BY <1>l, <2>6, <2>r, RequestFields DEF RecoverWrite, Line
    <3>2. Invoice(D, dueOn, old, r.day, istatus)
      BY <2>6 DEF RecoverWrite
    <3> HIDE DEF D, dueOn, old
    <3>3. /\ number' \in [Line -> Nat] /\ next' \in Nat \ {0} /\ istatus' \in [Line -> Statuses]
          /\ ledger' = ledger \cup Recognised(D) /\ due' = dueOn
      BY <1>l, <3>1, <3>2, InvoiceFacts
    <3>. QED BY <1>l, <2>6, <3>1, <3>3 DEF RecoverWrite, Respond, TypeOK, Recognised, Statuses
  <2>7. CASE Abort(s)
    BY <1>l, <2>7 DEF Abort, Respond, lines, TypeOK
  <2>. QED BY <1>8, <2>1, <2>2, <2>3, <2>4, <2>5, <2>6, <2>7 DEF StaffStep
<1>9. ASSUME NEW w \in Run, RunStep(w) \/ RunCrash(w) PROVE TypeOK'
  <2>r. /\ run[w] \in Runs /\ run \in [Run -> Runs]
        /\ Asleep.phase = "asleep"
    BY DEF TypeOK, Asleep
  <2>1. CASE RunStart(w)
    <3>1. [phase |-> "issue", day |-> today, todo |-> ToIssue(today)] \in Runs
      BY <1>l DEF Runs, ToIssue
    <3>. QED BY <2>1, <3>1 DEF RunStart, lines, TypeOK
  <2>2. ASSUME NEW c \in Contract, RunIssue(w, c) PROVE TypeOK'
    <3>1. run[w].day \in Day /\ run'[w] \in Runs /\ run' \in [Run -> Runs]
      BY <2>2, <2>r, RunFields DEF RunIssue, Runs, Asleep
    <3>2. DueLines(c, run[w].day) \in SUBSET Line
      BY DueLinesAre
    <3>3. /\ number' \in [Line -> Nat] /\ next' \in Nat \ {0} /\ istatus' \in [Line -> Statuses]
          /\ ledger' = ledger \cup Recognised(DueLines(c, run[w].day)) /\ due' = due
      BY <1>l, <2>2, <3>1, <3>2, InvoiceFacts DEF RunIssue
    <3>. QED BY <2>2, <3>1, <3>2, <3>3 DEF RunIssue, TypeOK, Recognised, Statuses
  <2>3. ASSUME NEW c \in Contract, RunRefused(w, c) PROVE TypeOK'
    BY <1>l, <2>3, <2>r DEF RunRefused, lines, TypeOK
  <2>4. ASSUME NEW c \in Contract, RunRefresh(w, c) PROVE TypeOK'
    <3>1. run' \in [Run -> Runs]
      BY <2>4, <2>r, RunFields DEF RunRefresh, Runs, Asleep
    <3>2. status' \in [Contract -> ContractStatuses]
      BY <2>4, RefreshFacts DEF RunRefresh, TypeOK
    <3>. QED BY <2>4, <3>1, <3>2 DEF RunRefresh, lines, TypeOK
  <2>5. CASE RunOverdue(w)
    <3>1. run' \in [Run -> Runs]
      BY <2>5, <2>r, RunFields DEF RunOverdue, Runs, Asleep
    <3>. QED BY <2>5, <3>1 DEF RunOverdue, TypeOK, InstallmentStatuses
  <2>6. CASE RunList(w)
    <3> DEFINE todo == {c \in Contract : status[c] = "ACTIVE" /\
                          \E l \in LinesOf(c) : istatus[l] = "OVERDUE"}
    <3>1. todo \in SUBSET Contract
      OBVIOUS
    <3>2. run' = [run EXCEPT ![w] = [phase |-> "refresh", day |-> run[w].day, todo |-> todo]]
      BY <2>6 DEF RunList
    <3> HIDE DEF todo
    <3>3. run[w].day \in Day
      BY <2>6, <2>r, RunFields DEF RunList
    <3>4. [phase |-> "refresh", day |-> run[w].day, todo |-> todo] \in Runs
      BY <3>1, <3>3 DEF Runs
    <3>. QED BY <2>6, <3>2, <3>4 DEF RunList, lines, TypeOK
  <2>7. CASE RunEnd(w)
    BY <1>l, <2>7, <2>r DEF RunEnd, lines, TypeOK
  <2>8. CASE RunCrash(w)
    BY <1>l, <2>8, <2>r, BillingAssumption DEF RunCrash, lines, TypeOK
  <2>. QED BY <1>9, <2>1, <2>2, <2>3, <2>4, <2>5, <2>6, <2>7, <2>8 DEF RunStep
<1>. QED BY <1>1, <1>2, <1>3, <1>4, <1>5, <1>6, <1>7, <1>8, <1>9 DEF Next, ContractStep

(* Every row, request and run keeps its type, for any contracts, staff and *)
(* payments.                                                               *)
THEOREM TypeCorrect == Spec => []TypeOK
BY TypeInit, TypeStep, PTL DEF Spec

-----------------------------------------------------------------------------

LEMMA InvInit == Init => BillingInv
<1> SUFFICES ASSUME Init PROVE BillingInv
  OBVIOUS
<1>1. TypeOK
  BY TypeInit
<1>2. GaplessNumbers /\ RecognisedWhenInvoiced /\ OnlyWaivedReversed
  BY DEF Init, GaplessNumbers, RecognisedWhenInvoiced, OnlyWaivedReversed
<1>3. PaidIsOwed
  BY BillingAssumption DEF Init, PaidIsOwed
<1>4. UnwrittenIsBlank /\ DraftHasNoSchedule
  BY DEF Init, UnwrittenIsBlank, DraftHasNoSchedule, Line
<1>5. ReadsStand
  BY DEF Init, ReadsStand, Idle
<1>. QED BY <1>1, <1>2, <1>3, <1>4, <1>5 DEF BillingInv

LEMMA QuietBook ==
  ASSUME TypeOK, UNCHANGED <<number, next, ledger>>, \A l \in Line : waived[l] => waived'[l]
  PROVE  BookEffect({}, {})
BY DEF BookEffect, TookNumbers, Recognised, TypeOK

(* Nothing but a status, a request or a run changes. *)
LEMMA QuietRows ==
  ASSUME BillingInv, UNCHANGED <<lines, status, settlement>>,
         \A s \in Staff : request'[s].op = "recover" =>
           \/ request'[s] = request[s]
           \/ \A l \in DOMAIN request'[s].seen : istatus[l] # "NONE"
  PROVE  RowEffect
BY DEF lines, RowEffect, BillingInv, PaidIsOwed

(* A step that issues the batch D, some of it perhaps just written. *)
LEMMA IssueEffect ==
  ASSUME BillingInv, TypeOK',
         NEW D \in SUBSET Line, NEW dueOn \in [Line -> Day], NEW paidFils, NEW day \in Day,
         NEW others \in [Line -> Statuses],
         Invoice(D, dueOn, paidFils, day, others),
         \A l \in D : number[l] = 0,
         UNCHANGED <<paid, waived>>,
         \A l \in Line : istatus[l] # "NONE" => others[l] # "NONE",
         \A l \in Month : (l \in D \/ others[l] # "NONE") =>
           istatus[l] # "NONE" \/ status'[ContractOf[l]] # "DRAFT",
         \A c \in Contract : status'[c] = status[c] \/ status'[c] \in LiveStatuses,
         \A s \in Staff : request'[s] = request[s] \/ request'[s].op # "recover"
  PROVE  BookEffect(D, {}) /\ RowEffect
<1>1. /\ TookNumbers(D)
      /\ \A l \in D : istatus'[l] \in InstallmentStatuses
      /\ \A l \in Line \ D : istatus'[l] = others[l]
      /\ ledger' = ledger \cup Recognised(D)
  <2>1. TypeOK
    BY DEF BillingInv
  <2>2. TookNumbers(D) /\ ledger' = ledger \cup Recognised(D)
    BY <2>1, InvoiceFacts
  <2>3. istatus' = [l \in Line |-> IF l \in D
                      THEN InstallmentStatus(l, dueOn[l], paidFils[l], day) ELSE others[l]]
    BY DEF Invoice
  <2>4. /\ \A l \in D : istatus'[l] \in InstallmentStatuses
        /\ \A l \in Line \ D : istatus'[l] = others[l]
    BY <2>3, StatusComputed
  <2>. QED BY <2>2, <2>4
<1>2. BookEffect(D, {})
  BY <1>1 DEF BookEffect
<1>3. "NONE" \notin InstallmentStatuses /\ "DRAFT" \notin LiveStatuses
  BY DEF InstallmentStatuses, LiveStatuses
<1>4. \A l \in Line : istatus'[l] = "NONE" =>
        istatus[l] = "NONE" /\ number'[l] = number[l] /\ paid'[l] = paid[l] /\ waived'[l] = waived[l]
  BY <1>1, <1>3 DEF TookNumbers
<1>5. \A l \in Month : istatus'[l] # "NONE" =>
        istatus[l] # "NONE" \/ status'[ContractOf[l]] # "DRAFT"
  BY <1>1, <1>3 DEF Line
<1>6. \A l \in Line : paid'[l] <= Gross[l] /\ (waived'[l] => paid'[l] = 0)
  BY DEF BillingInv, PaidIsOwed
<1>. QED BY <1>2, <1>3, <1>4, <1>5, <1>6 DEF RowEffect

(* Every step has one effect on the books, and a lawful one on the rows.   *)
LEMMA StepEffect ==
  ASSUME BillingInv, TypeOK', Next
  PROVE  RowEffect /\ \E D, R \in SUBSET Line : BookEffect(D, R)
<1> USE FinalLines
<1>l. /\ "NONE" \notin InstallmentStatuses
      /\ LiveStatuses \cap EndedStatuses = {}
      /\ istatus \in [Line -> Statuses] /\ due \in [Line -> Day] /\ today \in Day
      /\ {} \in SUBSET Line
      /\ Month \subseteq Line /\ Fine \subseteq Line
      /\ Idle.op = "idle"
  BY DEF InstallmentStatuses, LiveStatuses, EndedStatuses, BillingInv, TypeOK, Statuses, Line, Idle
<1>q. ASSUME UNCHANGED lines PROVE \E D, R \in SUBSET Line : BookEffect(D, R)
  BY <1>q, <1>l, QuietBook DEF lines, BillingInv
<1>2. CASE Midnight
  BY <1>2, <1>q, QuietRows DEF Midnight
<1>3. ASSUME NEW c \in Contract, ActivateContract(c)
      PROVE  RowEffect /\ \E D, R \in SUBSET Line : BookEffect(D, R)
  <2> DEFINE schedule == {l \in Month : ContractOf[l] = c}
             D == {l \in schedule : due[l] <= today}
             others == [l \in Line |-> IF l \in schedule THEN "UPCOMING" ELSE istatus[l]]
  <2>1. /\ D \in SUBSET Line /\ others \in [Line -> Statuses]
        /\ \A l \in D : number[l] = 0
    BY <1>3, <1>l DEF ActivateContract, Statuses, InstallmentStatuses, BillingInv,
                      UnwrittenIsBlank, DraftHasNoSchedule
  <2>2. Invoice(D, due, paid, today, others)
    BY <1>3 DEF ActivateContract
  <2>3. /\ status' = [status EXCEPT ![c] = "ACTIVE"]
        /\ UNCHANGED <<paid, waived, settlement, request>>
        /\ status \in [Contract -> ContractStatuses]
    BY <1>3 DEF ActivateContract, BillingInv, TypeOK
  <2>4. /\ \A l \in Line : istatus[l] # "NONE" => others[l] # "NONE"
        /\ \A l \in Month : (l \in D \/ others[l] # "NONE") =>
             istatus[l] # "NONE" \/ status'[ContractOf[l]] # "DRAFT"
        /\ \A d \in Contract : status'[d] = status[d] \/ status'[d] \in LiveStatuses
    BY <1>l, <2>3 DEF LiveStatuses
  <2> HIDE DEF D, others
  <2>5. BookEffect(D, {}) /\ RowEffect
    BY <1>l, <2>1, <2>2, <2>3, <2>4, IssueEffect
  <2>. QED BY <1>l, <2>1, <2>5
<1>4. ASSUME NEW c \in Contract, NEW amount \in Amount, RecordPayment(c, amount)
      PROVE  RowEffect /\ \E D, R \in SUBSET Line : BookEffect(D, R)
  <2>1. PICK alloc \in Allocations(c, amount) :
          /\ paid' = [l \in Line |-> IF l \in LinesOf(c) /\ alloc[l] > 0
                        THEN paid[l] + alloc[l] ELSE paid[l]]
          /\ istatus' = [l \in Line |-> IF l \in LinesOf(c) /\ alloc[l] > 0
                        THEN InstallmentStatus(l, due[l], paid[l] + alloc[l], today)
                        ELSE istatus[l]]
    BY <1>4 DEF RecordPayment
  <2>2. /\ alloc \in [LinesOf(c) -> 0..amount] /\ amount \in Nat
        /\ \A l \in LinesOf(c) : alloc[l] <= Outstanding(l)
    BY BillingAssumption DEF Allocations
  <2>3. /\ \A l \in Line : istatus'[l] = "NONE" => istatus[l] = "NONE" /\ paid'[l] = paid[l]
        /\ \A l \in Line : istatus'[l] # "NONE" => istatus[l] # "NONE"
    BY <1>l, <2>1, StatusComputed DEF LinesOf
  <2>4. \A l \in Line : paid'[l] <= Gross[l] /\ (waived[l] => paid'[l] = 0)
    <3> SUFFICES ASSUME NEW l \in Line PROVE paid'[l] <= Gross[l] /\ (waived[l] => paid'[l] = 0)
      OBVIOUS
    <3>1. paid[l] \in Nat /\ Gross[l] \in Nat /\ paid[l] <= Gross[l] /\ (waived[l] => paid[l] = 0)
      BY BillingAssumption DEF BillingInv, TypeOK, PaidIsOwed
    <3>. QED BY <2>1, <2>2, <3>1 DEF Outstanding
  <2>5. \A d \in Contract : status'[d] = status[d] \/ (Live(d) /\ status'[d] \in LiveStatuses)
    BY <1>4, RefreshFacts DEF RecordPayment, BillingInv, TypeOK
  <2>6. UNCHANGED <<settlement, waived, number, next, ledger, request>>
    BY <1>4 DEF RecordPayment
  <2>7. RowEffect
    BY <1>l, <2>3, <2>4, <2>5, <2>6 DEF RowEffect, LiveStatuses
  <2>. QED BY <1>l, <2>6, <2>7, QuietBook DEF BillingInv
<1>5. ASSUME NEW c \in Contract, NEW outcome \in EndedStatuses, TerminateContract(c, outcome)
      PROVE  RowEffect /\ \E D, R \in SUBSET Line : BookEffect(D, R)
  <2>1. /\ UNCHANGED <<settlement, paid, waived, number, next, ledger, request>>
        /\ \A l \in Line : istatus'[l] = "NONE" <=> istatus[l] = "NONE"
        /\ \A d \in Contract : d # c => status'[d] = status[d]
        /\ Live(c) /\ Reckoned(c) /\ status'[c] # "DRAFT"
    BY <1>5, <1>l DEF TerminateContract, LinesOf, BillingInv, TypeOK, EndedStatuses
  <2>2. RowEffect
    BY <1>l, <2>1 DEF RowEffect, BillingInv, PaidIsOwed
  <2>. QED BY <1>l, <2>1, <2>2, QuietBook DEF BillingInv
<1>6. ASSUME NEW c \in Contract, OpenSettlement(c)
      PROVE  RowEffect /\ \E D, R \in SUBSET Line : BookEffect(D, R)
  <2>1. RowEffect
    BY <1>6 DEF OpenSettlement, lines, RowEffect, BillingInv, TypeOK, PaidIsOwed
  <2>. QED BY <1>6, <1>q, <2>1 DEF OpenSettlement
<1>7. ASSUME NEW l \in Line, WaiveInstallment(l)
      PROVE  RowEffect /\ \E D, R \in SUBSET Line : BookEffect(D, R)
  <2>1. /\ UNCHANGED <<settlement, paid, number, next, request>>
        /\ istatus[l] # "NONE" /\ ~waived[l] /\ paid[l] = 0
        /\ istatus'[l] # "NONE" /\ waived'[l]
        /\ \A m \in Line : m # l => istatus'[m] = istatus[m] /\ waived'[m] = waived[m]
    BY <1>7 DEF WaiveInstallment, BillingInv, TypeOK
  <2>2. \A d \in Contract : status'[d] = status[d] \/ (Live(d) /\ status'[d] \in LiveStatuses)
    BY <1>7, RefreshFacts DEF WaiveInstallment, BillingInv, TypeOK
  <2>3. RowEffect
    BY <1>l, <2>1, <2>2 DEF RowEffect, LiveStatuses, BillingInv, PaidIsOwed
  <2>4. CASE number[l] # 0
    <3>1. ledger' = ledger \cup Recognised({}) \cup ({"InstallmentWaiver"} \X {l})
      BY <1>7, <2>4 DEF WaiveInstallment, Reversal, BillingInv, RecognisedWhenInvoiced, Recognised
    <3>2. TookNumbers({})
      BY <2>1 DEF TookNumbers, BillingInv, TypeOK
    <3>3. BookEffect({}, {l})
      BY <2>1, <2>4, <3>1, <3>2 DEF BookEffect
    <3>. QED BY <1>l, <2>3, <3>3
  <2>5. CASE number[l] = 0
    <3>1. ledger' = ledger
      BY <1>7, <2>5 DEF WaiveInstallment, Reversal
    <3>. QED BY <1>l, <2>1, <2>3, <3>1, QuietBook DEF BillingInv
  <2>. QED BY <2>4, <2>5
<1>8. ASSUME NEW s \in Staff, StaffStep(s)
      PROVE  RowEffect /\ \E D, R \in SUBSET Line : BookEffect(D, R)
  <2> DEFINE r == request[s]
  <2>r. r \in Requests /\ request \in [Staff -> Requests]
    BY DEF BillingInv, TypeOK
  <2>1. ASSUME NEW c \in Contract, NEW op \in {"add", "remove"}, NEW item \in Item,
               EditRead(s, c, op, item)
        PROVE  RowEffect /\ UNCHANGED lines
    BY <2>1, <2>r, QuietRows DEF EditRead, Ask
  <2>2. CASE EditWrite(s)
    BY <1>l, <1>q, <2>2, <2>r, QuietRows DEF EditWrite, Respond
  <2>3. ASSUME NEW c \in Contract, SettleRead(s, c) PROVE RowEffect /\ UNCHANGED lines
    BY <2>3, <2>r, QuietRows DEF SettleRead, Ask
  <2>4. CASE SettleWrite(s)
    <3> DEFINE f == FinalOf[r.c]
               D == DueLines(r.c, r.day) \cup {f}
               dueOn == [due EXCEPT ![f] = r.day]
    <3>1. r.c \in Contract /\ r.day \in Day /\ f \in Line /\ f \notin Month
      BY <2>4, <2>r, RequestFields, BillingAssumption DEF SettleWrite
    <3>2. /\ settlement' = [settlement EXCEPT ![r.c] = "SETTLED"]
          /\ request' = [request EXCEPT ![s] = Idle]
          /\ UNCHANGED <<status, paid, waived>>
          /\ settlement \in [Contract -> {"NONE", "OPEN", "SETTLED"}]
      BY <2>4 DEF SettleWrite, Respond, lines, BillingInv, TypeOK
    <3>3. CASE UNCHANGED lines
      <4>1. RowEffect
        BY <1>l, <2>r, <3>1, <3>2, <3>3 DEF lines, RowEffect, BillingInv, PaidIsOwed
      <4>. QED BY <1>q, <3>3, <4>1
    <3>4. CASE Invoice(D, dueOn, paid, r.day, istatus) /\ istatus[f] = "NONE"
      <4>1. D \in SUBSET Line /\ dueOn \in [Line -> Day]
        BY <1>l, <3>1, DueLinesAre
      <4>2. /\ \A l \in D : number[l] = 0
            /\ \A l \in Month : l \in D => istatus[l] # "NONE"
        BY <3>1, <3>4, DueLinesAre DEF BillingInv, UnwrittenIsBlank
      <4>3. \A t \in Staff : request'[t] = request[t] \/ request'[t].op # "recover"
        BY <1>l, <2>r, <3>2
      <4>4. PICK day \in Day, E \in SUBSET Line, newDue \in [Line -> Day] :
              /\ Invoice(E, newDue, paid, day, istatus)
              /\ \A l \in E : number[l] = 0
              /\ \A l \in Month : l \in E => istatus[l] # "NONE"
        BY <3>1, <3>4, <4>1, <4>2
      <4>5. BookEffect(E, {}) /\ RowEffect
        <5>1. /\ \A l \in Line : istatus[l] # "NONE" => istatus[l] # "NONE"
              /\ \A l \in Month : (l \in E \/ istatus[l] # "NONE") =>
                   istatus[l] # "NONE" \/ status'[ContractOf[l]] # "DRAFT"
              /\ \A c \in Contract : status'[c] = status[c] \/ status'[c] \in LiveStatuses
          BY <3>2, <4>4
        <5>. QED BY <1>l, <3>2, <4>3, <4>4, <5>1, IssueEffect
      <4>. QED BY <1>l, <4>4, <4>5
    <3>. QED BY <2>4, <3>3, <3>4 DEF SettleWrite
  <2>5. ASSUME NEW f \in Fine, RecoverRead(s, f) PROVE RowEffect /\ UNCHANGED lines
    <3>1. \A t \in Staff : t # s => request'[t] = request[t]
      BY <2>5, <2>r DEF RecoverRead, Ask
    <3>2. \A l \in DOMAIN request'[s].seen : istatus[l] # "NONE"
      BY <2>5, <2>r, DueLinesAre DEF RecoverRead, Ask
    <3>. QED BY <2>5, <3>1, <3>2, QuietRows DEF RecoverRead
  <2>6. CASE RecoverWrite(s)
    <3>1. /\ r.f \in Fine /\ r.day \in Day
          /\ DOMAIN r.seen \in SUBSET Line
          /\ r.op = "recover"
      BY <2>6, <2>r, RequestFields DEF RecoverWrite
    <3>2. \A l \in DOMAIN r.seen \cup {r.f} : number[l] = 0 /\ (l \in Month => istatus[l] # "NONE")
      BY <1>l, <2>6, <3>1, BillingAssumption
         DEF RecoverWrite, Unclaimed, BillingInv, ReadsStand, UnwrittenIsBlank
    <3>3. PICK day \in Day, E \in SUBSET Line, newDue \in [Line -> Day],
                 old \in {[l \in DOMAIN r.seen \cup {r.f} |-> IF l = r.f THEN 0 ELSE r.seen[l]]} :
            /\ Invoice(E, newDue, old, day, istatus)
            /\ \A l \in E : number[l] = 0 /\ (l \in Month => istatus[l] # "NONE")
      <4>1. [due EXCEPT ![r.f] = r.day] \in [Line -> Day]
        BY <1>l, <3>1
      <4>2. DOMAIN r.seen \cup {r.f} \in SUBSET Line
        BY <1>l, <3>1
      <4>3. Invoice(DOMAIN r.seen \cup {r.f}, [due EXCEPT ![r.f] = r.day],
                    [l \in DOMAIN r.seen \cup {r.f} |-> IF l = r.f THEN 0 ELSE r.seen[l]],
                    r.day, istatus)
        BY <2>6 DEF RecoverWrite
      <4>. QED BY <3>1, <3>2, <4>1, <4>2, <4>3
    <3>4. /\ request' = [request EXCEPT ![s] = Idle]
          /\ UNCHANGED <<status, settlement, paid, waived>>
      BY <2>6 DEF RecoverWrite, Respond
    <3>5. BookEffect(E, {}) /\ RowEffect
      BY <1>l, <2>r, <3>3, <3>4, IssueEffect
    <3>. QED BY <1>l, <3>3, <3>5
  <2>7. CASE Abort(s)
    BY <1>l, <1>q, <2>7, <2>r, QuietRows DEF Abort, Respond
  <2>. QED BY <1>8, <1>q, <2>1, <2>2, <2>3, <2>4, <2>5, <2>6, <2>7 DEF StaffStep
<1>9. ASSUME NEW w \in Run, RunStep(w) \/ RunCrash(w)
      PROVE  RowEffect /\ \E D, R \in SUBSET Line : BookEffect(D, R)
  <2>1. CASE RunStart(w) \/ RunList(w) \/ RunEnd(w) \/ RunCrash(w) \/ \E c \in Contract : RunRefused(w, c)
    <3>1. UNCHANGED <<lines, status, settlement, request>>
      BY <2>1 DEF RunStart, RunList, RunEnd, RunCrash, RunRefused
    <3>. QED BY <1>q, <3>1, QuietRows
  <2>2. ASSUME NEW c \in Contract, RunIssue(w, c)
        PROVE  RowEffect /\ \E D, R \in SUBSET Line : BookEffect(D, R)
    <3>1. /\ run[w].day \in Day
          /\ DueLines(c, run[w].day) \in SUBSET Line
          /\ \A l \in DueLines(c, run[w].day) : number[l] = 0 /\ istatus[l] # "NONE"
      BY <2>2, RunFields, DueLinesAre DEF RunIssue, BillingInv, TypeOK
    <3>2. /\ Invoice(DueLines(c, run[w].day), due, paid, run[w].day, istatus)
          /\ UNCHANGED <<status, settlement, paid, waived, request>>
      BY <2>2 DEF RunIssue
    <3>3. PICK day \in Day, E \in SUBSET Line :
            /\ Invoice(E, due, paid, day, istatus)
            /\ \A l \in E : number[l] = 0 /\ istatus[l] # "NONE"
      BY <3>1, <3>2
    <3>4. BookEffect(E, {}) /\ RowEffect
      BY <1>l, <3>2, <3>3, IssueEffect
    <3>. QED BY <1>l, <3>3, <3>4
  <2>3. ASSUME NEW c \in Contract, RunRefresh(w, c)
        PROVE  RowEffect /\ \E D, R \in SUBSET Line : BookEffect(D, R)
    <3>1. \A d \in Contract : status'[d] = status[d] \/ (Live(d) /\ status'[d] \in LiveStatuses)
      BY <2>3, RefreshFacts DEF RunRefresh, BillingInv, TypeOK
    <3>2. RowEffect
      BY <1>l, <2>3, <3>1 DEF RunRefresh, lines, RowEffect, LiveStatuses, BillingInv, PaidIsOwed
    <3>. QED BY <1>q, <2>3, <3>2 DEF RunRefresh
  <2>4. CASE RunOverdue(w)
    <3>1. /\ \A l \in Line : istatus'[l] = "NONE" <=> istatus[l] = "NONE"
          /\ UNCHANGED <<status, settlement, paid, waived, number, next, ledger, request>>
      BY <1>l, <2>4 DEF RunOverdue, LateLines
    <3>2. RowEffect
      BY <1>l, <3>1 DEF RowEffect, BillingInv, PaidIsOwed
    <3>. QED BY <1>l, <3>1, <3>2, QuietBook DEF BillingInv
  <2>. QED BY <1>9, <2>1, <2>2, <2>3, <2>4 DEF RunStep
<1>. QED BY <1>2, <1>3, <1>4, <1>5, <1>6, <1>7, <1>8, <1>9 DEF Next, ContractStep

LEMMA InvStep == BillingInv /\ [Next]_vars => BillingInv'
<1> SUFFICES ASSUME BillingInv, [Next]_vars PROVE BillingInv'
  OBVIOUS
<1>1. CASE UNCHANGED vars
  <2>1. TypeOK'
    BY <1>1, TypeStep DEF BillingInv
  <2>2. UNCHANGED <<istatus, paid, waived, number, next, ledger, status, settlement, request>>
    BY <1>1 DEF vars, lines
  <2>. QED
    BY <2>1, <2>2 DEF BillingInv, GaplessNumbers, RecognisedWhenInvoiced, OnlyWaivedReversed,
                      PaidIsOwed, UnwrittenIsBlank, DraftHasNoSchedule, ReadsStand,
                      LinesOf
<1>2. CASE Next
  <2>1. TypeOK /\ TypeOK'
    BY <1>2, TypeStep DEF BillingInv
  <2>2. RowEffect
    BY <1>2, <2>1, StepEffect
  <2>3. PICK D \in SUBSET Line, R \in SUBSET Line : BookEffect(D, R)
    BY <1>2, <2>1, StepEffect
  <2>4. GaplessNumbers'
    <3>1. /\ \A l \in Line : number[l] \in Nat /\ number[l] < next
          /\ next \in Nat \ {0} /\ next' \in Nat /\ next' >= next
          /\ \A n \in 1..(next - 1) : \E l \in Line : number[l] = n
          /\ \A l, m \in Line : number[l] # 0 /\ number[l] = number[m] => l = m
          /\ \A l \in D : number[l] = 0
      BY <2>1, <2>3 DEF BillingInv, TypeOK, GaplessNumbers, BookEffect, TookNumbers
    <3>2. /\ \A l \in Line \ D : number'[l] = number[l]
          /\ \A l \in D : number'[l] \in next..(next' - 1)
          /\ \A n \in next..(next' - 1) : \E l \in D : number'[l] = n
          /\ \A l, m \in D : number'[l] = number'[m] => l = m
      BY <2>3 DEF BookEffect, TookNumbers
    <3>3. \A l \in Line : number'[l] < next'
      BY <3>1, <3>2
    <3>4. ASSUME NEW n \in 1..(next' - 1) PROVE \E l \in Line : number'[l] = n
      <4>1. CASE n < next
        <5>1. PICK l \in Line : number[l] = n
          BY <3>1, <4>1
        <5>. QED BY <3>1, <3>2, <5>1
      <4>2. CASE n >= next
        <5>1. n \in next..(next' - 1)
          BY <3>1, <4>2, Taken
        <5>. QED BY <3>2, <5>1
      <4>. QED BY <3>1, <4>1, <4>2
    <3>5. ASSUME NEW l \in Line, NEW m \in Line, number'[l] # 0, number'[l] = number'[m]
          PROVE  l = m
      <4>1. CASE l \in D /\ m \in D
        BY <3>2, <3>5, <4>1
      <4>2. CASE l \notin D /\ m \notin D
        BY <3>1, <3>2, <3>5, <4>2
      <4>3. CASE l \in D /\ m \notin D
        BY <3>1, <3>2, <3>5, <4>3
      <4>4. CASE l \notin D /\ m \in D
        BY <3>1, <3>2, <3>5, <4>4
      <4>. QED BY <4>1, <4>2, <4>3, <4>4
    <3>. QED BY <3>3, <3>4, <3>5 DEF GaplessNumbers
  <2>5. \A l \in Line : number'[l] # 0 <=> number[l] # 0 \/ l \in D
    BY <2>1, <2>3 DEF BookEffect, TookNumbers, TypeOK
  <2>6. RecognisedWhenInvoiced' /\ OnlyWaivedReversed'
    BY <2>3, <2>5 DEF BillingInv, RecognisedWhenInvoiced, OnlyWaivedReversed, BookEffect, Recognised
  <2>7. PaidIsOwed'
    BY <2>2 DEF RowEffect, PaidIsOwed
  <2>8. UnwrittenIsBlank'
    BY <2>2 DEF RowEffect, BillingInv, UnwrittenIsBlank
  <2>9. DraftHasNoSchedule'
    <3>1. \A l \in Month : ContractOf[l] \in Contract
      BY FinalLines DEF Line
    <3>. QED BY <2>2, <3>1 DEF RowEffect, BillingInv, DraftHasNoSchedule
  <2>10. ReadsStand'
    <3> SUFFICES ASSUME NEW s \in Staff, request'[s].op = "recover",
                        NEW l \in DOMAIN request'[s].seen
                 PROVE  istatus'[l] # "NONE"
      BY DEF ReadsStand
    <3>1. istatus[l] # "NONE"
      BY <2>2 DEF RowEffect, BillingInv, ReadsStand
    <3>2. l \in Line
      BY <2>1, RequestFields DEF TypeOK
    <3>. QED BY <2>2, <3>1, <3>2 DEF RowEffect
  <2>. QED BY <2>1, <2>4, <2>6, <2>7, <2>8, <2>9, <2>10 DEF BillingInv
<1>. QED BY <1>1, <1>2

LEMMA InvHolds == Spec => []BillingInv
BY InvInit, InvStep, PTL DEF Spec

(* Tax invoice numbers are gapless and never shared, however many staff    *)
(* and nightly runs issue at the same time (nextInvoiceNumber).            *)
THEOREM NumbersAreGapless == Spec => []GaplessNumbers
<1>1. BillingInv => GaplessNumbers
  BY DEF BillingInv
<1>. QED BY <1>1, InvHolds, PTL

(* An instalment has its revenue entry exactly when it has its number: no  *)
(* path invoices without recognising, recognises twice, or the reverse.    *)
THEOREM RevenueComesWithInvoice == Spec => []RecognisedWhenInvoiced
<1>1. BillingInv => RecognisedWhenInvoiced
  BY DEF BillingInv
<1>. QED BY <1>1, InvHolds, PTL

(* No payment is applied beyond what an instalment bills, nor to one that  *)
(* has been waived, nor is one waived that money has been applied to.      *)
THEOREM PaymentsLandOnWhatIsOwed == Spec => []PaidIsOwed
<1>1. BillingInv => PaidIsOwed
  BY DEF BillingInv
<1>. QED BY <1>1, InvHolds, PTL

LEMMA BookStep == BillingInv /\ BillingInv' /\ [Next]_vars => [Book!Next]_Book!vars
<1> SUFFICES ASSUME BillingInv, BillingInv', [Next]_vars PROVE [Book!Next]_Book!vars
  OBVIOUS
<1> DEFINE reversed == {l \in Line : <<"InstallmentWaiver", l>> \in ledger}
<1>1. CASE UNCHANGED vars
  BY <1>1 DEF vars, lines, Book!vars
<1>2. CASE Next
  <2>1. PICK D \in SUBSET Line, R \in SUBSET Line : BookEffect(D, R)
    BY <1>2, StepEffect DEF BillingInv
  <2>2. /\ number \in [Line -> Nat] /\ number' \in [Line -> Nat]
        /\ next \in Nat \ {0} /\ next' \in Nat \ {0}
    BY DEF BillingInv, TypeOK
  <2>3. reversed' = reversed \cup R
    BY <2>1 DEF BookEffect, Recognised
  <2>4. CASE D # {}
    <3>1. R = {} /\ reversed' = reversed
      BY <2>1, <2>3, <2>4 DEF BookEffect
    <3>2. /\ \A l \in D : number[l] = 0
          /\ next' >= next /\ next' # next
          /\ \A l \in Line \ D : number'[l] = number[l]
          /\ \A l \in D : number'[l] \in next..(next' - 1)
          /\ \A n \in next..(next' - 1) : \E l \in D : number'[l] = n
          /\ \A l, m \in D : number'[l] = number'[m] => l = m
      BY <2>1, <2>4 DEF BookEffect, TookNumbers
    <3>3. (next - 1) + 1 = next /\ next' - 1 > next - 1
      <4>1. next \in Nat /\ next' \in Nat /\ next' >= next /\ next' # next
        BY <2>2, <3>2
      <4>. QED BY <4>1, Taken
    <3>4. Book!Issue(D, next' - 1)
      BY <3>1, <3>2, <3>3 DEF Book!Issue
    <3>. QED BY <3>4 DEF Book!Next
  <2>5. CASE D = {}
    <3>1. next' = next
      <4>1. next' >= next /\ \A n \in next..(next' - 1) : FALSE
        BY <2>1, <2>5 DEF BookEffect, TookNumbers
      <4>2. next' # next => next \in next..(next' - 1)
        BY <2>2, <4>1, Taken
      <4>. QED BY <4>1, <4>2
    <3>2. number' = number
      BY <2>1, <2>2, <2>5 DEF BookEffect, TookNumbers
    <3>3. CASE R = {}
      BY <2>3, <3>1, <3>2, <3>3 DEF Book!vars
    <3>4. ASSUME NEW l \in Line, R = {l} PROVE Book!Next
      <4>1. number[l] # 0 /\ l \notin reversed
        BY <2>1, <3>4 DEF BookEffect, BillingInv, OnlyWaivedReversed
      <4>2. Book!Reverse(l)
        BY <2>3, <3>1, <3>2, <3>4, <4>1 DEF Book!Reverse
      <4>. QED BY <4>2 DEF Book!Next
    <3>. QED BY <2>1, <3>3, <3>4 DEF BookEffect
  <2>. QED BY <2>4, <2>5
<1>. QED BY <1>1, <1>2

(* Billing implements InvoiceBook: batches take the next numbers, a number *)
(* stays with its line, and revenue is taken back once and never restored. *)
THEOREM BillingImplementsInvoiceBook == Spec => ImplementsInvoiceBook
<1>1. Init => Book!Init
  BY DEF Init, Book!Init
<1>. QED BY <1>1, InvHolds, BookStep, PTL DEF Spec, ImplementsInvoiceBook, Book!Spec

-----------------------------------------------------------------------------
(* What a request or a run has read, and what a status column says.        *)

(* What a running recovery read as due and unpaid stays so: who would      *)
(* change it locks the contract.  Only its number may be gone.             *)
ReadsHold ==
  \A s \in Staff : LET r == request[s] IN
    r.op = "recover" =>
      /\ r.day <= today
      /\ \A l \in DOMAIN r.seen :
           /\ ContractOf[l] = ContractOf[r.f] /\ ~waived[l]
           /\ paid[l] = r.seen[l] /\ due[l] <= r.day

(* What a settlement or a nightly run read, it read today or before ...    *)
ReadInTime ==
  /\ \A s \in Staff : request[s].op = "settle" => request[s].day <= today
  /\ \A w \in Run : run[w].phase # "asleep" => run[w].day <= today

(* ... and while the contract was live: an open settlement holds off its   *)
(* end, and a contract that the run listed can end only later.             *)
ReadWhileLive ==
  /\ \A c \in Contract : settlement[c] = "OPEN" => Live(c)
  /\ \A s \in Staff : LET r == request[s] IN
       r.op = "settle" /\ status[r.c] \in EndedStatuses => r.day <= endedOn[r.c]
  /\ \A w \in Run : run[w].phase = "issue" =>
       \A c \in run[w].todo : status[c] \in EndedStatuses => run[w].day <= endedOn[c]

(* What the status column says of the other columns, whoever wrote it.     *)
StatusTells ==
  \A l \in Line :
    /\ istatus[l] \in {"DUE", "PARTIALLY_PAID", "OVERDUE"} => paid[l] < Gross[l]
    /\ istatus[l] = "UPCOMING" => paid[l] < Gross[l] \/ number[l] = 0
    /\ istatus[l] = "OVERDUE" => due[l] < today
    /\ waived[l] => istatus[l] = "WAIVED"

StatusInv ==
  /\ BillingInv
  /\ ReadInTime
  /\ ReadWhileLive
  /\ ReadsHold
  /\ StatusTells
  /\ RevenueMatchesInvoices
  /\ OverdueIsOwed

LEMMA RefreshMeans ==
  ASSUME NEW c \in Contract, status \in [Contract -> ContractStatuses], RefreshContractStatus(c)
  PROVE  /\ \A d \in Contract \ {c} : status'[d] = status[d]
         /\ status'[c] = "OVERDUE" =>
              \/ ~Live(c) /\ status[c] = "OVERDUE"
              \/ \E l \in Line : ContractOf[l] = c /\ istatus'[l] = "OVERDUE"
BY DEF RefreshContractStatus

(* A step leaves the day alone or goes to the next ... *)
TimePasses == today' \in Day /\ today' >= today

(* ... ends a contract today, and only when no settlement is open on it ... *)
EndsAreToday ==
  \A c \in Contract :
    \/ status'[c] = status[c] /\ endedOn'[c] = endedOn[c]
    \/ status[c] \notin EndedStatuses /\ status'[c] \in LiveStatuses
    \/ /\ Live(c) /\ settlement'[c] # "OPEN"
       /\ today' = today /\ endedOn'[c] = today

(* ... opens a settlement on a live contract only ... *)
OpensOnLive ==
  \A c \in Contract : settlement'[c] = "OPEN" =>
    settlement[c] = "OPEN" \/ (Live(c) /\ status' = status)

(* ... reads for a settlement what is open and due today ... *)
SettlesReadNow ==
  \A s \in Staff : request'[s].op = "settle" =>
    \/ request'[s] = request[s]
    \/ /\ request'[s].day = today /\ status' = status
       /\ settlement[request'[s].c] = "OPEN"

(* ... and starts a run with what is live today. *)
RunsReadNow ==
  \A w \in Run : run'[w].phase # "asleep" =>
    \/ /\ run[w].phase # "asleep" /\ run'[w].day = run[w].day
       /\ run'[w].phase = "issue" =>
            run[w].phase = "issue" /\ run'[w].todo \subseteq run[w].todo
    \/ /\ run'[w].day = today /\ today' = today /\ status' = status
       /\ \A c \in run'[w].todo : Live(c)

DayEffect == TimePasses /\ EndsAreToday /\ OpensOnLive /\ SettlesReadNow /\ RunsReadNow

LEMMA DayStep ==
  ASSUME BillingInv, TypeOK', Next
  PROVE  DayEffect
<1> USE BillingAssumption DEF BillingInv
<1>t. /\ today \in Day /\ today' \in Day /\ Day \subseteq Int
      /\ status \in [Contract -> ContractStatuses] /\ endedOn \in [Contract -> Day]
      /\ settlement \in [Contract -> {"NONE", "OPEN", "SETTLED"}]
      /\ request \in [Staff -> Requests] /\ run \in [Run -> Runs]
      /\ LiveStatuses \cap EndedStatuses = {} /\ "DRAFT" \notin EndedStatuses
      /\ Idle.op = "idle" /\ Asleep.phase = "asleep"
  BY DEF TypeOK, Day, LiveStatuses, EndedStatuses, Idle, Asleep
<1>q. ASSUME UNCHANGED <<status, endedOn, settlement, request, run>>, today' >= today
      PROVE  DayEffect
  <2>1. TimePasses /\ EndsAreToday
    BY <1>t, <1>q DEF TimePasses, EndsAreToday
  <2>2. OpensOnLive /\ SettlesReadNow
    BY <1>t, <1>q DEF OpensOnLive, SettlesReadNow
  <2>3. RunsReadNow
    BY <1>t, <1>q DEF RunsReadNow
  <2>. QED BY <2>1, <2>2, <2>3 DEF DayEffect
<1>s. ASSUME UNCHANGED <<today, endedOn, settlement, request, run>>,
             \A c \in Contract : \/ status'[c] = status[c]
                                 \/ status[c] \notin EndedStatuses /\ status'[c] \in LiveStatuses
      PROVE  DayEffect
  <2>1. TimePasses /\ EndsAreToday
    BY <1>t, <1>s DEF TimePasses, EndsAreToday
  <2>2. OpensOnLive /\ SettlesReadNow
    BY <1>t, <1>s DEF OpensOnLive, SettlesReadNow
  <2>3. RunsReadNow
    BY <1>t, <1>s DEF RunsReadNow
  <2>. QED BY <2>1, <2>2, <2>3 DEF DayEffect
<1>2. CASE Midnight
  <2>1. today' >= today
    BY <1>2, <1>t DEF Midnight
  <2>. QED BY <1>2, <1>q, <2>1 DEF Midnight
<1>3. ASSUME NEW c \in Contract, ActivateContract(c) PROVE DayEffect
  BY <1>3, <1>s, <1>t DEF ActivateContract, LiveStatuses
<1>4. ASSUME NEW c \in Contract, NEW amount \in Amount, RecordPayment(c, amount) PROVE DayEffect
  <2>1. \A d \in Contract : status'[d] = status[d] \/ (Live(d) /\ status'[d] \in LiveStatuses)
    BY <1>4, <1>t, RefreshFacts DEF RecordPayment
  <2>. QED BY <1>4, <1>s, <1>t, <2>1 DEF RecordPayment, Live
<1>5. ASSUME NEW c \in Contract, NEW outcome \in EndedStatuses, TerminateContract(c, outcome)
      PROVE  DayEffect
  <2>1. TimePasses /\ OpensOnLive /\ SettlesReadNow
    BY <1>5, <1>t DEF TerminateContract, TimePasses, OpensOnLive, SettlesReadNow
  <2>2. EndsAreToday
    BY <1>5, <1>t DEF TerminateContract, Reckoned, EndsAreToday
  <2>3. RunsReadNow
    BY <1>5, <1>t DEF TerminateContract, RunsReadNow
  <2>. QED BY <2>1, <2>2, <2>3 DEF DayEffect
<1>6. ASSUME NEW c \in Contract, OpenSettlement(c) PROVE DayEffect
  <2>1. TimePasses /\ EndsAreToday
    BY <1>6, <1>t DEF OpenSettlement, TimePasses, EndsAreToday
  <2>2. OpensOnLive /\ SettlesReadNow
    BY <1>6, <1>t DEF OpenSettlement, OpensOnLive, SettlesReadNow
  <2>3. RunsReadNow
    BY <1>6, <1>t DEF OpenSettlement, RunsReadNow
  <2>. QED BY <2>1, <2>2, <2>3 DEF DayEffect
<1>7. ASSUME NEW l \in Line, WaiveInstallment(l) PROVE DayEffect
  <2>1. \A d \in Contract : status'[d] = status[d] \/ (Live(d) /\ status'[d] \in LiveStatuses)
    BY <1>7, <1>t, RefreshFacts, FinalLines DEF WaiveInstallment
  <2>. QED BY <1>7, <1>s, <1>t, <2>1 DEF WaiveInstallment, Live
<1>8. ASSUME NEW s \in Staff, StaffStep(s) PROVE DayEffect
  <2>1. ASSUME UNCHANGED <<today, status, endedOn, settlement, run>>,
               \A u \in Staff \ {s} : request'[u] = request[u],
               request'[s].op # "settle"
        PROVE  DayEffect
    <3>1. TimePasses /\ EndsAreToday
      BY <1>t, <2>1 DEF TimePasses, EndsAreToday
    <3>2. OpensOnLive /\ SettlesReadNow
      BY <1>t, <2>1 DEF OpensOnLive, SettlesReadNow
    <3>3. RunsReadNow
      BY <1>t, <2>1 DEF RunsReadNow
    <3>. QED BY <3>1, <3>2, <3>3 DEF DayEffect
  <2>2. ASSUME NEW c \in Contract, NEW op \in {"add", "remove"}, NEW item \in Item, EditRead(s, c, op, item)
        PROVE  DayEffect
    BY <1>t, <2>1, <2>2 DEF EditRead, Ask
  <2>3. CASE EditWrite(s)
    BY <1>t, <2>1, <2>3 DEF EditWrite, Respond
  <2>4. ASSUME NEW c \in Contract, SettleRead(s, c) PROVE DayEffect
    <3>1. TimePasses /\ EndsAreToday /\ OpensOnLive /\ RunsReadNow
      BY <1>t, <2>4 DEF SettleRead, TimePasses, EndsAreToday, OpensOnLive, RunsReadNow
    <3>2. SettlesReadNow
      BY <1>t, <2>4 DEF SettleRead, Ask, SettlesReadNow
    <3>. QED BY <3>1, <3>2 DEF DayEffect
  <2>5. CASE SettleWrite(s)
    <3>1. TimePasses /\ EndsAreToday /\ RunsReadNow
      BY <1>t, <2>5 DEF SettleWrite, TimePasses, EndsAreToday, RunsReadNow
    <3>2. OpensOnLive
      BY <1>t, <2>5 DEF SettleWrite, OpensOnLive
    <3>3. SettlesReadNow
      BY <1>t, <2>5 DEF SettleWrite, Respond, SettlesReadNow
    <3>. QED BY <3>1, <3>2, <3>3 DEF DayEffect
  <2>6. ASSUME NEW f \in Fine, RecoverRead(s, f) PROVE DayEffect
    BY <1>t, <2>1, <2>6 DEF RecoverRead, Ask
  <2>7. CASE RecoverWrite(s)
    BY <1>t, <2>1, <2>7 DEF RecoverWrite, Respond
  <2>8. CASE Abort(s)
    BY <1>t, <2>1, <2>8 DEF Abort, Respond
  <2>. QED BY <1>8, <2>2, <2>3, <2>4, <2>5, <2>6, <2>7, <2>8 DEF StaffStep
<1>9. ASSUME NEW w \in Run, RunStep(w) \/ RunCrash(w) PROVE DayEffect
  <2>r. run[w] \in Runs
    BY <1>t
  <2>1. ASSUME UNCHANGED <<today, endedOn, settlement, request>>,
               \A d \in Contract : status'[d] = status[d] \/ (Live(d) /\ status'[d] \in LiveStatuses),
               \A u \in Run \ {w} : run'[u] = run[u],
               \/ run'[w].phase = "asleep"
               \/ /\ run[w].phase # "asleep" /\ run'[w].day = run[w].day
                  /\ run'[w].phase = "issue" => run[w].phase = "issue" /\ run'[w].todo \subseteq run[w].todo
        PROVE  DayEffect
    <3>1. TimePasses /\ EndsAreToday
      BY <1>t, <2>1 DEF TimePasses, EndsAreToday, Live
    <3>2. OpensOnLive /\ SettlesReadNow
      BY <1>t, <2>1 DEF OpensOnLive, SettlesReadNow
    <3>3. RunsReadNow
      BY <1>t, <2>1 DEF RunsReadNow
    <3>. QED BY <3>1, <3>2, <3>3 DEF DayEffect
  <2>2. CASE RunStart(w)
    <3>1. run'[w] = [phase |-> "issue", day |-> today, todo |-> ToIssue(today)]
      BY <1>t, <2>2 DEF RunStart
    <3>2. \A u \in Run \ {w} : run'[u] = run[u]
      BY <1>t, <2>2 DEF RunStart
    <3>3. TimePasses /\ EndsAreToday /\ OpensOnLive /\ SettlesReadNow
      BY <1>t, <2>2 DEF RunStart, TimePasses, EndsAreToday, OpensOnLive, SettlesReadNow
    <3>4. RunsReadNow
      BY <1>t, <2>2, <3>1, <3>2 DEF RunStart, ToIssue, RunsReadNow
    <3>. QED BY <3>3, <3>4 DEF DayEffect
  <2>3. CASE RunEnd(w) \/ RunCrash(w) \/ \E c \in Contract : RunRefused(w, c)
    BY <1>t, <2>1, <2>3 DEF RunEnd, RunCrash, RunRefused
  <2>4. ASSUME NEW c \in Contract, RunIssue(w, c) PROVE DayEffect
    <3>1. run' = [run EXCEPT ![w] = [run[w] EXCEPT !.todo = @ \ {c}]] /\ run[w].phase = "issue"
      BY <2>4 DEF RunIssue
    <3>2. run[w] = [phase |-> run[w].phase, day |-> run[w].day, todo |-> run[w].todo]
      BY <2>r, <3>1, RunFields
    <3>3. run'[w].day = run[w].day /\ run'[w].phase = "issue" /\ run'[w].todo \subseteq run[w].todo
      BY <1>t, <3>1, <3>2
    <3>. QED BY <1>t, <2>1, <2>4, <3>1, <3>3 DEF RunIssue
  <2>5. ASSUME NEW c \in Contract, RunRefresh(w, c) PROVE DayEffect
    <3>1. run' = [run EXCEPT ![w] = [run[w] EXCEPT !.todo = @ \ {c}]] /\ run[w].phase = "refresh"
      BY <2>5 DEF RunRefresh
    <3>2. run[w] = [phase |-> run[w].phase, day |-> run[w].day, todo |-> run[w].todo]
      BY <2>r, <3>1, RunFields
    <3>3. run'[w].day = run[w].day /\ run'[w].phase = "refresh"
      BY <1>t, <3>1, <3>2
    <3>4. \A d \in Contract : status'[d] = status[d] \/ (Live(d) /\ status'[d] \in LiveStatuses)
      BY <1>t, <2>5, RefreshFacts DEF RunRefresh
    <3>. QED BY <1>t, <2>1, <2>5, <3>1, <3>3, <3>4 DEF RunRefresh
  <2>6. CASE RunOverdue(w)
    <3>1. run' = [run EXCEPT ![w] = [run[w] EXCEPT !.phase = "list"]] /\ run[w].phase = "issue"
      BY <2>6 DEF RunOverdue
    <3>2. run[w] = [phase |-> run[w].phase, day |-> run[w].day, todo |-> run[w].todo]
      BY <2>r, <3>1, RunFields
    <3>3. run'[w].day = run[w].day /\ run'[w].phase = "list"
      BY <1>t, <3>1, <3>2
    <3>. QED BY <1>t, <2>1, <2>6, <3>1, <3>3 DEF RunOverdue
  <2>7. CASE RunList(w)
    <3>1. run'[w].phase = "refresh" /\ run'[w].day = run[w].day /\ run[w].phase = "list"
      BY <1>t, <2>7 DEF RunList
    <3>2. \A u \in Run \ {w} : run'[u] = run[u]
      BY <1>t, <2>7 DEF RunList
    <3>. QED BY <1>t, <2>1, <2>7, <3>1, <3>2 DEF RunList
  <2>. QED BY <1>9, <2>2, <2>3, <2>4, <2>5, <2>6, <2>7 DEF RunStep
<1>. QED BY <1>2, <1>3, <1>4, <1>5, <1>6, <1>7, <1>8, <1>9 DEF Next, ContractStep

LEMMA TimesStep ==
  ASSUME BillingInv, ReadInTime, ReadWhileLive, TypeOK', DayEffect
  PROVE  ReadInTime' /\ ReadWhileLive'
<1>t. /\ today \in Int /\ today' \in Int /\ today <= today'
      /\ endedOn \in [Contract -> Day] /\ Day \subseteq Int
      /\ request \in [Staff -> Requests] /\ request' \in [Staff -> Requests]
      /\ run \in [Run -> Runs] /\ run' \in [Run -> Runs]
      /\ LiveStatuses \cap EndedStatuses = {}
  BY DEF BillingInv, TypeOK, Day, LiveStatuses, EndedStatuses, DayEffect, TimePasses
<1>d. EndsAreToday /\ OpensOnLive /\ SettlesReadNow /\ RunsReadNow
  BY DEF DayEffect
<1>1. ASSUME NEW s \in Staff, request'[s].op = "settle" PROVE request'[s].day <= today'
  <2>1. request'[s].day \in Int
    BY <1>1, <1>t, RequestFields
  <2>2. request'[s].day <= today
    BY <1>1, <1>t, <1>d, <2>1 DEF SettlesReadNow, ReadInTime
  <2>. QED BY <1>t, <2>1, <2>2
<1>2. ASSUME NEW w \in Run, run'[w].phase # "asleep" PROVE run'[w].day <= today'
  <2>1. run'[w].day \in Int
    BY <1>2, <1>t, RunFields
  <2>2. run'[w].day <= today
    BY <1>2, <1>t, <1>d, <2>1 DEF RunsReadNow, ReadInTime
  <2>. QED BY <1>t, <2>1, <2>2
<1>3. ASSUME NEW c \in Contract, settlement'[c] = "OPEN" PROVE status'[c] \in LiveStatuses
  <2>1. Live(c)
    BY <1>3, <1>d DEF OpensOnLive, ReadWhileLive
  <2>. QED BY <1>3, <1>t, <1>d, <2>1 DEF EndsAreToday, Live
<1>4. ASSUME NEW c \in Contract, NEW day \in Day, day <= today, status'[c] \in EndedStatuses,
             status[c] \in EndedStatuses => day <= endedOn[c]
      PROVE  day <= endedOn'[c]
  <2>1. CASE status'[c] = status[c] /\ endedOn'[c] = endedOn[c]
    BY <1>4, <2>1
  <2>2. CASE endedOn'[c] = today
    BY <1>4, <2>2
  <2>. QED BY <1>4, <1>t, <1>d, <2>1, <2>2 DEF EndsAreToday
<1>5. ASSUME NEW s \in Staff, NEW c \in Contract, request'[s].op = "settle", request'[s].c = c,
             status'[c] \in EndedStatuses
      PROVE  request'[s].day <= endedOn'[c]
  <2>1. CASE request'[s] = request[s]
    <3>1. request[s].day \in Day /\ request[s].day <= today
      BY <1>5, <1>t, <2>1, RequestFields DEF ReadInTime
    <3>2. status[c] \in EndedStatuses => request[s].day <= endedOn[c]
      BY <1>5, <2>1 DEF ReadWhileLive
    <3>. QED BY <1>4, <1>5, <2>1, <3>1, <3>2
  <2>2. CASE request'[s] # request[s]
    <3>1. settlement[c] = "OPEN" /\ status' = status
      BY <1>5, <1>d, <2>2 DEF SettlesReadNow
    <3>. QED BY <1>5, <1>t, <3>1 DEF ReadWhileLive, Live
  <2>. QED BY <2>1, <2>2
<1>6. ASSUME NEW w \in Run, run'[w].phase = "issue", NEW c \in run'[w].todo, status'[c] \in EndedStatuses
      PROVE  run'[w].day <= endedOn'[c]
  <2>1. c \in Contract
    BY <1>6, <1>t, RunFields
  <2>2. CASE run[w].phase = "issue" /\ run'[w].day = run[w].day /\ run'[w].todo \subseteq run[w].todo
    <3>1. run[w].day \in Day /\ run[w].day <= today
      BY <1>t, <2>2, RunFields DEF ReadInTime
    <3>2. status[c] \in EndedStatuses => run[w].day <= endedOn[c]
      BY <1>6, <2>2 DEF ReadWhileLive
    <3>. QED BY <1>4, <1>6, <2>1, <2>2, <3>1, <3>2
  <2>3. CASE status' = status /\ Live(c)
    BY <1>6, <1>t, <2>3 DEF Live
  <2>. QED BY <1>6, <1>d, <2>2, <2>3 DEF RunsReadNow
<1>7. \A s \in Staff : request'[s].op = "settle" => request'[s].c \in Contract
  BY <1>t, RequestFields
<1>8. ReadInTime'
  BY <1>1, <1>2 DEF ReadInTime
<1>9. ReadWhileLive'
  BY <1>3, <1>5, <1>6, <1>7 DEF ReadWhileLive, Live
<1>. QED BY <1>8, <1>9

-----------------------------------------------------------------------------
(* A recovery under way has just been asked for, or was before. *)
LEMMA RecoversAsRead ==
  ASSUME TypeOK, Next, NEW s \in Staff, request'[s].op = "recover"
  PROVE  request'[s] = request[s] \/ \E f \in Fine : RecoverRead(s, f)
<1>t. request \in [Staff -> Requests] /\ Idle.op # "recover"
  BY DEF TypeOK, Idle
<1>1. ASSUME NEW u \in Staff, StaffStep(u), request'[s] # request[s]
      PROVE  \E f \in Fine : RecoverRead(s, f)
  <2>1. ASSUME NEW r, request' = [request EXCEPT ![u] = r] PROVE u = s /\ r.op = "recover"
    BY <1>1, <1>t, <2>1
  <2>2. ~(EditWrite(u) \/ SettleWrite(u) \/ RecoverWrite(u) \/ Abort(u))
    BY <1>t, <2>1 DEF EditWrite, SettleWrite, RecoverWrite, Abort, Respond
  <2>3. ASSUME NEW c \in Contract, NEW op \in {"add", "remove"}, NEW item \in Item, EditRead(u, c, op, item)
        PROVE  FALSE
    <3>1. request' = [request EXCEPT ![u] = [op |-> op, c |-> c, item |-> item]]
      BY <2>3 DEF EditRead, Ask
    <3>2. [op |-> op, c |-> c, item |-> item].op = "recover"
      BY <2>1, <3>1
    <3>. QED BY <3>2
  <2>4. ASSUME NEW c \in Contract, SettleRead(u, c) PROVE FALSE
    <3>1. request' = [request EXCEPT ![u] = [op |-> "settle", c |-> c, day |-> today, items |-> items[c]]]
      BY <2>4 DEF SettleRead, Ask
    <3>2. [op |-> "settle", c |-> c, day |-> today, items |-> items[c]].op = "recover"
      BY <2>1, <3>1
    <3>. QED BY <3>2
  <2>5. ASSUME NEW f \in Fine, RecoverRead(u, f) PROVE u = s
    BY <2>1, <2>5 DEF RecoverRead, Ask
  <2>. QED BY <1>1, <2>2, <2>3, <2>4, <2>5 DEF StaffStep
<1>2. UNCHANGED request \/ \E u \in Staff : StaffStep(u)
  BY DEF Next, Midnight, ContractStep, ActivateContract, RecordPayment, TerminateContract,
         OpenSettlement, WaiveInstallment, RunStep, RunCrash, RunStart, RunIssue, RunRefused,
         RunRefresh, RunOverdue, RunList, RunEnd
<1>. QED BY <1>1, <1>2

(* No step touches the money of a contract that a recovery holds: it would *)
(* have to lock it (lockContract).                                         *)
LEMMA LinesHeld ==
  ASSUME BillingInv, Next, NEW s \in Staff, Recovering(s),
         NEW l \in Line, ContractOf[l] = ContractOf[request[s].f], istatus[l] # "NONE"
  PROVE  due'[l] = due[l] /\ paid'[l] = paid[l] /\ waived'[l] = waived[l]
<1>t. /\ due \in [Line -> Day] /\ paid \in [Line -> Nat] /\ waived \in [Line -> BOOLEAN]
      /\ request \in [Staff -> Requests]
  BY DEF BillingInv, TypeOK
<1>1. ~LockContract(ContractOf[l])
  BY DEF LockContract
<1>2. ASSUME NEW c \in Contract, ContractStep(c) PROVE due'[l] = due[l] /\ paid'[l] = paid[l] /\ waived'[l] = waived[l]
  <2>1. CASE ActivateContract(c)
    BY <2>1 DEF ActivateContract, Invoice
  <2>2. ASSUME NEW amount \in Amount, RecordPayment(c, amount)
        PROVE  due'[l] = due[l] /\ paid'[l] = paid[l] /\ waived'[l] = waived[l]
    <3>1. l \notin LinesOf(c)
      BY <1>1, <2>2 DEF RecordPayment, LinesOf
    <3>. QED BY <2>2, <3>1 DEF RecordPayment
  <2>3. ASSUME NEW outcome \in EndedStatuses, TerminateContract(c, outcome)
        PROVE  due'[l] = due[l] /\ paid'[l] = paid[l] /\ waived'[l] = waived[l]
    BY <2>3 DEF TerminateContract
  <2>4. CASE OpenSettlement(c)
    BY <2>4 DEF OpenSettlement, lines
  <2>. QED BY <1>2, <2>1, <2>2, <2>3, <2>4 DEF ContractStep
<1>3. ASSUME NEW m \in Line, WaiveInstallment(m)
      PROVE  due'[l] = due[l] /\ paid'[l] = paid[l] /\ waived'[l] = waived[l]
  <2>1. m # l
    BY <1>1, <1>3 DEF WaiveInstallment
  <2>. QED BY <1>3, <1>t, <2>1 DEF WaiveInstallment
<1>4. ASSUME NEW u \in Staff, StaffStep(u)
      PROVE  due'[l] = due[l] /\ paid'[l] = paid[l] /\ waived'[l] = waived[l]
  <2>1. CASE SettleWrite(u)
    BY <1>t, <2>1 DEF SettleWrite, Invoice, lines
  <2>2. CASE RecoverWrite(u)
    BY <1>t, <2>2 DEF RecoverWrite, Invoice
  <2>3. CASE UNCHANGED lines
    BY <2>3 DEF lines
  <2>. QED BY <1>4, <2>1, <2>2, <2>3 DEF StaffStep, EditRead, EditWrite, SettleRead, RecoverRead, Abort
<1>5. ASSUME NEW w \in Run, RunStep(w) \/ RunCrash(w)
      PROVE  due'[l] = due[l] /\ paid'[l] = paid[l] /\ waived'[l] = waived[l]
  BY <1>5 DEF RunStep, RunCrash, RunStart, RunIssue, RunRefused, RunRefresh, RunOverdue, RunList,
              RunEnd, Invoice, lines
<1>. QED BY <1>2, <1>3, <1>4, <1>5 DEF Next, Midnight, lines

LEMMA ReadsHoldStep ==
  ASSUME BillingInv, ReadsHold, TypeOK', today' >= today, Next
  PROVE  ReadsHold'
<1> DEFINE Holds(r) ==
             /\ r.day <= today'
             /\ \A l \in DOMAIN r.seen :
                  /\ ContractOf[l] = ContractOf[r.f] /\ ~waived'[l]
                  /\ paid'[l] = r.seen[l] /\ due'[l] <= r.day
<1>t. /\ TypeOK /\ today \in Int /\ today' \in Int /\ Day \subseteq Int
      /\ request \in [Staff -> Requests]
  BY DEF BillingInv, TypeOK, Day
<1>1. ASSUME NEW s \in Staff, request[s].op = "recover" PROVE Holds(request[s])
  <2>1. request[s].day \in Int /\ DOMAIN request[s].seen \subseteq Line
    BY <1>t, <1>1, RequestFields
  <2>2. \A l \in DOMAIN request[s].seen :
          /\ l \in Line /\ istatus[l] # "NONE" /\ ContractOf[l] = ContractOf[request[s].f]
          /\ ~waived[l] /\ paid[l] = request[s].seen[l] /\ due[l] <= request[s].day
    BY <1>1, <2>1 DEF BillingInv, ReadsStand, ReadsHold
  <2>3. \A l \in DOMAIN request[s].seen :
          due'[l] = due[l] /\ paid'[l] = paid[l] /\ waived'[l] = waived[l]
    BY <1>1, <2>2, LinesHeld DEF Recovering
  <2>4. request[s].day <= today'
    BY <1>t, <1>1, <2>1 DEF ReadsHold
  <2>. QED BY <2>2, <2>3, <2>4
<1>2. ASSUME NEW s \in Staff, NEW f \in Fine, RecoverRead(s, f) PROVE Holds(request'[s])
  <2>1. /\ request'[s] = [op |-> "recover", f |-> f, day |-> today,
                          seen |-> [l \in DueLines(ContractOf[f], today) |-> paid[l]]]
        /\ UNCHANGED <<today, due, paid, waived>>
    BY <1>2, <1>t DEF RecoverRead, Ask, lines
  <2>2. \A l \in DueLines(ContractOf[f], today) :
          ContractOf[l] = ContractOf[f] /\ ~waived[l] /\ due[l] <= today
    BY DEF DueLines, LinesOf
  <2>. QED BY <1>t, <2>1, <2>2
<1>3. \A s \in Staff : request'[s].op = "recover" => Holds(request'[s])
  BY <1>1, <1>2, <1>t, RecoversAsRead
<1>. QED BY <1>3 DEF ReadsHold

-----------------------------------------------------------------------------
(* What a step may do to an instalment: it is left alone, or ...           *)
Kept(l) == due'[l] = due[l] /\ paid'[l] = paid[l] /\ waived'[l] = waived[l] /\ number'[l] = number[l]

LeftAlone(l) == Kept(l) /\ istatus'[l] = istatus[l]

(* ... scheduled, invoiced on the status its own payments give it (and not *)
(* beyond a contract's end, unless it is by a recovery), ...               *)
Scheduled(l) == Kept(l) /\ istatus[l] = "NONE" /\ istatus'[l] = "UPCOMING"

Recovery == \E s \in Staff : RecoverWrite(s)

Issued(l) ==
  /\ number[l] = 0 /\ number'[l] # 0
  /\ ~waived[l] /\ ~waived'[l] /\ paid'[l] = paid[l]
  /\ istatus[l] # "NONE" => due'[l] = due[l]
  /\ \E day \in Day :
       /\ day <= today /\ due'[l] <= day
       /\ istatus'[l] = InstallmentStatus(l, due'[l], paid'[l], day)
       /\ \/ Recovery
          \/ status[ContractOf[l]] \in EndedStatuses => day <= endedOn[ContractOf[l]]

(* ... paid, forgiven, cancelled or marked late.                           *)
PaidInto(l) ==
  /\ istatus[l] # "NONE" /\ ~waived[l] /\ ~waived'[l]
  /\ due'[l] = due[l] /\ number'[l] = number[l]
  /\ istatus'[l] = InstallmentStatus(l, due[l], paid'[l], today)

Forgiven(l) ==
  /\ istatus[l] # "NONE" /\ istatus'[l] = "WAIVED"
  /\ due'[l] = due[l] /\ paid'[l] = paid[l] /\ number'[l] = number[l]
  /\ ~waived[l] /\ waived'[l]
  /\ number[l] # 0 => <<"InstallmentWaiver", l>> \in ledger'

Cancelled(l) == Kept(l) /\ istatus'[l] = "CANCELLED" /\ istatus[l] # "NONE" /\ ~waived[l]

MarkedLate(l) ==
  /\ Kept(l)
  /\ istatus[l] \in {"DUE", "PARTIALLY_PAID", "UPCOMING"} /\ istatus'[l] = "OVERDUE"
  /\ number[l] # 0 /\ ~waived[l] /\ due[l] < today

LineEffect(l) ==
  \/ LeftAlone(l) \/ Scheduled(l) \/ Issued(l) \/ PaidInto(l)
  \/ Forgiven(l) \/ Cancelled(l) \/ MarkedLate(l)

(* A contract is Overdue for a line that is now, or it was already and     *)
(* nothing was paid, waived or put off on it.                              *)
OverdueEffect(c) ==
  status'[c] = "OVERDUE" =>
    \/ \E l \in Line : ContractOf[l] = c /\ istatus'[l] = "OVERDUE"
    \/ /\ status[c] = "OVERDUE"
       /\ \A l \in LinesOf(c) :
            /\ due'[l] = due[l] /\ paid'[l] = paid[l] /\ waived'[l] = waived[l]
            /\ istatus'[l] # "NONE"

Effects ==
  /\ \A l \in Line : LineEffect(l)
  /\ \A c \in Contract : OverdueEffect(c)
  /\ ledger \subseteq ledger'

(* What a computed status says of the money and of the day. *)
LEMMA StatusMeans ==
  ASSUME NEW l \in Line, NEW d \in Day, NEW p \in Nat, NEW day \in Day
  PROVE  LET s == InstallmentStatus(l, d, p, day) IN
         /\ s \in {"DUE", "PARTIALLY_PAID", "OVERDUE", "UPCOMING"} => p < Gross[l]
         /\ s = "OVERDUE" => d < day
         /\ s # "NONE" /\ s # "WAIVED" /\ s # "CANCELLED"
BY BillingAssumption DEF InstallmentStatus, Day

(* Nothing on a line changes. *)
LEMMA QuietEffects ==
  ASSUME UNCHANGED lines,
         \A c \in Contract : status'[c] = "OVERDUE" =>
           \/ status[c] = "OVERDUE"
           \/ \E l \in Line : ContractOf[l] = c /\ istatus'[l] = "OVERDUE"
  PROVE  Effects
BY DEF lines, Effects, LineEffect, LeftAlone, Kept, OverdueEffect, LinesOf

(* Issuing a batch of what is due and not waived, at the status of what    *)
(* was really paid.                                                        *)
LEMMA IssuedEffect ==
  ASSUME TypeOK,
         NEW D \in SUBSET Line, NEW dueOn \in [Line -> Day], NEW day \in Day,
         NEW paidFils, \A l \in D : paidFils[l] = paid[l],
         NEW others \in [Line -> Statuses],
         Invoice(D, dueOn, paidFils, day, others),
         UNCHANGED <<paid, waived>>,
         day <= today,
         \A l \in D : number[l] = 0 /\ ~waived[l] /\ dueOn[l] <= day,
         \/ Recovery
         \/ \A l \in D : status[ContractOf[l]] \in EndedStatuses => day <= endedOn[ContractOf[l]],
         \A l \in Line : istatus[l] # "NONE" => dueOn[l] = due[l]
  PROVE  /\ \A l \in D : Issued(l) /\ istatus'[l] # "NONE"
         /\ \A l \in Line \ D : /\ istatus'[l] = others[l] /\ due'[l] = dueOn[l]
                                /\ number'[l] = number[l]
         /\ ledger \subseteq ledger'
<1>1. /\ TookNumbers(D) /\ due' = dueOn
      /\ \A l \in D : istatus'[l] \in InstallmentStatuses
      /\ \A l \in Line \ D : istatus'[l] = others[l]
      /\ ledger \subseteq ledger'
  <2>1. TookNumbers(D) /\ due' = dueOn /\ ledger \subseteq ledger'
    BY InvoiceFacts
  <2>2. istatus' = [l \in Line |-> IF l \in D
                      THEN InstallmentStatus(l, dueOn[l], paidFils[l], day) ELSE others[l]]
    BY DEF Invoice
  <2>3. /\ \A l \in D : istatus'[l] \in InstallmentStatuses
        /\ \A l \in Line \ D : istatus'[l] = others[l]
    BY <2>2, StatusComputed
  <2>. QED BY <2>1, <2>3
<1>2. \A l \in D : number'[l] # 0
  BY <1>1 DEF TypeOK, TookNumbers
<1>3. \A l \in D : istatus'[l] = InstallmentStatus(l, dueOn[l], paidFils[l], day)
  BY DEF Invoice
<1>4. "NONE" \notin InstallmentStatuses
  BY DEF InstallmentStatuses
<1>5. \A l \in D : Issued(l) /\ istatus'[l] # "NONE"
  BY <1>1, <1>2, <1>3, <1>4 DEF Issued
<1>. QED BY <1>1, <1>5 DEF TookNumbers

LEMMA LineStep ==
  ASSUME BillingInv, ReadInTime, ReadWhileLive, ReadsHold, TypeOK', Next
  PROVE  Effects
<1> USE FinalLines
<1>t. /\ TypeOK
      /\ today \in Day /\ Day \subseteq Int
      /\ status \in [Contract -> ContractStatuses] /\ endedOn \in [Contract -> Day]
      /\ istatus \in [Line -> Statuses] /\ due \in [Line -> Day]
      /\ paid \in [Line -> Nat] /\ waived \in [Line -> BOOLEAN] /\ number \in [Line -> Nat]
      /\ "NONE" \notin InstallmentStatuses
      /\ "OVERDUE" \notin EndedStatuses /\ "DRAFT" \notin EndedStatuses
      /\ LiveStatuses \cap EndedStatuses = {} /\ EndedStatuses \subseteq ContractStatuses
  BY DEF BillingInv, TypeOK, Day, Statuses, InstallmentStatuses, EndedStatuses, LiveStatuses,
         ContractStatuses
<1>q. ASSUME UNCHANGED lines, UNCHANGED status PROVE Effects
  BY <1>q, QuietEffects
<1>i. ASSUME NEW c \in Contract, NEW day \in Day, day <= today,
             Recovery \/ (status[c] \in EndedStatuses => day <= endedOn[c]),
             NEW D \in SUBSET Line, NEW dueOn \in [Line -> Day],
             NEW paidFils, \A l \in D : paidFils[l] = paid[l],
             \A l \in D : ContractOf[l] = c /\ number[l] = 0 /\ ~waived[l] /\ dueOn[l] <= day,
             \A l \in Line \ D : dueOn[l] = due[l],
             \A l \in Line : istatus[l] # "NONE" => dueOn[l] = due[l],
             Invoice(D, dueOn, paidFils, day, istatus),
             UNCHANGED <<status, paid, waived>>
      PROVE  Effects
  <2>1. /\ TypeOK /\ istatus \in [Line -> Statuses]
        /\ UNCHANGED <<paid, waived>>
        /\ \A l \in D : number[l] = 0 /\ ~waived[l] /\ dueOn[l] <= day
        /\ \/ Recovery
           \/ \A l \in D : status[ContractOf[l]] \in EndedStatuses => day <= endedOn[ContractOf[l]]
    BY <1>i, <1>t
  <2>2. \A l \in D : Issued(l) /\ istatus'[l] # "NONE"
    BY <1>i, <2>1, IssuedEffect
  <2>3. \A l \in Line \ D : istatus'[l] = istatus[l] /\ due'[l] = dueOn[l] /\ number'[l] = number[l]
    <3>1. /\ istatus' = [l \in Line |-> IF l \in D
                           THEN InstallmentStatus(l, dueOn[l], paidFils[l], day) ELSE istatus[l]]
          /\ due' = dueOn
      BY <1>i DEF Invoice
    <3>2. TookNumbers(D)
      BY <1>i, <2>1, InvoiceFacts
    <3>. QED BY <3>1, <3>2 DEF TookNumbers
  <2>4. ledger \subseteq ledger'
    BY <1>i, <2>1, IssuedEffect
  <2>5. \A l \in Line \ D : LeftAlone(l)
    BY <1>i, <2>3 DEF LeftAlone, Kept
  <2>6. \A l \in Line : LineEffect(l)
    BY <2>2, <2>5 DEF LineEffect
  <2>7. \A d \in Contract : OverdueEffect(d)
    BY <1>i, <2>2, <2>5 DEF OverdueEffect, LinesOf, Issued, LeftAlone, Kept
  <2>. QED BY <2>4, <2>6, <2>7 DEF Effects
<1>d. ASSUME NEW c \in Contract, NEW day \in Day
      PROVE  /\ DueLines(c, day) \in SUBSET Line
             /\ \A l \in DueLines(c, day) :
                  ContractOf[l] = c /\ number[l] = 0 /\ ~waived[l] /\ due[l] <= day /\ istatus[l] # "NONE"
  BY DEF DueLines, LinesOf
<1>2. CASE Midnight
  BY <1>2, <1>q DEF Midnight
<1>3. ASSUME NEW c \in Contract, ActivateContract(c) PROVE Effects
  <2> DEFINE schedule == {l \in Month : ContractOf[l] = c}
             D == {l \in schedule : due[l] <= today}
             others == [l \in Line |-> IF l \in schedule THEN "UPCOMING" ELSE istatus[l]]
  <2>1. /\ D \in SUBSET Line /\ schedule \subseteq Line /\ D \subseteq schedule
        /\ others \in [Line -> Statuses]
    BY <1>t DEF Statuses, InstallmentStatuses, Line
  <2>2. \A l \in schedule : istatus[l] = "NONE" /\ number[l] = 0 /\ ~waived[l] /\ ContractOf[l] = c
    BY <1>3, <2>1 DEF ActivateContract, BillingInv, UnwrittenIsBlank, DraftHasNoSchedule
  <2>3. /\ Invoice(D, due, paid, today, others)
        /\ UNCHANGED <<paid, waived>>
        /\ status[c] = "DRAFT" /\ status' = [status EXCEPT ![c] = "ACTIVE"]
    BY <1>3 DEF ActivateContract
  <2>4. /\ \A l \in D : due[l] <= today
        /\ \A l \in schedule : others[l] = "UPCOMING"
        /\ \A l \in Line \ schedule : others[l] = istatus[l]
    BY <2>1
  <2> HIDE DEF D, others, schedule
  <2>5. \A l \in D : status[ContractOf[l]] \in EndedStatuses => today <= endedOn[ContractOf[l]]
    BY <1>t, <2>1, <2>2, <2>3
  <2>6. /\ \A l \in D : Issued(l) /\ istatus'[l] # "NONE"
        /\ \A l \in Line \ D : /\ istatus'[l] = others[l] /\ due'[l] = due[l]
                               /\ number'[l] = number[l]
        /\ ledger \subseteq ledger'
    <3>1. \A l \in D : number[l] = 0 /\ ~waived[l] /\ due[l] <= today
      BY <2>1, <2>2, <2>4
    <3>2. today <= today
      BY <1>t
    <3>. QED BY <1>t, <2>1, <2>3, <2>5, <3>1, <3>2, IssuedEffect
  <2>7. \A l \in schedule \ D : Scheduled(l)
    BY <2>1, <2>2, <2>3, <2>4, <2>6 DEF Scheduled, Kept
  <2>8. \A l \in Line \ schedule : LeftAlone(l)
    BY <2>1, <2>3, <2>4, <2>6 DEF LeftAlone, Kept
  <2>9. \A l \in Line : LineEffect(l)
    BY <2>6, <2>7, <2>8 DEF LineEffect
  <2>10. \A d \in Contract : OverdueEffect(d)
    <3> SUFFICES ASSUME NEW d \in Contract, status'[d] = "OVERDUE" PROVE OverdueEffect(d)
      BY DEF OverdueEffect
    <3>1. d # c /\ status[d] = "OVERDUE"
      BY <1>t, <2>3
    <3>2. \A l \in LinesOf(d) : l \in Line \ schedule /\ istatus[l] # "NONE"
      BY <2>2, <3>1 DEF LinesOf
    <3>. QED BY <2>8, <3>1, <3>2 DEF OverdueEffect, LeftAlone, Kept
  <2>. QED BY <2>6, <2>9, <2>10 DEF Effects
<1>4. ASSUME NEW c \in Contract, NEW amount \in Amount, RecordPayment(c, amount) PROVE Effects
  <2>1. PICK alloc \in Allocations(c, amount) :
          /\ paid' = [l \in Line |-> IF l \in LinesOf(c) /\ alloc[l] > 0
                        THEN paid[l] + alloc[l] ELSE paid[l]]
          /\ istatus' = [l \in Line |-> IF l \in LinesOf(c) /\ alloc[l] > 0
                        THEN InstallmentStatus(l, due[l], paid[l] + alloc[l], today)
                        ELSE istatus[l]]
    BY <1>4 DEF RecordPayment
  <2>2. /\ alloc \in [LinesOf(c) -> 0..amount] /\ amount \in Nat
        /\ \A l \in LinesOf(c) : alloc[l] <= Outstanding(l)
    BY BillingAssumption DEF Allocations
  <2>3. RefreshContractStatus(c) /\ UNCHANGED <<due, waived, number, next, ledger>>
    BY <1>4 DEF RecordPayment
  <2>4. ASSUME NEW l \in Line PROVE LineEffect(l) /\ (l \notin LinesOf(c) => LeftAlone(l))
                                    /\ (istatus[l] # "NONE" => istatus'[l] # "NONE")
    <3>1. CASE l \in LinesOf(c) /\ alloc[l] > 0
      <4>1. istatus[l] # "NONE" /\ ~waived[l]
        BY <1>t, <2>2, <3>1 DEF LinesOf, Outstanding
      <4>2. /\ paid'[l] = paid[l] + alloc[l]
            /\ istatus'[l] = InstallmentStatus(l, due[l], paid[l] + alloc[l], today)
        BY <2>1, <3>1
      <4>3. istatus'[l] # "NONE"
        BY <4>2, StatusComputed, <1>t
      <4>. QED BY <2>3, <3>1, <4>1, <4>2, <4>3 DEF LineEffect, PaidInto
    <3>2. CASE ~(l \in LinesOf(c) /\ alloc[l] > 0)
      <4>1. paid'[l] = paid[l] /\ istatus'[l] = istatus[l]
        BY <2>1, <3>2
      <4>. QED BY <2>3, <4>1 DEF LineEffect, LeftAlone, Kept
    <3>. QED BY <3>1, <3>2
  <2>5. \A d \in Contract : OverdueEffect(d)
    <3>1. OverdueEffect(c)
      BY <1>t, <1>4, <2>3, RefreshMeans DEF OverdueEffect, RecordPayment, LiveStatuses, Live
    <3>2. ASSUME NEW d \in Contract \ {c} PROVE OverdueEffect(d)
      <4>1. status'[d] = status[d]
        BY <1>t, <2>3, RefreshMeans
      <4>2. \A l \in LinesOf(d) : l \in Line /\ l \notin LinesOf(c) /\ istatus[l] # "NONE"
        BY DEF LinesOf
      <4>. QED BY <2>4, <4>1, <4>2 DEF OverdueEffect, LeftAlone, Kept
    <3>. QED BY <3>1, <3>2
  <2>. QED BY <2>3, <2>4, <2>5 DEF Effects
<1>5. ASSUME NEW c \in Contract, NEW outcome \in EndedStatuses, TerminateContract(c, outcome)
      PROVE  Effects
  <2>1. /\ UNCHANGED <<due, paid, waived, number, ledger>>
        /\ status' = [status EXCEPT ![c] = outcome]
        /\ istatus' = [l \in Line |-> IF l \in LinesOf(c) /\ number[l] = 0 /\ ~waived[l]
                                      THEN "CANCELLED" ELSE istatus[l]]
    BY <1>5 DEF TerminateContract
  <2>2. \A l \in Line : LineEffect(l) /\ (istatus[l] # "NONE" => istatus'[l] # "NONE")
    BY <2>1 DEF LineEffect, LeftAlone, Cancelled, Kept, LinesOf
  <2>3. \A d \in Contract : OverdueEffect(d)
    BY <1>t, <2>1, <2>2 DEF OverdueEffect, LinesOf
  <2>. QED BY <2>1, <2>2, <2>3 DEF Effects
<1>6. ASSUME NEW c \in Contract, OpenSettlement(c) PROVE Effects
  BY <1>6, <1>q DEF OpenSettlement
<1>7. ASSUME NEW l \in Line, WaiveInstallment(l) PROVE Effects
  <2>1. /\ istatus[l] # "NONE" /\ ~waived[l]
        /\ waived' = [waived EXCEPT ![l] = TRUE] /\ istatus' = [istatus EXCEPT ![l] = "WAIVED"]
        /\ ledger' = ledger \cup Reversal(l)
        /\ RefreshContractStatus(ContractOf[l])
        /\ UNCHANGED <<due, paid, number>>
    BY <1>7 DEF WaiveInstallment
  <2>2. number[l] # 0 => <<"InstallmentWaiver", l>> \in ledger'
    BY <2>1 DEF Reversal, BillingInv, RecognisedWhenInvoiced
  <2>3. Forgiven(l)
    BY <1>t, <2>1, <2>2 DEF Forgiven
  <2>4. \A m \in Line \ {l} : LeftAlone(m)
    BY <1>t, <2>1 DEF LeftAlone, Kept
  <2>5. \A d \in Contract : OverdueEffect(d)
    <3>1. OverdueEffect(ContractOf[l])
      BY <1>t, <2>1, <1>7, RefreshMeans DEF OverdueEffect, Live, LiveStatuses
    <3>2. ASSUME NEW d \in Contract \ {ContractOf[l]} PROVE OverdueEffect(d)
      <4>1. status'[d] = status[d]
        BY <1>t, <2>1, RefreshMeans
      <4>2. \A m \in LinesOf(d) : m \in Line \ {l} /\ istatus[m] # "NONE"
        BY DEF LinesOf
      <4>. QED BY <2>4, <4>1, <4>2 DEF OverdueEffect, LeftAlone, Kept
    <3>. QED BY <3>1, <3>2
  <2>6. \A m \in Line : LineEffect(m)
    BY <2>3, <2>4 DEF LineEffect
  <2>. QED BY <2>1, <2>5, <2>6 DEF Effects
<1>8. ASSUME NEW s \in Staff, StaffStep(s) PROVE Effects
  <2>1. CASE UNCHANGED <<status, lines>>
    BY <2>1, <1>q
  <2>2. CASE SettleWrite(s)
    <3> DEFINE r == request[s]
               f == FinalOf[r.c]
    <3>1. r.op = "settle" /\ UNCHANGED status
      BY <2>2 DEF SettleWrite
    <3>2. r.c \in Contract /\ r.day \in Day /\ r.day <= today
      BY <3>1, RequestFields, <1>t DEF TypeOK, ReadInTime
    <3>3. status[r.c] \in EndedStatuses => r.day <= endedOn[r.c]
      BY <3>1 DEF ReadWhileLive
    <3>4. CASE /\ istatus[f] = "NONE"
               /\ Invoice(DueLines(r.c, r.day) \cup {f}, [due EXCEPT ![f] = r.day], paid, r.day, istatus)
               /\ UNCHANGED <<paid, waived>>
      <4>1. f \in Line /\ ContractOf[f] = r.c
        BY <3>2, BillingAssumption
      <4> DEFINE dueOn == [due EXCEPT ![f] = r.day]
      <4>2. /\ dueOn \in [Line -> Day] /\ dueOn[f] = r.day
            /\ \A l \in Line \ {f} : dueOn[l] = due[l]
        BY <1>t, <3>2, <4>1
      <4>3. Invoice(DueLines(r.c, r.day) \cup {f}, dueOn, paid, r.day, istatus)
        BY <3>4
      <4> HIDE DEF dueOn, f, r
      <4> DEFINE D == DueLines(r.c, r.day) \cup {f}
      <4>4. number[f] = 0 /\ ~waived[f] /\ dueOn[f] <= r.day
        <5>1. number[f] = 0 /\ ~waived[f]
          BY <3>4, <4>1 DEF BillingInv, UnwrittenIsBlank
        <5>2. r.day \in Int
          BY <1>t, <3>2
        <5>. QED BY <4>2, <5>1, <5>2 DEF Day
      <4>5. \A l \in DueLines(r.c, r.day) : dueOn[l] = due[l]
        <5>1. \A l \in DueLines(r.c, r.day) : l \in Line \ {f}
          BY <1>d, <3>2, <3>4
        <5>. QED BY <4>2, <5>1
      <4>6. /\ D \in SUBSET Line
            /\ \A l \in D : ContractOf[l] = r.c /\ number[l] = 0 /\ ~waived[l] /\ dueOn[l] <= r.day
        BY <1>d, <3>2, <4>1, <4>4, <4>5
      <4>7. /\ \A l \in Line \ D : dueOn[l] = due[l]
            /\ \A l \in Line : istatus[l] # "NONE" => dueOn[l] = due[l]
        BY <3>4, <4>2
      <4>8. Invoice(D, dueOn, paid, r.day, istatus) /\ UNCHANGED <<status, paid, waived>>
        BY <3>1, <3>4, <4>3
      <4> HIDE DEF D
      <4>. QED BY <1>i, <3>2, <3>3, <4>2, <4>6, <4>7, <4>8
    <3>5. CASE UNCHANGED lines
      BY <3>1, <3>5, <1>q
    <3>. QED BY <2>2, <3>4, <3>5 DEF SettleWrite
  <2>3. CASE RecoverWrite(s)
    <3> DEFINE r == request[s]
               E == DOMAIN r.seen
               D == E \cup {r.f}
               dueOn == [due EXCEPT ![r.f] = r.day]
               paidFils == [l \in D |-> IF l = r.f THEN 0 ELSE r.seen[l]]
    <3>1. /\ r.op = "recover" /\ istatus[r.f] = "NONE" /\ Unclaimed(E)
          /\ Invoice(D, dueOn, paidFils, r.day, istatus)
          /\ UNCHANGED <<status, paid, waived>>
      BY <2>3 DEF RecoverWrite
    <3>2. r.f \in Line /\ ContractOf[r.f] \in Contract /\ r.day \in Day /\ E \in SUBSET Line
      BY <1>t, <3>1, RequestFields DEF TypeOK, Line
    <3>3. /\ r.day <= today /\ r.day \in Int
          /\ \A l \in E : /\ ContractOf[l] = ContractOf[r.f] /\ ~waived[l]
                         /\ paid[l] = r.seen[l] /\ due[l] <= r.day
                         /\ number[l] = 0 /\ istatus[l] # "NONE"
      BY <1>t, <3>1, <3>2 DEF ReadsHold, BillingInv, ReadsStand, Unclaimed
    <3>4. number[r.f] = 0 /\ ~waived[r.f] /\ paid[r.f] = 0
      BY <3>1, <3>2 DEF BillingInv, UnwrittenIsBlank
    <3>5. /\ dueOn \in [Line -> Day] /\ dueOn[r.f] = r.day
          /\ \A l \in Line \ {r.f} : dueOn[l] = due[l]
      BY <1>t, <3>2
    <3>6. \A l \in D : paidFils[l] = paid[l]
      BY <3>3, <3>4
    <3>7. Recovery
      BY <2>3 DEF Recovery
    <3> HIDE DEF dueOn, paidFils, E, r
    <3>8. /\ D \in SUBSET Line
          /\ \A l \in D : /\ ContractOf[l] = ContractOf[r.f] /\ number[l] = 0
                         /\ ~waived[l] /\ dueOn[l] <= r.day
      <4>1. \A l \in E : l \in Line /\ l # r.f /\ dueOn[l] = due[l]
        BY <3>1, <3>2, <3>3, <3>5
      <4>2. dueOn[r.f] <= r.day
        BY <3>3, <3>5
      <4>. QED BY <3>2, <3>3, <3>4, <4>1, <4>2
    <3>9. /\ \A l \in Line \ D : dueOn[l] = due[l]
          /\ \A l \in Line : istatus[l] # "NONE" => dueOn[l] = due[l]
      BY <3>1, <3>5
    <3> HIDE DEF D
    <3>. QED BY <1>i, <3>1, <3>2, <3>3, <3>5, <3>6, <3>7, <3>8, <3>9
  <2>4. ASSUME NEW c \in Contract, NEW op \in {"add", "remove"}, NEW item \in Item, EditRead(s, c, op, item)
        PROVE  UNCHANGED <<status, lines>>
    BY <2>4 DEF EditRead
  <2>5. ASSUME NEW c \in Contract, SettleRead(s, c) PROVE UNCHANGED <<status, lines>>
    BY <2>5 DEF SettleRead
  <2>6. EditWrite(s) \/ Abort(s) => UNCHANGED <<status, lines>>
    BY DEF EditWrite, Abort
  <2>7. ASSUME NEW f \in Fine, RecoverRead(s, f) PROVE UNCHANGED <<status, lines>>
    BY <2>7 DEF RecoverRead
  <2>. QED BY <1>8, <2>1, <2>2, <2>3, <2>4, <2>5, <2>6, <2>7 DEF StaffStep
<1>9. ASSUME NEW w \in Run, RunStep(w) \/ RunCrash(w) PROVE Effects
  <2>1. RunStart(w) \/ RunList(w) \/ RunEnd(w) \/ RunCrash(w) => UNCHANGED <<status, lines>>
    BY DEF RunStart, RunList, RunEnd, RunCrash
  <2>2. ASSUME NEW c \in Contract, RunRefused(w, c) PROVE UNCHANGED <<status, lines>>
    BY <2>2 DEF RunRefused
  <2>3. ASSUME NEW c \in Contract, RunIssue(w, c) PROVE Effects
    <3>1. /\ run[w].phase = "issue" /\ c \in run[w].todo
          /\ Invoice(DueLines(c, run[w].day), due, paid, run[w].day, istatus)
          /\ UNCHANGED <<status, paid, waived>>
      BY <2>3 DEF RunIssue
    <3>2. run[w].day \in Day /\ run[w].day <= today
      BY <1>t, <3>1, RunFields DEF TypeOK, ReadInTime
    <3>3. status[c] \in EndedStatuses => run[w].day <= endedOn[c]
      BY <3>1 DEF ReadWhileLive
    <3> DEFINE D == DueLines(c, run[w].day)
    <3>4. /\ D \in SUBSET Line
          /\ \A l \in D : ContractOf[l] = c /\ number[l] = 0 /\ ~waived[l] /\ due[l] <= run[w].day
      BY <1>d, <3>2
    <3>5. Invoice(D, due, paid, run[w].day, istatus)
      BY <3>1
    <3> HIDE DEF D
    <3>. QED BY <1>i, <1>t, <3>1, <3>2, <3>3, <3>4, <3>5
  <2>4. CASE RunOverdue(w)
    <3>1. /\ run[w].phase = "issue" /\ UNCHANGED <<status, due, paid, waived, number, ledger>>
          /\ istatus' = [l \in Line |-> IF l \in LateLines(run[w].day) THEN "OVERDUE" ELSE istatus[l]]
      BY <2>4 DEF RunOverdue
    <3>2. run[w].day \in Day /\ run[w].day <= today
      BY <1>t, <3>1, RunFields DEF TypeOK, ReadInTime
    <3>3. \A l \in LateLines(run[w].day) : MarkedLate(l)
      BY <1>t, <3>1, <3>2 DEF LateLines, MarkedLate, Kept
    <3>4. \A l \in Line \ LateLines(run[w].day) : LeftAlone(l)
      BY <3>1 DEF LeftAlone, Kept
    <3>5. \A l \in Line : LineEffect(l) /\ (istatus[l] # "NONE" => istatus'[l] # "NONE")
      BY <3>1, <3>3, <3>4 DEF LineEffect
    <3>6. \A d \in Contract : OverdueEffect(d)
      BY <3>1, <3>5 DEF OverdueEffect, LinesOf
    <3>. QED BY <3>1, <3>5, <3>6 DEF Effects
  <2>5. ASSUME NEW c \in Contract, RunRefresh(w, c) PROVE Effects
    <3>1. UNCHANGED lines /\ RefreshContractStatus(c)
      BY <2>5 DEF RunRefresh
    <3>. QED BY <1>t, <3>1, RefreshMeans, QuietEffects
  <2>. QED BY <1>9, <1>q, <2>1, <2>2, <2>3, <2>4, <2>5 DEF RunStep
<1>. QED BY <1>2, <1>3, <1>4, <1>5, <1>6, <1>7, <1>8, <1>9 DEF Next, ContractStep

(* The strengthening holds from the start, and every step keeps it.        *)
LEMMA StatusInvInit == Init => StatusInv
<1> SUFFICES ASSUME Init PROVE StatusInv
  OBVIOUS
<1>1. BillingInv
  BY InvInit
<1>2. ReadInTime /\ ReadWhileLive /\ ReadsHold
  BY DEF Init, ReadInTime, ReadWhileLive, ReadsHold, Idle, Asleep
<1>3. StatusTells
  BY DEF Init, StatusTells
<1>4. RevenueMatchesInvoices
  BY <1>1 DEF Init, BillingInv, RevenueMatchesInvoices
<1>5. OverdueIsOwed
  BY DEF Init, OverdueIsOwed
<1>. QED BY <1>1, <1>2, <1>3, <1>4, <1>5 DEF StatusInv

LEMMA StatusStep ==
  ASSUME BillingInv, StatusTells, TypeOK', today' >= today, Effects
  PROVE  StatusTells'
<1> SUFFICES ASSUME NEW l \in Line
             PROVE  /\ istatus'[l] \in {"DUE", "PARTIALLY_PAID", "OVERDUE"} => paid'[l] < Gross[l]
                    /\ istatus'[l] = "UPCOMING" => paid'[l] < Gross[l] \/ number'[l] = 0
                    /\ istatus'[l] = "OVERDUE" => due'[l] < today'
                    /\ waived'[l] => istatus'[l] = "WAIVED"
  BY DEF StatusTells
<1>t. /\ today \in Nat /\ today' \in Nat /\ due[l] \in Nat /\ due'[l] \in Nat /\ due'[l] \in Day
      /\ today \in Day
      /\ paid[l] \in Nat /\ paid'[l] \in Nat /\ Gross[l] \in Nat
      /\ Day \subseteq Nat
  BY BillingAssumption DEF BillingInv, TypeOK, Day
<1>s. /\ istatus[l] \in {"DUE", "PARTIALLY_PAID", "OVERDUE"} => paid[l] < Gross[l]
      /\ istatus[l] = "UPCOMING" => paid[l] < Gross[l] \/ number[l] = 0
      /\ istatus[l] = "OVERDUE" => due[l] < today
      /\ waived[l] => istatus[l] = "WAIVED"
  BY DEF StatusTells
<1>1. CASE LeftAlone(l)
  BY <1>1, <1>s, <1>t DEF LeftAlone, Kept
<1>2. CASE Scheduled(l)
  <2>1. ~waived[l] /\ number[l] = 0
    BY <1>2 DEF Scheduled, BillingInv, UnwrittenIsBlank
  <2>. QED BY <1>2, <2>1 DEF Scheduled, Kept
<1>3. CASE Issued(l)
  <2>1. PICK day \in Day : /\ day <= today
                           /\ istatus'[l] = InstallmentStatus(l, due'[l], paid'[l], day)
    BY <1>3 DEF Issued
  <2>2. /\ istatus'[l] \in {"DUE", "PARTIALLY_PAID", "OVERDUE", "UPCOMING"} => paid'[l] < Gross[l]
        /\ istatus'[l] = "OVERDUE" => due'[l] < day
    BY <1>t, <2>1, StatusMeans
  <2>. QED BY <1>3, <1>t, <2>1, <2>2 DEF Issued
<1>4. CASE PaidInto(l)
  <2>1. /\ istatus'[l] \in {"DUE", "PARTIALLY_PAID", "OVERDUE", "UPCOMING"} => paid'[l] < Gross[l]
        /\ istatus'[l] = "OVERDUE" => due'[l] < today
    BY <1>4, <1>t, StatusMeans DEF PaidInto
  <2>. QED BY <1>4, <1>t, <2>1 DEF PaidInto
<1>5. CASE Forgiven(l)
  BY <1>5 DEF Forgiven
<1>6. CASE Cancelled(l)
  BY <1>6 DEF Cancelled, Kept
<1>7. CASE MarkedLate(l)
  BY <1>7, <1>s, <1>t DEF MarkedLate, Kept
<1>. QED BY <1>1, <1>2, <1>3, <1>4, <1>5, <1>6, <1>7 DEF Effects, LineEffect

LEMMA OverdueStep ==
  ASSUME BillingInv, StatusTells', OverdueIsOwed, TypeOK', today' >= today, Effects
  PROVE  OverdueIsOwed'
<1>1. ASSUME NEW l \in Line, istatus'[l] = "OVERDUE"
      PROVE  paid'[l] < Gross[l] /\ ~waived'[l] /\ due'[l] < today'
  BY <1>1 DEF StatusTells
<1>2. ASSUME NEW c \in Contract, status'[c] = "OVERDUE"
      PROVE  \E l \in Line : /\ ContractOf[l] = c /\ istatus'[l] # "NONE"
                             /\ due'[l] < today' /\ paid'[l] < Gross[l] /\ ~waived'[l]
  <2>1. CASE \E l \in Line : ContractOf[l] = c /\ istatus'[l] = "OVERDUE"
    BY <1>1, <2>1
  <2>2. CASE /\ status[c] = "OVERDUE"
             /\ \A l \in LinesOf(c) : /\ due'[l] = due[l] /\ paid'[l] = paid[l]
                                      /\ waived'[l] = waived[l] /\ istatus'[l] # "NONE"
    <3>1. PICK l \in LinesOf(c) : due[l] < today /\ paid[l] < Gross[l] /\ ~waived[l]
      BY <2>2 DEF OverdueIsOwed
    <3>2. l \in Line /\ ContractOf[l] = c
      BY DEF LinesOf
    <3>3. today \in Nat /\ today' \in Nat /\ due[l] \in Nat
      BY <3>2 DEF BillingInv, TypeOK, Day
    <3>. QED BY <2>2, <3>1, <3>2, <3>3
  <2>. QED BY <1>2, <2>1, <2>2 DEF Effects, OverdueEffect
<1>. QED BY <1>1, <1>2 DEF OverdueIsOwed, LinesOf

LEMMA RevenueStep ==
  ASSUME BillingInv, BillingInv', RevenueMatchesInvoices, Effects
  PROVE  RevenueMatchesInvoices'
<1>1. RecognisedWhenInvoiced' /\ OnlyWaivedReversed'
  BY DEF BillingInv
<1>2. ASSUME NEW l \in Line, number'[l] # 0, waived'[l]
      PROVE  <<"InstallmentWaiver", l>> \in ledger'
  <2>1. CASE number[l] # 0 /\ waived[l]
    BY <2>1 DEF RevenueMatchesInvoices, Effects
  <2>2. CASE number[l] # 0 /\ ~waived[l]
    BY <1>2, <2>2 DEF Effects, LineEffect, LeftAlone, Scheduled, Issued, PaidInto, Forgiven,
                      Cancelled, MarkedLate, Kept
  <2>3. CASE number[l] = 0
    BY <1>2, <2>3 DEF Effects, LineEffect, LeftAlone, Scheduled, Issued, PaidInto, Forgiven,
                      Cancelled, MarkedLate, Kept
  <2>. QED BY <2>1, <2>2, <2>3 DEF BillingInv, TypeOK
<1>3. \A l \in Line : <<"InstallmentWaiver", l>> \in ledger' => number'[l] # 0 /\ waived'[l]
  BY <1>1 DEF OnlyWaivedReversed
<1>. QED BY <1>1, <1>2, <1>3 DEF RevenueMatchesInvoices

LEMMA StatusInvStep ==
  ASSUME StatusInv, [Next]_vars
  PROVE  StatusInv' /\ (UNCHANGED vars \/ Effects)
<1>1. CASE Next
  <2>1. BillingInv /\ BillingInv' /\ TypeOK'
    BY <1>1, InvStep DEF StatusInv, BillingInv
  <2>2. DayEffect /\ today' >= today
    BY <1>1, <2>1, DayStep DEF DayEffect, TimePasses
  <2>3. ReadInTime' /\ ReadWhileLive'
    BY <2>1, <2>2, TimesStep DEF StatusInv
  <2>8. ReadsHold'
    BY <1>1, <2>1, <2>2, ReadsHoldStep DEF StatusInv
  <2>4. Effects
    BY <1>1, <2>1, LineStep DEF StatusInv
  <2>5. StatusTells'
    BY <2>1, <2>2, <2>4, StatusStep DEF StatusInv
  <2>6. RevenueMatchesInvoices'
    BY <2>1, <2>4, RevenueStep DEF StatusInv
  <2>7. OverdueIsOwed'
    BY <2>1, <2>2, <2>4, <2>5, OverdueStep DEF StatusInv
  <2>. QED BY <2>1, <2>3, <2>4, <2>5, <2>6, <2>7, <2>8 DEF StatusInv
<1>2. CASE UNCHANGED vars
  <2>1. BillingInv'
    BY <1>2, InvStep DEF StatusInv
  <2>2. ReadInTime' /\ ReadWhileLive' /\ ReadsHold' /\ StatusTells'
    BY <1>2 DEF StatusInv, vars, lines, ReadInTime, ReadWhileLive, ReadsHold, StatusTells, Live
  <2>3. RevenueMatchesInvoices' /\ OverdueIsOwed'
    BY <1>2 DEF StatusInv, vars, lines, RevenueMatchesInvoices, RecognisedWhenInvoiced,
                OverdueIsOwed, LinesOf
  <2>. QED BY <1>2, <2>1, <2>2, <2>3 DEF StatusInv
<1>. QED BY <1>1, <1>2

LEMMA StatusInvHolds == Spec => []StatusInv
<1>1. StatusInv /\ [Next]_vars => StatusInv'
  BY StatusInvStep
<1>. QED BY <1>1, StatusInvInit, PTL DEF Spec

(* INV-4: a contract's ledger revenue is what was issued and not waived:   *)
(* every entry recognised with an invoice, and reversed exactly when its   *)
(* instalment is waived, whatever waivers, terminations, settlements, fine *)
(* recoveries and nightly runs meet (waiveInstallment, issueInstallment).  *)
THEOREM RevenueMatches == Spec => []RevenueMatchesInvoices
<1>1. StatusInv => RevenueMatchesInvoices
  BY DEF StatusInv
<1>. QED BY <1>1, StatusInvHolds, PTL

(* An instalment shown Overdue lacks money, and a contract shown Overdue   *)
(* has one that is late, whichever handler on whichever side of midnight   *)
(* last computed a status, a recovery from what it read as paid included.  *)
THEOREM OverdueLacksMoney == Spec => []OverdueIsOwed
<1>1. StatusInv => OverdueIsOwed
  BY DEF StatusInv
<1>. QED BY <1>1, StatusInvHolds, PTL

(* What is invoiced on an ended contract had fallen due before it ended,   *)
(* or is invoiced by a recovery.                                           *)
EarnsWhatWasReached(l) ==
  LET c == ContractOf[l] IN
  status[c] \in EndedStatuses /\ number[l] = 0 /\ number'[l] # 0 => due'[l] <= endedOn[c]

LEMMA EarnsStep ==
  ASSUME StatusInv, [Next]_vars
  PROVE  UNCHANGED vars \/ Recovery \/ \A l \in Line : EarnsWhatWasReached(l)
<1>1. CASE Effects
  <2> SUFFICES ASSUME NEW l \in Line, ~Recovery, status[ContractOf[l]] \in EndedStatuses,
                      number[l] = 0, number'[l] # 0
               PROVE  due'[l] <= endedOn[ContractOf[l]]
    BY DEF EarnsWhatWasReached
  <2>1. Issued(l)
    BY <1>1 DEF Effects, LineEffect, LeftAlone, Scheduled, PaidInto, Forgiven, Cancelled,
                MarkedLate, Kept
  <2>2. PICK day \in Day : due'[l] <= day /\ day <= endedOn[ContractOf[l]]
    BY <2>1 DEF Issued
  <2>3. TypeOK' /\ TypeOK
    BY StatusInvStep DEF StatusInv, BillingInv
  <2>4. due'[l] \in Int /\ day \in Int /\ endedOn[ContractOf[l]] \in Int
    BY <2>3, FinalLines DEF TypeOK, Day
  <2>. QED BY <2>2, <2>4
<1>. QED BY <1>1, StatusInvStep

(* "A contract cancelled early simply never posts the months it did not    *)
(* reach", but for what recoverFine issues: though a settlement and the    *)
(* nightly run both act on a status read before they lock the contract, no *)
(* other step invoices on an ended contract what was not due at its end.   *)
THEOREM OnlyRecoveriesEarnLate ==
  Spec => [][Recovery \/ \A l \in Line : EarnsWhatWasReached(l)]_vars
<1>1. ASSUME StatusInv, [Next]_vars
      PROVE  [Recovery \/ \A l \in Line : EarnsWhatWasReached(l)]_vars
  BY <1>1, EarnsStep
<1>. QED BY <1>1, StatusInvHolds, PTL DEF Spec

(* A company that recovers no fine earns on an ended contract only what    *)
(* had fallen due before.                                                  *)
THEOREM EndedEarnsWhatWasReached ==
  ASSUME Fine = {} PROVE Spec => EndedEarnsOnlyWhatWasReached
<1>1. ASSUME StatusInv, [Next]_vars
      PROVE  [\A l \in Line : LET c == ContractOf[l] IN
                status[c] \in EndedStatuses /\ number[l] = 0 /\ number'[l] # 0
                  => due'[l] <= endedOn[c]]_vars
  <2>1. ASSUME NEW s \in Staff PROVE ~RecoverWrite(s)
    BY <1>1, RequestFields DEF RecoverWrite, StatusInv, BillingInv, TypeOK
  <2>. QED BY <1>1, <2>1, EarnsStep DEF EarnsWhatWasReached, Recovery
<1>. QED BY <1>1, StatusInvHolds, PTL DEF Spec, EndedEarnsOnlyWhatWasReached
=============================================================================
