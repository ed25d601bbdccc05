--------------------------- MODULE SupplierProofs ---------------------------
(***************************************************************************)
(* Theorems about Supplier, for every set of contracts, payables, staff    *)
(* and runs.                                                               *)
(*                                                                         *)
(* None of the properties is inductive as it stands.  A payment writes     *)
(* what it read plus an amount, which is right only because the row it     *)
(* holds has not been paid on since (PaymentsStand); a run raises what it  *)
(* has read, which is still on the books only because its contract could   *)
(* not end meanwhile (RaisesStand).  SupplierInv adds both.                *)
(***************************************************************************)
EXTENDS Supplier, TLAPS

(* The row lock excludes: one running payment per payable. *)
OnePayerEach ==
  \A s, t \in Staff : request[s] # Idle /\ request[t] # Idle /\ request[s].p = request[t].p => s = t

(* What a running payment has read still holds. *)
PaymentsStand ==
  \A s \in Staff : request[s] # Idle =>
    LET r == request[s] IN
    /\ pstatus[r.p] # "NONE"
    /\ r.seen = paid[r.p]
    /\ r.amount > 0 /\ r.seen + r.amount <= Bills[r.p]

(* What a run is about to raise is still on the books of its contract. *)
RaisesStand ==
  \A w \in Run : run[w].phase = "raise" =>
    \A p \in run[w].due : ContractOf[p] = run[w].c /\ pstatus[p] # "NONE"

(* A draft has no payables, and nothing of it was ever booked. *)
DraftIsBlank ==
  \A p \in Payable : status[ContractOf[p]] = "DRAFT" => pstatus[p] = "NONE" /\ ~raised[p]

(* An ended contract keeps only the payables it had raised. *)
EndedIsRaised ==
  \A p \in Payable : status[ContractOf[p]] \in EndedStatuses /\ pstatus[p] # "NONE" => raised[p]

SupplierInv ==
  /\ TypeOK
  /\ PaidIsWhatWasPaid
  /\ CostIsWhatWasRaised
  /\ OnePayerEach
  /\ PaymentsStand
  /\ RaisesStand
  /\ DraftIsBlank
  /\ EndedIsRaised

-----------------------------------------------------------------------------

LEMMA StatusFacts ==
  /\ LiveStatuses \subseteq ContractStatuses \ ({"DRAFT"} \cup EndedStatuses)
  /\ EndedStatuses \subseteq ContractStatuses \ {"DRAFT"}
  /\ "NONE" \notin PayableStatuses
  /\ {"UPCOMING", "OVERDUE"} \subseteq PayableStatuses
BY DEF LiveStatuses, EndedStatuses, ContractStatuses, PayableStatuses

LEMMA StatusComputed ==
  ASSUME NEW p \in Payable, NEW n \in Nat, NEW d \in Day
  PROVE  SupplierInvoiceStatus(p, n, d) \in PayableStatuses
BY DEF SupplierInvoiceStatus, PayableStatuses

(* The fields of a running payment, and of a run. *)
LEMMA RequestFields ==
  ASSUME TypeOK, NEW s \in Staff, request[s] # Idle
  PROVE  /\ request[s].p \in Payable /\ request[s].amount \in Nat /\ request[s].seen \in Nat
         /\ request[s].day \in Day
BY DEF TypeOK, Payments

LEMMA RunFields ==
  ASSUME TypeOK, NEW w \in Run
  PROVE  /\ run[w].phase \in {"asleep", "list", "raise"}
         /\ run[w] # Asleep => run[w].day \in Day /\ run[w].todo \subseteq Contract
         /\ run[w].phase = "raise" => /\ run[w] # Asleep
                                      /\ run[w].c \in Contract /\ run[w].due \subseteq Payable
                                      /\ run[w].seen \in [Payable -> Nat]
BY DEF TypeOK, Runs, Asleep

(* What a raise does to the rows: nothing leaves the books by it. *)
LEMMA RaiseEffect ==
  ASSUME TypeOK, NEW D \in SUBSET Payable, NEW seen \in [Payable -> Nat], NEW day \in Day,
         NEW others \in [Payable -> PayableStatuses \cup {"NONE"}],
         Raise(D, seen, day, others)
  PROVE  /\ pstatus' \in [Payable -> PayableStatuses \cup {"NONE"}]
         /\ raised' \in [Payable -> BOOLEAN]
         /\ ledger' \subseteq Payable
         /\ \A p \in Payable : pstatus'[p] = "NONE" <=> (p \notin D /\ others[p] = "NONE")
         /\ raised' = [p \in Payable |-> p \in D \/ raised[p]]
         /\ ledger' = ledger \cup D
<1>1. \A p \in D : SupplierInvoiceStatus(p, seen[p], day) \in PayableStatuses
  BY StatusComputed
<1>. QED BY <1>1, StatusFacts DEF Raise, TypeOK

-----------------------------------------------------------------------------
(* Type correctness is inductive on its own. *)

LEMMA TypeInit == Init => TypeOK
BY SupplierAssumption DEF Init, TypeOK, ContractStatuses, Day, Runs

LEMMA TypeStep == TypeOK /\ [Next]_vars => TypeOK'
<1> USE SupplierAssumption
<1> SUFFICES ASSUME TypeOK, [Next]_vars PROVE TypeOK'
  OBVIOUS
<1>1. CASE UNCHANGED vars
  BY <1>1 DEF vars, rows, TypeOK
<1>2. CASE Midnight
  BY <1>2 DEF Midnight, rows, TypeOK, Day
<1>3. ASSUME NEW c \in Contract, ActivateContract(c) PROVE TypeOK'
  <2> DEFINE schedule == {p \in Payable : ContractOf[p] = c}
             others == [p \in Payable |-> IF p \in schedule THEN "UPCOMING" ELSE pstatus[p]]
  <2>1. others \in [Payable -> PayableStatuses \cup {"NONE"}]
    BY StatusFacts DEF TypeOK
  <2>2. Raise({p \in schedule : DueOn[p] <= today}, paid, today, others)
    BY <1>3 DEF ActivateContract
  <2>3. /\ pstatus' \in [Payable -> PayableStatuses \cup {"NONE"}]
        /\ raised' \in [Payable -> BOOLEAN]
        /\ ledger' \subseteq Payable
    <3>1. paid \in [Payable -> Nat] /\ today \in Day /\ {p \in schedule : DueOn[p] <= today} \in SUBSET Payable
      BY DEF TypeOK
    <3>. QED BY <2>1, <2>2, <3>1, RaiseEffect
  <2>. QED BY <1>3, <2>3 DEF ActivateContract, TypeOK, ContractStatuses
<1>4. ASSUME NEW c \in Contract, RefreshContractStatus(c) PROVE TypeOK'
  BY <1>4, StatusFacts DEF RefreshContractStatus, rows, TypeOK
<1>5. ASSUME NEW c \in Contract, NEW outcome \in EndedStatuses, TerminateContract(c, outcome) PROVE TypeOK'
  BY <1>5, StatusFacts DEF TerminateContract, TypeOK
<1>6. ASSUME NEW s \in Staff, NEW p \in Payable, NEW amount \in Amount, PayRead(s, p, amount) PROVE TypeOK'
  <2>1. [op |-> "pay", p |-> p, amount |-> amount, seen |-> paid[p], day |-> today] \in Payments
    BY DEF Payments, TypeOK
  <2>. QED BY <1>6, <2>1 DEF PayRead, rows, TypeOK
<1>7. ASSUME NEW s \in Staff, PayWrite(s) PROVE TypeOK'
  <2> DEFINE r == request[s]
  <2>1. r # Idle
    BY <1>7 DEF PayWrite
  <2>2. r.p \in Payable /\ r.amount \in Nat /\ r.seen \in Nat /\ r.day \in Day
    BY <2>1, RequestFields
  <2>3. r.seen + r.amount \in Nat
    BY <2>2
  <2>4. SupplierInvoiceStatus(r.p, r.seen + r.amount, r.day) \in PayableStatuses
    BY <2>2, <2>3, StatusComputed
  <2>5. paid' \in [Payable -> Nat] /\ payments' \in [Payable -> Nat]
    BY <1>7, <2>2, <2>3 DEF PayWrite, TypeOK
  <2>6. pstatus' \in [Payable -> PayableStatuses \cup {"NONE"}]
    BY <1>7, <2>2, <2>4 DEF PayWrite, TypeOK
  <2>. QED BY <1>7, <2>5, <2>6 DEF PayWrite, TypeOK
<1>8. ASSUME NEW w \in Run, RunStep(w) PROVE TypeOK'
  <2>1. CASE RunStart(w)
    <3>1. [phase |-> "list", day |-> today, todo |-> ToRaise(today)] \in Runs
      BY DEF Runs, TypeOK, ToRaise
    <3>. QED BY <2>1, <3>1 DEF RunStart, rows, TypeOK
  <2>2. ASSUME NEW c \in Contract, RunRead(w, c) PROVE TypeOK'
    <3> DEFINE D == DuePayables(c, run[w].day)
    <3>1. run[w] # Asleep
      BY <2>2 DEF RunRead, Asleep
    <3>2. run[w].day \in Day /\ run[w].todo \subseteq Contract
      BY <3>1, RunFields
    <3>3. D \subseteq Payable
      BY DEF DuePayables, PayablesOf
    <3>4. [p \in Payable |-> IF p \in D THEN paid[p] ELSE 0] \in [Payable -> Nat]
      BY DEF TypeOK
    <3>5. [phase |-> "raise", day |-> run[w].day, todo |-> run[w].todo \ {c}, c |-> c, due |-> D,
           seen |-> [p \in Payable |-> IF p \in D THEN paid[p] ELSE 0]] \in Runs
      BY <3>2, <3>3, <3>4 DEF Runs
    <3>. QED BY <2>2, <3>5 DEF RunRead, rows, TypeOK
  <2>3. CASE RunWrite(w)
    <3>1. /\ run[w].day \in Day /\ run[w].todo \subseteq Contract
          /\ run[w].due \subseteq Payable /\ run[w].seen \in [Payable -> Nat]
      BY <2>3, RunFields DEF RunWrite
    <3>2. /\ pstatus' \in [Payable -> PayableStatuses \cup {"NONE"}]
          /\ raised' \in [Payable -> BOOLEAN]
          /\ ledger' \subseteq Payable
      <4>1. pstatus \in [Payable -> PayableStatuses \cup {"NONE"}]
        BY DEF TypeOK
      <4>. QED BY <2>3, <3>1, <4>1, RaiseEffect DEF RunWrite
    <3>3. [phase |-> "list", day |-> run[w].day, todo |-> run[w].todo] \in Runs
      BY <3>1 DEF Runs
    <3>. QED BY <2>3, <3>2, <3>3 DEF RunWrite, TypeOK
  <2>4. CASE RunOverdue(w)
    <3>1. Asleep \in Runs
      BY DEF Runs
    <3>. QED BY <2>4, <3>1, StatusFacts DEF RunOverdue, TypeOK
  <2>. QED BY <1>8, <2>1, <2>2, <2>3, <2>4 DEF RunStep
<1>9. ASSUME NEW w \in Run, RunCrash(w) PROVE TypeOK'
  <2>1. Asleep \in Runs
    BY DEF Runs
  <2>. QED BY <1>9, <2>1 DEF RunCrash, rows, TypeOK
<1>. QED BY <1>1, <1>2, <1>3, <1>4, <1>5, <1>6, <1>7, <1>8, <1>9 DEF Next

-----------------------------------------------------------------------------
(* The invariant, action by action. *)

LEMMA InvInit == Init => SupplierInv
BY TypeInit, SupplierAssumption DEF Init, SupplierInv, PaidIsWhatWasPaid, CostIsWhatWasRaised,
   OnePayerEach, PaymentsStand, RaisesStand, DraftIsBlank, EndedIsRaised, Asleep, EndedStatuses

(* What reads nothing and writes no row keeps it; so does a run that has   *)
(* gone back to where it holds nothing.                                    *)
LEMMA RowsAlone ==
  ASSUME SupplierInv, TypeOK', UNCHANGED <<status, rows, request>>,
         \A w \in Run : run'[w] = run[w] \/ run'[w].phase # "raise"
  PROVE  SupplierInv'
<1>1. PaidIsWhatWasPaid' /\ CostIsWhatWasRaised' /\ OnePayerEach' /\ PaymentsStand' /\ DraftIsBlank'
      /\ EndedIsRaised'
  BY DEF rows, SupplierInv, PaidIsWhatWasPaid, CostIsWhatWasRaised, OnePayerEach, PaymentsStand,
         DraftIsBlank, EndedIsRaised
<1>2. RaisesStand'
  BY DEF rows, SupplierInv, RaisesStand
<1>. QED BY <1>1, <1>2 DEF SupplierInv

LEMMA ActivateKeeps ==
  ASSUME SupplierInv, TypeOK', NEW c \in Contract, ActivateContract(c)
  PROVE  SupplierInv'
<1> USE SupplierAssumption
<1> DEFINE schedule == {p \in Payable : ContractOf[p] = c}
           due == {p \in schedule : DueOn[p] <= today}
           others == [p \in Payable |-> IF p \in schedule THEN "UPCOMING" ELSE pstatus[p]]
<1>a. /\ status[c] = "DRAFT" /\ status' = [status EXCEPT ![c] = "ACTIVE"]
      /\ UNCHANGED <<paid, payments, request, run>>
      /\ Raise(due, paid, today, others)
  BY DEF ActivateContract
<1>e. /\ \A p \in Payable : pstatus'[p] = "NONE" <=> (p \notin due /\ others[p] = "NONE")
      /\ raised' = [p \in Payable |-> p \in due \/ raised[p]]
      /\ ledger' = ledger \cup due
      /\ raised' \in [Payable -> BOOLEAN]
  <2>1. /\ due \in SUBSET Payable /\ paid \in [Payable -> Nat] /\ today \in Day
        /\ others \in [Payable -> PayableStatuses \cup {"NONE"}]
    BY StatusFacts DEF SupplierInv, TypeOK
  <2>2. TypeOK
    BY DEF SupplierInv
  <2>3. Raise(due, paid, today, others)
    BY <1>a
  <2> HIDE DEF due, others
  <2>4. \A p \in Payable : pstatus'[p] = "NONE" <=> (p \notin due /\ others[p] = "NONE")
    BY <2>1, <2>2, <2>3, RaiseEffect
  <2>5. raised' = [p \in Payable |-> p \in due \/ raised[p]]
    BY <2>1, <2>2, <2>3, RaiseEffect
  <2>6. ledger' = ledger \cup due
    BY <2>1, <2>2, <2>3, RaiseEffect
  <2>7. raised' \in [Payable -> BOOLEAN]
    BY <2>1, <2>2, <2>3, RaiseEffect
  <2>. QED BY <2>4, <2>5, <2>6
<1>n. \A p \in Payable : pstatus'[p] = "NONE" <=> (p \notin schedule /\ pstatus[p] = "NONE")
  BY <1>e, StatusFacts
<1>1. PaidIsWhatWasPaid' /\ OnePayerEach'
  BY <1>a DEF SupplierInv, PaidIsWhatWasPaid, OnePayerEach
<1>2. CostIsWhatWasRaised'
  BY <1>e, <1>n DEF SupplierInv, CostIsWhatWasRaised
<1>3. PaymentsStand'
  BY <1>a, <1>n, RequestFields DEF SupplierInv, PaymentsStand
<1>4. RaisesStand'
  <2>1. \A w \in Run : run[w].phase = "raise" => run[w].due \subseteq Payable
    BY RunFields DEF SupplierInv
  <2>. QED BY <1>a, <1>n, <2>1 DEF SupplierInv, RaisesStand
<1>5. DraftIsBlank' /\ EndedIsRaised'
  <2>1. \A p \in Payable : status'[ContractOf[p]] = (IF p \in schedule THEN "ACTIVE" ELSE status[ContractOf[p]])
    BY <1>a DEF SupplierInv, TypeOK
  <2>. QED BY <1>e, <1>n, <2>1 DEF SupplierInv, DraftIsBlank, EndedIsRaised, EndedStatuses
<1>. QED BY <1>1, <1>2, <1>3, <1>4, <1>5 DEF SupplierInv

LEMMA RefreshKeeps ==
  ASSUME SupplierInv, TypeOK', NEW c \in Contract, RefreshContractStatus(c)
  PROVE  SupplierInv'
<1> USE SupplierAssumption
<1>a. /\ status[c] \in LiveStatuses /\ UNCHANGED <<rows, request, run>>
      /\ status' \in [Contract -> ContractStatuses]
      /\ \A d \in Contract : status'[d] = status[d] \/ status'[d] \in LiveStatuses
  BY StatusFacts DEF RefreshContractStatus, Live, SupplierInv, TypeOK
<1>1. DraftIsBlank' /\ EndedIsRaised'
  BY <1>a, StatusFacts DEF rows, SupplierInv, DraftIsBlank, EndedIsRaised
<1>2. PaidIsWhatWasPaid' /\ CostIsWhatWasRaised' /\ OnePayerEach' /\ PaymentsStand' /\ RaisesStand'
  BY <1>a DEF rows, SupplierInv, PaidIsWhatWasPaid, CostIsWhatWasRaised, OnePayerEach, PaymentsStand,
         RaisesStand
<1>. QED BY <1>1, <1>2 DEF SupplierInv

(* The lock on the contract keeps what a run has read; the rows the delete *)
(* waits for keep what a payment has read.                                 *)
LEMMA TerminateKeeps ==
  ASSUME SupplierInv, TypeOK', NEW c \in Contract, NEW outcome \in EndedStatuses,
         TerminateContract(c, outcome)
  PROVE  SupplierInv'
<1> USE SupplierAssumption
<1>a. /\ Live(c) /\ ~ContractLocked(c) /\ \A p \in Unraised(c) : ~RowLocked(p)
      /\ status' = [status EXCEPT ![c] = outcome]
      /\ pstatus' = [p \in Payable |-> IF p \in Unraised(c) THEN "NONE" ELSE pstatus[p]]
      /\ UNCHANGED <<raised, paid, payments, ledger, request, run>>
  BY DEF TerminateContract
<1>u. \A p \in Payable : p \in Unraised(c) <=> ContractOf[p] = c /\ pstatus[p] # "NONE" /\ ~raised[p]
  BY DEF Unraised, PayablesOf
<1>1. PaidIsWhatWasPaid' /\ OnePayerEach' /\ CostIsWhatWasRaised'
  BY <1>a, <1>u DEF SupplierInv, PaidIsWhatWasPaid, OnePayerEach, CostIsWhatWasRaised
<1>2. PaymentsStand'
  BY <1>a, RequestFields DEF SupplierInv, PaymentsStand, RowLocked
<1>3. RaisesStand'
  <2>1. \A w \in Run : run[w].phase = "raise" => run[w].due \subseteq Payable /\ run[w].c # c
    BY <1>a, RunFields DEF SupplierInv, ContractLocked
  <2>. QED BY <1>a, <1>u, <2>1 DEF SupplierInv, RaisesStand
<1>4. DraftIsBlank' /\ EndedIsRaised'
  <2>1. \A p \in Payable : status'[ContractOf[p]] = (IF ContractOf[p] = c THEN outcome ELSE status[ContractOf[p]])
    BY <1>a DEF SupplierInv, TypeOK
  <2>. QED BY <1>a, <1>u, <2>1, StatusFacts DEF SupplierInv, DraftIsBlank, EndedIsRaised
<1>. QED BY <1>1, <1>2, <1>3, <1>4 DEF SupplierInv

(* A payment takes the row's lock as it reads. *)
LEMMA PayReadKeeps ==
  ASSUME SupplierInv, TypeOK', NEW s \in Staff, NEW p \in Payable, NEW amount \in Amount,
         PayRead(s, p, amount)
  PROVE  SupplierInv'
<1> USE SupplierAssumption
<1>a. /\ request[s] = Idle /\ ~RowLocked(p) /\ pstatus[p] # "NONE"
      /\ amount > 0 /\ amount <= Bills[p] - paid[p]
      /\ request' = [request EXCEPT ![s] =
           [op |-> "pay", p |-> p, amount |-> amount, seen |-> paid[p], day |-> today]]
      /\ UNCHANGED <<status, pstatus, raised, paid, payments, ledger, run>>
  BY DEF PayRead, rows
<1>t. request \in [Staff -> {Idle} \cup Payments]
  BY DEF SupplierInv, TypeOK
<1>s. /\ request'[s] # Idle /\ request'[s].p = p /\ request'[s].amount = amount
      /\ request'[s].seen = paid[p]
  BY <1>a, <1>t DEF Idle
<1>o. \A t \in Staff \ {s} : request'[t] = request[t]
  BY <1>a, <1>t
<1>1. OnePayerEach'
  BY <1>a, <1>s, <1>o DEF SupplierInv, OnePayerEach, RowLocked
<1>2. PaymentsStand'
  <2>1. paid[p] + amount <= Bills[p]
    BY <1>a DEF SupplierInv, TypeOK
  <2>2. /\ pstatus'[p] # "NONE" /\ request'[s].seen = paid'[p]
        /\ request'[s].amount > 0 /\ request'[s].seen + request'[s].amount <= Bills[p]
    <3>1. pstatus' = pstatus /\ paid' = paid
      BY <1>a
    <3>. QED BY <1>a, <1>s, <2>1, <3>1
  <2>. QED BY <1>a, <1>s, <1>o, <2>2 DEF SupplierInv, PaymentsStand
<1>3. PaidIsWhatWasPaid' /\ CostIsWhatWasRaised' /\ RaisesStand' /\ DraftIsBlank' /\ EndedIsRaised'
  BY <1>a DEF SupplierInv, PaidIsWhatWasPaid, CostIsWhatWasRaised, RaisesStand, DraftIsBlank, EndedIsRaised
<1>. QED BY <1>1, <1>2, <1>3 DEF SupplierInv

(* What a payment writes is what the row had, and the payment. *)
LEMMA PayEffect ==
  ASSUME SupplierInv, NEW s \in Staff, PayWrite(s)
  PROVE  LET q == request[s].p
             amount == request[s].amount IN
         /\ q \in Payable /\ pstatus[q] # "NONE"
         /\ amount \in Nat /\ amount > 0 /\ paid[q] + amount <= Bills[q] /\ paid[q] = payments[q]
         /\ paid' = [paid EXCEPT ![q] = paid[q] + amount]
         /\ payments' = [payments EXCEPT ![q] = payments[q] + amount]
         /\ \A p \in Payable : pstatus'[p] = "NONE" <=> pstatus[p] = "NONE"
         /\ request' = [request EXCEPT ![s] = Idle]
         /\ UNCHANGED <<status, raised, ledger, run>>
<1> USE SupplierAssumption
<1> DEFINE r == request[s]
<1>1. r # Idle
  BY DEF PayWrite
<1>2. r.p \in Payable /\ r.amount \in Nat /\ r.seen \in Nat /\ r.day \in Day
  BY <1>1, RequestFields DEF SupplierInv
<1>3. /\ pstatus[r.p] # "NONE" /\ r.seen = paid[r.p]
      /\ r.amount > 0 /\ r.seen + r.amount <= Bills[r.p]
  BY <1>1 DEF SupplierInv, PaymentsStand
<1>4. SupplierInvoiceStatus(r.p, r.seen + r.amount, r.day) # "NONE"
  <2>1. r.seen + r.amount \in Nat
    BY <1>2
  <2>. QED BY <1>2, <2>1, StatusComputed, StatusFacts
<1>5. \A p \in Payable : pstatus'[p] = "NONE" <=> pstatus[p] = "NONE"
  BY <1>2, <1>3, <1>4 DEF PayWrite, SupplierInv, TypeOK
<1>6. paid[r.p] = payments[r.p]
  BY <1>2 DEF SupplierInv, PaidIsWhatWasPaid
<1>. QED BY <1>2, <1>3, <1>5, <1>6 DEF PayWrite

LEMMA PayWriteKeeps ==
  ASSUME SupplierInv, TypeOK', NEW s \in Staff, PayWrite(s)
  PROVE  SupplierInv'
<1> DEFINE q == request[s].p
           amount == request[s].amount
<1>a. /\ q \in Payable /\ amount \in Nat /\ paid[q] + amount <= Bills[q] /\ paid[q] = payments[q]
      /\ paid' = [paid EXCEPT ![q] = paid[q] + amount]
      /\ payments' = [payments EXCEPT ![q] = payments[q] + amount]
      /\ \A p \in Payable : pstatus'[p] = "NONE" <=> pstatus[p] = "NONE"
      /\ request' = [request EXCEPT ![s] = Idle]
      /\ UNCHANGED <<status, raised, ledger, run>>
  BY PayEffect
<1>t. request \in [Staff -> {Idle} \cup Payments] /\ paid \in [Payable -> Nat] /\ payments \in [Payable -> Nat]
  BY DEF SupplierInv, TypeOK
<1>r. /\ request'[s] = Idle
      /\ \A t \in Staff \ {s} : request'[t] = request[t]
  BY <1>a, <1>t
<1>n. request[s] # Idle
  BY DEF PayWrite
<1>1. PaidIsWhatWasPaid'
  <2>1. ASSUME NEW p \in Payable PROVE paid'[p] = payments'[p] /\ paid'[p] <= Bills[p]
    <3>1. CASE p = q
      <4>1. paid'[p] = paid[q] + amount /\ payments'[p] = paid[q] + amount
        BY <1>a, <1>t, <3>1
      <4>. QED BY <1>a, <3>1, <4>1
    <3>2. CASE p # q
      <4>1. paid'[p] = paid[p] /\ payments'[p] = payments[p]
        BY <1>a, <1>t, <3>2
      <4>2. paid[p] = payments[p] /\ paid[p] <= Bills[p]
        BY DEF SupplierInv, PaidIsWhatWasPaid
      <4>. QED BY <4>1, <4>2
    <3>. QED BY <3>1, <3>2
  <2>. QED BY <2>1 DEF PaidIsWhatWasPaid
<1>2. OnePayerEach'
  BY <1>r DEF SupplierInv, OnePayerEach
<1>3. PaymentsStand'
  <2>1. ASSUME NEW t \in Staff, request'[t] # Idle
        PROVE  /\ pstatus'[request'[t].p] # "NONE"
               /\ request'[t].seen = paid'[request'[t].p]
               /\ request'[t].amount > 0
               /\ request'[t].seen + request'[t].amount <= Bills[request'[t].p]
    <3>1. t # s /\ request'[t] = request[t]
      BY <1>r, <2>1
    <3>2. request[t].p # q /\ request[t].p \in Payable
      BY <1>n, <2>1, <3>1, RequestFields DEF SupplierInv, OnePayerEach
    <3>3. paid'[request[t].p] = paid[request[t].p]
      BY <1>a, <1>t, <3>2
    <3>4. /\ pstatus[request[t].p] # "NONE" /\ request[t].seen = paid[request[t].p]
          /\ request[t].amount > 0 /\ request[t].seen + request[t].amount <= Bills[request[t].p]
      BY <2>1, <3>1 DEF SupplierInv, PaymentsStand
    <3>. QED BY <1>a, <3>1, <3>2, <3>3, <3>4
  <2>. QED BY <2>1 DEF PaymentsStand
<1>4. RaisesStand'
  <2>1. \A w \in Run : run[w].phase = "raise" => run[w].due \subseteq Payable
    BY RunFields DEF SupplierInv
  <2>. QED BY <1>a, <2>1 DEF SupplierInv, RaisesStand
<1>5. CostIsWhatWasRaised' /\ DraftIsBlank' /\ EndedIsRaised'
  BY <1>a DEF SupplierInv, CostIsWhatWasRaised, DraftIsBlank, EndedIsRaised
<1>. QED BY <1>1, <1>2, <1>3, <1>4, <1>5 DEF SupplierInv

LEMMA RunReadKeeps ==
  ASSUME SupplierInv, TypeOK', NEW w \in Run, NEW c \in Contract, RunRead(w, c)
  PROVE  SupplierInv'
<1> DEFINE D == DuePayables(c, run[w].day)
<1>a. /\ run' = [run EXCEPT ![w] =
           [phase |-> "raise", day |-> run[w].day, todo |-> run[w].todo \ {c}, c |-> c, due |-> D,
            seen |-> [p \in Payable |-> IF p \in D THEN paid[p] ELSE 0]]]
      /\ UNCHANGED <<status, pstatus, raised, paid, payments, ledger, request>>
  BY DEF RunRead, rows
<1>1. RaisesStand'
  <2>1. run'[w].c = c /\ run'[w].due = D /\ \A v \in Run \ {w} : run'[v] = run[v]
    BY <1>a DEF SupplierInv, TypeOK
  <2>2. \A p \in D : ContractOf[p] = c /\ pstatus[p] # "NONE"
    BY DEF DuePayables, PayablesOf
  <2>. QED BY <1>a, <2>1, <2>2 DEF SupplierInv, RaisesStand
<1>2. PaidIsWhatWasPaid' /\ CostIsWhatWasRaised' /\ OnePayerEach' /\ PaymentsStand' /\ DraftIsBlank'
      /\ EndedIsRaised'
  BY <1>a DEF SupplierInv, PaidIsWhatWasPaid, CostIsWhatWasRaised, OnePayerEach, PaymentsStand,
              DraftIsBlank, EndedIsRaised
<1>. QED BY <1>1, <1>2 DEF SupplierInv

(* What a run raises was unraised and on the books, so of a live contract. *)
LEMMA RunWriteEffect ==
  ASSUME SupplierInv, NEW w \in Run, RunWrite(w)
  PROVE  LET D == run[w].due IN
         /\ D \subseteq Payable
         /\ \A p \in D : ~raised[p] /\ pstatus[p] # "NONE"
         /\ \A p \in Payable : pstatus'[p] = "NONE" <=> pstatus[p] = "NONE"
         /\ raised' = [p \in Payable |-> p \in D \/ raised[p]]
         /\ ledger' = ledger \cup D
         /\ UNCHANGED <<status, paid, payments, request>>
         /\ run'[w].phase = "list" /\ \A v \in Run \ {w} : run'[v] = run[v]
<1> DEFINE D == run[w].due
           seen == run[w].seen
           day == run[w].day
<1>1. /\ D \in SUBSET Payable /\ seen \in [Payable -> Nat] /\ day \in Day
      /\ pstatus \in [Payable -> PayableStatuses \cup {"NONE"}] /\ TypeOK
      /\ Raise(D, seen, day, pstatus)
  BY RunFields DEF RunWrite, SupplierInv, TypeOK
<1>2. \A p \in D : ~raised[p] /\ pstatus[p] # "NONE"
  BY DEF RunWrite, SupplierInv, RaisesStand
<1>3. /\ UNCHANGED <<status, paid, payments, request>>
      /\ run'[w].phase = "list" /\ \A v \in Run \ {w} : run'[v] = run[v]
  BY DEF RunWrite, SupplierInv, TypeOK
<1> HIDE DEF D, seen, day
<1>4. \A p \in Payable : pstatus'[p] = "NONE" <=> (p \notin D /\ pstatus[p] = "NONE")
  BY <1>1, RaiseEffect
<1>5. raised' = [p \in Payable |-> p \in D \/ raised[p]]
  BY <1>1, RaiseEffect
<1>6. ledger' = ledger \cup D
  BY <1>1, RaiseEffect
<1>7. \A p \in Payable : pstatus'[p] = "NONE" <=> pstatus[p] = "NONE"
  BY <1>2, <1>4
<1>. QED BY <1>1, <1>2, <1>3, <1>5, <1>6, <1>7 DEF D

LEMMA RunWriteKeeps ==
  ASSUME SupplierInv, TypeOK', NEW w \in Run, RunWrite(w)
  PROVE  SupplierInv'
<1> USE SupplierAssumption
<1> DEFINE D == run[w].due
<1>a. /\ D \subseteq Payable
      /\ \A p \in D : ~raised[p] /\ pstatus[p] # "NONE"
      /\ \A p \in Payable : pstatus'[p] = "NONE" <=> pstatus[p] = "NONE"
      /\ raised' = [p \in Payable |-> p \in D \/ raised[p]]
      /\ ledger' = ledger \cup D
      /\ UNCHANGED <<status, paid, payments, request>>
      /\ run'[w].phase = "list" /\ \A v \in Run \ {w} : run'[v] = run[v]
  BY RunWriteEffect
<1> HIDE DEF D
<1>1. PaidIsWhatWasPaid' /\ OnePayerEach'
  BY <1>a DEF SupplierInv, PaidIsWhatWasPaid, OnePayerEach
<1>2. CostIsWhatWasRaised'
  BY <1>a DEF SupplierInv, CostIsWhatWasRaised
<1>3. PaymentsStand'
  BY <1>a, RequestFields DEF SupplierInv, PaymentsStand
<1>4. RaisesStand'
  <2>1. \A v \in Run : run[v].phase = "raise" => run[v].due \subseteq Payable
    BY RunFields DEF SupplierInv
  <2>. QED BY <1>a, <2>1 DEF SupplierInv, RaisesStand
<1>5. DraftIsBlank' /\ EndedIsRaised'
  BY <1>a DEF SupplierInv, DraftIsBlank, EndedIsRaised
<1>. QED BY <1>1, <1>2, <1>3, <1>4, <1>5 DEF SupplierInv

(* Only what was raised becomes Overdue, and that was on the books. *)
LEMMA RunOverdueKeeps ==
  ASSUME SupplierInv, TypeOK', NEW w \in Run, RunOverdue(w)
  PROVE  SupplierInv'
<1>a. /\ UNCHANGED <<status, raised, paid, payments, ledger, request>>
      /\ run' = [run EXCEPT ![w] = Asleep]
  BY DEF RunOverdue
<1>1. \A p \in Payable : pstatus'[p] = "NONE" <=> pstatus[p] = "NONE"
  <2>1. \A p \in LatePayables(run[w].day) : pstatus[p] # "NONE"
    BY DEF LatePayables
  <2>. QED BY <2>1 DEF RunOverdue, SupplierInv, TypeOK
<1>2. PaidIsWhatWasPaid' /\ OnePayerEach' /\ CostIsWhatWasRaised' /\ DraftIsBlank' /\ EndedIsRaised'
  BY <1>a, <1>1 DEF SupplierInv, PaidIsWhatWasPaid, OnePayerEach, CostIsWhatWasRaised, DraftIsBlank,
     EndedIsRaised
<1>3. PaymentsStand'
  BY <1>a, <1>1, RequestFields DEF SupplierInv, PaymentsStand
<1>4. RaisesStand'
  <2>1. run'[w].phase # "raise" /\ \A v \in Run \ {w} : run'[v] = run[v]
    BY <1>a DEF Asleep, SupplierInv, TypeOK
  <2>2. \A v \in Run : run[v].phase = "raise" => run[v].due \subseteq Payable
    BY RunFields DEF SupplierInv
  <2>. QED BY <1>a, <1>1, <2>1, <2>2 DEF SupplierInv, RaisesStand
<1>. QED BY <1>2, <1>3, <1>4 DEF SupplierInv

LEMMA InvStep == SupplierInv /\ [Next]_vars => SupplierInv'
<1> SUFFICES ASSUME SupplierInv, [Next]_vars PROVE SupplierInv'
  OBVIOUS
<1>t. TypeOK'
  BY TypeStep DEF SupplierInv
<1>r. run \in [Run -> Runs]
  BY DEF SupplierInv, TypeOK
<1>1. CASE UNCHANGED vars
  BY <1>1, <1>t, RowsAlone DEF vars
<1>2. CASE Midnight
  BY <1>2, <1>t, RowsAlone DEF Midnight
<1>3. ASSUME NEW c \in Contract, NEW outcome \in EndedStatuses,
             ActivateContract(c) \/ RefreshContractStatus(c) \/ TerminateContract(c, outcome)
      PROVE  SupplierInv'
  BY <1>3, <1>t, ActivateKeeps, RefreshKeeps, TerminateKeeps
<1>4. ASSUME NEW s \in Staff, NEW p \in Payable, NEW amount \in Amount, PayRead(s, p, amount)
      PROVE  SupplierInv'
  BY <1>4, <1>t, PayReadKeeps
<1>5. ASSUME NEW s \in Staff, PayWrite(s) PROVE SupplierInv'
  BY <1>5, <1>t, PayWriteKeeps
<1>6. ASSUME NEW w \in Run, RunStart(w) \/ RunCrash(w) PROVE SupplierInv'
  <2>1. \A v \in Run : run'[v] = run[v] \/ run'[v].phase # "raise"
    BY <1>6, <1>r DEF RunStart, RunCrash, Asleep
  <2>. QED BY <1>6, <1>t, <2>1, RowsAlone DEF RunStart, RunCrash
<1>7. ASSUME NEW w \in Run, RunStep(w) PROVE SupplierInv'
  BY <1>6, <1>7, <1>t, RunReadKeeps, RunWriteKeeps, RunOverdueKeeps DEF RunStep
<1>8. \E outcome \in EndedStatuses : TRUE
  BY DEF EndedStatuses
<1>. QED BY <1>1, <1>2, <1>3, <1>4, <1>5, <1>6, <1>7, <1>8 DEF Next

LEMMA InvHolds == Spec => []SupplierInv
BY InvInit, InvStep, PTL DEF Spec

-----------------------------------------------------------------------------
(* The theorems. *)

(* Every row, running payment and run keeps its type. *)
THEOREM TypeCorrect == Spec => []TypeOK
BY InvHolds, PTL DEF SupplierInv

(* INV-11: however many payments are recorded at once, and whatever raises *)
(* and terminations do meanwhile, what a payable says is paid is the sum   *)
(* of its payments and no more than it bills.                              *)
THEOREM PaidIsThePayments == Spec => []PaidIsWhatWasPaid
BY InvHolds, PTL DEF SupplierInv

(* INV-12: the supplier cost in the ledger is exactly what was raised, and *)
(* it stays on the books.                                                  *)
THEOREM CostIsTheRaised == Spec => []CostIsWhatWasRaised
BY InvHolds, PTL DEF SupplierInv

(* No payable of an ended contract becomes a cost, even under a run that   *)
(* listed the contract while it was live: what it then finds on the books  *)
(* was raised before.                                                      *)
THEOREM NoCostAfterTheEnd == Spec => NothingRaisedAfterTheEnd
<1>1. SupplierInv /\ [Next]_vars =>
        \A p \in Payable : status[ContractOf[p]] \in EndedStatuses => raised'[p] = raised[p]
  <2> SUFFICES ASSUME SupplierInv, [Next]_vars, NEW p \in Payable, status[ContractOf[p]] \in EndedStatuses
               PROVE  raised'[p] = raised[p]
    OBVIOUS
  <2> USE SupplierAssumption
  <2>t. raised \in [Payable -> BOOLEAN]
    BY DEF SupplierInv, TypeOK
  <2>1. CASE UNCHANGED raised
    BY <2>1
  <2>2. ASSUME NEW c \in Contract, ActivateContract(c) PROVE raised'[p] = raised[p]
    <3>1. status[c] = "DRAFT"
      BY <2>2 DEF ActivateContract
    <3>2. ContractOf[p] # c
      BY <3>1, StatusFacts
    <3>. QED BY <2>2, <2>t, <3>2 DEF ActivateContract, Raise
  <2>3. ASSUME NEW w \in Run, RunWrite(w) PROVE raised'[p] = raised[p]
    <3>1. /\ \A q \in run[w].due : ~raised[q] /\ pstatus[q] # "NONE"
          /\ raised' = [q \in Payable |-> q \in run[w].due \/ raised[q]]
      BY <2>3, RunWriteEffect
    <3>2. p \notin run[w].due
      BY <3>1 DEF SupplierInv, EndedIsRaised
    <3>. QED BY <2>t, <3>1, <3>2
  <2>. QED BY <2>1, <2>2, <2>3 DEF Next, vars, rows, Midnight, RefreshContractStatus,
           TerminateContract, PayRead, PayWrite, RunStep, RunStart, RunRead, RunOverdue, RunCrash
<1>. QED BY <1>1, InvHolds, PTL DEF Spec, NothingRaisedAfterTheEnd

(* Every behaviour of the two locks, the run and its crashes is one of the *)
(* abstract specification: a payable is a cost at most once, money is only *)
(* added to it, and neither a cost nor money is dropped.                   *)
THEOREM SupplierImplementsPayables == Spec => ImplementsPayables
<1> USE SupplierAssumption
<1> DEFINE owed == {p \in Payable : pstatus[p] # "NONE"}
<1>1. Init => PB!Init
  BY DEF Init, PB!Init
<1>2. SupplierInv /\ [Next]_vars => [PB!Next]_(PB!vars)
  <2> SUFFICES ASSUME SupplierInv, [Next]_vars PROVE [PB!Next]_(PB!vars)
    OBVIOUS
  <2>1. CASE UNCHANGED <<pstatus, ledger, payments>>
    BY <2>1 DEF PB!vars
  <2>2. ASSUME NEW c \in Contract, ActivateContract(c) PROVE PB!Next
    <3> DEFINE schedule == {p \in Payable : ContractOf[p] = c}
               due == {p \in schedule : DueOn[p] <= today}
               others == [p \in Payable |-> IF p \in schedule THEN "UPCOMING" ELSE pstatus[p]]
    <3>a. status[c] = "DRAFT" /\ UNCHANGED payments /\ Raise(due, paid, today, others)
      BY <2>2 DEF ActivateContract
    <3>1. /\ due \in SUBSET Payable /\ paid \in [Payable -> Nat] /\ today \in Day
          /\ others \in [Payable -> PayableStatuses \cup {"NONE"}] /\ TypeOK
      BY StatusFacts DEF SupplierInv, TypeOK
    <3>2. \A p \in Payable : pstatus'[p] = "NONE" <=> (p \notin due /\ others[p] = "NONE")
      <4>1. Raise(due, paid, today, others)
        BY <3>a
      <4> HIDE DEF due, others
      <4>. QED BY <3>1, <4>1, RaiseEffect
    <3>3. ledger' = ledger \cup due
      BY <3>a DEF Raise
    <3>4. \A p \in schedule : pstatus[p] = "NONE" /\ ~raised[p]
      BY <3>a DEF SupplierInv, DraftIsBlank
    <3>5. schedule \cap owed = {} /\ schedule \cap ledger = {}
      BY <3>4 DEF SupplierInv, CostIsWhatWasRaised
    <3>6. owed' = owed \cup schedule
      BY <3>2
    <3>7. PICK P \in SUBSET Payable, D \in SUBSET Payable : P = schedule /\ D = due
      OBVIOUS
    <3>8. PB!Write(P, D)
      BY <3>a, <3>3, <3>5, <3>6, <3>7 DEF PB!Write
    <3>. QED BY <3>8 DEF PB!Next
  <2>3. ASSUME NEW c \in Contract, NEW outcome \in EndedStatuses, TerminateContract(c, outcome)
        PROVE  PB!Next
    <3>0. PICK P \in SUBSET Payable : P = Unraised(c)
      BY DEF Unraised, PayablesOf
    <3>1. P \subseteq owed \ ledger
      BY <3>0 DEF Unraised, PayablesOf, SupplierInv, CostIsWhatWasRaised
    <3>2. owed' = owed \ P /\ UNCHANGED <<ledger, payments>>
      BY <2>3, <3>0 DEF TerminateContract
    <3>3. PB!Drop(P)
      BY <2>3, <3>0, <3>1, <3>2 DEF TerminateContract, Droppable, PB!Drop
    <3>. QED BY <3>3 DEF PB!Next
  <2>4. ASSUME NEW s \in Staff, PayWrite(s) PROVE PB!Next
    <3> DEFINE q == request[s].p
               amount == request[s].amount
    <3>1. /\ q \in Payable /\ pstatus[q] # "NONE"
          /\ amount \in Nat /\ amount > 0 /\ paid[q] + amount <= Bills[q] /\ paid[q] = payments[q]
          /\ payments' = [payments EXCEPT ![q] = payments[q] + amount]
          /\ \A p \in Payable : pstatus'[p] = "NONE" <=> pstatus[p] = "NONE"
          /\ UNCHANGED ledger
      BY <2>4, PayEffect
    <3>2. owed' = owed /\ q \in owed
      BY <3>1
    <3>3. PB!Pay(q, amount)
      BY <3>1, <3>2 DEF PB!Pay
    <3>4. amount \in 1..Bills[q]
      BY <3>1 DEF SupplierInv, TypeOK
    <3>. QED BY <3>1, <3>3, <3>4 DEF PB!Next
  <2>5. ASSUME NEW w \in Run, RunWrite(w) PROVE PB!Next
    <3> DEFINE D == run[w].due
    <3>1. /\ D \subseteq Payable
          /\ \A p \in D : ~raised[p] /\ pstatus[p] # "NONE"
          /\ \A p \in Payable : pstatus'[p] = "NONE" <=> pstatus[p] = "NONE"
          /\ ledger' = ledger \cup D
          /\ UNCHANGED payments
      BY <2>5, RunWriteEffect
    <3>2. D \subseteq owed \ ledger
      BY <3>1 DEF SupplierInv, CostIsWhatWasRaised
    <3>3. owed' = owed
      BY <3>1
    <3>4. PB!Recognise(D)
      BY <3>1, <3>2, <3>3 DEF PB!Recognise
    <3>. QED BY <3>1, <3>4 DEF PB!Next
  <2>6. ASSUME NEW w \in Run, RunOverdue(w) PROVE UNCHANGED PB!vars
    <3>1. \A p \in LatePayables(run[w].day) : pstatus[p] # "NONE"
      BY DEF LatePayables
    <3>2. owed' = owed
      BY <2>6, <3>1 DEF RunOverdue
    <3>. QED BY <2>6, <3>2 DEF RunOverdue, PB!vars
  <2>. QED BY <2>1, <2>2, <2>3, <2>4, <2>5, <2>6 DEF Next, vars, rows, Midnight,
           RefreshContractStatus, PayRead, RunStep, RunStart, RunRead, RunCrash
<1>. QED BY <1>1, <1>2, InvHolds, PTL DEF Spec, ImplementsPayables, PB!Spec
=============================================================================
