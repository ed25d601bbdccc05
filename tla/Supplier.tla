------------------------------ MODULE Supplier ------------------------------
(***************************************************************************)
(* What is owed to the suppliers of leased-in cars: the payables written   *)
(* when a contract is activated, raised (and booked as cost) as they fall  *)
(* due by activation or the nightly run, paid by staff, and dropped by a   *)
(* termination if they were never raised.                                  *)
(*                                                                         *)
(* Two locks are at work and neither covers the other.  The nightly run,   *)
(* activation and termination lock the contract; a payment locks only the  *)
(* payable it pays.  So the run raises in two actions, a Read that takes   *)
(* the contract's lock and remembers what was paid, and a Write that       *)
(* computes the status from it; a payment is likewise a Read under the     *)
(* payable's lock and a Write.                                             *)
(***************************************************************************)
EXTENDS Integers, FiniteSets, ContractStatus

CONSTANTS
  Contract,    \* contracts on leased-in cars
  Payable,     \* contract months, one payable each
  ContractOf,  \* the contract of each
  DueOn,       \* its due date, a day number
  Bills,       \* its gross: what the supplier bills, VAT included
  Staff,       \* people (browser sessions) recording payments
  Run,         \* nightly runs: cron's, or one started by hand
  Amount,      \* bound: the payments made
  MaxDay,      \* bound: the last day
  MaxCrashes   \* bound: how often a run dies, or never gets to the suppliers

ASSUME SupplierAssumption ==
  /\ ContractOf \in [Payable -> Contract]
  /\ MaxDay \in Nat /\ MaxCrashes \in Nat
  /\ DueOn \in [Payable -> 0..MaxDay]
  /\ Bills \in [Payable -> Nat \ {0}]
  /\ Amount \subseteq Nat

VARIABLES
  today,       \* the business date
  status,      \* status of each contract
  pstatus,     \* status column of each payable; NONE when there is no row
  raised,      \* raisedOn is set
  paid,        \* paidFils
  payments,    \* the sum of its payment rows
  ledger,      \* the payables with a cost.supplier entry
  request,     \* what each member of staff's running payment has read
  run,         \* where each nightly run is
  crashes      \* runs that have died

rows == <<pstatus, raised, paid, payments, ledger>>
vars == <<today, status, rows, request, run, crashes>>

PayableStatuses == {"UPCOMING", "DUE", "PARTIALLY_PAID", "PAID", "OVERDUE"}

Day == 0..MaxDay
Idle == [op |-> "idle"]
Asleep == [phase |-> "asleep"]
Payments == [op : {"pay"}, p : Payable, amount : Nat, seen : Nat, day : Day]

Runs ==
  {Asleep}
  \cup [phase : {"list"}, day : Day, todo : SUBSET Contract]
  \cup [phase : {"raise"}, day : Day, todo : SUBSET Contract, c : Contract,
        due : SUBSET Payable, seen : [Payable -> Nat]]

-----------------------------------------------------------------------------

Live(c) == status[c] \in LiveStatuses

PayablesOf(c) == {p \in Payable : ContractOf[p] = c /\ pstatus[p] # "NONE"}

(* Mutant: a status the enum does not have. *)
SupplierInvoiceStatusUnknown(p, paidFils, day) ==
  IF paidFils >= Bills[p] THEN "PAID" ELSE IF paidFils > 0 THEN "PARTIAL" ELSE "DUE"

(* supplierInvoiceStatus: a customer instalment's rule from the other side. *)
SupplierInvoiceStatus(p, paidFils, day) ==
  IF paidFils >= Bills[p] THEN "PAID"
  ELSE IF DueOn[p] < day THEN "OVERDUE"
  ELSE IF paidFils > 0 THEN "PARTIALLY_PAID"
  ELSE IF DueOn[p] = day THEN "DUE" ELSE "UPCOMING"

(* Mutant: no lock on the payable. *)
RowNeverLocked(p) == FALSE

(* A payment under way holds its payable's row. *)
RowLocked(p) == \E s \in Staff : request[s] # Idle /\ request[s].p = p

(* Mutant: no lock on the contract. *)
ContractNeverLocked(c) == FALSE

(* A raise under way holds its contract's row. *)
ContractLocked(c) == \E w \in Run : run[w].phase = "raise" /\ run[w].c = c

(* What raiseDueSupplierInvoicesForContract finds. *)
DuePayables(c, day) == {p \in PayablesOf(c) : ~raised[p] /\ DueOn[p] <= day}

(* The claim of D and its net cost entries, with statuses computed from    *)
(* what was read as paid; `others` is the status of the payables not in D. *)
Raise(D, paidFils, day, others) ==
  /\ raised' = [p \in Payable |-> p \in D \/ raised[p]]
  /\ pstatus' = [p \in Payable |->
       IF p \in D THEN SupplierInvoiceStatus(p, paidFils[p], day) ELSE others[p]]
  /\ ledger' = ledger \cup D

Init ==
  /\ today = 0
  /\ status = [c \in Contract |-> "DRAFT"]
  /\ pstatus = [p \in Payable |-> "NONE"]
  /\ raised = [p \in Payable |-> FALSE]
  /\ paid = [p \in Payable |-> 0]
  /\ payments = [p \in Payable |-> 0]
  /\ ledger = {}
  /\ request = [s \in Staff |-> Idle]
  /\ run = [w \in Run |-> Asleep]
  /\ crashes = 0

(* activateContract's part: the whole payable schedule, and what is due.   *)
ActivateContract(c) ==
  LET schedule == {p \in Payable : ContractOf[p] = c} IN
  /\ status[c] = "DRAFT"
  /\ status' = [status EXCEPT ![c] = "ACTIVE"]
  /\ Raise({p \in schedule : DueOn[p] <= today}, paid, today,
           [p \in Payable |-> IF p \in schedule THEN "UPCOMING" ELSE pstatus[p]])
  /\ UNCHANGED <<today, paid, payments, request, run, crashes>>

(* refreshContractStatus, decided by the customer's instalments (Billing). *)
RefreshContractStatus(c) ==
  /\ Live(c)
  /\ ~ContractLocked(c)
  /\ \E to \in LiveStatuses \cap ContractMoves[status[c]] : status' = [status EXCEPT ![c] = to]
  /\ UNCHANGED <<today, rows, request, run, crashes>>

(* Mutant: what was prepaid goes too. *)
DroppableThoughPaid(D) == TRUE

(* A payment's foreign key (ON DELETE RESTRICT) refuses the delete of a    *)
(* payable with money on it, and the whole termination with it.            *)
Droppable(D) == \A p \in D : payments[p] = 0

(* Mutant: every payable of the contract. *)
EveryPayable(c) == PayablesOf(c)

(* What a termination drops. *)
Unraised(c) == {p \in PayablesOf(c) : ~raised[p]}

(* terminateContract's part: what was never raised is deleted. *)
TerminateContract(c, outcome) ==
  /\ Live(c)
  /\ ~ContractLocked(c)
  /\ outcome \in ContractMoves[status[c]]
  /\ \A p \in Unraised(c) : ~RowLocked(p)
  /\ Droppable(Unraised(c))
  /\ status' = [status EXCEPT ![c] = outcome]
  /\ pstatus' = [p \in Payable |-> IF p \in Unraised(c) THEN "NONE" ELSE pstatus[p]]
  /\ UNCHANGED <<today, raised, paid, payments, ledger, request, run, crashes>>

(* recordSupplierPayment: an amount above zero and within what is left.    *)
PayRead(s, p, amount) ==
  /\ request[s] = Idle
  /\ pstatus[p] # "NONE"
  /\ ~RowLocked(p)
  /\ amount > 0 /\ amount <= Bills[p] - paid[p]
  /\ request' = [request EXCEPT ![s] =
       [op |-> "pay", p |-> p, amount |-> amount, seen |-> paid[p], day |-> today]]
  /\ UNCHANGED <<today, status, rows, run, crashes>>

PayWrite(s) ==
  LET r == request[s] IN
  /\ r # Idle
  /\ payments' = [payments EXCEPT ![r.p] = @ + r.amount]
  /\ paid' = [paid EXCEPT ![r.p] = r.seen + r.amount]
  /\ pstatus' = [pstatus EXCEPT ![r.p] = SupplierInvoiceStatus(r.p, r.seen + r.amount, r.day)]
  /\ request' = [request EXCEPT ![s] = Idle]
  /\ UNCHANGED <<today, status, raised, ledger, run, crashes>>

-----------------------------------------------------------------------------
(* The nightly run, from raiseDueSupplierInvoices on. *)

(* Mutant: Active contracts only. *)
ToRaiseActive(day) == {c \in Contract : status[c] = "ACTIVE" /\ DuePayables(c, day) # {}}

ToRaise(day) == {c \in Contract : Live(c) /\ DuePayables(c, day) # {}}

RunStart(w) ==
  /\ run[w] = Asleep
  /\ \E p \in Payable : pstatus[p] # "NONE" \* otherwise a run changes nothing
  /\ run' = [run EXCEPT ![w] = [phase |-> "list", day |-> today, todo |-> ToRaise(today)]]
  /\ UNCHANGED <<today, status, rows, request, crashes>>

(* The contract is locked, whatever has become of it, and its due payables *)
(* are read: by now there may be none.                                     *)
RunRead(w, c) ==
  LET r == run[w]
      D == DuePayables(c, r.day) IN
  /\ r.phase = "list"
  /\ c \in r.todo
  /\ ~ContractLocked(c)
  /\ run' = [run EXCEPT ![w] =
       [phase |-> "raise", day |-> r.day, todo |-> r.todo \ {c}, c |-> c, due |-> D,
        seen |-> [p \in Payable |-> IF p \in D THEN paid[p] ELSE 0]]]
  /\ UNCHANGED <<today, status, rows, request, crashes>>

(* Each is claimed (raisedOn still null), once no payment holds its row. *)
RunWrite(w) ==
  LET r == run[w] IN
  /\ r.phase = "raise"
  /\ \A p \in r.due : ~raised[p] /\ ~RowLocked(p)
  /\ Raise(r.due, r.seen, r.day, pstatus)
  /\ run' = [run EXCEPT ![w] = [phase |-> "list", day |-> r.day, todo |-> r.todo]]
  /\ UNCHANGED <<today, status, paid, payments, request, crashes>>

(* refreshSupplierOverdue, one statement, which goes by the status column. *)
LatePayables(day) ==
  {p \in Payable : raised[p] /\ DueOn[p] < day
                   /\ pstatus[p] \in {"UPCOMING", "DUE", "PARTIALLY_PAID"}}

RunOverdue(w) ==
  LET r == run[w]
      late == LatePayables(r.day) IN
  /\ r.phase = "list" /\ r.todo = {}
  /\ \A p \in late : ~RowLocked(p)
  /\ pstatus' = [p \in Payable |-> IF p \in late THEN "OVERDUE" ELSE pstatus[p]]
  /\ run' = [run EXCEPT ![w] = Asleep]
  /\ UNCHANGED <<today, status, raised, paid, payments, ledger, request, crashes>>

(* The process dies, a transaction times out, or the customer's half of    *)
(* the run (Billing) throws: the rest waits for the next run.              *)
RunCrash(w) ==
  /\ run[w] # Asleep
  /\ crashes < MaxCrashes
  /\ crashes' = crashes + 1
  /\ run' = [run EXCEPT ![w] = Asleep]
  /\ UNCHANGED <<today, status, rows, request>>

RunStep(w) ==
  \/ RunStart(w)
  \/ \E c \in Contract : RunRead(w, c)
  \/ RunWrite(w)
  \/ RunOverdue(w)

Midnight ==
  /\ today < MaxDay
  /\ today' = today + 1
  /\ UNCHANGED <<status, rows, request, run, crashes>>

Next ==
  \/ Midnight
  \/ \E c \in Contract :
       \/ ActivateContract(c)
       \/ RefreshContractStatus(c)
       \/ \E outcome \in EndedStatuses : TerminateContract(c, outcome)
  \/ \E s \in Staff :
       \/ \E p \in Payable, amount \in Amount : PayRead(s, p, amount)
       \/ PayWrite(s)
  \/ \E w \in Run : RunStep(w) \/ RunCrash(w)

Spec == Init /\ [][Next]_vars

(* Cron starts a run every night and a process that is not killed goes on; *)
(* a payment under way ends (one rolled back is one never begun).          *)
FairSpec ==
  /\ Spec
  /\ \A w \in Run : WF_vars(RunStep(w))
  /\ \A s \in Staff : WF_vars(PayWrite(s))

-----------------------------------------------------------------------------
(* Type correctness of the rows, the running payments and the runs. *)
TypeOK ==
  /\ today \in Day
  /\ status \in [Contract -> ContractStatuses]
  /\ pstatus \in [Payable -> PayableStatuses \cup {"NONE"}]
  /\ raised \in [Payable -> BOOLEAN]
  /\ paid \in [Payable -> Nat]
  /\ payments \in [Payable -> Nat]
  /\ ledger \subseteq Payable
  /\ request \in [Staff -> {Idle} \cup Payments]
  /\ run \in [Run -> Runs]
  /\ crashes \in 0..MaxCrashes

(* INV-11: what a payable says is paid is the sum of its payments, however *)
(* many are recorded at once, and never more than it bills.                *)
PaidIsWhatWasPaid ==
  \A p \in Payable : paid[p] = payments[p] /\ paid[p] <= Bills[p]

(* INV-12: the supplier cost in the ledger is exactly what was raised, and *)
(* what was raised stays on the books.                                     *)
CostIsWhatWasRaised ==
  /\ ledger = {p \in Payable : raised[p]}
  /\ \A p \in Payable : raised[p] => pstatus[p] # "NONE"

(* "Supplier invoices for months that will not happen are dropped": once a *)
(* contract has ended no payable of it becomes a cost, even when the run   *)
(* had listed it before.                                                   *)
NothingRaisedAfterTheEnd ==
  [][\A p \in Payable : status[ContractOf[p]] \in EndedStatuses => raised'[p] = raised[p]]_vars

(* "raise what fell due on every live contract": a payable that falls due  *)
(* becomes a cost or is dropped with its contract, missed and overlapping  *)
(* runs notwithstanding.                                                   *)
DueIsRaised ==
  \A p \in Payable :
    pstatus[p] # "NONE" /\ DueOn[p] <= today ~> raised[p] \/ pstatus[p] = "NONE"

(* Supplier implements Payables. *)
PB == INSTANCE Payables WITH
        owed <- {p \in Payable : pstatus[p] # "NONE"}, cost <- ledger, spent <- payments

ImplementsPayables == PB!Spec

-----------------------------------------------------------------------------
(* What the repository says and the code does not do.                      *)

(* refreshSupplierOverdue: "Raised invoices past their due date and not    *)
(* fully paid become Overdue".                                             *)
OverdueIsNotFullyPaid ==
  \A p \in Payable : pstatus[p] = "OVERDUE" => paid[p] < Bills[p]
=============================================================================
