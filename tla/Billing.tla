------------------------------- MODULE Billing -------------------------------
(***************************************************************************)
(* A contract's money: its instalments, their tax invoices and ledger      *)
(* entries, the payments spread over them, waivers, the final settlement,  *)
(* recharged fines, termination, and the nightly run that issues what has  *)
(* fallen due and marks what is late.                                      *)
(*                                                                         *)
(* A handler that locks the contract row before it reads anything it       *)
(* relies on is one action.  The ones that read first are two, a Read that *)
(* fills request[s] and a Write: settleSettlement (status and lines before *)
(* the lock), the two settlement-line handlers (no transaction), and       *)
(* recoverFine.  That one does not lock the contract but inserts rows that *)
(* refer to it, so that whoever locks it waits for the recovery to commit, *)
(* and another recovery does not.  The nightly run lists contracts, then   *)
(* visits each in a transaction of its own, and cron may see it die        *)
(* between any two.  What happens to the car is in Custody.                *)
(***************************************************************************)
EXTENDS Integers, FiniteSets, FiniteSetsExt, ContractStatus

CONSTANTS
  Contract,    \* contract rows
  Month,       \* scheduled instalments, written when a contract is activated
  Fine,        \* instalments that recharge a fine, written when it is recovered
  FinalOf,     \* the instalment a contract's settlement is billed on
  ContractOf,  \* the contract of each instalment
  DueOn,       \* the due date of each scheduled instalment, as a day number
  Gross,       \* what each instalment bills
  Item,        \* settlement lines staff may write
  Charge,      \* the settlement lines that charge; the others credit
  Staff,       \* people (browser sessions) using the back office
  Run,         \* runs of the nightly job: cron's, or one started by hand
  Amount,      \* bound: the payments customers make
  MaxDay,      \* bound: the last day
  MaxCrashes   \* bound: how often a nightly run dies of something outside it

Final == {FinalOf[c] : c \in Contract}
Line == Month \cup Fine \cup Final

ASSUME BillingAssumption ==
  /\ FinalOf \in [Contract -> Final]
  /\ ContractOf \in [Line -> Contract]
  /\ \A c \in Contract : ContractOf[FinalOf[c]] = c
  /\ Month \cap Fine = {} /\ Month \cap Final = {} /\ Fine \cap Final = {}
  /\ MaxDay \in Nat /\ MaxCrashes \in Nat
  /\ DueOn \in [Month -> 0..MaxDay]
  /\ Gross \in [Line -> Nat]
  /\ Charge \subseteq Item
  /\ Amount \subseteq Nat \ {0}
  /\ IsFiniteSet(Line)

VARIABLES
  today,       \* the business date
  status,      \* status of each contract
  endedOn,     \* the day of the status change that ended it
  settlement,  \* NONE, OPEN or SETTLED
  items,       \* the lines on each settlement
  istatus,     \* status column of each instalment; NONE before it is written
  due,         \* its due date
  paid,        \* what has been allocated to it
  waived,      \* waivedAt is set
  number,      \* its tax invoice number; 0 is NULL
  next,        \* the invoice counter's next number
  ledger,      \* revenue entries, by source type and instalment
  request,     \* what each member of staff's running request has read
  run,         \* where each nightly run is
  crashes      \* nightly runs that have died

lines == <<istatus, due, paid, waived, number, next, ledger>>
vars == <<today, status, endedOn, settlement, items, lines, request, run, crashes>>

InstallmentStatuses ==
  {"UPCOMING", "DUE", "PARTIALLY_PAID", "PAID", "OVERDUE", "WAIVED", "CANCELLED"}

Day == 0..MaxDay
Idle == [op |-> "idle"]
Asleep == [phase |-> "asleep"]

Requests ==
  {Idle}
  \cup [op : {"settle"}, c : Contract, day : Day, items : SUBSET Item]
  \cup [op : {"add", "remove"}, c : Contract, item : Item]
  \cup [op : {"recover"}, f : Fine, day : Day, seen : UNION {[D -> Nat] : D \in SUBSET Line}]

Runs ==
  {Asleep}
  \cup [phase : {"issue", "list", "refresh"}, day : Day, todo : SUBSET Contract]

-----------------------------------------------------------------------------

Live(c) == status[c] \in LiveStatuses

LinesOf(c) == {l \in Line : ContractOf[l] = c /\ istatus[l] # "NONE"}

(* Mutant: a status the enum does not have. *)
InstallmentStatusUnknown(l, dueOn, paidFils, day) ==
  IF paidFils >= Gross[l] THEN "PAID" ELSE IF paidFils > 0 THEN "PARTIAL" ELSE "DUE"

(* installmentStatus: late money is Overdue whether or not part is paid. *)
InstallmentStatus(l, dueOn, paidFils, day) ==
  IF paidFils >= Gross[l] THEN "PAID"
  ELSE IF dueOn < day THEN "OVERDUE"
  ELSE IF paidFils > 0 THEN "PARTIALLY_PAID"
  ELSE IF dueOn = day THEN "DUE" ELSE "UPCOMING"

(* What issueDueForContract finds: not yet numbered, not waived, due.  It  *)
(* does not look at the contract's status or at the instalment's.          *)
DueLines(c, day) ==
  {l \in LinesOf(c) : number[l] = 0 /\ ~waived[l] /\ due[l] <= day}

(* The ways to give D the numbers next, next+1, ... oldest due date first. *)
Numberings(D, dueOn) ==
  {num \in [D -> next..(next + Cardinality(D) - 1)] :
     /\ \A l, m \in D : num[l] = num[m] => l = m
     /\ \A n \in next..(next + Cardinality(D) - 1) : \E l \in D : num[l] = n
     /\ \A l, m \in D : dueOn[l] < dueOn[m] => num[l] < num[m]}

(* The entries that recognise D's revenue, on its invoices. *)
Recognised(D) == {"Installment"} \X D

(* issueInstallment over D, in one transaction: numbers from the counter,  *)
(* a status from what was read as paid, a revenue entry each.  The ledger  *)
(* refuses an amount that is not positive, and the transaction with it.    *)
(* `others` is what becomes of the status of the instalments not in D.     *)
Invoice(D, dueOn, paidFils, day, others) ==
  /\ \A l \in D : Gross[l] > 0
  /\ \E num \in Numberings(D, dueOn) :
       number' = [l \in Line |-> IF l \in D THEN num[l] ELSE number[l]]
  /\ next' = next + Cardinality(D)
  /\ istatus' = [l \in Line |-> IF l \in D
                   THEN InstallmentStatus(l, dueOn[l], paidFils[l], day)
                   ELSE others[l]]
  /\ ledger' = ledger \cup Recognised(D)
  /\ due' = dueOn

(* refreshContractStatus, on the instalment statuses as they now stand. *)
RefreshContractStatus(c) ==
  status' = [status EXCEPT ![c] =
    IF ~Live(c) THEN @
    ELSE IF \E l \in Line : ContractOf[l] = c /\ istatus'[l] = "OVERDUE"
         THEN "OVERDUE" ELSE "ACTIVE"]

Respond(s) == request' = [request EXCEPT ![s] = Idle]

Ask(s, r) == request[s] = Idle /\ request' = [request EXCEPT ![s] = r]

Recovering(s) == request[s].op = "recover"

(* Mutant: the contract is not locked. *)
LockNothing(c) == TRUE

(* lockContract waits for the recoveries on the contract: a charge's and   *)
(* an instalment's foreign keys share its row until they commit.           *)
LockContract(c) == \A s \in Staff : ~(Recovering(s) /\ ContractOf[request[s].f] = c)

Init ==
  /\ today = 0
  /\ status = [c \in Contract |-> "DRAFT"]
  /\ endedOn = [c \in Contract |-> MaxDay]
  /\ settlement = [c \in Contract |-> "NONE"]
  /\ items = [c \in Contract |-> {}]
  /\ istatus = [l \in Line |-> "NONE"]
  /\ due = [l \in Line |-> IF l \in Month THEN DueOn[l] ELSE 0]
  /\ paid = [l \in Line |-> 0]
  /\ waived = [l \in Line |-> FALSE]
  /\ number = [l \in Line |-> 0]
  /\ next = 1
  /\ ledger = {}
  /\ request = [s \in Staff |-> Idle]
  /\ run = [w \in Run |-> Asleep]
  /\ crashes = 0

-----------------------------------------------------------------------------
(* The contract's own life. *)

(* activateContract: the whole schedule, and the invoices already due. *)
ActivateContract(c) ==
  LET schedule == {l \in Month : ContractOf[l] = c} IN
  /\ LockContract(c)
  /\ status[c] = "DRAFT"
  /\ status' = [status EXCEPT ![c] = "ACTIVE"]
  /\ Invoice({l \in schedule : due[l] <= today}, due, paid, today,
             [l \in Line |-> IF l \in schedule THEN "UPCOMING" ELSE istatus[l]])
  /\ UNCHANGED <<today, endedOn, settlement, items, paid, waived, request, run, crashes>>

(* Mutant: a waived instalment is paid like any other. *)
OutstandingThoughWaived(l) == Gross[l] - paid[l]

(* What an instalment can still be paid. *)
Outstanding(l) == IF waived[l] THEN 0 ELSE Gross[l] - paid[l]

(* The ways to spread a payment over what a contract's instalments lack:   *)
(* every one not waived, oldest due date first; the rest is kept as credit *)
(* on the payment, which nothing here reads.                               *)
Allocations(c, amount) ==
  LET owed == MapThenSumSet(Outstanding, LinesOf(c)) IN
  {alloc \in [LinesOf(c) -> 0..amount] :
     /\ \A l \in LinesOf(c) : alloc[l] <= Outstanding(l)
     /\ \A l, m \in LinesOf(c) :
          due[l] < due[m] /\ alloc[m] > 0 => alloc[l] = Outstanding(l)
     /\ MapThenSumSet(LAMBDA l : alloc[l], LinesOf(c)) = IF amount < owed THEN amount ELSE owed}

(* recordPayment, taken on a completed contract too. *)
RecordPayment(c, amount) ==
  /\ LockContract(c)
  /\ status[c] \in {"ACTIVE", "OVERDUE", "COMPLETED"}
  /\ \E alloc \in Allocations(c, amount) :
       LET touched == {l \in LinesOf(c) : alloc[l] > 0} IN
       /\ paid' = [l \in Line |-> IF l \in touched THEN paid[l] + alloc[l] ELSE paid[l]]
       /\ istatus' = [l \in Line |-> IF l \in touched
                        THEN InstallmentStatus(l, due[l], paid[l] + alloc[l], today)
                        ELSE istatus[l]]
  /\ RefreshContractStatus(c)
  /\ UNCHANGED <<today, endedOn, settlement, items, due, waived, number, next, ledger,
                 request, run, crashes>>

(* The entry that takes back an instalment's revenue, if it was recognised. *)
Reversal(l) ==
  IF number[l] # 0 /\ <<"Installment", l>> \in ledger THEN {<<"InstallmentWaiver", l>>} ELSE {}

(* waiveInstallment, which forgives only what nothing has been paid on.    *)
WaiveInstallment(l) ==
  /\ LockContract(ContractOf[l])
  /\ istatus[l] # "NONE"
  /\ ~waived[l]
  /\ paid[l] = 0
  /\ waived' = [waived EXCEPT ![l] = TRUE]
  /\ istatus' = [istatus EXCEPT ![l] = "WAIVED"]
  /\ ledger' = ledger \cup Reversal(l)
  /\ RefreshContractStatus(ContractOf[l])
  /\ UNCHANGED <<today, endedOn, settlement, items, due, paid, number, next, request, run, crashes>>

Reckoned(c) == settlement[c] # "OPEN"

(* terminateContract: refused while a settlement is open; what was never   *)
(* invoiced is cancelled.                                                  *)
TerminateContract(c, outcome) ==
  /\ LockContract(c)
  /\ Live(c)
  /\ Reckoned(c)
  /\ outcome \in ContractMoves[status[c]]
  /\ status' = [status EXCEPT ![c] = outcome]
  /\ endedOn' = [endedOn EXCEPT ![c] = today]
  /\ istatus' = [l \in Line |-> IF l \in LinesOf(c) /\ number[l] = 0 /\ ~waived[l]
                                THEN "CANCELLED" ELSE istatus[l]]
  /\ UNCHANGED <<today, settlement, items, due, paid, waived, number, next, ledger,
                 request, run, crashes>>

-----------------------------------------------------------------------------
(* The settlement. *)

OpenSettlement(c) ==
  /\ LockContract(c)
  /\ Live(c)
  /\ settlement[c] = "NONE"
  /\ settlement' = [settlement EXCEPT ![c] = "OPEN"]
  /\ UNCHANGED <<today, status, endedOn, items, lines, request, run, crashes>>

(* addSettlementLine and removeSettlementLine: check, then write. *)
EditRead(s, c, op, item) ==
  /\ settlement[c] = "OPEN"
  /\ op = "remove" <=> item \in items[c]
  /\ Ask(s, [op |-> op, c |-> c, item |-> item])
  /\ UNCHANGED <<today, status, endedOn, settlement, items, lines, run, crashes>>

EditWrite(s) ==
  LET r == request[s] IN
  /\ \/ r.op = "add" /\ items' = [items EXCEPT ![r.c] = @ \cup {r.item}]
     \/ r.op = "remove" /\ items' = [items EXCEPT ![r.c] = @ \ {r.item}]
  /\ Respond(s)
  /\ UNCHANGED <<today, status, endedOn, settlement, lines, run, crashes>>

(* settleSettlement: the status and the lines are read before the lock is  *)
(* taken, and not again after.                                             *)
SettleRead(s, c) ==
  /\ settlement[c] = "OPEN"
  /\ Ask(s, [op |-> "settle", c |-> c, day |-> today, items |-> items[c]])
  /\ UNCHANGED <<today, status, endedOn, settlement, items, lines, run, crashes>>

(* Credits worth more than the charges are refused; a final invoice is     *)
(* written only for a positive net, once (its charge's key is unique).     *)
SettleWrite(s) ==
  LET r == request[s]
      f == FinalOf[r.c]
      charges == Cardinality(r.items \cap Charge)
      credits == Cardinality(r.items \ Charge) IN
  /\ r.op = "settle"
  /\ LockContract(r.c)
  /\ charges >= credits
  /\ \/ charges = credits /\ UNCHANGED lines
     \/ /\ charges > credits
        /\ istatus[f] = "NONE"
        /\ Invoice(DueLines(r.c, r.day) \cup {f}, [due EXCEPT ![f] = r.day], paid, r.day, istatus)
        /\ UNCHANGED <<paid, waived>>
  /\ settlement' = [settlement EXCEPT ![r.c] = "SETTLED"]
  /\ Respond(s)
  /\ UNCHANGED <<today, status, endedOn, items, run, crashes>>

-----------------------------------------------------------------------------
(* recoverFine: recharges a fine to the contract its car was out on, ended *)
(* or not, and issues with it whatever else is due there.  Two steps: the  *)
(* charge and the instalment inserted and the due lines read, then their   *)
(* numbers claimed.  The insert waits for another recovery of this fine    *)
(* (its charge's key is unique), not for one of another fine: what both    *)
(* read as due, the second claims in vain.                                 *)
RecoverRead(s, f) ==
  LET c == ContractOf[f] IN
  /\ istatus[f] = "NONE"
  /\ \A t \in Staff : Recovering(t) => request[t].f # f
  /\ status[c] # "DRAFT"
  /\ Ask(s, [op |-> "recover", f |-> f, day |-> today,
             seen |-> [l \in DueLines(c, today) |-> paid[l]]])
  /\ UNCHANGED <<today, status, endedOn, settlement, items, lines, run, crashes>>

(* Mutant: the claim does not insist that the number is still empty. *)
Reclaimable(D) == TRUE

(* The claim each number is written with. *)
Unclaimed(D) == \A l \in D : number[l] = 0

RecoverWrite(s) ==
  LET r == request[s]
      D == DOMAIN r.seen IN
  /\ r.op = "recover"
  /\ istatus[r.f] = "NONE"
  /\ Unclaimed(D)
  /\ Invoice(D \cup {r.f}, [due EXCEPT ![r.f] = r.day],
             [l \in D \cup {r.f} |-> IF l = r.f THEN 0 ELSE r.seen[l]], r.day, istatus)
  /\ Respond(s)
  /\ UNCHANGED <<today, status, endedOn, settlement, items, paid, waived, run, crashes>>

(* Mutant: the number comes from a sequence, which a rollback leaves spent. *)
AbortSpendsNumber(s) ==
  /\ request[s] # Idle
  /\ next' = next + 1
  /\ Respond(s)
  /\ UNCHANGED <<today, status, endedOn, settlement, items, istatus, due, paid, waived, number,
                 ledger, run, crashes>>

(* A transaction refused by a constraint or by a claim that failed. *)
Abort(s) ==
  /\ request[s] # Idle
  /\ Respond(s)
  /\ UNCHANGED <<today, status, endedOn, settlement, items, lines, run, crashes>>

-----------------------------------------------------------------------------
(* The nightly run (runContractsDaily): issue, mark what is late, then     *)
(* bring the contracts of late instalments to Overdue.                     *)

(* Mutants: ended contracts are listed too; or Active ones only.           *)
ToIssueEnded(day) == {c \in Contract : DueLines(c, day) # {}}
ToIssueActive(day) == {c \in Contract : status[c] = "ACTIVE" /\ DueLines(c, day) # {}}

(* issueDueInstallments lists the live contracts with something due ...    *)
ToIssue(day) == {c \in Contract : Live(c) /\ DueLines(c, day) # {}}

RunStart(w) ==
  /\ run[w] = Asleep
  /\ run' = [run EXCEPT ![w] =
       [phase |-> "issue", day |-> today, todo |-> ToIssue(today)]]
  /\ UNCHANGED <<today, status, endedOn, settlement, items, lines, request, crashes>>

(* ... and issues each one's, whatever its status is by then.              *)
RunIssue(w, c) ==
  /\ run[w].phase = "issue"
  /\ c \in run[w].todo
  /\ LockContract(c)
  /\ Invoice(DueLines(c, run[w].day), due, paid, run[w].day, istatus)
  /\ run' = [run EXCEPT ![w].todo = @ \ {c}]
  /\ UNCHANGED <<today, status, endedOn, settlement, items, paid, waived, request, crashes>>

(* A refused ledger entry is thrown out of the loop, and ends the run.     *)
RunRefused(w, c) ==
  /\ run[w].phase = "issue"
  /\ c \in run[w].todo
  /\ LockContract(c)
  /\ \E l \in DueLines(c, run[w].day) : Gross[l] = 0
  /\ run' = [run EXCEPT ![w] = Asleep]
  /\ UNCHANGED <<today, status, endedOn, settlement, items, lines, request, crashes>>

(* Mutants: whatever its status; or forgetting the part-paid.              *)
LateLinesAll(day) == {l \in Line : number[l] # 0 /\ ~waived[l] /\ due[l] < day}
LateLinesUnpaid(day) == {l \in LateLinesAll(day) : istatus[l] \in {"DUE", "UPCOMING"}}

(* refreshOverdue: one statement over every contract's instalments ...     *)
LateLines(day) ==
  {l \in Line : /\ number[l] # 0 /\ ~waived[l] /\ due[l] < day
                /\ istatus[l] \in {"DUE", "PARTIALLY_PAID", "UPCOMING"}}

RunOverdue(w) ==
  /\ run[w].phase = "issue"
  /\ run[w].todo = {}
  /\ istatus' = [l \in Line |-> IF l \in LateLines(run[w].day) THEN "OVERDUE" ELSE istatus[l]]
  /\ run' = [run EXCEPT ![w].phase = "list"]
  /\ UNCHANGED <<today, status, endedOn, settlement, items, due, paid, waived, number, next,
                 ledger, request, crashes>>

(* ... then a list of the Active contracts that have a late one ...        *)
RunList(w) ==
  /\ run[w].phase = "list"
  /\ run' = [run EXCEPT ![w] =
       [phase |-> "refresh", day |-> @.day,
        todo |-> {c \in Contract : status[c] = "ACTIVE" /\
                    \E l \in LinesOf(c) : istatus[l] = "OVERDUE"}]]
  /\ UNCHANGED <<today, status, endedOn, settlement, items, lines, request, crashes>>

(* ... each refreshed under its lock.                                      *)
RunRefresh(w, c) ==
  /\ run[w].phase = "refresh"
  /\ c \in run[w].todo
  /\ LockContract(c)
  /\ UNCHANGED lines
  /\ RefreshContractStatus(c)
  /\ run' = [run EXCEPT ![w].todo = @ \ {c}]
  /\ UNCHANGED <<today, endedOn, settlement, items, request, crashes>>

RunEnd(w) ==
  /\ run[w].phase = "refresh"
  /\ run[w].todo = {}
  /\ run' = [run EXCEPT ![w] = Asleep]
  /\ UNCHANGED <<today, status, endedOn, settlement, items, lines, request, crashes>>

(* The process dies, or a transaction times out: the rest waits for the    *)
(* next run.                                                               *)
RunCrash(w) ==
  /\ run[w] # Asleep
  /\ crashes < MaxCrashes
  /\ crashes' = crashes + 1
  /\ run' = [run EXCEPT ![w] = Asleep]
  /\ UNCHANGED <<today, status, endedOn, settlement, items, lines, request>>

RunStep(w) ==
  \/ RunStart(w)
  \/ \E c \in Contract : RunIssue(w, c) \/ RunRefused(w, c) \/ RunRefresh(w, c)
  \/ RunOverdue(w)
  \/ RunList(w)
  \/ RunEnd(w)

Midnight ==
  /\ today < MaxDay
  /\ today' = today + 1
  /\ UNCHANGED <<status, endedOn, settlement, items, lines, request, run, crashes>>

-----------------------------------------------------------------------------

ContractStep(c) ==
  \/ ActivateContract(c)
  \/ \E amount \in Amount : RecordPayment(c, amount)
  \/ \E outcome \in EndedStatuses : TerminateContract(c, outcome)
  \/ OpenSettlement(c)

StaffStep(s) ==
  \/ \E c \in Contract, op \in {"add", "remove"}, item \in Item : EditRead(s, c, op, item)
  \/ EditWrite(s)
  \/ \E c \in Contract : SettleRead(s, c)
  \/ SettleWrite(s)
  \/ \E f \in Fine : RecoverRead(s, f)
  \/ RecoverWrite(s)
  \/ Abort(s)

Next ==
  \/ Midnight
  \/ \E c \in Contract : ContractStep(c)
  \/ \E l \in Line : WaiveInstallment(l)
  \/ \E s \in Staff : StaffStep(s)
  \/ \E w \in Run : RunStep(w) \/ RunCrash(w)

Spec == Init /\ [][Next]_vars

(* Cron starts a run every night, also after the last day modelled, and    *)
(* the process that runs it goes on; nobody is made to pay, to waive, to   *)
(* terminate or to turn a page.                                            *)
FairSpec == Spec /\ \A w \in Run : WF_vars(RunStep(w))

-----------------------------------------------------------------------------
(* Type correctness of the rows, the counter, the requests and the runs.   *)
TypeOK ==
  /\ today \in Day
  /\ status \in [Contract -> ContractStatuses]
  /\ endedOn \in [Contract -> Day]
  /\ settlement \in [Contract -> {"NONE", "OPEN", "SETTLED"}]
  /\ items \in [Contract -> SUBSET Item]
  /\ istatus \in [Line -> InstallmentStatuses \cup {"NONE"}]
  /\ due \in [Line -> Day]
  /\ paid \in [Line -> Nat]
  /\ waived \in [Line -> BOOLEAN]
  /\ number \in [Line -> Nat]
  /\ next \in Nat \ {0}
  /\ ledger \subseteq {"Installment", "InstallmentWaiver"} \X Line
  /\ request \in [Staff -> Requests]
  /\ run \in [Run -> Runs]
  /\ crashes \in 0..MaxCrashes

(* Tax invoice numbers are gapless and never shared, whoever issues at the *)
(* same time and whatever is rolled back (nextInvoiceNumber).              *)
GaplessNumbers ==
  /\ \A l \in Line : number[l] < next
  /\ \A n \in 1..(next - 1) : \E l \in Line : number[l] = n
  /\ \A l, m \in Line : number[l] # 0 /\ number[l] = number[m] => l = m

(* Revenue is recognised exactly with the invoice: an instalment has its   *)
(* one ledger entry if and only if it has its number.                      *)
RecognisedWhenInvoiced ==
  \A l \in Line : <<"Installment", l>> \in ledger <=> number[l] # 0

(* INV-4: a contract's ledger revenue is what was issued and not waived,   *)
(* so an entry is reversed if and only if its instalment is both.          *)
RevenueMatchesInvoices ==
  /\ RecognisedWhenInvoiced
  /\ \A l \in Line : <<"InstallmentWaiver", l>> \in ledger <=> number[l] # 0 /\ waived[l]

(* INV-3, and a waiver never forgives money already applied: payments land *)
(* only on what is owed, whatever waivers and issues they race.            *)
PaidIsOwed ==
  \A l \in Line : paid[l] <= Gross[l] /\ (waived[l] => paid[l] = 0)

(* "Callers hold its lock": what a caller of issueDueForContract found due *)
(* nobody else numbers before it does.                                     *)
DueIsClaimable ==
  \A s \in Staff : Recovering(s) => \A l \in DOMAIN request[s].seen : number[l] = 0

(* An instalment shown Overdue still lacks money, and a contract is shown  *)
(* Overdue only while something on it is late, whichever handler, on       *)
(* whichever side of midnight, last computed a status.                     *)
OverdueIsOwed ==
  /\ \A l \in Line : istatus[l] = "OVERDUE" => paid[l] < Gross[l] /\ ~waived[l]
  /\ \A c \in Contract : status[c] = "OVERDUE" =>
       \E l \in LinesOf(c) : due[l] < today /\ paid[l] < Gross[l] /\ ~waived[l]

(* "A contract cancelled early simply never posts the months it did not    *)
(* reach": what is invoiced once it has ended had fallen due before.       *)
EndedEarnsOnlyWhatWasReached ==
  [][\A l \in Line : LET c == ContractOf[l] IN
       status[c] \in EndedStatuses /\ number[l] = 0 /\ number'[l] # 0 => due'[l] <= endedOn[c]]_vars

(* "The contract ended before this month fell due, so it was never         *)
(* invoiced": a cancelled instalment stays cancelled, or is waived.        *)
CancelledStaysCancelled ==
  [][\A l \in Line : istatus[l] = "CANCELLED" => istatus'[l] \in {"CANCELLED", "WAIVED"}]_vars

(* "Each contract is its own transaction, so one failure does not hold up  *)
(* the rest": whatever falls due on a live contract that the ledger will   *)
(* take is invoiced, waived or cancelled, missed nights notwithstanding.   *)
DueIsIssued ==
  \A l \in Month :
    (\A m \in Month : ContractOf[m] = ContractOf[l] => Gross[m] > 0) =>
      (/\ Live(ContractOf[l]) /\ istatus[l] # "NONE" /\ due[l] <= today /\ number[l] = 0
       ~> number[l] # 0 \/ waived[l] \/ istatus[l] = "CANCELLED")

(* A live contract that has an invoice unpaid past its due date becomes    *)
(* Overdue, unless it no longer has one or has ended.                      *)
Late(c) ==
  Live(c) /\ \E l \in LinesOf(c) :
    number[l] # 0 /\ due[l] < today /\ paid[l] < Gross[l] /\ ~waived[l]

LateIsOverdue == \A c \in Contract : Late(c) ~> status[c] = "OVERDUE" \/ ~Late(c)

(* Billing implements InvoiceBook. *)
Book == INSTANCE InvoiceBook WITH
          last <- next - 1,
          reversed <- {l \in Line : <<"InstallmentWaiver", l>> \in ledger}

ImplementsInvoiceBook == Book!Spec
=============================================================================
