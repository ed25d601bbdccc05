------------------------------- MODULE Reports -------------------------------
(***************************************************************************)
(* What is read back out of the books: the profit reports, which group the *)
(* ledger by a dimension, the month's result on the dashboard, a car's     *)
(* lifetime, the break-down by category; and collections, which are read   *)
(* from the instalments.  With them, where an expense lands in the ledger. *)
(*                                                                         *)
(* An entry is a record whose dimensions (vehicle, customer, supplier,     *)
(* contract) may be Unassigned.  Nothing here has state.                   *)
(***************************************************************************)
EXTENDS Integers, FiniteSets, FiniteSetsExt

Unassigned == "unassigned"
AnyType == "any"
Dimensions == {"vehicle", "customer", "supplier", "contract", "month"}

-----------------------------------------------------------------------------
(* Expenses. *)

(* A company-wide cost carries no dimensions; a contract's car and         *)
(* customer are facts about the contract.  A cost of nothing is not posted.*)
ExpensePosting(expense, contracts) ==
  LET onCar == [vehicle |-> expense.vehicle, contract |-> Unassigned, customer |-> Unassigned]
      onContract == [vehicle |-> contracts[expense.contract].vehicle,
                     contract |-> expense.contract,
                     customer |-> contracts[expense.contract].customer]
      nowhere == [vehicle |-> Unassigned, contract |-> Unassigned, customer |-> Unassigned]
      where == CASE expense.allocation = "VEHICLE" -> onCar
                 [] expense.allocation = "CONTRACT" -> onContract
                 [] OTHER -> nowhere
  IN IF expense.net = 0 THEN {}
     ELSE {[id |-> expense.id, month |-> expense.month, direction |-> "COST",
            category |-> "cost.other", amount |-> expense.net,
            vehicle |-> where.vehicle, contract |-> where.contract,
            customer |-> where.customer, supplier |-> Unassigned]}

-----------------------------------------------------------------------------
(* The ledger, grouped. *)

Booked(entries) == SumFunction([e \in entries |-> e.amount])

(* A filter narrows to entries on matching contracts; Any counts every     *)
(* entry, "including those on no contract at all".                         *)
Selected(ledger, from, to, type, contracts) ==
  {e \in ledger :
     /\ e.month \in from..to
     /\ type = AnyType \/ (e.contract # Unassigned /\ contracts[e.contract].type = type)}

(* The columns a set of entries adds up to. *)
Figures(entries) ==
  LET revenue == {e \in entries : e.direction = "REVENUE"}
      cost == entries \ revenue
      of(category) == Booked({e \in entries : e.category = category})
      apart == {e \in revenue : e.category \in {"revenue.rental", "revenue.insurance"}}
  IN [rental |-> of("revenue.rental"),
      insurance |-> of("revenue.insurance"),
      otherRevenue |-> Booked(revenue \ apart),
      revenue |-> Booked(revenue),
      supplierCost |-> of("cost.supplier"),
      otherCost |-> Booked({e \in cost : e.category # "cost.supplier"}),
      cost |-> Booked(cost),
      profit |-> Booked(revenue) - Booked(cost)]

(* Mutant: entries to which the dimension does not apply are dropped. *)
KeysAssigned(entries, dimension) ==
  {e[dimension] : e \in {f \in entries : dimension = "month" \/ f[dimension] # Unassigned}}

(* "reported on a row of their own rather than dropped" *)
KeysOf(entries, dimension) == {e[dimension] : e \in entries}

ProfitRows(entries, dimension) ==
  [key \in KeysOf(entries, dimension) |-> Figures({e \in entries : e[dimension] = key})]

(* The report's total is the sum of what its rows are made of. *)
ProfitTotal(rows) ==
  [column \in DOMAIN Figures({}) |-> SumFunction([key \in DOMAIN rows |-> rows[key][column]])]

(* categoryTotals: one line for each category that comes to anything. *)
CategoryTotals(entries) ==
  LET lines == {<<e.direction, e.category>> : e \in entries}
      amount(l) == Booked({e \in entries : e.direction = l[1] /\ e.category = l[2]})
  IN {[direction |-> l[1], category |-> l[2], amount |-> amount(l)] :
        l \in {m \in lines : amount(m) # 0}}

(* vehicleLifetime: "as long as DrivenX has had it". *)
VehicleLifetime(ledger, vehicle) ==
  LET lines == CategoryTotals({e \in ledger : e.vehicle = vehicle})
      side(direction) == Booked({l \in lines : l.direction = direction})
  IN [revenue |-> side("REVENUE"), cost |-> side("COST"), profit |-> side("REVENUE") - side("COST")]

(* monthResult *)
MonthResult(ledger, month) ==
  LET side(direction) == Booked({e \in ledger : e.month = month /\ e.direction = direction})
  IN [revenue |-> side("REVENUE"), cost |-> side("COST"), profit |-> side("REVENUE") - side("COST")]

-----------------------------------------------------------------------------
(* Collections. *)

(* installmentStatus *)
InstallmentStatus(item, day) ==
  IF item.waived THEN "WAIVED"
  ELSE IF item.paid >= item.gross THEN "PAID"
  ELSE IF item.due < day THEN "OVERDUE"
  ELSE IF item.paid > 0 THEN "PARTIALLY_PAID"
  ELSE IF item.due = day THEN "DUE" ELSE "UPCOMING"

Owed(items) == SumFunction([i \in items |-> i.gross - i.paid])

(* receivables: by what was paid. *)
Receivables(items, today) ==
  LET open == {i \in items : i.issued /\ ~i.waived /\ i.paid < i.gross}
      late == {i \in open : i.due < today}
  IN [outstanding |-> Owed(open), overdue |-> Owed(late), overdueCount |-> Cardinality(late)]

(* overdueInstallments: by the status column, which the night refreshes.   *)
(* (The list stops at ten; here there are fewer.)                          *)
OverdueInstallments(items, today) ==
  {i \in items : /\ i.issued /\ ~i.waived /\ i.due < today
                 /\ i.status \in {"OVERDUE", "PARTIALLY_PAID", "DUE"}}

(* contractCounts: the live contracts with something late. *)
ContractsBehind(items, today, live) ==
  {i.contract : i \in {j \in items : /\ j.contract \in live
                                     /\ j.issued /\ ~j.waived /\ j.due < today /\ j.status # "PAID"}}

-----------------------------------------------------------------------------
(* What is promised of them, one input at a time: a sheet.                 *)

Side(figures) == [revenue |-> figures.revenue, cost |-> figures.cost, profit |-> figures.profit]

(* "every report adds up to the same total: the ledger for the range"      *)
(* (INV-6), whatever the dimension and the filter; its columns add up; and *)
(* a month's row is the dashboard's month, a car's row over all time its   *)
(* lifetime, which "cannot disagree".                                      *)
LedgerTellsOneStory(ledger, from, to, type, contracts) ==
  LET range == Selected(ledger, from, to, type, contracts)
      total == Figures(range)
      all == ProfitRows(ledger, "vehicle")
      months == ProfitRows(ledger, "month")
  IN /\ \A dimension \in Dimensions : ProfitTotal(ProfitRows(range, dimension)) = total
     /\ total.rental + total.insurance + total.otherRevenue = total.revenue
     /\ total.supplierCost + total.otherCost = total.cost
     /\ LET lines == CategoryTotals(range)
            side(d) == Booked({l \in lines : l.direction = d}) IN
        side("REVENUE") = total.revenue /\ side("COST") = total.cost
     /\ \A vehicle \in DOMAIN all : Side(all[vehicle]) = VehicleLifetime(ledger, vehicle)
     /\ \A month \in DOMAIN months : Side(months[month]) = MonthResult(ledger, month)

(* An overhead reaches the month "without being smeared across vehicles    *)
(* that did not incur it": what an expense adds to each row of a report is *)
(* all of it on its own car, customer and contract, and nothing elsewhere. *)
ExpenseLandsOnce(expense, contracts) ==
  LET posted == ExpensePosting(expense, contracts)
      added(dimension, key) ==
        LET rows == ProfitRows(posted, dimension) IN IF key \in DOMAIN rows THEN rows[key].cost ELSE 0
      cars == {contracts[c].vehicle : c \in DOMAIN contracts} \cup {expense.vehicle}
      charged(v) == \/ expense.allocation = "VEHICLE" /\ v = expense.vehicle
                    \/ expense.allocation = "CONTRACT" /\ v = contracts[expense.contract].vehicle
  IN /\ \A v \in cars : added("vehicle", v) = IF charged(v) THEN expense.net ELSE 0
     /\ \A c \in DOMAIN contracts :
          added("contract", c)
            = IF expense.allocation = "CONTRACT" /\ c = expense.contract THEN expense.net ELSE 0
     /\ added("month", expense.month) = expense.net

(* The dashboard "could say none while the collections list beside it      *)
(* shows late payments": the money overdue, the number of late invoices,   *)
(* the list and the contracts behind agree on any instalments whose status *)
(* was right on some day since they were issued, which is from their due   *)
(* date on, the night not having refreshed it since.                       *)
WasRight(item, today) ==
  item.issued => \E day \in item.due..today : item.status = InstallmentStatus(item, day)

CollectionsAgree(items, today, live) ==
  (\A i \in items : WasRight(i, today)) =>
    LET list == OverdueInstallments(items, today)
        money == Receivables(items, today)
    IN /\ Owed(list) = money.overdue /\ Cardinality(list) = money.overdueCount
       /\ ContractsBehind(items, today, live) = {i.contract : i \in list} \cap live
       /\ money.overdue <= money.outstanding
=============================================================================
