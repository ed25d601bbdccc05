-------------------------------- MODULE Terms --------------------------------
(***************************************************************************)
(* The pure side of a contract: rounding and splitting money, dates a      *)
(* number of months on, the schedule a contract's terms expand into, what  *)
(* the deal calculator promises for the same terms, what the supplier of a *)
(* leased-in car is owed, what the odometer costs and announces, and a     *)
(* statement of account.                                                   *)
(*                                                                         *)
(* A date is a tuple <<year, month, day>>; an amount is a number of fils.  *)
(***************************************************************************)
EXTENDS Integers, FiniteSets, FiniteSetsExt

-----------------------------------------------------------------------------
(* Rounding. *)

Magnitude(n) == IF n < 0 THEN -n ELSE n

(* bigint division truncates toward zero *)
Quotient(n, d) ==
  LET q == Magnitude(n) \div Magnitude(d) IN IF (n < 0) # (d < 0) THEN -q ELSE q

Remainder(n, d) == n - d * Quotient(n, d)

(* The magnitudes, per mode; the sign is applied after. *)
DivideRound(n, d, mode) ==
  LET b == Magnitude(d)
      q == Magnitude(n) \div b
      r == Magnitude(n) % b
      up == CASE r = 0 -> FALSE
              [] mode = "DOWN" -> FALSE
              [] mode = "UP" -> TRUE
              [] mode = "HALF_UP" -> 2 * r >= b
              [] OTHER -> 2 * r > b \/ (2 * r = b /\ q % 2 # 0)
      magnitude == IF up THEN q + 1 ELSE q
  IN IF (n < 0) # (d < 0) THEN -magnitude ELSE magnitude

VatOn(net, basisPoints) == DivideRound(net * basisPoints, 10000, "HALF_UP")

NetFromGross(gross, basisPoints) == DivideRound(gross * 10000, 10000 + basisPoints, "HALF_UP")

-----------------------------------------------------------------------------
(* Splitting: "every payment schedule goes through it".                    *)

(* Mutant: the remainder is left where it falls. *)
AllocateDown(total, parts) == [i \in 1..parts |-> Quotient(total, parts)]

(* The truncation remainder goes one fil at a time to the first shares. *)
Allocate(total, parts) ==
  LET left == Remainder(total, parts) IN
  [i \in 1..parts |->
     Quotient(total, parts) + (IF i > Magnitude(left) THEN 0 ELSE IF left < 0 THEN -1 ELSE 1)]

(* Weighted shares, topped up by largest remainder, ties by position.  The *)
(* rates are whole numbers here, which the code scales by 10^9.            *)
AllocateByRatios(total, ratios) ==
  LET weight == SumFunction(ratios)
      share == [i \in DOMAIN ratios |-> Quotient(total * ratios[i], weight)]
      over == [i \in DOMAIN ratios |-> Magnitude(Remainder(total * ratios[i], weight))]
      left == total - SumFunction(share)
      Ahead(i, j) == over[i] > over[j] \/ (over[i] = over[j] /\ i < j)
      rank == [j \in DOMAIN ratios |-> Cardinality({i \in DOMAIN ratios : Ahead(i, j)})]
  IN [i \in DOMAIN ratios |->
       share[i] + (IF rank[i] >= Magnitude(left) THEN 0 ELSE IF left < 0 THEN -1 ELSE 1)]

(* An annual amount over some months: twelve shares, taken month by month. *)
AnnualOverMonths(annual, months) ==
  SumFunction([month \in 0..(months - 1) |-> Allocate(annual, 12)[(month % 12) + 1]])

-----------------------------------------------------------------------------
(* The calendar. *)

(* The day before the first of the next month, as Date.UTC has it. *)
DaysInMonth(year, month) ==
  CASE month = 2 -> IF year % 4 = 0 /\ (year % 100 # 0 \/ year % 400 = 0) THEN 29 ELSE 28
    [] month \in {4, 6, 9, 11} -> 30
    [] OTHER -> 31

(* Always from the start, "never chained": the start's day of the month    *)
(* where it exists, the last day where it does not.                        *)
AddMonths(start, months) ==
  LET index == start[1] * 12 + (start[2] - 1) + months
      year == index \div 12
      month == (index % 12) + 1
      last == DaysInMonth(year, month)
  IN <<year, month, IF start[3] < last THEN start[3] ELSE last>>

(* addDays(date, -1) *)
DayBefore(date) ==
  IF date[3] > 1 THEN <<date[1], date[2], date[3] - 1>>
  ELSE LET month == AddMonths(<<date[1], date[2], 1>>, -1)
       IN <<month[1], month[2], DaysInMonth(month[1], month[2])>>

(* compareIsoDates *)
Earlier(a, b) ==
  \/ a[1] < b[1]
  \/ a[1] = b[1] /\ a[2] < b[2]
  \/ a[1] = b[1] /\ a[2] = b[2] /\ a[3] < b[3]

ContractEndDate(start, months) == DayBefore(AddMonths(start, months))

-----------------------------------------------------------------------------
(* The schedule: charges, then their instalments. *)

(* chargesFor; charges of nothing are left out, but for the rental. *)
ChargesFor(terms) ==
  LET charge(key, recurrence, amount, startsOn, occurrences) ==
        [key |-> key, recurrence |-> recurrence, amount |-> amount, startsOn |-> startsOn,
         occurrences |-> occurrences]
      years == (terms.months + 11) \div 12
  IN {charge("rental", "MONTHLY", terms.rental, terms.start, terms.months)}
     \cup {c \in {charge("down-payment", "ONCE", terms.downPayment, terms.start, 1),
                  charge("insurance", "ANNUAL", terms.insurance, terms.start, years),
                  charge("buyout", "ONCE", terms.buyout,
                         ContractEndDate(terms.start, terms.months), 1)} : c.amount > 0}

(* The months an instalment of an annual charge covers. *)
MonthsCovered(sequence, months) ==
  LET left == months - 12 * (sequence - 1) IN IF left < 12 THEN left ELSE 12

(* expandCharge: charged in advance, each period due on its first day. *)
ExpandCharge(c, months, vat) ==
  LET item(sequence, from, to, net) ==
        [key |-> c.key, sequence |-> sequence, from |-> from, to |-> to, due |-> from,
         net |-> net, vat |-> VatOn(net, vat), gross |-> net + VatOn(net, vat)]
      step == IF c.recurrence = "ANNUAL" THEN 12 ELSE 1
      covers(i) == IF c.recurrence = "ANNUAL" THEN MonthsCovered(i, months) ELSE 1
  IN IF c.recurrence = "ONCE" THEN {item(1, c.startsOn, c.startsOn, c.amount)}
     ELSE {item(i, AddMonths(c.startsOn, step * (i - 1)),
                DayBefore(AddMonths(c.startsOn, step * (i - 1) + covers(i))),
                IF covers(i) = step THEN c.amount ELSE AnnualOverMonths(c.amount, covers(i))) :
             i \in 1..c.occurrences}

BuildSchedule(terms) == UNION {ExpandCharge(c, terms.months, terms.vat) : c \in ChargesFor(terms)}

(* supplierSchedule: what a leased-in car's supplier is owed, month by     *)
(* month, due the same day as the customer's rental.                       *)
SupplierSchedule(start, months, cost) ==
  {[sequence |-> i, from |-> AddMonths(start, i - 1), to |-> DayBefore(AddMonths(start, i)),
    due |-> AddMonths(start, i - 1), net |-> cost] : i \in 1..months}

-----------------------------------------------------------------------------
(* The deal calculator. *)

(* The monthly amounts of a deal, its annual ones and those paid once. *)
MoneyFields ==
  {"rental", "vehicleCost", "maintenance", "insurance", "insuranceCost", "downPayment", "buyout",
   "oneOffCost", "otherCosts"}

(* validateDealInput, "every problem at once". *)
DealIssues(deal) ==
  (IF deal.months < 1 THEN {"durationTooShort"} ELSE {})
  \cup (IF deal.months > 120 THEN {"durationTooLong"} ELSE {})
  \cup (IF \E f \in MoneyFields : deal[f] < 0 THEN {"negativeAmount"} ELSE {})
  \cup (IF deal.type = "RENTAL" /\ deal.ownership = "B2B_SUPPLIER" THEN {"rentalOnLeasedCar"} ELSE {})
  \cup (IF deal.type = "RENTAL" /\ deal.buyout > 0 THEN {"buyoutOnRental"} ELSE {})

CalculateDeal(deal) ==
  LET firstYear == IF deal.months < 12 THEN deal.months ELSE 12
      revenue == deal.rental * deal.months + AnnualOverMonths(deal.insurance, deal.months)
                   + deal.downPayment + deal.buyout
      cost == deal.vehicleCost * deal.months + deal.oneOffCost
                + AnnualOverMonths(deal.insuranceCost, deal.months)
                + deal.maintenance * deal.months + deal.otherCosts
  IN [rentalWithVat |-> deal.rental + DivideRound(deal.rental * 5, 100, "HALF_UP"),
      firstYearRevenue |-> deal.rental * firstYear + AnnualOverMonths(deal.insurance, firstYear),
      grossProfitFromRental |-> (deal.rental - deal.vehicleCost) * deal.months,
      totalRevenue |-> revenue,
      totalCost |-> cost,
      totalProfit |-> revenue - cost,
      marginBasisPoints |->
        IF revenue > 0 THEN DivideRound((revenue - cost) * 10000, revenue, "HALF_UP") ELSE 0]

-----------------------------------------------------------------------------
(* The odometer: what the extra kilometres come to, and the next service.  *)

NoLimit == -1

ExcessMileage(out, back, allowance, rate) ==
  LET over == back - out - allowance IN
  IF allowance = NoLimit \/ rate <= 0 \/ over <= 0 THEN 0 ELSE over * rate

(* serviceDue: by the date marker, or by the distance one, if it has them. *)
ServiceDue(markers, today, odometer) ==
  LET days == markers.day - today
      km == markers.km - odometer
      overdue == (markers.day # NoLimit /\ days < 0) \/ (markers.km # NoLimit /\ km < 0)
      soon == (markers.day # NoLimit /\ days <= 14) \/ (markers.km # NoLimit /\ km <= 500)
  IN IF overdue THEN "overdue" ELSE IF soon THEN "due" ELSE "none"

-----------------------------------------------------------------------------
(* Statements of account. *)

(* The movements on a customer's account up to a day: an invoice on its    *)
(* due date, the credit of its waiver, a payment with all its money.       *)
Movements(invoices, payments, until) ==
  {[date |-> i.due, kind |-> 0, id |-> i.id, net |-> i.gross] :
     i \in {j \in invoices : ~Earlier(until, j.due)}}
  \cup {[date |-> i.waivedAt, kind |-> 1, id |-> i.id, net |-> -i.gross] :
     i \in {j \in invoices : ~Earlier(until, j.due) /\ j.waived}}
  \cup {[date |-> p.receivedOn, kind |-> 2, id |-> p.id, net |-> -p.amount] :
     p \in {q \in payments : ~Earlier(until, q.receivedOn)}}

(* build: what came before the range is the opening balance, each line     *)
(* carries the balance so far, what comes after is left out.               *)
Statement(from, to, movements) ==
  LET before == {m \in movements : Earlier(m.date, from)}
      within == {m \in movements : ~Earlier(m.date, from) /\ ~Earlier(to, m.date)}
      opening == SumFunction([m \in before |-> m.net])
      Upto(m, n) == \/ Earlier(m.date, n.date)
                    \/ m.date = n.date /\ (m.kind < n.kind \/ (m.kind = n.kind /\ m.id <= n.id))
  IN [opening |-> opening,
      lines |-> {[movement |-> n,
                  balance |-> opening + SumFunction([m \in {w \in within : Upto(w, n)} |-> m.net])] :
                   n \in within},
      closing |-> opening + SumFunction([m \in within |-> m.net])]

-----------------------------------------------------------------------------
(* What is promised of them, one input at a time: a sheet.                 *)

(* A split sums back to what was split, in shares within a fil of each     *)
(* other.                                                                  *)
SplitIsExact(total, parts) ==
  LET shares == Allocate(total, parts) IN
  /\ SumFunction(shares) = total
  /\ \A i, j \in 1..parts : Magnitude(shares[i] - shares[j]) <= 1

(* So does a weighted one, each share within a fil of its weight; a weight *)
(* of nothing gets nothing.                                                *)
WeightsAreExact(total, ratios) ==
  LET shares == AllocateByRatios(total, ratios) IN
  /\ SumFunction(shares) = total
  /\ \A i \in DOMAIN ratios :
       /\ Magnitude(shares[i] * SumFunction(ratios) - total * ratios[i]) < SumFunction(ratios)
       /\ ratios[i] = 0 => shares[i] = 0

(* Rounding is to the nearest, halves away from zero, and symmetric; and   *)
(* VAT taken out of a gross and put back is at most a fil out.             *)
RoundingIsFair(n, d) ==
  LET q == DivideRound(n, d, "HALF_UP")
      net == NetFromGross(n, 500) IN
  /\ 2 * Magnitude(q * d - n) <= d
  /\ 2 * Magnitude(q * d - n) = d => Magnitude(q) * d > Magnitude(n)
  /\ DivideRound(-n, d, "HALF_UP") = -q
  /\ Magnitude(net + VatOn(net, 500) - n) <= 1

(* Some charge's instalments cover a contract from its first day to its    *)
(* last without a gap or an overlap.                                       *)
CoversContract(items, terms) ==
  /\ \E i \in items : i.from = terms.start
  /\ \E i \in items : i.to = ContractEndDate(terms.start, terms.months)
  /\ \A i \in items : ~Earlier(i.to, i.from)
  /\ \A i, j \in items : j.sequence = i.sequence + 1 => DayBefore(j.from) = i.to

DealOf(terms) ==
  CalculateDeal([f \in MoneyFields \cup {"months"} |-> IF f \in DOMAIN terms THEN terms[f] ELSE 0])

(* Month by month a contract is the deal: it is invoiced what the customer *)
(* was quoted; its rental and its insurance cover it, whatever day it      *)
(* begins; and the supplier is owed for the same months, on the days the   *)
(* rental falls due.                                                       *)
MonthsAreTheDeal(terms) ==
  LET Of(key) == {i \in BuildSchedule(terms) : i.key = key}
      months(items) == {<<i.sequence, i.from, i.to, i.due>> : i \in items}
  IN /\ \A i \in Of("rental") : i.gross = DealOf(terms).rentalWithVat
     /\ CoversContract(Of("rental"), terms)
     /\ Of("insurance") # {} => CoversContract(Of("insurance"), terms)
     /\ months(SupplierSchedule(terms.start, terms.months, 1)) = months(Of("rental"))
     /\ \A i \in Of("rental") :
          i.due[3] = terms.start[3] \/ i.due[3] = DaysInMonth(i.due[1], i.due[2])

(* And it is scheduled for exactly what the deal calculator promised.      *)
ScheduleIsTheDeal(terms) ==
  /\ MonthsAreTheDeal(terms)
  /\ SumFunction([i \in BuildSchedule(terms) |-> i.net]) = DealOf(terms).totalRevenue

(* What a margin that is no loss can be, in basis points. *)
Margins == 0..10000

(* A deal without an issue is never worth more in its first year than in   *)
(* all, and its profit is the rental's with everything else counted once.  *)
DealAddsUp(deal) ==
  DealIssues(deal) = {} =>
    LET sum == CalculateDeal(deal) IN
    /\ sum.firstYearRevenue <= sum.totalRevenue
    /\ sum.totalProfit = sum.grossProfitFromRental
         + AnnualOverMonths(deal.insurance, deal.months)
         - AnnualOverMonths(deal.insuranceCost, deal.months)
         + deal.downPayment + deal.buyout
         - deal.oneOffCost - deal.otherCosts - deal.maintenance * deal.months
    /\ sum.totalRevenue > 0 /\ sum.totalProfit >= 0 => sum.marginBasisPoints \in Margins

Grade(state) == CASE state = "none" -> 0 [] state = "due" -> 1 [] OTHER -> 2

(* Kilometres cost nothing until the allowance is driven and never less    *)
(* for driving further; a car read twice without moving owes nothing more. *)
MilesAreFair(out, back, allowance, rate) ==
  /\ ExcessMileage(out, back, allowance, rate) >= 0
  /\ back <= out => ExcessMileage(out, back, allowance, rate) = 0
  /\ \A km \in out..back :
       ExcessMileage(out, km, allowance, rate) <= ExcessMileage(out, back, allowance, rate)

(* A service announced stays announced as days pass, and is "due soon"     *)
(* before it is overdue.                                                   *)
ServiceIsForetold(markers, today, odometer) ==
  LET now == Grade(ServiceDue(markers, today, odometer)) IN
  /\ Grade(ServiceDue(markers, today + 1, odometer)) \in now..2
  /\ now = 0 => Grade(ServiceDue(markers, today + 1, odometer + 1)) < 2

(* "a statement for any range closes on the same figure as one for all     *)
(* time", and on what its last line says.                                  *)
StatementCloses(book, from, to) ==
  ~Earlier(to, from) =>
    LET movements == Movements(book.invoices, book.payments, to)
        range == Statement(from, to, movements)
        all == Statement(<<0, 1, 1>>, to, movements)
    IN /\ range.closing = all.closing
       /\ range.lines # {} => \E l \in range.lines : l.balance = range.closing
=============================================================================
