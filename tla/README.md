# DrivenX: a verification development

DrivenX is the back office of a car rental and lease-to-own fleet: a Next.js
application whose server actions call handlers in `packages/db`, pure rules in
`packages/core`, a PostgreSQL database behind Prisma, and a worker that cron
starts every night. These modules model what can go wrong in it when requests
meet, when a process dies halfway, and when a screen, a form or a report says
something other than what the database does: who has which car, what each
contract has been invoiced, has paid and has earned, what suppliers are owed,
what the papers of a car say, who is told what, who may do what, and the figures
worked out along the way.

## 1. Inventory

| Component | State it keeps | Operations | What must hold |
|---|---|---|---|
| Vehicle status machine (`core/fleet/status.ts`) | none (pure) | `canTransition`, ownership rules | every status change is an edge of the table |
| Contract status machine (`core/contracts/status.ts`) | none (pure) | `canTransitionContract` | as above; ended is final |
| Fleet (`db/fleet.ts`, `vehicles/actions.ts`) | vehicle rows: status, ownership, mileage, deletedAt | create, move by hand, reclassify, delete, record mileage | hand moves and contracts agree about the car |
| Contracts (`db/contracts.ts`) | contract, charge and instalment rows, payments, the invoice counter | create, activate, issue, record a payment, waive, refresh | INV-2..4, INV-9: gapless numbers, revenue with its invoice, one live contract per car |
| Settlements (`db/settlements.ts`) | settlement and line rows | open, add or remove a line, settle, terminate | a contract ends reckoned, a line is billed once |
| Ledger (`db/ledger.ts`) | one entry per source and category | post | never twice, never a non-positive amount |
| Nightly contracts run (`worker/src/contracts-daily.ts`) | none of its own | issue, mark overdue, the same for suppliers | everything due is issued and marked in the end |
| Supplier invoices (`db/supplier-invoices.ts`) | payable rows and their payments | write, raise, pay, mark overdue, drop | INV-11, INV-12: cost recognised once, paid is what was paid |
| Handovers, damage, mileage (`db/handovers.ts`, `core/mileage`) | handover and damage rows, photographs, the odometer and its readings | draft, edit, mark, photograph, sign, discard, record | mileage does not go back, a signed form stays, one figure each way |
| Maintenance (`db/maintenance.ts`, `core/fleet/maintenance.ts`) | service records | record, foretell the next | a reading does not go back, its cost is posted once |
| Fines (`db/fines.ts`, `core/fines`) | fine rows | record, transition, recover | a recovery bills once; cost and status agree |
| Accidents and claims (`db/accidents.ts`, `core/accidents`) | accident, repair and claim rows | record, move, repair, lodge, settle | as above |
| Insurance policies (`db/insurance.ts`) | policy rows | take out, cancel | premium and refund posted once |
| Leads (`db/leads.ts`, `core/leads`) | lead and quotation rows | move, quote, convert | a stage is earned, a conversion happens once |
| Notification delivery (`worker/src/deliver-notifications.ts`, `db/deliveries.ts`) | delivery rows | gather, claim, send, mark | nobody is stranded or told twice |
| Document expiry scan (`worker/src/expiry-scan.ts`, `documents/actions.ts`) | document rows, files, notifications | upload, replace, delete, scan | one paper is current, a lapse is announced |
| Audit log (`db/audit/extension.ts`) | audit rows | wrap every statement | no change without its row |
| Sign-in and permissions (`core/auth`, `lib/session.ts`, `users/`, `roles/`) | accounts, roles, cookies | sign in, lock, change a password, switch off, edit a role | sessions follow the password, rights are as set, somebody can manage |
| Schedules, calendar and money (`core/money`, `core/calendar`, `core/contracts`) | none (pure) | expand, add months, round, split | parts sum to the whole; dates do not drift |
| Deal pricing (`core/deals`) | none (pure) | price, refuse | the price is that of the schedule it becomes |
| Identifiers (`core/people`, `core/fleet/vin.ts`) | none (pure) | check digits, normal forms | a slip of the hand is caught |
| Expenses, reporting (`db/expenses.ts`, `db/reports.ts`, `db/kpis.ts`, `db/statements.ts`) | expense rows; otherwise read-only | record; query | every view of the ledger tells one story |
| Deal calculator, contract form, quotation (`deal-calculator.tsx`, `contract-form.tsx`, `quote-form.tsx`) | what is chosen and typed | choose, type | what is previewed is what is written |
| Handlers, forms and pages (`apps/web`) | none of their own | read a form, ask a permission, show a control | what is offered is what is accepted |
| Storage and mail adapters | none | put, delete, send | what their answers mean to the caller |
| Search, lists, reconciliation, printing, seeds | none | queries and layout | outside (section 5) |

**How they interact.** There is no message passing: components meet in the
database, under READ COMMITTED. A handler is usually one transaction. Three
devices keep two of them apart: `SELECT ... FOR UPDATE` on the contract row
(`lockContract`) or a payable's, a compare-and-set on a column (`updateMany where
status =`, `where invoiceNumber = null`), and unique or CHECK constraints. Where a
handler uses none, or reads before it locks, another may commit in between. The
worker's jobs and the audit extension are the exceptions to "one transaction":
the jobs send mail and stamp rows one at a time, the extension reads and writes on
a connection of its own. Browsers hold state too: a cookie, a form filled in from
a row that has changed since, a preview of a deal.

**What is hard.** Two handlers on one row in an order nobody tested; a status or
a list read before a lock and used after it; a transaction that fails after
drawing an invoice number; a nightly run that dies, overlaps another, or crosses
midnight; mail whose answer is lost; an upload that stops between its file and its
row; a cookie compared to a date of a finer grain; figures that two places compute.
`PROJECT.json` lists each hazard at its line.

## 2. Modules

| Module | What it is | Stands for |
|---|---|---|
| `FleetStatus`, `ContractStatus`, `CaseStatus`, `LeadStatus` | the status tables | `core/*/status.ts` |
| `Custody` | contracts, cars and the handlers that move them | `contracts.ts`, `settlements.ts`, `fleet.ts`, `vehicles/actions.ts` |
| `CarHolding` | abstract: a contract takes its car once, alone, and gives it up for good | the promise `Custody` keeps |
| `Billing` | instalments, invoices, ledger, payments, settlement, fine recovery, nightly run | `contracts.ts`, `settlements.ts`, `fines.ts`, `ledger.ts`, `core/contracts/payments.ts`, `apps/worker` |
| `InvoiceBook` | abstract: numbers in batches with no gap, revenue taken back at most once | the promise `Billing` keeps |
| `Supplier` | payables written, raised, paid, marked overdue and dropped | `supplier-invoices.ts`, and what `contracts.ts` and `settlements.ts` do to them |
| `Payables` | abstract: a payable is a cost at most once, money is only added to it, and neither kind is dropped | the promise `Supplier` keeps |
| `VehicleFile` | handover forms, marks, photographs, odometer, services | `handovers.ts`, `maintenance.ts`, `vehicles/actions.ts` |
| `Cases` | fines, accidents, repairs, claims, policies and their ledger entries | `fines.ts`, `accidents.ts`, `insurance.ts` |
| `Leads` | leads, quotations, conversion | `leads.ts` |
| `Outbox` | gather, claim, send, mark | `deliver-notifications.ts`, `deliveries.ts` |
| `Papers` | uploads in three steps, deletion, the scan in three statements | `documents/actions.ts`, `expiry-scan.ts` |
| `Audit` | the client extension around each statement, over an external PostgreSQL | `audit/extension.ts` |
| `Access`, `SignIn` | accounts and roles; passwords, the lock, sessions | `users/`, `roles/`, `session.ts`, `core/auth` |
| `Terms` | rounding, splitting, dates, schedules, deals, excess kilometres, statements | `core/money`, `core/calendar`, `core/contracts`, `core/deals`, `core/mileage`, `db/statements.ts` |
| `Reports` | the views of the ledger, collections, where an expense lands | `reports.ts`, `kpis.ts`, `expenses.ts` |
| `Identifiers` | check digits and normal forms | `core/people`, `core/fleet/vin.ts` |
| `Handlers` | what each server action asks for and does with each field | `*/actions.ts`, `lib/form.ts` |
| `Forms` (over `Handlers`) | what each form can send, its asterisks, what it shows of a row | the forms under `apps/web` |
| `Pages` (over `Handlers`) | controls, moves and links, and to whom | the pages and cards under `apps/web` |
| `Calculators` (over `Handlers`) | the three screens that work out a deal as it is typed | `deal-calculator.tsx`, `contract-form.tsx`, `quote-form.tsx` |
| `CustodyProofs`, `BillingProofs`, `SupplierProofs`, `VehicleFileProofs`, `CasesProofs` | theorems and proofs about one module each | |
| `FiguresProofs` | theorems and proofs about the pure modules `Terms`, `Reports` and `Identifiers` | |
| `NightProofs`, `DeskProofs` | theorems and proofs about the two compositions, and in them about `Outbox` and `Papers`; `Leads`, `Audit`, `Access`, `SignIn`, `Calculators`, `Forms` and `Pages` | |
| `MCCustody`, `MCBilling`, `MCNight`, `MCDesk` | instances for TLC | |

`Custody` and `Billing` share the contract's life and abstract each other: in
`Custody` a refresh may go either way because the instalments that decide it are
in `Billing`; in `Billing` activation and termination assume the car allows them.
`Supplier` stands to `Billing` in the same way.

`MCNight` composes `Supplier`, `Outbox` and `Papers`, the nightly jobs; `MCDesk`
the rest. Both leave the sets of rows, people and bounds as constants, so that what is
proved of them is proved for every instance. The modules composed share no table that both write, so interleaving
their steps would only multiply states: a behaviour is of one of them, chosen in
the initial state by `part`, and the others stand still. The parts are `suppliers`,
`outbox`, `papers` at night; `odometer`, `diagram`, `fines`, `crashes`, `covers`,
`leads`, `audit`, `access`, `lockout`, `sessions`, `deals`, `figures` at the desk.
A behaviour of `figures` is one input, `sheet`, and has no steps: the pure modules
(`Terms`, `Reports`, `Identifiers`, `Forms`, `Pages`) are checked on every sheet. `MCDesk`
takes the first three through `FiguresProofs`, so that `DeskProofs` can cite its theorems
about the definitions the run evaluates.

### How state and actions correspond to code

*Atomicity.* A handler whose every read that matters is made under the lock of
the contract it writes, or is re-checked by a compare-and-set in the same
statement, is one action. Any other is a `...Read` that fills `request[s]` with
what the handler remembers and a `...Write` that commits. In `Custody`:
activation and termination (they lock the contract, but read the vehicle
without a lock and compare-and-set it), hand moves (read, then compare-and-set),
reclassification and deletion (nothing protects the write). In `Billing`:
`settleSettlement` (reads status and lines before the lock), the two line
handlers (no transaction), `recoverFine` (does not lock the contract). In `Supplier`: raising locks
the contract and paying locks the payable, so neither sees the other. In
`VehicleFile`, `Cases` and `Leads` nearly every handler reads, decides and then
writes by id, and is two actions; the exceptions are the start of a form
(under the contract's lock) and what a compare-and-set makes whole again. A failed
write is `Abort`: the transaction rolls back. `Locked(c)` makes the others wait for
an activation or termination under way.

`createContract` is one action although it reads first: a draft binds nothing,
and activation checks again.

`recoverFine` inserts a charge and an instalment (`fines.ts:244`, `:259`) before it
reads what is due (`:275`). Both rows refer to the contract, so Postgres holds the
contract's row `FOR KEY SHARE` until the recovery commits. `lockContract` asks for it
`FOR UPDATE` (`contracts.ts:98`) and waits: in `Billing`, `LockContract(c)` is a guard of
every action that locks the contract, and between `RecoverRead` and `RecoverWrite`
neither a payment, a waiver, an end, a settlement nor the nightly run touches it. Two
share locks go together, so a recovery of another fine does come in between; one of
the same fine waits, for its charge has the same unique key. What takes no
contract lock may come in between too: the run's marking of what is late, which touches
numbered lines only, and the reads of a settlement and of its lines.

What is no transaction is as many actions as it has steps: an upload stores,
creates and replaces; a delivery run claims, sends and marks; a scan reads, stamps
and announces; a role edit revokes and then grants row by row; an audited statement
reads before, runs, reads after and logs.

*Refusals.* A handler that throws changes nothing and is simply not enabled;
the exception is the nightly run, where a refusal ends the run (`RunRefused`).

*Data.* Days are numbers, money small naturals, an instalment a model value with
constants for its contract, due date and amount. A payment's allocation is any
that fills older due dates first, which includes the code's tie-break by sequence
and id; batches of numbers are likewise any that follow due dates. The credit a
payment leaves is not kept, as nothing modelled reads it. A settlement's net is
the count of its charges less its credits, one unit each. The ledger is a set
(in `Cases` a function from keys to the sum first posted), which is what its unique
key with `skipDuplicates` makes of it. A password is its number, a row under audit
the number of the statement that last wrote it. What is typed is one of a few
classes of text, each with one spelling (`Handlers` lists them), so that a parser
is a function of the class: what it keeps, reads as nothing, or refuses. `Terms` and
`Identifiers` compute with real dates, fils and digits.

*Screens.* `Handlers` has, for every action that reads a form, the permission it
asks for and what becomes of each field; `Forms` what a browser can send it and
what an edit form shows of its row; `Pages` what each page shows, beside what the
handler behind each control accepts of the same record. They are compared, and the
exceptions are listed in the properties, so that they are exact both ways.

*Nightly run.* `RunStart` lists the live contracts with something due;
`RunIssue` visits each in a transaction of its own, whatever its status is by
then, with the day the run started on; `RunOverdue` is one statement over all
instalments; `RunList` and `RunRefresh` bring contracts to Overdue. The process
may die between any two (`RunCrash`), and `Midnight` may fall anywhere. Two runs
may overlap (cron's and one started by hand). In `Supplier` the run goes on with the
payables, `RunRead` and `RunWrite` for each contract.

## 3. Runs

| Run | Instance | What it shows |
|---|---|---|
| `custody` | one car, a rental and a lease-to-own on it, two staff | one live contract per car (INV-9), a car out only on a live contract of its type, no open reckoning at the end, only legal moves, a car misplaced only by a request that was overtaken, refinement of `CarHolding` |
| `billing` | two contracts, two months, one run, one crash, three days, fair | payments land on what is owed (INV-3), an ended contract earns only what it reached, everything due is issued and what is late becomes Overdue |
| `billing_fines` | one contract, one month, two fines, a settlement line, two staff, three days | gapless numbers, revenue is what was issued and not waived (INV-4), Overdue only while money is lacking, refinement of `InvoiceBook`, with recoveries of both fines at once and with what `recoverFine` and `settleSettlement` read before they write. Without `LockContract` the second and third fail |
| `billing_runs` | two contracts, one of which the ledger refuses, two overlapping runs, one crash, three days | Overdue only while money is lacking (`OverdueIsOwed`), however runs overlap and whatever they are refused |
| `night` | suppliers: one lease with two payables, two staff, two runs, one crash, two days. Mail: one notice, two persons, one worker taking one at a time, one death, one bounce. Papers: two of them, two offices, one scanner, three days, one fault | what is paid and booked is what was paid and raised (INV-11, INV-12), nothing is raised after the end, what is due is raised, refinement of `Payables`; the delivery log is true, a second mail needs a fault, nobody is stranded; one paper is current, a lapse is announced |
| `desk` | see below | what staff do by hand two requests at a time, the screens they do it on and the figures worked out for them |

`desk`'s parts and what is asked of each:

| Part | Instance | Property |
|---|---|---|
| `odometer`, `diagram` | one car, one contract, two forms, a mark, a service record, two staff, readings 0 and 1 | `OneFigureEachWay`; `OnlyOvertakenUndoes`: the odometer goes back, or a signed form changes, only by a request that was overtaken |
| `fines`, `crashes`, `covers` | one of each, amounts 0 to 2, two staff | `MoneyIsBooked`; `OnlyOvertakenDisagrees`: case and ledger come to disagree only by a request that was overtaken |
| `leads` | two leads with one telephone number, two quotations each, two staff | `StagesAreEarned` |
| `audit` | one row, two clients, three versions, one fault | `NothingElseIsForgotten`: no version is without its audit row, but for failures and what was written out of the base client's sight |
| `access` | two managers of one role, three permissions | `AccessIsAsSet`, `OnlyOvertakenShutsOut`: a role is what was saved; nobody is left to manage only by a role edit or an overtaken request |
| `lockout`, `sessions` | one account, two browsers, four half seconds and a lock of two, two wrong passwords lock | sessions follow the password; a count is lost or a lock lifted only by an overtaken attempt |
| `deals` | an owned car and a supplier's, the classes of text that tell the rules apart | `ScreensAgree`: what is accepted was previewed as it is written, a deal is of its car, counts what is on screen but for one field, and is priced or it is said why not |
| `figures` | the sheets in `MCDesk`: schedules, deals, splits, weights, roundings, kilometres, services, statements, ledgers, expenses, collections, identifiers, every form and page | `FiguresAreExact`, `ReportsAgree`, `ScreensAgree` |

Six more runs each show a statement of the repository that the code does not
keep (section 6).

*Why the bounds suffice.* Handlers conflict in pairs, so two staff, or one staff
and one run, reach every conflict of two; one car with two contracts of different
types makes every pair of handlers meet on the same rows. Two months (one of two
units, so that it can be part-paid) and three days give due, late and not yet
due at once and a midnight on either side of a run. One crash suffices to lose a
night's list, since the next run starts from the tables alone. A run that is not
crashed serves a list of two, which is what it takes for one contract to be
behind another. A payable of one unit and one of two can be part-paid, paid before
it is raised and paid while it is raised. Two forms are what it takes to discard one
and write another of the same kind; two readings to have an older and a newer; two
quotations to have a latest that is not the one read; an amount of zero, one
and another to have nothing, a sum and a different one. Two fines of one contract, with a
month due beside them, give two recoveries something to claim both. With one notice a
delivery batch is never full of others' failures: who waits behind a full batch is not
exercised. A cookie's second is two
units of time, so that two events can share one. Sheets take month ends around
February, leap and plain, amounts that do and do not divide, zero and negative ones,
and for identifiers every single-digit slip and adjacent exchange. `MaxDay`,
`Amount`, `MaxCrashes` and the like, and the finite sets of rows, are the only
bounds, and are constants. With `Fine = {}`, `Staff = {}` or `Run = {}` a billing
run leaves those handlers out, which is where the statement would be one of section
6; every action fires in some passing run. `desk` uses symmetry over staff and over
forms, `billing_fines` over staff and over the two fines, which share a contract and an
amount: they check no liveness, and no property or initial state tells two of these
apart. `CHECK_DEADLOCK FALSE` appears where the modelled system may
really stop: all contracts ended, the last day reached, nothing left to recover,
or a sheet, which has no steps.

"Only a request that was overtaken" is a property, not an excuse: it says that
every sequence of requests that do not overlap keeps the statement, and that
exactly the unprotected writes can break it. The statement itself, which the code
does not keep under a race, stands at the end of its module.

*Fairness.* `FairSpec` of `Billing` is weak fairness on each run's `RunStep` and on
nothing else: cron starts a run every night, also after the last day modelled, and a
process that is not killed goes on. `RunCrash` is not fair and is bounded:
without a bound a run could die every night, and nothing would be issued. `night`
assumes the same of the suppliers' run, of the delivery worker and of the scanner,
each in its part, and that a payment whose transaction has begun ends (the
database commits it or rolls it back, and it holds a row the run waits for). Deaths,
bounces and faults are not fair and are bounded. Nobody is assumed to pay, waive,
terminate or answer, and midnight is not fair.

## 4. Proofs

For every value of the constants (any contracts, cars, payables, cases, leads, papers,
clients, roles, staff, runs, finite set of lines), from named assumptions that say that
the constants are functions, sets and numbers of the right types and that different
things have different names: `CustodyAssumption`, `BillingAssumption`,
`SupplierAssumption`, `VehicleFileAssumption`, `NightAssumption`, `DeskAssumption`. TLC
evaluates all six. Two hypotheses go further, and stand in the theorems they are of:
`Fine = {}` (no fine is recovered) in `EndedEarnsWhatWasReached`, without which it fails
(section 6), and `Alone` (one delivery worker at a time), without which a person can be told twice and no
fault be to blame. `SumsAreMoney` and `QuotesAreCounted` are parts of `DeskAssumption`.

`CustodyProofs`. The inductive invariant `CustodyInv` adds to the type invariant
the three safety properties and what makes them inductive: at most one
running transaction holds a contract's lock (`LockExcludes`), and what a handler
has read is still good enough when it writes (`ReadsStand`): a termination's
contract is still live with no open settlement, and every move decided on is an
edge from the status the handler will compare with. Why it holds: the
index refuses a second live contract, the compare-and-set refuses a car that is
not where it was read, and a hand move can reach neither Rented nor Lease-to-own.
From it: `CarOnOneContract`, `OutCarHasContract`, `NoOpenReckoningAtTheEnd`, then
`OnlyLegalMoves` and `CarAndContractTogether` (every write is an activation, a
termination or a move, `WriteEffect`), `MisplacingNeedsARace` (a car is deleted under
a live contract, or of the wrong ownership for one, only by a request whose reading
no longer holds: the same `ReadsStand` says that a reading that holds allows
neither), and `CustodyImplementsCarHolding`.

`BillingProofs`. `StepEffect` says once what any step does to the books: it
issues a set of unnumbered lines with the next numbers and one entry each,
reverses one numbered line, or leaves them alone; and to the rows: what may become
of a line's amount paid, waiver and existence. `BillingInv` is preserved by any
step with such an effect. It adds to the stated properties that only a waived
line is reversed, that a line not yet written is blank, that a draft has no
schedule, and that what a recovery has read is a set of written lines. From it:
`NumbersAreGapless`, `RevenueComesWithInvoice`, `PaymentsLandOnWhatIsOwed`,
`BillingImplementsInvoiceBook`.

`SupplierProofs`. A payment writes what it read plus its amount, and a run raises
what it read, so none of the properties is inductive. `SupplierInv` adds that a
payable has one running payment (`OnePayerEach`) whose reading still holds
(`PaymentsStand`), that what a run is about to raise is still on the books of the
contract it locked (`RaisesStand`), that a draft is blank and that an ended contract
keeps only what it had raised. Each lock gives one of these, and neither needs the
other: the payable's row keeps `PaymentsStand` under terminations, the contract's
`RaisesStand`. From it: `PaidIsThePayments`, `CostIsTheRaised`, `NoCostAfterTheEnd`
(a run that comes to an ended contract finds nothing it has not raised already) and
`SupplierImplementsPayables`.

`VehicleFileProofs`. Most handlers here write without looking again, so that little is
true of a row when it is written but what is true of every row. `VehicleFileInv` says
that of each kind one form of a contract stands (`OneStandsEach`, what the unique index
keeps: a form that is written keeps its contract and kind and, once discarded, stays so),
that what a request found was fit when it was found (`FoundFit`: a draft, a reading no
lower than the car's; only that the form was written lasts), and that marks are on
written forms. Type correctness needs `FoundFit`, as a signature writes the row its
request names. From it: `OneFigure`, and `OnlyTheOvertakenUndo`: a write
that lowers an odometer carries a figure at least as high as the one its request saw, so
that it saw another.

`BillingProofs`, last sections. Every handler that writes a line locks its contract,
keeps others from locking it, or decided on something that lasts. `StatusInv` adds
to `BillingInv` that what a recovery has read is still neither waived nor paid any further
(`ReadsHold`, from `LinesHeld`: whoever would change it waits in `LockContract`; only the
numbers may be gone, which the claim finds out), what was read in time and while
the contract lived (`ReadInTime`, `ReadWhileLive`: an open settlement holds off the
contract's end, and a contract that a run listed can end only later) and what the status
column says of the other columns, whoever wrote it (`StatusTells`). From it, with any
fines: `RevenueMatches`, `OverdueLacksMoney` and, over steps, `OnlyRecoveriesEarnLate`:
what a stale settlement or run still issues after the end fell due on the day it was read,
which was before the end, and only a recovery issues more. With no fines,
`EndedEarnsWhatWasReached` follows.

`CasesProofs`. Two requests on one case overwrite each other's columns, so that what
one read is often false when it writes; but an entry once posted stays, and a refund is
written with a cancellation that nothing undoes. `CasesInv` adds just this
(`ReadsStand`, `RefundedIsCancelled`): a request that would leave a fine at a status
with a cost either posts it or found it posted. From it `MoneyBooked`, and
`OvertakenAloneDisagrees`, by showing of each write that, if the case is as it was
read, case and entry agree afterwards when they did before.

`NightProofs`. `NightInv` is one invariant for each part, over a step of which the other
parts stand still. For the mail it counts: a message beyond a person's first is matched
by a death or a lost answer, the one being told about (`Telling`) included
(`Accounted`), which needs that what the only worker holds is still pending
(`HeldIsPending`). That what is held was claimed, and so what the log says is true, needs
no such thing: `LogCanBeBelieved` holds of any number of workers, `EveryMessageHasAReason`
of one. For papers it adds that a paper is replaced by one other (`ReplacedByOne`), that
a scan stamps only rows it saw standing (`StampsStand`) and that no two uploads are of
one paper (`UploadsApart`). From it: `OnePaperStands`, and `RevivedByAnOvertakenScan`.

`DeskProofs`. A behaviour of the desk is one of each part (`DeskIsEach`), so that the
theorems about `VehicleFile` and `Cases` hold there: `DeskOneFigure`,
`DeskMoneyIsBooked`, `DeskDisagreesOnlyWhenOvertaken`. The others are proved on the
spot. *Leads*: `LeadsInv` adds that nobody moves a lead by hand onto a stage that is
earned, or off one that had been contracted when it was read; from it
`LeadsStagesEarned`. *Audit*: nothing is forgotten, when it is quiet, because at
any other time what stands or may come to stand has its audit row or a call that will
write it (`CommittedIsTold`, `OwnIsTold`); a call that goes by what it finds after the
statement finds a newer version than the one it saw before, as versions grow
(`VersionsGrow`). *Access*: while one administrator edits a role, what the role holds
follows from what is left to write (`HalfDone`); nobody switches their own account
(`OthersOnly`), so a manager who still is one survives their own request. *Sign-in*
(`DoorInv`): nothing is dated later than now, an attempt found no lock, whoever knows a
password knows one that was there, and a session of the present one began after it
came. Rounding both dates down to the second keeps their order (`SecondsInOrder`).
*Deals* (`DealsInv`): the type and ownership on screen are the car's. From these:
`DeskStagesAreEarned`, `DeskForgetsNothingElse`, `DeskAccessIsAsSet`, `DeskShutsOutOnlyWhenOvertaken`,
`DeskDealsAgree` (for any fleet and anything typed) and `DeskTypeCorrect`.

*Figures*: each sheet is shown to be an input of a theorem of `FiguresProofs` (its ledgers
are ledgers, its terms terms that can be signed), and the sheet never changes, hence
`DeskReportsAgree` and `DeskFiguresExact`. The theorems themselves say more, as they are
about every input and not only those of the sheets.

*Screens* (`DeskScreensAgree`): every form (`FormsAgreeAll`), control, move and link is gone
through, and its exceptions are shown to be the ones named. A form agrees
when each of its fields does (`Fair`): what its reader makes of what the box sends is kept or
refused, and nothing the form leaves out is required (`TextFits`, `NumbersFit`,
`ChoicesFit` for a pair of box and reader, then one lemma per form); an edit form sent back
untouched changes the row only in the fields listed (`Untouched`). A page's controls are
those a handler takes from someone who has what it asks for, but for a list withheld and a
list refused, each with the record that shows it (`RefusedAre`, `WithheldAre`). That no page
shows a control its viewer lacks the permission for holds of every set of permissions and not
only of the default roles: `NoButtonTurnsAway`. Links are dead for a role where their own part of
the page asks for less than the door they lead to (`DeadLinksAre`), and every permission of
the catalogue but the four named is asked for somewhere (`PermissionsAreAskedAll`).

`FiguresProofs`. Nothing here has a state; what is hard is that figures are sums, over
shares, instalments, ledger entries, digits. An operator cannot be handed to the library's
induction theorems, but a set can: among the subsets of a finite set for which a statement
fails there would be a smallest one (`SmallestSubset`, `SmallestNumber`), and so the laws
of sums are proved once (one element taken out, two parts put together, a sum sorted by a
function of its terms, two sums compared) and every report, split and statement goes by
them. A fold over a sequence, such as the remainder an IBAN leaves by 97, is a function that
the library chooses by an equation; that one exists is shown first (`Mod97Exists`), and then
it is unfolded one digit at a time (`Mod97Runs`).

- *Money.* Rounding (`RoundingFair`) rests on the division of its magnitudes, and VAT on
  being twice the nearest. A split (`SplitExact`) is a run of whole shares with the remainder
  dealt to the first; by weights (`WeightsExact`), what truncation leaves is the sum of the
  remainders, fewer fils than there are shares that lost some, so that each
  of them gets at most one and a share of no weight none.
- *Contracts.* The calendar: `AddMonths` lands in the month it counts to, on the same day
  or the month's last (`MonthsOn`), so that the day before a later period begins is never
  before an earlier one does (`PeriodsInOrder`), from the 31st of January or the 29th of
  February as from any day. With it `MonthsAsDealt`; with sums, `ScheduleIsDeal`: the
  instalments of a contract of any length come, to the fil, to what the calculator
  said. `DealSums` rests on a yearly cost spread over months never being less for a longer
  term (`NeverLessForLonger`). Terms are as they can be signed, with VAT of five per cent.
- *Books.* `LedgerAddsUp`: the rows of a report part the ledger, whatever the dimension, and
  each column is a sum over a part. `StatementsClose`: what is before a range and what is in
  it part the movements. `CollectionsMeet`: what is overdue by its status, by its date and by
  its contract is one set. `ExpensesLand`: an expense is in the rows of what it was incurred
  for alone. The hypotheses (`IsLedger`, `IsBook`, `IsExpense`, `IsInstalment`) are what the
  schema says of a row.
- *Identifiers.* A slip changes a weighted sum by a difference of one or two terms, which
  must not be a multiple of ten (Emirates ID), eleven (VIN) or 97 (IBAN): for the first two
  the terms are compared digit by digit; for the third two readings are followed side by
  side (`Drifts`): once apart they stay apart while they agree (`StaysApart`), as ten has an
  inverse modulo 97. The country and check come last in the reading, so that one exchange
  of neighbours is of digits far apart there (`EndsSwapped`).
- *Kilometres and services*: `MilesFair`, `ServiceForetold`.

Only model-checked: liveness (`DueIsIssued`, `LateIsOverdue`, `DueIsRaised`,
`NobodyIsStranded`, `LapseIsAnnounced`), as liveness under fairness and ENABLED are out of
the prover's reach. Every other property of a passing run is stated by a theorem.

## 5. What is not modelled

`PROJECT.json` gives the reason for every component.

- *Search, lists and paging, the sales funnel, the fleet's counts*: read-only
  queries whose content is order, ranking or wording. Section 6 records what was
  noticed in reading them.
- *Reconciliation* (`reconcile.ts`): read-only; its invariants are the properties of
  `Custody`, `Billing` and `Supplier`.
- *Printed documents, exports, layout, wording, formatting and parsing of amounts
  character by character, the drawing of the car's diagram*: presentation.
- *Seeds and scripts, storage and mail clients, password hashing*: data and libraries.
  What an adapter's answer means to its caller is in `Outbox` and `Papers`.
- *The reminder that a service is due*: raises a notification under a unique key as the
  expiry scan does; when it is due is in `Terms`.
- *`setFinePayer`, preferences of a user*: one column that nothing modelled reads.
- *Within `Billing`*: receipts and the credit of a payment, the date and amount of
  each line (constants there, computed in `Terms`), status-change rows, and
  soft-deleted contracts (nothing deletes one). Fines are recorded and moved in
  `Cases`, the supplier's side is in `Supplier`.

Two hazards have no property, and `PROJECT.json` says why: a settlement line written
while the settlement is being settled (which is modelled, and does go wrong), and two
delivery workers at once (section 6).

Two limits of what is checked. The parts of `night` and of `desk` are checked one by
one, not together: a car's file, its cases and its contracts share a car but no
column both write, except its status, which `Custody` has and `VehicleFile` does not
read. And liveness is claimed of the worker's jobs only: after a hand move to
Available, Returned or the workshop no return status is reachable and
`terminateContract` refuses until staff move the car back, and nothing is assumed of
staff.

## 6. Disagreements found

| Run | The repository says | The code does |
|---|---|---|
| `v_stray` | a live contract's car is not sitting available, sold or inactive (`reconcile.ts:100`) | a hand move looks at no contract (`fleet.ts:136`) |
| `v_recoveries` | callers of `issueDueForContract` hold the contract's lock, where a second caller waits (`contracts.ts:260`, `:96`) | `recoverFine` does not take it (`fines.ts:275`): two recoveries on one contract read the same due instalments, and the second fails when it claims what the first has numbered. Nothing is billed twice |
| `v_cancelled` | a cancelled month was never invoiced, as the contract had ended (`schema.prisma:656`) | a payment on a completed contract is spread over cancelled months too (`contracts.ts:553`) |
| `v_ended` | a contract cancelled early never posts the months it did not reach (`contracts.ts:11`) | a fine recovered later issues them (`fines.ts:275`, `contracts.ts:266`) |
| `v_free` | one failure does not hold up the rest (`contracts.ts:454`) | the loop catches nothing, and an instalment of nothing is refused by the ledger each night (`contracts.ts:472`) |
| `v_audit` | an audit row cannot be forgotten (`audit/extension.ts:6`) | in a transaction an `updateMany` is re-read through another connection, which does not see it, and leaves no row (`audit/extension.ts:231`) |

*Stated in the modules, not kept under a race or a fault, and not run.* Each is a
definition at the end of its module, which anyone can put into a configuration.

- `Outbox!NobodyIsToldTwice` (`deliveries.ts:12`: two workers at once cannot produce two
  emails): deliveries are found, not claimed, and marked after they are sent.
- `VehicleFile!MileageNeverFalls` (`handovers.ts:11`, `maintenance.ts:79`): a signature or
  a service writes a reading over a newer one.
- `Cases!PaidCanBeRecharged` (`core/fines/status.ts`): undoing a recovery leaves the
  fine's instalment and its unique charge key, so it cannot be charged again.
- `Supplier!OverdueIsNotFullyPaid` (`supplier-invoices.ts:135`): raising computes the status
  from a paid amount that a payment has changed since (`:88`).
- `Papers!RowsHaveTheirBytes` (`documents/actions.ts`): an upload whose later step
  fails deletes the file of a row that stands.
- `Leads!LatestQuoteIsContracted`, `Leads!OneCustomerPerMobile` (`leads.ts:241`): the
  quotation and the customer are read before the transaction.

*Asserted exactly by `ScreensAgree`*, with every exception listed in `Pages`, `Forms` and
`Calculators`:

- Offered and refused: going live with a car that is taken, ending with a car that has
  strayed, a handover on a draft or an ended contract (after it has been filled in), a
  return of a contract cancelled early (although `handovers.ts:58` wants it told), deleting
  a car that is out, a document type in use.
- Accepted and not offered: payments, supplier payments and waivers after the end
  (`page.tsx:263` against `contracts.ts:549`), ending without a settlement
  (`settlements.ts:297`), photographs on a signed form, the odometer of a sold car, a
  policy that has run out, a quotation with no car free.
- Moves the machines make and no card offers: a dispute dropped, a recovery or waiver
  undone (`fines-card.tsx:13` says its controls are taken from the machine), an accident
  closed at once, a repair sent back, a claim withdrawn, or refused after approval.
- Links that lead where their reader may not go: the funnel for who sees leads and no
  reports; a supplier for sales; a lead for finance and operations. Four permissions open
  nothing: `lead.delete`, `contract.update`, `contract.delete`, `payment.delete`.
- Asterisks that mislead (`Forms!Misled`): a field marked required that is read as zero
  when blank, or required and not marked.
- Edits that lose something though nothing was touched: a lead's car that has gone out
  since, or its salesperson, deactivated since; a leased-in car whose supplier was removed
  cannot be saved; the seeded categories of photographs and police reports are refused by
  their own form, and one loses an owner (`document-categories/actions.ts:137`); a category
  for insurance policies alone can be uploaded nowhere.
- The deal calculator counts a one-off cost, or complains of it, after the deal has
  become a rental and the field is gone (`deal-calculator.tsx:128` against `:255`).

*Noticed in reading, and not modelled.* Raising a payable that was prepaid is fine, but one
prepaid and never raised makes `terminateContract` throw on a foreign key. `createMany`
passes the audit extension by. A car with a draft contract may be soft-deleted and still
be activated; customers and suppliers are soft-deleted without a look at their live
contracts. The comment on `netFromGross` (`schedule.ts`) is false for a gross of 10 fils.
The contract page's outstanding total counts cancelled instalments; the profitability
page's break-down by category ignores its filters. A handover's time is parsed by the
server's clock. The notifications page lists unread ones last (`readAt asc`) and counts
only those on the page; a fractional `?page=` makes a fractional `skip`. In `search.ts` a
minimum score of 0.22 excludes nothing, and a fuzzy hit can outrank an exact one.

## 7. Plan

What remains, in order.

1. Proofs: the abstract channel of item 3.
2. `Custody` and `Billing` composed on one contract row, with fines and
   reclassification, for the settlement lines.
3. Two delivery workers, against an abstract at-least-once channel.
4. The lists: what a page, a filter and an order leave out.
