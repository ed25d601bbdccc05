-------------------------------- MODULE MCDesk --------------------------------
(***************************************************************************)
(* What is done by hand during the day, for TLC: a car's file (the module  *)
(* this one extends), fines, accidents and policies, the sales pipeline,   *)
(* who may sign in and do what, the audit log under them all, the screens  *)
(* that price a deal as it is typed, and the figures, forms and pages that *)
(* are a matter of one input at a time.  They share no state, so a         *)
(* behaviour is of one of them, `part`, and the others stand still.  A     *)
(* behaviour of "figures" is one input, `sheet`, and has no steps.  A      *)
(* car's file is two parts, the forms with the odometer and the workshop,  *)
(* and the forms with the marks on their diagrams; fines, accidents and    *)
(* policies are three; signing in is two, wrong passwords and the lock,    *)
(* and sessions.                                                           *)
(***************************************************************************)
EXTENDS VehicleFileProofs, TLC

CONSTANTS Fine, Accident, Policy, Amount
CONSTANTS Lead, Mobile, MaxQuotes
CONSTANTS Row, Client, MaxVersion, MaxFaults
CONSTANTS Role, RoleOf, Permission, MaxTime, MaxPassword, MaxFailures, MaxAttempts, Lockout, Ttl
CONSTANTS Car, OwnerOf, FleetCost, Texts
CONSTANTS c1, car1, ann, bob, h1, h2, dent, r1, f1, a1, i1, l1, l2, m1, row

VARIABLES fine, linked, charged, accident, repair, claim, received, policy, refund, books, deed
VARIABLES lead, mobile, quotes, deal, customers, errand
VARIABLES table, own, mode, call, log, version, blind, faults
VARIABLES user, grants, admins
VARIABLES instant, login, cookie, attempt
VARIABLES screen, chosen, dealType, dealOwner, typed
VARIABLES part, sheet

file == vars
fines == <<fine, linked, charged>>
crashes == <<accident, repair, claim, received>>
covers == <<policy, refund>>
cases == <<fines, crashes, covers, books, deed>>
leads == <<lead, mobile, quotes, deal, customers, errand>>
audit == <<table, own, mode, call, log, version, blind, faults>>
access == <<user, grants, admins>>
door == <<instant, login, cookie, attempt>>
pricing == <<screen, chosen, dealType, dealOwner, typed>>

OneCar == [c \in Contract |-> car1]
OneRole == [s \in Staff |-> "manager"]

(* A car of the company and one of a supplier, and what is typed of them.  *)
OwnerOfDeal == [owned |-> "COMPANY_OWNED", leased |-> "B2B_SUPPLIER"]
CostOnFile == [owned |-> "large", leased |-> "large"]
DealTexts == [
  durationMonths |-> {"blank", "whole", "large"}, startDate |-> {"blank", "date"},
  monthlyRental |-> {"blank", "negative", "zero", "whole"},
  vehicleOneOffCost |-> {"blank", "word", "negative", "whole"},
  downPayment |-> {"blank", "word", "negative", "whole"},
  buyout |-> {"blank", "word", "zero", "whole"}, annualInsurance |-> {"blank", "zero"},
  vehicleMonthlyCost |-> {}, annualInsuranceCost |-> {}, maintenance |-> {}, otherCosts |-> {}]

K == INSTANCE CasesProofs WITH ledger <- books, request <- deed
L == INSTANCE Leads WITH contract <- deal, request <- errand
A == INSTANCE Audit
T == INSTANCE FiguresProofs
U == INSTANCE Access WITH User <- Staff, account <- user, running <- admins
G == INSTANCE SignIn WITH Browser <- Staff, now <- instant, account <- login, session <- cookie
Q == INSTANCE Calculators WITH type <- dealType, ownership <- dealOwner
F == INSTANCE Forms
P == INSTANCE Pages

(* The bounds are numbers; sums are of money, a penalty's one unit among   *)
(* them; a role is one there is, and so are a car's owner, what the fleet  *)
(* knows of its cost and what is typed.                                    *)
ASSUME DeskAssumption ==
  /\ Amount \subseteq Nat /\ 1 \in Amount
  /\ MaxQuotes \in Nat
  /\ MaxVersion \in Nat \ {0} /\ MaxFaults \in Nat
  /\ RoleOf \in [Staff -> Role]
  /\ MaxTime \in Nat /\ MaxPassword \in Nat /\ MaxFailures \in Nat /\ Lockout \in Nat
  /\ OwnerOf \in [Car -> Q!Ownerships] /\ Q!None \notin Car
  /\ FleetCost \in [Car -> Q!Typed \cup {"blank"}]
  /\ Texts \in [Q!Fields -> SUBSET (Q!Typed \cup {"blank", "date"})]

Alike == Permutations(Staff) \cup Permutations(Form)

-----------------------------------------------------------------------------
(* The inputs the figures are computed from. *)

(* Month ends, leap and plain, where dates are hard. *)
Starts == {<<2023, 1, 31>>, <<2024, 2, 29>>, <<2023, 11, 30>>, <<2024, 3, 1>>}
Days == {<<2024, 1, 31>>, <<2024, 2, 29>>, <<2024, 3, 1>>}

TermSheets ==
  [of : {"schedule"}, start : Starts, months : {1, 11, 12, 13, 25}, rental : {7, 3400},
   insurance : {0, 13, 2500}, downPayment : {0, 5}, buyout : {0, 1000}, vat : {500}]

DealSheets ==
  [of : {"deal"}, type : {"RENTAL", "LEASE_TO_OWN"}, ownership : {"OWNED", "B2B_SUPPLIER"},
   months : {0, 1, 13, 121}, rental : {0, 7, 3400}, vehicleCost : {0, 3000}, maintenance : {0, 11},
   insurance : {0, 2501}, insuranceCost : {0, 13}, downPayment : {5}, buyout : {0, 1000},
   oneOffCost : {0, 9}, otherCosts : {-1, 3}]

Invoice(w, d) == [id |-> 1, due |-> <<2024, 1, 31>>, gross |-> 10, waived |-> w, waivedAt |-> d]
Second == [id |-> 2, due |-> <<2024, 2, 29>>, gross |-> 5, waived |-> FALSE, waivedAt |-> <<2024, 3, 1>>]

Statements ==
  {[of |-> "statement", invoices |-> {Invoice(w, d), Second},
    payments |-> {[id |-> 1, receivedOn |-> d, amount |-> a], [id |-> 2, receivedOn |-> e, amount |-> 3]},
    from |-> f, to |-> t] :
      w \in BOOLEAN, d \in Days, e \in Days, a \in {4, 10}, f \in Days, t \in Days}

(* Two contracts, one of each kind, on one car after the other. *)
Signed2 ==
  [k1 |-> [type |-> "LEASE_TO_OWN", vehicle |-> "v1", customer |-> "u1"],
   k2 |-> [type |-> "RENTAL", vehicle |-> "v1", customer |-> "u2"]]

Entry(id, month, category, amount, vehicle, contract_) ==
  [id |-> id, month |-> month, category |-> category, amount |-> amount, vehicle |-> vehicle,
   direction |-> IF category \in {"cost.supplier", "cost.other"} THEN "COST" ELSE "REVENUE",
   contract |-> contract_,
   customer |-> IF contract_ = T!Unassigned THEN T!Unassigned ELSE Signed2[contract_].customer,
   supplier |-> IF category = "cost.supplier" THEN "s1" ELSE T!Unassigned]

Ledgers ==
  {{Entry(1, 1, "revenue.rental", 10, "v1", "k1"),
    Entry(2, m, a, 3, "v1", c),
    Entry(3, n, b, 2, v, IF v = "v1" THEN "k2" ELSE T!Unassigned),
    Entry(4, 2, "cost.supplier", 6, "v2", T!Unassigned)} :
      m \in 1..2, n \in 1..2, c \in {"k1", "k2"}, v \in {"v1", "v2", T!Unassigned},
      a \in {"revenue.insurance", "cost.other"}, b \in {"revenue.buyout", "cost.other"}}

Ranges == {range \in (0..2) \X (0..2) : range[1] <= range[2]}

Expenses ==
  [id : {1}, month : {1}, allocation : {"VEHICLE", "CONTRACT", "COMPANY"},
   vehicle : {"v1", "v2"}, contract : {"k1", "k2"}, net : {0, 5}]

Today == 3

Instalments(c) ==
  {i \in [contract : {c}, due : {1, 3, 4}, issued : BOOLEAN, waived : BOOLEAN, gross : {2}, paid : 0..2,
          status : {"UPCOMING", "DUE", "PARTIALLY_PAID", "OVERDUE", "PAID", "WAIVED"}] :
     T!WasRight(i, Today)}

(* As typed: short and long serials, letters of every weight.              *)
Vins ==
  {[i \in 1..17 |-> IF i = 9 THEN 0 ELSE IF i > 11 THEN (i * n) % 10 ELSE letter] :
     n \in {1, 7, 9}, letter \in {1, 10, 20, 25, 35}}

SplitSheets == [of : {"split"}, total : -30..30, parts : 1..12]

WeightSheets ==
  [of : {"weights"}, total : {-7, 0, 100}, ratios : [1..3 -> {0, 1, 3}] \ {[i \in 1..3 |-> 0]}]

RoundingSheets == [of : {"rounding"}, n : -200..200, d : 1..12]

MileSheets ==
  [of : {"miles"}, out : 0..4, back : 0..4, allowance : {T!NoLimit, 0, 2}, rate : 0..2]

ServiceSheets ==
  [of : {"service"}, markers : [day : {T!NoLimit, 20}, km : {T!NoLimit, 1000}], today : 0..25,
   odometer : {499, 500, 501, 1000, 1001}]

LedgerSheets ==
  [of : {"ledger"}, ledger : Ledgers, range : Ranges, type : {T!AnyType, "RENTAL", "LEASE_TO_OWN"}]

ExpenseSheets == [of : {"expense"}, expense : Expenses]

CollectionSheets ==
  {[of |-> "collections", items |-> {i, j}, live |-> live] :
     i \in Instalments("k1"), j \in Instalments("k2"), live \in {{"k1"}, {"k1", "k2"}}}

PersonSheets == [of : {"person"}, index : 0..11, year : {50, 99}]
VinSheets == [of : {"vin"}, vin : Vins]
FormSheets == [of : {"form"}, name : DOMAIN F!AllForms]
PageSheets == [of : {"page"}, name : {"controls", "moves", "links"}]

SheetInit ==
  \/ sheet \in TermSheets \/ sheet \in DealSheets \/ sheet \in SplitSheets
  \/ sheet \in WeightSheets \/ sheet \in RoundingSheets \/ sheet \in MileSheets
  \/ sheet \in ServiceSheets \/ sheet \in Statements \/ sheet \in LedgerSheets
  \/ sheet \in ExpenseSheets \/ sheet \in CollectionSheets \/ sheet \in PersonSheets
  \/ sheet \in VinSheets \/ sheet \in FormSheets \/ sheet \in PageSheets

-----------------------------------------------------------------------------

NoSheet == [of |-> "none"]
Parts == {"odometer", "diagram", "fines", "crashes", "covers", "leads", "audit",
          "access", "lockout", "sessions", "deals", "figures"}

DeskInit ==
  /\ part \in Parts
  /\ Init /\ K!Init /\ L!Init /\ A!Init /\ G!Init
  /\ Q!Init /\ (part # "deals" => screen = "deal")
  /\ U!Init /\ (part # "access" => \A s \in Staff : user[s] = "ACTIVE")
  /\ part # "audit" => \A r \in Row : table[r] = 0
  /\ IF part = "figures" THEN SheetInit ELSE sheet = NoSheet

(* The requests that members of staff are running after the step.          *)
Running == {request[s].op : s \in Staff}
Diagram == {"mark", "unmark", "photograph"}
Workshop == {"read", "service"}

DeskNext ==
  /\ UNCHANGED <<part, sheet>>
  /\ \/ /\ part = "odometer" /\ UNCHANGED <<cases, leads, audit, access, door, pricing, mark, photos>>
        /\ Next /\ Running' \cap Diagram = {}
     \/ /\ part = "diagram" /\ UNCHANGED <<cases, leads, audit, access, door, pricing>>
        /\ Next /\ Running' \cap Workshop = {}
     \/ /\ UNCHANGED <<file, leads, audit, access, door, pricing>>
        /\ \/ part = "fines" /\ UNCHANGED <<crashes, covers>>
           \/ part = "crashes" /\ UNCHANGED <<fines, covers>>
           \/ part = "covers" /\ UNCHANGED <<fines, crashes>>
        /\ K!Next
     \/ part = "leads" /\ UNCHANGED <<file, cases, audit, access, door, pricing>> /\ L!Next
     \/ part = "audit" /\ UNCHANGED <<file, cases, leads, access, door, pricing>> /\ A!Next
     \/ part = "access" /\ UNCHANGED <<file, cases, leads, audit, door, pricing>> /\ U!Next
     \/ /\ part \in {"lockout", "sessions"} /\ UNCHANGED <<file, cases, leads, audit, access, pricing>>
        /\ G!Next
        /\ \/ part = "lockout" /\ UNCHANGED cookie
           \/ part = "sessions" /\ login'.failed = 0
     \/ part = "deals" /\ UNCHANGED <<file, cases, leads, audit, access, door>> /\ Q!Next

DeskSpec == DeskInit /\ [][DeskNext]_<<part, sheet, file, cases, leads, audit, access, door, pricing>>

(* Type correctness of all of them; what stands still is as it began. *)
DeskTypeOK ==
  CASE part \in {"odometer", "diagram"} -> TypeOK
    [] part \in {"fines", "crashes", "covers"} -> K!TypeOK
    [] part = "leads" -> L!TypeOK
    [] part = "audit" -> A!TypeOK
    [] part = "access" -> U!TypeOK
    [] part \in {"lockout", "sessions"} -> G!TypeOK
    [] part = "deals" -> Q!TypeOK
    [] part = "figures" -> TypeOK /\ K!TypeOK /\ L!TypeOK /\ A!TypeOK /\ U!TypeOK /\ G!TypeOK
                             /\ Q!TypeOK

(* What the ledger says of fines, repairs, claims and refunds: see Cases. *)
MoneyIsBooked == part \in {"fines", "crashes", "covers"} => K!MoneyIsBooked
OnlyOvertakenDisagrees == K!OnlyOvertakenDisagrees

(* What the funnel counts: see Leads. *)
StagesAreEarned == part = "leads" => L!StagesAreEarned

(* What the audit log holds, and what is said of it: see Audit. *)
NothingElseIsForgotten == A!NothingElseIsForgotten
NoneIsForgotten == A!NoneIsForgotten

(* Who may do what, and whose sessions work: see Access and SignIn. *)
AccessIsAsSet ==
  /\ part = "access" => U!EditIsExact
  /\ part = "sessions" => G!SessionsFollowThePassword
OnlyOvertakenShutsOut == U!OnlyOvertakenLocksOut /\ G!OnlyOvertakenForgets

(* The figures of a contract, exact to the fil on every input: see Terms. *)
FiguresAreExact ==
  CASE sheet.of = "split" -> T!SplitIsExact(sheet.total, sheet.parts)
    [] sheet.of = "weights" -> T!WeightsAreExact(sheet.total, sheet.ratios)
    [] sheet.of = "rounding" -> T!RoundingIsFair(sheet.n, sheet.d)
    [] sheet.of = "schedule" -> T!ScheduleIsTheDeal(sheet)
    [] sheet.of = "deal" -> T!DealAddsUp(sheet)
    [] sheet.of = "miles" -> T!MilesAreFair(sheet.out, sheet.back, sheet.allowance, sheet.rate)
    [] sheet.of = "service" -> T!ServiceIsForetold(sheet.markers, sheet.today, sheet.odometer)
    [] sheet.of = "statement" -> T!StatementCloses(sheet, sheet.from, sheet.to)
    [] sheet.of = "person" -> /\ T!EmiratesIdCatchesSlips(sheet.index, sheet.year)
                              /\ T!IbanCatchesSlips(sheet.index) /\ T!MobileIsOne(sheet.index)
    [] sheet.of = "vin" -> T!VinCatchesSlips(sheet.vin)
    [] OTHER -> TRUE

(* Every way of reading the books tells the same story: see Reports. *)
ReportsAgree ==
  CASE sheet.of = "ledger" ->
         T!LedgerTellsOneStory(sheet.ledger, sheet.range[1], sheet.range[2], sheet.type, Signed2)
    [] sheet.of = "expense" -> T!ExpenseLandsOnce(sheet.expense, Signed2)
    [] sheet.of = "collections" -> T!CollectionsAgree(sheet.items, Today, sheet.live)
    [] OTHER -> TRUE

(* What the screens say is what is done: the deals they price, the forms   *)
(* they show and the buttons, moves and links they offer: see Calculators, *)
(* Forms and Pages.                                                        *)
ScreensAgree ==
  CASE part = "deals" -> Q!DealsAgree
    [] sheet.of = "form" -> F!FormsAgree(sheet.name)
    [] sheet.of = "page" -> P!PagesAgree(sheet.name)
    [] OTHER -> TRUE
=============================================================================
