---------------------------- MODULE Calculators ----------------------------
(***************************************************************************)
(* The three screens that work a deal out while it is typed: the deal      *)
(* calculator, the form of a new contract and the quotation on a lead.     *)
(*                                                                         *)
(* They run in the browser.  Choosing a car, an ownership or a type hides  *)
(* fields, fills others in or overrides what was chosen before, and what   *)
(* is hidden keeps its text.  The deal calculator sends nothing; the other *)
(* two preview a schedule and send what is on screen to their handlers.    *)
(***************************************************************************)
EXTENDS Handlers

CONSTANTS
  Car,       \* cars that can be offered
  OwnerOf,   \* the ownership of each
  FleetCost, \* what the fleet knows a car costs, by the month or to buy: blank or large
  Texts      \* bound: what is typed into each field

Sums == {"monthlyRental", "vehicleMonthlyCost", "vehicleOneOffCost", "downPayment", "buyout",
         "annualInsurance", "annualInsuranceCost", "maintenance", "otherCosts"}
Fields == Sums \cup {"durationMonths", "startDate"}

VARIABLES
  screen,     \* which of the three it is
  chosen,     \* the car, or None
  type,       \* the type last chosen
  ownership,  \* on the deal calculator, where no car need be chosen
  typed       \* the text in each field

vars == <<screen, chosen, type, ownership, typed>>

None == "none"

TypeOK ==
  /\ screen \in {"deal", "contract", "quote"}
  /\ chosen \in Car \cup {None}
  /\ type \in IF screen = "deal" THEN {"RENTAL", "LEASE_TO_OWN"} ELSE ContractTypes
  /\ ownership \in Ownerships
  /\ typed \in [Fields -> Typed \cup {"blank", "date"}]

-----------------------------------------------------------------------------

(* Figures of the car win over the choice: "A car leased from a supplier   *)
(* goes to a customer only on lease-to-own".                               *)
LeasedIn ==
  IF screen = "deal" THEN ownership = "B2B_SUPPLIER"
  ELSE chosen # None /\ OwnerOf[chosen] = "B2B_SUPPLIER"

EffectiveType == IF screen # "deal" /\ LeasedIn THEN "LEASE_TO_OWN" ELSE type

OnScreen ==
  CASE screen = "deal" ->
         (Fields \ {"startDate"})
           \ (IF type = "LEASE_TO_OWN" THEN {} ELSE {"vehicleOneOffCost", "buyout"})
    [] OTHER ->
         {"durationMonths", "monthlyRental", "downPayment", "annualInsurance"}
           \cup (IF screen = "contract" THEN {"startDate"} ELSE {})
           \cup (IF EffectiveType = "LEASE_TO_OWN" THEN {"buyout"} ELSE {})

(* A quotation opens on the car and the budget of its lead. *)
Init ==
  /\ screen \in {"deal", "contract", "quote"}
  /\ chosen \in IF screen = "quote" THEN Car \cup {None} ELSE {None}
  /\ type = IF screen = "deal" THEN "LEASE_TO_OWN" ELSE "LONG_TERM_RENTAL"
  /\ ownership = "COMPANY_OWNED"
  /\ \E budget \in IF screen = "quote" THEN {"blank", "whole"} ELSE {"blank"} :
       typed = [f \in Fields |-> CASE f \in {"durationMonths", "buyout"} -> "whole"
                                   [] f = "startDate" -> "date"
                                   [] f = "monthlyRental" -> budget
                                   [] OTHER -> "blank"]

(* "Choosing a car fills in what the fleet already knows about its cost":  *)
(* what it costs to buy only if it is to be sold.                          *)
ChooseVehicle(c) ==
  /\ screen = "deal"
  /\ chosen' = c
  /\ IF c = None THEN UNCHANGED <<type, ownership, typed>>
     ELSE LET leasedIn == OwnerOf[c] = "B2B_SUPPLIER" IN
          /\ ownership' = OwnerOf[c]
          /\ type' = IF leasedIn THEN "LEASE_TO_OWN" ELSE type
          /\ typed' = [typed EXCEPT
               !.vehicleMonthlyCost = IF leasedIn THEN FleetCost[c] ELSE "blank",
               !.vehicleOneOffCost =
                 IF ~leasedIn /\ type = "LEASE_TO_OWN" THEN FleetCost[c] ELSE "blank"]
  /\ UNCHANGED screen

(* The forms only remember which; "choose a car" cannot be chosen again. *)
SelectVehicle(c) ==
  /\ screen # "deal" /\ c # None
  /\ chosen' = c
  /\ UNCHANGED <<screen, type, ownership, typed>>

(* A button that is lit already changes nothing. *)
ChooseType(t) ==
  /\ t \in IF screen = "deal" THEN {"RENTAL", "LEASE_TO_OWN"} ELSE ContractTypes
  /\ t # EffectiveType
  /\ LeasedIn => t = "LEASE_TO_OWN"
  /\ type' = t
  /\ UNCHANGED <<screen, chosen, ownership, typed>>

ChooseOwnership(o) ==
  /\ screen = "deal" /\ chosen = None /\ o # ownership
  /\ ownership' = o
  /\ type' = IF o = "B2B_SUPPLIER" THEN "LEASE_TO_OWN" ELSE type
  /\ UNCHANGED <<screen, chosen, typed>>

TypeIn(f, text) ==
  /\ f \in OnScreen /\ text # typed[f]
  /\ typed' = [typed EXCEPT ![f] = text]
  /\ UNCHANGED <<screen, chosen, type, ownership>>

Next ==
  \/ \E c \in Car \cup {None} : ChooseVehicle(c) \/ SelectVehicle(c)
  \/ \E t \in ContractTypes \cup {"RENTAL"} : ChooseType(t)
  \/ \E o \in Ownerships : ChooseOwnership(o)
  \/ \E f \in Fields : \E text \in Texts[f] : TypeIn(f, text)

Spec == Init /\ [][Next]_vars

-----------------------------------------------------------------------------
(* What the deal calculator makes of it. *)

(* The fields that money() reads: a buyout only of a sale, the rest        *)
(* whether they are on screen or not.                                      *)
Read == Sums \ (IF type = "LEASE_TO_OWN" THEN {} ELSE {"buyout"})

BadMoney == {f \in Read : typed[f] \notin {"blank", "negative"} \cup Money}

(* validateDealInput, with the field each complaint is about. *)
Issues ==
  {[code |-> "duration", field |-> f] : f \in {"durationMonths"} \cap {g \in Fields : typed[g] \notin Months}}
  \cup {[code |-> "negativeAmount", field |-> f] : f \in {g \in Read : typed[g] = "negative"}}
  \cup (IF type = "RENTAL" /\ LeasedIn THEN {[code |-> "rentalOnLeasedCar", field |-> "dealType"]} ELSE {})

Complaints == BadMoney \cup {issue.field : issue \in Issues}

Ready == typed["monthlyRental"] # "blank" /\ Complaints = {}

(* What the card beside the fields says: what is wrong, and a prompt or a  *)
(* result.                                                                 *)
Says ==
  (IF BadMoney # {} THEN {"money"} ELSE {}) \cup {issue.code : issue \in Issues}
  \cup (IF typed["monthlyRental"] \notin {"negative"} \cup Money THEN {"prompt"}
        ELSE IF Ready THEN {"result"} ELSE {})

(* What its result is worked out from. *)
Counted == {f \in Read : typed[f] # "blank"}

-----------------------------------------------------------------------------
(* What the two forms preview, and what their handlers write. *)

(* tryParse: what is not a sum is as if it had been left empty; and the    *)
(* schedule leaves out what comes to nothing or less.                      *)
Charged(text) == IF text \in Money \ {"zero"} THEN text ELSE "nothing"

NoPreview == [rental |-> "nothing"]

Terms(rental, down, insurance, buyout) ==
  [rental |-> rental, down |-> Charged(down), insurance |-> Charged(insurance), buyout |-> Charged(buyout)]

Previewed ==
  /\ typed["durationMonths"] \in Months
  /\ IF screen = "contract"
     THEN typed["startDate"] \in Day /\ typed["monthlyRental"] \in Money \cup {"negative"}
     ELSE typed["monthlyRental"] \in Money \ {"zero"}

(* Mutant: the buyout is previewed whatever the type. *)
PreviewWithBuyout ==
  IF Previewed
  THEN Terms(typed["monthlyRental"], typed["downPayment"], typed["annualInsurance"], typed["buyout"])
  ELSE NoPreview

Preview ==
  IF Previewed
  THEN Terms(typed["monthlyRental"], typed["downPayment"], typed["annualInsurance"],
             IF EffectiveType = "LEASE_TO_OWN" THEN typed["buyout"] ELSE "blank")
  ELSE NoPreview

Handler == IF screen = "contract" THEN CreateContract(EffectiveType) ELSE SaveQuote(EffectiveType)

Sent(f) == IF f \in OnScreen THEN typed[f] ELSE "blank"

Taken(f) == Kept(Handler.reads[f], Sent(f))

(* Nothing here is refused; the car is there, and so are the customer and  *)
(* the other fields of a contract.                                         *)
Accepted ==
  /\ chosen # None
  /\ \A f \in Fields \cap DOMAIN Handler.reads : Taken(f) # "refused"

Written == Terms(Taken("monthlyRental"), Taken("downPayment"), Taken("annualInsurance"), Taken("buyout"))

-----------------------------------------------------------------------------

(* "the preview cannot disagree with what is generated", "the customer is  *)
(* quoted what they will be invoiced": whatever is chosen and typed, in    *)
(* whatever order, a form that is accepted was previewed, and as it is     *)
(* written.                                                                *)
PreviewIsWritten == screen # "deal" /\ Accepted => Preview = Written

(* A leased-in car is never priced for rental, and a chosen car is priced  *)
(* for what it is.                                                         *)
DealIsOfTheCar ==
  /\ LeasedIn => EffectiveType = "LEASE_TO_OWN"
  /\ screen = "deal" /\ chosen # None => ownership = OwnerOf[chosen]

(* The deal calculator counts, and complains of, only what its reader can  *)
(* see and change; but for a one-off cost, which stays in a deal that is   *)
(* turned from a sale into a rental: in its total, or as a complaint about *)
(* a field that is not there.                                              *)
ResultIsOnScreen ==
  screen = "deal" =>
    /\ (Counted \cup Complaints) \ OnScreen \subseteq {"vehicleOneOffCost"}
    /\ "vehicleOneOffCost" \in (Counted \cup Complaints) \ OnScreen => type = "RENTAL"

(* A deal is priced, or it is said why not; never both, never neither.     *)
PricedOrSaidWhyNot ==
  screen = "deal" => /\ Says # {}
                     /\ "result" \in Says => Says = {"result"}

DealsAgree == PreviewIsWritten /\ DealIsOfTheCar /\ ResultIsOnScreen /\ PricedOrSaidWhyNot
=============================================================================
