-------------------------------- MODULE Forms --------------------------------
(***************************************************************************)
(* The forms a browser shows: what each field can send, which carry an     *)
(* asterisk, and, on a form that edits a row, what it shows of the row.    *)
(* A field a form leaves out is read as blank by its handler.              *)
(***************************************************************************)
EXTENDS Handlers

TextBox == Typed \cup {"blank"}
NumberBox == {"blank", "negative", "zero", "whole", "large", "fraction"}
DateBox == {"blank"} \cup Day
Pad == {"blank", "fit"}
OrNone(options) == options \cup {"blank"}

(* A form the browser checks itself does not send a required field empty;  *)
(* most are `noValidate`, and their asterisks are only drawn.              *)
Must(box) == box \ {"blank"}

FormFor(action, box, starred) == [action |-> action, box |-> box, starred |-> starred]

-----------------------------------------------------------------------------
(* Cars. *)

VehicleForm(action, owner, mode) ==
  LET fields ==
        {"make", "model", "year", "variant", "colour", "plateEmirate", "plateCode", "plateNumber",
         "vin", "ownershipType", "sourceDate", "notes"}
        \cup (IF mode = "create" THEN {"currentMileageKm"} ELSE {})
        \cup (IF owner = "B2B_SUPPLIER" THEN {"supplierId", "supplierMonthlyCost"} ELSE {"purchasePrice"})
      box == [f \in fields |->
        CASE f \in {"year", "currentMileageKm"} -> NumberBox
          [] f = "plateEmirate" -> Emirates
          [] f = "ownershipType" -> {owner}
          [] f = "supplierId" -> OrNone(Rows)
          [] f = "sourceDate" -> DateBox
          [] OTHER -> TextBox]
  IN FormFor(action, box, fields \cap {"make", "model", "year", "plateEmirate", "plateCode", "plateNumber",
                                    "vin", "supplierId", "supplierMonthlyCost"})

StatusForm == FormFor(ChangeVehicleStatus, [status |-> OrNone(VehicleStatuses), reason |-> TextBox], {})

MileageForm ==
  FormFor(RecordMileage, [readingKm |-> Must(NumberBox), note |-> TextBox], {"readingKm"})

FineForm ==
  FormFor(RecordFine,
    [fineNumber |-> TextBox, authority |-> TextBox, occurredOn |-> DateBox, issuedOn |-> DateBox,
     amount |-> TextBox, payer |-> OrNone({"CUSTOMER", "COMPANY"}), notes |-> TextBox],
    {"fineNumber", "authority", "occurredOn", "amount"})

(* Asks for the day when paying and for a reason otherwise. *)
FineActionForm == FormFor(TransitionFine, [paidOn |-> DateBox, reason |-> TextBox], {})

AccidentForm ==
  FormFor(RecordAccident,
    [occurredOn |-> DateBox, location |-> TextBox, policeReportNumber |-> TextBox,
     responsibility |-> Responsibilities, description |-> TextBox],
    {"occurredOn", "location"})

RepairForm ==
  FormFor(RecordRepair, [repairVendor |-> TextBox, repairCost |-> TextBox, repairedOn |-> DateBox],
    {"repairVendor", "repairCost", "repairedOn"})

ClaimForm ==
  FormFor(LodgeClaim,
    [claimNumber |-> TextBox, claimedAmount |-> TextBox, lodgedOn |-> DateBox, policyId |-> OrNone(Rows)],
    {"claimNumber", "claimedAmount", "lodgedOn"})

StatusMoveForm(to) ==
  CASE to = "APPROVED" -> FormFor(TransitionClaim(to), [approvedAmount |-> TextBox], {})
    [] to = "SETTLED" ->
         FormFor(TransitionClaim(to), [receivedAmount |-> Must(TextBox), settledOn |-> DateBox], {"receivedAmount"})
    [] to = "REJECTED" -> FormFor(TransitionClaim(to), [reason |-> TextBox], {})
    [] to = "LODGED" -> FormFor(TransitionClaim(to), NoFields, {})

PolicyForm ==
  FormFor(AddPolicy,
    [provider |-> TextBox, policyNumber |-> TextBox, coverage |-> {"COMPREHENSIVE", "THIRD_PARTY"},
     startDate |-> DateBox, expiryDate |-> DateBox, premium |-> TextBox],
    {"provider", "policyNumber", "premium"})

CancelPolicyForm == FormFor(CancelPolicy, [reason |-> TextBox, refund |-> TextBox], {})

MaintenanceForm ==
  FormFor(RecordMaintenance,
    [type |-> MaintenanceTypes, servicedOn |-> DateBox, odometerKm |-> NumberBox, vendor |-> TextBox,
     vendorInvoiceNumber |-> TextBox, cost |-> TextBox, nextServiceOn |-> DateBox,
     nextServiceKm |-> NumberBox, description |-> TextBox],
    {"odometerKm", "vendor"})

-----------------------------------------------------------------------------
(* Contracts. *)

(* A leased-in car is offered on lease-to-own only, whatever the radio.    *)
ContractForm(type) ==
  LET fields == {"type", "customerId", "vehicleId", "startDate", "durationMonths", "monthlyRental",
                 "downPayment", "annualInsurance", "mileageAllowanceKm", "excessMileageRate", "terms"}
                \cup (IF type = "LEASE_TO_OWN" THEN {"buyout"} ELSE {})
  IN FormFor(CreateContract(type),
       [f \in fields |-> CASE f = "type" -> {type}
                           [] f \in {"customerId", "vehicleId"} -> OrNone(Rows)
                           [] f = "startDate" -> DateBox
                           [] f = "durationMonths" -> NumberBox
                           [] OTHER -> TextBox],
       {"customerId", "vehicleId", "monthlyRental"})

PaymentForm ==
  FormFor(RecordPayment,
    [amount |-> Must(TextBox), receivedOn |-> DateBox, method |-> PaymentMethods, reference |-> TextBox],
    {"amount"})

WaiveForm == FormFor(WaiveInstallment, [reason |-> TextBox], {})

SupplierPaymentForm ==
  FormFor(RecordSupplierPayment,
    [invoiceId |-> OrNone(Rows), amount |-> Must(TextBox), paidOn |-> DateBox,
     method |-> PaymentMethods, reference |-> TextBox],
    {"amount"})

OpenSettlementForm ==
  FormFor(OpenSettlement, [reason |-> SettlementReasons, returnedMileageKm |-> NumberBox], {})

(* A credit has no type of charge to choose. *)
SettlementLineForm(kind) ==
  LET fields == {"kind", "label", "amount"} \cup (IF kind = "CHARGE" THEN {"chargeType"} ELSE {}) IN
  FormFor(AddSettlementLine,
    [f \in fields |-> CASE f = "kind" -> {kind}
                        [] f = "chargeType" -> ChargeTypes
                        [] OTHER -> Must(TextBox)],
    {"amount"})

TerminateForm(canSell) ==
  FormFor(TerminateContract,
    [outcome |-> {"EARLY_TERMINATION", "END_OF_TERM"},
     vehicleTo |-> {"RETURNED"} \cup (IF canSell THEN {"SOLD"} ELSE {})],
    {})

HandoverForm ==
  FormFor(RecordHandover,
    [type |-> {"HANDOVER", "RETURN"}, damagePoints |-> {"fit"}, occurredAt |-> Pad,
     odometerKm |-> NumberBox, fuelEighths |-> Eighths, conditionNotes |-> TextBox],
    {"occurredAt", "odometerKm"})

(* A mark is placed on the picture or named off it, or neither yet. *)
AddDamageForm ==
  FormFor(AddDamagePoint,
    [positionX |-> Pad, positionY |-> Pad, panel |-> Pad, severity |-> Severities, note |-> TextBox], {})

SignHandoverForm ==
  FormFor(SignHandover,
    [customerSignatureName |-> TextBox, customerSignature |-> Pad,
     staffSignatureName |-> TextBox, staffSignature |-> Pad],
    {"customerSignatureName", "staffSignatureName"})

-----------------------------------------------------------------------------
(* Leads. *)

LeadForm(action, canAssign) ==
  LET fields == {"name", "mobile", "email", "source", "interestedVehicleId", "budget",
                 "durationMonths", "notes"} \cup (IF canAssign THEN {"salespersonId"} ELSE {})
  IN FormFor(action,
       [f \in fields |-> CASE f = "source" -> LeadSources
                           [] f \in {"interestedVehicleId", "salespersonId"} -> OrNone(Rows)
                           [] f = "durationMonths" -> NumberBox
                           [] OTHER -> TextBox],
       {"name", "mobile"})

LeadStatusForm(to) ==
  IF to = "LOST" THEN FormFor(ChangeLeadStatus(to), [status |-> {to}, reason |-> TextBox], {})
                 ELSE FormFor(ChangeLeadStatus(to), [status |-> {to}], {})

QuoteForm(type) ==
  LET fields == {"type", "vehicleId", "durationMonths", "monthlyRental", "downPayment", "annualInsurance"}
                \cup (IF type = "LEASE_TO_OWN" THEN {"buyout"} ELSE {})
  IN FormFor(SaveQuote(type),
       [f \in fields |-> CASE f = "type" -> {type}
                           [] f = "vehicleId" -> OrNone(Rows)
                           [] f = "durationMonths" -> NumberBox
                           [] OTHER -> TextBox],
       {})

ConvertForm == FormFor(ConvertLead, [startDate |-> DateBox], {})

-----------------------------------------------------------------------------
(* Customers, suppliers, papers, people. *)

CustomerForm(action) ==
  FormFor(action,
    [fullName |-> TextBox, mobile |-> TextBox, email |-> TextBox, dateOfBirth |-> DateBox,
     nationality |-> TextBox, city |-> TextBox, addressLine |-> TextBox, emergencyName |-> TextBox,
     emergencyPhone |-> TextBox, notes |-> TextBox],
    {"fullName", "mobile"})

SupplierForm(action) ==
  FormFor(action,
    [companyName |-> TextBox, contactPerson |-> TextBox, phone |-> TextBox, email |-> TextBox,
     tradeLicenseNo |-> TextBox, trn |-> TextBox, bankName |-> TextBox, bankAccountName |-> TextBox,
     iban |-> TextBox, address |-> TextBox, notes |-> TextBox],
    {"companyName"})

(* A ticked box sends "on", and one that is not sends nothing. *)
CategoryForm(action, expires) ==
  FormFor(action,
    [label |-> TextBox, reminders |-> TextBox, appliesTo |-> OrNone(Owners),
     requiresExpiry |-> IF expires THEN {"on"} ELSE {"blank"}],
    {"label"})

DocumentUploadForm(expires) ==
  FormFor(UploadDocument(expires),
    [categoryId |-> OrNone(Rows), file |-> Pad, documentNumber |-> TextBox, issueDate |-> DateBox,
     expiryDate |-> DateBox],
    {"categoryId", "file"} \cup (IF expires THEN {"expiryDate"} ELSE {}))

ExpenseForm(allocation) ==
  LET fields == {"category", "allocation", "incurredOn", "amount", "vatBasisPoints", "supplierName",
                 "referenceNumber", "description"}
                \cup (CASE allocation = "VEHICLE" -> {"vehicleId"}
                        [] allocation = "CONTRACT" -> {"contractId"}
                        [] OTHER -> {})
  IN FormFor(RecordExpense(allocation),
       [f \in fields |-> CASE f = "category" -> ExpenseCategories
                           [] f = "allocation" -> {allocation}
                           [] f \in {"vehicleId", "contractId"} -> OrNone(Rows)
                           [] f = "incurredOn" -> DateBox
                           [] f = "vatBasisPoints" -> {"0", "500"}
                           [] OTHER -> TextBox],
       {"incurredOn", "amount"})

CreateUserForm ==
  FormFor(CreateUser,
    [fullName |-> TextBox, email |-> TextBox, password |-> TextBox, roleId |-> OrNone(Rows)],
    {"fullName", "email", "password", "roleId"})

ResetPasswordForm == FormFor(ResetUserPassword, [password |-> Must(TextBox)], {})

PasswordForm ==
  FormFor(ChangePassword,
    [currentPassword |-> TextBox, newPassword |-> TextBox, confirmPassword |-> TextBox],
    {"currentPassword", "newPassword", "confirmPassword"})

PreferencesForm == FormFor(SetEmailNotifications, [emailNotifications |-> {"on", "off"}], {})

-----------------------------------------------------------------------------

AllForms == [
  carCompany     |-> VehicleForm(CreateVehicle("COMPANY_OWNED"), "COMPANY_OWNED", "create"),
  carSupplier    |-> VehicleForm(CreateVehicle("B2B_SUPPLIER"), "B2B_SUPPLIER", "create"),
  carOfCompany   |-> VehicleForm(UpdateVehicle("COMPANY_OWNED"), "COMPANY_OWNED", "edit"),
  carOfSupplier  |-> VehicleForm(UpdateVehicle("B2B_SUPPLIER"), "B2B_SUPPLIER", "edit"),
  carStatus      |-> StatusForm,
  mileage        |-> MileageForm,
  fine           |-> FineForm,
  fineAction     |-> FineActionForm,
  accident       |-> AccidentForm,
  repair         |-> RepairForm,
  claim          |-> ClaimForm,
  approve        |-> StatusMoveForm("APPROVED"),
  settle         |-> StatusMoveForm("SETTLED"),
  reject         |-> StatusMoveForm("REJECTED"),
  lodge          |-> StatusMoveForm("LODGED"),
  policy         |-> PolicyForm,
  cancelPolicy   |-> CancelPolicyForm,
  maintenance    |-> MaintenanceForm,
  rental         |-> ContractForm("LONG_TERM_RENTAL"),
  leaseToOwn     |-> ContractForm("LEASE_TO_OWN"),
  payment        |-> PaymentForm,
  waive          |-> WaiveForm,
  supplierPayment |-> SupplierPaymentForm,
  openSettlement |-> OpenSettlementForm,
  charge         |-> SettlementLineForm("CHARGE"),
  credit         |-> SettlementLineForm("CREDIT"),
  terminate      |-> TerminateForm(FALSE),
  terminateSold  |-> TerminateForm(TRUE),
  handover       |-> HandoverForm,
  addDamage      |-> AddDamageForm,
  sign           |-> SignHandoverForm,
  lead           |-> LeadForm(CreateLead(FALSE), FALSE),
  leadOfMine     |-> LeadForm(UpdateLead(FALSE), FALSE),
  leadOfAnyone   |-> LeadForm(UpdateLead(TRUE), TRUE),
  leadOn         |-> LeadStatusForm("QUALIFIED"),
  leadLost       |-> LeadStatusForm("LOST"),
  quote          |-> QuoteForm("LONG_TERM_RENTAL"),
  quoteToOwn     |-> QuoteForm("LEASE_TO_OWN"),
  convert        |-> ConvertForm,
  customer       |-> CustomerForm(CreateCustomer),
  ofCustomer     |-> CustomerForm(UpdateCustomer),
  supplier       |-> SupplierForm(CreateSupplier),
  ofSupplier     |-> SupplierForm(UpdateSupplier),
  category       |-> CategoryForm(CreateDocumentCategory(FALSE), FALSE),
  expiring       |-> CategoryForm(UpdateDocumentCategory(TRUE), TRUE),
  upload         |-> DocumentUploadForm(FALSE),
  uploadExpiring |-> DocumentUploadForm(TRUE),
  expenseOfCar   |-> ExpenseForm("VEHICLE"),
  expenseOfDeal  |-> ExpenseForm("CONTRACT"),
  expense        |-> ExpenseForm("COMPANY"),
  user           |-> CreateUserForm,
  resetPassword  |-> ResetPasswordForm,
  password       |-> PasswordForm,
  preferences    |-> PreferencesForm]

-----------------------------------------------------------------------------
(* What an edit form shows of a row. *)

EditForms == {"carOfCompany", "carOfSupplier", "leadOfMine", "leadOfAnyone", "ofCustomer", "ofSupplier"}

(* What a field's column can hold: what its handler stores, and a row that *)
(* is "gone" from the lists the page offers, though its id is still there. *)
(* Which form it is follows from the row's ownership.                      *)
Stored(form, f) ==
  LET reader == form.action.reads[f] IN
  IF f = "ownershipType" THEN form.box[f]
  ELSE reader.takes \cup (IF reader.blank = "nothing" THEN {"nothing"} ELSE {})
                    \cup (IF "row" \in reader.takes THEN {"gone"} ELSE {})

(* A select whose options leave the value out shows its blank one.  The    *)
(* pages list suppliers that are not removed; cars that are free, reserved *)
(* or back; and people who are active and may record leads.                *)
Shown(form, f, v) == IF v = "nothing" \/ v \notin form.box[f] THEN "blank" ELSE v

(* DOCUMENT_CATEGORIES: whom each applies to. *)
SeededCategories == [
  emirates_id |-> {"CUSTOMER"}, driving_licence |-> {"CUSTOMER"}, passport |-> {"CUSTOMER"},
  visa |-> {"CUSTOMER"}, customer_other |-> {"CUSTOMER"},
  trade_licence |-> {"SUPPLIER"}, vat_certificate |-> {"SUPPLIER"}, supplier_agreement |-> {"SUPPLIER"},
  mulkiya |-> {"VEHICLE"}, vehicle_photo |-> {"VEHICLE"}, vehicle_other |-> {"VEHICLE"},
  insurance_policy |-> {"INSURANCE_POLICY", "VEHICLE"},
  handover_photo |-> {"HANDOVER"}, damage_photo |-> {"DAMAGE_POINT"},
  accident_photo |-> {"ACCIDENT"}, police_report |-> {"ACCIDENT"},
  signed_contract |-> {"CONTRACT"}, handover_report |-> {"CONTRACT", "HANDOVER"}]

(* What is left of it when its form, with a box per owner, is saved as it  *)
(* is shown: nothing left is refused.                                      *)
CategorySaved(key) == SeededCategories[key] \cap Owners

(* The records that show a card their documents are uploaded on. *)
CardOwners == {"CUSTOMER", "SUPPLIER", "VEHICLE", "CONTRACT", "HANDOVER", "DAMAGE_POINT", "ACCIDENT"}

-----------------------------------------------------------------------------
(* A value that is typed is stored as typed or refused, never swapped for  *)
(* another; and every form can be sent so that nothing in it is refused.   *)
TypedIsKept(form) ==
  LET reads == form.action.reads IN
  /\ DOMAIN form.box \subseteq DOMAIN reads
  /\ \A f \in DOMAIN form.box : \A v \in form.box[f] \ {"blank"} :
       Kept(reads[f], v) \in {v, "refused"}
  /\ \A f \in DOMAIN reads :
       IF f \in DOMAIN form.box THEN \E v \in form.box[f] : Kept(reads[f], v) # "refused"
                                ELSE Kept(reads[f], "blank") # "refused"

(* An asterisk says a field cannot be left empty.  These are the fields it *)
(* is wrong of: without one and refused empty, or with one and taken.      *)
Misleading(form) ==
  {f \in DOMAIN form.box :
     /\ "blank" \in form.box[f]
     /\ (f \in form.starred) # (Kept(form.action.reads[f], "blank") = "refused")}

Misled == [
  carStatus |-> {"status"}, settle |-> {"settledOn"}, policy |-> {"startDate", "expiryDate"},
  cancelPolicy |-> {"reason"}, maintenance |-> {"servicedOn", "odometerKm"},
  rental |-> {"startDate", "durationMonths"}, leaseToOwn |-> {"startDate", "durationMonths"},
  payment |-> {"receivedOn"}, waive |-> {"reason"}, supplierPayment |-> {"invoiceId", "paidOn"},
  handover |-> {"odometerKm"}, addDamage |-> {"panel"}, sign |-> {"customerSignature", "staffSignature"},
  leadLost |-> {"reason"}, quote |-> {"vehicleId", "durationMonths", "monthlyRental"},
  quoteToOwn |-> {"vehicleId", "durationMonths", "monthlyRental"}, convert |-> {"startDate"},
  category |-> {"appliesTo"}, expiring |-> {"appliesTo", "reminders"}, expenseOfCar |-> {"vehicleId", "description"},
  expenseOfDeal |-> {"contractId", "description"}, expense |-> {"description"}]

AsterisksAreMeant(name) ==
  Misleading(AllForms[name]) = IF name \in DOMAIN Misled THEN Misled[name] ELSE {}

(* An edit form that is saved untouched leaves its row as it was, but for  *)
(* these: a lead keeps neither a car that has since gone out nor, for one  *)
(* who may assign leads, a salesperson who has since left.                 *)
Forgotten(form) ==
  {f \in DOMAIN form.box : \E v \in Stored(form, f) :
     Kept(form.action.reads[f], Shown(form, f, v)) \notin {v, "refused"}}

Stuck(form) ==
  {f \in DOMAIN form.box : \E v \in Stored(form, f) :
     Kept(form.action.reads[f], Shown(form, f, v)) = "refused"}

UntouchedIsKept(name) ==
  LET form == AllForms[name] IN
  /\ Forgotten(form) = CASE name = "leadOfMine" -> {"interestedVehicleId"}
                         [] name = "leadOfAnyone" -> {"interestedVehicleId", "salespersonId"}
                         [] OTHER -> {}
  /\ Stuck(form) = IF name = "carOfSupplier" THEN {"supplierId"} ELSE {}

(* "The seed creates what is missing", and the office may reword what is   *)
(* seeded: but one type loses an owner by it and four cannot be saved.     *)
CategoriesAreEditable ==
  /\ {key \in DOMAIN SeededCategories : CategorySaved(key) = {}} =
       {"handover_photo", "damage_photo", "accident_photo", "police_report"}
  /\ {key \in DOMAIN SeededCategories : CategorySaved(key) \notin {{}, SeededCategories[key]}} =
       {"handover_report"}
  /\ \A key \in DOMAIN SeededCategories : SeededCategories[key] \cap CardOwners # {}
  /\ Owners \ CardOwners = {"INSURANCE_POLICY"}

FormsAgree(name) ==
  /\ TypedIsKept(AllForms[name])
  /\ AsterisksAreMeant(name)
  /\ name \in EditForms => UntouchedIsKept(name)
  /\ name = "expiring" => CategoriesAreEditable
=============================================================================
