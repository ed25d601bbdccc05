------------------------------- MODULE Handlers -------------------------------
(***************************************************************************)
(* What the server actions do with what is typed: the permission each asks *)
(* for and, field by field, what becomes of the text.  What they then do   *)
(* to the rows is in the modules of those rows (Custody, Billing, Supplier,*)
(* VehicleFile, Cases, Leads, Papers, Access).                             *)
(*                                                                         *)
(* Text is one of a few representatives, and its class is its value here:  *)
(*   letter "A", word "Deira", fit (right for this very field: an e-mail   *)
(*   address, a chassis number, a plate), negative "-5", zero "0",         *)
(*   whole "36", large "2024", fraction "1.5", grouped "1,000", date       *)
(*   "2026-01-31"; row is the id of a row that exists; blank is what is    *)
(*   left after trimming a field that is empty or was not sent.            *)
(* The choices of a select are themselves.                                 *)
(***************************************************************************)
EXTENDS FleetStatus, LeadStatus

Figures == {"negative", "zero", "whole", "large", "fraction", "grouped"}
Typed == {"letter", "word", "fit"} \cup Figures

(* Money.parse, and no less than nothing. *)
Money == {"zero", "whole", "large", "fraction", "grouped"}
Whole == {"zero", "whole", "large"}
Months == {"whole"}
Day == {"date"}
Rows == {"row"}

(* A reader keeps what it takes; blank and anything else have a verdict:   *)
(* "refused", "nothing" (NULL), or the value written in their place.       *)
Reader(takes, blank, other) == [takes |-> takes, blank |-> blank, other |-> other]
Required(takes) == Reader(takes, "refused", "refused")
Optional(takes) == Reader(takes, "nothing", "refused")
OrElse(takes, default) == Reader(takes, default, default)
Unread == OrElse({}, "nothing")

Name == Required(Typed)
Note == Optional(Typed)

Kept(reader, v) ==
  IF v = "blank" THEN reader.blank ELSE IF v \in reader.takes THEN v ELSE reader.other

NoFields == [x \in {} |-> Unread]
Button(permission) == [may |-> {permission}, reads |-> NoFields]

Emirates == {"ABU_DHABI", "DUBAI", "SHARJAH", "AJMAN", "UMM_AL_QUWAIN", "RAS_AL_KHAIMAH", "FUJAIRAH"}
ContractTypes == {"LONG_TERM_RENTAL", "LEASE_TO_OWN", "B2B_RENTAL", "OTHER"}
PaymentMethods == {"CASH", "BANK_TRANSFER", "CARD", "TAMARA", "TABBY", "OTHER"}
MaintenanceTypes == {"SERVICE", "REPAIR", "TYRES", "INSPECTION", "BODYWORK", "OTHER"}
Responsibilities == {"CUSTOMER", "THIRD_PARTY", "SHARED", "UNKNOWN"}
SettlementReasons == {"EARLY_TERMINATION", "END_OF_TERM", "RETURN"}
ChargeTypes == {"EXCESS_MILEAGE", "DAMAGE", "FEE", "OTHER"}
Severities == {"MINOR", "MODERATE", "SEVERE"}
Eighths == {"0/8", "1/8", "2/8", "3/8", "4/8", "5/8", "6/8", "7/8", "8/8"}

-----------------------------------------------------------------------------
(* Cars. *)

(* readVehicleForm: "Only the cost that applies to this kind of ownership  *)
(* is kept"; the other is looked at, and dropped.                          *)
ReadVehicleForm(owner) ==
  [make |-> Name, model |-> Name, year |-> Required({"large"}),
   variant |-> Note, colour |-> Note, plateEmirate |-> Required(Emirates),
   plateCode |-> Required({"letter", "fit", "zero", "whole"}),
   plateNumber |-> Required(Whole \cup {"fit"}),
   vin |-> Required({"fit"}), ownershipType |-> Required(Ownerships),
   supplierId |-> IF owner = "B2B_SUPPLIER" THEN Required(Rows) ELSE Unread,
   supplierMonthlyCost |-> IF owner = "B2B_SUPPLIER" THEN Required(Money) ELSE Unread,
   purchasePrice |-> IF owner = "COMPANY_OWNED" THEN Optional(Money) ELSE Unread,
   sourceDate |-> Optional(Day), notes |-> Note]

With(reads, field, reader) ==
  [f \in DOMAIN reads \cup {field} |-> IF f = field THEN reader ELSE reads[f]]

CreateVehicle(owner) ==
  [may |-> {"vehicle.create"},
   reads |-> With(ReadVehicleForm(owner), "currentMileageKm", Reader(Whole, "zero", "refused"))]

UpdateVehicle(owner) == [may |-> {"vehicle.update"}, reads |-> ReadVehicleForm(owner)]

ChangeVehicleStatus ==
  [may |-> {"vehicle.transition"}, reads |-> [status |-> Required(VehicleStatuses), reason |-> Note]]

RecordMileage ==
  [may |-> {"vehicle.update"},
   reads |-> [readingKm |-> Required(Whole \cup {"grouped"}), note |-> Note]]

DeleteVehicle == Button("vehicle.delete")

AddPolicy ==
  [may |-> {"insurance.manage"},
   reads |-> [premium |-> Required(Money \ {"zero"}), startDate |-> Required(Day),
              expiryDate |-> Required(Day), provider |-> Name, policyNumber |-> Name,
              coverage |-> OrElse({"THIRD_PARTY"}, "COMPREHENSIVE"), notes |-> Note]]

CancelPolicy ==
  [may |-> {"insurance.manage"}, reads |-> [reason |-> Name, refund |-> Reader(Money, "zero", "refused")]]

(* Number("") is 0; a reading below the car's own is refused later. *)
RecordMaintenance ==
  [may |-> {"maintenance.manage"},
   reads |-> [type |-> OrElse(MaintenanceTypes, "SERVICE"), servicedOn |-> Required(Day),
              odometerKm |-> Reader(Whole, "zero", "refused"), vendor |-> Name,
              vendorInvoiceNumber |-> Note, description |-> Note,
              cost |-> Reader(Money, "zero", "refused"),
              nextServiceOn |-> OrElse(Day, "nothing"), nextServiceKm |-> Optional(Whole)]]

RecordFine ==
  [may |-> {"fine.manage"},
   reads |-> [amount |-> Required(Money \ {"zero"}), occurredOn |-> Required(Day),
              issuedOn |-> OrElse(Day, "nothing"), payer |-> OrElse({"CUSTOMER", "COMPANY"}, "nothing"),
              fineNumber |-> Name, authority |-> Name, notes |-> Note]]

TransitionFine ==
  [may |-> {"fine.manage"}, reads |-> [paidOn |-> OrElse(Day, "today"), reason |-> Note]]

RecoverFine == Button("fine.manage")

RecordAccident ==
  [may |-> {"accident.manage"},
   reads |-> [occurredOn |-> Required(Day), location |-> Name, description |-> Note,
              responsibility |-> OrElse(Responsibilities, "UNKNOWN"),
              policeReportNumber |-> Note, notes |-> Note]]

TransitionAccident == [may |-> {"accident.manage"}, reads |-> [reason |-> Note]]

RecordRepair ==
  [may |-> {"accident.manage"},
   reads |-> [repairCost |-> Required(Money), repairedOn |-> Required(Day), repairVendor |-> Name]]

LodgeClaim ==
  [may |-> {"accident.manage"},
   reads |-> [claimedAmount |-> Required(Money \ {"zero"}), lodgedOn |-> Required(Day),
              policyId |-> Optional(Rows), claimNumber |-> Name]]

(* Settling needs the figure and the day; another move drops the day. *)
TransitionClaim(to) ==
  [may |-> {"accident.manage"},
   reads |-> [approvedAmount |-> Optional(Money),
              receivedAmount |-> IF to = "SETTLED" THEN Required(Money) ELSE Unread,
              settledOn |-> IF to = "SETTLED" THEN Required(Day) ELSE Unread,
              reason |-> Note]]

-----------------------------------------------------------------------------
(* Contracts. *)

CreateContract(type) ==
  [may |-> {"contract.create"},
   reads |-> [type |-> Required(ContractTypes), customerId |-> Required(Rows),
              vehicleId |-> Required(Rows), startDate |-> Required(Day),
              durationMonths |-> Required(Months), monthlyRental |-> Required(Money),
              downPayment |-> Reader(Money, "zero", "refused"),
              annualInsurance |-> Reader(Money, "zero", "refused"),
              buyout |-> IF type = "LEASE_TO_OWN" THEN Reader(Money, "zero", "refused") ELSE OrElse({}, "zero"),
              excessMileageRate |-> Optional(Money),
              mileageAllowanceKm |-> Optional(Whole \cup {"grouped"}), terms |-> Note]]

ActivateContract == Button("contract.activate")

RecordPayment ==
  [may |-> {"payment.record"},
   reads |-> [amount |-> Required(Money \ {"zero"}), receivedOn |-> Required(Day),
              method |-> Required(PaymentMethods), reference |-> Note, notes |-> Note]]

WaiveInstallment == [may |-> {"payment.waive"}, reads |-> [reason |-> Name]]

RecordSupplierPayment ==
  [may |-> {"supplier_invoice.manage"},
   reads |-> [invoiceId |-> Required(Rows), amount |-> Required(Money \ {"zero"}),
              paidOn |-> Required(Day), method |-> Required(PaymentMethods), reference |-> Note]]

OpenSettlement ==
  [may |-> {"contract.cancel"},
   reads |-> [reason |-> OrElse(SettlementReasons, "RETURN"), returnedMileageKm |-> Optional(Whole)]]

AddSettlementLine ==
  [may |-> {"contract.cancel"},
   reads |-> [kind |-> OrElse({"CREDIT"}, "CHARGE"), chargeType |-> OrElse(ChargeTypes, "OTHER"),
              label |-> Name, amount |-> Required(Money \ {"zero"})]]

RemoveSettlementLine == Button("contract.cancel")
SettleSettlement == Button("contract.cancel")

TerminateContract ==
  [may |-> {"contract.cancel"},
   reads |-> [outcome |-> OrElse({"END_OF_TERM"}, "EARLY_TERMINATION"),
              vehicleTo |-> OrElse({"SOLD"}, "RETURNED")]]

(* "fit" is a date with a time, and for the marks, what the form encodes.  *)
RecordHandover ==
  [may |-> {"handover.manage"},
   reads |-> [type |-> OrElse({"RETURN"}, "HANDOVER"), occurredAt |-> Required({"fit"} \cup Day),
              odometerKm |-> Reader(Whole, "zero", "refused"),
              fuelEighths |-> Reader(Eighths, "0/8", "refused"), conditionNotes |-> Note,
              damagePoints |-> OrElse({"fit"}, "nothing")]]

(* "fit" is a fraction of the picture, or a panel. *)
AddDamagePoint ==
  [may |-> {"handover.manage"},
   reads |-> [positionX |-> OrElse({"fit"}, "nothing"), positionY |-> OrElse({"fit"}, "nothing"),
              panel |-> Required({"fit"}), severity |-> OrElse(Severities, "MINOR"), note |-> Note]]

RemoveDamagePoint == Button("handover.manage")
DiscardHandover == Button("handover.manage")

(* "fit" is a drawing that passes the upload's checks. *)
SignHandover ==
  [may |-> {"handover.manage"},
   reads |-> [customerSignatureName |-> Name, staffSignatureName |-> Name,
              customerSignature |-> Required({"fit"}), staffSignature |-> Required({"fit"})]]

-----------------------------------------------------------------------------
(* Leads. *)

LeadSources == {"WALK_IN", "PHONE", "WHATSAPP", "WEBSITE", "SOCIAL", "REFERRAL", "OTHER"}

(* readLead; "Only someone who can see everyone's leads may hand one to    *)
(* someone else."                                                          *)
ReadLead(canAssign) ==
  [name |-> Name, mobile |-> Required({"fit"}), email |-> Note,
   source |-> OrElse(LeadSources, "OTHER"), interestedVehicleId |-> Optional(Rows),
   budget |-> Optional(Money), durationMonths |-> Optional(Months), notes |-> Note,
   salespersonId |-> IF canAssign THEN Optional(Rows) ELSE Unread]

CreateLead(canAssign) == [may |-> {"lead.create"}, reads |-> ReadLead(canAssign)]
UpdateLead(canAssign) == [may |-> {"lead.update"}, reads |-> ReadLead(canAssign)]

ChangeLeadStatus(to) ==
  [may |-> {"lead.update"},
   reads |-> [status |-> Required(LeadStatuses \ EarnedLeadStatuses),
              reason |-> IF to = "LOST" THEN Name ELSE Note]]

SaveQuote(type) ==
  [may |-> {"deal.calculate", "lead.update"},
   reads |-> [vehicleId |-> Required(Rows), type |-> OrElse(ContractTypes, "LONG_TERM_RENTAL"),
              durationMonths |-> Required(Months), monthlyRental |-> Required(Money \ {"zero"}),
              downPayment |-> Reader(Money, "zero", "refused"),
              annualInsurance |-> Reader(Money, "zero", "refused"),
              buyout |-> IF type = "LEASE_TO_OWN" THEN Reader(Money, "zero", "refused") ELSE OrElse({}, "zero")]]

ConvertLead ==
  [may |-> {"lead.convert", "contract.create"}, reads |-> [startDate |-> Required(Day)]]

-----------------------------------------------------------------------------
(* Customers, suppliers, papers, people. *)

(* zod's min(2); a name of one letter is refused. *)
LongName == Required(Typed \ {"letter", "zero"})

CustomerSchema ==
  [fullName |-> LongName, mobile |-> Required({"fit"}), email |-> Optional({"fit"}),
   dateOfBirth |-> Optional(Day), nationality |-> Note, addressLine |-> Note, city |-> Note,
   emergencyName |-> Note, emergencyPhone |-> Note, notes |-> Note]

CreateCustomer == [may |-> {"customer.create"}, reads |-> CustomerSchema]
UpdateCustomer == [may |-> {"customer.update"}, reads |-> CustomerSchema]

SupplierSchema ==
  [companyName |-> LongName, contactPerson |-> Note, phone |-> Optional({"fit"}),
   email |-> Optional({"fit"}), address |-> Note, tradeLicenseNo |-> Note,
   trn |-> Optional({"fit"}), bankName |-> Note, bankAccountName |-> Note,
   iban |-> Optional({"fit"}), notes |-> Note]

CreateSupplier == [may |-> {"supplier.create"}, reads |-> SupplierSchema]
UpdateSupplier == [may |-> {"supplier.update"}, reads |-> SupplierSchema]

SetPartyStatus(party) ==
  [may |-> IF party = "customer" THEN {"customer.update"} ELSE {"supplier.update"},
   reads |-> [status |-> Required({"ACTIVE", "INACTIVE", "BLACKLISTED"})]]

DeleteParty(party) == Button(IF party = "customer" THEN "customer.delete" ELSE "supplier.delete")

Owners == {"CUSTOMER", "SUPPLIER", "VEHICLE", "CONTRACT", "INSURANCE_POLICY"}

(* "fit" is a list of days; one that expires needs one at least. *)
ReadCategory(expires) ==
  [label |-> LongName, appliesTo |-> Required(Owners), requiresExpiry |-> OrElse({"on"}, "nothing"),
   reminders |-> Reader({"fit"} \cup Whole, IF expires THEN "refused" ELSE "nothing", "refused")]

CreateDocumentCategory(expires) == [may |-> {"settings.manage"}, reads |-> ReadCategory(expires)]
UpdateDocumentCategory(expires) == [may |-> {"settings.manage"}, reads |-> ReadCategory(expires)]
DeleteDocumentCategory == Button("settings.manage")

UploadDocument(expires) ==
  [may |-> {"document.upload"},
   reads |-> [categoryId |-> Required(Rows), documentNumber |-> Note, issueDate |-> Optional(Day),
              expiryDate |-> IF expires THEN Required(Day) ELSE Optional(Day), notes |-> Note,
              file |-> Required({"fit"})]]

DeleteDocument == Button("document.delete")

ExpenseCategories ==
  {"REGISTRATION", "FUEL", "TOLL", "CLEANING", "PARKING", "RECOVERY", "OVERHEAD", "OTHER"}

RecordExpense(allocation) ==
  [may |-> {"expense.manage"},
   reads |-> [amount |-> Required(Money), incurredOn |-> Required(Day),
              category |-> Required(ExpenseCategories),
              allocation |-> Required({"VEHICLE", "CONTRACT", "COMPANY"}),
              vehicleId |-> IF allocation = "VEHICLE" THEN Required(Rows) ELSE Unread,
              contractId |-> IF allocation = "CONTRACT" THEN Required(Rows) ELSE Unread,
              vatBasisPoints |-> Reader({"0", "500"}, "usual", "refused"), description |-> Name,
              supplierName |-> Note, referenceNumber |-> Note, notes |-> Note]]

CreateUser ==
  [may |-> {"user.manage"},
   reads |-> [fullName |-> LongName, email |-> Required({"fit"}), password |-> Required({"fit"}),
              roleId |-> Required(Rows)]]

ResetUserPassword == [may |-> {"user.manage"}, reads |-> [password |-> Required({"fit"})]]
SetUserActive == Button("user.manage")
UpdateRolePermissions == Button("role.manage")

(* Their own, whoever is signed in.  The three must also agree. *)
ChangePassword ==
  [may |-> {},
   reads |-> [currentPassword |-> Required({"fit"}), newPassword |-> Required({"fit"}),
              confirmPassword |-> Required({"fit"})]]

SetEmailNotifications == [may |-> {}, reads |-> [emailNotifications |-> OrElse({"on"}, "off")]]
=============================================================================
