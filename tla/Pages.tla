-------------------------------- MODULE Pages --------------------------------
(***************************************************************************)
(* What the pages offer, and to whom: the permission each page asks for,   *)
(* the controls each shows on a record, and the links between them; beside *)
(* them, what the handlers behind the controls would accept.               *)
(*                                                                         *)
(* A page decides from the same record as its handler but in its own       *)
(* words, so the two can drift apart: a control that is always refused, or *)
(* a move nobody is ever offered.  Pure definitions.                       *)
(***************************************************************************)
EXTENDS Handlers, ContractStatus, CaseStatus

If(test, things) == IF test THEN things ELSE {}

-----------------------------------------------------------------------------
(* PERMISSIONS and DEFAULT_ROLES. *)

AccessPermissions == {"user.view", "user.manage", "role.view", "role.manage", "settings.manage"}
NeverAsked == {"lead.delete", "contract.update", "contract.delete", "payment.delete"}

SalesPermissions ==
  {"dashboard.view", "customer.view", "customer.create", "customer.update", "vehicle.view",
   "document.view", "document.upload", "lead.view", "lead.create", "lead.update", "lead.convert",
   "deal.calculate", "contract.view", "contract.create", "report.view"}

FinancePermissions ==
  {"dashboard.view", "customer.view", "supplier.view", "supplier_invoice.view",
   "supplier_invoice.manage", "vehicle.view", "document.view", "document.upload", "contract.view",
   "payment.view", "payment.record", "payment.waive", "payment.delete", "insurance.view",
   "insurance.manage", "expense.view", "expense.manage", "fine.view", "report.view",
   "report.financial", "report.export"}

OperationsPermissions ==
  {"dashboard.view", "customer.view", "supplier.view", "vehicle.view", "vehicle.create",
   "vehicle.update", "vehicle.transition", "document.view", "document.upload", "contract.view",
   "insurance.view", "insurance.manage", "handover.view", "handover.manage", "maintenance.view",
   "maintenance.manage", "fine.view", "fine.manage", "accident.view", "accident.manage",
   "expense.view", "expense.manage", "report.view"}

AdminPermissions ==
  (SalesPermissions \cup (FinancePermissions \ {"payment.delete"}) \cup OperationsPermissions)
  \cup {"customer.delete", "supplier.create", "supplier.update", "supplier.delete",
        "vehicle.delete", "document.delete", "lead.view_all", "lead.delete", "contract.update",
        "contract.activate", "contract.cancel", "audit.view"}

Catalogue == AdminPermissions \cup AccessPermissions \cup NeverAsked

Roles == [super_admin |-> Catalogue, admin |-> AdminPermissions, sales |-> SalesPermissions,
          finance |-> FinancePermissions, operations |-> OperationsPermissions]

RoleHolders == {Roles[r] : r \in DOMAIN Roles}

(* Whoever the office may make by editing a role, one permission short. *)
Viewers == RoleHolders \cup {Catalogue \ {p} : p \in Catalogue}

-----------------------------------------------------------------------------
(* Pages and the links between them. *)

(* requirePermission of each page. *)
Doors == [
  dashboard |-> {"dashboard.view"}, leads |-> {"lead.view"}, lead |-> {"lead.view"},
  newLead |-> {"lead.create"}, deals |-> {"deal.calculate"}, contracts |-> {"contract.view"},
  contract |-> {"contract.view"}, newContract |-> {"contract.create"},
  customers |-> {"customer.view"}, customer |-> {"customer.view"},
  customerStatement |-> {"payment.view"}, suppliers |-> {"supplier.view"},
  supplier |-> {"supplier.view"}, supplierStatement |-> {"supplier_invoice.view"},
  vehicles |-> {"vehicle.view"}, vehicle |-> {"vehicle.view"}, newVehicle |-> {"vehicle.create"},
  expenses |-> {"expense.view"}, profitability |-> {"report.financial"},
  funnel |-> {"report.view", "lead.view"}, users |-> {"user.view"}, roles |-> {"role.view"},
  role |-> {"role.view"}, documentTypes |-> {"settings.manage"}, documentType |-> {"settings.manage"},
  audit |-> {"audit.view"}, search |-> {},
  contractPdf |-> {"contract.view"}, handoverPdf |-> {"handover.view"}, file |-> {"document.view"},
  customerExport |-> {"payment.view", "report.export"},
  supplierExport |-> {"supplier_invoice.view", "report.export"},
  profitExport |-> {"report.financial", "report.export"}]

(* NAV_DEFINITION: the menu on every page. *)
Menu == [
  dashboard |-> "dashboard.view", leads |-> "lead.view", deals |-> "deal.calculate",
  contracts |-> "contract.view", customers |-> "customer.view", suppliers |-> "supplier.view",
  vehicles |-> "vehicle.view", expenses |-> "expense.view", profitability |-> "report.financial",
  funnel |-> "lead.view", users |-> "user.view", roles |-> "role.view",
  documentTypes |-> "settings.manage", audit |-> "audit.view"]

(* The blocks of the dashboard: "shown to whoever may see what it          *)
(* summarises"; the fleet and the contracts to everyone on it.             *)
Panels == [
  fleet |-> {}, contractCounts |-> {}, month |-> {"report.financial"}, owed |-> {"payment.view"},
  owing |-> {"supplier_invoice.view"}, late |-> {"payment.view"}, expiring |-> {"document.view"},
  renewals |-> {"insurance.view"}, service |-> {"maintenance.view"}]

(* The cards on the page of a car. *)
Cards == [
  maintenance |-> {"maintenance.view"}, lifetime |-> {"report.financial"}, fines |-> {"fine.view"},
  accidents |-> {"accident.view"}, insurance |-> {"insurance.view"}, documents |-> {"document.view"}]

(* Whose leads: everyone's, or one's own. *)
Scopes == [everyone |-> {"lead.view_all"}, own |-> {}]

Link(from, needs, to) == [from |-> from, needs |-> needs, to |-> to]

(* The links in the pages, with what the part of the page each is in asks: *)
(* between a list, its records and the form for another;                    *)
ListLinks ==
  {Link(pair[1], {}, pair[2]) : pair \in
     {<<"leads", "lead">>, <<"contracts", "contract">>, <<"customers", "customer">>,
      <<"suppliers", "supplier">>, <<"vehicles", "vehicle">>, <<"roles", "role">>,
      <<"documentTypes", "documentType">>, <<"lead", "leads">>, <<"contract", "contracts">>,
      <<"customer", "customers">>, <<"supplier", "suppliers">>, <<"vehicle", "vehicles">>,
      <<"role", "roles">>, <<"documentType", "documentTypes">>,
      <<"newLead", "leads">>, <<"newContract", "contracts">>, <<"newVehicle", "vehicles">>,
      <<"customerStatement", "customer">>, <<"supplierStatement", "supplier">>}}
  \cup {Link("leads", {"lead.create"}, "newLead"), Link("contracts", {"contract.create"}, "newContract"),
        Link("vehicles", {"vehicle.create"}, "newVehicle")}

(* from a record to another and to what is printed of it;                  *)
RecordLinks ==
  {Link("lead", {}, "contract"), Link("contract", {}, "customer"), Link("contract", {}, "vehicle"),
   Link("contract", {}, "lead"), Link("contract", {}, "contractPdf"),
   Link("contract", {"handover.view"}, "handoverPdf"),
   Link("customer", {"payment.view"}, "customerStatement"),
   Link("supplier", {"supplier_invoice.view"}, "supplierStatement"),
   Link("supplier", {"supplier_invoice.view"}, "contract"),
   Link("customerStatement", {}, "contract"), Link("supplierStatement", {}, "contract"),
   Link("customerStatement", {"report.export"}, "customerExport"),
   Link("supplierStatement", {"report.export"}, "supplierExport"),
   Link("profitability", {"report.export"}, "profitExport"),
   Link("expenses", {}, "contract"), Link("expenses", {}, "vehicle"),
   Link("dashboard", Panels.late, "contract")}

(* and from a line on a card to whose it is, or to its file.               *)
CardLinks ==
  {Link("vehicle", Cards[card], to) : card \in {"fines", "accidents"}, to \in {"customer", "contract"}}
  \cup {Link("dashboard", Panels.expiring, owner) :
          owner \in {"customer", "supplier", "vehicle", "contract"}}
  \cup {Link(owner, {"document.view"}, "file") : owner \in {"customer", "supplier", "vehicle", "contract"}}

Links == ListLinks \cup RecordLinks \cup CardLinks

(* Search hits: a person's own record, and a document's owner. *)
SearchLinks ==
  {Link("search", {hit[1]}, hit[2]) : hit \in
     {<<"customer.view", "customer">>, <<"supplier.view", "supplier">>, <<"vehicle.view", "vehicle">>,
      <<"document.view", "customer">>, <<"document.view", "supplier">>, <<"document.view", "vehicle">>}}

DeadEnds(can) ==
  {link \in Links \cup SearchLinks :
     Doors[link.from] \cup link.needs \subseteq can /\ ~(Doors[link.to] \subseteq can)}

DeadEntries(can) == {page \in DOMAIN Menu : Menu[page] \in can /\ ~(Doors[page] \subseteq can)}

-----------------------------------------------------------------------------
(* The moves the cards offer, by hand-written lists beside the machines.   *)

(* The status form; the machine itself, less what a contract does. *)
CarOffers(status, owner) ==
  {to \in VehicleMoves[status] : OwnershipAllows(status, to, owner)} \ ContractManagedStatuses

(* `known`: the fine has a customer to recharge. *)
FineOffers(status, known) ==
  CASE status \in {"OPEN", "DISPUTED"} ->
         {"PAID", "PAID_BY_CUSTOMER", "CANCELLED"} \cup If(status = "OPEN", {"DISPUTED"})
    [] status = "PAID" -> {"WAIVED"} \cup If(known, {"RECOVERED"})
    [] OTHER -> {}

AccidentOffers(status) ==
  If(status = "REPORTED", {"UNDER_REPAIR"}) \cup If(status = "UNDER_REPAIR", {"REPAIRED"})
  \cup If(status \in {"REPORTED", "UNDER_REPAIR"}, {"WRITTEN_OFF"})
  \cup If(status \in {"REPAIRED", "WRITTEN_OFF"}, {"CLOSED"})

ClaimOffers(status) ==
  If(status = "LODGED", {"APPROVED", "REJECTED"}) \cup If(status = "APPROVED", {"SETTLED"})
  \cup If(status \in {"REJECTED", "WITHDRAWN"}, {"LODGED"})

(* manualLeadTransitions. *)
LeadOffers(status) == LeadMoves[status] \ EarnedLeadStatuses

-----------------------------------------------------------------------------
(* The contract page. *)

EditableStatuses == {"DRAFT", "PENDING"}

(* A contract with its car, one instalment, its settlement, and whether a  *)
(* bill of its supplier is still open.  Nothing is scheduled or settled    *)
(* before it goes live, and it does not end while a settlement is open.    *)
ContractRecords ==
  {k \in [status : ContractStatuses, type : {"LONG_TERM_RENTAL", "LEASE_TO_OWN"},
          car : VehicleStatuses, owner : Ownerships, item : {"none", "open", "paid", "waived"},
          settlement : {"NONE", "OPEN", "SETTLED"}, owing : BOOLEAN] :
     /\ k.status \in EditableStatuses => k.item = "none" /\ k.settlement = "NONE" /\ ~k.owing
     /\ k.status \in EndedStatuses => k.settlement # "OPEN"}

(* The card of a record's documents, wherever it is shown. *)
DocumentsCard(can) ==
  If("document.view" \in can,
     If("document.upload" \in can, {"upload"}) \cup If("document.delete" \in can, {"removeFile"}))

(* The cards of the page, from the top. *)
SummaryShows(can, k) == If(k.status \in EditableStatuses /\ "contract.activate" \in can, {"activate"})

InstallmentsShow(can, k) ==
  If(k.status \in LiveStatuses /\ k.item = "open" /\ "payment.waive" \in can, {"waive"})

PaymentsShow(can, k) == If(k.status \in LiveStatuses /\ "payment.record" \in can, {"pay"})

SettlementShows(can, k) ==
  If("contract.cancel" \in can,
     If(k.settlement = "OPEN", {"addLine", "removeLine", "settle"})
     \cup If(k.settlement = "NONE" /\ k.status \in LiveStatuses, {"openSettlement"})
     \cup If(k.settlement = "SETTLED" /\ k.status \in LiveStatuses, {"terminate"}))

PayablesShow(can, k) ==
  If(/\ {"supplier_invoice.view", "supplier_invoice.manage"} \subseteq can
     /\ k.status \in LiveStatuses /\ k.owing, {"paySupplier"})

ContractShows(can, k) ==
  SummaryShows(can, k) \cup InstallmentsShow(can, k) \cup PaymentsShow(can, k)
  \cup SettlementShows(can, k) \cup PayablesShow(can, k) \cup DocumentsCard(can)

(* What the services accept: see Custody, Billing, Supplier, VehicleFile. *)
CarGoesTo(k) == IF k.type = "LEASE_TO_OWN" THEN "LEASE_TO_OWN" ELSE "RENTED"

ContractTakes(k) ==
  LET live == k.status \in LiveStatuses IN
  If(k.status \in EditableStatuses /\ CanTransition(k.car, CarGoesTo(k), k.owner), {"activate"})
  \cup If(k.item = "open", {"waive"})
  \cup If(k.status \in LiveStatuses \cup {"COMPLETED"}, {"pay"})
  \cup If(live /\ k.settlement = "NONE", {"openSettlement"})
  \cup If(k.settlement = "OPEN", {"addLine", "removeLine", "settle"})
  \cup If(/\ live /\ k.settlement # "OPEN"
          /\ \E to \in {"RETURNED", "SOLD"} : CanTransition(k.car, to, k.owner), {"terminate"})
  \cup If(k.owing, {"paySupplier"}) \cup {"upload", "removeFile"}

ContractAsks == [
  activate |-> ActivateContract.may, waive |-> WaiveInstallment.may, pay |-> RecordPayment.may,
  openSettlement |-> OpenSettlement.may, addLine |-> AddSettlementLine.may,
  removeLine |-> RemoveSettlementLine.may, settle |-> SettleSettlement.may,
  terminate |-> TerminateContract.may, paySupplier |-> RecordSupplierPayment.may,
  upload |-> UploadDocument(TRUE).may, removeFile |-> DeleteDocument.may]

-----------------------------------------------------------------------------
(* The handover card of a contract: the form of the day the car went out   *)
(* and that of the day it came back, each signed while the contract was    *)
(* live or, the second, completed.                                         *)

HandoverRecords ==
  {h \in [status : ContractStatuses, out : {"NONE", "DRAFT", "SIGNED"}, back : {"NONE", "DRAFT", "SIGNED"}] :
     h.status \in EditableStatuses => h.out = "NONE" /\ h.back = "NONE"}

HandoverShows(can, h) ==
  If("handover.view" \in can,
     If("handover.manage" \in can,
        If(h.out = "NONE", {"handOver"}) \cup If(h.back = "NONE" /\ h.out # "NONE", {"takeBack"})
        \cup If("DRAFT" \in {h.out, h.back}, {"mark", "unmark", "sign", "discard"}))
     \cup If("DRAFT" \in {h.out, h.back}, DocumentsCard(can)))

(* A photograph is taken of any form that stands. *)
HandoverTakes(h) ==
  If(h.status \in LiveStatuses /\ h.out = "NONE", {"handOver"})
  \cup If(h.status \in LiveStatuses \cup {"COMPLETED"} /\ h.out # "NONE" /\ h.back = "NONE", {"takeBack"})
  \cup If("DRAFT" \in {h.out, h.back}, {"mark", "unmark", "sign", "discard"})
  \cup If({h.out, h.back} # {"NONE"}, {"upload", "removeFile"})

HandoverAsks == [handOver |-> RecordHandover.may, takeBack |-> RecordHandover.may,
  mark |-> AddDamagePoint.may, unmark |-> RemoveDamagePoint.may, sign |-> SignHandover.may,
  discard |-> DiscardHandover.may, upload |-> UploadDocument(TRUE).may, removeFile |-> DeleteDocument.may]

-----------------------------------------------------------------------------
(* The page of a car, with its cards. *)

(* A car with a policy and an accident; `filed` says what of the accident  *)
(* is on file.  A form that has several moves to offer is one control.     *)
VehicleRecords ==
  [status : VehicleStatuses, owner : Ownerships, policy : {"ACTIVE", "EXPIRED", "CANCELLED"},
   filed : SUBSET {"repair", "claim"}]

StatusCard(can, v) == If(VehicleMoves[v.status] # {} /\ "vehicle.transition" \in can, {"move"})
MileageCard(can, v) == If(VehicleMoves[v.status] # {} /\ "vehicle.update" \in can, {"read"})

MaintenanceCard(can) == If(Cards.maintenance \cup {"maintenance.manage"} \subseteq can, {"service"})
FinesCard(can) == If(Cards.fines \cup {"fine.manage"} \subseteq can, {"fine"})

(* A repair and a claim are recorded once each. *)
AccidentsCard(can, v) ==
  If(Cards.accidents \cup {"accident.manage"} \subseteq can,
     {"accident"} \cup ({"repair", "claim"} \ v.filed))

InsuranceCard(can, v) ==
  If(Cards.insurance \cup {"insurance.manage"} \subseteq can,
     {"insure"} \cup If(v.policy = "ACTIVE", {"cancelCover"}))

DetailsCard(can) == If("vehicle.update" \in can, {"edit"}) \cup If("vehicle.delete" \in can, {"delete"})

VehicleShows(can, v) ==
  StatusCard(can, v) \cup MileageCard(can, v) \cup MaintenanceCard(can) \cup FinesCard(can)
  \cup AccidentsCard(can, v) \cup InsuranceCard(can, v) \cup DocumentsCard(can) \cup DetailsCard(can)

VehicleTakes(v) ==
  {"read", "service", "fine", "accident", "insure", "upload", "removeFile", "edit"}
  \cup If(CarOffers(v.status, v.owner) # {}, {"move"})
  \cup ({"repair", "claim"} \ v.filed)
  \cup If(v.policy # "CANCELLED", {"cancelCover"})
  \cup If(v.status \notin OnContractStatuses, {"delete"})

VehicleAsks == [
  move |-> ChangeVehicleStatus.may, read |-> RecordMileage.may, service |-> RecordMaintenance.may,
  fine |-> RecordFine.may, accident |-> RecordAccident.may, repair |-> RecordRepair.may,
  claim |-> LodgeClaim.may, insure |-> AddPolicy.may, cancelCover |-> CancelPolicy.may,
  upload |-> UploadDocument(TRUE).may, removeFile |-> DeleteDocument.may,
  edit |-> UpdateVehicle("COMPANY_OWNED").may, delete |-> DeleteVehicle.may]

-----------------------------------------------------------------------------
(* The page of a lead; a deal is created by a quotation, which stays. *)

LeadRecords ==
  {l \in [status : LeadStatuses, quoted : BOOLEAN, free : BOOLEAN] :
     l.status \in EarnedLeadStatuses => l.quoted}

OpenLeadStatuses == LeadStatuses \ {"CONTRACTED", "LOST"}

PipelineShows(can, l) == If("lead.update" \in can /\ LeadOffers(l.status) # {}, {"move"})

ConvertShows(can, l) ==
  If(/\ {"lead.convert", "contract.create"} \subseteq can
     /\ l.status = "DEAL_CREATED" /\ l.quoted, {"convert"})

QuotesShow(can, l) ==
  If({"lead.update", "deal.calculate"} \subseteq can /\ l.status \in OpenLeadStatuses /\ l.free, {"quote"})

LeadShows(can, l) ==
  PipelineShows(can, l) \cup ConvertShows(can, l) \cup QuotesShow(can, l)
  \cup If("lead.update" \in can, {"edit"})

LeadTakes(l) ==
  {"edit"} \cup If(LeadOffers(l.status) # {}, {"move"})
  \cup If(l.status \in OpenLeadStatuses, {"quote"})
  \cup If(l.status = "DEAL_CREATED" /\ l.quoted, {"convert"})

LeadAsks == [edit |-> UpdateLead(TRUE).may, move |-> ChangeLeadStatus("LOST").may,
             quote |-> SaveQuote("LEASE_TO_OWN").may, convert |-> ConvertLead.may]

-----------------------------------------------------------------------------
(* The pages of the parties, of the people and of the document types.      *)

(* A person, who may be the reader, and a document type, which may be      *)
(* seeded and in use.                                                      *)
OfficeRecords == [self : BOOLEAN, seeded : BOOLEAN, used : BOOLEAN]

CustomersShow(can) == If("customer.create" \in can, {"newCustomer"})

CustomerShows(can) ==
  If("customer.update" \in can, {"editCustomer", "customerStatus"})
  \cup If("customer.delete" \in can, {"deleteCustomer"}) \cup DocumentsCard(can)

SuppliersShow(can) == If("supplier.create" \in can, {"newSupplier"})

SupplierShows(can) ==
  If("supplier.update" \in can, {"editSupplier", "supplierStatus"})
  \cup If("supplier.delete" \in can, {"deleteSupplier"}) \cup DocumentsCard(can)

ExpensesShow(can) == If("expense.manage" \in can, {"expense"})

(* Everybody but oneself may be switched off, or given a new password. *)
UsersShow(can, o) ==
  If("user.manage" \in can, {"newUser"} \cup If(~o.self, {"switchUser", "resetPassword"}))

RoleShows(can) == If("role.manage" \in can, {"editRole"})

DocumentTypesShow(can) == If("settings.manage" \in can, {"newType"})

(* "A seeded type can be reworded and rescheduled but never removed". *)
DocumentTypeShows(can, o) ==
  If("settings.manage" \in can, {"editType"} \cup If(~o.seeded, {"deleteType"}))

OfficeShows(can, o) ==
  CustomersShow(can) \cup CustomerShows(can) \cup SuppliersShow(can) \cup SupplierShows(can)
  \cup ExpensesShow(can) \cup UsersShow(can, o) \cup RoleShows(can)
  \cup DocumentTypesShow(can) \cup DocumentTypeShows(can, o)

OfficeAsks == [
  newCustomer |-> CreateCustomer.may, editCustomer |-> UpdateCustomer.may,
  customerStatus |-> SetPartyStatus("customer").may, deleteCustomer |-> DeleteParty("customer").may,
  newSupplier |-> CreateSupplier.may, editSupplier |-> UpdateSupplier.may,
  supplierStatus |-> SetPartyStatus("supplier").may, deleteSupplier |-> DeleteParty("supplier").may,
  expense |-> RecordExpense("VEHICLE").may, newUser |-> CreateUser.may,
  switchUser |-> SetUserActive.may, resetPassword |-> ResetUserPassword.may,
  editRole |-> UpdateRolePermissions.may, newType |-> CreateDocumentCategory(TRUE).may,
  editType |-> UpdateDocumentCategory(TRUE).may, deleteType |-> DeleteDocumentCategory.may,
  upload |-> UploadDocument(TRUE).may, removeFile |-> DeleteDocument.may]

OfficeTakes(o) ==
  DOMAIN OfficeAsks \ (If(o.self, {"switchUser", "resetPassword"}) \cup If(o.seeded \/ o.used, {"deleteType"}))

-----------------------------------------------------------------------------

(* A control that is shown to someone its handler turns away; one that is  *)
(* shown on a record its handler refuses; and one withheld from a holder   *)
(* of a seeded role whose click would have been accepted.                  *)
Forbidden(records, shows(_, _), asks) ==
  UNION {{c \in shows(can, x) : ~(asks[c] \subseteq can)} : can \in Viewers, x \in records}

Refused(records, shows(_, _), takes(_)) ==
  UNION {shows(can, x) \ takes(x) : can \in RoleHolders, x \in records}

Withheld(records, shows(_, _), takes(_), asks) ==
  UNION {{c \in takes(x) : asks[c] \subseteq can} \ shows(can, x) : can \in RoleHolders, x \in records}

(* No page shows a button to someone it would turn away.  What is offered  *)
(* and refused all the same: going live with a car that is taken, ending   *)
(* with a car that has strayed, a handover of a contract that is not live  *)
(* or a return of one ended early, deleting a car that is out, and a       *)
(* document type in use.  What would be accepted and is never offered:     *)
(* money and waivers after the end, ending without a settlement,           *)
(* photographs of a form that is signed, reading the odometer of a sold    *)
(* car, cancelling a policy that has run out, and a quotation with no car  *)
(* free.                                                                   *)
ControlsAgree ==
  /\ Forbidden(ContractRecords, ContractShows, ContractAsks) = {}
  /\ Refused(ContractRecords, ContractShows, ContractTakes) = {"activate", "terminate"}
  /\ Withheld(ContractRecords, ContractShows, ContractTakes, ContractAsks) =
       {"waive", "pay", "paySupplier", "terminate"}
  /\ Forbidden(HandoverRecords, HandoverShows, HandoverAsks) = {}
  /\ Refused(HandoverRecords, HandoverShows, HandoverTakes) = {"handOver", "takeBack"}
  /\ Withheld(HandoverRecords, HandoverShows, HandoverTakes, HandoverAsks) = {"upload", "removeFile"}
  /\ Forbidden(VehicleRecords, VehicleShows, VehicleAsks) = {}
  /\ Refused(VehicleRecords, VehicleShows, VehicleTakes) = {"delete"}
  /\ Withheld(VehicleRecords, VehicleShows, VehicleTakes, VehicleAsks) = {"read", "cancelCover"}
  /\ Forbidden(LeadRecords, LeadShows, LeadAsks) = {}
  /\ Refused(LeadRecords, LeadShows, LeadTakes) = {}
  /\ Withheld(LeadRecords, LeadShows, LeadTakes, LeadAsks) = {"quote"}
  /\ Forbidden(OfficeRecords, OfficeShows, OfficeAsks) = {}
  /\ Refused(OfficeRecords, OfficeShows, OfficeTakes) = {"deleteType"}
  /\ Withheld(OfficeRecords, OfficeShows, OfficeTakes, OfficeAsks) = {}

(* A card offers only moves its machine makes.  These the machines make    *)
(* and no card offers: a dispute is not dropped, a recovery or a waiver    *)
(* not undone, a small accident not closed at once, a bad repair not sent  *)
(* back, a claim neither withdrawn nor refused after it was approved.      *)
NotOffered(moves, offers(_)) ==
  {move \in (DOMAIN moves) \X UNION {moves[f] : f \in DOMAIN moves} :
     move[2] \in moves[move[1]] \ offers(move[1])}

OffersAreMoves(moves, offers(_)) == \A from \in DOMAIN moves : offers(from) \subseteq moves[from]

RechargeableOffers(status) == FineOffers(status, TRUE)
OwnCarOffers(status) == CarOffers(status, "COMPANY_OWNED")

MovesAgree ==
  /\ OffersAreMoves(FineMoves, RechargeableOffers) /\ OffersAreMoves(AccidentMoves, AccidentOffers)
  /\ OffersAreMoves(ClaimMoves, ClaimOffers)
  /\ OffersAreMoves(VehicleMoves, OwnCarOffers) /\ OffersAreMoves(LeadMoves, LeadOffers)
  /\ NotOffered(FineMoves, RechargeableOffers) = {<<"DISPUTED", "OPEN">>, <<"RECOVERED", "PAID">>, <<"WAIVED", "PAID">>}
  /\ NotOffered(AccidentMoves, AccidentOffers) = {<<"REPORTED", "CLOSED">>, <<"REPAIRED", "UNDER_REPAIR">>}
  /\ NotOffered(ClaimMoves, ClaimOffers) = {<<"LODGED", "WITHDRAWN">>, <<"APPROVED", "REJECTED">>}
  /\ {move[2] : move \in NotOffered(VehicleMoves, OwnCarOffers)} = ContractManagedStatuses
  /\ {move[2] : move \in NotOffered(LeadMoves, LeadOffers)} = EarnedLeadStatuses

(* The menu and the links lead where their reader may go, except: whoever  *)
(* sees leads and no reports is shown the funnel; and of the seeded roles, *)
(* sales is led from a document about to expire, or one it searched for,   *)
(* to its supplier, and finance and operations from a contract to the lead *)
(* it came from.                                                           *)
DeadLinks(can) == {<<link.from, link.to>> : link \in DeadEnds(can)}

LinksAgree ==
  /\ UNION {DeadEntries(can) : can \in Viewers} = {"funnel"}
  /\ [r \in DOMAIN Roles |-> DeadLinks(Roles[r])] =
       [super_admin |-> {}, admin |-> {},
        sales |-> {<<"dashboard", "supplier">>, <<"search", "supplier">>},
        finance |-> {<<"contract", "lead">>}, operations |-> {<<"contract", "lead">>}]
  /\ \A can \in RoleHolders : DeadEntries(can) = {}

(* Every permission in the catalogue opens something, but for four.        *)
Asked(asks) == UNION {asks[c] : c \in DOMAIN asks}

PermissionsAreAsked ==
  Catalogue \ UNION {Asked(asks) : asks \in {ContractAsks, HandoverAsks, VehicleAsks, LeadAsks,
                                            OfficeAsks, Doors, Panels, Cards, Scopes}}
    = NeverAsked

PagesAgree(name) ==
  CASE name = "controls" -> ControlsAgree
    [] name = "moves" -> MovesAgree
    [] name = "links" -> LinksAgree /\ PermissionsAreAsked
=============================================================================
