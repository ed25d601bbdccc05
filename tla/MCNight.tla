------------------------------- MODULE MCNight -------------------------------
(***************************************************************************)
(* The nightly work for TLC: what is owed to suppliers (the module this    *)
(* one extends), the delivery of notifications and the expiry scan.  They  *)
(* share no state, so a behaviour is of one of them, `part`, and the       *)
(* others stand still.                                                     *)
(***************************************************************************)
EXTENDS SupplierProofs, TLC

CONSTANTS Notice, Person, Worker, LOOKBACK, Take, MaxDate, MaxDeaths, MaxBounces
CONSTANTS Paper, EXPIRES, OFFSETS, Office, Scanner, LastDay, MaxFaults
CONSTANTS lease, p1, p2, ann, bob, cron, byHand, lapsed, old, new

VARIABLES date, raisedAt, readAt, wants, delivery, skipped, mails, worker, deaths, bounces, lost
VARIABLES day, paper, removed, replacedBy, bytes, notices, upload, scan, faults
VARIABLE part

O == INSTANCE Outbox
P == INSTANCE Papers

(* The bounds are numbers, and no paper is called what no paper is called. *)
ASSUME NightAssumption ==
  /\ MaxDate \in Nat /\ MaxDeaths \in Nat /\ MaxBounces \in Nat
  /\ LastDay \in Nat /\ MaxFaults \in Nat
  /\ P!Nobody \notin Paper

suppliers == vars
outbox == <<date, raisedAt, readAt, wants, delivery, skipped, mails, worker, deaths, bounces, lost>>
papers == <<day, paper, removed, replacedBy, bytes, notices, upload, scan, faults>>

MCContractOf == [p \in Payable |-> lease]
MCDueOn == [p \in Payable |-> IF p = p1 THEN 0 ELSE 1]
MCBills == [p \in Payable |-> IF p = p1 THEN 1 ELSE 2]
MCExpires == [p \in Paper |-> IF p = old THEN 1 ELSE 2]

NightInit ==
  /\ part \in {"suppliers", "outbox", "papers"}
  /\ Init /\ O!Init /\ P!Init

NightNext ==
  /\ UNCHANGED part
  /\ \/ part = "suppliers" /\ Next /\ UNCHANGED <<outbox, papers>>
     \/ part = "outbox" /\ O!Next /\ UNCHANGED <<suppliers, papers>>
     \/ part = "papers" /\ P!Next /\ UNCHANGED <<suppliers, outbox>>

(* The fairness of each part's own specification.                          *)
NightSpec ==
  /\ NightInit /\ [][NightNext]_<<part, suppliers, outbox, papers>>
  /\ \A w \in Run : WF_suppliers(part = "suppliers" /\ RunStep(w))
  /\ \A s \in Staff : WF_suppliers(part = "suppliers" /\ PayWrite(s))
  /\ \A w \in Worker : WF_outbox(part = "outbox" /\ O!RunStep(w))
  /\ \A w \in Scanner : WF_papers(part = "papers" /\ P!ScanStep(w))

(* Type correctness of all three. *)
NightTypeOK == TypeOK /\ O!TypeOK /\ P!TypeOK

(* What a recipient can rely on: see Outbox. *)
MailIsAccountedFor == O!LogIsTrue /\ O!ToldAgainOnlyAfterAFault
NobodyIsStranded == O!NobodyIsStranded

(* What the documents' owners can rely on: see Papers. *)
OneIsCurrent == P!OneIsCurrent
OnlyOvertakenRevives == P!OnlyOvertakenRevives
LapseIsAnnounced == P!LapseIsAnnounced
=============================================================================
