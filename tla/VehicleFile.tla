----------------------------- MODULE VehicleFile -----------------------------
(***************************************************************************)
(* A car's file: the handover and return forms of its contracts, the marks *)
(* on their diagrams and the photographs of those, its odometer with the   *)
(* readings that moved it, and its services.                               *)
(*                                                                         *)
(* Only the start of a form takes the contract's lock, so that one is one  *)
(* action.  The other handlers read, decide and then write by id, so each  *)
(* is a Read that fills request[s] and a Write.  recordMileage is the only *)
(* one whose write checks again what its read found.                       *)
(***************************************************************************)
EXTENDS Integers, FiniteSets, ContractStatus

CONSTANTS
  Contract,  \* contracts; each is live when the model begins
  Vehicle,   \* cars
  CarOf,     \* the car of each contract
  Form,      \* handover rows that can be written
  Mark,      \* damage points that can be made
  Record,    \* maintenance records that can be written
  Billed,    \* those the garage charged for
  Outcome,   \* bound: the ends a contract can come to
  Staff,     \* people (browser sessions)
  MaxKm      \* bound: the highest plausible odometer

NoForm == "none"

ASSUME VehicleFileAssumption ==
  /\ NoForm \notin Form
  /\ CarOf \in [Contract -> Vehicle]
  /\ Billed \subseteq Record
  /\ Outcome \subseteq EndedStatuses
  /\ MaxKm \in Nat

VARIABLES
  contract,  \* status of each contract
  form,      \* each handover row
  mark,      \* the form each damage point is on, or NoForm
  photos,    \* documents of damage points, by the mark they name
  mileage,   \* currentMileageKm of each car
  readings,  \* the mileage readings of each car
  record,    \* each maintenance record
  ledger,    \* maintenance records with a cost.maintenance entry
  request    \* what each member of staff's running request has read

paper == <<form, mark, photos>>
clock == <<mileage, readings>>
work == <<record, ledger>>
vars == <<contract, paper, clock, work, request>>

Km == 0..MaxKm
Kinds == {"HANDOVER", "RETURN"}
Unwritten == [state |-> "none"]
NoRecord == [written |-> FALSE]
Idle == [op |-> "idle"]

FormStates == {"DRAFT", "SIGNED"}

Forms == [state : FormStates, c : Contract, kind : Kinds, km : Km, amended : BOOLEAN,
          deleted : BOOLEAN]

Records == [written : {TRUE}, v : Vehicle, km : Km]

Requests ==
  {Idle}
  \cup [op : {"edit", "discard"}, f : Form, seen : FormStates]
  \cup [op : {"mark", "unmark"}, f : Form, seen : FormStates, m : Mark]
  \cup [op : {"photograph"}, m : Mark]
  \cup [op : {"sign"}, f : Form, v : Vehicle, seen : Km, km : Km]
  \cup [op : {"read"}, v : Vehicle, seen : Km, km : Km]
  \cup [op : {"service"}, v : Vehicle, seen : Km, km : Km, r : Record]

-----------------------------------------------------------------------------

Stands(f) == form[f] # Unwritten /\ ~form[f].deleted

FormsOf(c) == {f \in Form : Stands(f) /\ form[f].c = c}

(* A car goes out on a live contract; it can come back on a completed one. *)
OpenFor(kind) == IF kind = "HANDOVER" THEN LiveStatuses ELSE LiveStatuses \cup {"COMPLETED"}

(* validateMileageReading: equal is allowed. *)
ValidReading(current, km) == km \in Km /\ km >= current

(* Mutant: only signed forms count as existing. *)
SignedOfKind(c, kind) ==
  \E f \in FormsOf(c) : form[f].kind = kind /\ form[f].state = "SIGNED"

(* A form of this kind stands already: the check and, behind it, the       *)
(* unique index handovers_one_per_contract_and_type.                       *)
AlreadyOfKind(c, kind) == \E f \in FormsOf(c) : form[f].kind = kind

(* Mutant: a form of any state is open. *)
OpenAnyway(f) == Stands(f)

(* openDraft *)
OpenDraft(f) == Stands(f) /\ form[f].state = "DRAFT"

Ask(s, r) == request[s] = Idle /\ request' = [request EXCEPT ![s] = r]
Respond(s) == request' = [request EXCEPT ![s] = Idle]

SetOdometer(v, km) ==
  /\ mileage' = [mileage EXCEPT ![v] = km]
  /\ readings' = [readings EXCEPT ![v] = @ \cup {km}]

(* Cars with no miles yet: one that arrives with some (createVehicle) has  *)
(* its first reading, as after recordMileage.                              *)
Init ==
  /\ contract = [c \in Contract |-> "ACTIVE"]
  /\ form = [f \in Form |-> Unwritten]
  /\ mark = [m \in Mark |-> NoForm]
  /\ photos = {}
  /\ mileage = [v \in Vehicle |-> 0]
  /\ readings = [v \in Vehicle |-> {}]
  /\ record = [r \in Record |-> NoRecord]
  /\ ledger = {}
  /\ request = [s \in Staff |-> Idle]

(* terminateContract, seen from here (Custody). *)
EndContract(c, outcome) ==
  /\ contract[c] \in LiveStatuses
  /\ contract' = [contract EXCEPT ![c] = outcome]
  /\ UNCHANGED <<paper, clock, work, request>>

-----------------------------------------------------------------------------
(* The forms. *)

(* recordHandover, under the contract's lock, with the marks made on the   *)
(* way round the car.  A return is measured against a standing handover.   *)
RecordHandover(f, c, kind, km, M) ==
  /\ form[f] = Unwritten
  /\ contract[c] \in OpenFor(kind)
  /\ ~AlreadyOfKind(c, kind)
  /\ kind = "RETURN" => \E h \in FormsOf(c) : form[h].kind = "HANDOVER" /\ km >= form[h].km
  /\ \A m \in M : mark[m] = NoForm
  /\ form' = [form EXCEPT ![f] = [state |-> "DRAFT", c |-> c, kind |-> kind, km |-> km,
                                  amended |-> FALSE, deleted |-> FALSE]]
  /\ mark' = [m \in Mark |-> IF m \in M THEN f ELSE mark[m]]
  /\ UNCHANGED <<contract, photos, clock, work, request>>

(* updateHandover: fuel and condition, never the odometer. *)
EditRead(s, f) ==
  /\ OpenDraft(f)
  /\ Ask(s, [op |-> "edit", f |-> f, seen |-> form[f].state])
  /\ UNCHANGED <<contract, paper, clock, work>>

EditWrite(s) ==
  LET r == request[s] IN
  /\ r.op = "edit"
  /\ form' = [form EXCEPT ![r.f].amended = TRUE]
  /\ Respond(s)
  /\ UNCHANGED <<contract, mark, photos, clock, work>>

(* addDamagePoint *)
MarkRead(s, f, m) ==
  /\ OpenDraft(f)
  /\ mark[m] = NoForm
  /\ Ask(s, [op |-> "mark", f |-> f, seen |-> form[f].state, m |-> m])
  /\ UNCHANGED <<contract, paper, clock, work>>

MarkWrite(s) ==
  LET r == request[s] IN
  /\ r.op = "mark"
  /\ mark[r.m] = NoForm \* a new row, so another's m is not this one
  /\ mark' = [mark EXCEPT ![r.m] = r.f]
  /\ Respond(s)
  /\ UNCHANGED <<contract, form, photos, clock, work>>

(* removeDamagePoint, with its photographs.  Deleting a row that has gone  *)
(* in the meantime throws (Abort).                                         *)
UnmarkRead(s, m) ==
  /\ mark[m] # NoForm
  /\ OpenDraft(mark[m])
  /\ Ask(s, [op |-> "unmark", f |-> mark[m], seen |-> form[mark[m]].state, m |-> m])
  /\ UNCHANGED <<contract, paper, clock, work>>

UnmarkWrite(s) ==
  LET r == request[s] IN
  /\ r.op = "unmark"
  /\ mark[r.m] = r.f
  /\ mark' = [mark EXCEPT ![r.m] = NoForm]
  /\ photos' = photos \ {r.m}
  /\ Respond(s)
  /\ UNCHANGED <<contract, form, clock, work>>

(* uploadDocument for a damage point: its owner is looked up, the bytes go *)
(* to storage, and the row is written with no foreign key to the owner.    *)
PhotographRead(s, m) ==
  /\ mark[m] # NoForm
  /\ Ask(s, [op |-> "photograph", m |-> m])
  /\ UNCHANGED <<contract, paper, clock, work>>

PhotographWrite(s) ==
  /\ request[s].op = "photograph"
  /\ photos' = photos \cup {request[s].m}
  /\ Respond(s)
  /\ UNCHANGED <<contract, form, mark, clock, work>>

(* discardHandover: a soft delete, the photographs of its marks with it. *)
DiscardRead(s, f) ==
  /\ OpenDraft(f)
  /\ Ask(s, [op |-> "discard", f |-> f, seen |-> form[f].state])
  /\ UNCHANGED <<contract, paper, clock, work>>

DiscardWrite(s) ==
  LET r == request[s] IN
  /\ r.op = "discard"
  /\ photos' = {m \in photos : mark[m] # r.f}
  /\ form' = [form EXCEPT ![r.f].deleted = TRUE]
  /\ Respond(s)
  /\ UNCHANGED <<contract, mark, clock, work>>

(* Mutant: a state the enum does not have. *)
SignedUnknown(row) == [row EXCEPT !.state = "CLOSED"]

Signed(row) == [row EXCEPT !.state = "SIGNED"]

(* signHandover: the odometer of the form, checked against the car's,      *)
(* becomes the car's.  The contract is neither locked nor looked at.       *)
SignRead(s, f) ==
  LET v == CarOf[form[f].c] IN
  /\ OpenDraft(f)
  /\ ValidReading(mileage[v], form[f].km)
  /\ Ask(s, [op |-> "sign", f |-> f, v |-> v, seen |-> mileage[v], km |-> form[f].km])
  /\ UNCHANGED <<contract, paper, clock, work>>

SignWrite(s) ==
  LET r == request[s] IN
  /\ r.op = "sign"
  /\ form' = [form EXCEPT ![r.f] = Signed(@)]
  /\ SetOdometer(r.v, r.km)
  /\ Respond(s)
  /\ UNCHANGED <<contract, mark, photos, work>>

-----------------------------------------------------------------------------
(* The odometer and the workshop. *)

ReadingRead(s, v, km) ==
  /\ ValidReading(mileage[v], km)
  /\ Ask(s, [op |-> "read", v |-> v, seen |-> mileage[v], km |-> km])
  /\ UNCHANGED <<contract, paper, clock, work>>

(* Mutant: an update by id alone. *)
NotLower(v, km) == v \in Vehicle

(* recordMileage's compare-and-set: no higher reading landed meanwhile. *)
NotOvertaken(v, km) == mileage[v] <= km

ReadingWrite(s) ==
  LET r == request[s] IN
  /\ r.op = "read"
  /\ NotOvertaken(r.v, r.km)
  /\ SetOdometer(r.v, r.km)
  /\ Respond(s)
  /\ UNCHANGED <<contract, paper, work>>

(* recordMaintenance: the garage's reading is a mileage reading like any   *)
(* other; a bill of nothing posts no cost.                                 *)
ServiceRead(s, v, r, km) ==
  /\ record[r] = NoRecord
  /\ ValidReading(mileage[v], km)
  /\ Ask(s, [op |-> "service", v |-> v, seen |-> mileage[v], km |-> km, r |-> r])
  /\ UNCHANGED <<contract, paper, clock, work>>

ServiceWrite(s) ==
  LET q == request[s] IN
  /\ q.op = "service"
  /\ record[q.r] = NoRecord
  /\ record' = [record EXCEPT ![q.r] = [written |-> TRUE, v |-> q.v, km |-> q.km]]
  /\ ledger' = ledger \cup ({q.r} \cap Billed)
  /\ SetOdometer(q.v, q.km)
  /\ Respond(s)
  /\ UNCHANGED <<contract, paper>>

(* A transaction that throws, or a request given up: nothing is written. *)
Abort(s) ==
  /\ request[s] # Idle
  /\ Respond(s)
  /\ UNCHANGED <<contract, paper, clock, work>>

StaffStep(s) ==
  \/ \E f \in Form : EditRead(s, f) \/ DiscardRead(s, f) \/ SignRead(s, f)
  \/ \E f \in Form, m \in Mark : MarkRead(s, f, m)
  \/ \E m \in Mark : UnmarkRead(s, m) \/ PhotographRead(s, m)
  \/ \E v \in Vehicle, km \in Km : ReadingRead(s, v, km)
  \/ \E v \in Vehicle, r \in Record, km \in Km : ServiceRead(s, v, r, km)
  \/ EditWrite(s)
  \/ MarkWrite(s)
  \/ UnmarkWrite(s)
  \/ PhotographWrite(s)
  \/ DiscardWrite(s)
  \/ SignWrite(s)
  \/ ReadingWrite(s)
  \/ ServiceWrite(s)
  \/ Abort(s)

Next ==
  \/ \E s \in Staff : StaffStep(s)
  \/ \E c \in Contract, outcome \in Outcome : EndContract(c, outcome)
  \/ \E f \in Form, c \in Contract, kind \in Kinds, km \in Km,
        M \in SUBSET Mark : RecordHandover(f, c, kind, km, M)

Spec == Init /\ [][Next]_vars

-----------------------------------------------------------------------------
(* What excessMileageForContract works from: the odometer on the standing  *)
(* signed form of a kind.                                                  *)
SignedKm(c, kind) ==
  {form[f].km : f \in {g \in FormsOf(c) : form[g].kind = kind /\ form[g].state = "SIGNED"}}

(* Type correctness of the rows and the running requests. *)
TypeOK ==
  /\ contract \in [Contract -> ContractStatuses]
  /\ form \in [Form -> {Unwritten} \cup Forms]
  /\ mark \in [Mark -> Form \cup {NoForm}]
  /\ photos \subseteq Mark
  /\ mileage \in [Vehicle -> Km]
  /\ readings \in [Vehicle -> SUBSET Km]
  /\ record \in [Record -> {NoRecord} \cup Records]
  /\ ledger \subseteq Record
  /\ request \in [Staff -> Requests]

(* The kilometres a customer is charged for are one figure: a contract     *)
(* never has two signed readings for the same way, whatever is discarded,  *)
(* written again and signed at once.                                       *)
OneFigureEachWay ==
  \A c \in Contract, kind \in Kinds : Cardinality(SignedKm(c, kind)) <= 1

(* The odometer comes back down only at the hand of a signature or a       *)
(* service whose check was overtaken by another write: every sequence of   *)
(* requests that do not overlap keeps it rising, and recordMileage does so *)
(* even when overtaken.                                                    *)
OnlyOvertakenTakesItBack ==
  [][\A v \in Vehicle : mileage'[v] < mileage[v] =>
       \E s \in Staff : /\ request[s].op \in {"sign", "service"}
                        /\ request[s].v = v /\ request[s].seen # mileage[v]
                        /\ request'[s] = Idle]_vars

(* "signing freezes it": a signed form is edited, marked, unmarked or      *)
(* discarded only by a request that found it a draft before.               *)
OnFile(f) == <<form[f], {m \in Mark : mark[m] = f}>>

OnlyOvertakenChangesTheSigned ==
  [][\A f \in Form : form[f] # Unwritten /\ form[f].state = "SIGNED" /\ OnFile(f)' # OnFile(f) =>
       \E s \in Staff : /\ request[s].op \in {"edit", "mark", "unmark", "discard"}
                        /\ request[s].f = f /\ request[s].seen = "DRAFT"
                        /\ request'[s] = Idle]_vars

(* A reading goes back, and a signed form changes, only by a request that  *)
(* was overtaken.                                                          *)
OnlyOvertakenUndoes == OnlyOvertakenTakesItBack /\ OnlyOvertakenChangesTheSigned

-----------------------------------------------------------------------------
(* What the repository says and the code does not do.                      *)

(* "mileage never comes back down"; "an odometer does not run backwards".  *)
MileageNeverFalls == [][\A v \in Vehicle : mileage'[v] >= mileage[v]]_vars
=============================================================================
