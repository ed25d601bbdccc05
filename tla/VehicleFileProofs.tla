------------------------- MODULE VehicleFileProofs --------------------------
(***************************************************************************)
(* Theorems about VehicleFile, for every fleet, staff and set of forms.    *)
(*                                                                         *)
(* Nearly every handler writes without looking again, so what is true of   *)
(* its write is what was true of its reading: VehicleFileInv says what a   *)
(* running request has found, and that of each kind one form stands, which *)
(* the unique index keeps whatever is discarded and written again.         *)
(***************************************************************************)
EXTENDS VehicleFile, FiniteSetTheorems, TLAPS

(* The unique index handovers_one_per_contract_and_type. *)
OneStandsEach ==
  \A f, g \in Form :
    Stands(f) /\ Stands(g) /\ form[f].c = form[g].c /\ form[f].kind = form[g].kind => f = g

(* What was found: a form that was a draft and is still there, a reading   *)
(* no lower than the car's.                                                *)
FoundFit ==
  \A s \in Staff :
    LET r == request[s] IN
    /\ r.op \in {"edit", "discard", "mark", "unmark"} => r.seen = "DRAFT"
    /\ r.op \in {"edit", "discard", "mark", "unmark", "sign"} => form[r.f] # Unwritten
    /\ r.op \in {"sign", "read", "service"} => r.km >= r.seen

(* A mark is on a form that was written. *)
MarksAreOnForms == \A m \in Mark : mark[m] # NoForm => form[mark[m]] # Unwritten

VehicleFileInv == TypeOK /\ OneStandsEach /\ FoundFit /\ MarksAreOnForms

-----------------------------------------------------------------------------

(* The fields of a request, by its kind. *)
LEMMA RequestFields ==
  ASSUME NEW r \in Requests
  PROVE  /\ r.op \in {"idle", "edit", "discard", "mark", "unmark", "photograph", "sign", "read", "service"}
         /\ r.op \in {"edit", "discard", "mark", "unmark"} => r.f \in Form /\ r.seen \in FormStates
         /\ r.op \in {"mark", "unmark", "photograph"} => r.m \in Mark
         /\ r.op = "sign" => r.f \in Form
         /\ r.op \in {"sign", "read", "service"} => r.v \in Vehicle /\ r.seen \in Km /\ r.km \in Km
         /\ r.op = "service" => r.r \in Record
         /\ r.op # "idle" => r # Idle
BY DEF Requests, Idle

(* The fields of a form, and what a write to it leaves. *)
LEMMA FormFields ==
  ASSUME NEW x \in {Unwritten} \cup Forms
  PROVE  /\ x = Unwritten \/ x \in Forms
         /\ x # Unwritten => /\ x.state \in FormStates /\ x.c \in Contract /\ x.kind \in Kinds
                             /\ x.km \in Km /\ x.deleted \in BOOLEAN
         /\ x \in Forms => x # Unwritten
BY DEF Forms, Unwritten, FormStates

LEMMA FormWrites ==
  ASSUME NEW x \in Forms
  PROVE  /\ [x EXCEPT !.amended = TRUE] \in Forms
         /\ [x EXCEPT !.deleted = TRUE] \in Forms
         /\ [x EXCEPT !.state = "SIGNED"] \in Forms
BY DEF Forms, FormStates

LEMMA TypeInit == Init => TypeOK
BY VehicleFileAssumption DEF Init, TypeOK, ContractStatuses, Km, Requests

(* Not inductive on its own: a signature writes a form that must be there. *)
LEMMA TypeStep == TypeOK /\ FoundFit /\ [Next]_vars => TypeOK'
<1> USE VehicleFileAssumption
<1> SUFFICES ASSUME TypeOK, FoundFit, [Next]_vars PROVE TypeOK'
  OBVIOUS
<1> USE DEF paper, clock, work, Ask, Respond
<1>i. Idle \in Requests
  BY DEF Requests
<1>1. CASE UNCHANGED vars
  BY <1>1 DEF vars, TypeOK
<1>2. ASSUME NEW c \in Contract, NEW outcome \in Outcome, EndContract(c, outcome) PROVE TypeOK'
  BY <1>2 DEF EndContract, TypeOK, EndedStatuses, ContractStatuses
<1>3. ASSUME NEW f \in Form, NEW c \in Contract, NEW kind \in Kinds, NEW km \in Km, NEW M \in SUBSET Mark,
             RecordHandover(f, c, kind, km, M)
      PROVE  TypeOK'
  <2>1. [state |-> "DRAFT", c |-> c, kind |-> kind, km |-> km, amended |-> FALSE, deleted |-> FALSE] \in Forms
    BY DEF Forms, FormStates
  <2>2. form' \in [Form -> {Unwritten} \cup Forms] /\ mark' \in [Mark -> Form \cup {NoForm}]
    BY <1>3, <2>1 DEF RecordHandover, TypeOK
  <2>. QED BY <1>3, <2>2 DEF RecordHandover, TypeOK
<1>4. ASSUME NEW s \in Staff, StaffStep(s) PROVE TypeOK'
  <2> DEFINE r == request[s]
  <2>r. r \in Requests
    BY DEF TypeOK
  <2>1. ASSUME NEW f \in Form, EditRead(s, f) \/ DiscardRead(s, f) \/ SignRead(s, f) PROVE TypeOK'
    <3>1. form[f] \in Forms /\ form[f].state \in FormStates /\ form[f].c \in Contract /\ form[f].km \in Km
      BY <2>1, FormFields DEF EditRead, DiscardRead, SignRead, OpenDraft, Stands, TypeOK
    <3>2. /\ [op |-> "edit", f |-> f, seen |-> form[f].state] \in Requests
          /\ [op |-> "discard", f |-> f, seen |-> form[f].state] \in Requests
          /\ [op |-> "sign", f |-> f, v |-> CarOf[form[f].c], seen |-> mileage[CarOf[form[f].c]],
              km |-> form[f].km] \in Requests
      BY <3>1 DEF Requests, TypeOK
    <3>. QED BY <2>1, <3>2 DEF EditRead, DiscardRead, SignRead, TypeOK
  <2>2. ASSUME NEW f \in Form, NEW m \in Mark, MarkRead(s, f, m) PROVE TypeOK'
    <3>1. form[f].state \in FormStates
      BY <2>2, FormFields DEF MarkRead, OpenDraft, Stands, TypeOK
    <3>2. [op |-> "mark", f |-> f, seen |-> form[f].state, m |-> m] \in Requests
      BY <3>1 DEF Requests
    <3>. QED BY <2>2, <3>2 DEF MarkRead, TypeOK
  <2>3. ASSUME NEW m \in Mark, UnmarkRead(s, m) PROVE TypeOK'
    <3>1. mark[m] \in Form
      BY <2>3 DEF UnmarkRead, TypeOK
    <3>2. form[mark[m]].state \in FormStates
      BY <2>3, <3>1, FormFields DEF UnmarkRead, OpenDraft, Stands, TypeOK
    <3>3. [op |-> "unmark", f |-> mark[m], seen |-> form[mark[m]].state, m |-> m] \in Requests
      BY <3>1, <3>2 DEF Requests
    <3>. QED BY <2>3, <3>3 DEF UnmarkRead, TypeOK
  <2>4. ASSUME NEW m \in Mark, PhotographRead(s, m) PROVE TypeOK'
    <3>1. [op |-> "photograph", m |-> m] \in Requests
      BY DEF Requests
    <3>. QED BY <2>4, <3>1 DEF PhotographRead, TypeOK
  <2>5. ASSUME NEW v \in Vehicle, NEW km \in Km, ReadingRead(s, v, km) PROVE TypeOK'
    <3>1. [op |-> "read", v |-> v, seen |-> mileage[v], km |-> km] \in Requests
      BY DEF Requests, TypeOK
    <3>. QED BY <2>5, <3>1 DEF ReadingRead, TypeOK
  <2>6. ASSUME NEW v \in Vehicle, NEW q \in Record, NEW km \in Km, ServiceRead(s, v, q, km) PROVE TypeOK'
    <3>1. [op |-> "service", v |-> v, seen |-> mileage[v], km |-> km, r |-> q] \in Requests
      BY DEF Requests, TypeOK
    <3>. QED BY <2>6, <3>1 DEF ServiceRead, TypeOK
  <2>w. request' = [request EXCEPT ![s] = Idle] => request' \in [Staff -> Requests]
    BY <1>i DEF TypeOK
  <2>7. CASE EditWrite(s) \/ DiscardWrite(s) \/ SignWrite(s)
    <3>1. r.f \in Form /\ form[r.f] # Unwritten
      BY <2>7, <2>r, RequestFields DEF EditWrite, DiscardWrite, SignWrite, FoundFit
    <3>2. form[r.f] \in Forms
      BY <3>1 DEF TypeOK
    <3>3. PICK x \in Forms : form' = [form EXCEPT ![r.f] = x]
      BY <2>7, <3>2, FormWrites DEF EditWrite, DiscardWrite, SignWrite, Signed
    <3>4. form' \in [Form -> {Unwritten} \cup Forms]
      BY <3>1, <3>3 DEF TypeOK
    <3>5. photos' \subseteq Mark /\ mileage' \in [Vehicle -> Km] /\ readings' \in [Vehicle -> SUBSET Km]
      BY <2>7, <2>r, RequestFields DEF EditWrite, DiscardWrite, SignWrite, SetOdometer, TypeOK
    <3>. QED BY <2>7, <2>w, <3>4, <3>5 DEF EditWrite, DiscardWrite, SignWrite, SetOdometer, TypeOK
  <2>8. CASE MarkWrite(s) \/ UnmarkWrite(s) \/ PhotographWrite(s)
    <3>1. r.m \in Mark /\ (r.op \in {"mark", "unmark"} => r.f \in Form)
      BY <2>8, <2>r, RequestFields DEF MarkWrite, UnmarkWrite, PhotographWrite
    <3>. QED BY <2>8, <2>w, <3>1 DEF MarkWrite, UnmarkWrite, PhotographWrite, TypeOK
  <2>9. CASE ReadingWrite(s)
    <3>1. r.v \in Vehicle /\ r.km \in Km
      BY <2>9, <2>r, RequestFields DEF ReadingWrite
    <3>. QED BY <2>9, <2>w, <3>1 DEF ReadingWrite, SetOdometer, TypeOK
  <2>10. CASE ServiceWrite(s)
    <3>1. r.v \in Vehicle /\ r.km \in Km /\ r.r \in Record
      BY <2>10, <2>r, RequestFields DEF ServiceWrite
    <3>2. [written |-> TRUE, v |-> r.v, km |-> r.km] \in Records
      BY <3>1 DEF Records
    <3>. QED BY <2>10, <2>w, <3>1, <3>2 DEF ServiceWrite, SetOdometer, TypeOK
  <2>11. CASE Abort(s)
    BY <2>11, <2>w DEF Abort, TypeOK
  <2>. QED BY <1>4, <2>1, <2>2, <2>3, <2>4, <2>5, <2>6, <2>7, <2>8, <2>9, <2>10, <2>11 DEF StaffStep
<1>. QED BY <1>1, <1>2, <1>3, <1>4 DEF Next

-----------------------------------------------------------------------------
(* The invariant. *)

(* A form that is written stays the form of its contract and kind, and one *)
(* that has been discarded stays discarded.                                *)
LEMMA FormsLast ==
  ASSUME VehicleFileInv, [Next]_vars
  PROVE  \A f \in Form : form[f] # Unwritten =>
           /\ form'[f] # Unwritten /\ form'[f].c = form[f].c /\ form'[f].kind = form[f].kind
           /\ form[f].deleted => form'[f].deleted
<1> USE DEF VehicleFileInv
<1>t. form \in [Form -> {Unwritten} \cup Forms]
  BY DEF TypeOK
<1>1. CASE form' = form
  BY <1>1
<1>2. ASSUME NEW g \in Form, NEW c \in Contract, NEW kind \in Kinds, NEW km \in Km, NEW M \in SUBSET Mark,
             RecordHandover(g, c, kind, km, M), NEW f \in Form, form[f] # Unwritten
      PROVE  form'[f] = form[f]
  BY <1>2, <1>t DEF RecordHandover
<1>3. ASSUME NEW s \in Staff, EditWrite(s) \/ DiscardWrite(s) \/ SignWrite(s),
             NEW f \in Form, form[f] # Unwritten
      PROVE  /\ form'[f] # Unwritten /\ form'[f].c = form[f].c /\ form'[f].kind = form[f].kind
             /\ form[f].deleted => form'[f].deleted
  <2> DEFINE r == request[s]
  <2>1. r.f \in Form
    BY <1>3, RequestFields DEF EditWrite, DiscardWrite, SignWrite, TypeOK
  <2>2. form[f] \in Forms
    BY <1>3, <1>t
  <2>3. \/ form'[f] = form[f]
        \/ form'[f] = [form[f] EXCEPT !.amended = TRUE]
        \/ form'[f] = [form[f] EXCEPT !.deleted = TRUE]
        \/ form'[f] = [form[f] EXCEPT !.state = "SIGNED"]
    BY <1>3, <1>t, <2>1 DEF EditWrite, DiscardWrite, SignWrite, Signed
  <2>4. form'[f] \in Forms
    BY <2>2, <2>3, FormWrites
  <2>. QED BY <2>2, <2>3, <2>4, FormFields DEF Forms
<1>. QED BY <1>1, <1>2, <1>3 DEF Next, StaffStep, vars, paper, EndContract, EditRead, DiscardRead,
         SignRead, MarkRead, UnmarkRead, PhotographRead, ReadingRead, ServiceRead, MarkWrite, UnmarkWrite,
         PhotographWrite, ReadingWrite, ServiceWrite, Abort

(* Only the start of a form writes one, and only where none of its kind    *)
(* stands.                                                                 *)
LEMMA FormsBegin ==
  ASSUME VehicleFileInv, [Next]_vars, NEW g \in Form, form[g] = Unwritten, form'[g] # Unwritten
  PROVE  /\ form'[g] \in Forms
         /\ ~AlreadyOfKind(form'[g].c, form'[g].kind)
         /\ \A f \in Form \ {g} : form'[f] = form[f]
<1> USE DEF VehicleFileInv
<1>t. form \in [Form -> {Unwritten} \cup Forms]
  BY DEF TypeOK
<1>1. ASSUME NEW h \in Form, NEW c \in Contract, NEW kind \in Kinds, NEW km \in Km, NEW M \in SUBSET Mark,
             RecordHandover(h, c, kind, km, M)
      PROVE  /\ form'[g] \in Forms
             /\ ~AlreadyOfKind(form'[g].c, form'[g].kind)
             /\ \A f \in Form \ {g} : form'[f] = form[f]
  <2> DEFINE new == [state |-> "DRAFT", c |-> c, kind |-> kind, km |-> km, amended |-> FALSE, deleted |-> FALSE]
  <2>1. new \in Forms /\ new.c = c /\ new.kind = kind
    BY DEF Forms, FormStates
  <2>2. form' = [form EXCEPT ![h] = new] /\ ~AlreadyOfKind(c, kind)
    BY <1>1 DEF RecordHandover
  <2> HIDE DEF new
  <2>3. h = g /\ form'[g] = new
    BY <1>t, <2>2
  <2>. QED BY <1>t, <2>1, <2>2, <2>3
<1>2. ASSUME NEW s \in Staff, EditWrite(s) \/ DiscardWrite(s) \/ SignWrite(s) PROVE FALSE
  <2> DEFINE r == request[s]
  <2>1. r.f \in Form /\ form[r.f] # Unwritten
    BY <1>2, RequestFields DEF EditWrite, DiscardWrite, SignWrite, TypeOK, FoundFit
  <2>2. r.f # g
    BY <2>1
  <2>. QED BY <1>2, <1>t, <2>1, <2>2 DEF EditWrite, DiscardWrite, SignWrite
<1>. QED BY <1>1, <1>2 DEF Next, StaffStep, vars, paper, EndContract, EditRead, DiscardRead,
         SignRead, MarkRead, UnmarkRead, PhotographRead, ReadingRead, ServiceRead, MarkWrite, UnmarkWrite,
         PhotographWrite, ReadingWrite, ServiceWrite, Abort

LEMMA OneStandsStep ==
  ASSUME VehicleFileInv, [Next]_vars
  PROVE  OneStandsEach'
<1> SUFFICES ASSUME NEW f \in Form, NEW g \in Form, Stands(f)', Stands(g)',
                    form'[f].c = form'[g].c, form'[f].kind = form'[g].kind
             PROVE  f = g
  BY DEF OneStandsEach
<1>w. form'[f] # Unwritten /\ form'[g] # Unwritten /\ ~form'[f].deleted /\ ~form'[g].deleted
  BY DEF Stands
<1>1. CASE form[f] # Unwritten /\ form[g] # Unwritten
  <2>1. Stands(f) /\ Stands(g) /\ form[f].c = form[g].c /\ form[f].kind = form[g].kind
    BY <1>1, <1>w, FormsLast DEF Stands
  <2>. QED BY <2>1 DEF VehicleFileInv, OneStandsEach
<1>2. ASSUME NEW x \in Form, NEW y \in Form, form[x] = Unwritten, form'[x] # Unwritten,
             form'[y] # Unwritten, ~form'[y].deleted,
             form'[x].c = form'[y].c, form'[x].kind = form'[y].kind, x # y
      PROVE  FALSE
  <2>1. /\ ~AlreadyOfKind(form'[x].c, form'[x].kind)
        /\ form'[y] = form[y]
    BY <1>2, FormsBegin
  <2>2. Stands(y) /\ form[y].c = form'[x].c /\ form[y].kind = form'[x].kind
    BY <1>2, <2>1 DEF Stands
  <2>. QED BY <2>1, <2>2 DEF AlreadyOfKind, FormsOf
<1>. QED BY <1>1, <1>2, <1>w

(* What a request that begins here has found, and no more needs to last    *)
(* than that its form was written.                                         *)
Fit(r) ==
  /\ r.op \in {"edit", "discard", "mark", "unmark"} => r.seen = "DRAFT"
  /\ r.op \in {"edit", "discard", "mark", "unmark", "sign"} => form[r.f] # Unwritten
  /\ r.op \in {"sign", "read", "service"} => r.km >= r.seen

LEMMA FoundFitStep ==
  ASSUME VehicleFileInv, [Next]_vars
  PROVE  FoundFit'
<1> USE VehicleFileAssumption DEF VehicleFileInv
<1>q. request \in [Staff -> Requests]
  BY DEF TypeOK
<1>1. ASSUME NEW t \in Staff PROVE request'[t] = request[t] \/ request'[t] = Idle \/ Fit(request'[t])
  <2> USE DEF Ask, Respond
  <2>1. CASE request' = request
    BY <2>1
  <2>2. ASSUME NEW s \in Staff, NEW f \in Form, EditRead(s, f) \/ DiscardRead(s, f) PROVE Fit(request'[s])
    BY <2>2, <1>q DEF EditRead, DiscardRead, OpenDraft, Stands, Fit
  <2>3. ASSUME NEW s \in Staff, NEW f \in Form, SignRead(s, f) PROVE Fit(request'[s])
    BY <2>3, <1>q DEF SignRead, OpenDraft, Stands, ValidReading, Fit
  <2>4. ASSUME NEW s \in Staff, NEW f \in Form, NEW m \in Mark, MarkRead(s, f, m) PROVE Fit(request'[s])
    BY <2>4, <1>q DEF MarkRead, OpenDraft, Stands, Fit
  <2>5. ASSUME NEW s \in Staff, NEW m \in Mark, UnmarkRead(s, m) \/ PhotographRead(s, m) PROVE Fit(request'[s])
    BY <2>5, <1>q DEF UnmarkRead, PhotographRead, OpenDraft, Stands, Fit
  <2>6. ASSUME NEW s \in Staff, NEW v \in Vehicle, NEW km \in Km, ReadingRead(s, v, km) PROVE Fit(request'[s])
    BY <2>6, <1>q DEF ReadingRead, ValidReading, Fit
  <2>7. ASSUME NEW s \in Staff, NEW v \in Vehicle, NEW r \in Record, NEW km \in Km, ServiceRead(s, v, r, km)
        PROVE  Fit(request'[s])
    BY <2>7, <1>q DEF ServiceRead, ValidReading, Fit
  <2>8. ASSUME NEW s \in Staff, StaffStep(s) PROVE \A u \in Staff \ {s} : request'[u] = request[u]
    BY <2>8, <1>q DEF StaffStep, EditRead, DiscardRead, SignRead, MarkRead, UnmarkRead, PhotographRead,
       ReadingRead, ServiceRead, EditWrite, MarkWrite, UnmarkWrite, PhotographWrite, DiscardWrite,
       SignWrite, ReadingWrite, ServiceWrite, Abort
  <2>9. ASSUME NEW s \in Staff,
               EditWrite(s) \/ MarkWrite(s) \/ UnmarkWrite(s) \/ PhotographWrite(s) \/ DiscardWrite(s)
               \/ SignWrite(s) \/ ReadingWrite(s) \/ ServiceWrite(s) \/ Abort(s)
        PROVE  request'[s] = Idle
    BY <2>9, <1>q DEF EditWrite, MarkWrite, UnmarkWrite, PhotographWrite, DiscardWrite, SignWrite,
       ReadingWrite, ServiceWrite, Abort
  <2>10. ASSUME NEW s \in Staff, StaffStep(s) PROVE request'[s] = Idle \/ Fit(request'[s])
    <3>1. CASE \E f \in Form : EditRead(s, f) \/ DiscardRead(s, f) \/ SignRead(s, f)
      BY <3>1, <2>2, <2>3
    <3>2. CASE \/ \E f \in Form, m \in Mark : MarkRead(s, f, m)
               \/ \E m \in Mark : UnmarkRead(s, m) \/ PhotographRead(s, m)
      BY <3>2, <2>4, <2>5
    <3>3. CASE \/ \E v \in Vehicle, km \in Km : ReadingRead(s, v, km)
               \/ \E v \in Vehicle, r \in Record, km \in Km : ServiceRead(s, v, r, km)
      BY <3>3, <2>6, <2>7
    <3>. QED BY <2>10, <2>9, <3>1, <3>2, <3>3 DEF StaffStep
  <2>11. CASE \E s \in Staff : StaffStep(s)
    <3>1. PICK s \in Staff : StaffStep(s)
      BY <2>11
    <3>2. CASE t = s
      BY <3>1, <3>2, <2>10
    <3>3. CASE t # s
      BY <3>1, <3>3, <2>8
    <3>. QED BY <3>2, <3>3
  <2>12. CASE ~\E s \in Staff : StaffStep(s)
    BY <2>1, <2>12 DEF Next, vars, EndContract, RecordHandover
  <2>. QED BY <2>11, <2>12
<1>2. TypeOK'
  BY TypeStep
<1>3. ASSUME NEW t \in Staff
      PROVE  /\ request'[t].op \in {"edit", "discard", "mark", "unmark"} => request'[t].seen = "DRAFT"
             /\ request'[t].op \in {"edit", "discard", "mark", "unmark", "sign"}
                  => form'[request'[t].f] # Unwritten
             /\ request'[t].op \in {"sign", "read", "service"} => request'[t].km >= request'[t].seen
  <2>1. request'[t] \in Requests
    BY <1>2 DEF TypeOK
  <2>2. Fit(request[t])
    BY DEF FoundFit, Fit
  <2>3. Fit(Idle)
    BY DEF Fit, Idle
  <2>4. Fit(request'[t])
    BY <1>1, <2>2, <2>3
  <2>5. request'[t].op \in {"edit", "discard", "mark", "unmark", "sign"} => form'[request'[t].f] # Unwritten
    BY <2>1, <2>4, RequestFields, FormsLast DEF Fit
  <2>. QED BY <2>4, <2>5 DEF Fit
<1>. QED BY <1>3 DEF FoundFit

LEMMA MarksStep ==
  ASSUME VehicleFileInv, [Next]_vars
  PROVE  MarksAreOnForms'
<1> USE VehicleFileAssumption DEF VehicleFileInv
<1>t. mark \in [Mark -> Form \cup {NoForm}] /\ form \in [Form -> {Unwritten} \cup Forms]
  BY DEF TypeOK
<1>1. ASSUME NEW m \in Mark, mark'[m] # NoForm
      PROVE  \/ mark'[m] = mark[m]
             \/ (mark'[m] \in Form /\ form'[mark'[m]] # Unwritten)
  <2>1. CASE mark' = mark
    BY <2>1
  <2>2. ASSUME NEW f \in Form, NEW c \in Contract, NEW kind \in Kinds, NEW km \in Km, NEW M \in SUBSET Mark,
               RecordHandover(f, c, kind, km, M)
        PROVE  mark'[m] = mark[m] \/ (mark'[m] \in Form /\ form'[mark'[m]] # Unwritten)
    <3>1. form'[f] # Unwritten
      BY <2>2, <1>t DEF RecordHandover, Unwritten
    <3>. QED BY <2>2, <3>1 DEF RecordHandover
  <2>3. ASSUME NEW s \in Staff, MarkWrite(s)
        PROVE  mark'[m] = mark[m] \/ (mark'[m] \in Form /\ form'[mark'[m]] # Unwritten)
    <3>1. request[s].f \in Form /\ form[request[s].f] # Unwritten /\ UNCHANGED form
      BY <2>3, RequestFields DEF MarkWrite, FoundFit, TypeOK
    <3>. QED BY <2>3, <3>1, <1>t DEF MarkWrite
  <2>4. ASSUME NEW s \in Staff, UnmarkWrite(s) PROVE mark'[m] = mark[m]
    BY <1>1, <2>4, <1>t DEF UnmarkWrite
  <2>. QED BY <2>1, <2>2, <2>3, <2>4 DEF Next, StaffStep, vars, paper, EndContract, EditRead, DiscardRead,
           SignRead, MarkRead, UnmarkRead, PhotographRead, ReadingRead, ServiceRead, EditWrite, DiscardWrite,
           SignWrite, PhotographWrite, ReadingWrite, ServiceWrite, Abort
<1>2. ASSUME NEW m \in Mark, mark'[m] # NoForm PROVE form'[mark'[m]] # Unwritten
  <2>1. CASE mark'[m] = mark[m]
    <3>1. mark[m] \in Form /\ form[mark[m]] # Unwritten
      BY <1>2, <2>1, <1>t DEF MarksAreOnForms
    <3>. QED BY <2>1, <3>1, FormsLast
  <2>. QED BY <1>1, <1>2, <2>1
<1>. QED BY <1>2 DEF MarksAreOnForms

LEMMA InvHolds == Spec => []VehicleFileInv
<1>1. Init => VehicleFileInv
  BY TypeInit DEF Init, VehicleFileInv, OneStandsEach, FoundFit, MarksAreOnForms, Stands, Idle
<1>2. VehicleFileInv /\ [Next]_vars => VehicleFileInv'
  BY TypeStep, OneStandsStep, FoundFitStep, MarksStep DEF VehicleFileInv
<1>. QED BY <1>1, <1>2, PTL DEF Spec
-----------------------------------------------------------------------------
(* The theorems. *)

(* Every row is one the schema allows, and every running request one that  *)
(* a handler starts.                                                       *)
THEOREM TypeCorrect == Spec => []TypeOK
<1>1. VehicleFileInv => TypeOK
  BY DEF VehicleFileInv
<1>. QED BY <1>1, InvHolds, PTL

(* A customer is charged for one figure each way: never two signed         *)
(* readings of a kind on one contract.                                     *)
THEOREM OneFigure == Spec => []OneFigureEachWay
<1>1. ASSUME VehicleFileInv PROVE OneFigureEachWay
  <2> SUFFICES ASSUME NEW c \in Contract, NEW kind \in Kinds PROVE Cardinality(SignedKm(c, kind)) <= 1
    BY DEF OneFigureEachWay
  <2>1. ASSUME NEW a \in SignedKm(c, kind), NEW b \in SignedKm(c, kind) PROVE a = b
    <3>1. PICK f \in FormsOf(c) : form[f].kind = kind /\ a = form[f].km
      BY DEF SignedKm
    <3>2. PICK g \in FormsOf(c) : form[g].kind = kind /\ b = form[g].km
      BY DEF SignedKm
    <3>3. f = g
      BY <1>1, <3>1, <3>2 DEF FormsOf, VehicleFileInv, OneStandsEach
    <3>. QED BY <3>1, <3>2, <3>3
  <2>2. CASE SignedKm(c, kind) = {}
    BY <2>2, FS_EmptySet
  <2>3. CASE SignedKm(c, kind) # {}
    <3>1. PICK a : a \in SignedKm(c, kind)
      BY <2>3
    <3>2. SignedKm(c, kind) = {a}
      BY <2>1, <3>1
    <3>3. Cardinality({a}) = 1
      BY FS_Singleton
    <3>. QED BY <3>2, <3>3
  <2>. QED BY <2>2, <2>3
<1>. QED BY <1>1, InvHolds, PTL

(* An odometer that comes back down does so by a signature or a service    *)
(* whose reading was of another value.                                     *)
LEMMA MileageStep ==
  ASSUME VehicleFileInv, [Next]_vars, NEW v \in Vehicle, mileage'[v] < mileage[v]
  PROVE  \E s \in Staff : /\ request[s].op \in {"sign", "service"}
                          /\ request[s].v = v /\ request[s].seen # mileage[v]
                          /\ request'[s] = Idle
<1> USE DEF VehicleFileInv
<1>t. /\ mileage \in [Vehicle -> Km] /\ request \in [Staff -> Requests]
      /\ mileage[v] \in Int
  BY VehicleFileAssumption DEF TypeOK, Km
<1>1. mileage'[v] # mileage[v]
  BY <1>t
<1>2. PICK s \in Staff : SignWrite(s) \/ ReadingWrite(s) \/ ServiceWrite(s)
  BY <1>1 DEF Next, StaffStep, vars, clock, EndContract, RecordHandover, EditRead, DiscardRead, SignRead,
     MarkRead, UnmarkRead, PhotographRead, ReadingRead, ServiceRead, EditWrite, MarkWrite, UnmarkWrite,
     PhotographWrite, DiscardWrite, Abort
<1> DEFINE r == request[s]
<1>3. r.op \in {"sign", "read", "service"} /\ r.v \in Vehicle /\ r.seen \in Int /\ r.km \in Int
  BY <1>2, <1>t, RequestFields, VehicleFileAssumption DEF SignWrite, ReadingWrite, ServiceWrite, Km
<1>4. mileage' = [mileage EXCEPT ![r.v] = r.km] /\ request'[s] = Idle
  BY <1>2, <1>t DEF SignWrite, ReadingWrite, ServiceWrite, SetOdometer, Respond
<1>5. r.v = v /\ mileage'[v] = r.km
  BY <1>1, <1>3, <1>4, <1>t
<1>6. r.km < mileage[v]
  BY <1>5
<1>7. r.op # "read"
  <2>1. ASSUME ReadingWrite(s) PROVE FALSE
    BY <2>1, <1>t, <1>3, <1>5, <1>6 DEF ReadingWrite, NotOvertaken
  <2>. QED BY <1>2, <2>1 DEF SignWrite, ServiceWrite
<1>8. r.km >= r.seen
  BY <1>3 DEF FoundFit
<1>9. r.seen # mileage[v]
  BY <1>3, <1>6, <1>8, <1>t
<1>. QED BY <1>3, <1>4, <1>5, <1>7, <1>9

(* A signed form, or the marks on its diagram, change only by a request    *)
(* that found it a draft.                                                  *)
LEMMA SignedStep ==
  ASSUME VehicleFileInv, [Next]_vars, NEW f \in Form,
         form[f] # Unwritten, form[f].state = "SIGNED", OnFile(f)' # OnFile(f)
  PROVE  \E s \in Staff : /\ request[s].op \in {"edit", "mark", "unmark", "discard"}
                          /\ request[s].f = f /\ request[s].seen = "DRAFT"
                          /\ request'[s] = Idle
<1> USE VehicleFileAssumption DEF VehicleFileInv
<1>t. /\ form \in [Form -> {Unwritten} \cup Forms] /\ mark \in [Mark -> Form \cup {NoForm}]
      /\ request \in [Staff -> Requests] /\ form[f] \in Forms
  BY DEF TypeOK
<1>0. ~(form'[f] = form[f] /\ \A m \in Mark : mark'[m] = f <=> mark[m] = f)
  BY DEF OnFile
<1>1. ASSUME NEW g \in Form, NEW c \in Contract, NEW kind \in Kinds, NEW km \in Km, NEW M \in SUBSET Mark,
             RecordHandover(g, c, kind, km, M)
      PROVE  FALSE
  <2>1. g # f
    BY <1>1 DEF RecordHandover
  <2>2. form'[f] = form[f]
    BY <1>1, <1>t, <2>1 DEF RecordHandover
  <2>3. ASSUME NEW m \in Mark PROVE mark'[m] = f <=> mark[m] = f
    BY <1>1, <1>t, <2>1 DEF RecordHandover
  <2>. QED BY <1>0, <2>2, <2>3
<1>2. ASSUME NEW s \in Staff, SignWrite(s) PROVE FALSE
  <2>1. [form[f] EXCEPT !.state = "SIGNED"] = form[f]
    BY <1>t DEF Forms
  <2>2. form'[f] = form[f] /\ mark' = mark
    BY <1>2, <1>t, <2>1 DEF SignWrite, Signed
  <2>. QED BY <1>0, <2>2
<1>3. PICK s \in Staff : EditWrite(s) \/ MarkWrite(s) \/ UnmarkWrite(s) \/ DiscardWrite(s)
  <2>1. ~(form' = form /\ mark' = mark)
    BY <1>0
  <2>. QED BY <1>1, <1>2, <2>1 DEF Next, StaffStep, vars, paper, EndContract, EditRead, DiscardRead,
       SignRead, MarkRead, UnmarkRead, PhotographRead, ReadingRead, ServiceRead, PhotographWrite,
       ReadingWrite, ServiceWrite, Abort
<1> DEFINE r == request[s]
<1>4. /\ r.op \in {"edit", "mark", "unmark", "discard"} /\ r.seen = "DRAFT" /\ r.f \in Form
      /\ r.op \in {"mark", "unmark"} => r.m \in Mark
  BY <1>3, <1>t, RequestFields DEF EditWrite, MarkWrite, UnmarkWrite, DiscardWrite, FoundFit
<1>5. request'[s] = Idle
  BY <1>3, <1>t DEF EditWrite, MarkWrite, UnmarkWrite, DiscardWrite, Respond
<1>6. r.f = f
  <2>1. CASE EditWrite(s) \/ DiscardWrite(s)
    BY <2>1, <1>0, <1>t DEF EditWrite, DiscardWrite
  <2>2. CASE MarkWrite(s)
    <3>1. SUFFICES ASSUME r.f # f PROVE \A m \in Mark : mark'[m] = f <=> mark[m] = f
      BY <2>2, <1>0 DEF MarkWrite
    <3>. QED BY <2>2, <3>1, <1>t DEF MarkWrite
  <2>3. CASE UnmarkWrite(s)
    <3>1. SUFFICES ASSUME r.f # f PROVE \A m \in Mark : mark'[m] = f <=> mark[m] = f
      BY <2>3, <1>0 DEF UnmarkWrite
    <3>. QED BY <2>3, <3>1, <1>t DEF UnmarkWrite
  <2>. QED BY <1>3, <2>1, <2>2, <2>3
<1>. QED BY <1>4, <1>5, <1>6

(* Only an overtaken request takes a reading back or changes a form that   *)
(* was signed, whatever the fleet and however many work at once.           *)
THEOREM OnlyTheOvertakenUndo == Spec => OnlyOvertakenUndoes
<1>1. ASSUME VehicleFileInv, [Next]_vars
      PROVE  \A v \in Vehicle : mileage'[v] < mileage[v] =>
               \E s \in Staff : /\ request[s].op \in {"sign", "service"}
                                /\ request[s].v = v /\ request[s].seen # mileage[v]
                                /\ request'[s] = Idle
  BY <1>1, MileageStep
<1>2. ASSUME VehicleFileInv, [Next]_vars
      PROVE  \A f \in Form : form[f] # Unwritten /\ form[f].state = "SIGNED" /\ OnFile(f)' # OnFile(f) =>
               \E s \in Staff : /\ request[s].op \in {"edit", "mark", "unmark", "discard"}
                                /\ request[s].f = f /\ request[s].seen = "DRAFT"
                                /\ request'[s] = Idle
  BY <1>2, SignedStep
<1>. QED BY <1>1, <1>2, InvHolds, PTL DEF Spec, OnlyOvertakenUndoes, OnlyOvertakenTakesItBack,
         OnlyOvertakenChangesTheSigned
=============================================================================
