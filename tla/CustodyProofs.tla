---------------------------- MODULE CustodyProofs ----------------------------
(***************************************************************************)
(* Theorems about Custody, for every set of contracts, vehicles and staff. *)
(*                                                                         *)
(* OutOnLiveContract and LegalMoves are not inductive as they stand: what  *)
(* a running handler has read must still be good enough when it writes.    *)
(* CustodyInv adds what the contract's lock and the compare-and-set keep   *)
(* true of it between the two.                                             *)
(***************************************************************************)
EXTENDS Custody, TLAPS

(* The row lock excludes: one running transaction per locked contract. *)
LockExcludes ==
  \A s, t \in Staff :
    /\ request[s].op \in {"activate", "terminate"}
    /\ request[t].op \in {"activate", "terminate"}
    /\ request[s].c = request[t].c
    => s = t

(* What a termination read of its contract still holds, for the row is     *)
(* locked; what any handler decided follows from the status it will        *)
(* compare with.                                                           *)
ReadsStand ==
  \A s \in Staff :
    LET r == request[s] IN
    /\ r.op = "activate" =>
         /\ contract[r.c] # "NONE"
         /\ "ACTIVE" \in ContractMoves[contract[r.c]]
         /\ CanTransition(r.seen, OutStatus(r.c), r.own)
    /\ r.op = "terminate" =>
         /\ Live(r.c)
         /\ settlement[r.c] # "OPEN"
         /\ r.outcome \in ContractMoves[contract[r.c]]
         /\ CanTransition(r.seen, r.to, r.own)
    /\ r.op = "move" =>
         /\ CanTransition(r.seen, r.to, r.own)
         /\ r.to \notin ContractManagedStatuses
    /\ r.op = "reclassify" => (r.to = "B2B_SUPPLIER" => r.seen \notin {"RENTED", "SOLD"})
    /\ r.op = "delete" => r.seen \notin OnContractStatuses

CustodyInv ==
  /\ TypeOK
  /\ OneLiveContractPerCar
  /\ OutOnLiveContract
  /\ EndedIsReckoned
  /\ LockExcludes
  /\ ReadsStand

-----------------------------------------------------------------------------

LEMMA MoveTables ==
  /\ VehicleMoves \in [VehicleStatuses -> SUBSET VehicleStatuses]
  /\ ContractMoves \in [ContractStatuses -> SUBSET ContractStatuses]
BY DEF VehicleMoves, VehicleStatuses, ContractMoves, ContractStatuses

(* The fields of a request, by its kind. *)
LEMMA RequestFields ==
  ASSUME NEW r \in Requests
  PROVE  /\ r.op \in {"idle", "activate", "terminate", "move", "reclassify", "delete"}
         /\ r.op = "activate" => r.c \in Contract /\ r.seen \in VehicleStatuses /\ r.own \in Ownerships
         /\ r.op = "terminate" => /\ r.c \in Contract /\ r.seen \in VehicleStatuses
                                  /\ r.own \in Ownerships
                                  /\ r.to \in {"RETURNED", "SOLD"}
                                  /\ r.outcome \in EndedStatuses
         /\ r.op = "move" => /\ r.v \in Vehicle /\ r.seen \in VehicleStatuses
                             /\ r.own \in Ownerships /\ r.to \in VehicleStatuses
         /\ r.op = "reclassify" => r.v \in Vehicle /\ r.seen \in VehicleStatuses /\ r.to \in Ownerships
         /\ r.op = "delete" => r.v \in Vehicle /\ r.seen \in VehicleStatuses
BY DEF Requests, Idle

LEMMA StatusFacts ==
  /\ LiveStatuses \subseteq ContractStatuses
  /\ EndedStatuses \subseteq ContractStatuses
  /\ LiveStatuses \cap EndedStatuses = {}
  /\ "NONE" \notin ContractStatuses
  /\ ContractManagedStatuses \subseteq VehicleStatuses
  /\ \A c \in Contract : OutStatus(c) \in ContractManagedStatuses
  /\ {"RETURNED", "SOLD"} \subseteq VehicleStatuses \ ContractManagedStatuses
BY DEF LiveStatuses, EndedStatuses, ContractStatuses, ContractManagedStatuses,
       VehicleStatuses, OutStatus

(* Type correctness is inductive on its own. *)
LEMMA TypeInit == Init => TypeOK
BY DEF Init, TypeOK, Requests, VehicleStatuses

LEMMA TypeStep == TypeOK /\ [Next]_vars => TypeOK'
<1> USE CustodyAssumption
<1> SUFFICES ASSUME TypeOK, [Next]_vars PROVE TypeOK'
  OBVIOUS
<1>1. CASE UNCHANGED vars
  BY <1>1 DEF vars, TypeOK
<1>2. ASSUME NEW c \in Contract, ContractStep(c) PROVE TypeOK'
  BY <1>2 DEF ContractStep, CreateContract, RefreshContractStatus, OpenSettlement, SettleSettlement,
              TypeOK, LiveStatuses, ContractStatuses
<1>3. ASSUME NEW s \in Staff, StaffStep(s) PROVE TypeOK'
  <2> DEFINE r == request[s]
  <2>r. r \in Requests
    BY DEF TypeOK
  <2>1. ASSUME NEW c \in Contract, ActivateRead(s, c) PROVE TypeOK'
    <3>1. [op |-> "activate", c |-> c, seen |-> vehicle[CarOf[c]], own |-> ownership[CarOf[c]]] \in Requests
      BY DEF Requests, TypeOK
    <3>. QED BY <2>1, <3>1 DEF ActivateRead, TypeOK
  <2>2. ASSUME ActivateWrite(s) PROVE TypeOK'
    <3>1. r.c \in Contract
      BY <2>2, <2>r, RequestFields DEF ActivateWrite
    <3>2. OutStatus(r.c) \in VehicleStatuses
      BY <3>1, StatusFacts
    <3>. QED BY <2>2, <3>1, <3>2 DEF ActivateWrite, Respond, Requests, TypeOK, ContractStatuses
  <2>3. ASSUME NEW c \in Contract, NEW outcome \in EndedStatuses, NEW to \in {"RETURNED", "SOLD"},
               TerminateRead(s, c, outcome, to)
        PROVE  TypeOK'
    <3>1. [op |-> "terminate", c |-> c, seen |-> vehicle[CarOf[c]], own |-> ownership[CarOf[c]],
           to |-> to, outcome |-> outcome]
            \in Requests
      BY DEF Requests, TypeOK
    <3>. QED BY <2>3, <3>1 DEF TerminateRead, TypeOK
  <2>4. ASSUME TerminateWrite(s) PROVE TypeOK'
    <3>1. /\ r.c \in Contract
          /\ r.to \in VehicleStatuses
          /\ r.outcome \in ContractStatuses
      BY <2>4, <2>r, RequestFields, StatusFacts DEF TerminateWrite
    <3>. QED BY <2>4, <3>1 DEF TerminateWrite, Respond, Requests, TypeOK
  <2>5. ASSUME NEW v \in Vehicle, NEW to \in VehicleStatuses, MoveRead(s, v, to) PROVE TypeOK'
    <3>1. [op |-> "move", v |-> v, seen |-> vehicle[v], own |-> ownership[v], to |-> to] \in Requests
      BY DEF Requests, TypeOK
    <3>. QED BY <2>5, <3>1 DEF MoveRead, TypeOK
  <2>6. ASSUME MoveWrite(s) PROVE TypeOK'
    <3>1. r.to \in VehicleStatuses
      BY <2>6, <2>r, RequestFields DEF MoveWrite, StillAsRead
    <3>. QED BY <2>6, <3>1 DEF MoveWrite, Respond, Requests, TypeOK
  <2>7. ASSUME NEW v \in Vehicle, NEW to \in Ownerships, ReclassifyRead(s, v, to) PROVE TypeOK'
    <3>1. [op |-> "reclassify", v |-> v, seen |-> vehicle[v], to |-> to] \in Requests
      BY DEF Requests, TypeOK
    <3>. QED BY <2>7, <3>1 DEF ReclassifyRead, TypeOK
  <2>8. ASSUME ReclassifyWrite(s) PROVE TypeOK'
    <3>1. r.to \in Ownerships
      BY <2>8, <2>r, RequestFields DEF ReclassifyWrite
    <3>. QED BY <2>8, <3>1 DEF ReclassifyWrite, Respond, Requests, TypeOK
  <2>9. ASSUME NEW v \in Vehicle, DeleteRead(s, v) PROVE TypeOK'
    <3>1. [op |-> "delete", v |-> v, seen |-> vehicle[v]] \in Requests
      BY DEF Requests, TypeOK
    <3>. QED BY <2>9, <3>1 DEF DeleteRead, TypeOK
  <2>10. CASE DeleteWrite(s) \/ Abort(s)
    BY <2>10 DEF DeleteWrite, Abort, Respond, Requests, TypeOK
  <2>. QED BY <1>3, <2>1, <2>2, <2>3, <2>4, <2>5, <2>6, <2>7, <2>8, <2>9, <2>10 DEF StaffStep
<1>. QED BY <1>1, <1>2, <1>3 DEF Next

(* Every row keeps one of its enum's values and every running request the  *)
(* shape its handler gave it, for any contracts, vehicles and staff.       *)
THEOREM TypeCorrect == Spec => []TypeOK
BY TypeInit, TypeStep, PTL DEF Spec
-----------------------------------------------------------------------------

LEMMA InvInit == Init => CustodyInv
BY TypeInit, StatusFacts
   DEF Init, CustodyInv, OneLiveContractPerCar, OutOnLiveContract, EndedIsReckoned, LockExcludes,
       ReadsStand, Live, LiveStatuses, EndedStatuses, ContractManagedStatuses, Idle

(* A handler that only reads takes a lock nobody held and leaves every row *)
(* as it was.                                                              *)
LEMMA ReadStep ==
  ASSUME CustodyInv, TypeOK', NEW s \in Staff, NEW r \in Requests,
         UNCHANGED <<contract, settlement, vehicle, ownership, deleted>>,
         request' = [request EXCEPT ![s] = r],
         r.op \in {"activate", "terminate"} => ~Locked(r.c),
         r.op = "activate" => /\ contract[r.c] # "NONE"
                              /\ "ACTIVE" \in ContractMoves[contract[r.c]]
                              /\ CanTransition(r.seen, OutStatus(r.c), r.own),
         r.op = "terminate" => /\ Live(r.c)
                               /\ settlement[r.c] # "OPEN"
                               /\ r.outcome \in ContractMoves[contract[r.c]]
                               /\ CanTransition(r.seen, r.to, r.own),
         r.op = "move" => /\ CanTransition(r.seen, r.to, r.own)
                          /\ r.to \notin ContractManagedStatuses,
         r.op = "reclassify" /\ r.to = "B2B_SUPPLIER" => r.seen \notin {"RENTED", "SOLD"},
         r.op = "delete" => r.seen \notin OnContractStatuses
  PROVE  CustodyInv'
<1>1. OneLiveContractPerCar' /\ OutOnLiveContract' /\ EndedIsReckoned'
  BY DEF CustodyInv, OneLiveContractPerCar, OutOnLiveContract, EndedIsReckoned, Live, OutStatus
<1>2. /\ request'[s] = r
      /\ \A t \in Staff : t # s => request'[t] = request[t]
  BY DEF CustodyInv, TypeOK
<1>3. LockExcludes'
  BY <1>2 DEF CustodyInv, LockExcludes, Locked
<1>4. ReadsStand'
  <2> SUFFICES ASSUME NEW t \in Staff PROVE ReadsStand!(t)'
    BY DEF ReadsStand
  <2>1. CASE t = s
    BY <1>2, <2>1 DEF Live, OutStatus
  <2>2. CASE t # s
    BY <1>2, <2>2 DEF CustodyInv, ReadsStand, Live, OutStatus
  <2>. QED BY <2>1, <2>2
<1>. QED BY <1>1, <1>3, <1>4 DEF CustodyInv

(* What a write leaves standing for the other handlers: it gives up the    *)
(* writer's lock, and no other running handler holds the row it changed.   *)
LEMMA WriteStep ==
  ASSUME CustodyInv, TypeOK', NEW s \in Staff, Respond(s),
         \A c \in Contract :
           contract'[c] # contract[c] \/ settlement'[c] # settlement[c] =>
             request[s].op \in {"activate", "terminate"} /\ request[s].c = c
  PROVE  LockExcludes' /\ ReadsStand'
<1>1. /\ request'[s] = Idle
      /\ \A t \in Staff : t # s => request'[t] = request[t]
  BY DEF CustodyInv, TypeOK, Respond
<1>2. LockExcludes'
  BY <1>1 DEF CustodyInv, LockExcludes, Idle
<1>3. ReadsStand'
  <2> SUFFICES ASSUME NEW t \in Staff PROVE ReadsStand!(t)'
    BY DEF ReadsStand
  <2>1. CASE t = s
    BY <1>1, <2>1 DEF Idle
  <2>2. CASE t # s
    <3>1. request[t].op \in {"activate", "terminate"} =>
            /\ request[t].c \in Contract
            /\ contract'[request[t].c] = contract[request[t].c]
            /\ settlement'[request[t].c] = settlement[request[t].c]
      BY <2>2, RequestFields DEF CustodyInv, TypeOK, LockExcludes
    <3>. QED BY <1>1, <2>2, <3>1 DEF CustodyInv, ReadsStand, Live, OutStatus
  <2>. QED BY <2>1, <2>2
<1>. QED BY <1>2, <1>3

(* The two writes that change a contract's hold on its car. *)
LEMMA ActivateKeeps ==
  ASSUME CustodyInv, TypeOK', NEW s \in Staff, ActivateWrite(s)
  PROVE  CustodyInv'
<1>0. PICK c \in Contract : c = request[s].c
  BY RequestFields DEF CustodyInv, TypeOK, ActivateWrite
<1> DEFINE v == CarOf[c]
<1>1. /\ v \in Vehicle
      /\ OutStatus(c) \in ContractManagedStatuses
  BY StatusFacts, CustodyAssumption
<1>2. /\ contract' = [contract EXCEPT ![c] = "ACTIVE"]
      /\ vehicle' = [vehicle EXCEPT ![v] = OutStatus(c)]
      /\ \A d \in Contract : CarOf[d] = v => ~Live(d)
      /\ settlement' = settlement
      /\ contract \in [Contract -> ContractStatuses \cup {"NONE"}]
      /\ vehicle \in [Vehicle -> VehicleStatuses]
  BY <1>0 DEF ActivateWrite, IndexAllows, CustodyInv, TypeOK
<1>3. \A d \in Contract : d # c => (Live(d)' <=> Live(d))
  BY <1>1, <1>2 DEF Live
<1>4. Live(c)' /\ contract'[c] \notin EndedStatuses
  BY <1>1, <1>2 DEF Live, LiveStatuses, EndedStatuses
<1>5. OneLiveContractPerCar'
  BY <1>1, <1>2, <1>3 DEF CustodyInv, OneLiveContractPerCar
<1>6. OutOnLiveContract'
  <2> SUFFICES ASSUME NEW u \in Vehicle, vehicle'[u] \in ContractManagedStatuses
               PROVE  \E d \in Contract : Live(d)' /\ CarOf[d] = u /\ vehicle'[u] = OutStatus(d)
    BY DEF OutOnLiveContract, OutStatus
  <2>1. CASE u = v
    BY <1>1, <1>2, <1>4, <2>1
  <2>2. CASE u # v
    BY <1>1, <1>2, <1>3, <2>2 DEF CustodyInv, OutOnLiveContract
  <2>. QED BY <2>1, <2>2
<1>7. EndedIsReckoned'
  BY <1>1, <1>2, <1>4 DEF CustodyInv, EndedIsReckoned
<1>8. LockExcludes' /\ ReadsStand'
  BY <1>0, <1>2, WriteStep DEF ActivateWrite
<1>. QED BY <1>5, <1>6, <1>7, <1>8 DEF CustodyInv

LEMMA TerminateKeeps ==
  ASSUME CustodyInv, TypeOK', NEW s \in Staff, TerminateWrite(s)
  PROVE  CustodyInv'
<1>0. PICK c \in Contract : c = request[s].c
  BY RequestFields DEF CustodyInv, TypeOK, TerminateWrite
<1> DEFINE v == CarOf[c]
           r == request[s]
<1>1. /\ v \in Vehicle
      /\ r.to \in VehicleStatuses \ ContractManagedStatuses
      /\ r.outcome \in EndedStatuses
      /\ settlement[c] # "OPEN"
  BY <1>0, RequestFields, StatusFacts, CustodyAssumption
     DEF CustodyInv, TypeOK, TerminateWrite, ReadsStand
<1>2. /\ contract' = [contract EXCEPT ![c] = r.outcome]
      /\ vehicle' = [vehicle EXCEPT ![v] = r.to]
      /\ settlement' = settlement
      /\ contract \in [Contract -> ContractStatuses \cup {"NONE"}]
      /\ vehicle \in [Vehicle -> VehicleStatuses]
  BY <1>0 DEF TerminateWrite, CustodyInv, TypeOK
<1>3. \A d \in Contract : d # c => (Live(d)' <=> Live(d))
  BY <1>1, <1>2 DEF Live
<1>4. ~Live(c)'
  BY <1>1, <1>2, StatusFacts DEF Live
<1>5. OneLiveContractPerCar'
  BY <1>3, <1>4 DEF CustodyInv, OneLiveContractPerCar
<1>6. OutOnLiveContract'
  <2> SUFFICES ASSUME NEW u \in Vehicle, vehicle'[u] \in ContractManagedStatuses
               PROVE  \E d \in Contract : Live(d)' /\ CarOf[d] = u /\ vehicle'[u] = OutStatus(d)
    BY DEF OutOnLiveContract, OutStatus
  <2>1. u # v /\ vehicle'[u] = vehicle[u]
    BY <1>1, <1>2
  <2>2. PICK d \in Contract : Live(d) /\ CarOf[d] = u /\ vehicle[u] = OutStatus(d)
    BY <2>1 DEF CustodyInv, OutOnLiveContract
  <2>. QED BY <2>1, <2>2, <1>3
<1>7. EndedIsReckoned'
  BY <1>1, <1>2 DEF CustodyInv, EndedIsReckoned
<1>8. LockExcludes' /\ ReadsStand'
  BY <1>0, <1>2, WriteStep DEF TerminateWrite
<1>. QED BY <1>5, <1>6, <1>7, <1>8 DEF CustodyInv

(* A move by hand takes a car to a status no contract manages. *)
LEMMA MoveKeeps ==
  ASSUME CustodyInv, TypeOK', NEW s \in Staff, MoveWrite(s)
  PROVE  CustodyInv'
<1>1. /\ request[s].v \in Vehicle
      /\ request[s].to \notin ContractManagedStatuses
  BY RequestFields DEF CustodyInv, TypeOK, MoveWrite, ReadsStand
<1>2. OutOnLiveContract'
  BY <1>1 DEF MoveWrite, CustodyInv, TypeOK, OutOnLiveContract, Live, OutStatus
<1>3. OneLiveContractPerCar' /\ EndedIsReckoned'
  BY DEF MoveWrite, CustodyInv, OneLiveContractPerCar, EndedIsReckoned, Live
<1>4. LockExcludes' /\ ReadsStand'
  BY WriteStep DEF MoveWrite
<1>. QED BY <1>2, <1>3, <1>4 DEF CustodyInv

(* One-step transactions on a contract row: none runs while it is locked. *)
LEMMA ContractStepKeeps ==
  ASSUME CustodyInv, TypeOK', NEW c \in Contract, ContractStep(c)
  PROVE  CustodyInv'
<1>1. /\ vehicle' = vehicle /\ request' = request
      /\ contract \in [Contract -> ContractStatuses \cup {"NONE"}]
      /\ settlement \in [Contract -> {"NONE", "OPEN", "SETTLED"}]
  BY DEF ContractStep, CreateContract, RefreshContractStatus, OpenSettlement, SettleSettlement,
         CustodyInv, TypeOK
<1>2. \A d \in Contract : d # c => contract'[d] = contract[d] /\ settlement'[d] = settlement[d]
  BY <1>1 DEF ContractStep, CreateContract, RefreshContractStatus, OpenSettlement, SettleSettlement
<1>3. /\ Live(c)' <=> Live(c)
      /\ contract'[c] \in EndedStatuses => contract[c] \in EndedStatuses /\ settlement'[c] # "OPEN"
  BY <1>1, StatusFacts
     DEF ContractStep, CreateContract, RefreshContractStatus, OpenSettlement, SettleSettlement,
         CustodyInv, EndedIsReckoned, Live, LiveStatuses, EndedStatuses
<1>4. \A d \in Contract : Live(d)' <=> Live(d)
  BY <1>2, <1>3 DEF Live
<1>5. OneLiveContractPerCar' /\ OutOnLiveContract' /\ EndedIsReckoned'
  BY <1>1, <1>2, <1>3, <1>4
     DEF CustodyInv, OneLiveContractPerCar, OutOnLiveContract, EndedIsReckoned, OutStatus
<1>6. LockExcludes'
  BY <1>1 DEF CustodyInv, LockExcludes
<1>7. ReadsStand'
  <2>1. CASE CreateContract(c)
    <3>1. \A s \in Staff : request[s].op \in {"activate", "terminate"} => request[s].c # c
      BY <2>1, StatusFacts DEF CreateContract, CustodyInv, ReadsStand, Live
    <3>. QED BY <1>1, <1>2, <3>1, RequestFields DEF CustodyInv, TypeOK, ReadsStand, Live, OutStatus
  <2>2. CASE ~CreateContract(c)
    <3>1. \A s \in Staff : request[s].op \in {"activate", "terminate"} => request[s].c # c
      BY <2>2 DEF ContractStep, RefreshContractStatus, OpenSettlement, SettleSettlement, Locked
    <3>. QED BY <1>1, <1>2, <3>1, RequestFields DEF CustodyInv, TypeOK, ReadsStand, Live, OutStatus
  <2>. QED BY <2>1, <2>2
<1>. QED BY <1>5, <1>6, <1>7 DEF CustodyInv

LEMMA InvStep == CustodyInv /\ [Next]_vars => CustodyInv'
<1> SUFFICES ASSUME CustodyInv, [Next]_vars PROVE CustodyInv'
  OBVIOUS
<1>t. TypeOK'
  BY TypeStep DEF CustodyInv
<1>1. CASE UNCHANGED vars
  BY <1>1, <1>t DEF vars, CustodyInv, OneLiveContractPerCar, OutOnLiveContract, EndedIsReckoned,
                    LockExcludes, ReadsStand, Live, OutStatus
<1>2. ASSUME NEW c \in Contract, ContractStep(c) PROVE CustodyInv'
  BY <1>2, <1>t, ContractStepKeeps
<1>3. ASSUME NEW s \in Staff, StaffStep(s) PROVE CustodyInv'
  <2>1. ASSUME NEW c \in Contract, ActivateRead(s, c) PROVE CustodyInv'
    <3> DEFINE r == [op |-> "activate", c |-> c, seen |-> vehicle[CarOf[c]], own |-> ownership[CarOf[c]]]
    <3>1. r \in Requests
      BY CustodyAssumption DEF Requests, CustodyInv, TypeOK
    <3>. QED BY <1>t, <2>1, <3>1, ReadStep DEF ActivateRead
  <2>2. ASSUME NEW c \in Contract, NEW outcome \in EndedStatuses, NEW to \in {"RETURNED", "SOLD"},
               TerminateRead(s, c, outcome, to)
        PROVE  CustodyInv'
    <3> DEFINE r == [op |-> "terminate", c |-> c, seen |-> vehicle[CarOf[c]], own |-> ownership[CarOf[c]],
                     to |-> to, outcome |-> outcome]
    <3>1. r \in Requests
      BY CustodyAssumption DEF Requests, CustodyInv, TypeOK
    <3>. QED BY <1>t, <2>2, <3>1, ReadStep DEF TerminateRead
  <2>3. ASSUME NEW v \in Vehicle, NEW to \in VehicleStatuses, MoveRead(s, v, to) PROVE CustodyInv'
    <3> DEFINE r == [op |-> "move", v |-> v, seen |-> vehicle[v], own |-> ownership[v], to |-> to]
    <3>1. r \in Requests
      BY DEF Requests, CustodyInv, TypeOK
    <3>. QED BY <1>t, <2>3, <3>1, ReadStep DEF MoveRead
  <2>4. ASSUME NEW v \in Vehicle, NEW to \in Ownerships, ReclassifyRead(s, v, to) PROVE CustodyInv'
    <3> DEFINE r == [op |-> "reclassify", v |-> v, seen |-> vehicle[v], to |-> to]
    <3>1. r \in Requests
      BY DEF Requests, CustodyInv, TypeOK
    <3>. QED BY <1>t, <2>4, <3>1, ReadStep DEF ReclassifyRead
  <2>5. ASSUME NEW v \in Vehicle, DeleteRead(s, v) PROVE CustodyInv'
    <3> DEFINE r == [op |-> "delete", v |-> v, seen |-> vehicle[v]]
    <3>1. r \in Requests
      BY DEF Requests, CustodyInv, TypeOK
    <3>. QED BY <1>t, <2>5, <3>1, ReadStep DEF DeleteRead
  <2>6. CASE ReclassifyWrite(s) \/ DeleteWrite(s) \/ Abort(s)
    <3>1. LockExcludes' /\ ReadsStand'
      BY <1>t, <2>6, WriteStep DEF ReclassifyWrite, DeleteWrite, Abort
    <3>2. OneLiveContractPerCar' /\ OutOnLiveContract' /\ EndedIsReckoned'
      BY <2>6 DEF ReclassifyWrite, DeleteWrite, Abort, CustodyInv, OneLiveContractPerCar,
                  OutOnLiveContract, EndedIsReckoned, Live, OutStatus
    <3>. QED BY <1>t, <3>1, <3>2 DEF CustodyInv
  <2>. QED BY <1>3, <1>t, <2>1, <2>2, <2>3, <2>4, <2>5, <2>6, ActivateKeeps, TerminateKeeps, MoveKeeps
           DEF StaffStep
<1>. QED BY <1>1, <1>2, <1>3 DEF Next

LEMMA InvHolds == Spec => []CustodyInv
BY InvInit, InvStep, PTL DEF Spec

(* However activations race, no car is ever on two live contracts. *)
THEOREM CarOnOneContract == Spec => []OneLiveContractPerCar
<1>1. CustodyInv => OneLiveContractPerCar
  BY DEF CustodyInv
<1>. QED BY <1>1, InvHolds, PTL

(* Whatever hand moves, activations and terminations race, a car that is   *)
(* Rented or on Lease-to-own is out on a live contract of that type.       *)
THEOREM OutCarHasContract == Spec => []OutOnLiveContract
<1>1. CustodyInv => OutOnLiveContract
  BY DEF CustodyInv
<1>. QED BY <1>1, InvHolds, PTL

(* No contract ends with its reckoning still open. *)
THEOREM NoOpenReckoningAtTheEnd == Spec => []EndedIsReckoned
<1>1. CustodyInv => EndedIsReckoned
  BY DEF CustodyInv
<1>. QED BY <1>1, InvHolds, PTL

(* What a write does, in terms the theorems below share: to the car of its *)
(* contract or of its move, and to nothing else.                           *)
LEMMA WriteEffect ==
  ASSUME CustodyInv, Next
  PROVE  \/ /\ vehicle' = vehicle
            /\ \A c \in Contract : contract'[c] # contract[c] =>
                 \/ contract[c] = "NONE" /\ contract'[c] = "DRAFT"
                 \/ Live(c) /\ contract'[c] \in LiveStatuses \cap ContractMoves[contract[c]]
         \/ \E c \in Contract :
              /\ contract' = [contract EXCEPT ![c] = "ACTIVE"]
              /\ contract[c] \in {"DRAFT", "PENDING"}
              /\ "ACTIVE" \in ContractMoves[contract[c]]
              /\ \A d \in Contract : CarOf[d] = CarOf[c] => ~Live(d)
              /\ vehicle' = [vehicle EXCEPT ![CarOf[c]] = OutStatus(c)]
              /\ OutStatus(c) \in VehicleMoves[vehicle[CarOf[c]]]
         \/ \E c \in Contract, outcome \in EndedStatuses, to \in {"RETURNED", "SOLD"} :
              /\ Live(c)
              /\ outcome \in ContractMoves[contract[c]]
              /\ contract' = [contract EXCEPT ![c] = outcome]
              /\ to \in VehicleMoves[vehicle[CarOf[c]]]
              /\ vehicle' = [vehicle EXCEPT ![CarOf[c]] = to]
         \/ \E v \in Vehicle, to \in VehicleStatuses \ ContractManagedStatuses :
              /\ contract' = contract
              /\ to \in VehicleMoves[vehicle[v]]
              /\ vehicle' = [vehicle EXCEPT ![v] = to]
<1>1. ASSUME NEW c \in Contract, ContractStep(c)
      PROVE  /\ vehicle' = vehicle
             /\ \A d \in Contract : contract'[d] # contract[d] =>
                  \/ contract[d] = "NONE" /\ contract'[d] = "DRAFT"
                  \/ Live(d) /\ contract'[d] \in LiveStatuses \cap ContractMoves[contract[d]]
  BY <1>1 DEF ContractStep, CreateContract, RefreshContractStatus, OpenSettlement, SettleSettlement,
              CustodyInv, TypeOK
<1>2. ASSUME NEW s \in Staff, StaffStep(s), ~ActivateWrite(s), ~TerminateWrite(s), ~MoveWrite(s)
      PROVE  vehicle' = vehicle /\ contract' = contract
  BY <1>2 DEF StaffStep, ActivateRead, TerminateRead, MoveRead, ReclassifyRead, ReclassifyWrite,
              DeleteRead, DeleteWrite, Abort
<1>3. ASSUME NEW s \in Staff
      PROVE  /\ ReadsStand!(s)
             /\ request[s] \in Requests
  BY DEF CustodyInv, ReadsStand, TypeOK
<1>4. ASSUME NEW s \in Staff, ActivateWrite(s)
      PROVE  \E c \in Contract :
              /\ contract' = [contract EXCEPT ![c] = "ACTIVE"]
              /\ contract[c] \in {"DRAFT", "PENDING"}
              /\ "ACTIVE" \in ContractMoves[contract[c]]
              /\ \A d \in Contract : CarOf[d] = CarOf[c] => ~Live(d)
              /\ vehicle' = [vehicle EXCEPT ![CarOf[c]] = OutStatus(c)]
              /\ OutStatus(c) \in VehicleMoves[vehicle[CarOf[c]]]
  BY <1>3, <1>4, RequestFields DEF ActivateWrite, IndexAllows, StillAsRead, CanTransition
<1>5. ASSUME NEW s \in Staff, TerminateWrite(s)
      PROVE  \E c \in Contract, outcome \in EndedStatuses, to \in {"RETURNED", "SOLD"} :
              /\ Live(c)
              /\ outcome \in ContractMoves[contract[c]]
              /\ contract' = [contract EXCEPT ![c] = outcome]
              /\ to \in VehicleMoves[vehicle[CarOf[c]]]
              /\ vehicle' = [vehicle EXCEPT ![CarOf[c]] = to]
  BY <1>3, <1>5, RequestFields DEF TerminateWrite, StillAsRead, CanTransition
<1>6. ASSUME NEW s \in Staff, MoveWrite(s)
      PROVE  \E v \in Vehicle, to \in VehicleStatuses \ ContractManagedStatuses :
              /\ contract' = contract
              /\ to \in VehicleMoves[vehicle[v]]
              /\ vehicle' = [vehicle EXCEPT ![v] = to]
  BY <1>3, <1>6, RequestFields DEF MoveWrite, StillAsRead, CanTransition
<1>. QED BY <1>1, <1>2, <1>4, <1>5, <1>6 DEF Next

(* Races included, no step takes a car or a contract along an edge its     *)
(* status table does not have.                                             *)
THEOREM OnlyLegalMoves == Spec => LegalMoves
<1>1. CustodyInv /\ [Next]_vars => [MovesAreLegal]_vars
  <2> SUFFICES ASSUME CustodyInv, Next PROVE MovesAreLegal
    OBVIOUS
  <2>1. /\ contract \in [Contract -> ContractStatuses \cup {"NONE"}]
        /\ vehicle \in [Vehicle -> VehicleStatuses]
    BY DEF CustodyInv, TypeOK
  <2>. QED BY <2>1, WriteEffect, StatusFacts, CustodyAssumption DEF MovesAreLegal, Live
<1>. QED BY <1>1, InvHolds, PTL DEF Spec, LegalMoves

(* A car goes out in the very step that makes its contract live, and a     *)
(* contract stops being live in the very step that brings its car in.      *)
THEOREM CarAndContractTogether == Spec => TogetherOrNotAtAll
<1>1. CustodyInv /\ [Next]_vars => [GoesOutAndComesInTogether]_vars
  <2> SUFFICES ASSUME CustodyInv, Next PROVE GoesOutAndComesInTogether
    OBVIOUS
  <2>1. /\ contract \in [Contract -> ContractStatuses \cup {"NONE"}]
        /\ vehicle \in [Vehicle -> VehicleStatuses]
    BY DEF CustodyInv, TypeOK
  <2>. QED BY <2>1, WriteEffect, StatusFacts, CustodyAssumption
           DEF GoesOutAndComesInTogether, Live, LiveStatuses
<1>. QED BY <1>1, InvHolds, PTL DEF Spec, TogetherOrNotAtAll

(* A supplier's car on a plain rental, one sold outright, and a car out    *)
(* that disappears from the fleet all come of a write that was overtaken:  *)
(* nothing else misplaces a car.                                           *)
THEOREM MisplacingNeedsARace == Spec => OnlyOvertakenMisplaces
<1>1. CustodyInv /\ [Next]_vars => [MisplacedByTheOvertaken]_vars
  <2> SUFFICES ASSUME CustodyInv, Next, NEW v \in Vehicle, Misplaced(v)
               PROVE  \E s \in Staff : /\ request[s] # Idle /\ request'[s] = Idle
                                       /\ Car(request[s]) = v /\ Overtaken(request[s])
    BY DEF MisplacedByTheOvertaken
  <2>t. /\ vehicle \in [Vehicle -> VehicleStatuses]
        /\ ownership \in [Vehicle -> Ownerships]
        /\ deleted \in [Vehicle -> BOOLEAN]
        /\ request \in [Staff -> Requests]
    BY DEF CustodyInv, TypeOK
  <2>w. PICK s \in Staff : \/ ActivateWrite(s) \/ TerminateWrite(s) \/ MoveWrite(s)
                          \/ ReclassifyWrite(s) \/ DeleteWrite(s)
    <3>1. ASSUME UNCHANGED <<vehicle, ownership, deleted>> PROVE FALSE
      BY <3>1 DEF Misplaced
    <3>2. ASSUME NEW c \in Contract, ContractStep(c) PROVE FALSE
      BY <3>1, <3>2 DEF ContractStep, CreateContract, RefreshContractStatus, OpenSettlement,
                        SettleSettlement
    <3>3. ASSUME NEW s \in Staff, StaffStep(s), ~ActivateWrite(s), ~TerminateWrite(s), ~MoveWrite(s),
                 ~ReclassifyWrite(s), ~DeleteWrite(s)
          PROVE  FALSE
      BY <3>1, <3>3 DEF StaffStep, ActivateRead, TerminateRead, MoveRead, ReclassifyRead, DeleteRead,
                        Abort
    <3>. QED BY <3>2, <3>3 DEF Next
  <2> DEFINE r == request[s]
  <2>r. /\ r \in Requests
        /\ ReadsStand!(s)
        /\ r # Idle /\ request'[s] = Idle
    BY <2>t, <2>w DEF CustodyInv, ReadsStand, ActivateWrite, TerminateWrite, MoveWrite,
                      ReclassifyWrite, DeleteWrite, Respond, Idle
  <2>1. CASE ActivateWrite(s)
    <3>1. /\ r.op = "activate" /\ r.c \in Contract /\ r.own \in Ownerships
          /\ r.seen = vehicle[CarOf[r.c]]
          /\ vehicle' = [vehicle EXCEPT ![CarOf[r.c]] = OutStatus(r.c)]
          /\ ownership' = ownership /\ deleted' = deleted
      BY <2>1, <2>r, RequestFields DEF ActivateWrite, StillAsRead
    <3>2. /\ CarOf[r.c] = v
          /\ ownership[v] = "B2B_SUPPLIER"
          /\ ~OwnershipAllows(vehicle[v], vehicle'[v], "B2B_SUPPLIER")
      BY <3>1, <2>t, CustodyAssumption DEF Misplaced
    <3>3. OwnershipAllows(vehicle[v], vehicle'[v], r.own)
      BY <3>1, <3>2, <2>r, <2>t DEF CanTransition
    <3>. QED BY <3>1, <3>2, <3>3, <2>r DEF Car, Overtaken, OwnershipAllows
  <2>2. CASE TerminateWrite(s)
    <3>1. /\ r.op = "terminate" /\ r.c \in Contract /\ r.own \in Ownerships
          /\ r.seen = vehicle[CarOf[r.c]]
          /\ vehicle' = [vehicle EXCEPT ![CarOf[r.c]] = r.to]
          /\ ownership' = ownership /\ deleted' = deleted
      BY <2>2, <2>r, RequestFields DEF TerminateWrite, StillAsRead
    <3>2. /\ CarOf[r.c] = v
          /\ ownership[v] = "B2B_SUPPLIER"
          /\ ~OwnershipAllows(vehicle[v], vehicle'[v], "B2B_SUPPLIER")
      BY <3>1, <2>t, CustodyAssumption DEF Misplaced
    <3>3. OwnershipAllows(vehicle[v], vehicle'[v], r.own)
      BY <3>1, <3>2, <2>r, <2>t DEF CanTransition
    <3>. QED BY <3>1, <3>2, <3>3, <2>r DEF Car, Overtaken, OwnershipAllows
  <2>3. CASE MoveWrite(s)
    <3>1. /\ r.op = "move" /\ r.v \in Vehicle /\ r.own \in Ownerships
          /\ r.seen = vehicle[r.v]
          /\ vehicle' = [vehicle EXCEPT ![r.v] = r.to]
          /\ ownership' = ownership /\ deleted' = deleted
      BY <2>3, <2>r, RequestFields DEF MoveWrite, StillAsRead
    <3>2. /\ r.v = v
          /\ ownership[v] = "B2B_SUPPLIER"
          /\ ~OwnershipAllows(vehicle[v], vehicle'[v], "B2B_SUPPLIER")
      BY <3>1, <2>t DEF Misplaced
    <3>3. OwnershipAllows(vehicle[v], vehicle'[v], r.own)
      BY <3>1, <3>2, <2>r, <2>t DEF CanTransition
    <3>. QED BY <3>1, <3>2, <3>3, <2>r DEF Car, Overtaken, OwnershipAllows
  <2>4. CASE ReclassifyWrite(s)
    <3>1. /\ r.op = "reclassify" /\ r.v \in Vehicle
          /\ ownership' = [ownership EXCEPT ![r.v] = r.to]
          /\ vehicle' = vehicle /\ deleted' = deleted
      BY <2>4, <2>r, RequestFields DEF ReclassifyWrite
    <3>2. /\ r.v = v /\ r.to = "B2B_SUPPLIER"
          /\ vehicle[v] \in {"RENTED", "SOLD"}
      BY <3>1, <2>t DEF Misplaced, OwnershipAllows
    <3>. QED BY <3>1, <3>2, <2>r DEF Car, Overtaken
  <2>5. CASE DeleteWrite(s)
    <3>1. /\ r.op = "delete" /\ r.v \in Vehicle
          /\ deleted' = [deleted EXCEPT ![r.v] = TRUE]
          /\ vehicle' = vehicle /\ ownership' = ownership
      BY <2>5, <2>r, RequestFields DEF DeleteWrite
    <3>2. r.v = v /\ vehicle[v] \in OnContractStatuses
      BY <3>1, <2>t DEF Misplaced
    <3>. QED BY <3>1, <3>2, <2>r DEF Car, Overtaken
  <2>. QED BY <2>w, <2>1, <2>2, <2>3, <2>4, <2>5
<1>. QED BY <1>1, InvHolds, PTL DEF Spec, OnlyOvertakenMisplaces

(* Every behaviour of the handlers, their races included, is a behaviour   *)
(* of the abstract specification: each contract takes its car once, alone, *)
(* and gives it up for good.                                               *)
THEOREM CustodyImplementsCarHolding == Spec => ImplementsCarHolding
<1>1. Init => CH!Init
  BY StatusFacts DEF Init, CH!Init, HeldContracts, EndedContracts, CarsOut, Live, LiveStatuses,
                     EndedStatuses, ContractManagedStatuses
<1>2. CustodyInv /\ [Next]_vars => [CH!Next]_(CH!vars)
  <2> SUFFICES ASSUME CustodyInv, [Next]_vars PROVE [CH!Next]_(CH!vars)
    OBVIOUS
  <2>t. /\ contract \in [Contract -> ContractStatuses \cup {"NONE"}]
        /\ vehicle \in [Vehicle -> VehicleStatuses]
    BY DEF CustodyInv, TypeOK
  <2> USE DEF HeldContracts, EndedContracts, CarsOut, Live
  <2>1. CASE UNCHANGED vars
    BY <2>1 DEF vars, CH!vars
  <2>2. CASE /\ vehicle' = vehicle
             /\ \A c \in Contract : contract'[c] # contract[c] =>
                  \/ contract[c] = "NONE" /\ contract'[c] = "DRAFT"
                  \/ Live(c) /\ contract'[c] \in LiveStatuses \cap ContractMoves[contract[c]]
    BY <2>2, <2>t, StatusFacts DEF CH!vars, LiveStatuses, EndedStatuses
  <2>3. ASSUME NEW c \in Contract,
               contract' = [contract EXCEPT ![c] = "ACTIVE"],
               contract[c] \in {"DRAFT", "PENDING"},
               \A d \in Contract : CarOf[d] = CarOf[c] => ~Live(d),
               vehicle' = [vehicle EXCEPT ![CarOf[c]] = OutStatus(c)]
        PROVE  CH!Take(c)
    BY <2>3, <2>t, StatusFacts, CustodyAssumption DEF CH!Take, LiveStatuses, EndedStatuses
  <2>4. ASSUME NEW c \in Contract, NEW outcome \in EndedStatuses, NEW to \in {"RETURNED", "SOLD"},
               Live(c),
               contract' = [contract EXCEPT ![c] = outcome],
               vehicle' = [vehicle EXCEPT ![CarOf[c]] = to]
        PROVE  CH!Release(c)
    BY <2>4, <2>t, StatusFacts, CustodyAssumption DEF CH!Release, LiveStatuses, EndedStatuses
  <2>5. ASSUME NEW v \in Vehicle, NEW to \in VehicleStatuses \ ContractManagedStatuses,
               contract' = contract,
               vehicle' = [vehicle EXCEPT ![v] = to]
        PROVE  CH!ComeIn(v) \/ UNCHANGED CH!vars
    BY <2>5, <2>t DEF CH!ComeIn, CH!vars
  <2>. QED BY <2>1, <2>2, <2>3, <2>4, <2>5, WriteEffect DEF CH!Next
<1>. QED BY <1>1, <1>2, InvHolds, PTL DEF Spec, ImplementsCarHolding, CH!Spec
=============================================================================
