-------------------------------- MODULE Audit --------------------------------
(***************************************************************************)
(* The audit log: a Prisma extension runs around every statement, reads    *)
(* the rows before it, and again after an updateMany, and writes the       *)
(* audit rows.  It does both through the base client, on a connection of   *)
(* its own: what it reads is what is committed, and what it writes is      *)
(* committed at once, whatever becomes of the transaction it is called in. *)
(*                                                                         *)
(* A row is a version: 0 when there never was one, v when statement v      *)
(* wrote it, -v when statement v deleted it, so that one can see which     *)
(* change an audit row tells of.  PostgreSQL's part (row locks, read       *)
(* committed) is external.                                                 *)
(***************************************************************************)
EXTENDS Integers, FiniteSets

CONSTANTS
  Row,        \* rows of audited models
  Client,     \* requests and jobs that write
  MaxVersion, \* bound: the statements that run
  MaxFaults   \* bound: transactions rolled back, processes that die

VARIABLES
  table,     \* committed version of each row
  own,       \* what each open transaction has written and not committed
  mode,      \* out of a transaction ("bare") or in one ("tx")
  call,      \* where each client's statement is
  log,       \* audit rows: the row, its version before and after
  version,   \* the last version written
  blind,     \* versions written out of the base client's sight
  faults

vars == <<table, own, mode, call, log, version, blind, faults>>

Operations == {"create", "update", "upsert", "delete", "updateMany", "deleteMany"}
Versions == -MaxVersion..MaxVersion
Same == MaxVersion + 1
NoWrites == [r \in Row |-> Same]
Idle == [op |-> "idle"]

Calls ==
  {Idle}
  \cup [op : Operations, at : {"before"}, rows : SUBSET Row, seen : [Row -> Versions]]
  \cup [op : Operations, at : {"after"}, rows : SUBSET Row, seen : [Row -> Versions], new : Versions,
        hit : SUBSET Row]

Entries == Row \X Versions \X Versions

-----------------------------------------------------------------------------

(* What a client's statement finds: its own writes over what is committed. *)
View(c) == [r \in Row |-> IF own[c][r] = Same THEN table[r] ELSE own[c][r]]

(* A row another transaction has written is locked until that ends.        *)
RowLocked(c, r) == \E d \in Client \ {c} : own[d][r] # Same

(* The rows of a call a statement can act on: create makes one, upsert     *)
(* does either, the others need it to exist.                               *)
Hits(op, S, view) ==
  CASE op = "create" -> {r \in S : view[r] <= 0}
    [] op = "upsert" -> S
    [] OTHER -> {r \in S : view[r] > 0}

Deletes == {"delete", "deleteMany"}

Init ==
  /\ table \in [Row -> {0, 1}]
  /\ own = [c \in Client |-> NoWrites]
  /\ mode = [c \in Client |-> "bare"]
  /\ call = [c \in Client |-> Idle]
  /\ log = {}
  /\ version = 1
  /\ blind = {}
  /\ faults = 0

Begin(c) ==
  /\ mode[c] = "bare" /\ call[c] = Idle
  /\ mode' = [mode EXCEPT ![c] = "tx"]
  /\ UNCHANGED <<table, own, call, log, version, blind, faults>>

(* The "before" read, which create does without.  The single-row calls     *)
(* name one row.                                                           *)
Before(c, op, S) ==
  /\ call[c] = Idle
  /\ op \notin {"updateMany", "deleteMany"} => Cardinality(S) = 1
  /\ call' = [call EXCEPT ![c] =
       [op |-> op, at |-> "before", rows |-> S, seen |-> table]]
  /\ UNCHANGED <<table, own, mode, log, version, blind, faults>>

(* An updateMany in a transaction, or a change of a row that was not       *)
(* committed yet when the base client looked.                              *)
Unsighted(c, q, H) ==
  \/ mode[c] = "tx" /\ q.op = "updateMany"
  \/ q.op \in {"update", "updateMany", "deleteMany"} /\ \E r \in H : q.seen[r] <= 0

(* The statement itself, on the caller's connection.                       *)
Query(c) ==
  LET q == call[c]
      H == Hits(q.op, q.rows, View(c))
      v == IF q.op \in Deletes THEN -(version + 1) ELSE version + 1 IN
  /\ q # Idle /\ q.at = "before"
  /\ version < MaxVersion
  /\ H # {} \* create, update and delete throw; the others do nothing
  /\ \A r \in H : ~RowLocked(c, r)
  /\ version' = version + 1
  /\ IF mode[c] = "bare"
     THEN table' = [r \in Row |-> IF r \in H THEN v ELSE table[r]] /\ UNCHANGED own
     ELSE own' = [own EXCEPT ![c] = [r \in Row |-> IF r \in H THEN v ELSE @[r]]] /\ UNCHANGED table
  /\ blind' = IF Unsighted(c, q, H) THEN blind \cup {v} ELSE blind
  /\ call' = [call EXCEPT ![c] =
       [op |-> q.op, at |-> "after", rows |-> q.rows, seen |-> q.seen, new |-> v, hit |-> H]]
  /\ UNCHANGED <<mode, log, faults>>

(* Mutant: an upsert that updates is not audited. *)
EntriesOfCreates(q, now) ==
  {<<r, q.seen[r], q.new>> : r \in {h \in q.hit : q.op # "upsert" \/ q.seen[h] <= 0}}

(* The audit rows of a call.  `now` is the table as the base client finds  *)
(* it after the statement: updateMany goes by it, and by what it found     *)
(* before.                                                                 *)
EntriesOf(q, now) ==
  CASE q.op = "update" -> {<<r, q.seen[r], q.new>> : r \in {h \in q.hit : q.seen[h] > 0}}
    [] q.op = "updateMany" ->
         {<<r, q.seen[r], now[r]>> : r \in {h \in q.rows : q.seen[h] > 0 /\ now[h] > q.seen[h]}}
    [] q.op = "deleteMany" -> {<<r, q.seen[r], q.new>> : r \in {h \in q.rows : q.seen[h] > 0}}
    [] OTHER -> {<<r, q.seen[r], q.new>> : r \in q.hit}

After(c) ==
  LET q == call[c] IN
  /\ q # Idle /\ q.at = "after"
  /\ log' = log \cup EntriesOf(q, table)
  /\ call' = [call EXCEPT ![c] = Idle]
  /\ UNCHANGED <<table, own, mode, version, blind, faults>>

Commit(c) ==
  /\ mode[c] = "tx" /\ call[c] = Idle
  /\ table' = View(c)
  /\ own' = [own EXCEPT ![c] = NoWrites]
  /\ mode' = [mode EXCEPT ![c] = "bare"]
  /\ UNCHANGED <<call, log, version, blind, faults>>

(* A statement, an audit write or the process fails: an open transaction   *)
(* is rolled back, a bare statement that ran stays.                        *)
Fail(c) ==
  /\ mode[c] = "tx" \/ call[c] # Idle
  /\ faults < MaxFaults
  /\ faults' = faults + 1
  /\ own' = [own EXCEPT ![c] = NoWrites]
  /\ mode' = [mode EXCEPT ![c] = "bare"]
  /\ call' = [call EXCEPT ![c] = Idle]
  /\ UNCHANGED <<table, log, version, blind>>

Next ==
  \E c \in Client :
    \/ Begin(c)
    \/ \E op \in Operations, S \in (SUBSET Row) \ {{}} : Before(c, op, S)
    \/ Query(c)
    \/ After(c)
    \/ Commit(c)
    \/ Fail(c)

Spec == Init /\ [][Next]_vars

-----------------------------------------------------------------------------
(* Type correctness of the rows, the calls and the log. *)
TypeOK ==
  /\ table \in [Row -> Versions]
  /\ own \in [Client -> [Row -> Versions \cup {Same}]]
  /\ mode \in [Client -> {"bare", "tx"}]
  /\ call \in [Client -> Calls]
  /\ log \subseteq Entries
  /\ version \in 1..MaxVersion /\ blind \subseteq Versions
  /\ faults \in 0..MaxFaults

(* "an audit row cannot be forgotten", as far as it goes: every version    *)
(* that stands in the table once nothing is under way has an audit row     *)
(* that tells of it, however transactions interleave, but for failures and *)
(* for what was written out of the base client's sight.                    *)
Told(r) == \E e \in log : e[1] = r /\ e[3] = table[r]

NothingElseIsForgotten ==
  (\A c \in Client : call[c] = Idle) /\ faults = 0 =>
    \A r \in Row : table[r] \notin {0, 1} \cup blind => Told(r)

-----------------------------------------------------------------------------
(* What the repository says and the code does not do.                      *)

(* "an audit row cannot be forgotten"                                      *)
NoneIsForgotten ==
  (\A c \in Client : call[c] = Idle) /\ faults = 0 =>
    \A r \in Row : table[r] \notin {0, 1} => Told(r)
=============================================================================
