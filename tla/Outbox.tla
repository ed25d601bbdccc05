------------------------------- MODULE Outbox -------------------------------
(***************************************************************************)
(* Telling people: notifications raised by the nightly jobs are emailed by *)
(* the deliver-notifications job, which keeps a delivery row per notice    *)
(* and person.  A run gathers what each person is owed, sends one message  *)
(* per person and then marks each row; it may die anywhere, the mail       *)
(* server may refuse, fail for now, or take the message and lose the       *)
(* answer, and nothing stops two runs at once.                             *)
(*                                                                         *)
(* claimDeliveries writes the missing rows and reads the pending ones in   *)
(* two statements: between them a row only stands where the notice was     *)
(* undelivered anyway, so they are one action.                             *)
(***************************************************************************)
EXTENDS Integers, FiniteSets

CONSTANTS
  Notice,      \* notifications that can be raised
  Person,      \* people with an address
  Worker,      \* deliver-notifications processes
  LOOKBACK,    \* LOOKBACK_DAYS: older notices are not announced
  Take,        \* the most notices one run considers
  MaxDate,     \* bound: the last day
  MaxDeaths,   \* bound: how often a process dies
  MaxBounces   \* bound: how often the mail server does not simply accept

VARIABLES
  date,        \* today
  raisedAt,    \* the day each notice was raised; Never before
  readAt,      \* notices somebody has marked read, for everybody
  wants,       \* people active, entitled and with email switched on
  delivery,    \* status of each delivery row; NONE when there is no row
  skipped,     \* notices with a SKIPPED row
  mails,       \* messages each person has really got about each notice
  worker,      \* where each process is
  deaths,      \* processes that died
  bounces,     \* messages the server did not simply accept
  lost         \* those of them that went out all the same

faults == <<deaths, bounces, lost>>
rows == <<delivery, skipped>>
vars == <<date, raisedAt, readAt, wants, rows, mails, worker, faults>>

Never == -1
Statuses == {"NONE", "PENDING", "SENT", "FAILED"}
Outcomes == {"ok", "retryable", "permanent"}
Off == [phase |-> "off"]

Workers ==
  {Off}
  \cup [phase : {"gather"}, todo : SUBSET Notice, batch : [Person -> SUBSET Notice]]
  \cup [phase : {"mark"}, batch : [Person -> SUBSET Notice], p : Person,
        left : SUBSET Notice, outcome : Outcomes]

-----------------------------------------------------------------------------

Raised(n) == raisedAt[n] # Never

(* Mutant: only what was never attempted. *)
NeverAttempted(n) == n \notin skipped /\ \A p \in Person : delivery[n][p] = "NONE"

(* "two cases, not one": never attempted, or left PENDING for somebody.    *)
ToHandle(n) ==
  \/ n \notin skipped /\ \A p \in Person : delivery[n][p] = "NONE"
  \/ \E p \in Person : delivery[n][p] = "PENDING"

(* undeliveredNotifications: recent, unread, still to be handled. *)
Undelivered ==
  {n \in Notice : Raised(n) /\ raisedAt[n] >= date - LOOKBACK /\ n \notin readAt /\ ToHandle(n)}

(* orderBy createdAt, take: the oldest first. *)
FirstOf(S) ==
  {T \in SUBSET S : /\ Cardinality(T) = (IF Cardinality(S) < Take THEN Cardinality(S) ELSE Take)
                    /\ \A n \in T, m \in S \ T : raisedAt[n] <= raisedAt[m]}

(* Mutant: every row is taken up again. *)
RowTaken(status) == status # "NONE"

(* "SENT is finished. FAILED is left alone here". *)
RowPending(status) == status = "PENDING"

Init ==
  /\ date = 0
  /\ raisedAt = [n \in Notice |-> Never]
  /\ readAt = {}
  /\ wants = Person
  /\ delivery = [n \in Notice |-> [p \in Person |-> "NONE"]]
  /\ skipped = {}
  /\ mails = [n \in Notice |-> [p \in Person |-> 0]]
  /\ worker = [w \in Worker |-> Off]
  /\ deaths = 0
  /\ bounces = 0
  /\ lost = 0

(* A nightly job creates the notification (skipDuplicates). *)
Raise(n) ==
  /\ ~Raised(n)
  /\ raisedAt' = [raisedAt EXCEPT ![n] = date]
  /\ UNCHANGED <<date, readAt, wants, rows, mails, worker, faults>>

(* markNotificationRead: "Read marks a notification read for everybody". *)
MarkNotificationRead(n) ==
  /\ Raised(n) /\ n \notin readAt
  /\ readAt' = readAt \cup {n}
  /\ UNCHANGED <<date, raisedAt, wants, rows, mails, worker, faults>>

(* setEmailNotifications, setUserActive, or a permission taken away. *)
SetWants(p) ==
  /\ wants' = IF p \in wants THEN wants \ {p} ELSE wants \cup {p}
  /\ UNCHANGED <<date, raisedAt, readAt, rows, mails, worker, faults>>

Midnight ==
  /\ date < MaxDate
  /\ date' = date + 1
  /\ UNCHANGED <<raisedAt, readAt, wants, rows, mails, worker, faults>>

-----------------------------------------------------------------------------
(* runDeliverNotifications. *)

RunStart(w) ==
  /\ worker[w] = Off
  /\ Undelivered # {} \* otherwise a run changes nothing
  /\ \E T \in FirstOf(Undelivered) :
       worker' = [worker EXCEPT ![w] =
         [phase |-> "gather", todo |-> T, batch |-> [p \in Person |-> {}]]]
  /\ UNCHANGED <<date, raisedAt, readAt, wants, rows, mails, faults>>

(* recipientsFor is empty: markSkipped, "recorded, not passed over". *)
Skip(w, n) ==
  LET r == worker[w] IN
  /\ r.phase = "gather" /\ n \in r.todo
  /\ wants = {}
  /\ skipped' = skipped \cup {n}
  /\ worker' = [worker EXCEPT ![w].todo = @ \ {n}]
  /\ UNCHANGED <<date, raisedAt, readAt, wants, delivery, mails, faults>>

(* claimDeliveries: a row for each recipient without one, and into each    *)
(* recipient's batch what is pending.                                      *)
Claim(w, n) ==
  LET r == worker[w]
      row == [p \in Person |->
               IF p \in wants /\ delivery[n][p] = "NONE" THEN "PENDING" ELSE delivery[n][p]] IN
  /\ r.phase = "gather" /\ n \in r.todo
  /\ wants # {}
  /\ delivery' = [delivery EXCEPT ![n] = row]
  /\ worker' = [worker EXCEPT ![w] =
       [phase |-> "gather", todo |-> r.todo \ {n},
        batch |-> [p \in Person |->
                    IF p \in wants /\ RowPending(row[p]) THEN r.batch[p] \cup {n} ELSE r.batch[p]]]]
  /\ UNCHANGED <<date, raisedAt, readAt, wants, skipped, mails, faults>>

(* adapter.send, one message for everything a person is owed.  A failure   *)
(* is one the server answered, or an answer that never came: then the      *)
(* message may have gone out.                                              *)
Send(w, p, outcome, goesOut) ==
  LET r == worker[w] IN
  /\ r.phase = "gather" /\ r.todo = {} /\ r.batch[p] # {}
  /\ outcome = "ok" => goesOut
  /\ outcome = "permanent" => ~goesOut
  /\ bounces' = IF outcome = "ok" THEN bounces ELSE bounces + 1
  /\ bounces' <= MaxBounces
  /\ lost' = IF outcome # "ok" /\ goesOut THEN lost + 1 ELSE lost
  /\ mails' = [n \in Notice |-> [mails[n] EXCEPT ![p] =
       IF n \in r.batch[p] /\ goesOut THEN @ + 1 ELSE @]]
  /\ worker' = [worker EXCEPT ![w] =
       [phase |-> "mark", batch |-> [r.batch EXCEPT ![p] = {}], p |-> p, left |-> r.batch[p],
        outcome |-> outcome]]
  /\ UNCHANGED <<date, raisedAt, readAt, wants, rows, deaths>>

(* Mutant: a failure that may pass is taken for a success. *)
MarkedSent(outcome) == IF outcome = "permanent" THEN "FAILED" ELSE "SENT"

(* markDelivered, markFailed: a retryable failure stays PENDING. *)
Marked(outcome) ==
  CASE outcome = "ok" -> "SENT" [] outcome = "retryable" -> "PENDING" [] OTHER -> "FAILED"

Mark(w, n) ==
  LET r == worker[w] IN
  /\ r.phase = "mark" /\ n \in r.left
  /\ delivery' = [delivery EXCEPT ![n][r.p] = Marked(r.outcome)]
  /\ worker' = [worker EXCEPT ![w] =
       IF r.left = {n} THEN [phase |-> "gather", todo |-> {}, batch |-> r.batch]
       ELSE [r EXCEPT !.left = @ \ {n}]]
  /\ UNCHANGED <<date, raisedAt, readAt, wants, skipped, mails, faults>>

RunEnd(w) ==
  LET r == worker[w] IN
  /\ r.phase = "gather" /\ r.todo = {} /\ \A p \in Person : r.batch[p] = {}
  /\ worker' = [worker EXCEPT ![w] = Off]
  /\ UNCHANGED <<date, raisedAt, readAt, wants, rows, mails, faults>>

(* The process is killed, or a query throws: the next run takes over. *)
Die(w) ==
  /\ worker[w] # Off
  /\ deaths < MaxDeaths
  /\ deaths' = deaths + 1
  /\ worker' = [worker EXCEPT ![w] = Off]
  /\ UNCHANGED <<date, raisedAt, readAt, wants, rows, mails, bounces, lost>>

RunStep(w) ==
  \/ RunStart(w)
  \/ \E n \in Notice : Skip(w, n) \/ Claim(w, n) \/ Mark(w, n)
  \/ \E p \in Person, outcome \in Outcomes, goesOut \in BOOLEAN : Send(w, p, outcome, goesOut)
  \/ RunEnd(w)

Next ==
  \/ Midnight
  \/ \E n \in Notice : Raise(n) \/ MarkNotificationRead(n)
  \/ \E p \in Person : SetWants(p)
  \/ \E w \in Worker : RunStep(w) \/ Die(w)

Spec == Init /\ [][Next]_vars

(* Cron starts a run every day; one that is not killed goes on, and the    *)
(* mail server answers or the connection times out.                        *)
FairSpec == Spec /\ \A w \in Worker : WF_vars(RunStep(w))

-----------------------------------------------------------------------------
(* Type correctness of the delivery log and the processes. *)
TypeOK ==
  /\ date \in 0..MaxDate
  /\ raisedAt \in [Notice -> 0..MaxDate \cup {Never}]
  /\ readAt \subseteq Notice /\ wants \subseteq Person /\ skipped \subseteq Notice
  /\ delivery \in [Notice -> [Person -> Statuses]]
  /\ mails \in [Notice -> [Person -> Nat]]
  /\ worker \in [Worker -> Workers]
  /\ deaths \in 0..MaxDeaths /\ bounces \in 0..MaxBounces /\ lost \in 0..bounces

(* The log can be believed: who it says was told has the message, and      *)
(* nobody has one without a row that was claimed first.                    *)
LogIsTrue ==
  \A n \in Notice, p \in Person :
    /\ delivery[n][p] = "SENT" => mails[n][p] > 0
    /\ mails[n][p] > 0 => delivery[n][p] # "NONE"

(* A second message about the same thing takes a process that died between *)
(* sending and marking, or an answer the mail server's connection lost, as *)
(* long as runs do not overlap.                                            *)
ToldAgainOnlyAfterAFault ==
  \A n \in Notice, p \in Person : mails[n][p] <= 1 + deaths + lost

(* Nothing is stranded: a person with a claimed row is told, or the mail   *)
(* server has refused for good, or it is not wanted any more, or somebody  *)
(* has dealt with it, or it is too old to announce.                        *)
NobodyIsStranded ==
  \A n \in Notice, p \in Person :
    delivery[n][p] = "PENDING" ~>
      \/ delivery[n][p] \in {"SENT", "FAILED"}
      \/ p \notin wants \/ n \in readAt \/ raisedAt[n] < date - LOOKBACK

-----------------------------------------------------------------------------
(* What the repository says and the code does not do.                      *)

(* "a retried worker, or two workers running at once, cannot produce two   *)
(* emails about the same expiring licence".                                *)
NobodyIsToldTwice == \A n \in Notice, p \in Person : mails[n][p] <= 1
=============================================================================
