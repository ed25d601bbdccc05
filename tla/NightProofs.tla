----------------------------- MODULE NightProofs -----------------------------
(***************************************************************************)
(* Theorems about the nightly work: the delivery of notifications (O, of   *)
(* Outbox) and the expiry scan (P, of Papers), for every set of notices,   *)
(* people, papers and processes.  What is owed to suppliers is proved in   *)
(* SupplierProofs.                                                         *)
(***************************************************************************)
EXTENDS MCNight

-----------------------------------------------------------------------------
(* Outbox: what a process holds.                                           *)

(* The notices it still has to tell p of, and those it is marking for p.   *)
Batch(w, p) == IF worker[w].phase \in {"gather", "mark"} THEN worker[w].batch[p] ELSE {}

Marking(w, p) == IF worker[w].phase = "mark" /\ worker[w].p = p THEN worker[w].left ELSE {}

(* Those of them it marks as told. *)
Telling(w, p) == IF worker[w].phase = "mark" /\ worker[w].outcome = "ok" THEN Marking(w, p) ELSE {}

(* What it holds was claimed first, and what it marks as told went out.    *)
HeldIsClaimed ==
  \A w \in Worker, p \in Person :
    /\ \A n \in Batch(w, p) \cup Marking(w, p) : delivery[n][p] # "NONE"
    /\ \A n \in Telling(w, p) : mails[n][p] > 0

(* Without a second process, what is held is still pending, and it is      *)
(* either still to be sent or being marked.                                *)
HeldIsPending ==
  \A w \in Worker, p \in Person :
    /\ \A n \in Batch(w, p) \cup Marking(w, p) : delivery[n][p] = "PENDING"
    /\ Batch(w, p) \cap Marking(w, p) = {}

(* Every message but one is a death's or a lost answer's, and that one is  *)
(* in the log or about to be.                                              *)
Accounted ==
  \A n \in Notice, p \in Person :
    \/ mails[n][p] <= deaths + lost
    \/ /\ mails[n][p] <= 1 + deaths + lost
       /\ delivery[n][p] \in {"SENT", "FAILED"} \/ \E w \in Worker : n \in Telling(w, p)

Alone == \A v, w \in Worker : v = w

MailInv == O!TypeOK /\ O!LogIsTrue /\ HeldIsClaimed /\ (Alone => HeldIsPending /\ Accounted)

(* The fields of a process, by phase. *)
LEMMA WorkerFields ==
  ASSUME NEW r \in O!Workers
  PROVE  /\ r.phase \in {"off", "gather", "mark"}
         /\ r.phase = "off" <=> r = O!Off
         /\ r.phase = "gather" =>
              /\ r = [phase |-> "gather", todo |-> r.todo, batch |-> r.batch]
              /\ r.todo \in SUBSET Notice /\ r.batch \in [Person -> SUBSET Notice]
         /\ r.phase = "mark" =>
              /\ r = [phase |-> "mark", batch |-> r.batch, p |-> r.p, left |-> r.left,
                      outcome |-> r.outcome]
              /\ r.batch \in [Person -> SUBSET Notice] /\ r.p \in Person
              /\ r.left \in SUBSET Notice /\ r.outcome \in O!Outcomes
BY DEF O!Workers, O!Off

(* A field of such a record, rewritten. *)
LEMMA FieldsRewritten ==
  ASSUME NEW b, NEW t, NEW p, NEW o, NEW x, NEW r
  PROVE  /\ r = [phase |-> "gather", todo |-> t, batch |-> b] =>
              [r EXCEPT !.todo = x] = [phase |-> "gather", todo |-> x, batch |-> b]
         /\ r = [phase |-> "mark", batch |-> b, p |-> p, left |-> t, outcome |-> o] =>
              [r EXCEPT !.left = x] =
                [phase |-> "mark", batch |-> b, p |-> p, left |-> x, outcome |-> o]
OBVIOUS

LEMMA HeldAre ==
  ASSUME O!TypeOK, NEW w \in Worker, NEW p \in Person
  PROVE  Batch(w, p) \in SUBSET Notice /\ Marking(w, p) \in SUBSET Notice
BY WorkerFields DEF O!TypeOK, Batch, Marking

LEMMA HeldAreNext ==
  ASSUME O!TypeOK', NEW w \in Worker, NEW p \in Person
  PROVE  /\ Batch(w, p)' \in SUBSET Notice /\ Marking(w, p)' \in SUBSET Notice
         /\ Telling(w, p)' \subseteq Marking(w, p)'
<1>1. worker'[w] \in O!Workers
  BY DEF O!TypeOK
<1>. QED BY <1>1, WorkerFields DEF Batch, Marking, Telling

LEMMA MailTypeInit ==
  ASSUME MaxDate \in Nat, MaxDeaths \in Nat, MaxBounces \in Nat, O!Init
  PROVE  O!TypeOK
BY DEF O!Init, O!TypeOK, O!Statuses, O!Workers, O!Never

LEMMA MailTypeStep ==
  ASSUME MaxDate \in Nat, MaxDeaths \in Nat, MaxBounces \in Nat, O!TypeOK, O!Next
  PROVE  O!TypeOK'
<1> USE DEF O!TypeOK, O!rows, O!faults
<1>w. ASSUME NEW w \in Worker, NEW r \in O!Workers, worker' = [worker EXCEPT ![w] = r]
      PROVE  worker' \in [Worker -> O!Workers]
  BY <1>w
<1>f. ASSUME NEW w \in Worker
      PROVE  /\ worker[w] \in O!Workers
             /\ worker[w].phase = "gather" => /\ worker[w].todo \in SUBSET Notice
                                              /\ worker[w].batch \in [Person -> SUBSET Notice]
             /\ worker[w].phase = "mark" =>
                  /\ worker[w].batch \in [Person -> SUBSET Notice] /\ worker[w].p \in Person
                  /\ worker[w].left \in SUBSET Notice /\ worker[w].outcome \in O!Outcomes
  BY WorkerFields
<1>1. CASE O!Midnight
  BY <1>1 DEF O!Midnight
<1>2. ASSUME NEW n \in Notice, O!Raise(n) \/ O!MarkNotificationRead(n) PROVE O!TypeOK'
  BY <1>2 DEF O!Raise, O!MarkNotificationRead
<1>3. ASSUME NEW p \in Person, O!SetWants(p) PROVE O!TypeOK'
  BY <1>3 DEF O!SetWants
<1>4. ASSUME NEW w \in Worker, O!RunStart(w) PROVE O!TypeOK'
  <2>1. PICK T \in O!FirstOf(O!Undelivered) :
          worker' = [worker EXCEPT ![w] =
            [phase |-> "gather", todo |-> T, batch |-> [p \in Person |-> {}]]]
    BY <1>4 DEF O!RunStart
  <2>2. T \in SUBSET Notice
    BY DEF O!FirstOf, O!Undelivered
  <2>3. [phase |-> "gather", todo |-> T, batch |-> [p \in Person |-> {}]] \in O!Workers
    BY <2>2 DEF O!Workers
  <2>4. worker' \in [Worker -> O!Workers]
    BY <1>w, <2>1, <2>3
  <2>. QED BY <1>4, <2>4 DEF O!RunStart
<1>5. ASSUME NEW w \in Worker, NEW n \in Notice, O!Skip(w, n) PROVE O!TypeOK'
  <2>1. worker[w] = [phase |-> "gather", todo |-> worker[w].todo, batch |-> worker[w].batch]
    BY <1>5, WorkerFields DEF O!Skip
  <2>a. worker' = [worker EXCEPT ![w] = [worker[w] EXCEPT !.todo = worker[w].todo \ {n}]]
    BY <1>5 DEF O!Skip
  <2>2. worker' = [worker EXCEPT ![w] = [phase |-> "gather", todo |-> worker[w].todo \ {n},
                                          batch |-> worker[w].batch]]
    <3>1. [worker[w] EXCEPT !.todo = worker[w].todo \ {n}]
            = [phase |-> "gather", todo |-> worker[w].todo \ {n}, batch |-> worker[w].batch]
      BY ONLY <2>1, FieldsRewritten
    <3>. QED BY ONLY <2>a, <3>1
  <2>3. [phase |-> "gather", todo |-> worker[w].todo \ {n}, batch |-> worker[w].batch] \in O!Workers
    BY <1>5, <1>f DEF O!Skip, O!Workers
  <2>4. worker' \in [Worker -> O!Workers]
    BY <1>w, <2>2, <2>3
  <2>. QED BY <1>5, <2>4 DEF O!Skip
<1>6. ASSUME NEW w \in Worker, NEW n \in Notice, O!Claim(w, n) PROVE O!TypeOK'
  <2> DEFINE r == worker[w]
             row == [p \in Person |->
                      IF p \in wants /\ delivery[n][p] = "NONE" THEN "PENDING" ELSE delivery[n][p]]
             q == [phase |-> "gather", todo |-> r.todo \ {n},
                   batch |-> [p \in Person |-> IF p \in wants /\ O!RowPending(row[p])
                                               THEN r.batch[p] \cup {n} ELSE r.batch[p]]]
  <2>1. r.phase = "gather" /\ delivery' = [delivery EXCEPT ![n] = row]
        /\ worker' = [worker EXCEPT ![w] = q]
    BY <1>6 DEF O!Claim
  <2>2. row \in [Person -> O!Statuses]
    BY DEF O!Statuses
  <2> HIDE DEF row
  <2>3. q \in O!Workers
    BY <1>f, <2>1 DEF O!Workers
  <2> HIDE DEF q
  <2>4. worker' \in [Worker -> O!Workers] /\ delivery' \in [Notice -> [Person -> O!Statuses]]
    BY <1>w, <2>1, <2>2, <2>3
  <2>. QED BY <1>6, <2>4 DEF O!Claim
<1>7. ASSUME NEW w \in Worker, NEW n \in Notice, O!Mark(w, n) PROVE O!TypeOK'
  <2> DEFINE r == worker[w]
  <2>1. r.phase = "mark" /\ r = [phase |-> "mark", batch |-> r.batch, p |-> r.p, left |-> r.left,
                                 outcome |-> r.outcome]
    BY <1>7, WorkerFields DEF O!Mark
  <2>2. delivery' \in [Notice -> [Person -> O!Statuses]]
    BY <1>7, <1>f DEF O!Mark, O!Marked, O!Statuses
  <2>3. [phase |-> "gather", todo |-> {}, batch |-> r.batch] \in O!Workers
    BY <1>f, <2>1 DEF O!Workers
  <2>4. [r EXCEPT !.left = @ \ {n}] = [phase |-> "mark", batch |-> r.batch, p |-> r.p,
                                       left |-> r.left \ {n}, outcome |-> r.outcome]
    <3> HIDE DEF r
    <3>. QED BY ONLY <2>1, FieldsRewritten
  <2>5. [phase |-> "mark", batch |-> r.batch, p |-> r.p, left |-> r.left \ {n},
         outcome |-> r.outcome] \in O!Workers
    BY <1>f, <2>1 DEF O!Workers
  <2>6. worker' \in [Worker -> O!Workers]
    BY <1>7, <1>w, <2>3, <2>4, <2>5 DEF O!Mark
  <2>. QED BY <1>7, <2>2, <2>6 DEF O!Mark
<1>8. ASSUME NEW w \in Worker, NEW p \in Person, NEW outcome \in O!Outcomes, NEW goesOut \in BOOLEAN,
             O!Send(w, p, outcome, goesOut)
      PROVE  O!TypeOK'
  <2> DEFINE r == worker[w]
             q == [phase |-> "mark", batch |-> [r.batch EXCEPT ![p] = {}], p |-> p,
                   left |-> r.batch[p], outcome |-> outcome]
  <2>1. r.phase = "gather" /\ worker' = [worker EXCEPT ![w] = q]
    BY <1>8 DEF O!Send
  <2>2. q \in O!Workers
    BY <1>f, <2>1 DEF O!Workers
  <2> HIDE DEF q
  <2>3. worker' \in [Worker -> O!Workers]
    BY <1>w, <2>1, <2>2
  <2>4. mails' \in [Notice -> [Person -> Nat]]
    BY <1>8 DEF O!Send
  <2>5. bounces' \in 0..MaxBounces /\ lost' \in 0..bounces'
    BY <1>8 DEF O!Send
  <2>. QED BY <1>8, <2>3, <2>4, <2>5 DEF O!Send
<1>9. ASSUME NEW w \in Worker, O!RunEnd(w) \/ O!Die(w) PROVE O!TypeOK'
  <2>1. worker' \in [Worker -> O!Workers]
    BY <1>9 DEF O!RunEnd, O!Die, O!Workers
  <2>. QED BY <1>9, <2>1 DEF O!RunEnd, O!Die
<1>. QED BY <1>1, <1>2, <1>3, <1>4, <1>5, <1>6, <1>7, <1>8, <1>9 DEF O!Next, O!RunStep

-----------------------------------------------------------------------------
(* Papers: why one is current.                                             *)

(* A replaced paper says by which. *)
ReplacedByOne == \A p \in Paper : paper[p] = "REPLACED" => replacedBy[p] # P!Nobody

(* A scan stamps rows that are there, and that it saw standing.            *)
StampsStand ==
  \A w \in Scanner : scan[w].at = "stamp" =>
    \A p \in Paper : scan[w].stamps[p] # "same" =>
      paper[p] # "NONE" /\ scan[w].seen[p] \notin {"NONE", "REPLACED"}

(* Uploads under way are of different papers, whose bytes are stored, and  *)
(* there is no row before it is created.                                   *)
UploadsApart ==
  /\ \A s \in Office : upload[s] # P!Away =>
       /\ upload[s].p \in bytes
       /\ upload[s].at = "stored" => paper[upload[s].p] = "NONE"
  /\ \A s, t \in Office : upload[s] # P!Away /\ upload[t] # P!Away /\ upload[s].p = upload[t].p => s = t

PaperInv == P!TypeOK /\ ReplacedByOne /\ StampsStand /\ UploadsApart /\ P!OneIsCurrent

-----------------------------------------------------------------------------
(* What a step of the delivery does to the log and to what is held.        *)

HeldStays(w) ==
  \A p \in Person :
    Batch(w, p)' = Batch(w, p) /\ Marking(w, p)' = Marking(w, p) /\ Telling(w, p)' = Telling(w, p)

(* Nothing of it changes. *)
Quiet ==
  UNCHANGED <<delivery, mails, deaths, lost>> /\ \A w \in Worker : HeldStays(w)

(* A process lets go of what it held. *)
Killed ==
  /\ UNCHANGED <<delivery, mails, lost>> /\ deaths' = deaths + 1
  /\ \A w \in Worker, p \in Person :
       /\ Batch(w, p)' \subseteq Batch(w, p)
       /\ Marking(w, p)' \subseteq Marking(w, p)
       /\ Telling(w, p)' \subseteq Telling(w, p)

(* A gathering process claims m for those who are to be told. *)
Claimed(w, m) ==
  /\ UNCHANGED <<mails, deaths, lost>>
  /\ \A v \in Worker \ {w} : HeldStays(v)
  /\ \A p \in Person :
       /\ Marking(w, p) = {} /\ Marking(w, p)' = {} /\ Telling(w, p) = {} /\ Telling(w, p)' = {}
       /\ Batch(w, p)' \subseteq Batch(w, p) \cup {m}
       /\ m \in Batch(w, p)' => m \in Batch(w, p) \/ delivery'[m][p] = "PENDING"
       /\ \A n \in Notice : \/ delivery'[n][p] = delivery[n][p]
                            \/ delivery[n][p] = "NONE" /\ delivery'[n][p] = "PENDING"

(* It sends q what it has gathered for q. *)
Posted(w, q, outcome, goesOut) ==
  /\ UNCHANGED <<delivery, deaths>>
  /\ outcome = "ok" => goesOut
  /\ lost' = IF outcome # "ok" /\ goesOut THEN lost + 1 ELSE lost
  /\ \A v \in Worker \ {w} : HeldStays(v)
  /\ \A p \in Person :
       /\ Marking(w, p) = {} /\ Telling(w, p) = {}
       /\ Batch(w, p)' = IF p = q THEN {} ELSE Batch(w, p)
       /\ Marking(w, p)' = IF p = q THEN Batch(w, q) ELSE {}
       /\ Telling(w, p)' = IF p = q /\ outcome = "ok" THEN Batch(w, q) ELSE {}
       /\ \A n \in Notice :
            mails'[n][p] = IF p = q /\ n \in Batch(w, q) /\ goesOut THEN mails[n][p] + 1 ELSE mails[n][p]

(* It writes down for q how that went. *)
Written(w, q, m) ==
  /\ UNCHANGED <<mails, deaths, lost>>
  /\ m \in Marking(w, q)
  /\ delivery'[m][q] \in {"SENT", "PENDING", "FAILED"}
  /\ delivery'[m][q] = "SENT" <=> m \in Telling(w, q)
  /\ \A v \in Worker \ {w} : HeldStays(v)
  /\ \A p \in Person :
       /\ Batch(w, p)' = Batch(w, p)
       /\ Marking(w, p)' = Marking(w, p) \ {m} /\ Telling(w, p)' = Telling(w, p) \ {m}
       /\ p # q => Marking(w, p) = {}
       /\ \A n \in Notice : n # m \/ p # q => delivery'[n][p] = delivery[n][p]

LEMMA SameHeld ==
  ASSUME NEW v \in Worker, worker'[v] = worker[v]
  PROVE  HeldStays(v)
BY DEF HeldStays, Batch, Marking, Telling

LEMMA RowReplaced ==
  ASSUME O!TypeOK, NEW w \in Worker, NEW r, worker' = [worker EXCEPT ![w] = r]
  PROVE  worker'[w] = r /\ \A v \in Worker \ {w} : HeldStays(v)
BY SameHeld DEF O!TypeOK

LEMMA MailEffect ==
  ASSUME MaxDate \in Nat, MaxDeaths \in Nat, MaxBounces \in Nat, O!TypeOK, O!Next
  PROVE  \/ Quiet \/ Killed
         \/ \E w \in Worker, m \in Notice : Claimed(w, m)
         \/ \E w \in Worker, q \in Person, outcome \in O!Outcomes, goesOut \in BOOLEAN :
              Posted(w, q, outcome, goesOut)
         \/ \E w \in Worker, q \in Person, m \in Notice : Written(w, q, m)
<1> DEFINE Goal == \/ Quiet \/ Killed
                   \/ \E w \in Worker, m \in Notice : Claimed(w, m)
                   \/ \E w \in Worker, q \in Person, outcome \in O!Outcomes, goesOut \in BOOLEAN :
                        Posted(w, q, outcome, goesOut)
                   \/ \E w \in Worker, q \in Person, m \in Notice : Written(w, q, m)
<1> SUFFICES Goal
  OBVIOUS
<1>f. ASSUME NEW w \in Worker
      PROVE  /\ worker[w] \in O!Workers
             /\ worker[w].phase = "gather" => worker[w].batch \in [Person -> SUBSET Notice]
             /\ worker[w].phase = "mark" =>
                  /\ worker[w].batch \in [Person -> SUBSET Notice] /\ worker[w].p \in Person
                  /\ worker[w].left \in SUBSET Notice /\ worker[w].outcome \in O!Outcomes
  BY WorkerFields DEF O!TypeOK
<1>1. ASSUME UNCHANGED <<O!rows, mails, worker, O!faults>> PROVE Goal
  BY <1>1, SameHeld DEF Quiet, O!rows, O!faults
<1>2. ASSUME NEW w \in Worker, O!RunStart(w) PROVE Goal
  <2>1. PICK T : worker' = [worker EXCEPT ![w] =
                   [phase |-> "gather", todo |-> T, batch |-> [p \in Person |-> {}]]]
    BY <1>2 DEF O!RunStart
  <2>2. worker'[w] = [phase |-> "gather", todo |-> T, batch |-> [p \in Person |-> {}]]
        /\ \A v \in Worker \ {w} : HeldStays(v)
    BY <2>1, RowReplaced
  <2>3. HeldStays(w)
    BY <1>2, <2>2 DEF O!RunStart, O!Off, HeldStays, Batch, Marking, Telling
  <2>. QED BY <1>2, <2>2, <2>3 DEF O!RunStart, Quiet, O!rows, O!faults
<1>3. ASSUME NEW w \in Worker, NEW n \in Notice, O!Skip(w, n) PROVE Goal
  <2>1. worker' = [worker EXCEPT ![w] = [worker[w] EXCEPT !.todo = worker[w].todo \ {n}]]
    BY <1>3 DEF O!Skip
  <2>2. worker'[w] = [worker[w] EXCEPT !.todo = worker[w].todo \ {n}]
        /\ \A v \in Worker \ {w} : HeldStays(v)
    BY <2>1, RowReplaced
  <2>3. worker[w].phase = "gather" /\ worker[w] = [phase |-> "gather", todo |-> worker[w].todo,
                                                  batch |-> worker[w].batch]
    BY <1>3, <1>f, WorkerFields DEF O!Skip
  <2>4. worker'[w] = [phase |-> "gather", todo |-> worker[w].todo \ {n}, batch |-> worker[w].batch]
    BY ONLY <2>2, <2>3, FieldsRewritten
  <2>5. worker'[w].phase = "gather" /\ worker'[w].batch = worker[w].batch
    BY ONLY <2>4
  <2>6. HeldStays(w)
    BY <2>3, <2>5 DEF HeldStays, Batch, Marking, Telling
  <2>. QED BY <1>3, <2>2, <2>6 DEF O!Skip, Quiet, O!faults
<1>4. ASSUME NEW w \in Worker, NEW m \in Notice, O!Claim(w, m) PROVE Goal
  <2> DEFINE r == worker[w]
             row == [p \in Person |->
                      IF p \in wants /\ delivery[m][p] = "NONE" THEN "PENDING" ELSE delivery[m][p]]
             b == [p \in Person |-> IF p \in wants /\ O!RowPending(row[p])
                                    THEN r.batch[p] \cup {m} ELSE r.batch[p]]
             q == [phase |-> "gather", todo |-> r.todo \ {m}, batch |-> b]
  <2>1. /\ r.phase = "gather" /\ delivery' = [delivery EXCEPT ![m] = row]
        /\ worker' = [worker EXCEPT ![w] = q] /\ UNCHANGED <<mails, deaths, lost>>
    BY <1>4 DEF O!Claim, O!faults
  <2>2. worker'[w] = q /\ \A v \in Worker \ {w} : HeldStays(v)
    BY <2>1, RowReplaced
  <2>3. worker'[w].phase = "gather" /\ worker'[w].batch = b
    BY ONLY <2>2
  <2>4. ASSUME NEW p \in Person, NEW n \in Notice
        PROVE  \/ delivery'[n][p] = delivery[n][p]
               \/ delivery[n][p] = "NONE" /\ delivery'[n][p] = "PENDING"
    BY <2>1 DEF O!TypeOK
  <2>5. ASSUME NEW p \in Person
        PROVE  /\ Marking(w, p) = {} /\ Marking(w, p)' = {} /\ Telling(w, p) = {} /\ Telling(w, p)' = {}
               /\ Batch(w, p) = r.batch[p] /\ Batch(w, p)' = b[p]
    BY <2>1, <2>3 DEF Batch, Marking, Telling
  <2>6. ASSUME NEW p \in Person
        PROVE  b[p] \subseteq r.batch[p] \cup {m} /\ (m \in b[p] => m \in r.batch[p] \/ row[p] = "PENDING")
    BY DEF O!RowPending
  <2>7. \A p \in Person : delivery'[m][p] = row[p]
    BY <2>1 DEF O!TypeOK
  <2> HIDE DEF b, row, q, r
  <2>8. ASSUME NEW p \in Person
        PROVE  /\ Batch(w, p)' \subseteq Batch(w, p) \cup {m}
               /\ m \in Batch(w, p)' => m \in Batch(w, p) \/ delivery'[m][p] = "PENDING"
    BY <2>5, <2>6, <2>7
  <2>9. Claimed(w, m)
    <3>1. UNCHANGED <<mails, deaths, lost>> /\ \A v \in Worker \ {w} : HeldStays(v)
      BY <2>1, <2>2
    <3>2. ASSUME NEW p \in Person
          PROVE  /\ Marking(w, p) = {} /\ Marking(w, p)' = {} /\ Telling(w, p) = {} /\ Telling(w, p)' = {}
                 /\ Batch(w, p)' \subseteq Batch(w, p) \cup {m}
                 /\ m \in Batch(w, p)' => m \in Batch(w, p) \/ delivery'[m][p] = "PENDING"
                 /\ \A n \in Notice : \/ delivery'[n][p] = delivery[n][p]
                                      \/ delivery[n][p] = "NONE" /\ delivery'[n][p] = "PENDING"
      <4>1. Marking(w, p) = {} /\ Marking(w, p)' = {} /\ Telling(w, p) = {} /\ Telling(w, p)' = {}
        BY <2>5
      <4>2. \A n \in Notice : \/ delivery'[n][p] = delivery[n][p]
                              \/ delivery[n][p] = "NONE" /\ delivery'[n][p] = "PENDING"
        BY <2>4
      <4>3. /\ Batch(w, p)' \subseteq Batch(w, p) \cup {m}
            /\ m \in Batch(w, p)' => m \in Batch(w, p) \/ delivery'[m][p] = "PENDING"
        BY <2>8
      <4>. QED BY ONLY <4>1, <4>2, <4>3, Zenon
    <3>. QED BY <3>1, <3>2, Zenon DEF Claimed
  <2>. QED BY <2>9
<1>5. ASSUME NEW w \in Worker, NEW m \in Notice, O!Mark(w, m) PROVE Goal
  <2> DEFINE r == worker[w]
  <2>1. /\ r.phase = "mark" /\ m \in r.left /\ UNCHANGED <<mails, deaths, lost>>
        /\ delivery' = [delivery EXCEPT ![m][r.p] = O!Marked(r.outcome)]
        /\ worker' = [worker EXCEPT ![w] =
              IF r.left = {m} THEN [phase |-> "gather", todo |-> {}, batch |-> r.batch]
              ELSE [r EXCEPT !.left = @ \ {m}]]
    BY <1>5 DEF O!Mark, O!faults
  <2>2. r = [phase |-> "mark", batch |-> r.batch, p |-> r.p, left |-> r.left, outcome |-> r.outcome]
    BY <2>1, <1>f, WorkerFields
  <2> HIDE DEF r
  <2>3. worker'[w] = (IF r.left = {m} THEN [phase |-> "gather", todo |-> {}, batch |-> r.batch]
                      ELSE [r EXCEPT !.left = r.left \ {m}])
        /\ \A v \in Worker \ {w} : HeldStays(v)
    <3> DEFINE x == IF r.left = {m} THEN [phase |-> "gather", todo |-> {}, batch |-> r.batch]
                    ELSE [r EXCEPT !.left = r.left \ {m}]
    <3>1. worker' = [worker EXCEPT ![w] = x]
      BY <2>1
    <3> HIDE DEF x
    <3>2. worker'[w] = x /\ \A v \in Worker \ {w} : HeldStays(v)
      BY <3>1, RowReplaced
    <3>. QED BY <3>2 DEF x
  <2>4. [r EXCEPT !.left = r.left \ {m}]
          = [phase |-> "mark", batch |-> r.batch, p |-> r.p, left |-> r.left \ {m}, outcome |-> r.outcome]
    BY ONLY <2>2, FieldsRewritten
  <2>5. /\ worker'[w].phase \in {"gather", "mark"} /\ worker'[w].batch = r.batch
        /\ worker'[w].phase = "gather" => r.left = {m}
        /\ worker'[w].phase = "mark" => worker'[w].p = r.p /\ worker'[w].left = r.left \ {m}
                                       /\ worker'[w].outcome = r.outcome
    BY ONLY <2>3, <2>4
  <2>6. r.p \in Person /\ r.outcome \in O!Outcomes /\ r.batch \in [Person -> SUBSET Notice]
    BY <1>f, <2>1 DEF r
  <2>7. ASSUME NEW p \in Person
        PROVE  /\ Batch(w, p)' = Batch(w, p)
               /\ Marking(w, p) = (IF p = r.p THEN r.left ELSE {})
               /\ Marking(w, p)' = (IF p = r.p THEN r.left \ {m} ELSE {})
    <3>1. Batch(w, p)' = Batch(w, p)
      BY <2>1, <2>5 DEF Batch, r
    <3>2. Marking(w, p) = (IF p = r.p THEN r.left ELSE {})
      BY <2>1 DEF Marking, r
    <3>3. Marking(w, p)' = (IF p = r.p THEN r.left \ {m} ELSE {})
      BY <2>5 DEF Marking
    <3>. QED BY <3>1, <3>2, <3>3
  <2>8. ASSUME NEW p \in Person
        PROVE  /\ Telling(w, p) = (IF r.outcome = "ok" THEN Marking(w, p) ELSE {})
               /\ Telling(w, p)' = (IF r.outcome = "ok" THEN Marking(w, p)' ELSE {})
    <3>1. Telling(w, p) = (IF r.outcome = "ok" THEN Marking(w, p) ELSE {})
      BY <2>1 DEF Telling, r
    <3>2. worker'[w].phase = "gather" => Marking(w, p)' = {}
      BY DEF Marking
    <3>. QED BY <2>5, <3>1, <3>2 DEF Telling
  <2>9. delivery'[m][r.p] = O!Marked(r.outcome)
        /\ \A n \in Notice, p \in Person : n # m \/ p # r.p => delivery'[n][p] = delivery[n][p]
    BY <2>1, <2>6 DEF O!TypeOK
  <2>10. O!Marked(r.outcome) \in {"SENT", "PENDING", "FAILED"}
         /\ (O!Marked(r.outcome) = "SENT" <=> r.outcome = "ok")
    BY <2>6 DEF O!Marked, O!Outcomes
  <2>11. Written(w, r.p, m)
    BY <2>1, <2>3, <2>6, <2>7, <2>8, <2>9, <2>10 DEF Written
  <2>. QED BY <2>6, <2>11
<1>6. ASSUME NEW w \in Worker, NEW q \in Person, NEW outcome \in O!Outcomes, NEW goesOut \in BOOLEAN,
             O!Send(w, q, outcome, goesOut)
      PROVE  Goal
  <2> DEFINE r == worker[w]
             b == [r.batch EXCEPT ![q] = {}]
  <2>1. /\ r.phase = "gather" /\ UNCHANGED <<delivery, deaths>> /\ (outcome = "ok" => goesOut)
        /\ lost' = IF outcome # "ok" /\ goesOut THEN lost + 1 ELSE lost
        /\ mails' = [n \in Notice |-> [mails[n] EXCEPT ![q] =
                       IF n \in r.batch[q] /\ goesOut THEN mails[n][q] + 1 ELSE mails[n][q]]]
        /\ worker' = [worker EXCEPT ![w] = [phase |-> "mark", batch |-> b, p |-> q,
                        left |-> r.batch[q], outcome |-> outcome]]
    BY <1>6 DEF O!Send, O!rows
  <2>2. worker'[w] = [phase |-> "mark", batch |-> b, p |-> q, left |-> r.batch[q], outcome |-> outcome]
        /\ \A v \in Worker \ {w} : HeldStays(v)
    BY <2>1, RowReplaced
  <2>3. /\ worker'[w].phase = "mark" /\ worker'[w].batch = b /\ worker'[w].p = q
        /\ worker'[w].left = r.batch[q] /\ worker'[w].outcome = outcome
    BY ONLY <2>2
  <2>4. \A p \in Person : b[p] = IF p = q THEN {} ELSE r.batch[p]
    BY <1>f, <2>1
  <2> HIDE DEF b
  <2>5. ASSUME NEW p \in Person
        PROVE  /\ Batch(w, p) = r.batch[p] /\ Marking(w, p) = {} /\ Telling(w, p) = {}
               /\ Batch(w, p)' = b[p]
               /\ Marking(w, p)' = (IF p = q THEN r.batch[q] ELSE {})
               /\ Telling(w, p)' = (IF p = q /\ outcome = "ok" THEN r.batch[q] ELSE {})
    BY <2>1, <2>3 DEF Batch, Marking, Telling
  <2>6. ASSUME NEW p \in Person, NEW n \in Notice
        PROVE  mails'[n][p] = (IF p = q /\ n \in r.batch[q] /\ goesOut THEN mails[n][p] + 1 ELSE mails[n][p])
    BY <2>1 DEF O!TypeOK
  <2> HIDE DEF r
  <2>7. Posted(w, q, outcome, goesOut)
    BY <2>1, <2>2, <2>4, <2>5, <2>6 DEF Posted
  <2>. QED BY <2>7
<1>7. ASSUME NEW w \in Worker, O!RunEnd(w) PROVE Goal
  <2>1. worker' = [worker EXCEPT ![w] = O!Off]
    BY <1>7 DEF O!RunEnd
  <2>2. worker'[w] = O!Off /\ \A v \in Worker \ {w} : HeldStays(v)
    BY <2>1, RowReplaced
  <2>3. HeldStays(w)
    <3>1. worker[w].phase = "gather" /\ \A p \in Person : worker[w].batch[p] = {}
      BY <1>7 DEF O!RunEnd
    <3>2. worker'[w].phase = "off"
      BY <2>2 DEF O!Off
    <3>. QED BY <3>1, <3>2 DEF HeldStays, Batch, Marking, Telling
  <2>. QED BY <1>7, <2>2, <2>3 DEF O!RunEnd, Quiet, O!rows, O!faults
<1>8. ASSUME NEW w \in Worker, O!Die(w) PROVE Goal
  <2>1. worker' = [worker EXCEPT ![w] = O!Off] /\ deaths' = deaths + 1
        /\ UNCHANGED <<delivery, mails, lost>>
    BY <1>8 DEF O!Die, O!rows
  <2>2. worker'[w] = O!Off /\ \A v \in Worker \ {w} : HeldStays(v)
    BY <2>1, RowReplaced
  <2>3. ASSUME NEW p \in Person
        PROVE  Batch(w, p)' = {} /\ Marking(w, p)' = {} /\ Telling(w, p)' = {}
    BY <2>2 DEF O!Off, Batch, Marking, Telling
  <2>4. Killed
    BY <2>1, <2>2, <2>3 DEF Killed, HeldStays
  <2>. QED BY <2>4
<1> HIDE DEF Goal
<1>9. CASE O!Midnight
  BY <1>1, <1>9 DEF O!Midnight
<1>10. ASSUME NEW n \in Notice, O!Raise(n) \/ O!MarkNotificationRead(n) PROVE Goal
  BY <1>1, <1>10 DEF O!Raise, O!MarkNotificationRead
<1>11. ASSUME NEW p \in Person, O!SetWants(p) PROVE Goal
  BY <1>1, <1>11 DEF O!SetWants
<1>. QED BY <1>2, <1>3, <1>4, <1>5, <1>6, <1>7, <1>8, <1>9, <1>10, <1>11 DEF O!Next, O!RunStep

-----------------------------------------------------------------------------
(* The log is true, and every message is accounted for.                    *)

LEMMA MailInvInit ==
  ASSUME MaxDate \in Nat, MaxDeaths \in Nat, MaxBounces \in Nat, O!Init
  PROVE  MailInv
<1>1. O!TypeOK
  BY MailTypeInit
<1>2. \A w \in Worker, p \in Person : Batch(w, p) = {} /\ Marking(w, p) = {} /\ Telling(w, p) = {}
  BY DEF O!Init, O!Off, Batch, Marking, Telling
<1>3. O!LogIsTrue
  BY DEF O!Init, O!LogIsTrue
<1>4. HeldIsClaimed /\ HeldIsPending
  BY <1>2 DEF HeldIsClaimed, HeldIsPending
<1>5. Accounted
  BY DEF O!Init, Accounted
<1>. QED BY <1>1, <1>3, <1>4, <1>5 DEF MailInv

(* What is being marked as told is being marked. *)
LEMMA TellingIsMarking ==
  ASSUME NEW w \in Worker, NEW p \in Person
  PROVE  Telling(w, p) \subseteq Marking(w, p)
BY DEF Telling

LEMMA LogStep ==
  ASSUME O!TypeOK, O!TypeOK', O!LogIsTrue, HeldIsClaimed, MaxDate \in Nat, MaxDeaths \in Nat,
         MaxBounces \in Nat, O!Next
  PROVE  O!LogIsTrue' /\ HeldIsClaimed'
<1>t. ASSUME NEW n \in Notice, NEW p \in Person
      PROVE  mails[n][p] \in Nat /\ mails'[n][p] \in Nat
  BY DEF O!TypeOK
<1>l. ASSUME NEW n \in Notice, NEW p \in Person
      PROVE  /\ delivery[n][p] = "SENT" => mails[n][p] > 0
             /\ mails[n][p] > 0 => delivery[n][p] # "NONE"
  BY DEF O!LogIsTrue
<1>h. ASSUME NEW w \in Worker, NEW p \in Person
      PROVE  /\ Batch(w, p) \in SUBSET Notice /\ Marking(w, p) \in SUBSET Notice
             /\ Telling(w, p) \subseteq Marking(w, p)
             /\ \A n \in Batch(w, p) \cup Marking(w, p) : delivery[n][p] # "NONE"
             /\ \A n \in Telling(w, p) : mails[n][p] > 0
  BY HeldAre, TellingIsMarking DEF HeldIsClaimed
<1>1. ASSUME NEW n \in Notice, NEW p \in Person
      PROVE  /\ delivery'[n][p] = "SENT" => mails'[n][p] > 0
             /\ mails'[n][p] > 0 => delivery'[n][p] # "NONE"
  <2>1. CASE Quiet \/ Killed
    BY <2>1, <1>l DEF Quiet, Killed
  <2>2. ASSUME NEW w \in Worker, NEW m \in Notice, Claimed(w, m)
        PROVE  /\ delivery'[n][p] = "SENT" => mails'[n][p] > 0
               /\ mails'[n][p] > 0 => delivery'[n][p] # "NONE"
    BY <2>2, <1>l DEF Claimed
  <2>3. ASSUME NEW w \in Worker, NEW q \in Person, NEW outcome \in O!Outcomes, NEW goesOut \in BOOLEAN,
               Posted(w, q, outcome, goesOut)
        PROVE  /\ delivery'[n][p] = "SENT" => mails'[n][p] > 0
               /\ mails'[n][p] > 0 => delivery'[n][p] # "NONE"
    <3>1. /\ delivery' = delivery
          /\ mails'[n][p] = IF p = q /\ n \in Batch(w, q) /\ goesOut THEN mails[n][p] + 1 ELSE mails[n][p]
      BY <2>3 DEF Posted
    <3>2. p = q /\ n \in Batch(w, q) => delivery[n][p] # "NONE"
      BY <1>h
    <3>. QED BY <3>1, <3>2, <1>l, <1>t
  <2>4. ASSUME NEW w \in Worker, NEW q \in Person, NEW m \in Notice, Written(w, q, m)
        PROVE  /\ delivery'[n][p] = "SENT" => mails'[n][p] > 0
               /\ mails'[n][p] > 0 => delivery'[n][p] # "NONE"
    <3>1. /\ mails' = mails /\ (n # m \/ p # q => delivery'[n][p] = delivery[n][p])
          /\ delivery'[m][q] \in {"SENT", "PENDING", "FAILED"}
          /\ delivery'[m][q] = "SENT" => m \in Telling(w, q)
      BY <2>4 DEF Written
    <3>2. m \in Telling(w, q) => mails[m][q] > 0
      BY <1>h
    <3>. QED BY <3>1, <3>2, <1>l
  <2>. QED BY <2>1, <2>2, <2>3, <2>4, MailEffect
<1>2. ASSUME NEW n \in Notice, NEW p \in Person, NEW v \in Worker
      PROVE  /\ n \in Batch(v, p)' \cup Marking(v, p)' => delivery'[n][p] # "NONE"
             /\ n \in Telling(v, p)' => mails'[n][p] > 0
  <2> DEFINE Held == /\ n \in Batch(v, p)' \cup Marking(v, p)' => delivery'[n][p] # "NONE"
                     /\ n \in Telling(v, p)' => mails'[n][p] > 0
  <2>s. ASSUME HeldStays(v)
        PROVE  /\ Batch(v, p)' = Batch(v, p) /\ Marking(v, p)' = Marking(v, p)
               /\ Telling(v, p)' = Telling(v, p)
    BY <2>s DEF HeldStays
  <2>h. /\ n \in Batch(v, p) \cup Marking(v, p) => delivery[n][p] # "NONE"
        /\ n \in Telling(v, p) => mails[n][p] > 0
    BY <1>h
  <2>1. CASE Quiet \/ Killed
    <3>1. delivery' = delivery /\ mails' = mails
      BY <2>1 DEF Quiet, Killed
    <3>2. /\ Batch(v, p)' \subseteq Batch(v, p) /\ Marking(v, p)' \subseteq Marking(v, p)
          /\ Telling(v, p)' \subseteq Telling(v, p)
      BY <2>1, <2>s DEF Quiet, Killed
    <3>. QED BY <3>1, <3>2, <2>h
  <2>2. ASSUME NEW w \in Worker, NEW m \in Notice, Claimed(w, m) PROVE Held
    <3>1. mails' = mails /\ (delivery[n][p] # "NONE" => delivery'[n][p] # "NONE")
      BY <2>2 DEF Claimed
    <3>2. CASE v # w
      <4>1. HeldStays(v)
        BY <2>2, <3>2 DEF Claimed
      <4>. QED BY <2>h, <2>s, <3>1, <4>1
    <3>3. CASE v = w
      <4>1. /\ Marking(v, p)' = {} /\ Telling(v, p)' = {}
            /\ Batch(v, p)' \subseteq Batch(v, p) \cup {m}
            /\ m \in Batch(v, p)' => m \in Batch(v, p) \/ delivery'[m][p] = "PENDING"
        BY <2>2, <3>3 DEF Claimed
      <4>. QED BY <2>h, <3>1, <4>1
    <3>. QED BY <3>2, <3>3
  <2>3. ASSUME NEW w \in Worker, NEW q \in Person, NEW outcome \in O!Outcomes, NEW goesOut \in BOOLEAN,
               Posted(w, q, outcome, goesOut)
        PROVE  Held
    <3>1. /\ delivery' = delivery /\ (outcome = "ok" => goesOut)
          /\ mails'[n][p] = IF p = q /\ n \in Batch(w, q) /\ goesOut THEN mails[n][p] + 1 ELSE mails[n][p]
      BY <2>3 DEF Posted
    <3>2. CASE v # w
      <4>1. HeldStays(v)
        BY <2>3, <3>2 DEF Posted
      <4>. QED BY <2>h, <2>s, <3>1, <4>1, <1>t
    <3>3. CASE v = w
      <4>1. /\ Batch(v, p)' = IF p = q THEN {} ELSE Batch(v, p)
            /\ Marking(v, p)' = IF p = q THEN Batch(v, q) ELSE {}
            /\ Telling(v, p)' = IF p = q /\ outcome = "ok" THEN Batch(v, q) ELSE {}
        BY <2>3, <3>3 DEF Posted
      <4>. QED BY <2>h, <3>1, <3>3, <4>1, <1>t
    <3>. QED BY <3>2, <3>3
  <2>4. ASSUME NEW w \in Worker, NEW q \in Person, NEW m \in Notice, Written(w, q, m) PROVE Held
    <3>1. /\ mails' = mails /\ (n # m \/ p # q => delivery'[n][p] = delivery[n][p])
          /\ delivery'[m][q] \in {"SENT", "PENDING", "FAILED"}
      BY <2>4 DEF Written
    <3>2. Batch(v, p)' = Batch(v, p) /\ Marking(v, p)' \subseteq Marking(v, p)
          /\ Telling(v, p)' \subseteq Telling(v, p)
      <4>1. CASE v # w
        BY <2>4, <2>s, <4>1 DEF Written
      <4>2. CASE v = w
        BY <2>4, <4>2 DEF Written
      <4>. QED BY <4>1, <4>2
    <3>. QED BY <2>h, <3>1, <3>2
  <2> HIDE DEF Held
  <2>. QED BY <2>1, <2>2, <2>3, <2>4, MailEffect DEF Held
<1>3. ASSUME NEW w \in Worker, NEW p \in Person
      PROVE  Batch(w, p)' \in SUBSET Notice /\ Marking(w, p)' \in SUBSET Notice
             /\ Telling(w, p)' \subseteq Marking(w, p)'
  BY HeldAreNext
<1>4. O!LogIsTrue'
  BY <1>1 DEF O!LogIsTrue
<1>5. HeldIsClaimed'
  BY <1>2, <1>3 DEF HeldIsClaimed
<1>. QED BY <1>4, <1>5

LEMMA AccountStep ==
  ASSUME Alone, O!TypeOK, O!TypeOK', HeldIsPending, Accounted, MaxDate \in Nat, MaxDeaths \in Nat,
         MaxBounces \in Nat, O!Next
  PROVE  HeldIsPending' /\ Accounted'
<1>t. /\ deaths \in Nat /\ lost \in Nat
      /\ \A n \in Notice, p \in Person : mails[n][p] \in Nat
  BY DEF O!TypeOK
<1>h. ASSUME NEW w \in Worker, NEW p \in Person
      PROVE  /\ Batch(w, p) \in SUBSET Notice /\ Marking(w, p) \in SUBSET Notice
             /\ Telling(w, p) \subseteq Marking(w, p)
             /\ \A n \in Batch(w, p) \cup Marking(w, p) : delivery[n][p] = "PENDING"
             /\ Batch(w, p) \cap Marking(w, p) = {}
  BY HeldAre, TellingIsMarking DEF HeldIsPending
<1>k. ASSUME NEW w \in Worker, NEW p \in Person
      PROVE  Batch(w, p)' \in SUBSET Notice /\ Marking(w, p)' \in SUBSET Notice
             /\ Telling(w, p)' \subseteq Marking(w, p)'
  BY HeldAreNext
<1> DEFINE Pending(n, w, p) ==
             /\ n \in Batch(w, p)' \cup Marking(w, p)' => delivery'[n][p] = "PENDING"
             /\ ~(n \in Batch(w, p)' /\ n \in Marking(w, p)')
           Booked(n, p) ==
             \/ mails'[n][p] <= deaths' + lost'
             \/ /\ mails'[n][p] <= 1 + deaths' + lost'
                /\ delivery'[n][p] \in {"SENT", "FAILED"} \/ \E w \in Worker : n \in Telling(w, p)'
           Before(n, p) ==
             \/ mails[n][p] <= deaths + lost
             \/ /\ mails[n][p] <= 1 + deaths + lost
                /\ delivery[n][p] \in {"SENT", "FAILED"} \/ \E w \in Worker : n \in Telling(w, p)
           Fine(n, p) == Booked(n, p) /\ \A w \in Worker : Pending(n, w, p)
<1>b. \A n \in Notice, p \in Person : Before(n, p)
  BY DEF Accounted
<1>1. ASSUME NEW n \in Notice, NEW p \in Person PROVE Fine(n, p)
  <2>0. /\ Before(n, p) /\ mails[n][p] \in Nat /\ deaths \in Nat /\ lost \in Nat
        /\ mails'[n][p] \in Nat
    BY <1>b, <1>t DEF O!TypeOK
  <2>1. CASE Quiet
    <3>1. \A w \in Worker : /\ Batch(w, p)' = Batch(w, p) /\ Marking(w, p)' = Marking(w, p)
                            /\ Telling(w, p)' = Telling(w, p)
      BY <2>1 DEF Quiet, HeldStays
    <3>2. UNCHANGED <<delivery, mails, deaths, lost>>
      BY <2>1 DEF Quiet
    <3>. QED BY <2>0, <3>1, <3>2, <1>h
  <2>2. CASE Killed
    <3>1. UNCHANGED <<delivery, mails, lost>> /\ deaths' = deaths + 1
      BY <2>2 DEF Killed
    <3>2. Booked(n, p)
      BY <2>0, <3>1
    <3>3. ASSUME NEW w \in Worker PROVE Pending(n, w, p)
      BY <2>2, <3>1, <1>h DEF Killed
    <3>. QED BY <3>2, <3>3
  <2>3. ASSUME NEW w \in Worker, NEW m \in Notice, Claimed(w, m) PROVE Fine(n, p)
    <3>1. /\ UNCHANGED <<mails, deaths, lost>>
          /\ Marking(w, p) = {} /\ Marking(w, p)' = {} /\ Telling(w, p) = {} /\ Telling(w, p)' = {}
          /\ Batch(w, p)' \subseteq Batch(w, p) \cup {m}
          /\ m \in Batch(w, p)' => m \in Batch(w, p) \/ delivery'[m][p] = "PENDING"
          /\ \/ delivery'[n][p] = delivery[n][p]
             \/ delivery[n][p] = "NONE" /\ delivery'[n][p] = "PENDING"
      BY <2>3 DEF Claimed
    <3>2. \A v \in Worker : v = w
      BY DEF Alone
    <3>3. Booked(n, p)
      BY <2>0, <3>1, <3>2
    <3>4. Pending(n, w, p)
      BY <3>1, <1>h
    <3>. QED BY <3>2, <3>3, <3>4
  <2>4. ASSUME NEW w \in Worker, NEW q \in Person, NEW outcome \in O!Outcomes, NEW goesOut \in BOOLEAN,
               Posted(w, q, outcome, goesOut)
        PROVE  Fine(n, p)
    <3>1. /\ UNCHANGED <<delivery, deaths>> /\ (outcome = "ok" => goesOut)
          /\ lost' = IF outcome # "ok" /\ goesOut THEN lost + 1 ELSE lost
          /\ Marking(w, p) = {} /\ Telling(w, p) = {}
          /\ Batch(w, p)' = IF p = q THEN {} ELSE Batch(w, p)
          /\ Marking(w, p)' = IF p = q THEN Batch(w, q) ELSE {}
          /\ Telling(w, p)' = IF p = q /\ outcome = "ok" THEN Batch(w, q) ELSE {}
          /\ mails'[n][p] = IF p = q /\ n \in Batch(w, q) /\ goesOut THEN mails[n][p] + 1 ELSE mails[n][p]
      BY <2>4 DEF Posted
    <3>2. \A v \in Worker : v = w
      BY DEF Alone
    <3>3. Pending(n, w, p)
      BY <3>1, <1>h
    <3>4. CASE p = q /\ n \in Batch(w, q)
      <4>1. delivery[n][p] = "PENDING"
        BY <1>h, <3>4
      <4>2. mails[n][p] <= deaths + lost
        BY <2>0, <3>1, <3>2, <4>1
      <4>3. CASE outcome = "ok"
        <5>1. n \in Telling(w, p)' /\ mails'[n][p] <= 1 + deaths' + lost'
          BY <2>0, <3>1, <3>4, <4>2, <4>3
        <5>. QED BY <5>1, <3>2, <3>3
      <4>4. CASE outcome # "ok"
        <5>1. mails'[n][p] <= deaths' + lost'
          BY <2>0, <3>1, <3>4, <4>2, <4>4
        <5>. QED BY <5>1, <3>2, <3>3
      <4>. QED BY <4>3, <4>4
    <3>5. CASE ~(p = q /\ n \in Batch(w, q))
      <4>1. mails'[n][p] = mails[n][p] /\ deaths + lost <= deaths' + lost' /\ deaths' + lost' \in Nat
        BY <2>0, <3>1, <3>5
      <4>2. mails[n][p] <= deaths + lost \/ (mails[n][p] <= 1 + deaths + lost /\ delivery[n][p] \in {"SENT", "FAILED"})
        BY <2>0, <3>1, <3>2
      <4>3. Booked(n, p)
        BY <2>0, <3>1, <4>1, <4>2
      <4>. QED BY <3>2, <3>3, <4>3
    <3>. QED BY <3>4, <3>5
  <2>5. ASSUME NEW w \in Worker, NEW q \in Person, NEW m \in Notice, Written(w, q, m) PROVE Fine(n, p)
    <3>1. /\ UNCHANGED <<mails, deaths, lost>> /\ m \in Marking(w, q)
          /\ (n # m \/ p # q => delivery'[n][p] = delivery[n][p])
          /\ delivery'[m][q] \in {"SENT", "PENDING", "FAILED"}
          /\ (delivery'[m][q] = "SENT" <=> m \in Telling(w, q))
          /\ Batch(w, p)' = Batch(w, p)
          /\ Marking(w, p)' = Marking(w, p) \ {m} /\ Telling(w, p)' = Telling(w, p) \ {m}
          /\ (p # q => Marking(w, p) = {})
      BY <2>5 DEF Written
    <3>2. \A v \in Worker : v = w
      BY DEF Alone
    <3>3. Pending(n, w, p)
      <4>1. CASE n = m /\ p = q
        BY <3>1, <1>h, <4>1
      <4>2. CASE ~(n = m /\ p = q)
        BY <3>1, <1>h, <4>2
      <4>. QED BY <4>1, <4>2
    <3>4. Booked(n, p)
      <4>1. CASE n = m /\ p = q
        <5>1. delivery[n][p] = "PENDING"
          BY <3>1, <1>h, <4>1
        <5>2. mails[n][p] <= deaths + lost
              \/ (mails[n][p] <= 1 + deaths + lost /\ delivery'[n][p] = "SENT")
          BY <2>0, <3>1, <3>2, <5>1, <4>1
        <5>. QED BY <3>1, <5>2
      <4>2. CASE ~(n = m /\ p = q)
        <5>1. delivery'[n][p] = delivery[n][p]
          BY <3>1, <4>2
        <5>2. n \in Telling(w, p) => n \in Telling(w, p)'
          BY <3>1, <4>2, <1>h
        <5>. QED BY <2>0, <3>1, <3>2, <5>1, <5>2
      <4>. QED BY <4>1, <4>2
    <3>. QED BY <3>2, <3>3, <3>4
  <2> HIDE DEF Fine
  <2>. QED BY <2>1, <2>2, <2>3, <2>4, <2>5, MailEffect
<1>2. HeldIsPending'
  <2>1. ASSUME NEW w \in Worker, NEW p \in Person, NEW n \in Notice PROVE Pending(n, w, p)
    BY <1>1
  <2>. QED BY <2>1, <1>k DEF HeldIsPending
<1>3. Accounted'
  BY <1>1 DEF Accounted
<1>. QED BY <1>2, <1>3

LEMMA MailInvStep ==
  ASSUME MailInv, MaxDate \in Nat, MaxDeaths \in Nat, MaxBounces \in Nat, [O!Next]_(O!vars)
  PROVE  MailInv'
<1>1. CASE O!Next
  <2>1. O!TypeOK'
    BY <1>1, MailTypeStep DEF MailInv
  <2>2. O!LogIsTrue' /\ HeldIsClaimed'
    BY <1>1, <2>1, LogStep DEF MailInv
  <2>3. Alone => HeldIsPending' /\ Accounted'
    BY <1>1, <2>1, AccountStep DEF MailInv
  <2>4. Alone' = Alone
    BY DEF Alone
  <2>. QED BY <2>1, <2>2, <2>3, <2>4 DEF MailInv
<1>2. CASE UNCHANGED O!vars
  <2>1. UNCHANGED <<date, raisedAt, readAt, wants, delivery, skipped, mails, worker, deaths, bounces, lost>>
    BY <1>2 DEF O!vars, O!rows, O!faults
  <2>2. \A w \in Worker : HeldStays(w)
    BY <2>1, SameHeld
  <2>3. O!TypeOK' /\ O!LogIsTrue'
    BY <2>1 DEF MailInv, O!TypeOK, O!LogIsTrue
  <2>4. HeldIsClaimed'
    BY <2>1, <2>2 DEF MailInv, HeldIsClaimed, HeldStays
  <2>5. Alone => HeldIsPending'
    BY <2>1, <2>2 DEF MailInv, HeldIsPending, HeldStays
  <2>6. Alone => Accounted'
    BY <2>1, <2>2 DEF MailInv, Accounted, HeldStays
  <2>. QED BY <2>3, <2>4, <2>5, <2>6 DEF MailInv, Alone
<1>. QED BY <1>1, <1>2

(* Every message but one is a fault's. *)
LEMMA AccountedIsBounded ==
  ASSUME MailInv, Alone
  PROVE  O!ToldAgainOnlyAfterAFault
BY DEF MailInv, Accounted, O!ToldAgainOnlyAfterAFault, O!TypeOK

-----------------------------------------------------------------------------
(* Papers: types.                                                          *)

LEMMA UploadFields ==
  ASSUME NEW r \in P!Uploads
  PROVE  /\ r.at \in {"away", "stored", "created", "undo"}
         /\ r.at = "away" <=> r = P!Away
         /\ r # P!Away => r = [at |-> r.at, p |-> r.p] /\ r.p \in Paper
BY DEF P!Uploads, P!Away

LEMMA ScanFields ==
  ASSUME NEW r \in P!Scans
  PROVE  /\ r.at \in {"away", "stamp", "notify"}
         /\ r.at = "away" <=> r = P!Away
         /\ r # P!Away =>
              /\ r = [at |-> r.at, stamps |-> r.stamps, found |-> r.found, seen |-> r.seen]
              /\ r.stamps \in [Paper -> P!Stamps \cup {"same"}]
              /\ r.found \in SUBSET P!Keys
              /\ r.seen \in [Paper -> P!PaperStatuses \cup {"NONE"}]
BY DEF P!Scans, P!Away

(* Where such a record is, rewritten. *)
LEMMA PlaceRewritten ==
  ASSUME NEW r, NEW at, NEW p, NEW stamps, NEW found, NEW seen, NEW x
  PROVE  /\ r = [at |-> at, p |-> p] => [r EXCEPT !.at = x] = [at |-> x, p |-> p]
         /\ r = [at |-> at, stamps |-> stamps, found |-> found, seen |-> seen] =>
              [r EXCEPT !.at = x] = [at |-> x, stamps |-> stamps, found |-> found, seen |-> seen]
OBVIOUS

LEMMA StampIs ==
  ASSUME NEW p, NEW d
  PROVE  P!Stamp(p, d) \in P!Stamps
BY DEF P!Stamp, P!Stamps

LEMMA KeysAre ==
  ASSUME NEW p \in Paper, NEW d
  PROVE  P!KeysFor(p, d) \subseteq P!Keys
BY DEF P!KeysFor, P!Keys, P!Narrowest, P!Crossed

(* What an upload or a scan leaves of the others. *)
LEMMA UploadReplaced ==
  ASSUME P!TypeOK, NEW s \in Office, NEW r \in P!Uploads, upload' = [upload EXCEPT ![s] = r]
  PROVE  /\ upload' \in [Office -> P!Uploads] /\ upload'[s] = r
         /\ \A t \in Office \ {s} : upload'[t] = upload[t]
BY DEF P!TypeOK

LEMMA ScanReplaced ==
  ASSUME P!TypeOK, NEW w \in Scanner, NEW r \in P!Scans, scan' = [scan EXCEPT ![w] = r]
  PROVE  /\ scan' \in [Scanner -> P!Scans] /\ scan'[w] = r
         /\ \A v \in Scanner \ {w} : scan'[v] = scan[v]
BY DEF P!TypeOK

(* The step of an upload that throws, and of a scan that has stamped.      *)
LEMMA ThrowsTo ==
  ASSUME P!TypeOK, NEW s \in Office, P!UploadThrows(s)
  PROVE  /\ upload[s].p \in Paper
         /\ upload' = [upload EXCEPT ![s] = [at |-> "undo", p |-> upload[s].p]]
<1> DEFINE r == upload[s]
<1>1. r.at \in {"stored", "created"} /\ r \in P!Uploads
      /\ upload' = [upload EXCEPT ![s] = [r EXCEPT !.at = "undo"]]
  BY DEF P!UploadThrows, P!TypeOK
<1> HIDE DEF r
<1>2. r = [at |-> r.at, p |-> r.p] /\ r.p \in Paper
  BY <1>1, UploadFields
<1>3. [r EXCEPT !.at = "undo"] = [at |-> "undo", p |-> r.p]
  BY ONLY <1>2, PlaceRewritten
<1>4. upload' = [upload EXCEPT ![s] = [at |-> "undo", p |-> r.p]]
  BY ONLY <1>1, <1>3
<1>. QED BY <1>2, <1>4 DEF r

LEMMA StampTo ==
  ASSUME P!TypeOK, NEW w \in Scanner, P!ScanStamp(w)
  PROVE  /\ scan[w].stamps \in [Paper -> P!Stamps \cup {"same"}]
         /\ [at |-> "notify", stamps |-> scan[w].stamps, found |-> scan[w].found, seen |-> scan[w].seen]
              \in P!Scans
         /\ scan' = [scan EXCEPT ![w] =
              [at |-> "notify", stamps |-> scan[w].stamps, found |-> scan[w].found, seen |-> scan[w].seen]]
<1> DEFINE r == scan[w]
<1>1. r.at = "stamp" /\ r \in P!Scans /\ scan' = [scan EXCEPT ![w] = [r EXCEPT !.at = "notify"]]
  BY DEF P!ScanStamp, P!TypeOK
<1> HIDE DEF r
<1>2. /\ r = [at |-> r.at, stamps |-> r.stamps, found |-> r.found, seen |-> r.seen]
      /\ r.stamps \in [Paper -> P!Stamps \cup {"same"}] /\ r.found \in SUBSET P!Keys
      /\ r.seen \in [Paper -> P!PaperStatuses \cup {"NONE"}]
  BY <1>1, ScanFields
<1>3. [r EXCEPT !.at = "notify"] = [at |-> "notify", stamps |-> r.stamps, found |-> r.found, seen |-> r.seen]
  BY ONLY <1>2, PlaceRewritten
<1>4. scan' = [scan EXCEPT ![w] =
        [at |-> "notify", stamps |-> r.stamps, found |-> r.found, seen |-> r.seen]]
  BY ONLY <1>1, <1>3
<1>5. [at |-> "notify", stamps |-> r.stamps, found |-> r.found, seen |-> r.seen] \in P!Scans
  BY <1>2 DEF P!Scans
<1>. QED BY <1>2, <1>4, <1>5 DEF r

LEMMA PaperTypeInit ==
  ASSUME LastDay \in Nat, MaxFaults \in Nat, P!Init
  PROVE  P!TypeOK
BY DEF P!Init, P!TypeOK, P!Uploads, P!Scans

LEMMA PaperTypeStep ==
  ASSUME LastDay \in Nat, MaxFaults \in Nat, P!TypeOK, P!Next
  PROVE  P!TypeOK'
<1> USE DEF P!TypeOK, P!sheet
<1>u. ASSUME NEW s \in Office, upload[s] # P!Away
      PROVE  upload[s].p \in Paper
  BY <1>u, UploadFields
<1>a. P!Away \in P!Uploads /\ P!Away \in P!Scans
  BY DEF P!Uploads, P!Scans
<1>0. CASE P!Midnight
  BY <1>0 DEF P!Midnight
<1>1. ASSUME NEW s \in Office, NEW p \in Paper, P!UploadPut(s, p) PROVE P!TypeOK'
  <2>1. upload' \in [Office -> P!Uploads]
    BY <1>1, UploadReplaced DEF P!UploadPut, P!Uploads
  <2>. QED BY <1>1, <2>1 DEF P!UploadPut
<1>2. ASSUME NEW s \in Office, P!UploadCreate(s) PROVE P!TypeOK'
  <2>1. upload[s].p \in Paper
    BY <1>2, <1>u DEF P!UploadCreate, P!Away
  <2>2. upload' \in [Office -> P!Uploads]
    BY <1>2, <2>1, UploadReplaced DEF P!UploadCreate, P!Uploads
  <2>3. paper' \in [Paper -> P!PaperStatuses \cup {"NONE"}]
    BY <1>2, <2>1, StampIs DEF P!UploadCreate, P!PaperStatuses, P!Stamps
  <2>. QED BY <1>2, <2>2, <2>3 DEF P!UploadCreate
<1>3. ASSUME NEW s \in Office, P!UploadReplace(s) PROVE P!TypeOK'
  <2>1. upload[s].p \in Paper
    BY <1>3, <1>u DEF P!UploadReplace, P!Away
  <2>2. upload' \in [Office -> P!Uploads]
    BY <1>3, <1>a, UploadReplaced DEF P!UploadReplace
  <2>3. paper' \in [Paper -> P!PaperStatuses \cup {"NONE"}]
    BY <1>3 DEF P!UploadReplace, P!PaperStatuses
  <2>4. replacedBy' \in [Paper -> Paper \cup {P!Nobody}]
    BY <1>3, <2>1 DEF P!UploadReplace
  <2>. QED BY <1>3, <2>2, <2>3, <2>4 DEF P!UploadReplace
<1>4. ASSUME NEW s \in Office, P!UploadThrows(s) PROVE P!TypeOK'
  <2>1. upload' \in [Office -> P!Uploads]
    BY <1>4, ThrowsTo, UploadReplaced DEF P!Uploads
  <2>. QED BY <1>4, <2>1 DEF P!UploadThrows
<1>5. ASSUME NEW s \in Office, P!UploadUndo(s) \/ P!UploadDies(s) PROVE P!TypeOK'
  <2>1. upload' \in [Office -> P!Uploads]
    BY <1>5, <1>a, UploadReplaced DEF P!UploadUndo, P!UploadDies
  <2>. QED BY <1>5, <2>1 DEF P!UploadUndo, P!UploadDies
<1>6. ASSUME NEW p \in Paper, P!DeleteDocument(p) PROVE P!TypeOK'
  BY <1>6 DEF P!DeleteDocument
<1>7. ASSUME NEW w \in Scanner, P!ScanRead(w) PROVE P!TypeOK'
  <2> DEFINE stamps == [p \in Paper |->
                         IF p \in P!Scanned /\ P!Stamp(p, day) # paper[p] THEN P!Stamp(p, day) ELSE "same"]
             found == UNION {P!KeysFor(p, day) : p \in P!Scanned}
             r == [at |-> "stamp", stamps |-> stamps, found |-> found, seen |-> paper]
  <2>1. stamps \in [Paper -> P!Stamps \cup {"same"}]
    BY StampIs
  <2>2. found \in SUBSET P!Keys
    BY KeysAre DEF P!Scanned
  <2> HIDE DEF stamps, found
  <2>3. r \in P!Scans
    BY <2>1, <2>2 DEF P!Scans
  <2>4. scan' = [scan EXCEPT ![w] = r]
    BY <1>7 DEF P!ScanRead, stamps, found
  <2> HIDE DEF r
  <2>5. scan' \in [Scanner -> P!Scans]
    BY <2>3, <2>4, ScanReplaced
  <2>. QED BY <1>7, <2>5 DEF P!ScanRead
<1>8. ASSUME NEW w \in Scanner, P!ScanStamp(w) PROVE P!TypeOK'
  <2>1. scan' \in [Scanner -> P!Scans]
    BY <1>8, StampTo, ScanReplaced
  <2>2. paper' \in [Paper -> P!PaperStatuses \cup {"NONE"}]
    <3>1. paper' = [p \in Paper |-> IF scan[w].stamps[p] = "same" THEN paper[p] ELSE scan[w].stamps[p]]
      BY <1>8 DEF P!ScanStamp, P!Stamped
    <3>2. \A p \in Paper : scan[w].stamps[p] \in P!Stamps \cup {"same"}
      BY <1>8, StampTo
    <3>. QED BY <3>1, <3>2 DEF P!Stamps, P!PaperStatuses
  <2>. QED BY <1>8, <2>1, <2>2 DEF P!ScanStamp
<1>9. ASSUME NEW w \in Scanner, P!ScanNotify(w) \/ P!ScanDies(w) PROVE P!TypeOK'
  <2>1. scan' \in [Scanner -> P!Scans]
    BY <1>9, <1>a, ScanReplaced DEF P!ScanNotify, P!ScanDies
  <2>2. P!ScanNotify(w) => notices' \subseteq P!Keys
    <3>1. P!ScanNotify(w) => scan[w].found \subseteq P!Keys
      BY ScanFields DEF P!ScanNotify, P!Away
    <3>. QED BY <3>1 DEF P!ScanNotify, P!SkipDuplicates
  <2>. QED BY <1>9, <2>1, <2>2 DEF P!ScanNotify, P!ScanDies
<1>. QED BY <1>0, <1>1, <1>2, <1>3, <1>4, <1>5, <1>6, <1>7, <1>8, <1>9 DEF P!Next, P!ScanStep

-----------------------------------------------------------------------------
(* One paper is current, and only a scan that was overtaken revives one.   *)

LEMMA PaperInvInit ==
  ASSUME LastDay \in Nat, MaxFaults \in Nat, P!Init
  PROVE  PaperInv
<1>1. P!TypeOK
  BY PaperTypeInit
<1>. QED BY <1>1 DEF P!Init, PaperInv, ReplacedByOne, StampsStand, UploadsApart, P!OneIsCurrent,
                    P!Standing, P!Away

(* What a step does to the rows: a row once written stays, a replaced one  *)
(* says by which, and only a scan stamps a replaced one.                   *)
LEMMA RowsStep ==
  ASSUME PaperInv, P!TypeOK', P!Nobody \notin Paper, P!Next
  PROVE  /\ ReplacedByOne'
         /\ \A p \in Paper : paper[p] # "NONE" => paper'[p] # "NONE"
         /\ \A p \in Paper : paper[p] = "REPLACED" /\ paper'[p] # "REPLACED" =>
              \E w \in Scanner : scan[w].at = "stamp" /\ scan[w].seen[p] # "REPLACED"
<1> DEFINE Goal(p) ==
             /\ paper'[p] = "REPLACED" => replacedBy'[p] # P!Nobody
             /\ paper[p] # "NONE" => paper'[p] # "NONE"
             /\ paper[p] = "REPLACED" /\ paper'[p] # "REPLACED" =>
                  \E w \in Scanner : scan[w].at = "stamp" /\ scan[w].seen[p] # "REPLACED"
<1>t. P!TypeOK
  BY DEF PaperInv
<1>s. SUFFICES ASSUME NEW p \in Paper PROVE Goal(p)
  BY DEF ReplacedByOne
<1>r. paper[p] = "REPLACED" => replacedBy[p] # P!Nobody
  BY DEF PaperInv, ReplacedByOne
<1>1. CASE UNCHANGED <<paper, replacedBy>>
  BY <1>1, <1>r
<1>2. ASSUME NEW s \in Office, P!UploadCreate(s) PROVE Goal(p)
  <2>1. upload[s].p \in Paper /\ paper[upload[s].p] = "NONE"
    BY <1>2, <1>t, UploadFields DEF PaperInv, P!TypeOK, UploadsApart, P!UploadCreate, P!Away
  <2>2. paper' = [paper EXCEPT ![upload[s].p] = P!Stamp(upload[s].p, day)] /\ replacedBy' = replacedBy
    BY <1>2 DEF P!UploadCreate
  <2>3. P!Stamp(upload[s].p, day) \notin {"NONE", "REPLACED"}
    BY StampIs DEF P!Stamps
  <2>4. paper'[p] = IF p = upload[s].p THEN P!Stamp(upload[s].p, day) ELSE paper[p]
    BY <1>t, <2>1, <2>2 DEF P!TypeOK
  <2>. QED BY <1>r, <2>1, <2>2, <2>3, <2>4
<1>3. ASSUME NEW s \in Office, P!UploadReplace(s) PROVE Goal(p)
  <2>1. upload[s].p \in Paper
    BY <1>3, <1>t, UploadFields DEF P!TypeOK, P!UploadReplace, P!Away
  <2>2. /\ paper'[p] = IF p \in P!Others(upload[s].p) THEN "REPLACED" ELSE paper[p]
        /\ replacedBy'[p] = IF p \in P!Others(upload[s].p) THEN upload[s].p ELSE replacedBy[p]
    BY <1>3 DEF P!UploadReplace
  <2>. QED BY <1>r, <2>1, <2>2
<1>4. ASSUME NEW w \in Scanner, P!ScanStamp(w) PROVE Goal(p)
  <2>1. scan[w].stamps[p] \in P!Stamps \cup {"same"} /\ scan[w].at = "stamp"
    BY <1>4, <1>t, StampTo DEF P!ScanStamp
  <2>2. paper'[p] = (IF scan[w].stamps[p] = "same" THEN paper[p] ELSE scan[w].stamps[p])
        /\ replacedBy' = replacedBy
    BY <1>4 DEF P!ScanStamp, P!Stamped
  <2>3. scan[w].stamps[p] # "same" => scan[w].seen[p] # "REPLACED"
    BY <2>1 DEF PaperInv, StampsStand
  <2>. QED BY <1>r, <2>1, <2>2, <2>3 DEF P!Stamps
<1> HIDE DEF Goal
<1>5. ASSUME P!Midnight PROVE Goal(p)
  BY <1>1, <1>5 DEF P!Midnight, P!sheet
<1>6. ASSUME NEW s \in Office,
             \/ \E q \in Paper : P!UploadPut(s, q)
             \/ P!UploadThrows(s) \/ P!UploadUndo(s) \/ P!UploadDies(s)
      PROVE  Goal(p)
  BY <1>1, <1>6 DEF P!UploadPut, P!UploadThrows, P!UploadUndo, P!UploadDies, P!sheet
<1>7. ASSUME NEW q \in Paper, P!DeleteDocument(q) PROVE Goal(p)
  BY <1>1, <1>7 DEF P!DeleteDocument
<1>8. ASSUME NEW w \in Scanner, P!ScanRead(w) \/ P!ScanNotify(w) \/ P!ScanDies(w) PROVE Goal(p)
  BY <1>1, <1>8 DEF P!ScanRead, P!ScanNotify, P!ScanDies, P!sheet
<1>. QED BY <1>2, <1>3, <1>4, <1>5, <1>6, <1>7, <1>8 DEF P!Next, P!ScanStep

LEMMA StampsStep ==
  ASSUME PaperInv, P!TypeOK', P!Nobody \notin Paper, P!Next
  PROVE  StampsStand'
<1>t. P!TypeOK
  BY DEF PaperInv
<1>s. SUFFICES ASSUME NEW v \in Scanner, scan'[v].at = "stamp", NEW p \in Paper, scan'[v].stamps[p] # "same"
               PROVE  paper[p] # "NONE" /\ scan'[v].seen[p] \notin {"NONE", "REPLACED"}
  BY RowsStep DEF StampsStand
<1>1. CASE scan'[v] = scan[v]
  BY <1>s, <1>1 DEF PaperInv, StampsStand
<1>2. ASSUME NEW w \in Scanner, P!ScanRead(w), v = w
      PROVE  paper[p] # "NONE" /\ scan'[v].seen[p] \notin {"NONE", "REPLACED"}
  <2>1. scan'[v].seen = paper
        /\ scan'[v].stamps = [q \in Paper |->
             IF q \in P!Scanned /\ P!Stamp(q, day) # paper[q] THEN P!Stamp(q, day) ELSE "same"]
    BY <1>2, <1>t DEF P!ScanRead, P!TypeOK
  <2>2. p \in P!Scanned
    BY <1>s, <2>1
  <2>. QED BY <2>1, <2>2 DEF P!Scanned, P!Standing
<1>3. ASSUME NEW w \in Scanner, P!ScanStamp(w) PROVE w # v
  <2> DEFINE r == [at |-> "notify", stamps |-> scan[w].stamps, found |-> scan[w].found,
                   seen |-> scan[w].seen]
  <2>1. r \in P!Scans /\ scan' = [scan EXCEPT ![w] = r]
    BY <1>3, <1>t, StampTo
  <2>2. r.at = "notify"
    OBVIOUS
  <2> HIDE DEF r
  <2>3. scan'[w] = r
    BY <1>t, <2>1, ScanReplaced
  <2>. QED BY <1>s, <2>2, <2>3
<1>4. ASSUME NEW w \in Scanner, P!ScanNotify(w) \/ P!ScanDies(w) PROVE w # v
  BY <1>s, <1>4, <1>t DEF P!ScanNotify, P!ScanDies, P!TypeOK, P!Away
<1>5. ASSUME NEW w \in Scanner, P!ScanStep(w) \/ P!ScanDies(w), v # w PROVE scan'[v] = scan[v]
  BY <1>5, <1>t DEF P!ScanStep, P!ScanRead, P!ScanStamp, P!ScanNotify, P!ScanDies, P!TypeOK
<1>6. CASE scan' = scan
  BY <1>1, <1>6
<1>7. P!Next => \/ scan' = scan \/ \E w \in Scanner : P!ScanStep(w) \/ P!ScanDies(w)
  BY DEF P!Next, P!Midnight, P!UploadPut, P!UploadCreate, P!UploadReplace, P!UploadThrows,
         P!UploadUndo, P!UploadDies, P!DeleteDocument
<1>. QED BY <1>1, <1>2, <1>3, <1>4, <1>5, <1>6, <1>7 DEF P!ScanStep

LEMMA UploadsStep ==
  ASSUME PaperInv, P!TypeOK', P!Nobody \notin Paper, P!Next
  PROVE  UploadsApart'
<1>t. P!TypeOK
  BY DEF PaperInv
<1>a. /\ \A s \in Office : upload[s] # P!Away =>
           /\ upload[s].p \in bytes /\ upload[s].p \in Paper
           /\ upload[s].at = "stored" => paper[upload[s].p] = "NONE"
      /\ \A s, t \in Office :
           upload[s] # P!Away /\ upload[t] # P!Away /\ upload[s].p = upload[t].p => s = t
  BY <1>t, UploadFields DEF PaperInv, UploadsApart, P!TypeOK
(* Enough: who is under way was, with the same paper, or starts with a new one. *)
<1>1. ASSUME UNCHANGED upload, bytes \subseteq bytes',
             \A p \in Paper : paper[p] = "NONE" => paper'[p] = "NONE"
      PROVE  UploadsApart'
  BY <1>1, <1>a DEF UploadsApart
<1>2. ASSUME NEW s \in Office, NEW p \in Paper, P!UploadPut(s, p) PROVE UploadsApart'
  <2>1. /\ upload'[s] = [at |-> "stored", p |-> p] /\ \A t \in Office \ {s} : upload'[t] = upload[t]
        /\ paper' = paper /\ bytes' = bytes \cup {p} /\ p \notin bytes /\ paper[p] = "NONE"
    BY <1>2, <1>t DEF P!UploadPut, P!TypeOK, P!sheet
  <2>2. upload'[s].p = p /\ upload'[s] # P!Away
    BY <2>1 DEF P!Away
  <2>. QED BY <1>a, <2>1, <2>2 DEF UploadsApart
<1>3. ASSUME NEW s \in Office, P!UploadCreate(s) PROVE UploadsApart'
  <2>1. /\ upload'[s] = [at |-> "created", p |-> upload[s].p] /\ \A t \in Office \ {s} : upload'[t] = upload[t]
        /\ paper' = [paper EXCEPT ![upload[s].p] = P!Stamp(upload[s].p, day)] /\ bytes' = bytes
        /\ upload[s] # P!Away
    BY <1>3, <1>t DEF P!UploadCreate, P!TypeOK, P!Away
  <2>2. upload'[s].p = upload[s].p /\ upload'[s].at = "created"
    BY <2>1
  <2>3. \A q \in Paper : q # upload[s].p => paper'[q] = paper[q]
    BY <1>t, <2>1 DEF P!TypeOK
  <2>. QED BY <1>a, <2>1, <2>2, <2>3 DEF UploadsApart
<1>4. ASSUME NEW s \in Office, P!UploadReplace(s) PROVE UploadsApart'
  <2>1. /\ upload'[s] = P!Away /\ \A t \in Office \ {s} : upload'[t] = upload[t]
        /\ bytes' = bytes
        /\ \A q \in Paper : paper'[q] = IF q \in P!Others(upload[s].p) THEN "REPLACED" ELSE paper[q]
    BY <1>4, <1>t DEF P!UploadReplace, P!TypeOK
  <2>2. \A q \in Paper : paper[q] = "NONE" => paper'[q] = "NONE"
    BY <2>1 DEF P!Others, P!Standing
  <2>. QED BY <1>a, <2>1, <2>2 DEF UploadsApart
<1>5. ASSUME NEW s \in Office, P!UploadThrows(s) PROVE UploadsApart'
  <2>1. /\ upload'[s] = [at |-> "undo", p |-> upload[s].p] /\ \A t \in Office \ {s} : upload'[t] = upload[t]
        /\ bytes' = bytes /\ paper' = paper /\ upload[s] # P!Away
    <3>1. upload' = [upload EXCEPT ![s] = [at |-> "undo", p |-> upload[s].p]]
      BY <1>5, <1>t, ThrowsTo
    <3>2. bytes' = bytes /\ paper' = paper /\ upload[s] # P!Away
      BY <1>5 DEF P!UploadThrows, P!Away, P!sheet
    <3>. QED BY <1>t, <3>1, <3>2 DEF P!TypeOK
  <2>2. upload'[s].p = upload[s].p /\ upload'[s].at = "undo"
    BY <2>1
  <2>. QED BY <1>a, <2>1, <2>2 DEF UploadsApart
<1>6. ASSUME NEW s \in Office, P!UploadUndo(s) \/ P!UploadDies(s) PROVE UploadsApart'
  <2>1. /\ upload'[s] = P!Away /\ \A t \in Office \ {s} : upload'[t] = upload[t]
        /\ bytes \ {upload[s].p} \subseteq bytes' /\ paper' = paper /\ upload[s] # P!Away
    BY <1>6, <1>t DEF P!UploadUndo, P!UploadDies, P!TypeOK, P!Away, P!sheet
  <2>. QED BY <1>a, <2>1 DEF UploadsApart
<1>7. ASSUME NEW w \in Scanner, P!ScanStamp(w) PROVE UploadsApart'
  <2>1. \A p \in Paper : paper[p] = "NONE" => paper'[p] = "NONE"
    BY <1>7 DEF PaperInv, StampsStand, P!ScanStamp, P!Stamped
  <2>. QED BY <1>1, <1>7, <2>1 DEF P!ScanStamp
<1>8. ASSUME P!Midnight PROVE UploadsApart'
  BY <1>1, <1>8 DEF P!Midnight, P!sheet
<1>9. ASSUME NEW q \in Paper, P!DeleteDocument(q) PROVE UploadsApart'
  BY <1>1, <1>9 DEF P!DeleteDocument
<1>10. ASSUME NEW w \in Scanner, P!ScanRead(w) \/ P!ScanNotify(w) \/ P!ScanDies(w) PROVE UploadsApart'
  BY <1>1, <1>10 DEF P!ScanRead, P!ScanNotify, P!ScanDies, P!sheet
<1>. QED BY <1>2, <1>3, <1>4, <1>5, <1>6, <1>7, <1>8, <1>9, <1>10 DEF P!Next, P!ScanStep

LEMMA CurrentStep ==
  ASSUME PaperInv, P!TypeOK', P!Nobody \notin Paper, P!Next
  PROVE  P!OneIsCurrent'
<1>t. P!TypeOK
  BY DEF PaperInv
<1> DEFINE Stands(p) == paper'[p] \notin {"NONE", "REPLACED"} /\ p \notin removed'
           Excused(p, q) == \/ \E s \in Office : upload'[s].at = "created"
                            \/ faults' > 0
                            \/ replacedBy'[p] # P!Nobody \/ replacedBy'[q] # P!Nobody
<1>s. SUFFICES ASSUME NEW p \in Paper, NEW q \in Paper, Stands(p), Stands(q), p # q
               PROVE  Excused(p, q)
  BY DEF P!OneIsCurrent, P!Standing
<1>c. P!Standing(p) /\ P!Standing(q) =>
        \/ \E s \in Office : upload[s].at = "created"
        \/ faults > 0
        \/ replacedBy[p] # P!Nobody \/ replacedBy[q] # P!Nobody
  BY <1>s DEF PaperInv, P!OneIsCurrent
(* Steps that leave the rows and the uploads in hand. *)
<1>1. ASSUME UNCHANGED <<paper, replacedBy, faults>>, removed \subseteq removed',
             \A s \in Office : upload[s].at = "created" => upload'[s].at = "created"
      PROVE  Excused(p, q)
  BY <1>1, <1>s, <1>c DEF P!Standing
<1>2. ASSUME NEW s \in Office, NEW r \in Paper, P!UploadPut(s, r) PROVE Excused(p, q)
  BY <1>1, <1>2, <1>t DEF P!UploadPut, P!TypeOK, P!sheet, P!Away
<1>3. ASSUME NEW s \in Office, P!UploadCreate(s) PROVE Excused(p, q)
  BY <1>3, <1>t DEF P!UploadCreate, P!TypeOK
<1>4. ASSUME NEW s \in Office, P!UploadReplace(s) PROVE Excused(p, q)
  <2>1. ASSUME NEW r \in Paper, Stands(r) PROVE r = upload[s].p
    BY <1>4, <2>1 DEF P!UploadReplace, P!Others, P!Standing
  <2>. QED BY <1>s, <2>1
<1>5. ASSUME NEW s \in Office, P!UploadThrows(s) \/ P!UploadDies(s) PROVE Excused(p, q)
  BY <1>5, <1>t DEF P!UploadThrows, P!UploadDies, P!TypeOK
<1>6. ASSUME NEW s \in Office, P!UploadUndo(s) PROVE Excused(p, q)
  BY <1>1, <1>6, <1>t DEF P!UploadUndo, P!TypeOK, P!sheet
<1>7. ASSUME NEW r \in Paper, P!DeleteDocument(r) PROVE Excused(p, q)
  BY <1>1, <1>7 DEF P!DeleteDocument
<1>8. ASSUME NEW w \in Scanner, P!ScanStamp(w) PROVE Excused(p, q)
  <2>1. ASSUME NEW r \in Paper, Stands(r) PROVE P!Standing(r) \/ replacedBy'[r] # P!Nobody
    <3>1. /\ paper'[r] = (IF scan[w].stamps[r] = "same" THEN paper[r] ELSE scan[w].stamps[r])
          /\ removed' = removed /\ replacedBy' = replacedBy /\ scan[w].at = "stamp"
      BY <1>8 DEF P!ScanStamp, P!Stamped
    <3>2. scan[w].stamps[r] # "same" => paper[r] # "NONE"
      BY <3>1 DEF PaperInv, StampsStand
    <3>3. paper[r] = "REPLACED" => replacedBy[r] # P!Nobody
      BY DEF PaperInv, ReplacedByOne
    <3>. QED BY <2>1, <3>1, <3>2, <3>3 DEF P!Standing
  <2>2. UNCHANGED <<upload, faults, replacedBy>>
    BY <1>8 DEF P!ScanStamp
  <2>3. P!Standing(p) \/ replacedBy'[p] # P!Nobody
    BY <1>s, <2>1
  <2>4. P!Standing(q) \/ replacedBy'[q] # P!Nobody
    BY <1>s, <2>1
  <2>. QED BY <1>c, <2>2, <2>3, <2>4
<1>9. ASSUME P!Midnight PROVE Excused(p, q)
  BY <1>1, <1>9 DEF P!Midnight, P!sheet
<1>10. ASSUME NEW w \in Scanner, P!ScanRead(w) \/ P!ScanNotify(w) PROVE Excused(p, q)
  BY <1>1, <1>10 DEF P!ScanRead, P!ScanNotify, P!sheet
<1>11. ASSUME NEW w \in Scanner, P!ScanDies(w) PROVE Excused(p, q)
  BY <1>11, <1>t DEF P!ScanDies, P!TypeOK
<1> HIDE DEF Excused
<1>. QED BY <1>2, <1>3, <1>4, <1>5, <1>6, <1>7, <1>8, <1>9, <1>10, <1>11 DEF P!Next, P!ScanStep

LEMMA PaperInvStep ==
  ASSUME PaperInv, LastDay \in Nat, MaxFaults \in Nat, P!Nobody \notin Paper, [P!Next]_(P!vars)
  PROVE  PaperInv'
<1>1. CASE P!Next
  <2>1. P!TypeOK'
    BY <1>1, PaperTypeStep DEF PaperInv
  <2>2. ReplacedByOne'
    BY <1>1, <2>1, RowsStep
  <2>3. StampsStand'
    BY <1>1, <2>1, StampsStep
  <2>4. UploadsApart'
    BY <1>1, <2>1, UploadsStep
  <2>5. P!OneIsCurrent'
    BY <1>1, <2>1, CurrentStep
  <2>. QED BY <2>1, <2>2, <2>3, <2>4, <2>5 DEF PaperInv
<1>2. CASE UNCHANGED P!vars
  <2>1. UNCHANGED <<day, paper, removed, replacedBy, bytes, notices, upload, scan, faults>>
    BY <1>2 DEF P!vars, P!sheet
  <2>2. P!TypeOK' /\ ReplacedByOne'
    BY <2>1 DEF PaperInv, P!TypeOK, ReplacedByOne
  <2>3. StampsStand' /\ UploadsApart'
    BY <2>1 DEF PaperInv, StampsStand, UploadsApart
  <2>4. P!OneIsCurrent'
    BY <2>1 DEF PaperInv, P!OneIsCurrent, P!Standing
  <2>. QED BY <2>2, <2>3, <2>4 DEF PaperInv
<1>. QED BY <1>1, <1>2

-----------------------------------------------------------------------------
(* The night: one part runs and the others stand still.                    *)

NightInv == SupplierInv /\ MailInv /\ PaperInv

LEMMA NightInvInit == NightInit => NightInv
<1> SUFFICES ASSUME NightInit PROVE NightInv
  OBVIOUS
<1>1. SupplierInv
  BY InvInit DEF NightInit
<1>2. MailInv
  BY MailInvInit, NightAssumption DEF NightInit
<1>3. PaperInv
  BY PaperInvInit, NightAssumption DEF NightInit
<1>. QED BY <1>1, <1>2, <1>3 DEF NightInv

(* A step of the night is a step of each part, most of them stuttering.    *)
LEMMA NightStep ==
  ASSUME [NightNext]_<<part, suppliers, outbox, papers>>
  PROVE  [Next]_vars /\ [O!Next]_(O!vars) /\ [P!Next]_(P!vars)
<1>1. UNCHANGED suppliers => UNCHANGED vars
  BY DEF suppliers
<1>2. UNCHANGED outbox => UNCHANGED O!vars
  BY DEF outbox, O!vars, O!rows, O!faults
<1>3. UNCHANGED papers => UNCHANGED P!vars
  BY DEF papers, P!vars, P!sheet
<1>. QED BY <1>1, <1>2, <1>3 DEF NightNext

LEMMA NightInvStep == NightInv /\ [NightNext]_<<part, suppliers, outbox, papers>> => NightInv'
<1> SUFFICES ASSUME NightInv, [NightNext]_<<part, suppliers, outbox, papers>> PROVE NightInv'
  OBVIOUS
<1>1. [Next]_vars /\ [O!Next]_(O!vars) /\ [P!Next]_(P!vars)
  BY NightStep
<1>2. SupplierInv'
  BY <1>1, InvStep DEF NightInv
<1>3. MailInv'
  BY <1>1, MailInvStep, NightAssumption DEF NightInv
<1>4. PaperInv'
  BY <1>1, PaperInvStep, NightAssumption DEF NightInv
<1>. QED BY <1>2, <1>3, <1>4 DEF NightInv

LEMMA NightInvHolds == NightSpec => []NightInv
<1>1. NightInit => NightInv
  BY NightInvInit
<1>2. NightInv /\ [NightNext]_<<part, suppliers, outbox, papers>> => NightInv'
  BY NightInvStep
<1>. QED BY <1>1, <1>2, PTL DEF NightSpec

(* Every row, process, upload and scan of the night keeps its type: no    *)
(* nightly job or hand writes a status, a count or a batch that the others *)
(* could not read.                                                         *)
THEOREM NightTypeCorrect == NightSpec => []NightTypeOK
<1>1. NightInv => NightTypeOK
  BY DEF NightInv, SupplierInv, MailInv, PaperInv, NightTypeOK
<1>. QED BY <1>1, NightInvHolds, PTL

(* The delivery log can be believed however many deliver-notifications     *)
(* runs overlap: who it says was told has the message, and nobody has one  *)
(* without a row that was claimed first.                                   *)
THEOREM LogCanBeBelieved == NightSpec => []O!LogIsTrue
<1>1. NightInv => O!LogIsTrue
  BY DEF NightInv, MailInv
<1>. QED BY <1>1, NightInvHolds, PTL

(* With one deliver-notifications process at a time, every message a       *)
(* person gets about a notice beyond the first is a process's that died    *)
(* between sending and marking, or one whose answer was lost.              *)
THEOREM EveryMessageHasAReason ==
  ASSUME Alone
  PROVE  NightSpec => []MailIsAccountedFor
<1>1. NightInv => MailIsAccountedFor
  BY AccountedIsBounded DEF NightInv, MailInv, MailIsAccountedFor
<1>. QED BY <1>1, NightInvHolds, PTL

(* Of the papers of one owner and category one is current, unless an       *)
(* upload is under way, something failed or a scan revived a replaced one, *)
(* however many uploads and scans run together.                            *)
THEOREM OnePaperStands == NightSpec => []OneIsCurrent
<1>1. NightInv => OneIsCurrent
  BY DEF NightInv, PaperInv, OneIsCurrent
<1>. QED BY <1>1, NightInvHolds, PTL

(* A replaced paper comes back only under an expiry scan that had read it  *)
(* before it was replaced.                                                 *)
THEOREM RevivedByAnOvertakenScan == NightSpec => OnlyOvertakenRevives
<1>1. NightInv /\ NightInv' /\ [NightNext]_<<part, suppliers, outbox, papers>> =>
        [\A p \in Paper : paper[p] = "REPLACED" /\ paper'[p] # "REPLACED" =>
           \E w \in Scanner : scan[w].at = "stamp" /\ scan[w].seen[p] # "REPLACED"]_(P!vars)
  <2> SUFFICES ASSUME NightInv, NightInv', [NightNext]_<<part, suppliers, outbox, papers>>, P!vars' # P!vars
               PROVE  \A p \in Paper : paper[p] = "REPLACED" /\ paper'[p] # "REPLACED" =>
                        \E w \in Scanner : scan[w].at = "stamp" /\ scan[w].seen[p] # "REPLACED"
    OBVIOUS
  <2>1. P!Next
    BY NightStep
  <2>2. PaperInv /\ P!TypeOK'
    BY DEF NightInv, PaperInv
  <2>. QED BY <2>1, <2>2, RowsStep, NightAssumption
<1>. QED BY <1>1, NightInvHolds, PTL DEF NightSpec, OnlyOvertakenRevives, P!OnlyOvertakenRevives
=============================================================================
