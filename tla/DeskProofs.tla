----------------------------- MODULE DeskProofs -----------------------------
(***************************************************************************)
(* Theorems about what is done by hand during the day.  A car's file,      *)
(* fines, accidents and policies, and the figures (T, of Terms, Reports    *)
(* and Identifiers) are proved in modules of their own and put together    *)
(* here; the sales pipeline (L, of Leads), the audit log (A, of Audit),    *)
(* who may do what (U, of Access), signing in (G, of SignIn) and the deal  *)
(* calculator (Q, of Calculators) are proved here, for every set of        *)
(* clients, staff, roles, rows, leads and cars.                            *)
(***************************************************************************)
EXTENDS MCDesk

desk == <<part, sheet, file, cases, leads, audit, access, door, pricing>>

(* A step of the desk is a step of each part, most of them stuttering.     *)
LEMMA DeskStep ==
  ASSUME [DeskNext]_desk
  PROVE  /\ part' = part /\ sheet' = sheet
         /\ [Next]_vars /\ [K!Next]_(K!vars) /\ [L!Next]_(L!vars) /\ [A!Next]_(A!vars)
         /\ [U!Next]_(U!vars) /\ [G!Next]_(G!vars) /\ [Q!Next]_(Q!vars)
<1>1. /\ UNCHANGED file => UNCHANGED vars
      /\ UNCHANGED cases => UNCHANGED K!vars
      /\ UNCHANGED leads => UNCHANGED L!vars
      /\ UNCHANGED audit => UNCHANGED A!vars
      /\ UNCHANGED access => UNCHANGED U!vars
      /\ UNCHANGED door => UNCHANGED G!vars
      /\ UNCHANGED pricing => UNCHANGED Q!vars
  <2>1. UNCHANGED file => UNCHANGED vars
    BY DEF file
  <2>2. UNCHANGED cases => UNCHANGED K!vars
    BY DEF cases, fines, crashes, covers, K!vars, K!fines, K!crashes, K!covers
  <2>3. UNCHANGED leads => UNCHANGED L!vars
    BY DEF leads, L!vars
  <2>4. UNCHANGED audit => UNCHANGED A!vars
    BY DEF audit, A!vars
  <2>5. UNCHANGED access => UNCHANGED U!vars
    BY DEF access, U!vars
  <2>6. UNCHANGED door => UNCHANGED G!vars
    BY DEF door, G!vars
  <2>7. UNCHANGED pricing => UNCHANGED Q!vars
    BY DEF pricing, Q!vars
  <2>. QED BY <2>1, <2>2, <2>3, <2>4, <2>5, <2>6, <2>7
<1>2. CASE UNCHANGED desk
  BY <1>1, <1>2 DEF desk
<1>3. CASE DeskNext
  BY <1>1, <1>3 DEF DeskNext
<1>. QED BY <1>2, <1>3

(* A behaviour of the desk is one of each part. *)
LEMMA DeskIsEach ==
  DeskSpec => /\ Spec /\ K!Spec /\ L!Spec /\ A!Spec
              /\ U!Spec /\ G!Spec /\ Q!Spec
<1>1. DeskInit => /\ Init /\ K!Init /\ L!Init /\ A!Init /\ U!Init /\ G!Init /\ Q!Init
  BY DEF DeskInit
<1>2. [DeskNext]_desk =>
        /\ [Next]_vars /\ [K!Next]_(K!vars) /\ [L!Next]_(L!vars) /\ [A!Next]_(A!vars)
        /\ [U!Next]_(U!vars) /\ [G!Next]_(G!vars) /\ [Q!Next]_(Q!vars)
  BY DeskStep
<1>3. desk = <<part, sheet, file, cases, leads, audit, access, door, pricing>>
  BY DEF desk
<1>4. DeskSpec => DeskInit /\ [][DeskNext]_desk
  BY DEF DeskSpec, desk
<1>. QED BY <1>1, <1>2, <1>4, PTL DEF Spec, K!Spec, L!Spec, A!Spec, U!Spec, G!Spec, Q!Spec

(* A car's forms hold one signed figure each way, and only a request that  *)
(* was overtaken undoes a reading or changes a signed form, on any desk.   *)
THEOREM DeskOneFigure == DeskSpec => []OneFigureEachWay /\ OnlyOvertakenUndoes
BY DeskIsEach, OneFigure, OnlyTheOvertakenUndo, PTL

(* What the ledger says of fines, repairs, claims and refunds is what was  *)
(* recorded of them, whatever requests overtake each other.                *)
THEOREM DeskMoneyIsBooked == DeskSpec => []MoneyIsBooked
<1>1. K!SumsAreMoney
  BY DeskAssumption DEF K!SumsAreMoney
<1>2. K!Spec => []K!MoneyIsBooked
  BY <1>1, K!MoneyBooked
<1>3. K!MoneyIsBooked => MoneyIsBooked
  BY DEF MoneyIsBooked
<1>. QED BY <1>2, <1>3, DeskIsEach, PTL

(* A case and its ledger entry come to disagree only by a request whose    *)
(* case was changed between its read and its write.                        *)
THEOREM DeskDisagreesOnlyWhenOvertaken == DeskSpec => OnlyOvertakenDisagrees
<1>1. K!SumsAreMoney
  BY DeskAssumption DEF K!SumsAreMoney
<1>2. K!Spec => K!OnlyOvertakenDisagrees
  BY <1>1, K!OvertakenAloneDisagrees
<1>. QED BY <1>2, DeskIsEach DEF OnlyOvertakenDisagrees

-----------------------------------------------------------------------------
(* Leads.                                                                  *)

QuotesAreCounted == MaxQuotes \in Nat

(* What a running request read rules out, however long it waits: no one    *)
(* moves a lead by hand out of Contracted or to a stage that is earned,    *)
(* nor saves a quotation on a lead that he saw closed.                     *)
ReadsStand ==
  \A s \in Staff : LET r == errand[s] IN
    /\ r.op = "move" => r.seen # "CONTRACTED" /\ r.to \notin L!EarnedLeadStatuses
    /\ r.op = "quote" => r.seen # "CONTRACTED"

LeadsInv == L!TypeOK /\ L!StagesAreEarned /\ ReadsStand

(* The fields of a request on a lead, by kind. *)
LEMMA ErrandFields ==
  ASSUME NEW r \in L!Requests
  PROVE  /\ r.op = "move" => r.l \in Lead /\ r.seen \in L!LeadStatuses /\ r.to \in L!LeadStatuses
         /\ r.op = "quote" => r.l \in Lead /\ r.seen \in L!LeadStatuses
         /\ r.op = "look" => /\ r.l \in Lead /\ r.seen = "DEAL_CREATED" /\ r.m \in Mobile
                             /\ r.quote \in 1..MaxQuotes
         /\ r.op = "convert" => /\ r.l \in Lead /\ r.seen = "DEAL_CREATED" /\ r.m \in Mobile
                                /\ r.quote \in 1..MaxQuotes
BY DEF L!Requests, L!Idle

LEMMA LeadsInvInit == QuotesAreCounted /\ L!Init => LeadsInv
<1> SUFFICES ASSUME QuotesAreCounted, L!Init PROVE LeadsInv
  OBVIOUS
<1>1. L!TypeOK
  BY DEF QuotesAreCounted, L!Init, L!TypeOK, L!None, L!Requests
<1>2. L!StagesAreEarned
  BY DEF L!Init, L!StagesAreEarned, L!EarnedLeadStatuses, L!None
<1>3. ReadsStand
  BY DEF L!Init, ReadsStand, L!Idle
<1>. QED BY <1>1, <1>2, <1>3 DEF LeadsInv

LEMMA LeadsTypeStep ==
  ASSUME QuotesAreCounted, L!TypeOK, L!Next
  PROVE  L!TypeOK'
<1> USE DEF L!TypeOK
<1>r. ASSUME NEW s \in Staff, NEW r \in L!Requests, errand' = [errand EXCEPT ![s] = r],
             UNCHANGED <<lead, mobile, quotes, deal, customers>>
      PROVE  L!TypeOK'
  BY <1>r
<1>i. ASSUME NEW s \in Staff, L!Respond(s) PROVE errand' \in [Staff -> L!Requests]
  BY <1>i DEF L!Respond, L!Requests
<1>1. ASSUME NEW l \in Lead, L!CreateLead(l) \/ \E m \in Mobile : L!UpdateLead(l, m) PROVE L!TypeOK'
  BY <1>1 DEF L!CreateLead, L!UpdateLead, L!LeadStatuses
<1>2. ASSUME NEW s \in Staff, NEW l \in Lead, NEW to \in L!LeadStatuses, L!MoveRead(s, l, to) PROVE L!TypeOK'
  <2>1. lead[l] \in L!LeadStatuses
    BY <1>2 DEF L!MoveRead, L!LeadMoves
  <2>2. [op |-> "move", l |-> l, seen |-> lead[l], to |-> to] \in L!Requests
    BY <2>1 DEF L!Requests
  <2>. QED BY <1>2, <1>r, <2>2 DEF L!MoveRead, L!Ask
<1>3. ASSUME NEW s \in Staff, NEW l \in Lead, L!QuoteRead(s, l) PROVE L!TypeOK'
  <2>1. [op |-> "quote", l |-> l, seen |-> lead[l]] \in L!Requests
    BY <1>3 DEF L!QuoteRead, L!Requests
  <2>. QED BY <1>3, <1>r, <2>1 DEF L!QuoteRead, L!Ask
<1>4. ASSUME NEW s \in Staff, NEW l \in Lead, L!ConvertRead(s, l) PROVE L!TypeOK'
  <2>1. quotes[l] \in 1..MaxQuotes
    BY <1>4 DEF L!ConvertRead, QuotesAreCounted
  <2>2. [op |-> "look", l |-> l, seen |-> lead[l], m |-> mobile[l], quote |-> quotes[l]] \in L!Requests
    BY <1>4, <2>1 DEF L!ConvertRead, L!Requests
  <2>. QED BY <1>4, <1>r, <2>2 DEF L!ConvertRead, L!Ask
<1>5. ASSUME NEW s \in Staff, L!ConvertMatch(s) PROVE L!TypeOK'
  <2> DEFINE r == errand[s]
             q == [op |-> "convert", l |-> r.l, seen |-> r.seen, m |-> r.m, quote |-> r.quote,
                   matched |-> customers[r.m] > 0]
  <2>1. /\ r.l \in Lead /\ r.seen = "DEAL_CREATED" /\ r.m \in Mobile /\ r.quote \in 1..MaxQuotes
    BY <1>5, ErrandFields DEF L!ConvertMatch
  <2>2. (customers[r.m] > 0) \in BOOLEAN
    OBVIOUS
  <2>3. q \in L!Requests
    BY <2>1, <2>2 DEF L!Requests
  <2>. QED BY <1>5, <1>r, <2>3 DEF L!ConvertMatch
<1>6. ASSUME NEW s \in Staff, L!MoveWrite(s) PROVE L!TypeOK'
  <2>1. errand[s].l \in Lead /\ errand[s].to \in L!LeadStatuses
    BY <1>6, ErrandFields DEF L!MoveWrite
  <2>. QED BY <1>6, <1>i, <2>1 DEF L!MoveWrite
<1>7. ASSUME NEW s \in Staff, L!QuoteWrite(s) PROVE L!TypeOK'
  <2>1. errand[s].l \in Lead
    BY <1>7, ErrandFields DEF L!QuoteWrite
  <2>2. quotes' \in [Lead -> 0..MaxQuotes]
    BY <1>7, <2>1 DEF L!QuoteWrite, QuotesAreCounted
  <2>. QED BY <1>7, <1>i, <2>1, <2>2 DEF L!QuoteWrite, L!LeadStatuses
<1>8. ASSUME NEW s \in Staff, L!ConvertWrite(s) PROVE L!TypeOK'
  <2>1. /\ errand[s].l \in Lead /\ errand[s].m \in Mobile
        /\ errand[s].quote \in 0..MaxQuotes
    BY <1>8, ErrandFields DEF L!ConvertWrite, QuotesAreCounted
  <2>2. customers' \in [Mobile -> Nat]
    BY <1>8, <2>1 DEF L!ConvertWrite
  <2>. QED BY <1>8, <1>i, <2>1, <2>2 DEF L!ConvertWrite, L!LeadStatuses
<1>9. ASSUME NEW s \in Staff, L!Abort(s) PROVE L!TypeOK'
  BY <1>9, <1>i DEF L!Abort
<1>. QED BY <1>1, <1>2, <1>3, <1>4, <1>5, <1>6, <1>7, <1>8, <1>9 DEF L!Next

LEMMA LeadsInvStep ==
  ASSUME QuotesAreCounted, LeadsInv, [L!Next]_(L!vars)
  PROVE  LeadsInv'
<1> USE DEF LeadsInv
<1>1. CASE UNCHANGED L!vars
  BY <1>1 DEF L!vars, L!TypeOK, L!StagesAreEarned, ReadsStand
<1>2. CASE L!Next
  <2>t. L!TypeOK'
    BY <1>2, LeadsTypeStep
  <2>q. ASSUME UNCHANGED <<lead, quotes, deal>> PROVE L!StagesAreEarned'
    BY <2>q DEF L!StagesAreEarned
  <2>r. ASSUME NEW s \in Staff, NEW r, errand' = [errand EXCEPT ![s] = r],
               r.op = "move" => r.seen # "CONTRACTED" /\ r.to \notin L!EarnedLeadStatuses,
               r.op = "quote" => r.seen # "CONTRACTED"
        PROVE  ReadsStand'
    BY <2>r DEF ReadsStand, L!TypeOK
  <2>i. ASSUME NEW s \in Staff, L!Respond(s) PROVE ReadsStand'
    BY <2>i, <2>r DEF L!Respond, L!Idle
  <2>1. ASSUME NEW l \in Lead, L!CreateLead(l) PROVE LeadsInv'
    <3>1. L!StagesAreEarned'
      BY <2>1 DEF L!CreateLead, L!StagesAreEarned, L!EarnedLeadStatuses, L!TypeOK
    <3>. QED BY <2>1, <2>t, <3>1 DEF L!CreateLead, ReadsStand
  <2>2. ASSUME NEW l \in Lead, NEW m \in Mobile, L!UpdateLead(l, m) PROVE LeadsInv'
    BY <2>2, <2>q, <2>t DEF L!UpdateLead, ReadsStand
  <2>3. ASSUME NEW s \in Staff, NEW l \in Lead, NEW to \in L!LeadStatuses, L!MoveRead(s, l, to)
        PROVE  LeadsInv'
    <3>1. lead[l] # "CONTRACTED"
      BY <2>3 DEF L!MoveRead, L!LeadMoves
    <3>. QED BY <2>3, <2>q, <2>r, <2>t, <3>1 DEF L!MoveRead, L!Ask
  <2>4. ASSUME NEW s \in Staff, NEW l \in Lead, L!QuoteRead(s, l) PROVE LeadsInv'
    BY <2>4, <2>q, <2>r, <2>t DEF L!QuoteRead, L!Ask
  <2>5. ASSUME NEW s \in Staff, NEW l \in Lead, L!ConvertRead(s, l) PROVE LeadsInv'
    BY <2>5, <2>q, <2>r, <2>t DEF L!ConvertRead, L!Ask
  <2>6. ASSUME NEW s \in Staff, L!ConvertMatch(s) PROVE LeadsInv'
    BY <2>6, <2>q, <2>r, <2>t DEF L!ConvertMatch
  <2>7. ASSUME NEW s \in Staff, L!MoveWrite(s) PROVE LeadsInv'
    <3> DEFINE r == errand[s]
    <3>1. r.l \in Lead /\ lead[r.l] # "CONTRACTED" /\ r.to \notin L!EarnedLeadStatuses
      BY <2>7, ErrandFields DEF L!MoveWrite, L!StillAt, ReadsStand, L!TypeOK
    <3>2. L!StagesAreEarned'
      BY <2>7, <3>1 DEF L!MoveWrite, L!StagesAreEarned, L!EarnedLeadStatuses, L!TypeOK
    <3>. QED BY <2>7, <2>i, <2>t, <3>2 DEF L!MoveWrite
  <2>8. ASSUME NEW s \in Staff, L!QuoteWrite(s) PROVE LeadsInv'
    <3> DEFINE r == errand[s]
    <3>1. r.l \in Lead /\ r.seen # "CONTRACTED"
      BY <2>8, ErrandFields DEF L!QuoteWrite, ReadsStand, L!TypeOK
    <3>2. quotes' = [quotes EXCEPT ![r.l] = quotes[r.l] + 1] /\ deal' = deal
      BY <2>8 DEF L!QuoteWrite
    <3>3. quotes'[r.l] > 0 /\ \A l \in Lead \ {r.l} : quotes'[l] = quotes[l]
      BY <3>1, <3>2 DEF L!TypeOK
    <3>4. CASE r.seen = "DEAL_CREATED"
      <4>1. lead' = lead
        BY <2>8, <3>4 DEF L!QuoteWrite
      <4>. QED BY <2>8, <2>i, <2>t, <3>2, <3>3, <4>1 DEF L!QuoteWrite, L!StagesAreEarned
    <3>5. CASE r.seen # "DEAL_CREATED"
      <4>1. lead[r.l] # "CONTRACTED" /\ lead' = [lead EXCEPT ![r.l] = "DEAL_CREATED"]
        BY <2>8, <3>1, <3>5 DEF L!QuoteWrite, L!StillAt
      <4>2. L!StagesAreEarned'
        BY <3>1, <3>2, <3>3, <4>1 DEF L!StagesAreEarned, L!EarnedLeadStatuses, L!TypeOK
      <4>. QED BY <2>8, <2>i, <2>t, <4>2 DEF L!QuoteWrite
    <3>. QED BY <3>4, <3>5
  <2>9. ASSUME NEW s \in Staff, L!ConvertWrite(s) PROVE LeadsInv'
    <3> DEFINE r == errand[s]
    <3>1. r.l \in Lead /\ lead[r.l] = "DEAL_CREATED" /\ r.quote \in 1..MaxQuotes
      BY <2>9, ErrandFields DEF L!ConvertWrite, L!StillAt, L!TypeOK
    <3>2. quotes[r.l] > 0 /\ r.quote # L!None
      BY <3>1 DEF L!StagesAreEarned, L!EarnedLeadStatuses, L!None, QuotesAreCounted
    <3>3. L!StagesAreEarned'
      BY <2>9, <3>1, <3>2 DEF L!ConvertWrite, L!StagesAreEarned, L!EarnedLeadStatuses, L!TypeOK
    <3>. QED BY <2>9, <2>i, <2>t, <3>3 DEF L!ConvertWrite
  <2>10. ASSUME NEW s \in Staff, L!Abort(s) PROVE LeadsInv'
    BY <2>10, <2>q, <2>i, <2>t DEF L!Abort
  <2>. QED BY <1>2, <2>1, <2>2, <2>3, <2>4, <2>5, <2>6, <2>7, <2>8, <2>9, <2>10 DEF L!Next
<1>. QED BY <1>1, <1>2

LEMMA LeadsInvHolds == ASSUME QuotesAreCounted PROVE L!Spec => []LeadsInv
<1>1. L!Init => LeadsInv
  BY LeadsInvInit
<1>2. LeadsInv /\ [L!Next]_(L!vars) => LeadsInv'
  BY LeadsInvStep
<1>. QED BY <1>1, <1>2, PTL DEF L!Spec

(* The leads, their quotations and the running requests keep their types.  *)
THEOREM LeadsTypeCorrect == ASSUME QuotesAreCounted PROVE L!Spec => []L!TypeOK
<1>1. LeadsInv => L!TypeOK
  BY DEF LeadsInv
<1>. QED BY <1>1, LeadsInvHolds, PTL

(* "the funnel counts deals and contracts that exist": a lead at Deal      *)
(* created has a quotation and one at Contracted, and no other, has its    *)
(* contract, whatever moves, quotations and conversions race               *)
(* (changeLeadStatus, saveQuote, convertLead).                             *)
THEOREM LeadsStagesEarned == ASSUME QuotesAreCounted PROVE L!Spec => []L!StagesAreEarned
<1>1. LeadsInv => L!StagesAreEarned
  BY DEF LeadsInv
<1>. QED BY <1>1, LeadsInvHolds, PTL

(* The funnel counts what happened: a lead quoted has its quotation, and   *)
(* one contracted its contract, however conversions and moves interleave.  *)
THEOREM DeskStagesAreEarned == DeskSpec => []StagesAreEarned
<1>1. QuotesAreCounted
  BY DeskAssumption DEF QuotesAreCounted
<1>2. L!Spec => []L!StagesAreEarned
  BY <1>1, LeadsStagesEarned
<1>3. L!StagesAreEarned => StagesAreEarned
  BY DEF StagesAreEarned
<1>. QED BY <1>2, <1>3, DeskIsEach, PTL

-----------------------------------------------------------------------------
(* Audit: types.                                                           *)

LEMMA CallFields ==
  ASSUME NEW q \in A!Calls
  PROVE  /\ q = A!Idle <=> q.op = "idle"
         /\ q # A!Idle =>
              /\ q.op \in A!Operations /\ q.at \in {"before", "after"}
              /\ q.rows \in SUBSET Row /\ q.seen \in [Row -> A!Versions]
              /\ q.at = "after" => q.new \in A!Versions /\ q.hit \in SUBSET Row
BY DEF A!Calls, A!Idle, A!Operations

(* The call of a client, replaced. *)
LEMMA CallReplaced ==
  ASSUME A!TypeOK, NEW c \in Client, NEW q \in A!Calls, call' = [call EXCEPT ![c] = q]
  PROVE  /\ call' \in [Client -> A!Calls] /\ call'[c] = q
         /\ \A d \in Client \ {c} : call'[d] = call[d]
BY DEF A!TypeOK

LEMMA ViewIs ==
  ASSUME A!TypeOK, NEW c \in Client
  PROVE  A!View(c) \in [Row -> A!Versions]
<1> SUFFICES ASSUME NEW r \in Row
             PROVE  (IF own[c][r] = A!Same THEN table[r] ELSE own[c][r]) \in A!Versions
  BY DEF A!View
<1>. QED BY DEF A!TypeOK

LEMMA HitsAre ==
  ASSUME NEW op, NEW S \in SUBSET Row, NEW view
  PROVE  A!Hits(op, S, view) \subseteq S
<1>1. op = "create" => A!Hits(op, S, view) = {r \in S : view[r] <= 0}
  BY DEF A!Hits
<1>2. op = "upsert" => A!Hits(op, S, view) = S
  BY DEF A!Hits
<1>3. op # "create" /\ op # "upsert" => A!Hits(op, S, view) = {r \in S : view[r] > 0}
  BY DEF A!Hits
<1>. QED BY <1>1, <1>2, <1>3

(* The audit rows of a call are of its rows. *)
LEMMA EntriesAre ==
  ASSUME NEW q \in A!Calls, q # A!Idle, q.at = "after", NEW now \in [Row -> A!Versions]
  PROVE  A!EntriesOf(q, now) \subseteq A!Entries
<1>f. /\ q.op \in A!Operations /\ q.rows \in SUBSET Row /\ q.seen \in [Row -> A!Versions]
      /\ q.new \in A!Versions /\ q.hit \in SUBSET Row
  BY CallFields
<1>1. CASE q.op = "update"
  <2>1. A!EntriesOf(q, now) = {<<r, q.seen[r], q.new>> : r \in {h \in q.hit : q.seen[h] > 0}}
    BY <1>1 DEF A!EntriesOf
  <2>. QED BY <1>f, <2>1 DEF A!Entries
<1>2. CASE q.op = "updateMany"
  <2>1. A!EntriesOf(q, now) = {<<r, q.seen[r], now[r]>> :
                               r \in {h \in q.rows : q.seen[h] > 0 /\ now[h] > q.seen[h]}}
    BY <1>2 DEF A!EntriesOf
  <2>. QED BY <1>f, <2>1 DEF A!Entries
<1>3. CASE q.op = "deleteMany"
  <2>1. A!EntriesOf(q, now) = {<<r, q.seen[r], q.new>> : r \in {h \in q.rows : q.seen[h] > 0}}
    BY <1>3 DEF A!EntriesOf
  <2>. QED BY <1>f, <2>1 DEF A!Entries
<1>4. CASE q.op \notin {"update", "updateMany", "deleteMany"}
  <2>1. A!EntriesOf(q, now) = {<<r, q.seen[r], q.new>> : r \in q.hit}
    BY <1>4 DEF A!EntriesOf
  <2>. QED BY <1>f, <2>1 DEF A!Entries
<1>. QED BY <1>1, <1>2, <1>3, <1>4

LEMMA AuditTypeInit == A!Init => A!TypeOK
<1> SUFFICES ASSUME A!Init PROVE A!TypeOK
  OBVIOUS
<1>1. MaxVersion \in Nat \ {0} /\ MaxFaults \in Nat
  BY DeskAssumption
<1>2. A!NoWrites \in [Row -> A!Versions \cup {A!Same}]
  BY DEF A!NoWrites
<1>3. table \in [Row -> A!Versions]
  BY <1>1 DEF A!Init, A!Versions
<1>4. call \in [Client -> A!Calls]
  BY DEF A!Init, A!Calls
<1>. QED BY <1>1, <1>2, <1>3, <1>4 DEF A!Init, A!TypeOK, A!Entries

(* The statement itself writes version v of the rows H.                    *)
Answered(c, H, v) ==
  [op |-> call[c].op, at |-> "after", rows |-> call[c].rows, seen |-> call[c].seen, new |-> v, hit |-> H]

Wrote(c, H, v) ==
  /\ call[c] # A!Idle /\ call[c].at = "before"
  /\ version < MaxVersion /\ version' = version + 1
  /\ v \in {version + 1, -(version + 1)} /\ (call[c].op \notin A!Deletes => v = version + 1)
  /\ H \subseteq call[c].rows
  /\ mode[c] = "bare" => table' = [r \in Row |-> IF r \in H THEN v ELSE table[r]] /\ own' = own
  /\ mode[c] = "tx" => /\ own' = [own EXCEPT ![c] = [r \in Row |-> IF r \in H THEN v ELSE own[c][r]]]
                      /\ table' = table
  /\ blind' = IF A!Unsighted(c, call[c], H) THEN blind \cup {v} ELSE blind
  /\ call' = [call EXCEPT ![c] = Answered(c, H, v)]
  /\ UNCHANGED <<mode, log, faults>>

LEMMA QueryEffect ==
  ASSUME A!TypeOK, NEW c \in Client, A!Query(c)
  PROVE  \E H \in SUBSET Row, v \in A!Versions : Wrote(c, H, v) /\ Answered(c, H, v) \in A!Calls
<1> DEFINE q == call[c]
           H == A!Hits(q.op, q.rows, A!View(c))
           v == IF q.op \in A!Deletes THEN -(version + 1) ELSE version + 1
           n == [op |-> q.op, at |-> "after", rows |-> q.rows, seen |-> q.seen, new |-> v, hit |-> H]
<1>1. /\ q # A!Idle /\ q.at = "before" /\ version < MaxVersion /\ version' = version + 1
      /\ IF mode[c] = "bare"
         THEN table' = [r \in Row |-> IF r \in H THEN v ELSE table[r]] /\ UNCHANGED own
         ELSE own' = [own EXCEPT ![c] = [r \in Row |-> IF r \in H THEN v ELSE own[c][r]]] /\ UNCHANGED table
      /\ blind' = IF A!Unsighted(c, q, H) THEN blind \cup {v} ELSE blind
      /\ call' = [call EXCEPT ![c] = n]
      /\ UNCHANGED <<mode, log, faults>>
  BY DEF A!Query
<1>2. q.op \in A!Operations /\ q.rows \in SUBSET Row /\ q.seen \in [Row -> A!Versions]
  BY <1>1, CallFields DEF A!TypeOK
<1>3. H \subseteq q.rows
  BY <1>2, HitsAre
<1>4. v \in A!Versions /\ v \in {version + 1, -(version + 1)} /\ (q.op \notin A!Deletes => v = version + 1)
  BY <1>1, DeskAssumption DEF A!TypeOK, A!Versions
<1> HIDE DEF H, v
<1>5. n \in A!Calls
  BY <1>2, <1>3, <1>4 DEF A!Calls
<1>6. n = Answered(c, H, v)
  BY DEF Answered
<1> HIDE DEF n
<1>7. Wrote(c, H, v)
  BY <1>1, <1>3, <1>4, <1>6 DEF Wrote
<1>. QED BY <1>2, <1>3, <1>4, <1>5, <1>6, <1>7

LEMMA AuditTypeStep == A!TypeOK /\ A!Next => A!TypeOK'
<1> SUFFICES ASSUME A!TypeOK, A!Next PROVE A!TypeOK'
  OBVIOUS
<1> USE DEF A!TypeOK
<1>b. MaxVersion \in Nat \ {0} /\ MaxFaults \in Nat
  BY DeskAssumption
<1>n. A!NoWrites \in [Row -> A!Versions \cup {A!Same}] /\ A!Idle \in A!Calls
  BY DEF A!NoWrites, A!Calls
<1>1. ASSUME NEW c \in Client, A!Begin(c) PROVE A!TypeOK'
  BY <1>1 DEF A!Begin
<1>2. ASSUME NEW c \in Client, NEW op \in A!Operations, NEW S \in SUBSET Row, A!Before(c, op, S)
      PROVE  A!TypeOK'
  <2>1. [op |-> op, at |-> "before", rows |-> S, seen |-> table] \in A!Calls
    BY DEF A!Calls
  <2>2. call' \in [Client -> A!Calls]
    BY <1>2, <2>1, CallReplaced DEF A!Before
  <2>. QED BY <1>2, <2>2 DEF A!Before
<1>3. ASSUME NEW c \in Client, A!Query(c) PROVE A!TypeOK'
  <2>1. PICK H \in SUBSET Row, v \in A!Versions : Wrote(c, H, v) /\ Answered(c, H, v) \in A!Calls
    BY <1>3, QueryEffect
  <2>2. call' \in [Client -> A!Calls]
    BY <2>1, CallReplaced DEF Wrote
  <2>3. table' \in [Row -> A!Versions] /\ own' \in [Client -> [Row -> A!Versions \cup {A!Same}]]
    <3>1. CASE mode[c] = "bare"
      BY <2>1, <3>1 DEF Wrote
    <3>2. CASE mode[c] = "tx"
      <4>1. [r \in Row |-> IF r \in H THEN v ELSE own[c][r]] \in [Row -> A!Versions \cup {A!Same}]
        OBVIOUS
      <4>. QED BY <2>1, <3>2, <4>1 DEF Wrote
    <3>. QED BY <3>1, <3>2
  <2>4. version' \in 1..MaxVersion /\ blind' \subseteq A!Versions
    BY <1>b, <2>1 DEF Wrote
  <2>. QED BY <2>1, <2>2, <2>3, <2>4 DEF Wrote
<1>4. ASSUME NEW c \in Client, A!After(c) PROVE A!TypeOK'
  <2>1. A!EntriesOf(call[c], table) \subseteq A!Entries
    BY <1>4, EntriesAre DEF A!After
  <2>2. call' \in [Client -> A!Calls]
    BY <1>4, <1>n, CallReplaced DEF A!After
  <2>. QED BY <1>4, <2>1, <2>2 DEF A!After
<1>5. ASSUME NEW c \in Client, A!Commit(c) PROVE A!TypeOK'
  <2>1. table' \in [Row -> A!Versions]
    BY <1>5, ViewIs DEF A!Commit
  <2>. QED BY <1>5, <1>n, <2>1 DEF A!Commit
<1>6. ASSUME NEW c \in Client, A!Fail(c) PROVE A!TypeOK'
  <2>1. call' \in [Client -> A!Calls]
    BY <1>6, <1>n, CallReplaced DEF A!Fail
  <2>. QED BY <1>6, <1>b, <1>n, <2>1 DEF A!Fail
<1>. QED BY <1>1, <1>2, <1>3, <1>4, <1>5, <1>6 DEF A!Next

-----------------------------------------------------------------------------
(* Audit: why nothing else is forgotten.                                   *)

(* There is an audit row of version v of r; or client c has yet to write   *)
(* one, for what it has seen there, and if it goes by what it finds then,  *)
(* newer than what it has seen.                                            *)
Logged(r, v) == \E e \in log : e[1] = r /\ e[3] = v

WillTell(c, r, v) ==
  /\ call[c] # A!Idle /\ call[c].at = "after" /\ call[c].new = v
  /\ r \in call[c].hit /\ r \in call[c].rows
  /\ call[c].op \in {"update", "updateMany", "deleteMany"} => call[c].seen[r] > 0
  /\ call[c].op = "updateMany" => v > call[c].seen[r]

(* Versions only grow: nothing written or seen is newer than the last.     *)
VersionsGrow ==
  /\ \A r \in Row : table[r] <= version
  /\ \A c \in Client, r \in Row : own[c][r] # A!Same => own[c][r] <= version
  /\ \A c \in Client, r \in Row : call[c] # A!Idle => call[c].seen[r] <= version

(* What stands is told of, or will be ... *)
CommittedIsTold ==
  \A r \in Row : table[r] \notin {0, 1} \cup blind =>
    Logged(r, table[r]) \/ \E c \in Client : WillTell(c, r, table[r])

(* ... and so is what may come to stand, by a call that need not find it. *)
OwnIsTold ==
  \A c \in Client, r \in Row : own[c][r] # A!Same /\ own[c][r] \notin blind =>
    \/ Logged(r, own[c][r])
    \/ WillTell(c, r, own[c][r]) /\ call[c].op # "updateMany"

AuditInv == A!TypeOK /\ VersionsGrow /\ (faults = 0 => CommittedIsTold /\ OwnIsTold)

LEMMA AuditInvInit == A!Init => AuditInv
<1> SUFFICES ASSUME A!Init PROVE AuditInv
  OBVIOUS
<1>1. A!TypeOK
  BY AuditTypeInit
<1>2. \A c \in Client, r \in Row : own[c][r] = A!Same
  BY DEF A!Init, A!NoWrites
<1>3. \A r \in Row : table[r] \in {0, 1}
  BY DEF A!Init
<1>4. \A c \in Client : call[c] = A!Idle
  BY DEF A!Init
<1>5. VersionsGrow
  BY <1>2, <1>3, <1>4 DEF VersionsGrow, A!Init
<1>6. CommittedIsTold /\ OwnIsTold
  BY <1>2, <1>3 DEF CommittedIsTold, OwnIsTold
<1>. QED BY <1>1, <1>5, <1>6 DEF AuditInv

(* A call that will tell of a version writes the audit row, if it need not *)
(* look or still finds it there.                                           *)
LEMMA TellsAfter ==
  ASSUME A!TypeOK, NEW c \in Client, NEW r \in Row, NEW v, A!After(c), WillTell(c, r, v),
         call[c].op # "updateMany" \/ table[r] = v
  PROVE  Logged(r, v)'
<1> DEFINE q == call[c]
<1>1. log' = log \cup A!EntriesOf(q, table)
  BY DEF A!After
<1>2. \E e \in A!EntriesOf(q, table) : e[1] = r /\ e[3] = v
  <2>1. CASE q.op = "update"
    <3>1. A!EntriesOf(q, table) = {<<h, q.seen[h], q.new>> : h \in {k \in q.hit : q.seen[k] > 0}}
      BY <2>1 DEF A!EntriesOf
    <3>2. <<r, q.seen[r], q.new>> \in A!EntriesOf(q, table) /\ q.new = v
      BY <2>1, <3>1 DEF WillTell
    <3>. QED BY <3>2
  <2>2. CASE q.op = "updateMany"
    <3>1. A!EntriesOf(q, table) = {<<h, q.seen[h], table[h]>> :
                                   h \in {k \in q.rows : q.seen[k] > 0 /\ table[k] > q.seen[k]}}
      BY <2>2 DEF A!EntriesOf
    <3>2. <<r, q.seen[r], table[r]>> \in A!EntriesOf(q, table) /\ table[r] = v
      BY <2>2, <3>1 DEF WillTell
    <3>. QED BY <3>2
  <2>3. CASE q.op = "deleteMany"
    <3>1. A!EntriesOf(q, table) = {<<h, q.seen[h], q.new>> : h \in {k \in q.rows : q.seen[k] > 0}}
      BY <2>3 DEF A!EntriesOf
    <3>2. <<r, q.seen[r], q.new>> \in A!EntriesOf(q, table) /\ q.new = v
      BY <2>3, <3>1 DEF WillTell
    <3>. QED BY <3>2
  <2>4. CASE q.op \notin {"update", "updateMany", "deleteMany"}
    <3>1. A!EntriesOf(q, table) = {<<h, q.seen[h], q.new>> : h \in q.hit}
      BY <2>4 DEF A!EntriesOf
    <3>2. <<r, q.seen[r], q.new>> \in A!EntriesOf(q, table) /\ q.new = v
      BY <2>4, <3>1 DEF WillTell
    <3>. QED BY <3>2
  <2>. QED BY <2>1, <2>2, <2>3, <2>4
<1>. QED BY <1>1, <1>2 DEF Logged

LEMMA VersionsStep ==
  ASSUME A!TypeOK, A!TypeOK', VersionsGrow, A!Next
  PROVE  VersionsGrow'
<1>t. /\ \A r \in Row : table[r] \in Int
      /\ \A c \in Client, r \in Row : own[c][r] \in Int
      /\ version \in Int /\ A!Same \in Int
      /\ \A c \in Client, r \in Row : call[c] # A!Idle => call[c].seen[r] \in Int
  <2>1. A!Versions \subseteq Int /\ A!Same \in Int
    BY DeskAssumption DEF A!Versions, A!Same
  <2>2. \A c \in Client, r \in Row : call[c] # A!Idle => call[c].seen[r] \in A!Versions
    BY CallFields DEF A!TypeOK
  <2>3. \A r \in Row : table[r] \in A!Versions
    BY DEF A!TypeOK
  <2>4. \A c \in Client, r \in Row : own[c][r] \in A!Versions \cup {A!Same}
    BY DEF A!TypeOK
  <2>5. version \in Int
    BY DEF A!TypeOK
  <2>. QED BY <2>1, <2>2, <2>3, <2>4, <2>5
<1>v. /\ \A r \in Row : table[r] <= version
      /\ \A c \in Client, r \in Row : own[c][r] # A!Same => own[c][r] <= version
      /\ \A c \in Client, r \in Row : call[c] # A!Idle => call[c].seen[r] <= version
  BY DEF VersionsGrow
<1>n. \A r \in Row : A!NoWrites[r] = A!Same
  BY DEF A!NoWrites
<1>1. ASSUME NEW c \in Client, A!Begin(c) PROVE VersionsGrow'
  BY <1>1, <1>v DEF A!Begin, VersionsGrow
<1>2. ASSUME NEW c \in Client, NEW op \in A!Operations, NEW S \in SUBSET Row, A!Before(c, op, S)
      PROVE  VersionsGrow'
  <2>1. UNCHANGED <<table, own, version>>
        /\ call' = [call EXCEPT ![c] = [op |-> op, at |-> "before", rows |-> S, seen |-> table]]
    BY <1>2 DEF A!Before
  <2>2. call'[c].seen = table /\ \A d \in Client \ {c} : call'[d] = call[d]
    BY <2>1 DEF A!TypeOK
  <2>. QED BY <1>v, <2>1, <2>2 DEF VersionsGrow
<1>3. ASSUME NEW c \in Client, A!Query(c) PROVE VersionsGrow'
  <2>1. PICK H \in SUBSET Row, v \in A!Versions : Wrote(c, H, v) /\ Answered(c, H, v) \in A!Calls
    BY <1>3, QueryEffect
  <2>2. version' = version + 1 /\ v <= version' /\ v \in Int
    BY <1>t, <2>1 DEF Wrote, A!TypeOK
  <2>3. \A r \in Row : table'[r] <= version'
    BY SMTT(60), <1>v, <1>t, <2>1, <2>2 DEF Wrote, A!TypeOK
  <2>4. ASSUME NEW d \in Client, NEW r \in Row PROVE own'[d][r] \in {own[d][r], v}
    BY <2>1 DEF Wrote, A!TypeOK
  <2>5. call'[c] = Answered(c, H, v) /\ (\A d \in Client \ {c} : call'[d] = call[d])
        /\ call[c] # A!Idle
    BY <2>1, CallReplaced DEF Wrote
  <2>6. call'[c].seen = call[c].seen
    BY <2>5 DEF Answered
  <2>7. ASSUME NEW d \in Client, NEW r \in Row, own'[d][r] # A!Same PROVE own'[d][r] <= version'
    BY <1>v, <1>t, <2>2, <2>4, <2>7
  <2>8. ASSUME NEW d \in Client, NEW r \in Row, call'[d] # A!Idle PROVE call'[d].seen[r] <= version'
    <3>1. call[d] # A!Idle /\ call'[d].seen = call[d].seen
      BY <2>5, <2>6, <2>8
    <3>. QED BY <1>v, <1>t, <2>2, <3>1
  <2>. QED BY <2>3, <2>7, <2>8 DEF VersionsGrow
<1>4. ASSUME NEW c \in Client, A!After(c) PROVE VersionsGrow'
  <2>1. UNCHANGED <<table, own, version>> /\ call' = [call EXCEPT ![c] = A!Idle]
    BY <1>4 DEF A!After
  <2>2. call'[c] = A!Idle /\ \A d \in Client \ {c} : call'[d] = call[d]
    BY <2>1 DEF A!TypeOK
  <2>. QED BY <1>v, <2>1, <2>2 DEF VersionsGrow
<1>5. ASSUME NEW c \in Client, A!Commit(c) PROVE VersionsGrow'
  <2>1. /\ UNCHANGED <<version, call>>
        /\ \A r \in Row : table'[r] = IF own[c][r] = A!Same THEN table[r] ELSE own[c][r]
        /\ \A d \in Client, r \in Row : own'[d][r] = IF d = c THEN A!Same ELSE own[d][r]
    BY <1>5, <1>n DEF A!Commit, A!View, A!TypeOK
  <2>. QED BY <1>v, <2>1 DEF VersionsGrow
<1>6. ASSUME NEW c \in Client, A!Fail(c) PROVE VersionsGrow'
  <2>1. /\ UNCHANGED <<version, table>>
        /\ \A d \in Client : call'[d] = IF d = c THEN A!Idle ELSE call[d]
        /\ \A d \in Client, r \in Row : own'[d][r] = IF d = c THEN A!Same ELSE own[d][r]
    BY <1>6, <1>n DEF A!Fail, A!TypeOK
  <2>. QED BY <1>v, <2>1 DEF VersionsGrow
<1>. QED BY <1>1, <1>2, <1>3, <1>4, <1>5, <1>6 DEF A!Next

(* A statement that was sighted will tell of the version it wrote.         *)
LEMMA WillTellAfterQuery ==
  ASSUME AuditInv, NEW c \in Client, NEW H \in SUBSET Row, NEW v \in A!Versions,
         Wrote(c, H, v), Answered(c, H, v) \in A!Calls, v \notin blind', NEW r \in H
  PROVE  /\ WillTell(c, r, v)'
         /\ mode[c] = "tx" => call'[c].op # "updateMany"
<1> DEFINE q == call[c]
<1>1. call'[c] = Answered(c, H, v)
  BY CallReplaced DEF Wrote, AuditInv
<1>2. /\ call'[c].op = q.op /\ call'[c].at = "after" /\ call'[c].rows = q.rows
      /\ call'[c].seen = q.seen /\ call'[c].new = v /\ call'[c].hit = H
  BY <1>1 DEF Answered
<1>3. call'[c] # A!Idle
  <2>1. q # A!Idle /\ q \in A!Calls
    BY DEF Wrote, AuditInv, A!TypeOK
  <2>2. q.op # "idle"
    BY <2>1, CallFields
  <2>. QED BY <1>2, <2>2 DEF A!Idle
<1>4. ~A!Unsighted(c, q, H)
  BY DEF Wrote
<1>5. q # A!Idle /\ H \subseteq q.rows /\ (q.op \notin A!Deletes => v = version + 1)
  BY DEF Wrote
<1>6. q.seen \in [Row -> A!Versions] /\ q.seen[r] <= version
  BY <1>5, CallFields DEF AuditInv, A!TypeOK, VersionsGrow
<1>7. q.seen[r] \in Int /\ version \in Int
  BY <1>6, DeskAssumption DEF AuditInv, A!TypeOK, A!Versions
<1>8. q.op \in {"update", "updateMany", "deleteMany"} => q.seen[r] > 0
  BY <1>4, <1>7 DEF A!Unsighted
<1>9. q.op = "updateMany" => v > q.seen[r]
  BY <1>5, <1>6, <1>7 DEF A!Deletes
<1>10. mode[c] = "tx" => q.op # "updateMany"
  BY <1>4 DEF A!Unsighted
<1>. QED BY <1>2, <1>3, <1>5, <1>8, <1>9, <1>10 DEF WillTell

LEMMA ToldByQuery ==
  ASSUME AuditInv, faults = 0, NEW c \in Client, A!Query(c)
  PROVE  CommittedIsTold' /\ OwnIsTold'
<1>1. PICK H \in SUBSET Row, v \in A!Versions : Wrote(c, H, v) /\ Answered(c, H, v) \in A!Calls
  BY QueryEffect DEF AuditInv
<1>2. CommittedIsTold /\ OwnIsTold /\ A!TypeOK
  BY DEF AuditInv
<1>3. /\ \A d \in Client \ {c} : call'[d] = call[d]
      /\ call[c].at = "before" /\ log' = log /\ blind \subseteq blind'
  BY <1>1, <1>2, CallReplaced DEF Wrote
<1>4. \A r, w : ~WillTell(c, r, w)
  BY <1>3 DEF WillTell
<1>5. CommittedIsTold'
  <2> SUFFICES ASSUME NEW r \in Row, table'[r] \notin {0, 1} \cup blind'
               PROVE  Logged(r, table[r])' \/ \E d \in Client : WillTell(d, r, table[r])'
    BY DEF CommittedIsTold
  <2>1. CASE mode[c] = "bare" /\ r \in H
    <3>1. table'[r] = v
      BY <1>1, <2>1 DEF Wrote
    <3>2. WillTell(c, r, v)'
      BY <1>1, <2>1, <3>1, WillTellAfterQuery
    <3>. QED BY <3>1, <3>2 DEF WillTell
  <2>2. CASE ~(mode[c] = "bare" /\ r \in H)
    <3>1. table'[r] = table[r]
      <4>1. mode[c] \in {"bare", "tx"}
        BY <1>2 DEF A!TypeOK
      <4>. QED BY <1>1, <2>2, <4>1 DEF Wrote
    <3>2. Logged(r, table[r]) \/ \E d \in Client \ {c} : WillTell(d, r, table[r])
      BY <1>2, <1>3, <1>4, <3>1 DEF CommittedIsTold
    <3>. QED BY <1>3, <3>1, <3>2 DEF Logged, WillTell
  <2>. QED BY <2>1, <2>2
<1>6. OwnIsTold'
  <2> SUFFICES ASSUME NEW d \in Client, NEW r \in Row, own'[d][r] # A!Same, own'[d][r] \notin blind'
               PROVE  \/ Logged(r, own[d][r])'
                      \/ WillTell(d, r, own[d][r])' /\ call'[d].op # "updateMany"
    BY DEF OwnIsTold
  <2>1. CASE d = c /\ mode[c] = "tx" /\ r \in H
    <3>1. own'[d][r] = v
      BY <1>1, <1>2, <2>1 DEF Wrote, A!TypeOK
    <3>2. WillTell(c, r, v)' /\ call'[c].op # "updateMany"
      BY <1>1, <2>1, <3>1, WillTellAfterQuery
    <3>. QED BY <2>1, <3>1, <3>2 DEF WillTell
  <2>2. CASE ~(d = c /\ mode[c] = "tx" /\ r \in H)
    <3>1. own'[d][r] = own[d][r]
      <4>1. mode[c] \in {"bare", "tx"}
        BY <1>2 DEF A!TypeOK
      <4>2. CASE mode[c] = "bare"
        BY <1>1, <4>2 DEF Wrote
      <4>3. CASE mode[c] = "tx"
        <5>1. own'[d] = IF d = c THEN [k \in Row |-> IF k \in H THEN v ELSE own[c][k]] ELSE own[d]
          BY <1>1, <1>2, <4>3 DEF Wrote, A!TypeOK
        <5>. QED BY <2>2, <4>3, <5>1
      <4>. QED BY <4>1, <4>2, <4>3
    <3>2. \/ Logged(r, own[d][r])
          \/ WillTell(d, r, own[d][r]) /\ call[d].op # "updateMany"
      BY <1>2, <1>3, <3>1 DEF OwnIsTold
    <3>3. CASE Logged(r, own[d][r])
      BY <1>3, <3>1, <3>3 DEF Logged
    <3>4. CASE WillTell(d, r, own[d][r]) /\ call[d].op # "updateMany"
      <4>1. d # c
        BY <1>4, <3>4
      <4>. QED BY <1>3, <3>1, <3>4, <4>1 DEF WillTell
    <3>. QED BY <3>2, <3>3, <3>4
  <2>. QED BY <2>1, <2>2
<1>. QED BY <1>5, <1>6

LEMMA ToldByAfter ==
  ASSUME AuditInv, faults = 0, NEW c \in Client, A!After(c)
  PROVE  CommittedIsTold' /\ OwnIsTold'
<1>1. CommittedIsTold /\ OwnIsTold /\ A!TypeOK
  BY DEF AuditInv
<1>2. /\ UNCHANGED <<table, own, blind>> /\ log \subseteq log'
      /\ call' = [call EXCEPT ![c] = A!Idle]
  BY DEF A!After
<1>3. \A d \in Client \ {c} : call'[d] = call[d]
  BY <1>1, <1>2 DEF A!TypeOK
<1>4. CommittedIsTold'
  <2> SUFFICES ASSUME NEW r \in Row, table'[r] \notin {0, 1} \cup blind'
               PROVE  Logged(r, table[r])' \/ \E d \in Client : WillTell(d, r, table[r])'
    BY DEF CommittedIsTold
  <2>1. table'[r] = table[r]
    BY <1>2
  <2>2. Logged(r, table[r]) \/ \E d \in Client : WillTell(d, r, table[r])
    BY <1>1, <1>2 DEF CommittedIsTold
  <2>3. CASE Logged(r, table[r])
    BY <1>2, <2>1, <2>3 DEF Logged
  <2>4. CASE WillTell(c, r, table[r])
    <3>1. \A w : w = table[r] => Logged(r, w)'
      BY <1>1, <2>4, TellsAfter
    <3>. QED BY <2>1, <3>1 DEF Logged
  <2>5. ASSUME NEW d \in Client \ {c}, WillTell(d, r, table[r])
        PROVE  WillTell(d, r, table[r])'
    BY <1>3, <2>1, <2>5 DEF WillTell
  <2>. QED BY <2>2, <2>3, <2>4, <2>5
<1>5. OwnIsTold'
  <2> SUFFICES ASSUME NEW d \in Client, NEW r \in Row, own'[d][r] # A!Same, own'[d][r] \notin blind'
               PROVE  \/ Logged(r, own[d][r])'
                      \/ WillTell(d, r, own[d][r])' /\ call'[d].op # "updateMany"
    BY DEF OwnIsTold
  <2>1. own'[d][r] = own[d][r]
    BY <1>2
  <2>2. Logged(r, own[d][r]) \/ (WillTell(d, r, own[d][r]) /\ call[d].op # "updateMany")
    BY <1>1, <1>2 DEF OwnIsTold
  <2>3. CASE Logged(r, own[d][r])
    BY <1>2, <2>1, <2>3 DEF Logged
  <2>4. CASE d = c /\ WillTell(d, r, own[d][r]) /\ call[d].op # "updateMany"
    <3>1. \A w : w = own[c][r] => Logged(r, w)'
      BY <1>1, <2>4, TellsAfter
    <3>. QED BY <2>1, <2>4, <3>1 DEF Logged
  <2>5. CASE d # c /\ WillTell(d, r, own[d][r]) /\ call[d].op # "updateMany"
    BY <1>3, <2>1, <2>5 DEF WillTell
  <2>. QED BY <2>2, <2>3, <2>4, <2>5
<1>. QED BY <1>4, <1>5

LEMMA ToldByCommit ==
  ASSUME AuditInv, faults = 0, NEW c \in Client, A!Commit(c)
  PROVE  CommittedIsTold' /\ OwnIsTold'
<1>1. CommittedIsTold /\ OwnIsTold /\ A!TypeOK
  BY DEF AuditInv
<1>2. /\ call[c] = A!Idle /\ UNCHANGED <<call, log, blind>>
      /\ \A r \in Row : table'[r] = IF own[c][r] = A!Same THEN table[r] ELSE own[c][r]
      /\ own' = [own EXCEPT ![c] = A!NoWrites]
  BY DEF A!Commit, A!View
<1>3. CommittedIsTold'
  <2> SUFFICES ASSUME NEW r \in Row, table'[r] \notin {0, 1} \cup blind
               PROVE  Logged(r, table[r])' \/ \E d \in Client : WillTell(d, r, table[r])'
    BY <1>2 DEF CommittedIsTold
  <2>1. CASE own[c][r] = A!Same
    <3>1. table'[r] = table[r]
      BY <1>2, <2>1
    <3>2. Logged(r, table[r]) \/ \E d \in Client : WillTell(d, r, table[r])
      BY <1>1, <3>1 DEF CommittedIsTold
    <3>. QED BY <1>2, <3>1, <3>2 DEF Logged, WillTell
  <2>2. CASE own[c][r] # A!Same
    <3>1. table'[r] = own[c][r]
      BY <1>2, <2>2
    <3>2. ~WillTell(c, r, own[c][r])
      BY <1>2 DEF WillTell
    <3>3. Logged(r, own[c][r])
      BY <1>1, <2>2, <3>1, <3>2 DEF OwnIsTold
    <3>. QED BY <1>2, <3>1, <3>3 DEF Logged
  <2>. QED BY <2>1, <2>2
<1>4. OwnIsTold'
  <2> SUFFICES ASSUME NEW d \in Client, NEW r \in Row, own'[d][r] # A!Same, own'[d][r] \notin blind
               PROVE  \/ Logged(r, own[d][r])'
                      \/ WillTell(d, r, own[d][r])' /\ call'[d].op # "updateMany"
    BY <1>2 DEF OwnIsTold
  <2>1. d # c
    BY <1>1, <1>2 DEF A!TypeOK, A!NoWrites
  <2>2. own'[d] = own[d]
    BY <1>1, <1>2, <2>1 DEF A!TypeOK
  <2>3. Logged(r, own[d][r]) \/ (WillTell(d, r, own[d][r]) /\ call[d].op # "updateMany")
    BY <1>1, <2>2 DEF OwnIsTold
  <2>. QED BY <1>2, <2>2, <2>3 DEF Logged, WillTell
<1>. QED BY <1>3, <1>4

(* A request that has not run a statement yet has nothing to tell.         *)
LEMMA ToldByBefore ==
  ASSUME AuditInv, faults = 0, NEW c \in Client, NEW op \in A!Operations, NEW S \in SUBSET Row,
         A!Before(c, op, S)
  PROVE  CommittedIsTold' /\ OwnIsTold'
<1>1. CommittedIsTold /\ OwnIsTold /\ A!TypeOK
  BY DEF AuditInv
<1>2. /\ UNCHANGED <<table, own, log, blind>> /\ call[c] = A!Idle
      /\ call' = [call EXCEPT ![c] = [op |-> op, at |-> "before", rows |-> S, seen |-> table]]
  BY DEF A!Before
<1>3. \A d \in Client \ {c} : call'[d] = call[d]
  BY <1>1, <1>2 DEF A!TypeOK
<1>4. \A r, w : ~WillTell(c, r, w)
  BY <1>2 DEF WillTell
<1>5. CommittedIsTold'
  BY <1>1, <1>2, <1>3, <1>4 DEF CommittedIsTold, Logged, WillTell
<1>6. OwnIsTold'
  BY <1>1, <1>2, <1>3, <1>4 DEF OwnIsTold, Logged, WillTell
<1>. QED BY <1>5, <1>6

LEMMA AuditInvStep == AuditInv /\ [A!Next]_(A!vars) => AuditInv'
<1> SUFFICES ASSUME AuditInv, [A!Next]_(A!vars) PROVE AuditInv'
  OBVIOUS
<1>1. CASE UNCHANGED A!vars
  BY <1>1 DEF AuditInv, A!vars, A!TypeOK, VersionsGrow, CommittedIsTold, OwnIsTold, Logged, WillTell
<1>2. CASE A!Next
  <2>1. A!TypeOK'
    BY <1>2, AuditTypeStep DEF AuditInv
  <2>2. VersionsGrow'
    BY <1>2, <2>1, VersionsStep DEF AuditInv
  <2>3. ASSUME faults' = 0 PROVE CommittedIsTold' /\ OwnIsTold'
    <3>1. ASSUME NEW c \in Client, A!Begin(c) PROVE faults = 0 /\ CommittedIsTold' /\ OwnIsTold'
      BY <2>3, <3>1 DEF A!Begin, AuditInv, CommittedIsTold, OwnIsTold, Logged, WillTell
    <3>2. ASSUME NEW c \in Client, NEW op \in A!Operations, NEW S \in SUBSET Row, A!Before(c, op, S)
          PROVE  CommittedIsTold' /\ OwnIsTold'
      <4>1. faults = 0
        BY <2>3, <3>2 DEF A!Before
      <4>. QED BY <3>2, <4>1, ToldByBefore
    <3>3. ASSUME NEW c \in Client, A!Query(c) PROVE CommittedIsTold' /\ OwnIsTold'
      <4>1. faults = 0
        BY <2>3, <3>3 DEF A!Query
      <4>. QED BY <3>3, <4>1, ToldByQuery
    <3>4. ASSUME NEW c \in Client, A!After(c) PROVE CommittedIsTold' /\ OwnIsTold'
      <4>1. faults = 0
        BY <2>3, <3>4 DEF A!After
      <4>. QED BY <3>4, <4>1, ToldByAfter
    <3>5. ASSUME NEW c \in Client, A!Commit(c) PROVE CommittedIsTold' /\ OwnIsTold'
      <4>1. faults = 0
        BY <2>3, <3>5 DEF A!Commit
      <4>. QED BY <3>5, <4>1, ToldByCommit
    <3>6. ASSUME NEW c \in Client, A!Fail(c) PROVE FALSE
      BY <2>3, <3>6, DeskAssumption DEF A!Fail, AuditInv, A!TypeOK
    <3>. QED BY <1>2, <3>1, <3>2, <3>3, <3>4, <3>5, <3>6 DEF A!Next
  <2>. QED BY <2>1, <2>2, <2>3 DEF AuditInv
<1>. QED BY <1>1, <1>2

LEMMA AuditInvHolds == A!Spec => []AuditInv
BY AuditInvInit, AuditInvStep, PTL DEF A!Spec

(* Whatever transactions interleave, once nothing is under way and nothing *)
(* failed, each version that stands has its audit row, unless it was       *)
(* written out of the base client's sight.                                 *)
THEOREM DeskForgetsNothingElse == DeskSpec => []NothingElseIsForgotten
<1>1. AuditInv => NothingElseIsForgotten
  <2> SUFFICES ASSUME AuditInv, \A c \in Client : call[c] = A!Idle, faults = 0, NEW r \in Row,
                      table[r] \notin {0, 1} \cup blind
               PROVE  A!Told(r)
    BY DEF NothingElseIsForgotten, A!NothingElseIsForgotten
  <2>1. \A c \in Client : ~WillTell(c, r, table[r])
    BY DEF WillTell
  <2>2. Logged(r, table[r])
    BY <2>1 DEF AuditInv, CommittedIsTold
  <2>. QED BY <2>2 DEF Logged, A!Told
<1>. QED BY <1>1, AuditInvHolds, DeskIsEach, PTL

-----------------------------------------------------------------------------
(* Access.                                                                 *)

LEMMA RunningFields ==
  ASSUME NEW q \in U!Runnings
  PROVE  /\ q = U!AtRest <=> q.op = "idle"
         /\ q.op = "edit" => /\ q \in U!Edits
                             /\ q.role \in Role /\ q.held \in SUBSET Permission
                             /\ q.wanted \in SUBSET Permission /\ q.revoke \in SUBSET Permission
                             /\ q.grant \in SUBSET Permission /\ q.alone \in BOOLEAN
         /\ q.op = "switch" => q.of \in Staff /\ q.to \in {"ACTIVE", "INACTIVE"}
         /\ q.op = "create" => q.of \in Staff
BY DEF U!Runnings, U!Edits, U!AtRest

(* An edit with some of what it has still to write taken off, or with      *)
(* another one met, is the same edit otherwise.                            *)
LEMMA EditReplaced ==
  ASSUME NEW q \in U!Edits, NEW S \in SUBSET Permission
  PROVE  /\ [q EXCEPT !.revoke = S] \in U!Edits /\ [q EXCEPT !.grant = S] \in U!Edits
         /\ [q EXCEPT !.alone = FALSE] \in U!Edits
         /\ LET e == [q EXCEPT !.revoke = S] IN
              /\ e.op = "edit" /\ e.role = q.role /\ e.held = q.held /\ e.wanted = q.wanted
              /\ e.revoke = S /\ e.grant = q.grant /\ e.alone = q.alone
         /\ LET e == [q EXCEPT !.grant = S] IN
              /\ e.op = "edit" /\ e.role = q.role /\ e.held = q.held /\ e.wanted = q.wanted
              /\ e.revoke = q.revoke /\ e.grant = S /\ e.alone = q.alone
         /\ LET e == [q EXCEPT !.alone = FALSE] IN
              /\ e.op = "edit" /\ e.role = q.role /\ e.held = q.held /\ e.wanted = q.wanted
              /\ e.revoke = q.revoke /\ e.grant = q.grant /\ e.alone = FALSE
BY DEF U!Edits

(* What a role holds while one edit of it is half done.                    *)
HalfDone(e) ==
  IF e.revoke # {}
  THEN /\ grants[e.role] = e.held
       /\ e.revoke = e.held \ e.wanted /\ e.grant = e.wanted \ e.held
  ELSE /\ e.grant \subseteq e.wanted \ e.held
       /\ grants[e.role] = (e.held \cap e.wanted) \cup ((e.wanted \ e.held) \ e.grant)

EditsInv ==
  \A u \in Staff :
    admins[u].op = "edit" /\ admins[u].alone =>
      /\ \A w \in Staff \ {u} : ~(admins[w].op = "edit" /\ admins[w].role = admins[u].role)
      /\ HalfDone(admins[u])

(* Nobody switches their own account.                                      *)
OthersOnly == \A u \in Staff : admins[u].op = "switch" => admins[u].of # u

AccessInv == U!TypeOK /\ EditsInv /\ OthersOnly

LEMMA AccessInvInit == U!Init => AccessInv
BY DEF U!Init, AccessInv, U!TypeOK, EditsInv, OthersOnly, U!AtRest, U!Runnings

(* A request put in the place of another.                                  *)
LEMMA RunningReplaced ==
  ASSUME U!TypeOK, NEW u \in Staff, NEW q \in U!Runnings, admins' = [admins EXCEPT ![u] = q]
  PROVE  /\ admins' \in [Staff -> U!Runnings] /\ admins'[u] = q
         /\ \A w \in Staff \ {u} : admins'[w] = admins[w]
BY DEF U!TypeOK

(* A request that is no edit begins or ends; roles stay as they are.       *)
LEMMA EditsUndisturbed ==
  ASSUME AccessInv, NEW u \in Staff, NEW q \in U!Runnings, admins' = [admins EXCEPT ![u] = q],
         q.op # "edit", q.op = "switch" => q.of # u, grants' = grants
  PROVE  EditsInv' /\ OthersOnly'
<1>1. admins'[u] = q /\ \A w \in Staff \ {u} : admins'[w] = admins[w]
  BY RunningReplaced DEF AccessInv
<1>2. OthersOnly'
  BY <1>1 DEF AccessInv, OthersOnly
<1>3. EditsInv'
  <2> SUFFICES ASSUME NEW w \in Staff, admins'[w].op = "edit" /\ admins'[w].alone
               PROVE  /\ \A x \in Staff \ {w} : ~(admins'[x].op = "edit" /\ admins'[x].role = admins'[w].role)
                      /\ HalfDone(admins[w])'
    BY DEF EditsInv
  <2>1. w # u /\ admins'[w] = admins[w]
    BY <1>1
  <2>2. /\ \A x \in Staff \ {w} : ~(admins[x].op = "edit" /\ admins[x].role = admins[w].role)
        /\ HalfDone(admins[w])
    BY <2>1 DEF AccessInv, EditsInv
  <2>3. HalfDone(admins[w])'
    BY <2>1, <2>2 DEF HalfDone
  <2>. QED BY <1>1, <2>1, <2>2, <2>3
<1>. QED BY <1>2, <1>3

(* A request is dropped at its end, or where it fails. *)
LEMMA EndedRequest ==
  ASSUME AccessInv, NEW u \in Staff, U!Finish(u), grants' = grants
  PROVE  admins' \in [Staff -> U!Runnings] /\ EditsInv' /\ OthersOnly'
<1>1. U!AtRest \in U!Runnings /\ U!AtRest.op = "idle"
  BY DEF U!Runnings, U!AtRest
<1>2. admins' = [admins EXCEPT ![u] = U!AtRest]
  BY DEF U!Finish
<1>3. admins' \in [Staff -> U!Runnings]
  BY <1>1, <1>2, RunningReplaced DEF AccessInv
<1>. QED BY <1>1, <1>2, <1>3, EditsUndisturbed

LEMMA AccessByEditRead ==
  ASSUME AccessInv, NEW u \in Staff, NEW r \in Role, NEW wanted \in SUBSET Permission,
         U!EditRead(u, r, wanted)
  PROVE  AccessInv'
<1> DEFINE edit == [op |-> "edit", role |-> r, held |-> grants[r], wanted |-> wanted,
                    revoke |-> grants[r] \ wanted, grant |-> wanted \ grants[r],
                    alone |-> U!OtherEdits(u, r) = {}]
           Met == U!OtherEdits(u, r)
<1>t. U!TypeOK
  BY DEF AccessInv
<1>1. /\ UNCHANGED <<user, grants>> /\ admins[u] = U!AtRest
      /\ admins' = [w \in Staff |-> IF w = u THEN edit
                                    ELSE IF w \in Met THEN [admins[w] EXCEPT !.alone = FALSE]
                                    ELSE admins[w]]
  BY DEF U!EditRead, U!ToRevoke, U!ToGrant
<1>2. edit \in U!Edits
  BY <1>t DEF U!TypeOK, U!Edits
<1>3. /\ edit.op = "edit" /\ edit.role = r /\ edit.held = grants[r] /\ edit.wanted = wanted
      /\ edit.revoke = grants[r] \ wanted /\ edit.grant = wanted \ grants[r]
      /\ edit.alone = (Met = {})
  OBVIOUS
<1>m. Met = {w \in Staff \ {u} : admins[w].op = "edit" /\ admins[w].role = r}
  BY DEF U!OtherEdits
<1> HIDE DEF edit, Met
<1>4. \A w \in Met : /\ admins[w] \in U!Edits /\ w # u
                     /\ admins[w].role = r
  BY <1>t, <1>m, RunningFields DEF U!TypeOK
<1>5. admins'[u] = edit
  BY <1>1
<1>6. \A w \in Met : /\ admins'[w] \in U!Edits /\ admins'[w].op = "edit"
                     /\ admins'[w].alone = FALSE /\ admins'[w].role = r
  <2> TAKE w \in Met
  <2>1. admins'[w] = [admins[w] EXCEPT !.alone = FALSE]
    BY <1>1, <1>4, <1>m
  <2>2. admins[w] \in U!Edits /\ admins[w].role = r
    BY <1>4
  <2>3. [admins[w] EXCEPT !.alone = FALSE] \in U!Edits
    BY <2>2, EditReplaced
  <2>4. [admins[w] EXCEPT !.alone = FALSE].role = r /\ [admins[w] EXCEPT !.alone = FALSE].alone = FALSE
    BY <2>2 DEF U!Edits
  <2>. QED BY <2>1, <2>3, <2>4 DEF U!Edits
<1>7. \A w \in Staff \ (Met \cup {u}) : admins'[w] = admins[w]
  BY <1>1
<1>8. U!TypeOK'
  <2>1. \A w \in Staff : admins'[w] \in U!Runnings
    BY <1>t, <1>2, <1>5, <1>6, <1>7 DEF U!TypeOK, U!Runnings
  <2>2. admins' \in [Staff -> U!Runnings]
    BY <1>1, <2>1
  <2>. QED BY <1>t, <1>1, <2>2 DEF U!TypeOK
<1>9. OthersOnly'
  BY <1>3, <1>5, <1>6, <1>7 DEF AccessInv, OthersOnly
<1>10. EditsInv'
  <2> SUFFICES ASSUME NEW w \in Staff, admins'[w].op = "edit", admins'[w].alone
               PROVE  /\ \A x \in Staff \ {w} : ~(admins'[x].op = "edit" /\ admins'[x].role = admins'[w].role)
                      /\ HalfDone(admins[w])'
    BY DEF EditsInv
  <2>1. CASE w = u
    <3>1. Met = {} /\ admins'[w] = edit
      BY <1>3, <1>5, <2>1
    <3>2. \A x \in Staff \ {w} : admins'[x] = admins[x] /\ ~(admins[x].op = "edit" /\ admins[x].role = r)
      BY <1>7, <1>m, <2>1, <3>1
    <3>3. HalfDone(admins[w])'
      BY <1>1, <1>3, <3>1 DEF HalfDone
    <3>. QED BY <1>3, <3>1, <3>2, <3>3
  <2>2. CASE w # u
    <3>1. w \notin Met
      BY <1>6
    <3>2. admins'[w] = admins[w] /\ admins[w].role # r
      BY <1>7, <1>m, <2>2, <3>1
    <3>3. /\ \A x \in Staff \ {w} : ~(admins[x].op = "edit" /\ admins[x].role = admins[w].role)
          /\ HalfDone(admins[w])
      BY <3>2 DEF AccessInv, EditsInv
    <3>4. HalfDone(admins[w])'
      BY <1>1, <3>2, <3>3 DEF HalfDone
    <3>5. \A x \in Staff \ {w} : ~(admins'[x].op = "edit" /\ admins'[x].role = admins'[w].role)
      BY <1>3, <1>5, <1>6, <1>7, <3>2, <3>3
    <3>. QED BY <3>4, <3>5
  <2>. QED BY <2>1, <2>2
<1>. QED BY <1>8, <1>9, <1>10 DEF AccessInv

(* A write of an edit u touches only what u's role holds, and what u has   *)
(* still to write.                                                         *)
LEMMA AccessByWrite ==
  ASSUME AccessInv, NEW u \in Staff, admins[u].op = "edit", NEW q \in U!Edits,
         q.role = admins[u].role, q.alone = admins[u].alone,
         admins' = [admins EXCEPT ![u] = q], user' = user,
         grants' \in [Role -> SUBSET Permission],
         \A r \in Role \ {q.role} : grants'[r] = grants[r],
         q.alone => HalfDone(admins[u])'
  PROVE  AccessInv'
<1>t. U!TypeOK
  BY DEF AccessInv
<1>q. q \in U!Runnings /\ q.op = "edit"
  BY DEF U!Runnings, U!Edits
<1>1. /\ admins' \in [Staff -> U!Runnings] /\ admins'[u] = q
      /\ \A w \in Staff \ {u} : admins'[w] = admins[w]
  BY <1>t, <1>q, RunningReplaced
<1>2. U!TypeOK'
  BY <1>t, <1>1 DEF U!TypeOK
<1>3. OthersOnly'
  BY <1>1, <1>q DEF AccessInv, OthersOnly
<1>4. EditsInv'
  <2> SUFFICES ASSUME NEW w \in Staff, admins'[w].op = "edit", admins'[w].alone
               PROVE  /\ \A x \in Staff \ {w} : ~(admins'[x].op = "edit" /\ admins'[x].role = admins'[w].role)
                      /\ HalfDone(admins[w])'
    BY DEF EditsInv
  <2>1. \A x \in Staff : admins'[x].op = admins[x].op /\ (admins'[x].op = "edit" =>
            admins'[x].role = admins[x].role)
    BY <1>1, <1>q
  <2>2. admins[w].alone
    BY <1>1
  <2>3. /\ \A x \in Staff \ {w} : ~(admins[x].op = "edit" /\ admins[x].role = admins[w].role)
        /\ HalfDone(admins[w])
    BY <2>1, <2>2 DEF AccessInv, EditsInv
  <2>4. HalfDone(admins[w])'
    <3>1. CASE w = u
      BY <1>1, <3>1
    <3>2. CASE w # u
      <4>1. admins'[w] = admins[w] /\ admins[w].role \in Role \ {q.role}
        BY <1>t, <1>1, <2>1, <2>3, <3>2, RunningFields DEF U!TypeOK
      <4>. QED BY <2>3, <4>1 DEF HalfDone
    <3>. QED BY <3>1, <3>2
  <2>. QED BY <2>1, <2>3, <2>4
<1>. QED BY <1>2, <1>3, <1>4 DEF AccessInv

LEMMA AccessByRevoke ==
  ASSUME AccessInv, NEW u \in Staff, U!EditRevoke(u)
  PROVE  AccessInv'
<1> DEFINE e == admins[u]
           q == [e EXCEPT !.revoke = {}]
<1>t. U!TypeOK
  BY DEF AccessInv
<1>1. /\ e.op = "edit" /\ e.revoke # {} /\ user' = user
      /\ grants' = [grants EXCEPT ![e.role] = @ \ e.revoke]
      /\ admins' = [admins EXCEPT ![u] = q]
  BY DEF U!EditRevoke
<1>2. e \in U!Edits /\ e.role \in Role /\ e.held \in SUBSET Permission /\ e.wanted \in SUBSET Permission
  BY <1>t, <1>1, RunningFields DEF U!TypeOK
<1>3. /\ q \in U!Edits /\ q.role = e.role /\ q.held = e.held /\ q.wanted = e.wanted
      /\ q.revoke = {} /\ q.grant = e.grant /\ q.alone = e.alone
  BY <1>2, EditReplaced DEF U!Edits
<1>4. /\ grants' \in [Role -> SUBSET Permission] /\ grants'[e.role] = grants[e.role] \ e.revoke
      /\ \A r \in Role \ {e.role} : grants'[r] = grants[r]
  BY <1>t, <1>1, <1>2 DEF U!TypeOK
<1>5. admins'[u] = q
  BY <1>t, <1>1 DEF U!TypeOK
<1>6. ASSUME e.alone PROVE HalfDone(admins[u])'
  <2>1. /\ grants[e.role] = e.held
        /\ e.revoke = e.held \ e.wanted /\ e.grant = e.wanted \ e.held
    BY <1>1, <1>6 DEF AccessInv, EditsInv, HalfDone
  <2>2. grants'[q.role] = (q.held \cap q.wanted) \cup ((q.wanted \ q.held) \ q.grant)
    BY <1>3, <1>4, <2>1
  <2>. QED BY <1>3, <1>5, <2>1, <2>2 DEF HalfDone
<1> HIDE DEF q
<1>. QED BY <1>1, <1>3, <1>4, <1>6, AccessByWrite

LEMMA AccessByGrant ==
  ASSUME AccessInv, NEW u \in Staff, NEW p \in Permission, U!EditGrant(u, p)
  PROVE  AccessInv'
<1> DEFINE e == admins[u]
           q == [e EXCEPT !.grant = e.grant \ {p}]
<1>t. U!TypeOK
  BY DEF AccessInv
<1>1. /\ e.op = "edit" /\ e.revoke = {} /\ p \in e.grant /\ user' = user
      /\ grants' = [grants EXCEPT ![e.role] = @ \cup {p}]
      /\ admins' = [admins EXCEPT ![u] = q]
  BY DEF U!EditGrant
<1>2. /\ e \in U!Edits /\ e.role \in Role /\ e.held \in SUBSET Permission /\ e.wanted \in SUBSET Permission
      /\ e.grant \in SUBSET Permission
  BY <1>t, <1>1, RunningFields DEF U!TypeOK
<1>3. /\ q \in U!Edits /\ q.role = e.role /\ q.held = e.held /\ q.wanted = e.wanted
      /\ q.revoke = {} /\ q.grant = e.grant \ {p} /\ q.alone = e.alone
  <2>1. e.grant \ {p} \in SUBSET Permission
    BY <1>2
  <2>. QED BY <1>1, <1>2, <2>1, EditReplaced DEF U!Edits
<1>4. /\ grants' \in [Role -> SUBSET Permission] /\ grants'[e.role] = grants[e.role] \cup {p}
      /\ \A r \in Role \ {e.role} : grants'[r] = grants[r]
  BY <1>t, <1>1, <1>2 DEF U!TypeOK
<1>5. admins'[u] = q
  BY <1>t, <1>1 DEF U!TypeOK
<1>6. ASSUME e.alone PROVE HalfDone(admins[u])'
  <2>1. /\ e.grant \subseteq e.wanted \ e.held
        /\ grants[e.role] = (e.held \cap e.wanted) \cup ((e.wanted \ e.held) \ e.grant)
    BY <1>1, <1>6 DEF AccessInv, EditsInv, HalfDone
  <2>2. grants'[q.role] = (q.held \cap q.wanted) \cup ((q.wanted \ q.held) \ q.grant)
    BY <1>1, <1>3, <1>4, <2>1
  <2>3. q.grant \subseteq q.wanted \ q.held
    BY <1>3, <2>1
  <2>. QED BY <1>3, <1>5, <2>2, <2>3 DEF HalfDone
<1> HIDE DEF q
<1>. QED BY <1>1, <1>3, <1>4, <1>6, AccessByWrite

LEMMA AccessInvStep == AccessInv /\ [U!Next]_(U!vars) => AccessInv'
<1> SUFFICES ASSUME AccessInv, [U!Next]_(U!vars) PROVE AccessInv'
  OBVIOUS
<1>t. U!TypeOK
  BY DEF AccessInv
<1>1. CASE UNCHANGED U!vars
  BY <1>1 DEF AccessInv, U!vars, U!TypeOK, EditsInv, HalfDone, OthersOnly
<1>2. CASE U!Next
  <2>1. ASSUME NEW u \in Staff, NEW v \in Staff, U!CreateRead(u, v) PROVE AccessInv'
    <3>1. /\ UNCHANGED <<user, grants>>
          /\ admins' = [admins EXCEPT ![u] = [op |-> "create", of |-> v]]
      BY <2>1 DEF U!CreateRead, U!Begin
    <3>2. [op |-> "create", of |-> v] \in U!Runnings
      BY DEF U!Runnings
    <3>3. admins' \in [Staff -> U!Runnings]
      BY <1>t, <3>1, <3>2, RunningReplaced
    <3>4. EditsInv' /\ OthersOnly'
      BY <3>1, <3>2, EditsUndisturbed
    <3>. QED BY <1>t, <3>1, <3>3, <3>4 DEF AccessInv, U!TypeOK
  <2>2. ASSUME NEW u \in Staff, U!CreateWrite(u) PROVE AccessInv'
    <3>1. admins' \in [Staff -> U!Runnings] /\ EditsInv' /\ OthersOnly'
      BY <2>2, EndedRequest DEF U!CreateWrite
    <3>2. user' \in [Staff -> {"ABSENT", "ACTIVE", "INACTIVE"}] /\ grants' = grants
      BY <1>t, <2>2 DEF U!CreateWrite, U!TypeOK
    <3>. QED BY <1>t, <3>1, <3>2 DEF AccessInv, U!TypeOK
  <2>3. ASSUME NEW u \in Staff, NEW v \in Staff, NEW to \in {"ACTIVE", "INACTIVE"}, U!SwitchRead(u, v, to)
        PROVE  AccessInv'
    <3>1. /\ UNCHANGED <<user, grants>> /\ v # u
          /\ admins' = [admins EXCEPT ![u] = [op |-> "switch", of |-> v, to |-> to]]
      BY <2>3 DEF U!SwitchRead, U!Begin, U!SomebodyElse
    <3>2. [op |-> "switch", of |-> v, to |-> to] \in U!Runnings
      BY DEF U!Runnings
    <3>3. admins' \in [Staff -> U!Runnings]
      BY <1>t, <3>1, <3>2, RunningReplaced
    <3>4. EditsInv' /\ OthersOnly'
      BY <3>1, <3>2, EditsUndisturbed
    <3>. QED BY <1>t, <3>1, <3>3, <3>4 DEF AccessInv, U!TypeOK
  <2>4. ASSUME NEW u \in Staff, U!SwitchWrite(u) PROVE AccessInv'
    <3>1. admins' \in [Staff -> U!Runnings] /\ EditsInv' /\ OthersOnly'
      BY <2>4, EndedRequest DEF U!SwitchWrite
    <3>2. admins[u].to \in {"ACTIVE", "INACTIVE"}
      BY <1>t, <2>4, RunningFields DEF U!SwitchWrite, U!TypeOK
    <3>3. user' \in [Staff -> {"ABSENT", "ACTIVE", "INACTIVE"}] /\ grants' = grants
      BY <1>t, <2>4, <3>2 DEF U!SwitchWrite, U!TypeOK
    <3>. QED BY <1>t, <3>1, <3>3 DEF AccessInv, U!TypeOK
  <2>5. ASSUME NEW u \in Staff, NEW r \in Role, NEW wanted \in SUBSET Permission, U!EditRead(u, r, wanted)
        PROVE  AccessInv'
    BY <2>5, AccessByEditRead
  <2>6. ASSUME NEW u \in Staff, U!EditRevoke(u) PROVE AccessInv'
    BY <2>6, AccessByRevoke
  <2>7. ASSUME NEW u \in Staff, NEW p \in Permission, U!EditGrant(u, p) PROVE AccessInv'
    BY <2>7, AccessByGrant
  <2>8. ASSUME NEW u \in Staff, U!EditSaved(u) \/ U!GiveUp(u) PROVE AccessInv'
    <3>1. U!Finish(u) /\ UNCHANGED <<user, grants>>
      BY <2>8 DEF U!EditSaved, U!GiveUp
    <3>2. admins' \in [Staff -> U!Runnings] /\ EditsInv' /\ OthersOnly'
      BY <3>1, EndedRequest
    <3>. QED BY <1>t, <3>1, <3>2 DEF AccessInv, U!TypeOK
  <2>. QED BY <1>2, <2>1, <2>2, <2>3, <2>4, <2>5, <2>6, <2>7, <2>8 DEF U!Next
<1>. QED BY <1>1, <1>2

LEMMA AccessInvHolds == U!Spec => []AccessInv
BY AccessInvInit, AccessInvStep, PTL DEF U!Spec

LEMMA EditsExact == AccessInv => U!EditIsExact
<1> SUFFICES ASSUME AccessInv, NEW u \in Staff, admins[u].op = "edit", admins[u].alone
             PROVE  /\ admins[u].held \cap admins[u].wanted \subseteq grants[admins[u].role]
                    /\ grants[admins[u].role] \subseteq admins[u].held \cup admins[u].wanted
                    /\ admins[u].revoke = {} /\ admins[u].grant = {} =>
                         grants[admins[u].role] = admins[u].wanted
  BY DEF U!EditIsExact
<1>1. HalfDone(admins[u])
  BY DEF AccessInv, EditsInv
<1>. QED BY <1>1 DEF HalfDone

(* Somebody can still manage accounts, unless a role was edited or the one *)
(* who switches an account off no longer may.                              *)
LEMMA SomebodyIsLeft ==
  ASSUME AccessInv, [U!Next]_(U!vars), U!Managers # {}, U!Managers' = {}, grants' = grants
  PROVE  \E u \in Staff \ U!Managers : admins[u].op = "switch" /\ admins'[u] = U!AtRest
<1>t. U!TypeOK /\ OthersOnly
  BY DEF AccessInv
<1>1. \E u \in Staff : user[u] = "ACTIVE" /\ user'[u] # "ACTIVE"
  BY DEF U!Managers, U!Can
<1>2. PICK u \in Staff : U!CreateWrite(u) \/ U!SwitchWrite(u)
  BY <1>1 DEF U!Next, U!vars, U!CreateRead, U!SwitchRead, U!EditRead, U!EditRevoke, U!EditGrant,
         U!EditSaved, U!GiveUp
<1>3. ~U!CreateWrite(u)
  BY <1>t, <1>1 DEF U!CreateWrite, U!TypeOK
<1>4. /\ admins[u].op = "switch" /\ admins[u].of # u /\ admins'[u] = U!AtRest
      /\ user' = [user EXCEPT ![admins[u].of] = admins[u].to]
  BY <1>2, <1>3, <1>t DEF U!SwitchWrite, U!Finish, U!TypeOK, OthersOnly
<1>5. user'[u] = user[u]
  BY <1>t, <1>4 DEF U!TypeOK
<1>6. u \notin U!Managers
  BY <1>5 DEF U!Managers, U!Can
<1>. QED BY <1>4, <1>6

-----------------------------------------------------------------------------
(* Signing in.                                                             *)

LEMMA AttemptFields ==
  ASSUME NEW a \in G!Attempts
  PROVE  /\ a.op \in {"idle", "signin", "welcome", "renew", "change", "reset"}
         /\ a = G!AtRest <=> a.op = "idle"
         /\ a.op = "signin" => /\ a.right \in BOOLEAN /\ a.typed \in G!Passwords
                               /\ a.failed \in 0..MaxFailures /\ a.active \in BOOLEAN
                               /\ a.lockedUntil \in G!Time \cup {G!Never} /\ a.at \in G!Time
         /\ a.op \in {"welcome", "renew"} => a.typed \in G!Passwords
         /\ a.op \in {"change", "reset"} => a.at \in G!Time
BY DEF G!Attempts, G!AtRest

(* No request is dated later than now, nor the password; a request that    *)
(* tries a password found no lock; and who knows a password knows one that *)
(* was there, a session of the present one having begun after it came.     *)
DatesOf(a, moment) ==
  /\ a.op \in {"signin", "change", "reset"} => a.at <= moment
  /\ a.op = "signin" => a.lockedUntil <= a.at

KnownBy(a, password) ==
  /\ a.op = "signin" /\ a.right => a.typed <= password
  /\ a.op \in {"welcome", "renew"} => a.typed <= password

BegunAs(s, moment, password, since) ==
  s # G!SignedOut =>
    /\ s.began \in 0..moment /\ s.password <= password
    /\ s.password = password => since <= s.began

DoorInv ==
  /\ G!TypeOK
  /\ login.changedAt <= instant
  /\ \A b \in Staff : DatesOf(attempt[b], instant)
  /\ \A b \in Staff : KnownBy(attempt[b], login.password)
  /\ \A b \in Staff : BegunAs(cookie[b], instant, login.password, login.changedAt)

LEMMA DoorNumbers ==
  /\ G!Time \subseteq Nat /\ 0 \in G!Time
  /\ G!Passwords \subseteq Nat /\ 0 \in G!Passwords
  /\ MaxTime \in Nat /\ MaxPassword \in Nat /\ MaxFailures \in Nat /\ G!Never = -1
BY DeskAssumption DEF G!Time, G!Passwords, G!Never

LEMMA DoorTimes ==
  ASSUME NEW t \in Nat, t <= MaxTime
  PROVE  t \in G!Time /\ t + Lockout \in G!Time
BY DeskAssumption DEF G!Time

LoginRows == [active : BOOLEAN, password : G!Passwords, changedAt : G!Time,
              failed : 0..MaxFailures, lockedUntil : G!Time \cup {G!Never}]

LEMMA DoorInvInit == G!Init => DoorInv
<1> SUFFICES ASSUME G!Init PROVE DoorInv
  OBVIOUS
<1>1. login \in LoginRows /\ login.password = 0 /\ login.changedAt = 0
  BY DoorNumbers DEF G!Init, LoginRows
<1>2. \A b \in Staff : attempt[b] = G!AtRest /\ attempt[b].op = "idle" /\ cookie[b] = G!SignedOut
  BY DEF G!Init, G!AtRest
<1>3. attempt \in [Staff -> G!Attempts]
  BY DEF G!Init, G!Attempts
<1>4. cookie \in [Staff -> [began : G!Time \cup {G!Never}, password : G!Passwords \cup {G!Never}]]
  BY DEF G!Init, G!SignedOut
<1>5. instant = 0
  BY DEF G!Init
<1>6. G!TypeOK
  BY <1>1, <1>3, <1>4, <1>5, DoorNumbers DEF G!TypeOK, LoginRows
<1>. QED BY <1>1, <1>2, <1>5, <1>6 DEF DoorInv, DatesOf, KnownBy, BegunAs

(* What a step must keep, by what it changes: an attempt ...               *)
LEMMA AttemptReplaced ==
  ASSUME DoorInv, NEW b \in Staff, NEW a \in G!Attempts, attempt' = [attempt EXCEPT ![b] = a],
         UNCHANGED <<instant, cookie>>, DatesOf(a, instant), KnownBy(a, login'.password),
         login' \in LoginRows, login'.password = login.password, login'.changedAt = login.changedAt
  PROVE  DoorInv'
<1>1. /\ attempt' \in [Staff -> G!Attempts] /\ attempt'[b] = a
      /\ \A d \in Staff \ {b} : attempt'[d] = attempt[d]
  BY DEF DoorInv, G!TypeOK
<1>2. G!TypeOK'
  BY <1>1 DEF DoorInv, G!TypeOK, LoginRows
<1>3. \A d \in Staff : DatesOf(attempt[d], instant)'
  BY <1>1 DEF DoorInv, DatesOf
<1>4. \A d \in Staff : KnownBy(attempt[d], login.password)'
  BY <1>1 DEF DoorInv, KnownBy
<1>5. \A d \in Staff : BegunAs(cookie[d], instant, login.password, login.changedAt)'
  BY DEF DoorInv, BegunAs
<1>. QED BY <1>2, <1>3, <1>4, <1>5 DEF DoorInv

(* ... or a session with the attempt that began it, if any.                *)
LEMMA CookieReplaced ==
  ASSUME DoorInv, NEW b \in Staff, attempt' \in [Staff -> G!Attempts],
         \A d \in Staff : attempt'[d] = attempt[d] \/ attempt'[d] = G!AtRest,
         NEW s \in [began : G!Time \cup {G!Never}, password : G!Passwords \cup {G!Never}],
         cookie' = [cookie EXCEPT ![b] = s],
         UNCHANGED <<instant, login>>, BegunAs(s, instant, login.password, login.changedAt)
  PROVE  DoorInv'
<1>1. /\ cookie'[b] = s /\ \A d \in Staff \ {b} : cookie'[d] = cookie[d]
      /\ cookie' \in [Staff -> [began : G!Time \cup {G!Never}, password : G!Passwords \cup {G!Never}]]
  BY DEF DoorInv, G!TypeOK
<1>2. G!TypeOK'
  BY <1>1 DEF DoorInv, G!TypeOK
<1>r. G!AtRest.op = "idle"
  BY DEF G!AtRest
<1>3. \A d \in Staff : DatesOf(attempt[d], instant)'
  BY <1>r DEF DoorInv, DatesOf
<1>4. \A d \in Staff : KnownBy(attempt[d], login.password)'
  BY <1>r DEF DoorInv, KnownBy
<1>5. \A d \in Staff : BegunAs(cookie[d], instant, login.password, login.changedAt)'
  BY <1>1 DEF DoorInv, BegunAs
<1>. QED BY <1>2, <1>3, <1>4, <1>5 DEF DoorInv

(* The row of the account, with a count and a lock written. *)
LEMMA LoginReplaced ==
  ASSUME DoorInv, NEW n \in 0..MaxFailures, NEW t \in G!Time \cup {G!Never},
         login' = [login EXCEPT !.failed = n, !.lockedUntil = t]
  PROVE  /\ login' \in LoginRows /\ login'.password = login.password
         /\ login'.changedAt = login.changedAt /\ login'.failed = n /\ login'.lockedUntil = t
BY DEF DoorInv, G!TypeOK, LoginRows

LEMMA DoorByAttemptRead ==
  ASSUME DoorInv, NEW b \in Staff, NEW word \in G!Passwords, G!AttemptRead(b, word)
  PROVE  DoorInv'
<1>1. /\ UNCHANGED <<instant, login, cookie>> /\ ~(login.lockedUntil > instant)
      /\ \E right \in BOOLEAN :
           /\ right => word = login.password
           /\ attempt' = [attempt EXCEPT ![b] =
                [op |-> "signin", right |-> right, typed |-> word,
                 failed |-> login.failed, lockedUntil |-> login.lockedUntil,
                 active |-> login.active, at |-> instant]]
  <2>1. /\ UNCHANGED <<instant, login, cookie>> /\ ~(login.lockedUntil > instant)
        /\ attempt' = [attempt EXCEPT ![b] =
             [op |-> "signin", right |-> word = login.password, typed |-> word,
              failed |-> login.failed, lockedUntil |-> login.lockedUntil,
              active |-> login.active, at |-> instant]]
    BY DEF G!AttemptRead, G!Ask, G!LockedOut
  <2>. QED
    <3>1. \E right \in BOOLEAN :
            /\ right => word = login.password
            /\ attempt' = [attempt EXCEPT ![b] =
                 [op |-> "signin", right |-> right, typed |-> word,
                  failed |-> login.failed, lockedUntil |-> login.lockedUntil,
                  active |-> login.active, at |-> instant]]
      <4> WITNESS (word = login.password) \in BOOLEAN
      <4>. QED BY <2>1, Zenon
    <3>. QED BY <2>1, <3>1
<1>2. PICK right \in BOOLEAN :
        /\ right => word = login.password
        /\ attempt' = [attempt EXCEPT ![b] =
             [op |-> "signin", right |-> right, typed |-> word,
              failed |-> login.failed, lockedUntil |-> login.lockedUntil,
              active |-> login.active, at |-> instant]]
  BY <1>1
<1> DEFINE a == [op |-> "signin", right |-> right, typed |-> word,
                 failed |-> login.failed, lockedUntil |-> login.lockedUntil,
                 active |-> login.active, at |-> instant]
<1>3. login \in LoginRows /\ instant \in 0..MaxTime
  BY DEF DoorInv, G!TypeOK, LoginRows
<1>4. /\ login.failed \in 0..MaxFailures /\ login.active \in BOOLEAN /\ login.password \in G!Passwords
      /\ login.lockedUntil \in G!Time \cup {G!Never}
  BY <1>3 DEF LoginRows
<1>5. instant \in G!Time /\ instant \in Nat /\ login.lockedUntil \in Int
  <2>1. login.lockedUntil \in Int
    <3>1. G!Time \subseteq Int /\ G!Never \in Int
      BY DeskAssumption DEF G!Time, G!Never
    <3>. QED BY <1>4, <3>1
  <2>2. instant \in Nat /\ instant <= MaxTime
    BY <1>3, DoorNumbers
  <2>. QED BY <2>1, <2>2, DoorTimes
<1>6. a \in G!Attempts
  BY <1>4, <1>5 DEF G!Attempts
<1>7. DatesOf(a, instant)
  BY <1>1, <1>5 DEF DatesOf
<1>8. KnownBy(a, login.password)
  <2>1. login.password <= login.password
    <3>1. G!Passwords \subseteq Nat
      BY DoorNumbers
    <3>2. login.password \in Nat
      BY <1>4, <3>1
    <3>. QED BY <3>2
  <2>. QED BY <1>2, <2>1 DEF KnownBy
<1> HIDE DEF a
<1>9. attempt' = [attempt EXCEPT ![b] = a] /\ login'.password = login.password
      /\ login'.changedAt = login.changedAt /\ login' \in LoginRows
  BY <1>1, <1>2, <1>3 DEF a
<1>. QED BY <1>1, <1>6, <1>7, <1>8, <1>9, AttemptReplaced

(* A request ends, and leaves the row as it was but for its count and lock. *)
LEMMA DoorByRespond ==
  ASSUME DoorInv, NEW b \in Staff, G!Respond(b), UNCHANGED <<instant, cookie>>,
         login' \in LoginRows, login'.password = login.password, login'.changedAt = login.changedAt
  PROVE  DoorInv'
<1>1. G!AtRest \in G!Attempts /\ G!AtRest.op = "idle"
  BY DEF G!Attempts, G!AtRest
<1>2. DatesOf(G!AtRest, instant) /\ KnownBy(G!AtRest, login'.password)
  BY <1>1 DEF DatesOf, KnownBy
<1>3. attempt' = [attempt EXCEPT ![b] = G!AtRest]
  BY DEF G!Respond
<1>. QED BY <1>1, <1>2, <1>3, AttemptReplaced

LEMMA DoorByAttemptFails ==
  ASSUME DoorInv, NEW b \in Staff, G!AttemptFails(b)
  PROVE  DoorInv'
<1> DEFINE a == attempt[b]
<1>1. /\ a.op = "signin" /\ a.failed < MaxFailures /\ login' = G!Failed(a)
      /\ G!Respond(b) /\ UNCHANGED <<instant, cookie>>
  BY DEF G!AttemptFails
<1>2. /\ a.failed \in 0..MaxFailures /\ a.lockedUntil \in G!Time \cup {G!Never} /\ a.at \in Nat
      /\ a.at <= instant /\ instant \in 0..MaxTime
  BY <1>1, AttemptFields, DoorNumbers DEF DoorInv, G!TypeOK, DatesOf
<1>3. a.failed + 1 \in 0..MaxFailures /\ a.at + Lockout \in G!Time
  <2>1. a.at <= MaxTime
    <3>1. MaxTime \in Nat
      BY DoorNumbers
    <3>. QED BY <1>2, <3>1
  <2>2. a.at + Lockout \in G!Time
    BY <1>2, <2>1, DoorTimes
  <2>3. a.failed + 1 \in 0..MaxFailures
    <3>1. MaxFailures \in Nat
      BY DoorNumbers
    <3>. QED BY <1>1, <1>2, <3>1
  <2>. QED BY <2>2, <2>3
<1>4. login' \in LoginRows /\ login'.password = login.password /\ login'.changedAt = login.changedAt
  <2>1. CASE a.failed + 1 >= MaxAttempts
    <3>1. login' = [login EXCEPT !.failed = a.failed + 1, !.lockedUntil = a.at + Lockout]
      BY <1>1, <2>1 DEF G!Failed
    <3>. QED BY <1>3, <3>1, LoginReplaced
  <2>2. CASE ~(a.failed + 1 >= MaxAttempts)
    <3>1. login' = [login EXCEPT !.failed = a.failed + 1, !.lockedUntil = a.lockedUntil]
      BY <1>1, <2>2 DEF G!Failed
    <3>. QED BY <1>2, <1>3, <3>1, LoginReplaced
  <2>. QED BY <2>1, <2>2
<1>. QED BY <1>1, <1>4, DoorByRespond

LEMMA DoorByAttemptSucceeds ==
  ASSUME DoorInv, NEW b \in Staff, G!AttemptSucceeds(b)
  PROVE  DoorInv'
<1> DEFINE a == [op |-> "welcome", typed |-> attempt[b].typed]
<1>1. /\ attempt[b].op = "signin" /\ attempt[b].right /\ UNCHANGED <<instant, cookie>>
      /\ login' = [login EXCEPT !.failed = 0, !.lockedUntil = G!Never]
      /\ attempt' = [attempt EXCEPT ![b] = a]
  BY DEF G!AttemptSucceeds
<1>2. attempt[b].typed \in G!Passwords /\ attempt[b].typed <= login.password
  BY <1>1, AttemptFields DEF DoorInv, G!TypeOK, KnownBy
<1>3. login' \in LoginRows /\ login'.password = login.password /\ login'.changedAt = login.changedAt
  <2>1. 0 \in 0..MaxFailures /\ G!Never \in G!Time \cup {G!Never}
    BY DoorNumbers
  <2>. QED BY <1>1, <2>1, LoginReplaced
<1>4. a \in G!Attempts
  BY <1>2 DEF G!Attempts
<1>5. DatesOf(a, instant) /\ KnownBy(a, login'.password)
  BY <1>2, <1>3 DEF DatesOf, KnownBy
<1> HIDE DEF a
<1>. QED BY <1>1, <1>3, <1>4, <1>5, AttemptReplaced

LEMMA DoorByEnter ==
  ASSUME DoorInv, NEW b \in Staff, G!Enter(b)
  PROVE  DoorInv'
<1> DEFINE s == [began |-> instant, password |-> attempt[b].typed]
<1>1. /\ attempt[b].op \in {"welcome", "renew"} /\ cookie' = [cookie EXCEPT ![b] = s]
      /\ attempt' = [attempt EXCEPT ![b] = G!AtRest] /\ UNCHANGED <<instant, login>>
  BY DEF G!Enter, G!Respond
<1>2. attempt[b].typed \in G!Passwords /\ attempt[b].typed <= login.password
  BY <1>1, AttemptFields DEF DoorInv, G!TypeOK, KnownBy
<1>3. instant \in G!Time /\ instant \in Nat /\ login.changedAt <= instant
  BY DoorNumbers, DoorTimes DEF DoorInv, G!TypeOK
<1>4. /\ attempt' \in [Staff -> G!Attempts]
      /\ \A d \in Staff : attempt'[d] = attempt[d] \/ attempt'[d] = G!AtRest
  BY <1>1 DEF DoorInv, G!TypeOK, G!Attempts
<1>5. s \in [began : G!Time \cup {G!Never}, password : G!Passwords \cup {G!Never}]
  BY <1>2, <1>3
<1>6. BegunAs(s, instant, login.password, login.changedAt)
  BY <1>2, <1>3 DEF BegunAs
<1> HIDE DEF s
<1>. QED BY <1>1, <1>4, <1>5, <1>6, CookieReplaced

LEMMA DoorBySignOut ==
  ASSUME DoorInv, NEW b \in Staff, G!SignOut(b)
  PROVE  DoorInv'
<1>1. cookie' = [cookie EXCEPT ![b] = G!SignedOut] /\ UNCHANGED <<instant, login, attempt>>
  BY DEF G!SignOut
<1>2. G!SignedOut \in [began : G!Time \cup {G!Never}, password : G!Passwords \cup {G!Never}]
  BY DEF G!SignedOut
<1>3. BegunAs(G!SignedOut, instant, login.password, login.changedAt)
  BY DEF BegunAs
<1>. QED BY <1>1, <1>2, <1>3, CookieReplaced DEF DoorInv, G!TypeOK

LEMMA DoorByAskChange ==
  ASSUME DoorInv, NEW b \in Staff, G!ChangeRead(b) \/ G!ResetRead(b)
  PROVE  DoorInv'
<1>1. PICK op \in {"change", "reset"} : attempt' = [attempt EXCEPT ![b] = [op |-> op, at |-> instant]]
  BY DEF G!ChangeRead, G!ResetRead, G!Ask
<1>2. UNCHANGED <<instant, login, cookie>>
  BY DEF G!ChangeRead, G!ResetRead
<1>3. instant \in G!Time /\ instant \in Nat /\ login \in LoginRows
  BY DoorNumbers, DoorTimes DEF DoorInv, G!TypeOK, LoginRows
<1>4. [op |-> op, at |-> instant] \in G!Attempts
  BY <1>3 DEF G!Attempts
<1>5. DatesOf([op |-> op, at |-> instant], instant) /\ KnownBy([op |-> op, at |-> instant], login.password)
  BY <1>3 DEF DatesOf, KnownBy
<1>. QED BY <1>1, <1>2, <1>3, <1>4, <1>5, AttemptReplaced

(* A password stored is one nobody has signed in with.                     *)
LEMMA DoorByStorePassword ==
  ASSUME DoorInv, NEW b \in Staff, G!StorePassword(b)
  PROVE  DoorInv'
<1> DEFINE a == attempt[b]
           n == login.password + 1
           next == IF a.op = "change" THEN [op |-> "renew", typed |-> n] ELSE G!AtRest
<1>1. /\ a.op \in {"change", "reset"} /\ login.password < MaxPassword /\ UNCHANGED <<instant, cookie>>
      /\ login' = [login EXCEPT !.password = n, !.changedAt = a.at, !.failed = 0, !.lockedUntil = G!Never]
      /\ attempt' = [attempt EXCEPT ![b] = next]
  BY DEF G!StorePassword
<1>2. login \in LoginRows /\ login.password \in Nat /\ instant \in Nat
  <2>1. login \in LoginRows /\ login.password \in G!Passwords /\ instant \in 0..MaxTime
    BY DEF DoorInv, G!TypeOK, LoginRows
  <2>2. login.password \in Nat
    <3>1. G!Passwords \subseteq Nat
      BY DoorNumbers
    <3>. QED BY <2>1, <3>1
  <2>3. instant \in Nat
    <3>1. MaxTime \in Nat
      BY DoorNumbers
    <3>. QED BY <2>1, <3>1
  <2>. QED BY <2>1, <2>2, <2>3
<1>3. n \in G!Passwords
  BY <1>1, <1>2, DeskAssumption DEF G!Passwords
<1>4. a.at \in G!Time /\ a.at <= instant
  BY <1>1, AttemptFields DEF DoorInv, G!TypeOK, DatesOf
<1>5. a.at \in Nat
  BY <1>4, DoorNumbers
<1>6. login' \in LoginRows /\ login'.password = n /\ login'.changedAt = a.at
  <2>1. 0 \in 0..MaxFailures
    BY DoorNumbers
  <2>. QED BY <1>1, <1>2, <1>3, <1>4, <2>1 DEF LoginRows
<1>7. next \in G!Attempts /\ DatesOf(next, instant) /\ KnownBy(next, n)
  <2>1. CASE a.op = "change"
    <3>1. next = [op |-> "renew", typed |-> n]
      BY <2>1
    <3>2. next \in G!Attempts
      BY <1>3, <3>1 DEF G!Attempts
    <3>. QED BY <1>2, <3>1, <3>2 DEF DatesOf, KnownBy
  <2>2. CASE a.op # "change"
    <3>1. next = G!AtRest
      BY <2>2
    <3>. QED BY <3>1 DEF DatesOf, KnownBy, G!AtRest, G!Attempts
  <2>. QED BY <2>1, <2>2
<1> HIDE DEF next
<1>8. /\ attempt' \in [Staff -> G!Attempts] /\ attempt'[b] = next
      /\ \A d \in Staff \ {b} : attempt'[d] = attempt[d]
  BY <1>1, <1>7 DEF DoorInv, G!TypeOK
<1>9. G!TypeOK'
  BY <1>1, <1>6, <1>8 DEF DoorInv, G!TypeOK, LoginRows
<1>10. \A d \in Staff : DatesOf(attempt[d], instant)'
  BY <1>1, <1>7, <1>8 DEF DoorInv, DatesOf
<1>11. \A d \in Staff : KnownBy(attempt[d], login.password)'
  <2> TAKE d \in Staff
  <2>1. CASE d = b
    BY <1>6, <1>7, <1>8, <2>1 DEF KnownBy
  <2>2. CASE d # b
    <3>1. KnownBy(attempt[d], login.password) /\ attempt'[d] = attempt[d] /\ attempt[d] \in G!Attempts
      BY <1>8, <2>2 DEF DoorInv, G!TypeOK
    <3>2. attempt[d].op \in {"signin", "welcome", "renew"} => attempt[d].typed \in Nat
      BY <3>1, AttemptFields, DoorNumbers
    <3>. QED BY <1>2, <1>6, <3>1, <3>2 DEF KnownBy
  <2>. QED BY <2>1, <2>2
<1>12. \A d \in Staff : BegunAs(cookie[d], instant, login.password, login.changedAt)'
  <2> SUFFICES ASSUME NEW d \in Staff, cookie[d] # G!SignedOut
               PROVE  cookie[d].began \in 0..instant /\ cookie[d].password <= n /\ cookie[d].password # n
    BY <1>1, <1>6 DEF BegunAs
  <2>1. cookie[d].began \in 0..instant /\ cookie[d].password <= login.password
    BY DEF DoorInv, BegunAs
  <2>2. cookie[d].password \in G!Passwords \cup {G!Never}
    BY DEF DoorInv, G!TypeOK
  <2>3. cookie[d].password \in Int
    <3>1. G!Passwords \subseteq Int /\ G!Never \in Int
      BY DeskAssumption DEF G!Passwords, G!Never
    <3>. QED BY <2>2, <3>1
  <2>. QED BY <1>2, <2>1, <2>3
<1>. QED BY <1>1, <1>4, <1>6, <1>9, <1>10, <1>11, <1>12 DEF DoorInv

LEMMA DoorByTick ==
  ASSUME DoorInv, G!Tick
  PROVE  DoorInv'
<1>1. instant < MaxTime /\ instant' = instant + 1 /\ UNCHANGED <<login, cookie, attempt>>
  BY DEF G!Tick
<1>2. instant \in Nat /\ instant' \in 0..MaxTime
  BY <1>1, DeskAssumption DEF DoorInv, G!TypeOK
<1>3. G!TypeOK'
  BY <1>1, <1>2 DEF DoorInv, G!TypeOK
<1>4. login.changedAt \in Nat /\ login.changedAt <= instant
  BY DoorNumbers DEF DoorInv, G!TypeOK
<1>5. \A d \in Staff : DatesOf(attempt[d], instant)'
  <2> TAKE d \in Staff
  <2>1. DatesOf(attempt[d], instant) /\ attempt[d] \in G!Attempts
    BY DEF DoorInv, G!TypeOK
  <2>2. attempt[d].op \in {"signin", "change", "reset"} => attempt[d].at \in Nat
    BY <2>1, AttemptFields, DoorNumbers
  <2>. QED BY <1>1, <1>2, <2>1, <2>2 DEF DatesOf
<1>6. \A d \in Staff : KnownBy(attempt[d], login.password)'
  BY <1>1 DEF DoorInv, KnownBy
<1>7. \A d \in Staff : BegunAs(cookie[d], instant, login.password, login.changedAt)'
  BY <1>1, <1>2 DEF DoorInv, BegunAs
<1>8. login'.changedAt <= instant'
  BY <1>1, <1>2, <1>4
<1>. QED BY <1>3, <1>5, <1>6, <1>7, <1>8 DEF DoorInv

LEMMA DoorInvStep == DoorInv /\ [G!Next]_(G!vars) => DoorInv'
<1> SUFFICES ASSUME DoorInv, [G!Next]_(G!vars) PROVE DoorInv'
  OBVIOUS
<1>t. login \in LoginRows
  BY DEF DoorInv, G!TypeOK, LoginRows
<1>1. CASE UNCHANGED G!vars
  BY <1>1 DEF G!vars, DoorInv, G!TypeOK, DatesOf, KnownBy, BegunAs
<1>2. CASE G!Next
  <2>1. ASSUME G!SetUserActive PROVE DoorInv'
    <3>1. login' = [login EXCEPT !.active = ~login.active] /\ UNCHANGED <<instant, cookie, attempt>>
      BY <2>1 DEF G!SetUserActive
    <3>2. login' \in LoginRows /\ login'.password = login.password /\ login'.changedAt = login.changedAt
      BY <1>t, <3>1 DEF LoginRows
    <3>. QED BY <3>1, <3>2 DEF DoorInv, G!TypeOK, LoginRows, DatesOf, KnownBy, BegunAs
  <2>2. ASSUME NEW b \in Staff, NEW word \in G!Passwords, G!AttemptRead(b, word) PROVE DoorInv'
    BY <2>2, DoorByAttemptRead
  <2>3. ASSUME NEW b \in Staff, G!AttemptFails(b) PROVE DoorInv'
    BY <2>3, DoorByAttemptFails
  <2>4. ASSUME NEW b \in Staff, G!AttemptRefused(b) \/ G!GiveUp(b) PROVE DoorInv'
    <3>1. G!Respond(b) /\ UNCHANGED <<instant, login, cookie>>
      BY <2>4 DEF G!AttemptRefused, G!GiveUp
    <3>. QED BY <1>t, <3>1, DoorByRespond
  <2>5. ASSUME NEW b \in Staff, G!AttemptSucceeds(b) PROVE DoorInv'
    BY <2>5, DoorByAttemptSucceeds
  <2>6. ASSUME NEW b \in Staff, G!Enter(b) PROVE DoorInv'
    BY <2>6, DoorByEnter
  <2>7. ASSUME NEW b \in Staff, G!SignOut(b) PROVE DoorInv'
    BY <2>7, DoorBySignOut
  <2>8. ASSUME NEW b \in Staff, G!ChangeRead(b) \/ G!ResetRead(b) PROVE DoorInv'
    BY <2>8, DoorByAskChange
  <2>9. ASSUME NEW b \in Staff, G!StorePassword(b) PROVE DoorInv'
    BY <2>9, DoorByStorePassword
  <2>. QED BY <1>2, <2>1, <2>2, <2>3, <2>4, <2>5, <2>6, <2>7, <2>8, <2>9, DoorByTick DEF G!Next
<1>. QED BY <1>1, <1>2

LEMMA DoorInvHolds == G!Spec => []DoorInv
BY DoorInvInit, DoorInvStep, PTL DEF G!Spec

LEMMA SecondsInOrder ==
  ASSUME NEW s \in Nat, NEW t \in Nat
  PROVE  /\ t <= s => G!Second(t) <= G!Second(s)
         /\ s + 2 <= t => G!Second(s) < G!Second(t)
BY DEF G!Second

LEMMA SessionsFollow == DoorInv => G!SessionsFollowThePassword
<1> SUFFICES ASSUME DoorInv, NEW b \in Staff, cookie[b] # G!SignedOut, ~G!Expired(cookie[b]), login.active
             PROVE  /\ cookie[b].password = login.password => G!SignedIn(b)
                    /\ cookie[b].password # login.password /\ cookie[b].began + 2 <= login.changedAt
                         => ~G!SignedIn(b)
  BY DEF G!SessionsFollowThePassword
<1>1. /\ cookie[b].began \in 0..instant
      /\ cookie[b].password = login.password => login.changedAt <= cookie[b].began
  BY DEF DoorInv, BegunAs
<1>2. cookie[b].began \in Nat
  BY <1>1
<1>3. login.changedAt \in Nat
  <2>1. login.changedAt \in G!Time
    BY DEF DoorInv, G!TypeOK
  <2>. QED BY <2>1, DoorNumbers
<1>4. G!Second(cookie[b].began) \in Int /\ G!Second(login.changedAt) \in Int
  BY <1>2, <1>3 DEF G!Second
<1>5. ASSUME cookie[b].password = login.password PROVE G!SignedIn(b)
  <2>1. G!Second(login.changedAt) <= G!Second(cookie[b].began)
    BY <1>1, <1>2, <1>3, <1>5, SecondsInOrder
  <2>2. ~G!Outlived(cookie[b])
    BY <1>4, <2>1 DEF G!Outlived
  <2>. QED BY <2>2 DEF G!SignedIn
<1>6. ASSUME cookie[b].began + 2 <= login.changedAt PROVE ~G!SignedIn(b)
  <2>1. G!Second(cookie[b].began) < G!Second(login.changedAt)
    BY <1>2, <1>3, <1>6, SecondsInOrder
  <2>. QED BY <2>1 DEF G!SignedIn, G!Outlived
<1>. QED BY <1>5, <1>6

(* A wrong password, counted on a row that stands as it was read, adds to  *)
(* the count and finds no lock to lift.                                    *)
LEMMA WrongPasswordForgetsNothing ==
  ASSUME DoorInv, NEW b \in Staff, G!AttemptFails(b), attempt[b].failed = login.failed,
         attempt[b].lockedUntil = login.lockedUntil
  PROVE  login'.failed >= login.failed /\ ~G!LockedOut
<1> DEFINE a == attempt[b]
<1>1. a.op = "signin" /\ a.failed < MaxFailures /\ login' = G!Failed(a)
  BY DEF G!AttemptFails
<1>2. /\ a.failed \in 0..MaxFailures /\ a.lockedUntil \in G!Time \cup {G!Never} /\ a.at \in G!Time
      /\ a.at <= instant /\ a.lockedUntil <= a.at
  BY <1>1, AttemptFields DEF DoorInv, G!TypeOK, DatesOf
<1>3. a.failed \in Nat /\ a.failed + 1 \in 0..MaxFailures
  <2>1. MaxFailures \in Nat
    BY DoorNumbers
  <2>. QED BY <1>1, <1>2, <2>1
<1>4. login'.failed = a.failed + 1
  BY <1>1 DEF G!Failed, DoorInv, G!TypeOK
<1>5. a.at \in Int /\ a.lockedUntil \in Int
  <2>1. G!Time \subseteq Int /\ G!Never \in Int
    BY DeskAssumption DEF G!Time, G!Never
  <2>. QED BY <1>2, <2>1
<1>6. instant \in Int
  BY DEF DoorInv, G!TypeOK
<1>7. ~(login.lockedUntil > instant)
  BY <1>2, <1>5, <1>6
<1>. QED BY <1>3, <1>4, <1>7 DEF G!LockedOut

LEMMA OvertakenForgets ==
  ASSUME DoorInv, [G!Next]_(G!vars),
         login'.failed < login.failed \/ (G!LockedOut /\ login'.lockedUntil < login.lockedUntil)
  PROVE  \/ login'.password # login.password
         \/ \E b \in Staff : /\ attempt[b].op = "signin" /\ attempt'[b] # attempt[b]
                             /\ \/ attempt[b].right
                                \/ attempt[b].failed # login.failed
                                \/ attempt[b].lockedUntil # login.lockedUntil
<1>n. login.failed \in Int /\ login.lockedUntil \in Int /\ login.password \in Int
  <2>1. /\ login.failed \in 0..MaxFailures /\ login.lockedUntil \in G!Time \cup {G!Never}
        /\ login.password \in G!Passwords
    BY DEF DoorInv, G!TypeOK
  <2>2. G!Time \subseteq Int /\ G!Never \in Int /\ G!Passwords \subseteq Int
    BY DeskAssumption DEF G!Time, G!Never, G!Passwords
  <2>3. login.failed \in Int
    BY <2>1
  <2>4. login.lockedUntil \in Int
    BY <2>1, <2>2
  <2>5. login.password \in Int
    BY <2>1, <2>2
  <2>. QED BY <2>3, <2>4, <2>5
<1>1. ~(login'.failed = login.failed /\ login'.lockedUntil = login.lockedUntil)
  BY <1>n
<1>2. ~G!SetUserActive /\ login' # login
  BY <1>1 DEF G!SetUserActive, DoorInv, G!TypeOK
<1>3. PICK b \in Staff : G!AttemptFails(b) \/ G!AttemptSucceeds(b) \/ G!StorePassword(b)
  BY <1>2 DEF G!Next, G!vars, G!Tick, G!AttemptRead, G!AttemptRefused, G!Enter, G!SignOut,
         G!ChangeRead, G!ResetRead, G!GiveUp
<1>4. CASE G!AttemptFails(b)
  <2>1. attempt[b].op = "signin" /\ attempt'[b] = G!AtRest
    BY <1>4 DEF G!AttemptFails, G!Respond, DoorInv, G!TypeOK
  <2>2. attempt'[b] # attempt[b]
    BY <2>1 DEF G!AtRest
  <2>3. ASSUME attempt[b].failed = login.failed, attempt[b].lockedUntil = login.lockedUntil PROVE FALSE
    <3>1. login'.failed >= login.failed /\ ~G!LockedOut
      BY <1>4, <2>3, WrongPasswordForgetsNothing
    <3>2. login'.failed \in Int
      BY <1>4, <1>n, <2>3 DEF G!AttemptFails, G!Failed, DoorInv, G!TypeOK
    <3>. QED BY <1>n, <3>1, <3>2
  <2>. QED BY <2>1, <2>2, <2>3
<1>5. CASE G!AttemptSucceeds(b)
  <2>1. /\ attempt[b].op = "signin" /\ attempt[b].right
        /\ attempt'[b] = [op |-> "welcome", typed |-> attempt[b].typed]
    BY <1>5 DEF G!AttemptSucceeds, DoorInv, G!TypeOK
  <2>. QED BY <2>1
<1>6. CASE G!StorePassword(b)
  <2>1. login'.password = login.password + 1
    BY <1>6 DEF G!StorePassword, DoorInv, G!TypeOK
  <2>. QED BY <1>n, <2>1
<1>. QED BY <1>3, <1>4, <1>5, <1>6

-----------------------------------------------------------------------------
(* The screens that price a deal.                                          *)

DealsInv == Q!TypeOK /\ Q!DealIsOfTheCar

LEMMA TypedOne ==
  ASSUME Q!TypeOK, NEW f \in Q!Fields, NEW text \in Q!Typed \cup {"blank", "date"},
         typed' = [typed EXCEPT ![f] = text]
  PROVE  typed' \in [Q!Fields -> Q!Typed \cup {"blank", "date"}]
BY DEF Q!TypeOK

LEMMA DealsInvInit == Q!Init => DealsInv
<1> SUFFICES ASSUME Q!Init PROVE DealsInv
  OBVIOUS
<1>1. /\ screen \in {"deal", "contract", "quote"} /\ chosen \in Car \cup {Q!None}
      /\ screen # "quote" => chosen = Q!None
  BY DEF Q!Init
<1>2. dealType = IF screen = "deal" THEN "LEASE_TO_OWN" ELSE "LONG_TERM_RENTAL"
  BY DEF Q!Init
<1>3. dealOwner = "COMPANY_OWNED"
  BY DEF Q!Init
<1>4. typed \in [Q!Fields -> Q!Typed \cup {"blank", "date"}]
  <2>1. PICK budget \in {"blank", "whole"} :
          typed = [f \in Q!Fields |-> CASE f \in {"durationMonths", "buyout"} -> "whole"
                                        [] f = "startDate" -> "date"
                                        [] f = "monthlyRental" -> budget
                                        [] OTHER -> "blank"]
    BY DEF Q!Init
  <2>2. {"blank", "date", "whole"} \subseteq Q!Typed \cup {"blank", "date"}
    BY DEF Q!Typed, Q!Figures
  <2>3. ASSUME NEW f \in Q!Fields
        PROVE  (CASE f \in {"durationMonths", "buyout"} -> "whole"
                  [] f = "startDate" -> "date"
                  [] f = "monthlyRental" -> budget
                  [] OTHER -> "blank") \in {"blank", "date", "whole"}
    <3>1. CASE f \in {"durationMonths", "buyout"}
      BY <3>1
    <3>2. CASE f = "startDate"
      BY <3>2
    <3>3. CASE f = "monthlyRental"
      BY <3>3
    <3>4. CASE f \notin {"durationMonths", "buyout", "startDate", "monthlyRental"}
      BY <3>4
    <3>. QED BY <3>1, <3>2, <3>3, <3>4
  <2>. QED BY <2>1, <2>2, <2>3
<1>5. Q!TypeOK
  BY <1>1, <1>2, <1>3, <1>4 DEF Q!TypeOK, Q!ContractTypes, Q!Ownerships
<1>6. Q!DealIsOfTheCar
  BY <1>1, <1>2, <1>3 DEF Q!DealIsOfTheCar, Q!LeasedIn, Q!EffectiveType
<1>. QED BY <1>5, <1>6 DEF DealsInv

LEMMA DealsInvStep == DealsInv /\ [Q!Next]_(Q!vars) => DealsInv'
<1> SUFFICES ASSUME DealsInv, [Q!Next]_(Q!vars) PROVE DealsInv'
  OBVIOUS
<1>t. /\ screen \in {"deal", "contract", "quote"} /\ chosen \in Car \cup {Q!None}
      /\ dealType \in (IF screen = "deal" THEN {"RENTAL", "LEASE_TO_OWN"} ELSE Q!ContractTypes)
      /\ dealOwner \in Q!Ownerships
      /\ typed \in [Q!Fields -> Q!Typed \cup {"blank", "date"}]
  BY DEF DealsInv, Q!TypeOK
<1>c. /\ \A c \in Car : OwnerOf[c] \in Q!Ownerships /\ FleetCost[c] \in Q!Typed \cup {"blank"}
      /\ Q!None \notin Car /\ "LEASE_TO_OWN" \in Q!ContractTypes
  BY DeskAssumption DEF Q!ContractTypes
<1>d. /\ Q!LeasedIn => Q!EffectiveType = "LEASE_TO_OWN"
      /\ screen = "deal" /\ chosen # Q!None => dealOwner = OwnerOf[chosen]
  BY DEF DealsInv, Q!DealIsOfTheCar
<1>1. CASE UNCHANGED Q!vars
  BY <1>1 DEF Q!vars, DealsInv, Q!TypeOK, Q!DealIsOfTheCar, Q!LeasedIn, Q!EffectiveType
<1>2. ASSUME NEW c \in Car \cup {Q!None}, Q!ChooseVehicle(c) PROVE DealsInv'
  <2>1. screen = "deal" /\ chosen' = c /\ screen' = screen
    BY <1>2 DEF Q!ChooseVehicle
  <2>2. CASE c = Q!None
    <3>1. UNCHANGED <<dealType, dealOwner, typed>>
      BY <1>2, <2>2 DEF Q!ChooseVehicle
    <3>. QED BY <1>t, <1>d, <2>1, <2>2, <3>1
           DEF DealsInv, Q!TypeOK, Q!DealIsOfTheCar, Q!LeasedIn, Q!EffectiveType
  <2>3. CASE c # Q!None
    <3> DEFINE lent == IF OwnerOf[c] = "B2B_SUPPLIER" THEN FleetCost[c] ELSE "blank"
               price == IF OwnerOf[c] # "B2B_SUPPLIER" /\ dealType = "LEASE_TO_OWN"
                        THEN FleetCost[c] ELSE "blank"
    <3>1. /\ dealOwner' = OwnerOf[c]
          /\ dealType' = IF OwnerOf[c] = "B2B_SUPPLIER" THEN "LEASE_TO_OWN" ELSE dealType
          /\ typed' = [typed EXCEPT !.vehicleMonthlyCost = lent, !.vehicleOneOffCost = price]
      BY <1>2, <2>3 DEF Q!ChooseVehicle
    <3>2. lent \in Q!Typed \cup {"blank", "date"} /\ price \in Q!Typed \cup {"blank", "date"}
      BY <1>c, <2>3
    <3> HIDE DEF lent, price
    <3>3. typed' \in [Q!Fields -> Q!Typed \cup {"blank", "date"}]
      BY <1>t, <3>1, <3>2
    <3>4. dealType' \in {"RENTAL", "LEASE_TO_OWN"} /\ dealOwner' \in Q!Ownerships
      BY <1>t, <1>c, <2>1, <2>3, <3>1
    <3>. QED BY <1>t, <2>1, <2>3, <3>1, <3>3, <3>4
           DEF DealsInv, Q!TypeOK, Q!DealIsOfTheCar, Q!LeasedIn, Q!EffectiveType
  <2>. QED BY <2>2, <2>3
<1>3. ASSUME NEW c \in Car \cup {Q!None}, Q!SelectVehicle(c) PROVE DealsInv'
  BY <1>t, <1>3 DEF DealsInv, Q!TypeOK, Q!DealIsOfTheCar, Q!LeasedIn, Q!EffectiveType,
     Q!SelectVehicle
<1>4. ASSUME NEW t \in Q!ContractTypes \cup {"RENTAL"}, Q!ChooseType(t) PROVE DealsInv'
  BY <1>t, <1>d, <1>4 DEF DealsInv, Q!TypeOK, Q!DealIsOfTheCar, Q!LeasedIn, Q!EffectiveType,
     Q!ChooseType
<1>5. ASSUME NEW o \in Q!Ownerships, Q!ChooseOwnership(o) PROVE DealsInv'
  BY <1>t, <1>d, <1>5 DEF DealsInv, Q!TypeOK, Q!DealIsOfTheCar, Q!LeasedIn, Q!EffectiveType,
     Q!ChooseOwnership
<1>6. ASSUME NEW f \in Q!Fields, NEW text \in Texts[f], Q!TypeIn(f, text) PROVE DealsInv'
  <2>1. text \in Q!Typed \cup {"blank", "date"}
    BY DeskAssumption
  <2>2. typed' = [typed EXCEPT ![f] = text] /\ UNCHANGED <<screen, chosen, dealType, dealOwner>>
    BY <1>6 DEF Q!TypeIn
  <2>3. typed' \in [Q!Fields -> Q!Typed \cup {"blank", "date"}]
    BY <2>1, <2>2, TypedOne DEF DealsInv
  <2>. QED BY <1>t, <1>d, <2>2, <2>3 DEF DealsInv, Q!TypeOK, Q!DealIsOfTheCar, Q!LeasedIn,
              Q!EffectiveType
<1>. QED BY <1>1, <1>2, <1>3, <1>4, <1>5, <1>6 DEF Q!Next

LEMMA DealsInvHolds == Q!Spec => []DealsInv
BY DealsInvInit, DealsInvStep, PTL DEF Q!Spec

(* What may be complained of.                                              *)
LEMMA IssuesAre ==
  ASSUME NEW i \in Q!Issues
  PROVE  /\ i.code \in {"duration", "negativeAmount", "rentalOnLeasedCar"}
         /\ i.field \in {"durationMonths", "dealType"} \cup Q!Read
         /\ i.field = "dealType" => dealType = "RENTAL" /\ Q!LeasedIn
<1>1. Q!Issues =
        {[code |-> "duration", field |-> f] :
           f \in {"durationMonths"} \cap {g \in Q!Fields : typed[g] \notin Q!Months}}
        \cup {[code |-> "negativeAmount", field |-> f] : f \in {g \in Q!Read : typed[g] = "negative"}}
        \cup (IF dealType = "RENTAL" /\ Q!LeasedIn
              THEN {[code |-> "rentalOnLeasedCar", field |-> "dealType"]} ELSE {})
  BY DEF Q!Issues
<1>2. Q!Read \subseteq Q!Sums /\ "dealType" \notin Q!Sums
  BY DEF Q!Read, Q!Sums
<1>3. CASE \E f \in {"durationMonths"} : i = [code |-> "duration", field |-> f]
  BY <1>3
<1>4. CASE \E f \in Q!Read : i = [code |-> "negativeAmount", field |-> f]
  BY <1>2, <1>4
<1>5. CASE i = [code |-> "rentalOnLeasedCar", field |-> "dealType"] /\ dealType = "RENTAL" /\ Q!LeasedIn
  BY <1>5
<1>. QED BY <1>1, <1>3, <1>4, <1>5

LEMMA PricedOrNot == DealsInv => Q!PricedOrSaidWhyNot
<1> SUFFICES ASSUME DealsInv PROVE Q!Says # {} /\ ("result" \in Q!Says => Q!Says = {"result"})
  BY DEF Q!PricedOrSaidWhyNot
<1> DEFINE Worded == typed["monthlyRental"] \notin {"negative"} \cup Q!Money
           Codes == {issue.code : issue \in Q!Issues}
<1>1. Q!Says = (IF Q!BadMoney # {} THEN {"money"} ELSE {}) \cup Codes
               \cup (IF Worded THEN {"prompt"} ELSE IF Q!Ready THEN {"result"} ELSE {})
  BY DEF Q!Says
<1>2. Q!Ready <=> typed["monthlyRental"] # "blank" /\ Q!BadMoney = {} /\ Q!Issues = {}
  BY DEF Q!Ready, Q!Complaints
<1>3. Codes \subseteq {"duration", "negativeAmount", "rentalOnLeasedCar"}
  BY IssuesAre
<1>4. Codes = {} <=> Q!Issues = {}
  OBVIOUS
<1>5. ~Worded => typed["monthlyRental"] # "blank"
  BY DEF Q!Money
<1> HIDE DEF Worded, Codes
<1>. QED BY <1>1, <1>2, <1>3, <1>4, <1>5

LEMMA ResultOnScreen == DealsInv => Q!ResultIsOnScreen
<1> SUFFICES ASSUME DealsInv, screen = "deal",
                    NEW f \in Q!Counted \cup Q!Complaints, f \notin Q!OnScreen
             PROVE  f = "vehicleOneOffCost" /\ dealType = "RENTAL"
  BY DEF Q!ResultIsOnScreen
<1>1. /\ dealType \in {"RENTAL", "LEASE_TO_OWN"}
      /\ Q!LeasedIn => dealType = "LEASE_TO_OWN"
  BY DEF DealsInv, Q!TypeOK, Q!DealIsOfTheCar, Q!EffectiveType
<1>2. f \in Q!Read \cup {"durationMonths"}
  <2>1. CASE f \in Q!Counted \cup Q!BadMoney
    BY <2>1 DEF Q!Counted, Q!BadMoney
  <2>2. ASSUME NEW i \in Q!Issues, f = i.field PROVE f \in Q!Read \cup {"durationMonths"}
    BY <1>1, <2>2, IssuesAre
  <2>. QED BY <2>1, <2>2 DEF Q!Complaints
<1>3. Q!OnScreen = (Q!Fields \ {"startDate"})
                     \ (IF dealType = "LEASE_TO_OWN" THEN {} ELSE {"vehicleOneOffCost", "buyout"})
  BY DEF Q!OnScreen
<1>. QED BY <1>1, <1>2, <1>3 DEF Q!Read, Q!Fields, Q!Sums

(* What the two handlers read of a form. *)
LEMMA HandlerReads ==
  ASSUME screen # "deal", screen \in {"deal", "contract", "quote"}
  PROVE  /\ {"durationMonths", "monthlyRental", "downPayment", "annualInsurance", "buyout"}
               \subseteq DOMAIN Q!Handler.reads
         /\ screen = "contract" => "startDate" \in DOMAIN Q!Handler.reads
         /\ screen = "contract" => Q!Handler.reads["startDate"] = Q!Required(Q!Day)
         /\ Q!Handler.reads["durationMonths"] = Q!Required(Q!Months)
         /\ Q!Handler.reads["monthlyRental"] =
              Q!Required(IF screen = "contract" THEN Q!Money ELSE Q!Money \ {"zero"})
         /\ Q!Handler.reads["downPayment"] = Q!Reader(Q!Money, "zero", "refused")
         /\ Q!Handler.reads["annualInsurance"] = Q!Reader(Q!Money, "zero", "refused")
         /\ Q!Handler.reads["buyout"] = IF Q!EffectiveType = "LEASE_TO_OWN"
                                        THEN Q!Reader(Q!Money, "zero", "refused")
                                        ELSE Q!OrElse({}, "zero")
<1>1. CASE screen = "contract"
  BY <1>1 DEF Q!Handler, Q!CreateContract
<1>2. CASE screen = "quote"
  BY <1>2 DEF Q!Handler, Q!SaveQuote
<1>. QED BY <1>1, <1>2

(* An optional sum comes to the same in the preview as where it is kept.   *)
LEMMA ChargedAsKept ==
  ASSUME NEW v, Q!Kept(Q!Reader(Q!Money, "zero", "refused"), v) # "refused"
  PROVE  Q!Charged(Q!Kept(Q!Reader(Q!Money, "zero", "refused"), v)) = Q!Charged(v)
<1>1. Q!Kept(Q!Reader(Q!Money, "zero", "refused"), v) =
        IF v = "blank" THEN "zero" ELSE IF v \in Q!Money THEN v ELSE "refused"
  BY DEF Q!Kept, Q!Reader
<1>2. CASE v = "blank"
  BY <1>1, <1>2 DEF Q!Charged, Q!Money
<1>3. CASE v # "blank"
  BY <1>1, <1>3
<1>. QED BY <1>2, <1>3

(* A required field that is taken is taken as it was typed. *)
LEMMA RequiredAsKept ==
  ASSUME NEW v, NEW takes, Q!Kept(Q!Required(takes), v) # "refused"
  PROVE  Q!Kept(Q!Required(takes), v) = v /\ v \in takes
BY DEF Q!Kept, Q!Required, Q!Reader

LEMMA PreviewWritten == DealsInv => Q!PreviewIsWritten
<1> SUFFICES ASSUME DealsInv, screen # "deal", Q!Accepted PROVE Q!Preview = Q!Written
  BY DEF Q!PreviewIsWritten
<1> DEFINE sold == Q!EffectiveType = "LEASE_TO_OWN"
<1>s. screen \in {"deal", "contract", "quote"}
  BY DEF DealsInv, Q!TypeOK
<1>1. Q!OnScreen = {"durationMonths", "monthlyRental", "downPayment", "annualInsurance"}
                     \cup (IF screen = "contract" THEN {"startDate"} ELSE {})
                     \cup (IF sold THEN {"buyout"} ELSE {})
  BY DEF Q!OnScreen
<1>2. /\ Q!Sent("durationMonths") = typed["durationMonths"]
      /\ Q!Sent("monthlyRental") = typed["monthlyRental"]
      /\ Q!Sent("downPayment") = typed["downPayment"]
      /\ Q!Sent("annualInsurance") = typed["annualInsurance"]
      /\ screen = "contract" => Q!Sent("startDate") = typed["startDate"]
      /\ Q!Sent("buyout") = IF sold THEN typed["buyout"] ELSE "blank"
  BY <1>1 DEF Q!Sent
<1>3. \A f \in {"durationMonths", "monthlyRental", "downPayment", "annualInsurance", "buyout"}
               \cup (IF screen = "contract" THEN {"startDate"} ELSE {}) : Q!Taken(f) # "refused"
  BY <1>s, HandlerReads DEF Q!Accepted, Q!Fields, Q!Sums
<1>4. typed["durationMonths"] \in Q!Months
  <2>1. Q!Taken("durationMonths") = Q!Kept(Q!Required(Q!Months), typed["durationMonths"])
    BY <1>s, <1>2, HandlerReads DEF Q!Taken
  <2>. QED BY <1>3, <2>1, RequiredAsKept
<1>5. /\ Q!Taken("monthlyRental") = typed["monthlyRental"]
      /\ typed["monthlyRental"] \in IF screen = "contract" THEN Q!Money ELSE Q!Money \ {"zero"}
  <2>1. Q!Taken("monthlyRental") =
          Q!Kept(Q!Required(IF screen = "contract" THEN Q!Money
              ELSE Q!Money \ {"zero"}), typed["monthlyRental"])
    BY <1>s, <1>2, HandlerReads DEF Q!Taken
  <2>. QED BY <1>3, <2>1, RequiredAsKept
<1>6. screen = "contract" => typed["startDate"] \in Q!Day
  <2> HAVE screen = "contract"
  <2>1. Q!Taken("startDate") = Q!Kept(Q!Required(Q!Day), typed["startDate"])
    BY <1>s, <1>2, HandlerReads DEF Q!Taken
  <2>. QED BY <1>3, <2>1, RequiredAsKept
<1>7. Q!Previewed
  BY <1>4, <1>5, <1>6 DEF Q!Previewed
<1>8. Q!Charged(Q!Taken("downPayment")) = Q!Charged(typed["downPayment"])
  <2>1. Q!Taken("downPayment") = Q!Kept(Q!Reader(Q!Money, "zero", "refused"), typed["downPayment"])
    BY <1>s, <1>2, HandlerReads DEF Q!Taken
  <2>. QED BY <1>3, <2>1, ChargedAsKept
<1>9. Q!Charged(Q!Taken("annualInsurance")) = Q!Charged(typed["annualInsurance"])
  <2>1. Q!Taken("annualInsurance") = Q!Kept(Q!Reader(Q!Money, "zero", "refused"), typed["annualInsurance"])
    BY <1>s, <1>2, HandlerReads DEF Q!Taken
  <2>. QED BY <1>3, <2>1, ChargedAsKept
<1>10. Q!Charged(Q!Taken("buyout")) = Q!Charged(IF sold THEN typed["buyout"] ELSE "blank")
  <2>1. CASE sold
    <3>1. Q!Taken("buyout") = Q!Kept(Q!Reader(Q!Money, "zero", "refused"), typed["buyout"])
      BY <1>s, <1>2, <2>1, HandlerReads DEF Q!Taken
    <3>. QED BY <1>3, <2>1, <3>1, ChargedAsKept
  <2>2. CASE ~sold
    <3>1. Q!Taken("buyout") = Q!Kept(Q!OrElse({}, "zero"), "blank")
      BY <1>s, <1>2, <2>2, HandlerReads DEF Q!Taken
    <3>2. Q!Taken("buyout") = "zero"
      BY <3>1 DEF Q!Kept, Q!OrElse, Q!Reader
    <3>. QED BY <2>2, <3>2 DEF Q!Charged, Q!Money
  <2>. QED BY <2>1, <2>2
<1>11. Q!Preview = Q!Terms(typed["monthlyRental"], typed["downPayment"], typed["annualInsurance"],
                           IF sold THEN typed["buyout"] ELSE "blank")
  BY <1>7 DEF Q!Preview
<1>. QED BY <1>5, <1>8, <1>9, <1>10, <1>11 DEF Q!Written, Q!Terms

-----------------------------------------------------------------------------
(* The desk.                                                               *)

LEMMA PartStands == DeskSpec => [](part \in Parts)
<1>1. DeskInit => part \in Parts
  BY DEF DeskInit
<1>2. part \in Parts /\ [DeskNext]_desk => (part \in Parts)'
  BY DeskStep
<1>. QED BY <1>1, <1>2, PTL DEF DeskSpec, desk

(* What is recorded of cars' files, cases, leads, audit rows, accounts,    *)
(* sessions and deals keeps its type, whoever works at the desk.           *)
THEOREM DeskTypeCorrect == DeskSpec => []DeskTypeOK
<1>1. K!SumsAreMoney /\ QuotesAreCounted
  BY DeskAssumption DEF K!SumsAreMoney, QuotesAreCounted
<1>2. K!Spec => []K!TypeOK
  BY <1>1, K!TypeCorrect
<1>3. L!Spec => []L!TypeOK
  BY <1>1, LeadsTypeCorrect
<1>4. AuditInv => A!TypeOK
  BY DEF AuditInv
<1>5. AccessInv => U!TypeOK
  BY DEF AccessInv
<1>6. DoorInv => G!TypeOK
  BY DEF DoorInv
<1>7. DealsInv => Q!TypeOK
  BY DEF DealsInv
<1>8. /\ part \in Parts /\ TypeOK /\ K!TypeOK /\ L!TypeOK /\ A!TypeOK /\ U!TypeOK /\ G!TypeOK
      /\ Q!TypeOK
      => DeskTypeOK
  BY DEF DeskTypeOK, Parts
<1>. QED BY <1>2, <1>3, <1>4, <1>5, <1>6, <1>7, <1>8, TypeCorrect, AuditInvHolds, AccessInvHolds,
            DoorInvHolds, DealsInvHolds, DeskIsEach, PartStands, PTL

(* A role edited by one administrator holds what was selected, with no     *)
(* moment of more than both lists; and a session follows the password it   *)
(* was begun with.                                                         *)
THEOREM DeskAccessIsAsSet == DeskSpec => []AccessIsAsSet
<1>1. AccessInv /\ DoorInv => AccessIsAsSet
  BY EditsExact, SessionsFollow DEF AccessIsAsSet
<1>. QED BY <1>1, AccessInvHolds, DoorInvHolds, DeskIsEach, PTL

(* Nobody is left to manage accounts, and a lock or a count of wrong       *)
(* passwords is lost, only by an edit of a role, a change of password, or  *)
(* a request that was overtaken.                                           *)
THEOREM DeskShutsOutOnlyWhenOvertaken == DeskSpec => OnlyOvertakenShutsOut
<1>1. U!Spec => U!OnlyOvertakenLocksOut
  <2>1. AccessInv /\ [U!Next]_(U!vars) =>
          [U!Managers # {} /\ U!Managers' = {} =>
             \/ grants' # grants
             \/ \E u \in Staff \ U!Managers : admins[u].op = "switch" /\ admins'[u] = U!AtRest]_(U!vars)
    BY SomebodyIsLeft
  <2>. QED BY <2>1, AccessInvHolds, PTL DEF U!Spec, U!OnlyOvertakenLocksOut
<1>2. G!Spec => G!OnlyOvertakenForgets
  <2>1. DoorInv /\ [G!Next]_(G!vars) =>
          [login'.failed < login.failed \/ (G!LockedOut /\ login'.lockedUntil < login.lockedUntil) =>
             \/ login'.password # login.password
             \/ \E b \in Staff : /\ attempt[b].op = "signin" /\ attempt'[b] # attempt[b]
                                 /\ \/ attempt[b].right
                                    \/ attempt[b].failed # login.failed
                                    \/ attempt[b].lockedUntil # login.lockedUntil]_(G!vars)
    BY OvertakenForgets
  <2>. QED BY <2>1, DoorInvHolds, PTL DEF G!Spec, G!OnlyOvertakenForgets
<1>. QED BY <1>1, <1>2, DeskIsEach DEF OnlyOvertakenShutsOut

(* Whatever is chosen and typed, in whatever order, of whatever fleet: the *)
(* form that is accepted was previewed as it is written, and the deal      *)
(* calculator prices what is on its screen or says why not.                *)
THEOREM DeskDealsAgree == DeskSpec => []Q!DealsAgree
<1>1. DealsInv => Q!DealsAgree
  BY PreviewWritten, ResultOnScreen, PricedOrNot DEF DealsInv, Q!DealsAgree
<1>. QED BY <1>1, DealsInvHolds, DeskIsEach, PTL

-----------------------------------------------------------------------------
(* Figures: each sheet is one the theorems on figures are about.           *)

LEMMA EntriesAreBooked ==
  ASSUME NEW id, NEW month, NEW amount \in Int, NEW vehicle, NEW contract_,
         NEW category \in {"revenue.rental", "revenue.insurance", "revenue.buyout",
                           "cost.supplier", "cost.other"}
  PROVE  LET e == Entry(id, month, category, amount, vehicle, contract_) IN
         /\ e.amount \in Int
         /\ e.direction \in {"REVENUE", "COST"}
         /\ e.category \in {"revenue.rental", "revenue.insurance"} => e.direction = "REVENUE"
         /\ e.category = "cost.supplier" => e.direction = "COST"
BY DEF Entry

(* A set is finite there as it is here. *)
LEMMA FiniteThere == ASSUME NEW S, IsFiniteSet(S) PROVE T!IsFiniteSet(S)
BY DEF IsFiniteSet, T!IsFiniteSet

LEMMA LedgersAre == ASSUME NEW ledger_ \in Ledgers PROVE T!IsLedger(ledger_)
<1>1. PICK m \in 1..2, n \in 1..2, c \in {"k1", "k2"}, v \in {"v1", "v2", T!Unassigned},
           a \in {"revenue.insurance", "cost.other"}, b \in {"revenue.buyout", "cost.other"} :
        ledger_ = {Entry(1, 1, "revenue.rental", 10, "v1", "k1"),
                   Entry(2, m, a, 3, "v1", c),
                   Entry(3, n, b, 2, v, IF v = "v1" THEN "k2" ELSE T!Unassigned),
                   Entry(4, 2, "cost.supplier", 6, "v2", T!Unassigned)}
  BY DEF Ledgers
<1>. DEFINE e1 == Entry(1, 1, "revenue.rental", 10, "v1", "k1")
            e2 == Entry(2, m, a, 3, "v1", c)
            e3 == Entry(3, n, b, 2, v, IF v = "v1" THEN "k2" ELSE T!Unassigned)
            e4 == Entry(4, 2, "cost.supplier", 6, "v2", T!Unassigned)
            Good(e) == /\ e.amount \in Int
                       /\ e.direction \in {"REVENUE", "COST"}
                       /\ e.category \in {"revenue.rental", "revenue.insurance"} => e.direction = "REVENUE"
                       /\ e.category = "cost.supplier" => e.direction = "COST"
<1>2. Good(e1) /\ Good(e2) /\ Good(e3) /\ Good(e4)
  <2>1. Good(e1)
    BY EntriesAreBooked
  <2>2. Good(e2)
    BY EntriesAreBooked
  <2>3. Good(e3)
    BY EntriesAreBooked
  <2>4. Good(e4)
    BY EntriesAreBooked
  <2>. QED BY <2>1, <2>2, <2>3, <2>4
<1>. HIDE DEF e1, e2, e3, e4
<1>3. ledger_ = {e1, e2, e3, e4}
  BY <1>1 DEF e1, e2, e3, e4
<1>4. IsFiniteSet({e1, e2, e3, e4})
  <2>1. IsFiniteSet({e1} \cup {e2}) /\ IsFiniteSet({e3} \cup {e4})
    BY FS_Singleton, FS_Union
  <2>2. IsFiniteSet(({e1} \cup {e2}) \cup ({e3} \cup {e4}))
    BY <2>1, FS_Union
  <2>3. ({e1} \cup {e2}) \cup ({e3} \cup {e4}) = {e1, e2, e3, e4}
    OBVIOUS
  <2>. QED BY <2>2, <2>3
<1>5. IsFiniteSet(ledger_) /\ \A e \in ledger_ : Good(e)
  <2>. HIDE DEF Good
  <2>. QED BY <1>2, <1>3, <1>4
<1>. QED BY <1>5, FiniteThere DEF T!IsLedger

LEMMA ExpensesAre == ASSUME NEW expense \in Expenses PROVE T!IsExpense(expense, Signed2)
BY DEF Expenses, Signed2, T!IsExpense, T!Unassigned

LEMMA InstalmentsAre ==
  ASSUME NEW i \in Instalments("k1"), NEW j \in Instalments("k2")
  PROVE  T!IsFiniteSet({i, j}) /\ \A k \in {i, j} : T!IsInstalment(k)
<1>1. T!IsInstalment(i) /\ T!IsInstalment(j)
  BY DEF Instalments, T!IsInstalment
<1>2. IsFiniteSet({i} \cup {j}) /\ {i} \cup {j} = {i, j}
  BY FS_Singleton, FS_Union
<1>. QED BY <1>1, <1>2, FiniteThere

(* What a sheet holds, by its kind. *)
LEMMA SheetKinds ==
  ASSUME SheetInit
  PROVE  /\ sheet.of = "split" => sheet \in SplitSheets
         /\ sheet.of = "weights" => sheet \in WeightSheets
         /\ sheet.of = "rounding" => sheet \in RoundingSheets
         /\ sheet.of = "schedule" => sheet \in TermSheets
         /\ sheet.of = "deal" => sheet \in DealSheets
         /\ sheet.of = "miles" => sheet \in MileSheets
         /\ sheet.of = "service" => sheet \in ServiceSheets
         /\ sheet.of = "statement" => sheet \in Statements
         /\ sheet.of = "person" => sheet \in PersonSheets
         /\ sheet.of = "vin" => sheet \in VinSheets
         /\ sheet.of = "ledger" => sheet \in LedgerSheets
         /\ sheet.of = "expense" => sheet \in ExpenseSheets
         /\ sheet.of = "collections" => sheet \in CollectionSheets
         /\ sheet.of = "form" => sheet \in FormSheets
         /\ sheet.of = "page" => sheet \in PageSheets
<1>1. /\ \A s \in SplitSheets : s.of = "split"
      /\ \A s \in WeightSheets : s.of = "weights"
      /\ \A s \in RoundingSheets : s.of = "rounding"
      /\ \A s \in MileSheets : s.of = "miles"
      /\ \A s \in ServiceSheets : s.of = "service"
  BY DEF SplitSheets, WeightSheets, RoundingSheets, MileSheets, ServiceSheets
<1>2. /\ \A s \in TermSheets : s.of = "schedule"
      /\ \A s \in DealSheets : s.of = "deal"
      /\ \A s \in Statements : s.of = "statement"
  BY DEF TermSheets, DealSheets, Statements
<1>3. /\ \A s \in LedgerSheets : s.of = "ledger"
      /\ \A s \in ExpenseSheets : s.of = "expense"
      /\ \A s \in CollectionSheets : s.of = "collections"
  BY DEF LedgerSheets, ExpenseSheets, CollectionSheets
<1>4. /\ \A s \in PersonSheets : s.of = "person"
      /\ \A s \in VinSheets : s.of = "vin"
      /\ \A s \in FormSheets : s.of = "form"
      /\ \A s \in PageSheets : s.of = "page"
  BY DEF PersonSheets, VinSheets, FormSheets, PageSheets
<1>. QED BY <1>1, <1>2, <1>3, <1>4 DEF SheetInit

(* Every report, list and total read out of the books tells the same story *)
(* as the others: the ledger by any dimension, where an expense lands, and *)
(* what is overdue.                                                        *)
THEOREM DeskReportsAgree == DeskSpec => []ReportsAgree
<1>1. DeskInit => ReportsAgree
  <2>. SUFFICES ASSUME DeskInit PROVE ReportsAgree
    OBVIOUS
  <2>1. CASE sheet = NoSheet
    BY <2>1 DEF NoSheet, ReportsAgree
  <2>2. CASE SheetInit
    <3>1. CASE sheet.of = "ledger"
      <4>1. sheet.ledger \in Ledgers
        BY <2>2, <3>1, SheetKinds DEF LedgerSheets
      <4>. QED BY <3>1, <4>1, LedgersAre, T!LedgerAddsUp DEF ReportsAgree
    <3>2. CASE sheet.of = "expense"
      <4>1. sheet.expense \in Expenses
        BY <2>2, <3>2, SheetKinds DEF ExpenseSheets
      <4>. QED BY <3>2, <4>1, ExpensesAre, T!ExpensesLand DEF ReportsAgree
    <3>3. CASE sheet.of = "collections"
      <4>1. PICK i \in Instalments("k1"), j \in Instalments("k2") : sheet.items = {i, j}
        BY <2>2, <3>3, SheetKinds DEF CollectionSheets
      <4>2. T!IsFiniteSet(sheet.items) /\ (\A k \in sheet.items : T!IsInstalment(k)) /\ Today \in Int
        BY <4>1, InstalmentsAre DEF Today
      <4>3. T!CollectionsAgree(sheet.items, Today, sheet.live)
        BY <4>2, T!CollectionsMeet
      <4>. QED BY <3>3, <4>3 DEF ReportsAgree
    <3>. QED BY <3>1, <3>2, <3>3 DEF ReportsAgree
  <2>. QED BY <2>1, <2>2 DEF DeskInit
<1>2. ReportsAgree /\ [DeskNext]_desk => ReportsAgree'
  <2>. SUFFICES ASSUME ReportsAgree, [DeskNext]_desk PROVE ReportsAgree'
    OBVIOUS
  <2>1. sheet' = sheet
    BY DeskStep
  <2>. QED BY <2>1 DEF ReportsAgree
<1>. QED BY <1>1, <1>2, PTL DEF DeskSpec, desk

LEMMA DatesAre ==
  /\ \A d \in Starts : d \in T!Date
  /\ \A d \in Days : d \in T!Date /\ d[1] = 2024
<1>1. /\ T!DaysInMonth(2023, 1) = 31 /\ T!DaysInMonth(2024, 1) = 31 /\ T!DaysInMonth(2023, 11) = 30
      /\ T!DaysInMonth(2024, 3) = 31 /\ T!DaysInMonth(2024, 2) = 29
  BY DEF T!DaysInMonth
<1>2. /\ <<2023, 1, 31>> \in T!Date /\ <<2024, 2, 29>> \in T!Date /\ <<2023, 11, 30>> \in T!Date
      /\ <<2024, 3, 1>> \in T!Date /\ <<2024, 1, 31>> \in T!Date
  BY <1>1 DEF T!Date
<1>. QED BY <1>2 DEF Starts, Days

LEMMA TermsAre == ASSUME NEW s \in TermSheets PROVE s \in T!Sheets
<1>1. {1, 11, 12, 13, 25} \subseteq Nat \ {0}
  OBVIOUS
<1>2. Starts \subseteq T!Date
  BY DatesAre
<1>. QED BY <1>1, <1>2 DEF TermSheets, T!Sheets

LEMMA DealsAre == ASSUME NEW s \in DealSheets PROVE s \in T!Deals
BY DEF DealSheets, T!Deals

LEMMA WeightsAre ==
  ASSUME NEW s \in WeightSheets
  PROVE  s.total \in Int /\ T!IsWeighting(s.ratios)
<1>. DEFINE ratios == s.ratios
            none == [i \in 1..3 |-> 0]
<1>1. s.total \in Int /\ ratios \in [1..3 -> {0, 1, 3}] /\ ratios # none
  BY DEF WeightSheets
<1>. HIDE DEF ratios
<1>2. \E i \in 1..3 : ratios[i] # 0
  BY <1>1
<1>3. DOMAIN ratios = 1..3 /\ (\A i \in 1..3 : ratios[i] \in Nat) /\ \E i \in 1..3 : ratios[i] > 0
  BY <1>1, <1>2
<1>4. \E N \in Nat : DOMAIN ratios = 1..N
  BY <1>3
<1>. QED BY <1>1, <1>3, <1>4 DEF T!IsWeighting, ratios

LEMMA BooksAre ==
  ASSUME NEW s \in Statements
  PROVE  T!IsBook(s) /\ s.from \in T!Date /\ s.to \in T!Date /\ s.to[1] >= 0
<1>1. PICK w \in BOOLEAN, d \in Days, e \in Days, a \in {4, 10}, f \in Days, t \in Days :
        s = [of |-> "statement", invoices |-> {Invoice(w, d), Second},
             payments |-> {[id |-> 1, receivedOn |-> d, amount |-> a],
                           [id |-> 2, receivedOn |-> e, amount |-> 3]},
             from |-> f, to |-> t]
  BY DEF Statements
<1>. DEFINE p == [id |-> 1, receivedOn |-> d, amount |-> a]
            q == [id |-> 2, receivedOn |-> e, amount |-> 3]
            i == Invoice(w, d)
            j == Second
<1>2. d \in T!Date /\ e \in T!Date /\ f \in T!Date /\ t \in T!Date /\ t[1] = 2024
  BY DatesAre
<1>3. T!IsPayment(p) /\ T!IsPayment(q)
  BY <1>2 DEF T!IsPayment
<1>4. <<2024, 1, 31>> \in T!Date /\ <<2024, 2, 29>> \in T!Date /\ <<2024, 3, 1>> \in T!Date
  BY DatesAre DEF Days
<1>5. T!IsInvoice(i) /\ T!IsInvoice(j)
  BY <1>2, <1>4 DEF T!IsInvoice, Invoice, Second
<1>6. s.invoices = {i, j} /\ s.payments = {p, q} /\ s.from = f /\ s.to = t
  BY <1>1
<1>. HIDE DEF i, j, p, q
<1>7. \A x, y : T!IsFiniteSet({x, y})
  <2>. TAKE x, y
  <2>1. IsFiniteSet({x} \cup {y}) /\ {x} \cup {y} = {x, y}
    BY FS_Singleton, FS_Union
  <2>. QED BY <2>1, FiniteThere
<1>8. T!IsBook(s)
  <2>1. (\A x \in {i, j} : T!IsInvoice(x)) /\ \A x \in {p, q} : T!IsPayment(x)
    BY <1>3, <1>5
  <2>2. T!IsFiniteSet(s.invoices) /\ T!IsFiniteSet(s.payments)
    <3>1. T!IsFiniteSet({i, j}) /\ T!IsFiniteSet({p, q})
      BY ONLY <1>7
    <3>2. s.invoices = {i, j} /\ s.payments = {p, q}
      BY <1>6
    <3>. QED BY <3>1, <3>2
  <2>3. (\A x \in s.invoices : T!IsInvoice(x)) /\ \A x \in s.payments : T!IsPayment(x)
    BY <1>6, <2>1, Zenon
  <2>. QED BY <2>2, <2>3, Zenon DEF T!IsBook
<1>. QED BY <1>2, <1>6, <1>8

LEMMA VinsAre == ASSUME NEW v \in Vins PROVE v \in [1..17 -> T!Digit \cup T!VinLetters]
<1>1. PICK n \in {1, 7, 9}, letter \in {1, 10, 20, 25, 35} :
        v = [i \in 1..17 |-> IF i = 9 THEN 0 ELSE IF i > 11 THEN (i * n) % 10 ELSE letter]
  BY DEF Vins
<1>2. 0 \in T!Digit \cup T!VinLetters /\ letter \in T!Digit \cup T!VinLetters
  BY DEF T!Digit, T!VinLetters
<1>3. \A i \in 1..17 : (i * n) % 10 \in T!Digit
  <2>1. n = 1 \/ n = 7 \/ n = 9
    OBVIOUS
  <2>2. \A x \in Int : x % 10 \in T!Digit
    BY DEF T!Digit
  <2>3. \A i \in 1..17 : i * n \in Int
    BY <2>1
  <2>. QED BY <2>2, <2>3
<1>4. \A i \in 1..17 :
        (IF i = 9 THEN 0 ELSE IF i > 11 THEN (i * n) % 10 ELSE letter) \in T!Digit \cup T!VinLetters
  BY <1>2, <1>3
<1>. QED BY <1>1, <1>4

(* Every kind of sheet, by the theorem on it. *)
LEMMA SheetsAreExact ==
  ASSUME SheetInit
  PROVE  FiguresAreExact
<1>1. CASE sheet.of = "split"
  <2>1. sheet.total \in Int /\ sheet.parts \in Nat \ {0}
    BY <1>1, SheetKinds DEF SplitSheets
  <2>2. T!SplitIsExact(sheet.total, sheet.parts)
    BY <2>1, T!SplitExact
  <2>. QED BY <1>1, <2>2 DEF FiguresAreExact
<1>2. CASE sheet.of = "weights"
  <2>1. sheet.total \in Int /\ T!IsWeighting(sheet.ratios)
    BY <1>2, SheetKinds, WeightsAre
  <2>2. T!WeightsAreExact(sheet.total, sheet.ratios)
    BY <2>1, T!WeightsExact
  <2>. QED BY <1>2, <2>2 DEF FiguresAreExact
<1>3. CASE sheet.of = "rounding"
  <2>1. sheet.n \in Int /\ sheet.d \in Nat \ {0}
    BY <1>3, SheetKinds DEF RoundingSheets
  <2>2. T!RoundingIsFair(sheet.n, sheet.d)
    BY <2>1, T!RoundingFair
  <2>. QED BY <1>3, <2>2 DEF FiguresAreExact
<1>4. CASE sheet.of = "schedule"
  <2>1. T!ScheduleIsTheDeal(sheet)
    BY <1>4, SheetKinds, TermsAre, T!ScheduleIsDeal
  <2>. QED BY <1>4, <2>1 DEF FiguresAreExact
<1>5. CASE sheet.of = "deal"
  <2>1. T!DealAddsUp(sheet)
    BY <1>5, SheetKinds, DealsAre, T!DealSums
  <2>. QED BY <1>5, <2>1 DEF FiguresAreExact
<1>6. CASE sheet.of = "miles"
  <2>1. /\ sheet.out \in Int /\ sheet.back \in Int /\ sheet.rate \in Int
        /\ sheet.allowance \in Nat \cup {T!NoLimit}
    BY <1>6, SheetKinds DEF MileSheets
  <2>2. T!MilesAreFair(sheet.out, sheet.back, sheet.allowance, sheet.rate)
    BY <2>1, T!MilesFair
  <2>. QED BY <1>6, <2>2 DEF FiguresAreExact
<1>7. CASE sheet.of = "service"
  <2>1. /\ sheet.markers \in [day : {T!NoLimit, 20}, km : {T!NoLimit, 1000}]
        /\ sheet.today \in Int /\ sheet.odometer \in Int
    BY <1>7, SheetKinds DEF ServiceSheets
  <2>2. sheet.markers \in [day : Nat \cup {T!NoLimit}, km : Nat \cup {T!NoLimit}]
    BY <2>1
  <2>3. T!ServiceIsForetold(sheet.markers, sheet.today, sheet.odometer)
    BY <2>1, <2>2, T!ServiceForetold
  <2>. QED BY <1>7, <2>3 DEF FiguresAreExact
<1>8. CASE sheet.of = "statement"
  <2>1. T!IsBook(sheet) /\ sheet.from \in T!Date /\ sheet.to \in T!Date /\ sheet.to[1] >= 0
    BY <1>8, SheetKinds, BooksAre
  <2>2. T!StatementCloses(sheet, sheet.from, sheet.to)
    BY <2>1, T!StatementsClose
  <2>. QED BY <1>8, <2>2 DEF FiguresAreExact
<1>9. CASE sheet.of = "person"
  <2>1. sheet.index \in Nat /\ sheet.year \in Nat
    BY <1>9, SheetKinds DEF PersonSheets
  <2>2. /\ T!EmiratesIdCatchesSlips(sheet.index, sheet.year)
        /\ T!IbanCatchesSlips(sheet.index) /\ T!MobileIsOne(sheet.index)
    BY <2>1, T!EmiratesIdCatches, T!IbanCatches, T!MobileStored
  <2>. QED BY <1>9, <2>2 DEF FiguresAreExact
<1>10. CASE sheet.of = "vin"
  <2>1. sheet.vin \in [1..17 -> T!Digit \cup T!VinLetters]
    BY <1>10, SheetKinds, VinsAre DEF VinSheets
  <2>2. T!VinCatchesSlips(sheet.vin)
    BY <2>1, T!VinCatches
  <2>. QED BY <1>10, <2>2 DEF FiguresAreExact
<1>. QED BY <1>1, <1>2, <1>3, <1>4, <1>5, <1>6, <1>7, <1>8, <1>9, <1>10 DEF FiguresAreExact

(* Every figure the system works out is exact, and every slip in an       *)
(* identifier that its check can see is caught: see Terms and Identifiers. *)
THEOREM DeskFiguresExact == DeskSpec => []FiguresAreExact
<1>1. DeskInit => FiguresAreExact
  <2>. SUFFICES ASSUME DeskInit PROVE FiguresAreExact
    OBVIOUS
  <2>1. CASE sheet = NoSheet
    BY <2>1 DEF NoSheet, FiguresAreExact
  <2>2. CASE SheetInit
    BY <2>2, SheetsAreExact
  <2>. QED BY <2>1, <2>2 DEF DeskInit
<1>2. FiguresAreExact /\ [DeskNext]_desk => FiguresAreExact'
  <2>. SUFFICES ASSUME FiguresAreExact, [DeskNext]_desk PROVE FiguresAreExact'
    OBVIOUS
  <2>1. sheet' = sheet
    BY DeskStep
  <2>. QED BY <2>1 DEF FiguresAreExact
<1>. QED BY <1>1, <1>2, PTL DEF DeskSpec, desk

-----------------------------------------------------------------------------
(* Pages (P, of Pages).  A control that is shown asks for no more than its *)
(* viewer may do; those withheld or refused all the same are counted card  *)
(* by card.                                                                *)

LEMMA DocumentsAsk ==
  ASSUME NEW can, NEW c \in P!DocumentsCard(can)
  PROVE  \/ c = "upload" /\ "document.upload" \in can
         \/ c = "removeFile" /\ "document.delete" \in can
BY DEF P!DocumentsCard, P!If

LEMMA ContractsAsk ==
  ASSUME NEW can, NEW k, NEW c \in P!ContractShows(can, k)
  PROVE  P!ContractAsks[c] \subseteq can
<1>1. CASE c \in P!DocumentsCard(can)
  BY <1>1, DocumentsAsk DEF P!ContractAsks, P!UploadDocument, P!DeleteDocument, P!Button
<1>2. CASE c \in P!SummaryShows(can, k)
  BY <1>2 DEF P!SummaryShows, P!If, P!ContractAsks, P!ActivateContract, P!Button
<1>3. CASE c \in P!InstallmentsShow(can, k)
  BY <1>3 DEF P!InstallmentsShow, P!If, P!ContractAsks, P!WaiveInstallment
<1>4. CASE c \in P!PaymentsShow(can, k)
  BY <1>4 DEF P!PaymentsShow, P!If, P!ContractAsks, P!RecordPayment
<1>5. CASE c \in P!SettlementShows(can, k)
  <2>1. "contract.cancel" \in can /\ c \in {"addLine", "removeLine", "settle", "openSettlement", "terminate"}
    BY <1>5 DEF P!SettlementShows, P!If
  <2>. QED BY <2>1 DEF P!ContractAsks, P!AddSettlementLine, P!RemoveSettlementLine,
         P!SettleSettlement, P!OpenSettlement, P!TerminateContract, P!Button
<1>6. CASE c \in P!PayablesShow(can, k)
  BY <1>6 DEF P!PayablesShow, P!If, P!ContractAsks, P!RecordSupplierPayment
<1>. QED BY <1>1, <1>2, <1>3, <1>4, <1>5, <1>6 DEF P!ContractShows

LEMMA HandoversAsk ==
  ASSUME NEW can, NEW h, NEW c \in P!HandoverShows(can, h)
  PROVE  P!HandoverAsks[c] \subseteq can
<1>1. CASE c \in P!DocumentsCard(can)
  BY <1>1, DocumentsAsk DEF P!HandoverAsks, P!UploadDocument, P!DeleteDocument, P!Button
<1>2. CASE c \notin P!DocumentsCard(can)
  <2>1. /\ "handover.manage" \in can
        /\ c \in {"handOver", "takeBack", "mark", "unmark", "sign", "discard"}
    BY <1>2 DEF P!HandoverShows, P!If
  <2>. QED BY <2>1 DEF P!HandoverAsks, P!RecordHandover, P!AddDamagePoint, P!RemoveDamagePoint,
         P!SignHandover, P!DiscardHandover, P!Button
<1>. QED BY <1>1, <1>2

LEMMA VehiclesAsk ==
  ASSUME NEW can, NEW v, NEW c \in P!VehicleShows(can, v)
  PROVE  P!VehicleAsks[c] \subseteq can
<1>1. CASE c \in P!DocumentsCard(can)
  BY <1>1, DocumentsAsk DEF P!VehicleAsks, P!UploadDocument, P!DeleteDocument, P!Button
<1>2. CASE c \in P!StatusCard(can, v) \cup P!MileageCard(can, v)
  BY <1>2 DEF P!StatusCard, P!MileageCard, P!If, P!VehicleAsks, P!ChangeVehicleStatus,
     P!RecordMileage
<1>3. CASE c \in P!MaintenanceCard(can) \cup P!FinesCard(can)
  <2>1. \/ c = "service" /\ "maintenance.manage" \in can
        \/ c = "fine" /\ "fine.manage" \in can
    BY <1>3 DEF P!MaintenanceCard, P!FinesCard, P!If
  <2>. QED BY <2>1 DEF P!VehicleAsks, P!RecordMaintenance, P!RecordFine
<1>4. CASE c \in P!AccidentsCard(can, v)
  <2>1. "accident.manage" \in can /\ c \in {"accident", "repair", "claim"}
    BY <1>4 DEF P!AccidentsCard, P!If
  <2>. QED BY <2>1 DEF P!VehicleAsks, P!RecordAccident, P!RecordRepair, P!LodgeClaim
<1>5. CASE c \in P!InsuranceCard(can, v)
  <2>1. "insurance.manage" \in can /\ c \in {"insure", "cancelCover"}
    BY <1>5 DEF P!InsuranceCard, P!If
  <2>. QED BY <2>1 DEF P!VehicleAsks, P!AddPolicy, P!CancelPolicy
<1>6. CASE c \in P!DetailsCard(can)
  BY <1>6 DEF P!DetailsCard, P!If, P!VehicleAsks, P!UpdateVehicle, P!DeleteVehicle, P!Button
<1>. QED BY <1>1, <1>2, <1>3, <1>4, <1>5, <1>6 DEF P!VehicleShows

LEMMA LeadsAsk ==
  ASSUME NEW can, NEW l, NEW c \in P!LeadShows(can, l)
  PROVE  P!LeadAsks[c] \subseteq can
<1>1. \/ c \in {"move", "edit"} /\ "lead.update" \in can
      \/ c = "convert" /\ {"lead.convert", "contract.create"} \subseteq can
      \/ c = "quote" /\ {"lead.update", "deal.calculate"} \subseteq can
  BY DEF P!LeadShows, P!PipelineShows, P!ConvertShows, P!QuotesShow, P!If
<1>. QED BY <1>1 DEF P!LeadAsks, P!UpdateLead, P!ChangeLeadStatus, P!SaveQuote, P!ConvertLead

LEMMA OfficeAsk ==
  ASSUME NEW can, NEW o, NEW c \in P!OfficeShows(can, o)
  PROVE  P!OfficeAsks[c] \subseteq can
<1>1. CASE c \in P!DocumentsCard(can)
  BY <1>1, DocumentsAsk DEF P!OfficeAsks, P!UploadDocument, P!DeleteDocument, P!Button
<1>2. CASE c \in P!CustomersShow(can) \cup P!CustomerShows(can) /\ c \notin P!DocumentsCard(can)
  <2>1. \/ c = "newCustomer" /\ "customer.create" \in can
        \/ c \in {"editCustomer", "customerStatus"} /\ "customer.update" \in can
        \/ c = "deleteCustomer" /\ "customer.delete" \in can
    BY <1>2 DEF P!CustomersShow, P!CustomerShows, P!If
  <2>. QED BY <2>1 DEF P!OfficeAsks, P!CreateCustomer, P!UpdateCustomer, P!SetPartyStatus,
         P!DeleteParty, P!Button
<1>3. CASE c \in P!SuppliersShow(can) \cup P!SupplierShows(can) /\ c \notin P!DocumentsCard(can)
  <2>1. \/ c = "newSupplier" /\ "supplier.create" \in can
        \/ c \in {"editSupplier", "supplierStatus"} /\ "supplier.update" \in can
        \/ c = "deleteSupplier" /\ "supplier.delete" \in can
    BY <1>3 DEF P!SuppliersShow, P!SupplierShows, P!If
  <2>. QED BY <2>1 DEF P!OfficeAsks, P!CreateSupplier, P!UpdateSupplier, P!SetPartyStatus,
         P!DeleteParty, P!Button
<1>4. CASE c \in P!ExpensesShow(can) \cup P!UsersShow(can, o) \cup P!RoleShows(can)
  <2>1. \/ c = "expense" /\ "expense.manage" \in can
        \/ c \in {"newUser", "switchUser", "resetPassword"} /\ "user.manage" \in can
        \/ c = "editRole" /\ "role.manage" \in can
    BY <1>4 DEF P!ExpensesShow, P!UsersShow, P!RoleShows, P!If
  <2>. QED BY <2>1 DEF P!OfficeAsks, P!RecordExpense, P!CreateUser, P!SetUserActive,
         P!ResetUserPassword, P!UpdateRolePermissions, P!Button
<1>5. CASE c \in P!DocumentTypesShow(can) \cup P!DocumentTypeShows(can, o)
  <2>1. c \in {"newType", "editType", "deleteType"} /\ "settings.manage" \in can
    BY <1>5 DEF P!DocumentTypesShow, P!DocumentTypeShows, P!If
  <2>. QED BY <2>1 DEF P!OfficeAsks, P!CreateDocumentCategory, P!UpdateDocumentCategory,
         P!DeleteDocumentCategory, P!Button
<1>. QED BY <1>1, <1>2, <1>3, <1>4, <1>5 DEF P!OfficeShows

LEMMA MenuLeads ==
  ASSUME NEW can, NEW page \in DOMAIN P!Menu, P!Menu[page] \in can, page # "funnel"
  PROVE  P!Doors[page] \subseteq can
<1>. DEFINE pages == {"dashboard", "leads", "deals", "contracts", "customers", "suppliers", "vehicles",
                      "expenses", "profitability", "users", "roles", "documentTypes", "audit"}
<1>1. page \in pages
  BY DEF P!Menu
<1>2. \A p \in pages : P!Doors[p] = {P!Menu[p]}
  BY DEF P!Doors, P!Menu
<1>. QED BY <1>1, <1>2

(* A control that is shown, of a record its handler refuses all the same.  *)
LEMMA ContractRefusals ==
  ASSUME NEW can, NEW k, NEW c \in P!ContractShows(can, k)
  PROVE  c \in P!ContractTakes(k) \cup {"activate", "terminate"}
BY DEF P!ContractShows, P!SummaryShows, P!InstallmentsShow, P!PaymentsShow, P!SettlementShows,
   P!PayablesShow, P!DocumentsCard, P!ContractTakes, P!If

LEMMA HandoverRefusals ==
  ASSUME NEW can, NEW h, NEW c \in P!HandoverShows(can, h)
  PROVE  c \in P!HandoverTakes(h) \cup {"handOver", "takeBack"}
BY DEF P!HandoverShows, P!DocumentsCard, P!HandoverTakes, P!If

(* A card with a move the machine makes has one that is made by hand.      *)
LEMMA MovesByHand ==
  ASSUME NEW v \in P!VehicleRecords, P!VehicleMoves[v.status] # {}
  PROVE  P!CarOffers(v.status, v.owner) # {}
BY DEF P!VehicleRecords, P!VehicleStatuses, P!Ownerships, P!VehicleMoves, P!CarOffers,
   P!OwnershipAllows, P!ContractManagedStatuses

LEMMA VehicleRefusals ==
  ASSUME NEW can, NEW v \in P!VehicleRecords, NEW c \in P!VehicleShows(can, v)
  PROVE  c \in P!VehicleTakes(v) \cup {"delete"}
BY MovesByHand DEF P!VehicleShows, P!StatusCard, P!MileageCard, P!MaintenanceCard, P!FinesCard,
   P!AccidentsCard, P!InsuranceCard, P!DetailsCard, P!DocumentsCard, P!VehicleTakes, P!If

LEMMA LeadRefusals ==
  ASSUME NEW can, NEW l, NEW c \in P!LeadShows(can, l)
  PROVE  c \in P!LeadTakes(l)
BY DEF P!LeadShows, P!PipelineShows, P!ConvertShows, P!QuotesShow, P!LeadTakes, P!If

LEMMA OfficeRefusals ==
  ASSUME NEW can, NEW o, NEW c \in P!OfficeShows(can, o)
  PROVE  c \in P!OfficeTakes(o) \cup {"deleteType"}
BY DEF P!OfficeShows, P!CustomersShow, P!CustomerShows, P!SuppliersShow, P!SupplierShows,
   P!ExpensesShow, P!UsersShow, P!RoleShows, P!DocumentTypesShow, P!DocumentTypeShows,
   P!DocumentsCard, P!OfficeTakes, P!OfficeAsks, P!If

LEMMA ForbiddenAre ==
  /\ P!Forbidden(P!ContractRecords, P!ContractShows, P!ContractAsks) = {}
  /\ P!Forbidden(P!HandoverRecords, P!HandoverShows, P!HandoverAsks) = {}
  /\ P!Forbidden(P!VehicleRecords, P!VehicleShows, P!VehicleAsks) = {}
  /\ P!Forbidden(P!LeadRecords, P!LeadShows, P!LeadAsks) = {}
  /\ P!Forbidden(P!OfficeRecords, P!OfficeShows, P!OfficeAsks) = {}
BY ContractsAsk, HandoversAsk, VehiclesAsk, LeadsAsk, OfficeAsk DEF P!Forbidden

LEMMA RefusedWithin ==
  /\ P!Refused(P!ContractRecords, P!ContractShows, P!ContractTakes) \subseteq {"activate", "terminate"}
  /\ P!Refused(P!HandoverRecords, P!HandoverShows, P!HandoverTakes) \subseteq {"handOver", "takeBack"}
  /\ P!Refused(P!VehicleRecords, P!VehicleShows, P!VehicleTakes) \subseteq {"delete"}
  /\ P!Refused(P!LeadRecords, P!LeadShows, P!LeadTakes) = {}
  /\ P!Refused(P!OfficeRecords, P!OfficeShows, P!OfficeTakes) \subseteq {"deleteType"}
BY ContractRefusals, HandoverRefusals, VehicleRefusals, LeadRefusals, OfficeRefusals DEF P!Refused

(* What the seeded roles have in common. *)
LEMMA RolesAre ==
  ASSUME NEW can \in P!RoleHolders
  PROVE  /\ "document.view" \in can
         /\ "supplier_invoice.manage" \in can => "supplier_invoice.view" \in can
         /\ "handover.manage" \in can => "handover.view" \in can
         /\ "maintenance.manage" \in can => "maintenance.view" \in can
         /\ "fine.manage" \in can => "fine.view" \in can
         /\ "accident.manage" \in can => "accident.view" \in can
         /\ "insurance.manage" \in can => "insurance.view" \in can
BY DEF P!RoleHolders, P!Roles, P!Catalogue, P!AdminPermissions, P!AccessPermissions, P!NeverAsked,
   P!SalesPermissions, P!FinancePermissions, P!OperationsPermissions

LEMMA Everything ==
  P!Catalogue \in P!RoleHolders
BY DEF P!RoleHolders, P!Roles

LEMMA RefusedAre ==
  ASSUME NEW can \in P!RoleHolders
  PROVE  /\ \A x \in P!ContractRecords :
              P!ContractShows(can, x) \ P!ContractTakes(x)
                \subseteq P!Refused(P!ContractRecords, P!ContractShows, P!ContractTakes)
         /\ \A x \in P!HandoverRecords :
              P!HandoverShows(can, x) \ P!HandoverTakes(x)
                \subseteq P!Refused(P!HandoverRecords, P!HandoverShows, P!HandoverTakes)
         /\ \A x \in P!VehicleRecords :
              P!VehicleShows(can, x) \ P!VehicleTakes(x)
                \subseteq P!Refused(P!VehicleRecords, P!VehicleShows, P!VehicleTakes)
         /\ \A x \in P!OfficeRecords :
              P!OfficeShows(can, x) \ P!OfficeTakes(x)
                \subseteq P!Refused(P!OfficeRecords, P!OfficeShows, P!OfficeTakes)
<1>1. ASSUME NEW x \in P!ContractRecords
      PROVE  P!ContractShows(can, x) \ P!ContractTakes(x)
               \subseteq P!Refused(P!ContractRecords, P!ContractShows, P!ContractTakes)
  <2>. DEFINE of(v, y) == P!ContractShows(v, y) \ P!ContractTakes(y)
              all == {of(v, y) : v \in P!RoleHolders, y \in P!ContractRecords}
  <2>1. P!Refused(P!ContractRecords, P!ContractShows, P!ContractTakes) = UNION all
    BY SMTT(60) DEF P!Refused
  <2>2. of(can, x) \in all
    <3>. HIDE DEF of
    <3>. QED OBVIOUS
  <2>3. of(can, x) \subseteq UNION all
    <3>. HIDE DEF all, of
    <3>. QED BY <2>2
  <2>. HIDE DEF all
  <2>. QED BY <2>1, <2>3
<1>2. ASSUME NEW x \in P!HandoverRecords
      PROVE  P!HandoverShows(can, x) \ P!HandoverTakes(x)
               \subseteq P!Refused(P!HandoverRecords, P!HandoverShows, P!HandoverTakes)
  <2>. DEFINE of(v, y) == P!HandoverShows(v, y) \ P!HandoverTakes(y)
              all == {of(v, y) : v \in P!RoleHolders, y \in P!HandoverRecords}
  <2>1. P!Refused(P!HandoverRecords, P!HandoverShows, P!HandoverTakes) = UNION all
    BY SMTT(60) DEF P!Refused
  <2>2. of(can, x) \in all
    <3>. HIDE DEF of
    <3>. QED OBVIOUS
  <2>3. of(can, x) \subseteq UNION all
    <3>. HIDE DEF all, of
    <3>. QED BY <2>2
  <2>. HIDE DEF all
  <2>. QED BY <2>1, <2>3
<1>3. ASSUME NEW x \in P!VehicleRecords
      PROVE  P!VehicleShows(can, x) \ P!VehicleTakes(x)
               \subseteq P!Refused(P!VehicleRecords, P!VehicleShows, P!VehicleTakes)
  <2>. DEFINE of(v, y) == P!VehicleShows(v, y) \ P!VehicleTakes(y)
              all == {of(v, y) : v \in P!RoleHolders, y \in P!VehicleRecords}
  <2>1. P!Refused(P!VehicleRecords, P!VehicleShows, P!VehicleTakes) = UNION all
    BY SMTT(60) DEF P!Refused
  <2>2. of(can, x) \in all
    <3>. HIDE DEF of
    <3>. QED OBVIOUS
  <2>3. of(can, x) \subseteq UNION all
    <3>. HIDE DEF all, of
    <3>. QED BY <2>2
  <2>. HIDE DEF all
  <2>. QED BY <2>1, <2>3
<1>4. ASSUME NEW x \in P!OfficeRecords
      PROVE  P!OfficeShows(can, x) \ P!OfficeTakes(x)
               \subseteq P!Refused(P!OfficeRecords, P!OfficeShows, P!OfficeTakes)
  <2>. DEFINE of(v, y) == P!OfficeShows(v, y) \ P!OfficeTakes(y)
              all == {of(v, y) : v \in P!RoleHolders, y \in P!OfficeRecords}
  <2>1. P!Refused(P!OfficeRecords, P!OfficeShows, P!OfficeTakes) = UNION all
    BY SMTT(60) DEF P!Refused
  <2>2. of(can, x) \in all
    <3>. HIDE DEF of
    <3>. QED OBVIOUS
  <2>3. of(can, x) \subseteq UNION all
    <3>. HIDE DEF all, of
    <3>. QED BY <2>2
  <2>. HIDE DEF all
  <2>. QED BY <2>1, <2>3
<1>. QED BY <1>1, <1>2, <1>3, <1>4

LEMMA WithheldAre ==
  ASSUME NEW can \in P!RoleHolders
  PROVE  /\ \A x \in P!ContractRecords :
              {c \in P!ContractTakes(x) : P!ContractAsks[c] \subseteq can} \ P!ContractShows(can, x)
                \subseteq P!Withheld(P!ContractRecords, P!ContractShows, P!ContractTakes, P!ContractAsks)
         /\ \A x \in P!HandoverRecords :
              {c \in P!HandoverTakes(x) : P!HandoverAsks[c] \subseteq can} \ P!HandoverShows(can, x)
                \subseteq P!Withheld(P!HandoverRecords, P!HandoverShows, P!HandoverTakes, P!HandoverAsks)
         /\ \A x \in P!VehicleRecords :
              {c \in P!VehicleTakes(x) : P!VehicleAsks[c] \subseteq can} \ P!VehicleShows(can, x)
                \subseteq P!Withheld(P!VehicleRecords, P!VehicleShows, P!VehicleTakes, P!VehicleAsks)
         /\ \A x \in P!LeadRecords :
              {c \in P!LeadTakes(x) : P!LeadAsks[c] \subseteq can} \ P!LeadShows(can, x)
                \subseteq P!Withheld(P!LeadRecords, P!LeadShows, P!LeadTakes, P!LeadAsks)
<1>1. ASSUME NEW x \in P!ContractRecords
      PROVE  {c \in P!ContractTakes(x) : P!ContractAsks[c] \subseteq can} \ P!ContractShows(can, x)
               \subseteq P!Withheld(P!ContractRecords, P!ContractShows, P!ContractTakes, P!ContractAsks)
  <2>. DEFINE of(v, y) == {c \in P!ContractTakes(y) : P!ContractAsks[c] \subseteq v} \ P!ContractShows(v, y)
              all == {of(v, y) : v \in P!RoleHolders, y \in P!ContractRecords}
  <2>1. P!Withheld(P!ContractRecords, P!ContractShows, P!ContractTakes, P!ContractAsks) = UNION all
    BY SMTT(60) DEF P!Withheld
  <2>2. of(can, x) \in all
    <3>. HIDE DEF of
    <3>. QED OBVIOUS
  <2>3. of(can, x) \subseteq UNION all
    <3>. HIDE DEF all, of
    <3>. QED BY <2>2
  <2>. HIDE DEF all
  <2>. QED BY <2>1, <2>3
<1>2. ASSUME NEW x \in P!HandoverRecords
      PROVE  {c \in P!HandoverTakes(x) : P!HandoverAsks[c] \subseteq can} \ P!HandoverShows(can, x)
               \subseteq P!Withheld(P!HandoverRecords, P!HandoverShows, P!HandoverTakes, P!HandoverAsks)
  <2>. DEFINE of(v, y) == {c \in P!HandoverTakes(y) : P!HandoverAsks[c] \subseteq v} \ P!HandoverShows(v, y)
              all == {of(v, y) : v \in P!RoleHolders, y \in P!HandoverRecords}
  <2>1. P!Withheld(P!HandoverRecords, P!HandoverShows, P!HandoverTakes, P!HandoverAsks) = UNION all
    BY SMTT(60) DEF P!Withheld
  <2>2. of(can, x) \in all
    <3>. HIDE DEF of
    <3>. QED OBVIOUS
  <2>3. of(can, x) \subseteq UNION all
    <3>. HIDE DEF all, of
    <3>. QED BY <2>2
  <2>. HIDE DEF all
  <2>. QED BY <2>1, <2>3
<1>3. ASSUME NEW x \in P!VehicleRecords
      PROVE  {c \in P!VehicleTakes(x) : P!VehicleAsks[c] \subseteq can} \ P!VehicleShows(can, x)
               \subseteq P!Withheld(P!VehicleRecords, P!VehicleShows, P!VehicleTakes, P!VehicleAsks)
  <2>. DEFINE of(v, y) == {c \in P!VehicleTakes(y) : P!VehicleAsks[c] \subseteq v} \ P!VehicleShows(v, y)
              all == {of(v, y) : v \in P!RoleHolders, y \in P!VehicleRecords}
  <2>1. P!Withheld(P!VehicleRecords, P!VehicleShows, P!VehicleTakes, P!VehicleAsks) = UNION all
    BY SMTT(60) DEF P!Withheld
  <2>2. of(can, x) \in all
    <3>. HIDE DEF of
    <3>. QED OBVIOUS
  <2>3. of(can, x) \subseteq UNION all
    <3>. HIDE DEF all, of
    <3>. QED BY <2>2
  <2>. HIDE DEF all
  <2>. QED BY <2>1, <2>3
<1>4. ASSUME NEW x \in P!LeadRecords
      PROVE  {c \in P!LeadTakes(x) : P!LeadAsks[c] \subseteq can} \ P!LeadShows(can, x)
               \subseteq P!Withheld(P!LeadRecords, P!LeadShows, P!LeadTakes, P!LeadAsks)
  <2>. DEFINE of(v, y) == {c \in P!LeadTakes(y) : P!LeadAsks[c] \subseteq v} \ P!LeadShows(v, y)
              all == {of(v, y) : v \in P!RoleHolders, y \in P!LeadRecords}
  <2>1. P!Withheld(P!LeadRecords, P!LeadShows, P!LeadTakes, P!LeadAsks) = UNION all
    BY SMTT(60) DEF P!Withheld
  <2>2. of(can, x) \in all
    <3>. HIDE DEF of
    <3>. QED OBVIOUS
  <2>3. of(can, x) \subseteq UNION all
    <3>. HIDE DEF all, of
    <3>. QED BY <2>2
  <2>. HIDE DEF all
  <2>. QED BY <2>1, <2>3
<1>. QED BY <1>1, <1>2, <1>3, <1>4

LEMMA ContractRefused ==
  {"activate", "terminate"} \subseteq P!Refused(P!ContractRecords, P!ContractShows, P!ContractTakes)
<1>. DEFINE taken == [status |-> "DRAFT", type |-> "LONG_TERM_RENTAL", car |-> "RENTED",
                      owner |-> "COMPANY_OWNED", item |-> "none", settlement |-> "NONE", owing |-> FALSE]
            strayed == [status |-> "ACTIVE", type |-> "LONG_TERM_RENTAL", car |-> "MAINTENANCE",
                        owner |-> "COMPANY_OWNED", item |-> "none", settlement |-> "SETTLED", owing |-> FALSE]
            all == P!Catalogue
<1>1. taken \in P!ContractRecords /\ strayed \in P!ContractRecords
  BY DEF P!ContractRecords, P!ContractStatuses, P!VehicleStatuses, P!Ownerships, P!EditableStatuses,
     P!EndedStatuses
<1>2. "contract.activate" \in all /\ "contract.cancel" \in all
  BY DEF P!Catalogue, P!AdminPermissions
<1>3. "activate" \in P!ContractShows(all, taken) \ P!ContractTakes(taken)
  <2>1. "activate" \in P!ContractShows(all, taken)
    BY <1>2 DEF P!ContractShows, P!SummaryShows, P!EditableStatuses, P!If
  <2>2. "activate" \notin P!ContractTakes(taken)
    BY DEF P!ContractTakes, P!CanTransition, P!VehicleMoves, P!CarGoesTo, P!If
  <2>. QED BY <2>1, <2>2
<1>4. "terminate" \in P!ContractShows(all, strayed) \ P!ContractTakes(strayed)
  <2>1. "terminate" \in P!ContractShows(all, strayed)
    BY <1>2 DEF P!ContractShows, P!SettlementShows, P!LiveStatuses, P!If
  <2>2. "terminate" \notin P!ContractTakes(strayed)
    BY DEF P!ContractTakes, P!CanTransition, P!VehicleMoves, P!If
  <2>. QED BY <2>1, <2>2
<1>5. all \in P!RoleHolders
  BY Everything
<1>. HIDE DEF taken, strayed, all
<1>. QED BY <1>1, <1>3, <1>4, <1>5, RefusedAre

LEMMA HandoverRefused ==
  {"handOver", "takeBack"} \subseteq P!Refused(P!HandoverRecords, P!HandoverShows, P!HandoverTakes)
<1>. DEFINE draft == [status |-> "DRAFT", out |-> "NONE", back |-> "NONE"]
            ended == [status |-> "CANCELLED", out |-> "SIGNED", back |-> "NONE"]
            all == P!Catalogue
<1>1. draft \in P!HandoverRecords /\ ended \in P!HandoverRecords
  BY DEF P!HandoverRecords, P!ContractStatuses, P!EditableStatuses
<1>2. "handover.view" \in all /\ "handover.manage" \in all
  BY DEF P!Catalogue, P!AdminPermissions, P!OperationsPermissions
<1>3. "handOver" \in P!HandoverShows(all, draft) \ P!HandoverTakes(draft)
  BY <1>2 DEF P!HandoverShows, P!HandoverTakes, P!LiveStatuses, P!DocumentsCard, P!If
<1>4. "takeBack" \in P!HandoverShows(all, ended) \ P!HandoverTakes(ended)
  BY <1>2 DEF P!HandoverShows, P!HandoverTakes, P!LiveStatuses, P!DocumentsCard, P!If
<1>5. all \in P!RoleHolders
  BY Everything
<1>. HIDE DEF draft, ended, all
<1>. QED BY <1>1, <1>3, <1>4, <1>5, RefusedAre

LEMMA DeletionsRefused ==
  /\ "delete" \in P!Refused(P!VehicleRecords, P!VehicleShows, P!VehicleTakes)
  /\ "deleteType" \in P!Refused(P!OfficeRecords, P!OfficeShows, P!OfficeTakes)
<1>. DEFINE away == [status |-> "RENTED", owner |-> "COMPANY_OWNED", policy |-> "ACTIVE", filed |-> {}]
            inUse == [self |-> FALSE, seeded |-> FALSE, used |-> TRUE]
            all == P!Catalogue
<1>1. away \in P!VehicleRecords /\ inUse \in P!OfficeRecords
  BY DEF P!VehicleRecords, P!OfficeRecords, P!VehicleStatuses, P!Ownerships
<1>2. "vehicle.delete" \in all /\ "settings.manage" \in all
  BY DEF P!Catalogue, P!AdminPermissions, P!AccessPermissions
<1>3. "delete" \in P!VehicleShows(all, away) \ P!VehicleTakes(away)
  BY <1>2 DEF P!VehicleShows, P!DetailsCard, P!VehicleTakes, P!OnContractStatuses, P!If
<1>4. "deleteType" \in P!OfficeShows(all, inUse) \ P!OfficeTakes(inUse)
  BY <1>2 DEF P!OfficeShows, P!DocumentTypeShows, P!OfficeTakes, P!If
<1>5. all \in P!RoleHolders
  BY Everything
<1>. HIDE DEF away, inUse, all
<1>. QED BY <1>1, <1>3, <1>4, <1>5, RefusedAre

(* What a role may do and is not shown. *)
LEMMA ContractWithholds ==
  ASSUME NEW can \in P!RoleHolders, NEW k \in P!ContractRecords, NEW c \in P!ContractTakes(k),
         P!ContractAsks[c] \subseteq can, c \notin P!ContractShows(can, k)
  PROVE  c \in {"waive", "pay", "paySupplier", "terminate"}
<1>1. CASE c = "activate"
  BY <1>1 DEF P!ContractTakes, P!ContractAsks, P!ActivateContract, P!Button, P!ContractShows,
     P!SummaryShows, P!If
<1>2. CASE c = "openSettlement"
  BY <1>2 DEF P!ContractTakes, P!ContractAsks, P!OpenSettlement, P!ContractShows, P!SettlementShows,
     P!If
<1>3. CASE c \in {"addLine", "removeLine", "settle"}
  <2>1. "contract.cancel" \in can
    BY <1>3 DEF P!ContractAsks, P!AddSettlementLine, P!RemoveSettlementLine, P!SettleSettlement,
       P!Button
  <2>2. k.settlement = "OPEN"
    BY <1>3 DEF P!ContractTakes, P!If
  <2>. QED BY <1>3, <2>1, <2>2 DEF P!ContractShows, P!SettlementShows, P!If
<1>4. CASE c \in {"upload", "removeFile"}
  BY <1>4, RolesAre DEF P!ContractAsks, P!UploadDocument, P!DeleteDocument, P!Button,
     P!ContractShows, P!DocumentsCard, P!If
<1>. QED BY <1>1, <1>2, <1>3, <1>4 DEF P!ContractTakes, P!If

LEMMA HandoverWithholds ==
  ASSUME NEW can \in P!RoleHolders, NEW h \in P!HandoverRecords, NEW c \in P!HandoverTakes(h),
         P!HandoverAsks[c] \subseteq can, c \notin P!HandoverShows(can, h)
  PROVE  c \in {"upload", "removeFile"}
<1>1. SUFFICES ASSUME c \in {"handOver", "takeBack", "mark", "unmark", "sign", "discard"} PROVE FALSE
  BY DEF P!HandoverTakes, P!If
<1>2. "handover.manage" \in can /\ "handover.view" \in can
  <2>1. "handover.manage" \in can
    BY <1>1 DEF P!HandoverAsks, P!RecordHandover, P!AddDamagePoint, P!RemoveDamagePoint,
       P!SignHandover, P!DiscardHandover, P!Button
  <2>. QED BY <2>1, RolesAre
<1>. QED BY <1>1, <1>2 DEF P!HandoverTakes, P!HandoverShows, P!If

LEMMA VehicleWithholds ==
  ASSUME NEW can \in P!RoleHolders, NEW v \in P!VehicleRecords, NEW c \in P!VehicleTakes(v),
         P!VehicleAsks[c] \subseteq can, c \notin P!VehicleShows(can, v)
  PROVE  c \in {"read", "cancelCover"}
<1>1. CASE c = "move"
  <2>1. "vehicle.transition" \in can
    BY <1>1 DEF P!VehicleAsks, P!ChangeVehicleStatus
  <2>2. P!VehicleMoves[v.status] # {}
    BY <1>1 DEF P!VehicleTakes, P!CarOffers, P!If
  <2>. QED BY <1>1, <2>1, <2>2 DEF P!VehicleShows, P!StatusCard, P!If
<1>2. CASE c = "service"
  BY <1>2, RolesAre DEF P!VehicleAsks, P!RecordMaintenance, P!VehicleShows, P!MaintenanceCard,
     P!Cards, P!If
<1>3. CASE c = "fine"
  BY <1>3, RolesAre DEF P!VehicleAsks, P!RecordFine, P!VehicleShows, P!FinesCard, P!Cards, P!If
<1>4. CASE c \in {"accident", "repair", "claim"}
  <2>1. "accident.manage" \in can /\ "accident.view" \in can
    BY <1>4, RolesAre DEF P!VehicleAsks, P!RecordAccident, P!RecordRepair, P!LodgeClaim
  <2>2. c \in {"accident"} \cup ({"repair", "claim"} \ v.filed)
    BY <1>4 DEF P!VehicleTakes, P!If
  <2>. QED BY <2>1, <2>2 DEF P!VehicleShows, P!AccidentsCard, P!Cards, P!If
<1>5. CASE c = "insure"
  BY <1>5, RolesAre DEF P!VehicleAsks, P!AddPolicy, P!VehicleShows, P!InsuranceCard, P!Cards, P!If
<1>6. CASE c \in {"upload", "removeFile"}
  BY <1>6, RolesAre DEF P!VehicleAsks, P!UploadDocument, P!DeleteDocument, P!Button, P!VehicleShows,
     P!DocumentsCard, P!If
<1>7. CASE c \in {"edit", "delete"}
  BY <1>7 DEF P!VehicleAsks, P!UpdateVehicle, P!DeleteVehicle, P!Button, P!VehicleShows,
     P!DetailsCard, P!If
<1>. QED BY <1>1, <1>2, <1>3, <1>4, <1>5, <1>6, <1>7 DEF P!VehicleTakes, P!If

LEMMA LeadWithholds ==
  ASSUME NEW can \in P!RoleHolders, NEW l \in P!LeadRecords, NEW c \in P!LeadTakes(l),
         P!LeadAsks[c] \subseteq can, c \notin P!LeadShows(can, l)
  PROVE  c \in {"quote"}
<1>1. CASE c \in {"edit", "move"}
  BY <1>1 DEF P!LeadTakes, P!LeadAsks, P!UpdateLead, P!ChangeLeadStatus, P!LeadShows,
     P!PipelineShows, P!If
<1>2. CASE c = "convert"
  BY <1>2 DEF P!LeadTakes, P!LeadAsks, P!ConvertLead, P!LeadShows, P!ConvertShows, P!If
<1>. QED BY <1>1, <1>2 DEF P!LeadTakes, P!If

LEMMA OfficeWithholds ==
  ASSUME NEW can \in P!RoleHolders, NEW o \in P!OfficeRecords, NEW c \in P!OfficeTakes(o),
         P!OfficeAsks[c] \subseteq can
  PROVE  c \in P!OfficeShows(can, o)
<1>1. CASE c \in {"newCustomer", "editCustomer", "customerStatus", "deleteCustomer"}
  BY <1>1 DEF P!OfficeAsks, P!CreateCustomer, P!UpdateCustomer, P!SetPartyStatus, P!DeleteParty,
     P!Button, P!OfficeShows, P!CustomersShow, P!CustomerShows, P!If
<1>2. CASE c \in {"newSupplier", "editSupplier", "supplierStatus", "deleteSupplier"}
  BY <1>2 DEF P!OfficeAsks, P!CreateSupplier, P!UpdateSupplier, P!SetPartyStatus, P!DeleteParty,
     P!Button, P!OfficeShows, P!SuppliersShow, P!SupplierShows, P!If
<1>3. CASE c \in {"expense", "newUser", "switchUser", "resetPassword", "editRole"}
  BY <1>3 DEF P!OfficeTakes, P!OfficeAsks, P!RecordExpense, P!CreateUser, P!SetUserActive,
     P!ResetUserPassword, P!UpdateRolePermissions, P!Button, P!OfficeShows, P!ExpensesShow,
     P!UsersShow, P!RoleShows, P!If
<1>4. CASE c \in {"newType", "editType", "deleteType"}
  BY <1>4 DEF P!OfficeTakes, P!OfficeAsks, P!CreateDocumentCategory, P!UpdateDocumentCategory,
     P!DeleteDocumentCategory, P!Button, P!OfficeShows, P!DocumentTypesShow, P!DocumentTypeShows,
     P!If
<1>5. CASE c \in {"upload", "removeFile"}
  BY <1>5, RolesAre DEF P!OfficeAsks, P!UploadDocument, P!DeleteDocument, P!Button, P!OfficeShows,
     P!CustomerShows, P!DocumentsCard, P!If
<1>. QED BY <1>1, <1>2, <1>3, <1>4, <1>5 DEF P!OfficeTakes, P!OfficeAsks

LEMMA ContractWithheld ==
  {"waive", "pay", "paySupplier", "terminate"}
    \subseteq P!Withheld(P!ContractRecords, P!ContractShows, P!ContractTakes, P!ContractAsks)
<1>. DEFINE over == [status |-> "COMPLETED", type |-> "LONG_TERM_RENTAL", car |-> "RENTED",
                     owner |-> "COMPANY_OWNED", item |-> "open", settlement |-> "NONE", owing |-> TRUE]
            live == [status |-> "ACTIVE", type |-> "LONG_TERM_RENTAL", car |-> "RENTED",
                     owner |-> "COMPANY_OWNED", item |-> "none", settlement |-> "NONE", owing |-> FALSE]
            all == P!Catalogue
<1>1. over \in P!ContractRecords /\ live \in P!ContractRecords
  BY DEF P!ContractRecords, P!ContractStatuses, P!VehicleStatuses, P!Ownerships, P!EditableStatuses,
     P!EndedStatuses
<1>2. {"payment.waive", "payment.record", "supplier_invoice.manage", "contract.cancel"} \subseteq all
  BY DEF P!Catalogue, P!AdminPermissions, P!FinancePermissions
<1>3. \A c \in {"waive", "pay", "paySupplier", "terminate"} : P!ContractAsks[c] \subseteq all
  BY <1>2 DEF P!ContractAsks, P!WaiveInstallment, P!RecordPayment, P!RecordSupplierPayment,
     P!TerminateContract
<1>4. /\ {"waive", "pay", "paySupplier"} \subseteq P!ContractTakes(over)
      /\ "terminate" \in P!ContractTakes(live)
  BY DEF P!ContractTakes, P!CanTransition, P!VehicleMoves, P!OwnershipAllows, P!LiveStatuses, P!If
<1>5. /\ \A c \in {"waive", "pay", "paySupplier"} : c \notin P!ContractShows(all, over)
      /\ "terminate" \notin P!ContractShows(all, live)
  BY DEF P!ContractShows, P!SummaryShows, P!InstallmentsShow, P!PaymentsShow, P!SettlementShows,
     P!PayablesShow, P!DocumentsCard, P!LiveStatuses, P!If
<1>6. all \in P!RoleHolders
  BY Everything
<1>. HIDE DEF over, live, all
<1>. QED BY <1>1, <1>3, <1>4, <1>5, <1>6, WithheldAre

LEMMA OthersWithheld ==
  /\ {"upload", "removeFile"}
       \subseteq P!Withheld(P!HandoverRecords, P!HandoverShows, P!HandoverTakes, P!HandoverAsks)
  /\ {"read", "cancelCover"}
       \subseteq P!Withheld(P!VehicleRecords, P!VehicleShows, P!VehicleTakes, P!VehicleAsks)
  /\ "quote" \in P!Withheld(P!LeadRecords, P!LeadShows, P!LeadTakes, P!LeadAsks)
<1>. DEFINE signed == [status |-> "ACTIVE", out |-> "SIGNED", back |-> "NONE"]
            sold == [status |-> "SOLD", owner |-> "COMPANY_OWNED", policy |-> "EXPIRED", filed |-> {}]
            carless == [status |-> "NEW", quoted |-> FALSE, free |-> FALSE]
            all == P!Catalogue
<1>1. signed \in P!HandoverRecords /\ sold \in P!VehicleRecords /\ carless \in P!LeadRecords
  BY DEF P!HandoverRecords, P!VehicleRecords, P!LeadRecords, P!ContractStatuses, P!VehicleStatuses,
     P!Ownerships, P!EditableStatuses, P!LeadStatuses, P!EarnedLeadStatuses
<1>2. {"document.upload", "document.delete", "vehicle.update", "insurance.manage", "deal.calculate",
       "lead.update"} \subseteq all
  BY DEF P!Catalogue, P!AdminPermissions, P!SalesPermissions, P!OperationsPermissions
<1>3. /\ \A c \in {"upload", "removeFile"} : P!HandoverAsks[c] \subseteq all
      /\ \A c \in {"read", "cancelCover"} : P!VehicleAsks[c] \subseteq all
      /\ P!LeadAsks["quote"] \subseteq all
  BY <1>2 DEF P!HandoverAsks, P!VehicleAsks, P!LeadAsks, P!UploadDocument, P!DeleteDocument,
     P!Button, P!RecordMileage, P!CancelPolicy, P!SaveQuote
<1>4. /\ {"upload", "removeFile"} \subseteq P!HandoverTakes(signed)
      /\ {"read", "cancelCover"} \subseteq P!VehicleTakes(sold)
      /\ "quote" \in P!LeadTakes(carless)
  BY DEF P!HandoverTakes, P!VehicleTakes, P!LeadTakes, P!OpenLeadStatuses, P!LeadStatuses, P!If
<1>5. /\ \A c \in {"upload", "removeFile"} : c \notin P!HandoverShows(all, signed)
      /\ \A c \in {"read", "cancelCover"} : c \notin P!VehicleShows(all, sold)
      /\ "quote" \notin P!LeadShows(all, carless)
  <2>1. \A c \in {"upload", "removeFile"} : c \notin P!HandoverShows(all, signed)
    BY DEF P!HandoverShows, P!DocumentsCard, P!If
  <2>2. \A c \in {"read", "cancelCover"} : c \notin P!VehicleShows(all, sold)
    BY DEF P!VehicleShows, P!StatusCard, P!MileageCard, P!MaintenanceCard, P!FinesCard,
       P!AccidentsCard, P!InsuranceCard, P!DetailsCard, P!DocumentsCard, P!VehicleMoves, P!If
  <2>3. "quote" \notin P!LeadShows(all, carless)
    BY DEF P!LeadShows, P!PipelineShows, P!ConvertShows, P!QuotesShow, P!If
  <2>. QED BY <2>1, <2>2, <2>3
<1>6. all \in P!RoleHolders
  BY Everything
<1>. HIDE DEF signed, sold, carless, all
<1>. QED BY <1>1, <1>3, <1>4, <1>5, <1>6, WithheldAre

LEMMA WithheldWithin ==
  /\ P!Withheld(P!ContractRecords, P!ContractShows, P!ContractTakes, P!ContractAsks)
       \subseteq {"waive", "pay", "paySupplier", "terminate"}
  /\ P!Withheld(P!HandoverRecords, P!HandoverShows, P!HandoverTakes, P!HandoverAsks)
       \subseteq {"upload", "removeFile"}
  /\ P!Withheld(P!VehicleRecords, P!VehicleShows, P!VehicleTakes, P!VehicleAsks)
       \subseteq {"read", "cancelCover"}
  /\ P!Withheld(P!LeadRecords, P!LeadShows, P!LeadTakes, P!LeadAsks) \subseteq {"quote"}
  /\ P!Withheld(P!OfficeRecords, P!OfficeShows, P!OfficeTakes, P!OfficeAsks) = {}
BY ContractWithholds, HandoverWithholds, VehicleWithholds, LeadWithholds, OfficeWithholds DEF
   P!Withheld

LEMMA ControlsAgreeAll == P!ControlsAgree
BY ForbiddenAre, RefusedWithin, ContractRefused, HandoverRefused, DeletionsRefused, WithheldWithin,
   ContractWithheld, OthersWithheld DEF P!ControlsAgree

(* The moves by hand, card by card. *)
LEMMA FineMovesAre ==
  /\ P!OffersAreMoves(P!FineMoves, P!RechargeableOffers)
  /\ P!NotOffered(P!FineMoves, P!RechargeableOffers)
       = {<<"DISPUTED", "OPEN">>, <<"RECOVERED", "PAID">>, <<"WAIVED", "PAID">>}
BY DEF P!OffersAreMoves, P!NotOffered, P!FineMoves, P!RechargeableOffers, P!FineOffers, P!If

LEMMA AccidentMovesAre ==
  /\ P!OffersAreMoves(P!AccidentMoves, P!AccidentOffers)
  /\ P!NotOffered(P!AccidentMoves, P!AccidentOffers)
       = {<<"REPORTED", "CLOSED">>, <<"REPAIRED", "UNDER_REPAIR">>}
BY DEF P!OffersAreMoves, P!NotOffered, P!AccidentMoves, P!AccidentOffers, P!If

LEMMA ClaimMovesAre ==
  /\ P!OffersAreMoves(P!ClaimMoves, P!ClaimOffers)
  /\ P!NotOffered(P!ClaimMoves, P!ClaimOffers)
       = {<<"LODGED", "WITHDRAWN">>, <<"APPROVED", "REJECTED">>}
BY DEF P!OffersAreMoves, P!NotOffered, P!ClaimMoves, P!ClaimOffers, P!If

LEMMA CarMovesAre ==
  /\ P!OffersAreMoves(P!VehicleMoves, P!OwnCarOffers)
  /\ {move[2] : move \in P!NotOffered(P!VehicleMoves, P!OwnCarOffers)} = P!ContractManagedStatuses
<1>1. P!OffersAreMoves(P!VehicleMoves, P!OwnCarOffers)
  BY DEF P!OffersAreMoves, P!VehicleMoves, P!OwnCarOffers, P!CarOffers, P!OwnershipAllows,
     P!ContractManagedStatuses
<1>2. \A move \in P!NotOffered(P!VehicleMoves, P!OwnCarOffers) : move[2] \in P!ContractManagedStatuses
  BY DEF P!NotOffered, P!VehicleMoves, P!OwnCarOffers, P!CarOffers, P!OwnershipAllows,
     P!ContractManagedStatuses
<1>3. <<"AVAILABLE", "RENTED">> \in P!NotOffered(P!VehicleMoves, P!OwnCarOffers)
  BY DEF P!NotOffered, P!VehicleMoves, P!OwnCarOffers, P!CarOffers, P!OwnershipAllows,
     P!ContractManagedStatuses
<1>4. <<"AVAILABLE", "LEASE_TO_OWN">> \in P!NotOffered(P!VehicleMoves, P!OwnCarOffers)
  BY DEF P!NotOffered, P!VehicleMoves, P!OwnCarOffers, P!CarOffers, P!OwnershipAllows,
     P!ContractManagedStatuses
<1>5. P!ContractManagedStatuses = {<<"AVAILABLE", "RENTED">>[2], <<"AVAILABLE", "LEASE_TO_OWN">>[2]}
  BY DEF P!ContractManagedStatuses
<1>. QED BY <1>1, <1>2, <1>3, <1>4, <1>5

LEMMA LeadMovesAre ==
  /\ P!OffersAreMoves(P!LeadMoves, P!LeadOffers)
  /\ {move[2] : move \in P!NotOffered(P!LeadMoves, P!LeadOffers)} = P!EarnedLeadStatuses
<1>1. P!OffersAreMoves(P!LeadMoves, P!LeadOffers)
  BY DEF P!OffersAreMoves, P!LeadMoves, P!LeadOffers, P!EarnedLeadStatuses
<1>2. \A move \in P!NotOffered(P!LeadMoves, P!LeadOffers) : move[2] \in P!EarnedLeadStatuses
  BY DEF P!NotOffered, P!LeadMoves, P!LeadOffers, P!EarnedLeadStatuses
<1>3. <<"QUALIFIED", "DEAL_CREATED">> \in P!NotOffered(P!LeadMoves, P!LeadOffers)
  BY DEF P!NotOffered, P!LeadMoves, P!LeadOffers, P!EarnedLeadStatuses
<1>4. <<"DEAL_CREATED", "CONTRACTED">> \in P!NotOffered(P!LeadMoves, P!LeadOffers)
  BY DEF P!NotOffered, P!LeadMoves, P!LeadOffers, P!EarnedLeadStatuses
<1>5. P!EarnedLeadStatuses = {<<"QUALIFIED", "DEAL_CREATED">>[2], <<"DEAL_CREATED", "CONTRACTED">>[2]}
  BY DEF P!EarnedLeadStatuses
<1>. QED BY <1>1, <1>2, <1>3, <1>4, <1>5

LEMMA MovesAgreeAll == P!MovesAgree
BY FineMovesAre, AccidentMovesAre, ClaimMovesAre, CarMovesAre, LeadMovesAre DEF P!MovesAgree

-----------------------------------------------------------------------------
(* The doors and links between pages. *)

LEMMA DeadEntriesAre ==
  /\ UNION {P!DeadEntries(can) : can \in P!Viewers} = {"funnel"}
  /\ \A can \in P!RoleHolders : P!DeadEntries(can) = {}
<1>1. \A can : P!DeadEntries(can) \subseteq {"funnel"}
  BY MenuLeads DEF P!DeadEntries
<1>2. \A can : "funnel" \in P!DeadEntries(can) <=> "lead.view" \in can /\ "report.view" \notin can
  BY DEF P!DeadEntries, P!Menu, P!Doors
<1>3. \A can \in P!RoleHolders : ~("lead.view" \in can /\ "report.view" \notin can)
  BY DEF P!RoleHolders, P!Roles, P!Catalogue, P!AdminPermissions, P!AccessPermissions, P!NeverAsked,
   P!SalesPermissions, P!FinancePermissions, P!OperationsPermissions
<1>. DEFINE short == P!Catalogue \ {"report.view"}
<1>4. "lead.view" \in short /\ "report.view" \notin short
  BY DEF P!Catalogue, P!AdminPermissions, P!SalesPermissions
<1>5. short \in P!Viewers
  BY DEF P!Viewers, P!Catalogue, P!AdminPermissions, P!SalesPermissions
<1>. HIDE DEF short
<1>. QED BY <1>1, <1>2, <1>3, <1>4, <1>5

(* Where a link leads, its reader may go, or it leads to a record by way of *)
(* a page that asks for something else.                                     *)
Straight(link) == P!Doors[link.to] \subseteq P!Doors[link.from] \cup link.needs

Across(link) ==
  \/ <<link.from, link.to>> \in {<<"newLead", "leads">>, <<"contract", "lead">>}
  \/ link.to \in {"contracts", "contract", "vehicles", "vehicle", "customer"}
  \/ link.from = "supplierStatement" /\ link.to = "supplier"
  \/ link.from \in {"dashboard", "search"} /\ link.needs = {"document.view"} /\ link.to = "supplier"

LEMMA LinksLead ==
  ASSUME NEW link \in P!Links \cup P!SearchLinks
  PROVE  Straight(link) \/ Across(link)
<1>1. ASSUME NEW pair \in {<<"leads", "lead">>, <<"contracts", "contract">>, <<"customers", "customer">>,
      <<"suppliers", "supplier">>, <<"vehicles", "vehicle">>, <<"roles", "role">>,
      <<"documentTypes", "documentType">>, <<"lead", "leads">>, <<"contract", "contracts">>,
      <<"customer", "customers">>, <<"supplier", "suppliers">>, <<"vehicle", "vehicles">>,
      <<"role", "roles">>, <<"documentType", "documentTypes">>,
      <<"newLead", "leads">>, <<"newContract", "contracts">>, <<"newVehicle", "vehicles">>,
      <<"customerStatement", "customer">>, <<"supplierStatement", "supplier">>},
      link = P!Link(pair[1], {}, pair[2])
      PROVE  Straight(link) \/ Across(link)
  BY <1>1 DEF Straight, Across, P!Link, P!Doors
<1>2. CASE link \in {P!Link("leads", {"lead.create"}, "newLead"),
                    P!Link("contracts", {"contract.create"}, "newContract"),
                    P!Link("vehicles", {"vehicle.create"}, "newVehicle")}
  BY <1>2 DEF Straight, P!Link, P!Doors
<1>3. CASE link \in P!RecordLinks
  BY <1>3 DEF Straight, Across, P!RecordLinks, P!Link, P!Doors
<1>4. ASSUME NEW card, NEW to \in {"customer", "contract"}, link = P!Link("vehicle", P!Cards[card], to)
      PROVE  Across(link)
  BY <1>4 DEF Across, P!Link
<1>5. ASSUME NEW owner \in {"customer", "supplier", "vehicle", "contract"},
             link = P!Link("dashboard", P!Panels.expiring, owner)
      PROVE  Across(link)
  BY <1>5 DEF Across, P!Link, P!Panels
<1>6. ASSUME NEW owner \in {"customer", "supplier", "vehicle", "contract"},
             link = P!Link(owner, {"document.view"}, "file")
      PROVE  Straight(link)
  BY <1>6 DEF Straight, P!Link, P!Doors
<1>7. ASSUME NEW hit \in
               {<<"customer.view", "customer">>, <<"supplier.view", "supplier">>, <<"vehicle.view", "vehicle">>,
                <<"document.view", "customer">>, <<"document.view", "supplier">>, <<"document.view",
                    "vehicle">>},
             link = P!Link("search", {hit[1]}, hit[2])
      PROVE  Straight(link) \/ Across(link)
  BY <1>7 DEF Straight, Across, P!Link, P!Doors
<1>8. CASE link \in P!ListLinks
  BY <1>1, <1>2, <1>8, Zenon DEF P!ListLinks
<1>9. CASE link \in P!CardLinks
  BY <1>4, <1>5, <1>6, <1>9 DEF P!CardLinks
<1>10. CASE link \in P!SearchLinks
  BY <1>7, <1>10, Zenon DEF P!SearchLinks
<1>. QED BY <1>3, <1>8, <1>9, <1>10 DEF P!Links

LEMMA DoorsAre ==
  /\ P!Doors["newLead"] = {"lead.create"} /\ P!Doors["contract"] = {"contract.view"}
  /\ P!Doors["supplierStatement"] = {"supplier_invoice.view"}
  /\ P!Doors["dashboard"] = {"dashboard.view"} /\ P!Doors["search"] = {}
  /\ \A page \in {"leads", "lead"} : P!Doors[page] = {"lead.view"}
  /\ \A page \in {"contracts", "contract"} : P!Doors[page] = {"contract.view"}
  /\ \A page \in {"vehicles", "vehicle"} : P!Doors[page] = {"vehicle.view"}
  /\ P!Doors["customer"] = {"customer.view"} /\ P!Doors["supplier"] = {"supplier.view"}
BY DEF P!Doors

LEMMA DeadAre ==
  ASSUME NEW can, NEW link \in P!DeadEnds(can),
         {"contract.view", "vehicle.view", "customer.view"} \subseteq can
  PROVE  \/ /\ <<link.from, link.to>> \in {<<"newLead", "leads">>, <<"contract", "lead">>}
            /\ "lead.view" \notin can
         \/ /\ link.to = "supplier" /\ "supplier.view" \notin can
            /\ link.from \in {"supplierStatement", "dashboard", "search"}
<1>1. link \in P!Links \cup P!SearchLinks /\ P!Doors[link.from] \cup link.needs \subseteq can
      /\ ~(P!Doors[link.to] \subseteq can)
  BY DEF P!DeadEnds
<1>2. ~Straight(link)
  BY <1>1 DEF Straight
<1>3. Across(link)
  BY <1>1, <1>2, LinksLead
<1>. QED BY <1>1, <1>3, DoorsAre DEF Across

LEMMA RolesSee ==
  /\ \A can \in {P!Catalogue, P!AdminPermissions, P!SalesPermissions, P!FinancePermissions,
                 P!OperationsPermissions} :
        {"contract.view", "vehicle.view", "customer.view", "dashboard.view", "document.view"} \subseteq can
  /\ \A can \in {P!Catalogue, P!AdminPermissions} : {"lead.view", "supplier.view"} \subseteq can
  /\ "lead.view" \in P!SalesPermissions
  /\ "supplier.view" \notin P!SalesPermissions /\ "supplier_invoice.view" \notin P!SalesPermissions
  /\ \A can \in {P!FinancePermissions, P!OperationsPermissions} :
        "supplier.view" \in can /\ "lead.view" \notin can /\ "lead.create" \notin can
BY DEF P!Catalogue, P!AdminPermissions, P!AccessPermissions, P!NeverAsked,
   P!SalesPermissions, P!FinancePermissions, P!OperationsPermissions

LEMMA DeadLinksAre ==
  /\ P!DeadLinks(P!Catalogue) = {} /\ P!DeadLinks(P!AdminPermissions) = {}
  /\ P!DeadLinks(P!SalesPermissions) = {<<"dashboard", "supplier">>, <<"search", "supplier">>}
  /\ P!DeadLinks(P!FinancePermissions) = {<<"contract", "lead">>}
  /\ P!DeadLinks(P!OperationsPermissions) = {<<"contract", "lead">>}
<1>1. \A can \in {P!Catalogue, P!AdminPermissions} : P!DeadEnds(can) = {}
  BY RolesSee, DeadAre
<1>2. \A link \in P!DeadEnds(P!SalesPermissions) :
        <<link.from, link.to>> \in {<<"dashboard", "supplier">>, <<"search", "supplier">>}
  <2>. SUFFICES ASSUME NEW link \in P!DeadEnds(P!SalesPermissions)
                PROVE  link.to = "supplier" /\ link.from \in {"dashboard", "search"}
    OBVIOUS
  <2>1. link.to = "supplier" /\ link.from \in {"supplierStatement", "dashboard", "search"}
    BY RolesSee, DeadAre
  <2>2. P!Doors[link.from] \subseteq P!SalesPermissions
    BY DEF P!DeadEnds
  <2>. QED BY <2>1, <2>2, RolesSee, DoorsAre
<1>3. \A can \in {P!FinancePermissions, P!OperationsPermissions} : \A link \in P!DeadEnds(can) :
        <<link.from, link.to>> = <<"contract", "lead">>
  <2>. SUFFICES ASSUME NEW can \in {P!FinancePermissions, P!OperationsPermissions}, NEW link \in P!DeadEnds(can)
                PROVE  <<link.from, link.to>> = <<"contract", "lead">>
    OBVIOUS
  <2>1. <<link.from, link.to>> \in {<<"newLead", "leads">>, <<"contract", "lead">>}
    BY RolesSee, DeadAre
  <2>2. P!Doors[link.from] \subseteq can
    BY DEF P!DeadEnds
  <2>. QED BY <2>1, <2>2, RolesSee, DoorsAre
<1>4. /\ P!Link("dashboard", P!Panels.expiring, "supplier") \in P!Links
      /\ P!Link("contract", {}, "lead") \in P!Links
      /\ P!Link("search", {"document.view"}, "supplier") \in P!SearchLinks
  <2>1. P!Link("dashboard", P!Panels.expiring, "supplier") \in P!Links
    BY DEF P!Links, P!CardLinks
  <2>2. P!Link("contract", {}, "lead") \in P!Links
    BY DEF P!Links, P!RecordLinks
  <2>3. P!Link("search", {"document.view"}, "supplier") \in P!SearchLinks
    BY DEF P!SearchLinks
  <2>. QED BY <2>1, <2>2, <2>3
<1>5. /\ P!Link("dashboard", P!Panels.expiring, "supplier") \in P!DeadEnds(P!SalesPermissions)
      /\ P!Link("search", {"document.view"}, "supplier") \in P!DeadEnds(P!SalesPermissions)
  BY <1>4, RolesSee, DoorsAre DEF P!DeadEnds, P!Link, P!Panels
<1>6. \A can \in {P!FinancePermissions, P!OperationsPermissions} :
        P!Link("contract", {}, "lead") \in P!DeadEnds(can)
  BY <1>4, RolesSee, DoorsAre DEF P!DeadEnds, P!Link
<1>7. P!DeadLinks(P!SalesPermissions) = {<<"dashboard", "supplier">>, <<"search", "supplier">>}
  <2>1. \A x \in P!DeadLinks(P!SalesPermissions) : x \in {<<"dashboard", "supplier">>, <<"search", "supplier">>}
    BY <1>2 DEF P!DeadLinks
  <2>2. {<<"dashboard", "supplier">>, <<"search", "supplier">>} \subseteq P!DeadLinks(P!SalesPermissions)
    BY <1>5 DEF P!DeadLinks, P!Link
  <2>. QED BY <2>1, <2>2
<1>8. \A can \in {P!FinancePermissions, P!OperationsPermissions} : P!DeadLinks(can) = {<<"contract", "lead">>}
  BY <1>3, <1>6 DEF P!DeadLinks, P!Link
<1>. QED BY <1>1, <1>7, <1>8 DEF P!DeadLinks

LEMMA LinksAgreeAll == P!LinksAgree
<1>. DEFINE dead == [r \in DOMAIN P!Roles |-> P!DeadLinks(P!Roles[r])]
            said == [super_admin |-> {}, admin |-> {},
                     sales |-> {<<"dashboard", "supplier">>, <<"search", "supplier">>},
                     finance |-> {<<"contract", "lead">>}, operations |-> {<<"contract", "lead">>}]
<1>1. DOMAIN P!Roles = {"super_admin", "admin", "sales", "finance", "operations"}
  BY DEF P!Roles
<1>2. DOMAIN said = DOMAIN P!Roles
  BY DEF P!Roles
<1>3. /\ P!Roles["super_admin"] = P!Catalogue /\ P!Roles["admin"] = P!AdminPermissions
      /\ P!Roles["sales"] = P!SalesPermissions /\ P!Roles["finance"] = P!FinancePermissions
      /\ P!Roles["operations"] = P!OperationsPermissions
  BY DEF P!Roles
<1>4. \A r \in DOMAIN P!Roles : dead[r] = said[r]
  BY <1>1, <1>3, DeadLinksAre
<1>5. dead = said
  <2>. DEFINE roles == DOMAIN P!Roles
  <2>1. dead = [r \in roles |-> dead[r]] /\ said = [r \in roles |-> said[r]]
    BY <1>2
  <2>. HIDE DEF dead, said
  <2>. QED BY <1>4, <2>1
<1>. QED BY <1>5, DeadEntriesAre DEF P!LinksAgree

LEMMA EachAsks ==
  /\ P!Asked(P!ContractAsks) =
       {"contract.activate", "payment.waive", "payment.record", "contract.cancel",
        "supplier_invoice.manage", "document.upload", "document.delete"}
  /\ P!Asked(P!HandoverAsks) = {"handover.manage", "document.upload", "document.delete"}
  /\ P!Asked(P!VehicleAsks) =
       {"vehicle.transition", "vehicle.update", "maintenance.manage", "fine.manage", "accident.manage",
        "insurance.manage", "document.upload", "document.delete", "vehicle.delete"}
  /\ P!Asked(P!LeadAsks) = {"lead.update", "deal.calculate", "lead.convert", "contract.create"}
  /\ P!Asked(P!OfficeAsks) =
       {"customer.create", "customer.update", "customer.delete", "supplier.create", "supplier.update",
        "supplier.delete", "expense.manage", "user.manage", "role.manage", "settings.manage",
        "document.upload", "document.delete"}
  /\ P!Asked(P!Panels) = {"report.financial", "payment.view", "supplier_invoice.view", "document.view",
                          "insurance.view", "maintenance.view"}
  /\ P!Asked(P!Cards) = {"maintenance.view", "report.financial", "fine.view", "accident.view",
                         "insurance.view", "document.view"}
  /\ P!Asked(P!Scopes) = {"lead.view_all"}
<1>1. P!Asked(P!ContractAsks) =
       {"contract.activate", "payment.waive", "payment.record", "contract.cancel",
        "supplier_invoice.manage", "document.upload", "document.delete"}
  BY DEF P!Asked, P!ContractAsks, P!ActivateContract, P!WaiveInstallment, P!RecordPayment,
     P!OpenSettlement, P!AddSettlementLine, P!RemoveSettlementLine, P!SettleSettlement,
     P!TerminateContract, P!RecordSupplierPayment, P!UploadDocument, P!DeleteDocument, P!Button
<1>2. P!Asked(P!HandoverAsks) = {"handover.manage", "document.upload", "document.delete"}
  BY DEF P!Asked, P!HandoverAsks, P!RecordHandover, P!AddDamagePoint, P!RemoveDamagePoint,
     P!SignHandover, P!DiscardHandover, P!UploadDocument, P!DeleteDocument, P!Button
<1>3. P!Asked(P!VehicleAsks) =
       {"vehicle.transition", "vehicle.update", "maintenance.manage", "fine.manage", "accident.manage",
        "insurance.manage", "document.upload", "document.delete", "vehicle.delete"}
  BY DEF P!Asked, P!VehicleAsks, P!ChangeVehicleStatus, P!RecordMileage, P!RecordMaintenance,
     P!RecordFine, P!RecordAccident, P!RecordRepair, P!LodgeClaim, P!AddPolicy, P!CancelPolicy,
     P!UploadDocument, P!DeleteDocument, P!UpdateVehicle, P!DeleteVehicle, P!Button
<1>4. P!Asked(P!LeadAsks) = {"lead.update", "deal.calculate", "lead.convert", "contract.create"}
  BY DEF P!Asked, P!LeadAsks, P!UpdateLead, P!ChangeLeadStatus, P!SaveQuote, P!ConvertLead
<1>5. P!Asked(P!OfficeAsks) =
       {"customer.create", "customer.update", "customer.delete", "supplier.create", "supplier.update",
        "supplier.delete", "expense.manage", "user.manage", "role.manage", "settings.manage",
        "document.upload", "document.delete"}
  BY DEF P!Asked, P!OfficeAsks, P!CreateCustomer, P!UpdateCustomer, P!SetPartyStatus, P!DeleteParty,
     P!CreateSupplier, P!UpdateSupplier, P!RecordExpense, P!CreateUser, P!SetUserActive,
     P!ResetUserPassword, P!UpdateRolePermissions, P!CreateDocumentCategory,
     P!UpdateDocumentCategory, P!DeleteDocumentCategory, P!UploadDocument, P!DeleteDocument,
     P!Button
<1>6. P!Asked(P!Panels) = {"report.financial", "payment.view", "supplier_invoice.view", "document.view",
                          "insurance.view", "maintenance.view"}
  BY DEF P!Asked, P!Panels
<1>7. P!Asked(P!Cards) = {"maintenance.view", "report.financial", "fine.view", "accident.view",
                         "insurance.view", "document.view"}
  BY DEF P!Asked, P!Cards
<1>8. P!Asked(P!Scopes) = {"lead.view_all"}
  BY DEF P!Asked, P!Scopes
<1>. QED BY <1>1, <1>2, <1>3, <1>4, <1>5, <1>6, <1>7, <1>8

LEMMA DoorsAsk ==
  P!Asked(P!Doors) =
    {"dashboard.view", "lead.view", "lead.create", "deal.calculate", "contract.view", "contract.create",
     "customer.view", "payment.view", "supplier.view", "supplier_invoice.view", "vehicle.view",
     "vehicle.create", "expense.view", "report.financial", "report.view", "user.view", "role.view",
     "settings.manage", "audit.view", "handover.view", "document.view", "report.export"}
BY DEF P!Asked, P!Doors

LEMMA PermissionsAreAskedAll == P!PermissionsAreAsked
<1>. DEFINE all == {P!ContractAsks, P!HandoverAsks, P!VehicleAsks, P!LeadAsks, P!OfficeAsks, P!Doors,
                    P!Panels, P!Cards, P!Scopes}
            asked == UNION {P!Asked(asks) : asks \in all}
<1>1. asked = P!Asked(P!ContractAsks) \cup P!Asked(P!HandoverAsks) \cup P!Asked(P!VehicleAsks)
              \cup P!Asked(P!LeadAsks) \cup P!Asked(P!OfficeAsks) \cup P!Asked(P!Doors)
              \cup P!Asked(P!Panels) \cup P!Asked(P!Cards) \cup P!Asked(P!Scopes)
  OBVIOUS
<1>2. P!Catalogue \ asked = P!NeverAsked
  <2>. HIDE DEF asked
  <2>. QED BY <1>1, EachAsks, DoorsAsk DEF P!Catalogue, P!AdminPermissions, P!AccessPermissions,
        P!NeverAsked, P!SalesPermissions, P!FinancePermissions, P!OperationsPermissions
<1>. QED BY <1>2 DEF P!PermissionsAreAsked

-----------------------------------------------------------------------------
(* The forms.  A field is fair when its reader keeps what its box sends or *)
(* refuses it, and takes something of it; a form agrees when all of its    *)
(* fields are fair, nothing it leaves out is refused, and the asterisks    *)
(* that mislead are those of `misled`.                                     *)
Fair(reader, box) ==
  /\ \A v \in box : v # "blank" => F!Kept(reader, v) \in {v, "refused"}
  /\ \E v \in box : F!Kept(reader, v) # "refused"

Agrees(filled, misled) ==
  /\ DOMAIN filled.box \subseteq DOMAIN filled.action.reads
  /\ \A f \in DOMAIN filled.box : Fair(filled.action.reads[f], filled.box[f])
  /\ \A f \in DOMAIN filled.action.reads :
       f \notin DOMAIN filled.box => filled.action.reads[f].blank # "refused"
  /\ misled \subseteq DOMAIN filled.box
  /\ \A f \in DOMAIN filled.box :
       f \in misled <=> /\ "blank" \in filled.box[f]
                        /\ ~(f \in filled.starred <=> filled.action.reads[f].blank = "refused")

LEMMA AgreesIs ==
  ASSUME NEW filled, NEW misled, Agrees(filled, misled)
  PROVE  F!TypedIsKept(filled) /\ F!Misleading(filled) = misled
<1>1. F!TypedIsKept(filled)
  BY DEF Agrees, Fair, F!TypedIsKept, F!Kept
<1>2. F!Misleading(filled) = misled
  BY DEF Agrees, F!Misleading, F!Kept
<1>. QED BY <1>1, <1>2

LEMMA BlankIs ==
  /\ \A takes : F!Required(takes).blank = "refused" /\ F!Optional(takes).blank = "nothing"
  /\ \A takes, default : F!OrElse(takes, default).blank = default
  /\ \A takes, blank, other : F!Reader(takes, blank, other).blank = blank
  /\ F!Name.blank = "refused" /\ F!Note.blank = "nothing" /\ F!Unread.blank = "nothing"
  /\ F!LongName.blank = "refused"
BY DEF F!Required, F!Optional, F!OrElse, F!Reader, F!Name, F!Note, F!Unread, F!LongName

LEMMA BoxIs ==
  /\ "blank" \in F!TextBox /\ "blank" \in F!NumberBox /\ "blank" \in F!DateBox /\ "blank" \in F!Pad
  /\ \A options : "blank" \in F!OrNone(options)
  /\ \A box : "blank" \notin F!Must(box)
BY DEF F!TextBox, F!NumberBox, F!DateBox, F!Pad, F!OrNone, F!Must

LEMMA ChoicesAreMade ==
  /\ "blank" \notin F!Emirates /\ "blank" \notin F!Responsibilities /\ "blank" \notin F!MaintenanceTypes
  /\ "blank" \notin F!PaymentMethods /\ "blank" \notin F!SettlementReasons /\ "blank" \notin F!ChargeTypes
  /\ "blank" \notin F!Eighths /\ "blank" \notin F!Severities /\ "blank" \notin F!LeadSources
  /\ "blank" \notin F!ExpenseCategories
BY DEF F!Emirates, F!Responsibilities, F!MaintenanceTypes, F!PaymentMethods, F!SettlementReasons,
   F!ChargeTypes, F!Eighths, F!Severities, F!LeadSources, F!ExpenseCategories

LEMMA TextFits ==
  /\ Fair(F!Name, F!TextBox) /\ Fair(F!Note, F!TextBox) /\ Fair(F!LongName, F!TextBox)
  /\ Fair(F!Required(F!Money), F!TextBox) /\ Fair(F!Required(F!Money \ {"zero"}), F!TextBox)
  /\ Fair(F!Optional(F!Money), F!TextBox) /\ Fair(F!Reader(F!Money, "zero", "refused"), F!TextBox)
  /\ Fair(F!Required({"fit"}), F!TextBox) /\ Fair(F!Optional({"fit"}), F!TextBox)
  /\ Fair(F!Required({"letter", "fit", "zero", "whole"}), F!TextBox)
  /\ Fair(F!Required(F!Whole \cup {"fit"}), F!TextBox)
  /\ Fair(F!Optional(F!Whole \cup {"grouped"}), F!TextBox)
  /\ \A blank : Fair(F!Reader({"fit"} \cup F!Whole, blank, "refused"), F!TextBox)
  /\ Fair(F!Name, F!Must(F!TextBox)) /\ Fair(F!Required({"fit"}), F!Must(F!TextBox))
  /\ Fair(F!Required(F!Money), F!Must(F!TextBox))
  /\ Fair(F!Required(F!Money \ {"zero"}), F!Must(F!TextBox))
BY DEF Fair, F!Kept, F!Name, F!Note, F!LongName, F!TextBox, F!Must, F!Typed, F!Figures, F!Required,
   F!Optional, F!Reader, F!Money, F!Whole

LEMMA NumbersFit ==
  /\ Fair(F!Required(F!Whole \cup {"grouped"}), F!Must(F!NumberBox))
  /\ Fair(F!Required({"large"}), F!NumberBox) /\ Fair(F!Reader(F!Whole, "zero", "refused"), F!NumberBox)
  /\ Fair(F!Optional(F!Whole), F!NumberBox) /\ Fair(F!Required(F!Months), F!NumberBox)
  /\ Fair(F!Optional(F!Months), F!NumberBox)
  /\ Fair(F!Required(F!Day), F!DateBox) /\ Fair(F!Optional(F!Day), F!DateBox)
  /\ \A blank : Fair(F!OrElse(F!Day, blank), F!DateBox)
  /\ Fair(F!Required(F!Rows), F!OrNone(F!Rows)) /\ Fair(F!Optional(F!Rows), F!OrNone(F!Rows))
  /\ Fair(F!Required({"fit"}), F!Pad) /\ Fair(F!Required({"fit"} \cup F!Day), F!Pad)
  /\ Fair(F!OrElse({"fit"}, "nothing"), F!Pad) /\ Fair(F!OrElse({"fit"}, "nothing"), {"fit"})
BY DEF Fair, F!Kept, F!NumberBox, F!DateBox, F!Pad, F!Must, F!OrNone, F!Required, F!Optional,
   F!OrElse, F!Reader, F!Whole, F!Months, F!Day, F!Rows

LEMMA ChoicesFit ==
  /\ Fair(F!Required(F!VehicleStatuses), F!OrNone(F!VehicleStatuses))
  /\ Fair(F!OrElse({"CUSTOMER", "COMPANY"}, "nothing"), F!OrNone({"CUSTOMER", "COMPANY"}))
  /\ Fair(F!OrElse(F!Responsibilities, "UNKNOWN"), F!Responsibilities)
  /\ Fair(F!OrElse(F!MaintenanceTypes, "SERVICE"), F!MaintenanceTypes)
  /\ Fair(F!Required(F!PaymentMethods), F!PaymentMethods)
  /\ Fair(F!OrElse(F!SettlementReasons, "RETURN"), F!SettlementReasons)
  /\ Fair(F!OrElse(F!Severities, "MINOR"), F!Severities)
BY DEF Fair, F!Kept, F!OrNone, F!Required, F!OrElse, F!Reader, F!VehicleStatuses,
   F!Responsibilities, F!MaintenanceTypes, F!PaymentMethods, F!SettlementReasons, F!Severities

LEMMA StatusFormAgrees ==
  Agrees(F!StatusForm, {"status"})
BY TextFits, ChoicesFit, BlankIs, BoxIs, ChoicesAreMade DEF Agrees, F!StatusForm, F!FormFor,
     F!ChangeVehicleStatus

LEMMA MileageFormAgrees ==
  Agrees(F!MileageForm, {})
BY DEF Agrees, Fair, F!Kept, F!FormFor, F!MileageForm, F!RecordMileage, F!TextBox, F!NumberBox,
     F!Typed, F!Figures, F!Must, F!Whole, F!Note, F!Required, F!Optional, F!Reader

LEMMA FineFormAgrees ==
  Agrees(F!FineForm, {})
BY TextFits, NumbersFit, ChoicesFit, BlankIs, BoxIs, ChoicesAreMade DEF Agrees, F!FineForm,
     F!FormFor, F!RecordFine

LEMMA FineActionFormAgrees ==
  Agrees(F!FineActionForm, {})
BY TextFits, NumbersFit, BlankIs, BoxIs, ChoicesAreMade DEF Agrees, F!FineActionForm, F!FormFor,
     F!TransitionFine

LEMMA AccidentFormAgrees ==
  Agrees(F!AccidentForm, {})
BY TextFits, NumbersFit, ChoicesFit, BlankIs, BoxIs, ChoicesAreMade DEF Agrees, F!AccidentForm,
     F!FormFor, F!RecordAccident

LEMMA RepairFormAgrees ==
  Agrees(F!RepairForm, {})
BY TextFits, NumbersFit, BlankIs, BoxIs, ChoicesAreMade DEF Agrees, F!RepairForm, F!FormFor,
     F!RecordRepair

LEMMA ClaimFormAgrees ==
  Agrees(F!ClaimForm, {})
BY TextFits, NumbersFit, BlankIs, BoxIs, ChoicesAreMade DEF Agrees, F!ClaimForm, F!FormFor,
     F!LodgeClaim

LEMMA ApproveFormAgrees ==
  Agrees(F!StatusMoveForm("APPROVED"), {})
BY TextFits, BlankIs, BoxIs, ChoicesAreMade DEF Agrees, F!StatusMoveForm, F!FormFor,
     F!TransitionClaim

LEMMA SettleFormAgrees ==
  Agrees(F!StatusMoveForm("SETTLED"), {"settledOn"})
BY TextFits, NumbersFit, BlankIs, BoxIs, ChoicesAreMade DEF Agrees, F!StatusMoveForm, F!FormFor,
     F!TransitionClaim

LEMMA RejectFormAgrees ==
  Agrees(F!StatusMoveForm("REJECTED"), {})
BY TextFits, BlankIs, BoxIs, ChoicesAreMade DEF Agrees, F!StatusMoveForm, F!FormFor,
     F!TransitionClaim

LEMMA LodgeFormAgrees ==
  Agrees(F!StatusMoveForm("LODGED"), {})
BY TextFits, BlankIs, BoxIs, ChoicesAreMade DEF Agrees, F!StatusMoveForm, F!FormFor,
     F!TransitionClaim, F!NoFields

LEMMA PolicyFormAgrees ==
  Agrees(F!PolicyForm, {"startDate", "expiryDate"})
<1>. DEFINE filled == F!PolicyForm
            reads == filled.action.reads
<1>1. Fair(reads["coverage"], filled.box["coverage"])
  BY DEF Fair, F!Kept, F!PolicyForm, F!FormFor, F!AddPolicy, F!OrElse, F!Reader
<1>2. \A f \in DOMAIN filled.box : f # "coverage" => Fair(reads[f], filled.box[f])
  BY TextFits, NumbersFit DEF F!PolicyForm, F!FormFor, F!AddPolicy
<1>3. \A f \in DOMAIN filled.box :
        f \in {"startDate", "expiryDate"} <=>
          /\ "blank" \in filled.box[f] /\ ~(f \in filled.starred <=> reads[f].blank = "refused")
  BY BlankIs, BoxIs DEF F!PolicyForm, F!FormFor, F!AddPolicy
<1>4. /\ {"startDate", "expiryDate"} \subseteq DOMAIN filled.box
      /\ DOMAIN filled.box \subseteq DOMAIN reads
      /\ \A f \in DOMAIN reads : f \notin DOMAIN filled.box => reads[f].blank # "refused"
  BY BlankIs DEF F!PolicyForm, F!FormFor, F!AddPolicy
<1>. HIDE DEF filled, reads
<1>. QED BY <1>1, <1>2, <1>3, <1>4 DEF Agrees, filled, reads

LEMMA CancelPolicyFormAgrees ==
  Agrees(F!CancelPolicyForm, {"reason"})
BY TextFits, BlankIs, BoxIs, ChoicesAreMade DEF Agrees, F!CancelPolicyForm, F!FormFor,
     F!CancelPolicy

LEMMA MaintenanceFormAgrees ==
  Agrees(F!MaintenanceForm, {"servicedOn", "odometerKm"})
BY TextFits, NumbersFit, ChoicesFit, BlankIs, BoxIs, ChoicesAreMade DEF Agrees, F!MaintenanceForm,
     F!FormFor, F!RecordMaintenance

LEMMA PaymentFormAgrees ==
  Agrees(F!PaymentForm, {"receivedOn"})
BY TextFits, NumbersFit, ChoicesFit, BlankIs, BoxIs, ChoicesAreMade DEF Agrees, F!PaymentForm,
     F!FormFor, F!RecordPayment

LEMMA WaiveFormAgrees ==
  Agrees(F!WaiveForm, {"reason"})
BY TextFits, BlankIs, BoxIs, ChoicesAreMade DEF Agrees, F!WaiveForm, F!FormFor, F!WaiveInstallment

LEMMA SupplierPaymentFormAgrees ==
  Agrees(F!SupplierPaymentForm, {"invoiceId", "paidOn"})
BY TextFits, NumbersFit, ChoicesFit, BlankIs, BoxIs, ChoicesAreMade DEF Agrees,
     F!SupplierPaymentForm, F!FormFor, F!RecordSupplierPayment

LEMMA OpenSettlementFormAgrees ==
  Agrees(F!OpenSettlementForm, {})
BY NumbersFit, ChoicesFit, BlankIs, BoxIs, ChoicesAreMade DEF Agrees, F!OpenSettlementForm,
     F!FormFor, F!OpenSettlement

LEMMA TerminateFormAgrees ==
  Agrees(F!TerminateForm(FALSE), {})
BY DEF Agrees, Fair, F!Kept, F!FormFor, F!TerminateForm, F!TerminateContract, F!OrElse, F!Reader

LEMMA TerminateSoldFormAgrees ==
  Agrees(F!TerminateForm(TRUE), {})
BY DEF Agrees, Fair, F!Kept, F!FormFor, F!TerminateForm, F!TerminateContract, F!OrElse, F!Reader

LEMMA HandoverFormAgrees ==
  Agrees(F!HandoverForm, {"odometerKm"})
BY DEF Agrees, Fair, F!Kept, F!FormFor, F!HandoverForm, F!RecordHandover, F!OrElse, F!Reader,
     F!Required, F!Optional, F!Note, F!Whole, F!Pad, F!Day, F!Eighths, F!NumberBox, F!TextBox,
     F!Typed, F!Figures

LEMMA AddDamageFormAgrees ==
  Agrees(F!AddDamageForm, {"panel"})
BY TextFits, NumbersFit, ChoicesFit, BlankIs, BoxIs, ChoicesAreMade DEF Agrees, F!AddDamageForm,
     F!FormFor, F!AddDamagePoint

LEMMA SignHandoverFormAgrees ==
  Agrees(F!SignHandoverForm, {"customerSignature", "staffSignature"})
BY TextFits, NumbersFit, BlankIs, BoxIs, ChoicesAreMade DEF Agrees, F!SignHandoverForm, F!FormFor,
     F!SignHandover

LEMMA LeadOnFormAgrees ==
  Agrees(F!LeadStatusForm("QUALIFIED"), {})
BY DEF Agrees, Fair, F!Kept, F!FormFor, F!LeadStatusForm, F!ChangeLeadStatus, F!Required,
     F!Optional, F!Note, F!Reader, F!LeadStatuses, F!EarnedLeadStatuses

LEMMA LeadLostFormAgrees ==
  Agrees(F!LeadStatusForm("LOST"), {"reason"})
BY DEF Agrees, Fair, F!Kept, F!FormFor, F!LeadStatusForm, F!ChangeLeadStatus, F!Required, F!Name,
     F!Reader, F!LeadStatuses, F!EarnedLeadStatuses, F!TextBox, F!Typed, F!Figures

LEMMA ConvertFormAgrees ==
  Agrees(F!ConvertForm, {"startDate"})
BY NumbersFit, BlankIs, BoxIs, ChoicesAreMade DEF Agrees, F!ConvertForm, F!FormFor, F!ConvertLead

LEMMA NewCustomerFormAgrees ==
  Agrees(F!CustomerForm(F!CreateCustomer), {})
BY TextFits, NumbersFit, BlankIs, BoxIs, ChoicesAreMade DEF Agrees, F!CustomerForm, F!FormFor,
     F!CreateCustomer, F!CustomerSchema

LEMMA CustomerFormAgrees ==
  Agrees(F!CustomerForm(F!UpdateCustomer), {})
BY TextFits, NumbersFit, BlankIs, BoxIs, ChoicesAreMade DEF Agrees, F!CustomerForm, F!FormFor,
     F!UpdateCustomer, F!CustomerSchema

LEMMA NewSupplierFormAgrees ==
  Agrees(F!SupplierForm(F!CreateSupplier), {})
BY TextFits, BlankIs, BoxIs, ChoicesAreMade DEF Agrees, F!SupplierForm, F!FormFor, F!CreateSupplier,
     F!SupplierSchema

LEMMA SupplierFormAgrees ==
  Agrees(F!SupplierForm(F!UpdateSupplier), {})
BY TextFits, BlankIs, BoxIs, ChoicesAreMade DEF Agrees, F!SupplierForm, F!FormFor, F!UpdateSupplier,
     F!SupplierSchema

LEMMA CategoryFormAgrees ==
  Agrees(F!CategoryForm(F!CreateDocumentCategory(FALSE), FALSE), {"appliesTo"})
BY DEF Agrees, Fair, F!Kept, F!FormFor, F!CategoryForm, F!CreateDocumentCategory, F!ReadCategory,
     F!OrElse, F!Reader, F!LongName, F!Required, F!TextBox, F!Typed, F!Figures, F!OrNone, F!Owners,
     F!Whole

LEMMA ExpiringCategoryFormAgrees ==
  Agrees(F!CategoryForm(F!UpdateDocumentCategory(TRUE), TRUE), {"appliesTo", "reminders"})
BY DEF Agrees, Fair, F!Kept, F!FormFor, F!CategoryForm, F!UpdateDocumentCategory, F!ReadCategory,
     F!OrElse, F!Reader, F!LongName, F!Required, F!TextBox, F!Typed, F!Figures, F!OrNone, F!Owners,
     F!Whole

LEMMA UploadFormAgrees ==
  Agrees(F!DocumentUploadForm(FALSE), {})
BY TextFits, NumbersFit, BlankIs, BoxIs, ChoicesAreMade DEF Agrees, F!DocumentUploadForm, F!FormFor,
     F!UploadDocument

LEMMA ExpiringUploadFormAgrees ==
  Agrees(F!DocumentUploadForm(TRUE), {})
BY TextFits, NumbersFit, BlankIs, BoxIs, ChoicesAreMade DEF Agrees, F!DocumentUploadForm, F!FormFor,
     F!UploadDocument

LEMMA CreateUserFormAgrees ==
  Agrees(F!CreateUserForm, {})
BY TextFits, NumbersFit, BlankIs, BoxIs, ChoicesAreMade DEF Agrees, F!CreateUserForm, F!FormFor,
     F!CreateUser

LEMMA ResetPasswordFormAgrees ==
  Agrees(F!ResetPasswordForm, {})
BY TextFits, BlankIs, BoxIs, ChoicesAreMade DEF Agrees, F!ResetPasswordForm, F!FormFor,
     F!ResetUserPassword

LEMMA PasswordFormAgrees ==
  Agrees(F!PasswordForm, {})
BY TextFits, BlankIs, BoxIs, ChoicesAreMade DEF Agrees, F!PasswordForm, F!FormFor, F!ChangePassword

LEMMA PreferencesFormAgrees ==
  Agrees(F!PreferencesForm, {})
BY DEF Agrees, Fair, F!Kept, F!FormFor, F!PreferencesForm, F!SetEmailNotifications, F!OrElse,
     F!Reader

Keeps(reader, box) ==
  \A v \in reader.takes \cup (IF reader.blank = "nothing" THEN {"nothing"} ELSE {})
                        \cup (IF "row" \in reader.takes THEN {"gone"} ELSE {}) :
    v # "refused" /\ F!Kept(reader, IF v = "nothing" \/ v \notin box THEN "blank" ELSE v) = v

Untouched(filled, lost, stuck) ==
  /\ lost \subseteq DOMAIN filled.box /\ stuck \subseteq DOMAIN filled.box
  /\ lost \cap stuck = {} /\ "ownershipType" \notin lost \cup stuck
  /\ \A f \in lost : filled.action.reads[f] = F!Optional(F!Rows) /\ filled.box[f] = F!OrNone(F!Rows)
  /\ \A f \in stuck : filled.action.reads[f] = F!Required(F!Rows) /\ filled.box[f] = F!OrNone(F!Rows)
  /\ "ownershipType" \in DOMAIN filled.box =>
       /\ filled.action.reads["ownershipType"] = F!Required(F!Ownerships)
       /\ filled.box["ownershipType"] \subseteq F!Ownerships
  /\ \A f \in DOMAIN filled.box : f \notin lost \cup stuck \cup {"ownershipType"} =>
       Keeps(filled.action.reads[f], filled.box[f])

LEMMA UntouchedIs ==
  ASSUME NEW filled, NEW lost, NEW stuck, Untouched(filled, lost, stuck)
  PROVE  F!Forgotten(filled) = lost /\ F!Stuck(filled) = stuck
<1>. DEFINE reads == filled.action.reads
            back(f, v) == F!Kept(reads[f], F!Shown(filled, f, v))
<1>1. \A f \in lost : \E v \in F!Stored(filled, f) : back(f, v) \notin {v, "refused"}
  <2>. SUFFICES ASSUME NEW f \in lost PROVE "gone" \in F!Stored(filled, f) /\ back(f, "gone") = "nothing"
    BY DEF Untouched
  <2>. QED BY DEF Untouched, F!Stored, F!Shown, F!Kept, F!Optional, F!Reader, F!OrNone, F!Rows
<1>2. \A f \in lost : \A v \in F!Stored(filled, f) : back(f, v) # "refused"
  BY DEF Untouched, F!Stored, F!Shown, F!Kept, F!Optional, F!Reader, F!OrNone, F!Rows
<1>3. \A f \in stuck : \E v \in F!Stored(filled, f) : back(f, v) = "refused"
  <2>. SUFFICES ASSUME NEW f \in stuck PROVE "gone" \in F!Stored(filled, f) /\ back(f, "gone") = "refused"
    BY DEF Untouched
  <2>. QED BY DEF Untouched, F!Stored, F!Shown, F!Kept, F!Required, F!Reader, F!OrNone, F!Rows
<1>4. \A f \in stuck : \A v \in F!Stored(filled, f) : back(f, v) \in {v, "refused"}
  BY DEF Untouched, F!Stored, F!Shown, F!Kept, F!Required, F!Reader, F!OrNone, F!Rows
<1>5. ASSUME "ownershipType" \in DOMAIN filled.box, NEW v \in F!Stored(filled, "ownershipType")
      PROVE  back("ownershipType", v) = v /\ v # "refused"
  BY <1>5 DEF Untouched, F!Stored, F!Shown, F!Kept, F!Required, F!Reader, F!Ownerships
<1>6. ASSUME NEW f \in DOMAIN filled.box, f \notin lost \cup stuck \cup {"ownershipType"},
             NEW v \in F!Stored(filled, f)
      PROVE  back(f, v) = v /\ v # "refused"
  BY <1>6 DEF Untouched, F!Stored, F!Shown, Keeps
<1>. HIDE DEF back
<1>7. F!Forgotten(filled) = {f \in DOMAIN filled.box : \E v \in F!Stored(filled, f) :
          back(f, v) \notin {v, "refused"}}
  BY DEF F!Forgotten, back
<1>8. F!Stuck(filled) = {f \in DOMAIN filled.box : \E v \in F!Stored(filled, f) : back(f, v) = "refused"}
  BY DEF F!Stuck, back
<1>9. \A f \in DOMAIN filled.box :
        f \in lost <=> \E v \in F!Stored(filled, f) : back(f, v) \notin {v, "refused"}
  BY <1>1, <1>4, <1>5, <1>6 DEF Untouched
<1>10. \A f \in DOMAIN filled.box :
        f \in stuck <=> \E v \in F!Stored(filled, f) : back(f, v) = "refused"
  BY <1>2, <1>3, <1>5, <1>6 DEF Untouched
<1>. QED BY <1>7, <1>8, <1>9, <1>10 DEF Untouched
LEMMA TextKept ==
  /\ Keeps(F!Name, F!TextBox) /\ Keeps(F!Note, F!TextBox) /\ Keeps(F!LongName, F!TextBox)
  /\ Keeps(F!Required({"letter", "fit", "zero", "whole"}), F!TextBox)
  /\ Keeps(F!Required(F!Whole \cup {"fit"}), F!TextBox) /\ Keeps(F!Required({"fit"}), F!TextBox)
  /\ Keeps(F!Optional({"fit"}), F!TextBox) 
  /\ Keeps(F!Required(F!Money), F!TextBox) /\ Keeps(F!Optional(F!Money), F!TextBox)
BY DEF Keeps, F!Kept, F!Name, F!Note, F!LongName, F!TextBox, F!Typed, F!Figures, F!Required,
   F!Optional, F!Reader, F!Money, F!Whole

LEMMA ChoicesKept ==
  /\ Keeps(F!Required({"large"}), F!NumberBox) /\ Keeps(F!Optional(F!Months), F!NumberBox)
  /\ Keeps(F!Optional(F!Day), F!DateBox) /\ Keeps(F!Required(F!Emirates), F!Emirates)
  /\ Keeps(F!OrElse(F!LeadSources, "OTHER"), F!LeadSources)
  /\ Keeps(F!Reader(F!Whole, "zero", "refused"), F!NumberBox)
BY DEF Keeps, F!Kept, F!NumberBox, F!DateBox, F!Required, F!Optional, F!OrElse, F!Reader, F!Months,
   F!Day, F!Whole, F!Emirates, F!LeadSources

LEMMA ContractFormsAgree ==
  ASSUME NEW type \in {"LONG_TERM_RENTAL", "LEASE_TO_OWN"}
  PROVE  Agrees(F!ContractForm(type), {"startDate", "durationMonths"})
<1>. DEFINE filled == F!ContractForm(type)
            reads == filled.action.reads
<1>1. /\ \A f \in DOMAIN filled.box : f \in
           {"type", "customerId", "vehicleId", "startDate", "durationMonths", "monthlyRental",
            "downPayment", "annualInsurance", "mileageAllowanceKm", "excessMileageRate", "terms", "buyout"}
      /\ {"type", "customerId", "vehicleId", "startDate", "durationMonths", "monthlyRental",
            "downPayment", "annualInsurance", "mileageAllowanceKm", "excessMileageRate",
                "terms"} \subseteq DOMAIN filled.box
      /\ "buyout" \in DOMAIN filled.box => type = "LEASE_TO_OWN"
      /\ filled.starred = {"customerId", "vehicleId", "monthlyRental"}
      /\ filled.action = F!CreateContract(type)
  BY DEF F!ContractForm, F!FormFor
<1>2. /\ filled.box["type"] = {type}
      /\ filled.box["customerId"] = F!OrNone(F!Rows) /\ filled.box["vehicleId"] = F!OrNone(F!Rows)
      /\ filled.box["startDate"] = F!DateBox /\ filled.box["durationMonths"] = F!NumberBox
      /\ \A f \in DOMAIN filled.box : f \notin {"type", "customerId", "vehicleId", "startDate",
             "durationMonths"} =>
           filled.box[f] = F!TextBox
  BY DEF F!ContractForm, F!FormFor
<1>3. /\ \A f \in DOMAIN reads : f \in DOMAIN filled.box \/ f = "buyout"
      /\ \A f \in DOMAIN filled.box : f \in DOMAIN reads
      /\ reads["type"] = F!Required(F!ContractTypes)
      /\ reads["customerId"] = F!Required(F!Rows) /\ reads["vehicleId"] = F!Required(F!Rows)
      /\ reads["startDate"] = F!Required(F!Day) /\ reads["durationMonths"] = F!Required(F!Months)
      /\ reads["monthlyRental"] = F!Required(F!Money) /\ reads["excessMileageRate"] = F!Optional(F!Money)
      /\ \A f \in {"downPayment", "annualInsurance"} : reads[f] = F!Reader(F!Money, "zero", "refused")
      /\ reads["buyout"] = IF type = "LEASE_TO_OWN" THEN F!Reader(F!Money, "zero", "refused")
             ELSE F!OrElse({}, "zero")
      /\ reads["mileageAllowanceKm"] = F!Optional(F!Whole \cup {"grouped"}) /\ reads["terms"] = F!Note
  BY <1>1 DEF F!CreateContract
<1>. HIDE DEF filled, reads
<1>4. \A f \in DOMAIN filled.box : Fair(reads[f], filled.box[f])
  <2>1. Fair(F!Required(F!ContractTypes), {type})
    BY DEF Fair, F!Kept, F!Required, F!Reader, F!ContractTypes
  <2>. QED BY <1>1, <1>2, <1>3, <2>1, TextFits, NumbersFit
<1>5. \A f \in DOMAIN filled.box :
       f \in {"startDate", "durationMonths"} <=> /\ "blank" \in filled.box[f]
                        /\ ~(f \in filled.starred <=> reads[f].blank = "refused")
  BY <1>1, <1>2, <1>3, BlankIs, BoxIs
<1>6. "buyout" \notin DOMAIN filled.box => reads["buyout"].blank # "refused"
  BY <1>3, BlankIs
<1>. QED BY <1>1, <1>3, <1>4, <1>5, <1>6 DEF Agrees, filled, reads

LEMMA QuoteFormsAgree ==
  ASSUME NEW type \in {"LONG_TERM_RENTAL", "LEASE_TO_OWN"}
  PROVE  Agrees(F!QuoteForm(type), {"vehicleId", "durationMonths", "monthlyRental"})
<1>. DEFINE filled == F!QuoteForm(type)
            reads == filled.action.reads
            always == {"type", "vehicleId", "durationMonths", "monthlyRental", "downPayment", "annualInsurance"}
<1>1. /\ DOMAIN filled.box = always \cup (IF type = "LEASE_TO_OWN" THEN {"buyout"} ELSE {})
      /\ filled.starred = {} /\ filled.action = F!SaveQuote(type)
  BY DEF F!QuoteForm, F!FormFor
<1>2. /\ filled.box["type"] = {type} /\ filled.box["vehicleId"] = F!OrNone(F!Rows)
      /\ filled.box["durationMonths"] = F!NumberBox
      /\ \A f \in DOMAIN filled.box : f \notin {"type", "vehicleId", "durationMonths"} =>
             filled.box[f] = F!TextBox
  BY DEF F!QuoteForm, F!FormFor
<1>3. /\ DOMAIN reads = always \cup {"buyout"}
      /\ reads["type"] = F!OrElse(F!ContractTypes, "LONG_TERM_RENTAL")
      /\ reads["vehicleId"] = F!Required(F!Rows) /\ reads["durationMonths"] = F!Required(F!Months)
      /\ reads["monthlyRental"] = F!Required(F!Money \ {"zero"})
      /\ \A f \in {"downPayment", "annualInsurance"} : reads[f] = F!Reader(F!Money, "zero", "refused")
      /\ type = "LEASE_TO_OWN" => reads["buyout"] = F!Reader(F!Money, "zero", "refused")
      /\ type # "LEASE_TO_OWN" => reads["buyout"] = F!OrElse({}, "zero")
  BY <1>1 DEF F!SaveQuote
<1>. HIDE DEF filled, reads
<1>10. Fair(F!OrElse(F!ContractTypes, "LONG_TERM_RENTAL"), {type})
  BY DEF Fair, F!Kept, F!OrElse, F!Reader, F!ContractTypes
<1>4. \A f \in DOMAIN filled.box : f \in DOMAIN reads /\ Fair(reads[f], filled.box[f])
  BY <1>1, <1>2, <1>3, <1>10, TextFits, NumbersFit
<1>5. \A f \in DOMAIN filled.box :
        f \in {"vehicleId", "durationMonths", "monthlyRental"} <=>
          /\ "blank" \in filled.box[f] /\ ~(f \in filled.starred <=> reads[f].blank = "refused")
  BY <1>1, <1>2, <1>3, BlankIs, BoxIs, ChoicesAreMade
<1>6. \A f \in DOMAIN reads : f \notin DOMAIN filled.box => reads[f].blank # "refused"
  BY <1>1, <1>3, BlankIs
<1>. QED BY <1>1, <1>4, <1>5, <1>6 DEF Agrees, filled, reads

LEMMA LeadFormsAgree ==
  ASSUME NEW action, NEW can \in BOOLEAN, action \in {F!CreateLead(can), F!UpdateLead(can)}
  PROVE  /\ Agrees(F!LeadForm(action, can), {})
         /\ Untouched(F!LeadForm(action, can),
                      {"interestedVehicleId"} \cup IF can THEN {"salespersonId"} ELSE {}, {})
<1>. DEFINE filled == F!LeadForm(action, can)
            reads == filled.action.reads
            always == {"name", "mobile", "email", "source", "interestedVehicleId", "budget",
                "durationMonths", "notes"}
<1>1. /\ DOMAIN filled.box = always \cup (IF can THEN {"salespersonId"} ELSE {})
      /\ filled.starred = {"name", "mobile"} /\ filled.action = action
  BY DEF F!LeadForm, F!FormFor
<1>2. /\ filled.box["source"] = F!LeadSources /\ filled.box["durationMonths"] = F!NumberBox
      /\ filled.box["interestedVehicleId"] = F!OrNone(F!Rows)
      /\ can => filled.box["salespersonId"] = F!OrNone(F!Rows)
      /\ \A f \in {"name", "mobile", "email", "budget", "notes"} : filled.box[f] = F!TextBox
  BY DEF F!LeadForm, F!FormFor
<1>3. /\ DOMAIN reads = always \cup {"salespersonId"}
      /\ reads["name"] = F!Name /\ reads["mobile"] = F!Required({"fit"})
      /\ reads["email"] = F!Note /\ reads["notes"] = F!Note
      /\ reads["source"] = F!OrElse(F!LeadSources, "OTHER")
      /\ reads["interestedVehicleId"] = F!Optional(F!Rows)
      /\ reads["budget"] = F!Optional(F!Money) /\ reads["durationMonths"] = F!Optional(F!Months)
      /\ can => reads["salespersonId"] = F!Optional(F!Rows)
      /\ ~can => reads["salespersonId"] = F!Unread
  BY <1>1 DEF F!CreateLead, F!UpdateLead, F!ReadLead
<1>. HIDE DEF filled, reads
<1>10. Fair(F!OrElse(F!LeadSources, "OTHER"), F!LeadSources)
  BY DEF Fair, F!Kept, F!OrElse, F!Reader, F!LeadSources
<1>4. \A f \in DOMAIN filled.box : f \in DOMAIN reads /\ Fair(reads[f], filled.box[f])
  BY <1>1, <1>2, <1>3, <1>10, TextFits, NumbersFit
<1>5. \A f \in DOMAIN filled.box :
        f \in {} <=>
          /\ "blank" \in filled.box[f] /\ ~(f \in filled.starred <=> reads[f].blank = "refused")
  BY <1>1, <1>2, <1>3, BlankIs, BoxIs, ChoicesAreMade
<1>6. \A f \in DOMAIN reads : f \notin DOMAIN filled.box => reads[f].blank # "refused"
  BY <1>1, <1>3, BlankIs
<1>7. \A f \in DOMAIN filled.box :
        f # "ownershipType" /\ (f \notin {"interestedVehicleId", "salespersonId"} =>
            Keeps(reads[f], filled.box[f]))
  BY <1>1, <1>2, <1>3, TextKept, ChoicesKept
<1>8. Agrees(filled, {})
  BY <1>1, <1>4, <1>5, <1>6 DEF Agrees, reads
<1>9. Untouched(filled, {"interestedVehicleId"} \cup IF can THEN {"salespersonId"} ELSE {}, {})
  BY <1>1, <1>2, <1>3, <1>7 DEF Untouched, reads
<1>. QED BY <1>8, <1>9 DEF filled

LEMMA LineFormsAgree ==
  ASSUME NEW kind \in {"CHARGE", "CREDIT"}
  PROVE  Agrees(F!SettlementLineForm(kind), {})
<1>. DEFINE filled == F!SettlementLineForm(kind)
            reads == filled.action.reads
            always == {"kind", "label", "amount"}
<1>1. /\ DOMAIN filled.box = always \cup (IF kind = "CHARGE" THEN {"chargeType"} ELSE {})
      /\ filled.starred = {"amount"} /\ filled.action = F!AddSettlementLine
  BY DEF F!SettlementLineForm, F!FormFor
<1>2. /\ filled.box["kind"] = {kind} /\ (kind = "CHARGE" => filled.box["chargeType"] = F!ChargeTypes)
      /\ \A f \in {"label", "amount"} : filled.box[f] = F!Must(F!TextBox)
  BY DEF F!SettlementLineForm, F!FormFor
<1>3. /\ DOMAIN reads = always \cup {"chargeType"}
      /\ reads["kind"] = F!OrElse({"CREDIT"}, "CHARGE")
      /\ reads["chargeType"] = F!OrElse(F!ChargeTypes, "OTHER")
      /\ reads["label"] = F!Name /\ reads["amount"] = F!Required(F!Money \ {"zero"})
  BY <1>1 DEF F!AddSettlementLine
<1>. HIDE DEF filled, reads
<1>10. Fair(F!OrElse({"CREDIT"}, "CHARGE"), {kind}) /\ Fair(F!OrElse(F!ChargeTypes, "OTHER"), F!ChargeTypes)
  BY DEF Fair, F!Kept, F!OrElse, F!Reader, F!ChargeTypes
<1>4. \A f \in DOMAIN filled.box : f \in DOMAIN reads /\ Fair(reads[f], filled.box[f])
  BY <1>1, <1>2, <1>3, <1>10, TextFits
<1>5. \A f \in DOMAIN filled.box :
        f \in {} <=>
          /\ "blank" \in filled.box[f] /\ ~(f \in filled.starred <=> reads[f].blank = "refused")
  BY <1>1, <1>2, <1>3, BlankIs, BoxIs, ChoicesAreMade
<1>6. \A f \in DOMAIN reads : f \notin DOMAIN filled.box => reads[f].blank # "refused"
  BY <1>1, <1>3, BlankIs
<1>. QED BY <1>1, <1>4, <1>5, <1>6 DEF Agrees, filled, reads

LEMMA ExpenseFormsAgree ==
  ASSUME NEW of \in {"VEHICLE", "CONTRACT", "COMPANY"}
  PROVE  Agrees(F!ExpenseForm(of), ({"description"} \cup IF of = "VEHICLE" THEN {"vehicleId"}
             ELSE IF of = "CONTRACT" THEN {"contractId"} ELSE {}))
<1>. DEFINE filled == F!ExpenseForm(of)
            reads == filled.action.reads
            always == {"category", "allocation", "incurredOn", "amount", "vatBasisPoints",
                "supplierName", "referenceNumber", "description"}
<1>1. /\ DOMAIN filled.box = always \cup (IF of = "VEHICLE" THEN {"vehicleId"} ELSE {})
             \cup (IF of = "CONTRACT" THEN {"contractId"} ELSE {})
      /\ filled.starred = {"incurredOn", "amount"} /\ filled.action = F!RecordExpense(of)
  BY DEF F!ExpenseForm, F!FormFor
<1>2. /\ filled.box["category"] = F!ExpenseCategories /\ filled.box["allocation"] = {of}
      /\ filled.box["incurredOn"] = F!DateBox /\ filled.box["vatBasisPoints"] = {"0", "500"}
      /\ \A f \in {"vehicleId", "contractId"} \cap DOMAIN filled.box : filled.box[f] = F!OrNone(F!Rows)
      /\ \A f \in {"amount", "supplierName", "referenceNumber", "description"} : filled.box[f] = F!TextBox
  BY DEF F!ExpenseForm, F!FormFor
<1>3. /\ DOMAIN reads = always \cup {"vehicleId", "contractId", "notes"}
      /\ reads["category"] = F!Required(F!ExpenseCategories)
      /\ reads["allocation"] = F!Required({"VEHICLE", "CONTRACT", "COMPANY"})
      /\ reads["incurredOn"] = F!Required(F!Day) /\ reads["amount"] = F!Required(F!Money)
      /\ reads["vatBasisPoints"] = F!Reader({"0", "500"}, "usual", "refused")
      /\ reads["description"] = F!Name
      /\ \A f \in {"supplierName", "referenceNumber", "notes"} : reads[f] = F!Note
      /\ reads["vehicleId"] = IF of = "VEHICLE" THEN F!Required(F!Rows) ELSE F!Unread
      /\ reads["contractId"] = IF of = "CONTRACT" THEN F!Required(F!Rows) ELSE F!Unread
  BY <1>1 DEF F!RecordExpense
<1>. HIDE DEF filled, reads
<1>10. /\ Fair(F!Required(F!ExpenseCategories), F!ExpenseCategories)
       /\ Fair(F!Required({"VEHICLE", "CONTRACT", "COMPANY"}), {of})
       /\ Fair(F!Reader({"0", "500"}, "usual", "refused"), {"0", "500"})
  BY DEF Fair, F!Kept, F!Required, F!Reader, F!ExpenseCategories
<1>4. \A f \in DOMAIN filled.box : f \in DOMAIN reads /\ Fair(reads[f], filled.box[f])
  BY <1>1, <1>2, <1>3, <1>10, TextFits, NumbersFit
<1>5. \A f \in DOMAIN filled.box :
        f \in ({"description"} \cup IF of = "VEHICLE" THEN {"vehicleId"}
            ELSE IF of = "CONTRACT" THEN {"contractId"} ELSE {}) <=>
          /\ "blank" \in filled.box[f] /\ ~(f \in filled.starred <=> reads[f].blank = "refused")
  BY <1>1, <1>2, <1>3, BlankIs, BoxIs, ChoicesAreMade
<1>6. \A f \in DOMAIN reads : f \notin DOMAIN filled.box => reads[f].blank # "refused"
  BY <1>1, <1>3, BlankIs
<1>. QED BY <1>1, <1>4, <1>5, <1>6 DEF Agrees, filled, reads

LEMMA VehicleFormsAgree ==
  ASSUME NEW owner \in F!Ownerships, NEW kind \in {"create", "edit"}, NEW action,
         action = IF kind = "create" THEN F!CreateVehicle(owner) ELSE F!UpdateVehicle(owner)
  PROVE  /\ Agrees(F!VehicleForm(action, owner, kind), {})
         /\ Untouched(F!VehicleForm(action, owner, kind), {},
                      IF owner = "B2B_SUPPLIER" THEN {"supplierId"} ELSE {})
<1>. DEFINE filled == F!VehicleForm(action, owner, kind)
            reads == filled.action.reads
            common == F!ReadVehicleForm(owner)
            always == {"make", "model", "year", "variant", "colour", "plateEmirate", "plateCode",
                       "plateNumber", "vin", "ownershipType", "sourceDate", "notes"}
<1>1. /\ DOMAIN filled.box = always \cup (IF kind = "create" THEN {"currentMileageKm"} ELSE {})
           \cup (IF owner = "B2B_SUPPLIER" THEN {"supplierId", "supplierMonthlyCost"} ELSE {})
           \cup (IF owner = "COMPANY_OWNED" THEN {"purchasePrice"} ELSE {})
      /\ filled.action = action
      /\ filled.starred = DOMAIN filled.box \cap {"make", "model", "year", "plateEmirate", "plateCode",
                                            "plateNumber", "vin", "supplierId", "supplierMonthlyCost"}
  BY DEF F!VehicleForm, F!Ownerships, F!FormFor
<1>2. /\ \A f \in {"year", "currentMileageKm"} \cap DOMAIN filled.box : filled.box[f] = F!NumberBox
      /\ filled.box["plateEmirate"] = F!Emirates /\ filled.box["ownershipType"] = {owner}
      /\ filled.box["sourceDate"] = F!DateBox
      /\ "supplierId" \in DOMAIN filled.box => filled.box["supplierId"] = F!OrNone(F!Rows)
      /\ \A f \in {"make", "model", "variant", "colour", "plateCode", "plateNumber", "vin", "notes",
                 "supplierMonthlyCost", "purchasePrice"} \cap DOMAIN filled.box : filled.box[f] = F!TextBox
  BY DEF F!VehicleForm, F!Ownerships, F!FormFor
<1>3. /\ DOMAIN common = always \cup {"supplierId", "supplierMonthlyCost", "purchasePrice"}
      /\ \A f \in {"make", "model"} : common[f] = F!Name
      /\ \A f \in {"variant", "colour", "notes"} : common[f] = F!Note
      /\ common["year"] = F!Required({"large"}) /\ common["plateEmirate"] = F!Required(F!Emirates)
      /\ common["plateCode"] = F!Required({"letter", "fit", "zero", "whole"})
      /\ common["plateNumber"] = F!Required(F!Whole \cup {"fit"})
      /\ common["vin"] = F!Required({"fit"}) /\ common["ownershipType"] = F!Required(F!Ownerships)
      /\ common["sourceDate"] = F!Optional(F!Day)
      /\ common["supplierId"] = IF owner = "B2B_SUPPLIER" THEN F!Required(F!Rows) ELSE F!Unread
      /\ common["supplierMonthlyCost"] = IF owner = "B2B_SUPPLIER" THEN F!Required(F!Money) ELSE F!Unread
      /\ common["purchasePrice"] = IF owner = "COMPANY_OWNED" THEN F!Optional(F!Money) ELSE F!Unread
  BY DEF F!ReadVehicleForm
<1>. HIDE DEF common
<1>4. /\ DOMAIN reads = DOMAIN common \cup IF kind = "create" THEN {"currentMileageKm"} ELSE {}
      /\ \A f \in DOMAIN common : reads[f] = common[f]
      /\ kind = "create" => reads["currentMileageKm"] = F!Reader(F!Whole, "zero", "refused")
  <2>. DEFINE with == F!With(common, "currentMileageKm", F!Reader(F!Whole, "zero", "refused"))
  <2>1. /\ DOMAIN with = DOMAIN common \cup {"currentMileageKm"}
        /\ \A f \in DOMAIN common : f # "currentMileageKm" => with[f] = common[f]
        /\ with["currentMileageKm"] = F!Reader(F!Whole, "zero", "refused")
    BY DEF F!With
  <2>2. reads = IF kind = "create" THEN with ELSE common
    BY <1>1 DEF F!CreateVehicle, F!UpdateVehicle, common
  <2>. HIDE DEF with, reads
  <2>. QED BY <1>3, <2>1, <2>2
<1>. HIDE DEF filled, reads
<1>5. Fair(F!Required(F!Emirates), F!Emirates) /\ Fair(F!Required(F!Ownerships), {owner})
  BY DEF Fair, F!Kept, F!Required, F!Reader, F!Emirates, F!Ownerships
<1>6. \A f \in DOMAIN filled.box : f \in DOMAIN reads /\ Fair(reads[f], filled.box[f])
  <2>1. \A f \in DOMAIN filled.box : f \in DOMAIN common \cup {"currentMileageKm"} /\ f \in DOMAIN reads
    BY <1>1, <1>3, <1>4
  <2>2. \A f \in DOMAIN filled.box \cap {"make", "model", "variant", "colour", "notes", "plateCode",
                                      "plateNumber", "vin", "supplierMonthlyCost", "purchasePrice"} :
          Fair(reads[f], filled.box[f])
    BY <1>1, <1>2, <1>3, <1>4, TextFits
  <2>3. \A f \in DOMAIN filled.box \cap {"year", "currentMileageKm", "sourceDate", "supplierId"} :
          Fair(reads[f], filled.box[f])
    BY <1>1, <1>2, <1>3, <1>4, NumbersFit
  <2>4. \A f \in {"plateEmirate", "ownershipType"} : Fair(reads[f], filled.box[f])
    BY <1>1, <1>2, <1>3, <1>4, <1>5
  <2>. QED BY <1>1, <2>1, <2>2, <2>3, <2>4
<1>7. \A f \in DOMAIN filled.box : "blank" \in filled.box[f] =>
          (f \in filled.starred <=> reads[f].blank = "refused")
  <2>1. \A f \in DOMAIN filled.box \cap filled.starred : f # "plateEmirate" => reads[f].blank = "refused"
    BY <1>1, <1>3, <1>4, BlankIs
  <2>2. \A f \in DOMAIN filled.box \ filled.starred : reads[f].blank # "refused" \/ f = "ownershipType"
    BY <1>1, <1>3, <1>4, BlankIs
  <2>3. "blank" \notin filled.box["plateEmirate"] /\ "blank" \notin filled.box["ownershipType"]
    BY <1>2, ChoicesAreMade DEF F!Ownerships
  <2>. QED BY <2>1, <2>2, <2>3
<1>8. \A f \in DOMAIN reads : f \notin DOMAIN filled.box => reads[f].blank # "refused"
  BY <1>1, <1>3, <1>4, BlankIs
<1>9. Agrees(filled, {})
  BY <1>6, <1>7, <1>8 DEF Agrees, reads
<1>10. \A f \in DOMAIN filled.box : f \notin {"supplierId", "ownershipType"} => Keeps(reads[f], filled.box[f])
  BY <1>1, <1>2, <1>3, <1>4, TextKept, ChoicesKept
<1>11. Untouched(filled, {}, IF owner = "B2B_SUPPLIER" THEN {"supplierId"} ELSE {})
  BY <1>1, <1>2, <1>3, <1>4, <1>10 DEF Untouched, reads
<1>. QED BY <1>9, <1>11 DEF filled

(* The fields whose asterisks mislead, form by form. *)
Wrong(name) == IF name \in DOMAIN F!Misled THEN F!Misled[name] ELSE {}

LEMMA AllFormsAgree ==
  ASSUME NEW name \in DOMAIN F!AllForms
  PROVE  Agrees(F!AllForms[name], Wrong(name))
<1>1. Agrees(F!AllForms["carCompany"], Wrong("carCompany"))
  BY VehicleFormsAgree DEF F!AllForms, Wrong, F!Misled, F!Ownerships
<1>2. Agrees(F!AllForms["carSupplier"], Wrong("carSupplier"))
  BY VehicleFormsAgree DEF F!AllForms, Wrong, F!Misled, F!Ownerships
<1>3. Agrees(F!AllForms["carOfCompany"], Wrong("carOfCompany"))
  BY VehicleFormsAgree DEF F!AllForms, Wrong, F!Misled, F!Ownerships
<1>4. Agrees(F!AllForms["carOfSupplier"], Wrong("carOfSupplier"))
  BY VehicleFormsAgree DEF F!AllForms, Wrong, F!Misled, F!Ownerships
<1>5. Agrees(F!AllForms["carStatus"], Wrong("carStatus"))
  BY StatusFormAgrees DEF F!AllForms, Wrong, F!Misled
<1>6. Agrees(F!AllForms["mileage"], Wrong("mileage"))
  BY MileageFormAgrees DEF F!AllForms, Wrong, F!Misled
<1>7. Agrees(F!AllForms["fine"], Wrong("fine"))
  BY FineFormAgrees DEF F!AllForms, Wrong, F!Misled
<1>8. Agrees(F!AllForms["fineAction"], Wrong("fineAction"))
  BY FineActionFormAgrees DEF F!AllForms, Wrong, F!Misled
<1>9. Agrees(F!AllForms["accident"], Wrong("accident"))
  BY AccidentFormAgrees DEF F!AllForms, Wrong, F!Misled
<1>10. Agrees(F!AllForms["repair"], Wrong("repair"))
  BY RepairFormAgrees DEF F!AllForms, Wrong, F!Misled
<1>11. Agrees(F!AllForms["claim"], Wrong("claim"))
  BY ClaimFormAgrees DEF F!AllForms, Wrong, F!Misled
<1>12. Agrees(F!AllForms["approve"], Wrong("approve"))
  BY ApproveFormAgrees DEF F!AllForms, Wrong, F!Misled
<1>13. Agrees(F!AllForms["settle"], Wrong("settle"))
  BY SettleFormAgrees DEF F!AllForms, Wrong, F!Misled
<1>14. Agrees(F!AllForms["reject"], Wrong("reject"))
  BY RejectFormAgrees DEF F!AllForms, Wrong, F!Misled
<1>15. Agrees(F!AllForms["lodge"], Wrong("lodge"))
  BY LodgeFormAgrees DEF F!AllForms, Wrong, F!Misled
<1>16. Agrees(F!AllForms["policy"], Wrong("policy"))
  BY PolicyFormAgrees DEF F!AllForms, Wrong, F!Misled
<1>17. Agrees(F!AllForms["cancelPolicy"], Wrong("cancelPolicy"))
  BY CancelPolicyFormAgrees DEF F!AllForms, Wrong, F!Misled
<1>18. Agrees(F!AllForms["maintenance"], Wrong("maintenance"))
  BY MaintenanceFormAgrees DEF F!AllForms, Wrong, F!Misled
<1>19. Agrees(F!AllForms["rental"], Wrong("rental"))
  BY ContractFormsAgree DEF F!AllForms, Wrong, F!Misled
<1>20. Agrees(F!AllForms["leaseToOwn"], Wrong("leaseToOwn"))
  BY ContractFormsAgree DEF F!AllForms, Wrong, F!Misled
<1>21. Agrees(F!AllForms["payment"], Wrong("payment"))
  BY PaymentFormAgrees DEF F!AllForms, Wrong, F!Misled
<1>22. Agrees(F!AllForms["waive"], Wrong("waive"))
  BY WaiveFormAgrees DEF F!AllForms, Wrong, F!Misled
<1>23. Agrees(F!AllForms["supplierPayment"], Wrong("supplierPayment"))
  BY SupplierPaymentFormAgrees DEF F!AllForms, Wrong, F!Misled
<1>24. Agrees(F!AllForms["openSettlement"], Wrong("openSettlement"))
  BY OpenSettlementFormAgrees DEF F!AllForms, Wrong, F!Misled
<1>25. Agrees(F!AllForms["charge"], Wrong("charge"))
  BY LineFormsAgree DEF F!AllForms, Wrong, F!Misled
<1>26. Agrees(F!AllForms["credit"], Wrong("credit"))
  BY LineFormsAgree DEF F!AllForms, Wrong, F!Misled
<1>27. Agrees(F!AllForms["terminate"], Wrong("terminate"))
  BY TerminateFormAgrees DEF F!AllForms, Wrong, F!Misled
<1>28. Agrees(F!AllForms["terminateSold"], Wrong("terminateSold"))
  BY TerminateSoldFormAgrees DEF F!AllForms, Wrong, F!Misled
<1>29. Agrees(F!AllForms["handover"], Wrong("handover"))
  BY HandoverFormAgrees DEF F!AllForms, Wrong, F!Misled
<1>30. Agrees(F!AllForms["addDamage"], Wrong("addDamage"))
  BY AddDamageFormAgrees DEF F!AllForms, Wrong, F!Misled
<1>31. Agrees(F!AllForms["sign"], Wrong("sign"))
  BY SignHandoverFormAgrees DEF F!AllForms, Wrong, F!Misled
<1>32. Agrees(F!AllForms["lead"], Wrong("lead"))
  BY LeadFormsAgree DEF F!AllForms, Wrong, F!Misled
<1>33. Agrees(F!AllForms["leadOfMine"], Wrong("leadOfMine"))
  BY LeadFormsAgree DEF F!AllForms, Wrong, F!Misled
<1>34. Agrees(F!AllForms["leadOfAnyone"], Wrong("leadOfAnyone"))
  BY LeadFormsAgree DEF F!AllForms, Wrong, F!Misled
<1>35. Agrees(F!AllForms["leadOn"], Wrong("leadOn"))
  BY LeadOnFormAgrees DEF F!AllForms, Wrong, F!Misled
<1>36. Agrees(F!AllForms["leadLost"], Wrong("leadLost"))
  BY LeadLostFormAgrees DEF F!AllForms, Wrong, F!Misled
<1>37. Agrees(F!AllForms["quote"], Wrong("quote"))
  BY QuoteFormsAgree DEF F!AllForms, Wrong, F!Misled
<1>38. Agrees(F!AllForms["quoteToOwn"], Wrong("quoteToOwn"))
  BY QuoteFormsAgree DEF F!AllForms, Wrong, F!Misled
<1>39. Agrees(F!AllForms["convert"], Wrong("convert"))
  BY ConvertFormAgrees DEF F!AllForms, Wrong, F!Misled
<1>40. Agrees(F!AllForms["customer"], Wrong("customer"))
  BY NewCustomerFormAgrees DEF F!AllForms, Wrong, F!Misled
<1>41. Agrees(F!AllForms["ofCustomer"], Wrong("ofCustomer"))
  BY CustomerFormAgrees DEF F!AllForms, Wrong, F!Misled
<1>42. Agrees(F!AllForms["supplier"], Wrong("supplier"))
  BY NewSupplierFormAgrees DEF F!AllForms, Wrong, F!Misled
<1>43. Agrees(F!AllForms["ofSupplier"], Wrong("ofSupplier"))
  BY SupplierFormAgrees DEF F!AllForms, Wrong, F!Misled
<1>44. Agrees(F!AllForms["category"], Wrong("category"))
  BY CategoryFormAgrees DEF F!AllForms, Wrong, F!Misled
<1>45. Agrees(F!AllForms["expiring"], Wrong("expiring"))
  BY ExpiringCategoryFormAgrees DEF F!AllForms, Wrong, F!Misled
<1>46. Agrees(F!AllForms["upload"], Wrong("upload"))
  BY UploadFormAgrees DEF F!AllForms, Wrong, F!Misled
<1>47. Agrees(F!AllForms["uploadExpiring"], Wrong("uploadExpiring"))
  BY ExpiringUploadFormAgrees DEF F!AllForms, Wrong, F!Misled
<1>48. Agrees(F!AllForms["expenseOfCar"], Wrong("expenseOfCar"))
  BY ExpenseFormsAgree DEF F!AllForms, Wrong, F!Misled
<1>49. Agrees(F!AllForms["expenseOfDeal"], Wrong("expenseOfDeal"))
  BY ExpenseFormsAgree DEF F!AllForms, Wrong, F!Misled
<1>50. Agrees(F!AllForms["expense"], Wrong("expense"))
  BY ExpenseFormsAgree DEF F!AllForms, Wrong, F!Misled
<1>51. Agrees(F!AllForms["user"], Wrong("user"))
  BY CreateUserFormAgrees DEF F!AllForms, Wrong, F!Misled
<1>52. Agrees(F!AllForms["resetPassword"], Wrong("resetPassword"))
  BY ResetPasswordFormAgrees DEF F!AllForms, Wrong, F!Misled
<1>53. Agrees(F!AllForms["password"], Wrong("password"))
  BY PasswordFormAgrees DEF F!AllForms, Wrong, F!Misled
<1>54. Agrees(F!AllForms["preferences"], Wrong("preferences"))
  BY PreferencesFormAgrees DEF F!AllForms, Wrong, F!Misled
<1>55. name \in {"carCompany", "carSupplier", "carOfCompany", "carOfSupplier", "carStatus", "mileage", "fine",
                "fineAction", "accident", "repair", "claim", "approve", "settle", "reject",
                "lodge", "policy", "cancelPolicy", "maintenance", "rental", "leaseToOwn", "payment",
                "waive", "supplierPayment", "openSettlement", "charge", "credit", "terminate", "terminateSold",
                "handover", "addDamage", "sign", "lead", "leadOfMine", "leadOfAnyone", "leadOn",
                "leadLost", "quote", "quoteToOwn", "convert", "customer", "ofCustomer", "supplier",
                "ofSupplier", "category", "expiring", "upload", "uploadExpiring", "expenseOfCar",
                    "expenseOfDeal",
                "expense", "user", "resetPassword", "password", "preferences"}
  BY DEF F!AllForms
<1>. QED
  BY <1>1, <1>2, <1>3, <1>4, <1>5, <1>6, <1>7, <1>8, <1>9, <1>10, <1>11, <1>12, <1>13, <1>14, <1>15,
     <1>16, <1>17, <1>18, <1>19, <1>20, <1>21, <1>22, <1>23, <1>24, <1>25, <1>26, <1>27, <1>28,
     <1>29, <1>30, <1>31, <1>32, <1>33, <1>34, <1>35, <1>36, <1>37, <1>38, <1>39, <1>40, <1>41,
     <1>42, <1>43, <1>44, <1>45, <1>46, <1>47, <1>48, <1>49, <1>50, <1>51, <1>52, <1>53, <1>54,
     <1>55

LEMMA CategoriesEditable == F!CategoriesAreEditable
<1>1. {key \in DOMAIN F!SeededCategories : F!CategorySaved(key) = {}} =
       {"handover_photo", "damage_photo", "accident_photo", "police_report"}
  BY DEF F!SeededCategories, F!CategorySaved, F!Owners
<1>2. {key \in DOMAIN F!SeededCategories : F!CategorySaved(key) \notin {{}, F!SeededCategories[key]}} =
       {"handover_report"}
  BY DEF F!SeededCategories, F!CategorySaved, F!Owners
<1>3. \A key \in DOMAIN F!SeededCategories : F!SeededCategories[key] \cap F!CardOwners # {}
  BY DEF F!SeededCategories, F!CardOwners
<1>4. F!Owners \ F!CardOwners = {"INSURANCE_POLICY"}
  BY DEF F!Owners, F!CardOwners
<1>. QED BY <1>1, <1>2, <1>3, <1>4 DEF F!CategoriesAreEditable

(* What an edit form shows of its row, saved as it stands. *)
LEMMA CustomerFormKept ==
  Untouched(F!CustomerForm(F!UpdateCustomer), {}, {})
<1>. DEFINE filled == F!CustomerForm(F!UpdateCustomer)
<1>1. \A f \in DOMAIN filled.box : f # "ownershipType" /\ Keeps(filled.action.reads[f], filled.box[f])
  BY TextKept, ChoicesKept DEF F!CustomerForm, F!FormFor, F!UpdateCustomer, F!CustomerSchema
<1>. HIDE DEF filled
<1>2. Untouched(filled, {}, {})
  BY <1>1 DEF Untouched
<1>. QED BY <1>2 DEF filled

LEMMA SupplierFormKept ==
  Untouched(F!SupplierForm(F!UpdateSupplier), {}, {})
<1>. DEFINE filled == F!SupplierForm(F!UpdateSupplier)
<1>1. \A f \in DOMAIN filled.box : f # "ownershipType" /\ Keeps(filled.action.reads[f], filled.box[f])
  BY TextKept, ChoicesKept DEF F!SupplierForm, F!FormFor, F!UpdateSupplier, F!SupplierSchema
<1>. HIDE DEF filled
<1>2. Untouched(filled, {}, {})
  BY <1>1 DEF Untouched
<1>. QED BY <1>2 DEF filled

LEMMA EditFormsKept ==
  ASSUME NEW name \in F!EditForms
  PROVE  F!UntouchedIsKept(name)
<1>1. CASE name = "carOfCompany"
  <2>1. Untouched(F!AllForms[name], {}, {})
    BY <1>1, VehicleFormsAgree DEF F!AllForms, F!Ownerships
  <2>. QED BY <1>1, <2>1, UntouchedIs DEF F!UntouchedIsKept
<1>2. CASE name = "carOfSupplier"
  <2>1. Untouched(F!AllForms[name], {}, {"supplierId"})
    BY <1>2, VehicleFormsAgree DEF F!AllForms, F!Ownerships
  <2>. QED BY <1>2, <2>1, UntouchedIs DEF F!UntouchedIsKept
<1>3. CASE name = "leadOfMine"
  <2>1. Untouched(F!AllForms[name], {"interestedVehicleId"}, {})
    BY <1>3, LeadFormsAgree DEF F!AllForms
  <2>. QED BY <1>3, <2>1, UntouchedIs DEF F!UntouchedIsKept
<1>4. CASE name = "leadOfAnyone"
  <2>1. Untouched(F!AllForms[name], {"interestedVehicleId", "salespersonId"}, {})
    BY <1>4, LeadFormsAgree DEF F!AllForms
  <2>. QED BY <1>4, <2>1, UntouchedIs DEF F!UntouchedIsKept
<1>5. CASE name \in {"ofCustomer", "ofSupplier"}
  <2>1. Untouched(F!AllForms[name], {}, {})
    BY <1>5, CustomerFormKept, SupplierFormKept DEF F!AllForms
  <2>. QED BY <1>5, <2>1, UntouchedIs DEF F!UntouchedIsKept
<1>. QED BY <1>1, <1>2, <1>3, <1>4, <1>5 DEF F!EditForms

LEMMA FormsAgreeAll ==
  ASSUME NEW name \in DOMAIN F!AllForms
  PROVE  F!FormsAgree(name)
<1>1. F!TypedIsKept(F!AllForms[name]) /\ F!Misleading(F!AllForms[name]) = Wrong(name)
  BY AllFormsAgree, AgreesIs
<1>2. F!AsterisksAreMeant(name)
  BY <1>1 DEF F!AsterisksAreMeant, Wrong
<1>. QED BY <1>1, <1>2, EditFormsKept, CategoriesEditable DEF F!FormsAgree

-----------------------------------------------------------------------------
(* What the screens say. *)

(* Whatever permissions the office puts together, and whatever the record, *)
(* no page shows a button to someone its handler would turn away           *)
(* (requirePermission of each action beside can() on each card).           *)
THEOREM NoButtonTurnsAway ==
  ASSUME NEW can
  PROVE  /\ \A x \in P!ContractRecords : \A c \in P!ContractShows(can, x) : P!ContractAsks[c] \subseteq can
         /\ \A x \in P!HandoverRecords : \A c \in P!HandoverShows(can, x) : P!HandoverAsks[c] \subseteq can
         /\ \A x \in P!VehicleRecords : \A c \in P!VehicleShows(can, x) : P!VehicleAsks[c] \subseteq can
         /\ \A x \in P!LeadRecords : \A c \in P!LeadShows(can, x) : P!LeadAsks[c] \subseteq can
         /\ \A x \in P!OfficeRecords : \A c \in P!OfficeShows(can, x) : P!OfficeAsks[c] \subseteq can
BY ContractsAsk, HandoversAsk, VehiclesAsk, LeadsAsk, OfficeAsk

(* A sheet is of figures alone, and of a form or a page there is. *)
SheetShown == /\ part = "deals" => sheet = NoSheet
              /\ sheet.of = "form" => sheet.name \in DOMAIN F!AllForms
              /\ sheet.of = "page" => sheet.name \in {"controls", "moves", "links"}

LEMMA SheetsShown == DeskSpec => []SheetShown
<1>1. DeskInit => SheetShown
  <2>. SUFFICES ASSUME DeskInit PROVE SheetShown
    OBVIOUS
  <2>1. CASE sheet = NoSheet
    BY <2>1 DEF NoSheet, SheetShown
  <2>2. CASE SheetInit /\ part = "figures"
    BY <2>2, SheetKinds DEF SheetShown, FormSheets, PageSheets
  <2>. QED BY <2>1, <2>2 DEF DeskInit
<1>2. SheetShown /\ [DeskNext]_desk => SheetShown'
  <2>. SUFFICES ASSUME SheetShown, [DeskNext]_desk PROVE SheetShown'
    OBVIOUS
  <2>1. sheet' = sheet /\ part' = part
    BY DeskStep
  <2>. QED BY <2>1 DEF SheetShown
<1>. QED BY <1>1, <1>2, PTL DEF DeskSpec, desk

(* What the screens say is what is done, on every page and form and for    *)
(* everyone who may open them: a form's asterisks and what it sends are    *)
(* what its handler reads, a button is shown to those its handler lets     *)
(* through, and the ones withheld, the moves not offered and the links     *)
(* that lead nowhere are those that are named; and whatever is typed of a  *)
(* deal is previewed as it is written.                                     *)
THEOREM DeskScreensAgree == DeskSpec => []ScreensAgree
<1>1. P!PagesAgree("controls") /\ P!PagesAgree("moves") /\ P!PagesAgree("links")
  BY ControlsAgreeAll, MovesAgreeAll, LinksAgreeAll, PermissionsAreAskedAll DEF P!PagesAgree
<1>2. SheetShown /\ Q!DealsAgree => ScreensAgree
  <2>. SUFFICES ASSUME SheetShown, Q!DealsAgree PROVE ScreensAgree
    OBVIOUS
  <2>1. CASE part # "deals" /\ sheet.of = "form"
    <3>1. F!FormsAgree(sheet.name)
      BY <2>1, FormsAgreeAll DEF SheetShown
    <3>. QED BY <2>1, <3>1 DEF ScreensAgree
  <2>2. CASE part # "deals" /\ sheet.of = "page"
    <3>1. P!PagesAgree(sheet.name)
      BY <1>1, <2>2 DEF SheetShown
    <3>. QED BY <2>2, <3>1 DEF ScreensAgree
  <2>3. CASE part = "deals"
    BY <2>3 DEF ScreensAgree, SheetShown, NoSheet
  <2>4. CASE part # "deals" /\ sheet.of \notin {"form", "page"}
    BY <2>4 DEF ScreensAgree
  <2>. QED BY <2>1, <2>2, <2>3, <2>4
<1>. QED BY <1>2, SheetsShown, DeskDealsAgree, PTL
=============================================================================
