-------------------------------- MODULE Leads --------------------------------
(***************************************************************************)
(* The sales pipeline: leads moved by hand, priced by quotations and       *)
(* converted into draft contracts.                                         *)
(*                                                                         *)
(* A move is a compare-and-set on the status that was read.  A quotation   *)
(* saved on a lead that has one already moves nothing, and a conversion    *)
(* reads the lead and its latest quotation before its transaction begins,  *)
(* so a quotation can change under a conversion.                           *)
(***************************************************************************)
EXTENDS Integers, LeadStatus

CONSTANTS
  Lead,      \* leads that can be recorded
  Mobile,    \* bound: their telephone numbers
  Staff,     \* salespeople (browser sessions)
  MaxQuotes  \* bound: the quotations a lead gets

VARIABLES
  lead,      \* status of each lead; NONE when there is no row
  mobile,    \* its telephone number
  quotes,    \* how many quotations each has: the latest is the last
  contract,  \* the quotation each lead's contract was made from, or None
  customers, \* how many customer records each telephone number has
  request    \* what each member of staff's running request has read

vars == <<lead, mobile, quotes, contract, customers, request>>

None == 0
Idle == [op |-> "idle"]

Requests ==
  {Idle}
  \cup [op : {"move"}, l : Lead, seen : LeadStatuses, to : LeadStatuses]
  \cup [op : {"quote"}, l : Lead, seen : LeadStatuses]
  \cup [op : {"convert"}, l : Lead, seen : {"DEAL_CREATED"}, m : Mobile, quote : 1..MaxQuotes,
        matched : BOOLEAN]
  \cup [op : {"look"}, l : Lead, seen : {"DEAL_CREATED"}, m : Mobile, quote : 1..MaxQuotes]

-----------------------------------------------------------------------------

Ask(s, r) == request[s] = Idle /\ request' = [request EXCEPT ![s] = r]
Respond(s) == request' = [request EXCEPT ![s] = Idle]

(* Mutant: an update by id alone. *)
Anyhow(l, seen) == l \in Lead

(* moveLead's compare-and-set; its losing transaction is rolled back.      *)
StillAt(l, seen) == lead[l] = seen

Init ==
  /\ lead = [l \in Lead |-> "NONE"]
  /\ mobile \in [Lead -> Mobile]
  /\ quotes = [l \in Lead |-> 0]
  /\ contract = [l \in Lead |-> None]
  /\ customers = [m \in Mobile |-> 0]
  /\ request = [s \in Staff |-> Idle]

CreateLead(l) ==
  /\ lead[l] = "NONE"
  /\ lead' = [lead EXCEPT ![l] = "NEW"]
  /\ UNCHANGED <<mobile, quotes, contract, customers, request>>

(* updateLead: any field may change, the telephone number too. *)
UpdateLead(l, m) ==
  /\ lead[l] # "NONE"
  /\ mobile' = [mobile EXCEPT ![l] = m]
  /\ UNCHANGED <<lead, quotes, contract, customers, request>>

(* changeLeadStatus: "The earned stages are refused". *)
MoveRead(s, l, to) ==
  /\ to \in LeadMoves[lead[l]] \ EarnedLeadStatuses
  /\ Ask(s, [op |-> "move", l |-> l, seen |-> lead[l], to |-> to])
  /\ UNCHANGED <<lead, mobile, quotes, contract, customers>>

MoveWrite(s) ==
  LET r == request[s] IN
  /\ r.op = "move"
  /\ StillAt(r.l, r.seen)
  /\ lead' = [lead EXCEPT ![r.l] = r.to]
  /\ Respond(s)
  /\ UNCHANGED <<mobile, quotes, contract, customers>>

(* saveQuote, refused on a closed lead. *)
QuoteRead(s, l) ==
  /\ lead[l] \notin {"NONE", "CONTRACTED", "LOST"}
  /\ Ask(s, [op |-> "quote", l |-> l, seen |-> lead[l]])
  /\ UNCHANGED <<lead, mobile, quotes, contract, customers>>

(* The quotation and the moves it earns, which are not checked when there  *)
(* are none to make.                                                       *)
QuoteWrite(s) ==
  LET r == request[s] IN
  /\ r.op = "quote"
  /\ quotes[r.l] < MaxQuotes
  /\ r.seen # "DEAL_CREATED" => StillAt(r.l, r.seen)
  /\ quotes' = [quotes EXCEPT ![r.l] = @ + 1]
  /\ lead' = IF r.seen = "DEAL_CREATED" THEN lead ELSE [lead EXCEPT ![r.l] = "DEAL_CREATED"]
  /\ Respond(s)
  /\ UNCHANGED <<mobile, contract, customers>>

(* convertLead reads the lead and its latest quotation first. *)
ConvertRead(s, l) ==
  /\ lead[l] = "DEAL_CREATED" /\ quotes[l] > 0
  /\ Ask(s, [op |-> "look", l |-> l, seen |-> lead[l], m |-> mobile[l], quote |-> quotes[l]])
  /\ UNCHANGED <<lead, mobile, quotes, contract, customers>>

(* In the transaction: the customer already on file with that mobile. *)
ConvertMatch(s) ==
  LET r == request[s] IN
  /\ r.op = "look"
  /\ request' = [request EXCEPT ![s] =
       [op |-> "convert", l |-> r.l, seen |-> r.seen, m |-> r.m, quote |-> r.quote,
        matched |-> customers[r.m] > 0]]
  /\ UNCHANGED <<lead, mobile, quotes, contract, customers>>

(* contracts_lead_id_key *)
LeadIsFree(l) == contract[l] = None

ConvertWrite(s) ==
  LET r == request[s] IN
  /\ r.op = "convert"
  /\ LeadIsFree(r.l)
  /\ StillAt(r.l, r.seen)
  /\ contract' = [contract EXCEPT ![r.l] = r.quote]
  /\ lead' = [lead EXCEPT ![r.l] = "CONTRACTED"]
  /\ customers' = IF r.matched THEN customers ELSE [customers EXCEPT ![r.m] = @ + 1]
  /\ Respond(s)
  /\ UNCHANGED <<mobile, quotes>>

(* A transaction that throws, the compare-and-set that lost included. *)
Abort(s) ==
  /\ request[s] # Idle
  /\ Respond(s)
  /\ UNCHANGED <<lead, mobile, quotes, contract, customers>>

Next ==
  \/ \E l \in Lead : CreateLead(l) \/ \E m \in Mobile : UpdateLead(l, m)
  \/ \E s \in Staff :
       \/ \E l \in Lead, to \in LeadStatuses : MoveRead(s, l, to)
       \/ MoveWrite(s)
       \/ \E l \in Lead : QuoteRead(s, l) \/ ConvertRead(s, l)
       \/ QuoteWrite(s)
       \/ ConvertMatch(s)
       \/ ConvertWrite(s)
       \/ Abort(s)

Spec == Init /\ [][Next]_vars

-----------------------------------------------------------------------------
(* Type correctness of the leads and the running requests. *)
TypeOK ==
  /\ lead \in [Lead -> LeadStatuses \cup {"NONE"}]
  /\ mobile \in [Lead -> Mobile]
  /\ quotes \in [Lead -> 0..MaxQuotes]
  /\ contract \in [Lead -> 0..MaxQuotes]
  /\ customers \in [Mobile -> Nat]
  /\ request \in [Staff -> Requests]

(* "the funnel counts deals and contracts that exist rather than ones      *)
(* someone clicked into being": whoever races whom, a lead at Deal created *)
(* has a quotation and one at Contracted, and no other, has its contract.  *)
StagesAreEarned ==
  \A l \in Lead :
    /\ lead[l] \in EarnedLeadStatuses => quotes[l] > 0
    /\ lead[l] = "CONTRACTED" <=> contract[l] # None

-----------------------------------------------------------------------------
(* What the repository says and the code does not do.                      *)

(* "The contract takes the latest quote's terms".                          *)
LatestQuoteIsContracted ==
  [][\A l \in Lead : contract'[l] # contract[l] => contract'[l] = quotes[l]]_vars

(* "The customer is the one already on file with the lead's mobile".       *)
OneCustomerPerMobile == \A m \in Mobile : customers[m] <= 1
=============================================================================
