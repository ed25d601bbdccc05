------------------------------- MODULE Papers -------------------------------
(***************************************************************************)
(* The papers of one owner in one expiring category (a driving licence, a  *)
(* mulkiya): uploading a new one replaces those before it, the nightly     *)
(* expiry scan restamps each and raises the warnings.                      *)
(*                                                                         *)
(* Nothing here is a transaction.  An upload stores the bytes, creates the *)
(* row and replaces the others, three steps in a row; the scan reads every *)
(* paper, stamps by id and then writes its notifications.  Uploads run     *)
(* together, a scan runs beside them, and any step can be the last.        *)
(***************************************************************************)
EXTENDS Integers, FiniteSets

CONSTANTS
  Paper,      \* documents that can be uploaded
  EXPIRES,    \* the day each expires
  OFFSETS,    \* reminderOffsets of the category, in days
  Office,     \* people uploading and removing papers
  Scanner,    \* expiry-scan processes
  LastDay,    \* bound: the last day
  MaxFaults   \* bound: how often storage, the database or a process fails

VARIABLES
  day,        \* today
  paper,      \* status of each document row; NONE when there is no row
  removed,    \* rows with deletedAt
  replacedBy, \* the row each was replaced by
  bytes,      \* papers whose file is in object storage
  notices,    \* dedupe keys of the notifications raised
  upload,     \* where each person's upload is
  scan,       \* where each scan is
  faults

sheet == <<paper, removed, replacedBy>>
vars == <<day, sheet, bytes, notices, upload, scan, faults>>

PaperStatuses == {"VALID", "EXPIRING", "EXPIRED", "REPLACED"}
Stamps == {"VALID", "EXPIRING", "EXPIRED"}
Nobody == "nobody"
Away == [at |-> "away"]
Expired == -1
Keys == Paper \X (OFFSETS \cup {Expired})

Uploads == {Away} \cup [at : {"stored", "created", "undo"}, p : Paper]

Scans ==
  {Away} \cup [at : {"stamp", "notify"}, stamps : [Paper -> Stamps \cup {"same"}],
               found : SUBSET Keys, seen : [Paper -> PaperStatuses \cup {"NONE"}]]

-----------------------------------------------------------------------------

Widest == IF OFFSETS = {} THEN 0 ELSE CHOOSE o \in OFFSETS : \A q \in OFFSETS : q <= o

(* expiryStatus, toDocumentStatus: expiring on its last day, not expired.  *)
Stamp(p, d) ==
  IF EXPIRES[p] < d THEN "EXPIRED"
  ELSE IF EXPIRES[p] - d <= Widest THEN "EXPIRING" ELSE "VALID"

Standing(p) == paper[p] \notin {"NONE", "REPLACED"} /\ p \notin removed

(* Mutant: replaced papers are scanned too. *)
ScannedThoughReplaced == {p \in Paper : paper[p] # "NONE" /\ p \notin removed}

(* What the scan reads: not removed, not replaced.  (Its horizon of 400    *)
(* days is beyond every date here.)                                        *)
Scanned == {p \in Paper : Standing(p)}

(* dueReminderOffsets, of which only the narrowest crossed is raised. *)
Crossed(p, d) == {o \in OFFSETS : EXPIRES[p] - d <= o}

Narrowest(p, d) == {o \in Crossed(p, d) : \A q \in Crossed(p, d) : o <= q}

KeysFor(p, d) ==
  IF EXPIRES[p] < d THEN {<<p, Expired>>} ELSE {<<p, o>> : o \in Narrowest(p, d)}

(* Mutant: a renewed paper leaves the others as they are. *)
OthersNone(p) == {}

(* The rows an upload replaces. *)
Others(p) == {q \in Paper : q # p /\ Standing(q)}

Init ==
  /\ day = 0
  /\ paper = [p \in Paper |-> "NONE"]
  /\ removed = {}
  /\ replacedBy = [p \in Paper |-> Nobody]
  /\ bytes = {}
  /\ notices = {}
  /\ upload = [s \in Office |-> Away]
  /\ scan = [w \in Scanner |-> Away]
  /\ faults = 0

Midnight ==
  /\ day < LastDay
  /\ day' = day + 1
  /\ UNCHANGED <<sheet, bytes, notices, upload, scan, faults>>

-----------------------------------------------------------------------------
(* uploadDocument. *)

UploadPut(s, p) ==
  /\ upload[s] = Away
  /\ paper[p] = "NONE" /\ p \notin bytes
  /\ bytes' = bytes \cup {p}
  /\ upload' = [upload EXCEPT ![s] = [at |-> "stored", p |-> p]]
  /\ UNCHANGED <<day, sheet, notices, scan, faults>>

UploadCreate(s) ==
  LET p == upload[s].p IN
  /\ upload[s].at = "stored"
  /\ paper' = [paper EXCEPT ![p] = Stamp(p, day)]
  /\ upload' = [upload EXCEPT ![s] = [at |-> "created", p |-> p]]
  /\ UNCHANGED <<day, removed, replacedBy, bytes, notices, scan, faults>>

UploadReplace(s) ==
  LET p == upload[s].p IN
  /\ upload[s].at = "created"
  /\ paper' = [q \in Paper |-> IF q \in Others(p) THEN "REPLACED" ELSE paper[q]]
  /\ replacedBy' = [q \in Paper |-> IF q \in Others(p) THEN p ELSE replacedBy[q]]
  /\ upload' = [upload EXCEPT ![s] = Away]
  /\ UNCHANGED <<day, removed, bytes, notices, scan, faults>>

(* A statement throws, before it is written or after: the audit row of a   *)
(* write that has committed may be what fails.  The catch deletes the      *)
(* bytes.                                                                  *)
UploadThrows(s) ==
  /\ upload[s].at \in {"stored", "created"}
  /\ faults < MaxFaults
  /\ faults' = faults + 1
  /\ upload' = [upload EXCEPT ![s].at = "undo"]
  /\ UNCHANGED <<day, sheet, bytes, notices, scan>>

UploadUndo(s) ==
  /\ upload[s].at = "undo"
  /\ bytes' = bytes \ {upload[s].p}
  /\ upload' = [upload EXCEPT ![s] = Away]
  /\ UNCHANGED <<day, sheet, notices, scan, faults>>

(* The process dies, or storage().delete itself fails. *)
UploadDies(s) ==
  /\ upload[s] # Away
  /\ faults < MaxFaults
  /\ faults' = faults + 1
  /\ upload' = [upload EXCEPT ![s] = Away]
  /\ UNCHANGED <<day, sheet, bytes, notices, scan>>

(* deleteDocument: soft, and the bytes stay. *)
DeleteDocument(p) ==
  /\ paper[p] # "NONE" /\ p \notin removed
  /\ removed' = removed \cup {p}
  /\ UNCHANGED <<day, paper, replacedBy, bytes, notices, upload, scan, faults>>

-----------------------------------------------------------------------------
(* runExpiryScan. *)

(* Only those whose stamp changes are written. *)
ScanRead(w) ==
  /\ scan[w] = Away
  /\ Scanned # {}
  /\ scan' = [scan EXCEPT ![w] =
       [at |-> "stamp",
        stamps |-> [p \in Paper |->
          IF p \in Scanned /\ Stamp(p, day) # paper[p] THEN Stamp(p, day) ELSE "same"],
        found |-> UNION {KeysFor(p, day) : p \in Scanned},
        seen |-> paper]]
  /\ UNCHANGED <<day, sheet, bytes, notices, upload, faults>>

(* updateMany by id: whatever the row has become since. *)
Stamped(p, r) == IF r.stamps[p] = "same" THEN paper[p] ELSE r.stamps[p]

ScanStamp(w) ==
  /\ scan[w].at = "stamp"
  /\ paper' = [p \in Paper |-> Stamped(p, scan[w])]
  /\ scan' = [scan EXCEPT ![w].at = "notify"]
  /\ UNCHANGED <<day, removed, replacedBy, bytes, notices, upload, faults>>

(* Mutant: without skipDuplicates a known key makes the whole batch fail.  *)
AllOrNothing(found) == IF found \cap notices # {} THEN notices ELSE notices \cup found

(* createMany, skipDuplicates. *)
SkipDuplicates(found) == notices \cup found

ScanNotify(w) ==
  /\ scan[w].at = "notify"
  /\ notices' = SkipDuplicates(scan[w].found)
  /\ scan' = [scan EXCEPT ![w] = Away]
  /\ UNCHANGED <<day, sheet, bytes, upload, faults>>

ScanDies(w) ==
  /\ scan[w] # Away
  /\ faults < MaxFaults
  /\ faults' = faults + 1
  /\ scan' = [scan EXCEPT ![w] = Away]
  /\ UNCHANGED <<day, sheet, bytes, notices, upload>>

ScanStep(w) == ScanRead(w) \/ ScanStamp(w) \/ ScanNotify(w)

Next ==
  \/ Midnight
  \/ \E s \in Office :
       \/ \E p \in Paper : UploadPut(s, p)
       \/ UploadCreate(s)
       \/ UploadReplace(s)
       \/ UploadThrows(s)
       \/ UploadUndo(s)
       \/ UploadDies(s)
  \/ \E p \in Paper : DeleteDocument(p)
  \/ \E w \in Scanner : ScanStep(w) \/ ScanDies(w)

Spec == Init /\ [][Next]_vars

(* Cron scans every night, and a scan that is not killed goes on. *)
FairSpec == Spec /\ \A w \in Scanner : WF_vars(ScanStep(w))

-----------------------------------------------------------------------------
(* Type correctness of the rows, the uploads and the scans. *)
TypeOK ==
  /\ day \in 0..LastDay
  /\ paper \in [Paper -> PaperStatuses \cup {"NONE"}]
  /\ removed \subseteq Paper /\ bytes \subseteq Paper /\ notices \subseteq Keys
  /\ replacedBy \in [Paper -> Paper \cup {Nobody}]
  /\ upload \in [Office -> Uploads]
  /\ scan \in [Scanner -> Scans]
  /\ faults \in 0..MaxFaults

(* "The nightly scan goes on chasing a document that has already been      *)
(* replaced" is what replacing is for: a replaced paper comes back only    *)
(* under a scan that had read it before it was replaced.                   *)
OnlyOvertakenRevives ==
  [][\A p \in Paper : paper[p] = "REPLACED" /\ paper'[p] # "REPLACED" =>
       \E w \in Scanner : scan[w].at = "stamp" /\ scan[w].seen[p] # "REPLACED"]_vars

(* One paper is current when nothing went wrong: two standing side by side *)
(* means that an upload is still under way, that something failed, or that *)
(* a scan has revived one.                                                 *)
OneIsCurrent ==
  \A p, q \in Paper : Standing(p) /\ Standing(q) /\ p # q =>
    \/ \E s \in Office : upload[s].at = "created"
    \/ faults > 0
    \/ replacedBy[p] # Nobody \/ replacedBy[q] # Nobody

(* A paper that has lapsed is announced, however often scans die, unless   *)
(* it is replaced or removed first.                                        *)
LapseIsAnnounced ==
  \A p \in Paper : Standing(p) /\ EXPIRES[p] < day ~> <<p, Expired>> \in notices \/ ~Standing(p)

-----------------------------------------------------------------------------
(* What the repository says and the code does not do.                      *)

(* deleteDocument: "the audit trail should not point at bytes that no      *)
(* longer exist"; uploadDocument deletes them as "referenced by nothing".  *)
RowsHaveTheirBytes == \A p \in Paper : paper[p] # "NONE" => p \in bytes
=============================================================================
