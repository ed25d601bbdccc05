-------------------------------- MODULE Access --------------------------------
(***************************************************************************)
(* Who may do what: accounts, which are switched on and off, and roles,    *)
(* whose permissions are edited while they are in use.  A request loads    *)
(* its user's permissions once, when it starts, and works on them to its   *)
(* end.                                                                    *)
(*                                                                         *)
(* Saving a role reads what it holds, deletes what was deselected in one   *)
(* statement and adds what was selected one row at a time, with no         *)
(* transaction around them.                                                *)
(***************************************************************************)
EXTENDS FiniteSets

CONSTANTS
  User,        \* people with accounts
  Role,
  Permission,  \* "user.manage" and "role.manage" among them
  RoleOf       \* [User -> Role]: the role an account is created with

VARIABLES
  account,  \* "ABSENT", "ACTIVE" or "INACTIVE" for each user
  grants,   \* the permissions of each role
  running   \* what each user's running request has read

vars == <<account, grants, running>>

AtRest == [op |-> "idle"]

(* An edit's `revoke` and `grant` are what it has still to write; `alone`  *)
(* is a history of whether another edit of the role has met it.            *)
Edits ==
  [op : {"edit"}, role : Role, held : SUBSET Permission, wanted : SUBSET Permission,
   revoke : SUBSET Permission, grant : SUBSET Permission, alone : BOOLEAN]

Runnings ==
  {AtRest} \cup Edits
  \cup [op : {"switch"}, of : User, to : {"ACTIVE", "INACTIVE"}]
  \cup [op : {"create"}, of : User]

Init ==
  /\ account \in [User -> {"ACTIVE", "ABSENT"}]
  /\ {u \in User : account[u] = "ACTIVE"} # {}
  /\ grants = [r \in Role |-> Permission]
  /\ running = [u \in User |-> AtRest]

Begin(u, r) == running[u] = AtRest /\ running' = [running EXCEPT ![u] = r]
Finish(u) == running' = [running EXCEPT ![u] = AtRest]

(* can, on the principal loadPrincipal builds. *)
Can(u, p) == account[u] = "ACTIVE" /\ p \in grants[RoleOf[u]]

-----------------------------------------------------------------------------
(* Accounts. *)

CreateRead(u, v) ==
  /\ Can(u, "user.manage")
  /\ account[v] = "ABSENT"
  /\ Begin(u, [op |-> "create", of |-> v])
  /\ UNCHANGED <<account, grants>>

(* Two administrators may both have found the address free: it is unique.  *)
CreateWrite(u) ==
  /\ running[u].op = "create"
  /\ account[running[u].of] = "ABSENT"
  /\ account' = [account EXCEPT ![running[u].of] = "ACTIVE"]
  /\ Finish(u)
  /\ UNCHANGED grants

(* Mutant: anybody may be switched off, oneself included. *)
AnybodyAtAll(u, v) == v \in User

SomebodyElse(u, v) == v # u

SwitchRead(u, v, to) ==
  /\ Can(u, "user.manage")
  /\ account[v] # "ABSENT"
  /\ SomebodyElse(u, v)
  /\ Begin(u, [op |-> "switch", of |-> v, to |-> to])
  /\ UNCHANGED <<account, grants>>

SwitchWrite(u) ==
  /\ running[u].op = "switch"
  /\ account' = [account EXCEPT ![running[u].of] = running[u].to]
  /\ Finish(u)
  /\ UNCHANGED grants

-----------------------------------------------------------------------------
(* Roles. *)

(* Mutant: what is held and not shown on the form is left out. *)
ToRevokeSome(held, wanted) == IF wanted = {} THEN {} ELSE held \ wanted

ToRevoke(held, wanted) == held \ wanted
ToGrant(held, wanted) == wanted \ held

(* The edits of role r under way, that of u aside. *)
OtherEdits(u, r) ==
  {w \in User \ {u} : running[w].op = "edit" /\ running[w].role = r}

EditRead(u, r, wanted) ==
  LET edit == [op |-> "edit", role |-> r, held |-> grants[r], wanted |-> wanted,
               revoke |-> ToRevoke(grants[r], wanted), grant |-> ToGrant(grants[r], wanted),
               alone |-> OtherEdits(u, r) = {}] IN
  /\ Can(u, "role.manage")
  /\ running[u] = AtRest
  /\ grants[r] # wanted
  /\ running' = [w \in User |->
       IF w = u THEN edit
       ELSE IF w \in OtherEdits(u, r) THEN [running[w] EXCEPT !.alone = FALSE]
       ELSE running[w]]
  /\ UNCHANGED <<account, grants>>

EditRevoke(u) ==
  LET e == running[u] IN
  /\ e.op = "edit" /\ e.revoke # {}
  /\ grants' = [grants EXCEPT ![e.role] = @ \ e.revoke]
  /\ running' = [running EXCEPT ![u].revoke = {}]
  /\ UNCHANGED account

(* One row at a time, in whatever order the database listed them. *)
EditGrant(u, p) ==
  LET e == running[u] IN
  /\ e.op = "edit" /\ e.revoke = {} /\ p \in e.grant
  /\ p \notin grants[e.role]
  /\ grants' = [grants EXCEPT ![e.role] = @ \cup {p}]
  /\ running' = [running EXCEPT ![u].grant = @ \ {p}]
  /\ UNCHANGED account

EditSaved(u) ==
  /\ running[u].op = "edit"
  /\ running[u].revoke = {} /\ running[u].grant = {}
  /\ Finish(u)
  /\ UNCHANGED <<account, grants>>

(* A write the database refuses, or a process that dies: what the request  *)
(* has written stays.                                                      *)
GiveUp(u) ==
  /\ running[u] # AtRest
  /\ Finish(u)
  /\ UNCHANGED <<account, grants>>

Next ==
  \E u \in User :
    \/ \E v \in User : CreateRead(u, v)
    \/ CreateWrite(u)
    \/ \E v \in User, to \in {"ACTIVE", "INACTIVE"} : SwitchRead(u, v, to)
    \/ SwitchWrite(u)
    \/ \E r \in Role, wanted \in SUBSET Permission : EditRead(u, r, wanted)
    \/ EditRevoke(u)
    \/ \E p \in Permission : EditGrant(u, p)
    \/ EditSaved(u)
    \/ GiveUp(u)

Spec == Init /\ [][Next]_vars

-----------------------------------------------------------------------------

(* Type correctness of accounts, roles and running requests. *)
TypeOK ==
  /\ account \in [User -> {"ABSENT", "ACTIVE", "INACTIVE"}]
  /\ grants \in [Role -> SUBSET Permission]
  /\ running \in [User -> Runnings]

(* A role that one administrator edits holds, at every moment of the edit, *)
(* all that the edit keeps and nothing that is in neither list, and is     *)
(* what was selected once its last row is written.                         *)
EditIsExact ==
  \A u \in User :
    LET e == running[u] IN
    e.op = "edit" /\ e.alone =>
      /\ e.held \cap e.wanted \subseteq grants[e.role]
      /\ grants[e.role] \subseteq e.held \cup e.wanted
      /\ e.revoke = {} /\ e.grant = {} => grants[e.role] = e.wanted

Managers == {u \in User : Can(u, "user.manage")}

(* "Locking yourself out of the only Super Admin account is unrecoverable" *)
(* and refused: nobody being left to manage accounts takes a role edited   *)
(* away, or a request whose own user has lost the right since it began.    *)
OnlyOvertakenLocksOut ==
  [][Managers # {} /\ Managers' = {} =>
       \/ grants' # grants
       \/ \E u \in User \ Managers : running[u].op = "switch" /\ running'[u] = AtRest]_vars
=============================================================================
