-------------------------------- MODULE SignIn --------------------------------
(***************************************************************************)
(* Signing in: passwords, the lockout after too many wrong ones, and the   *)
(* sessions that live in browsers as signed cookies.  A cookie says whose  *)
(* it is and when it ends, from which the server works out when it began,  *)
(* to the second; a password change ends the sessions begun before it by   *)
(* a date on the account.                                                  *)
(*                                                                         *)
(* Time passes in half seconds, as dates have a finer grain than cookies.  *)
(* A password is its number: a change writes the next one.                 *)
(***************************************************************************)
EXTENDS Integers

CONSTANTS
  Browser,
  MaxTime,       \* bound: the last half second of a behaviour
  MaxPassword,   \* bound: the last password
  MaxFailures,   \* bound: wrong passwords counted
  MaxAttempts,   \* maxFailedAttempts
  Lockout,       \* lockoutMinutes
  Ttl            \* DEFAULT_SESSION_TTL_SECONDS, in seconds

VARIABLES
  now,
  account,  \* the row of one account
  session,  \* the cookie of each browser, with the password it was begun with
  attempt   \* what each browser's running request has read

vars == <<now, account, session, attempt>>

Time == 0..(MaxTime + Lockout)
Passwords == 0..MaxPassword
Never == -1
SignedOut == [began |-> Never, password |-> Never]
AtRest == [op |-> "idle"]

Attempts ==
  {AtRest}
  \cup [op : {"signin"}, right : BOOLEAN, typed : Passwords, failed : 0..MaxFailures,
        lockedUntil : Time \cup {Never}, active : BOOLEAN, at : Time]
  \cup [op : {"welcome", "renew"}, typed : Passwords]
  \cup [op : {"change", "reset"}, at : Time]

Second(t) == t \div 2

Init ==
  /\ now = 0
  /\ account = [active |-> TRUE, password |-> 0, changedAt |-> 0, failed |-> 0, lockedUntil |-> Never]
  /\ session = [b \in Browser |-> SignedOut]
  /\ attempt = [b \in Browser |-> AtRest]

Ask(b, r) == attempt[b] = AtRest /\ attempt' = [attempt EXCEPT ![b] = r]
Respond(b) == attempt' = [attempt EXCEPT ![b] = AtRest]

-----------------------------------------------------------------------------
(* Reading a session. *)

Expired(s) == (Second(s.began) + Ttl) * 2 <= now

(* Mutant: compared to the instant, which a cookie does not record. *)
OutlivedExactly(s) == Second(s.began) * 2 < account.changedAt

(* loadPrincipal: sessions from before the last change are refused. *)
Outlived(s) == Second(s.began) < Second(account.changedAt)

SignedIn(b) ==
  LET s == session[b] IN
  s # SignedOut /\ ~Expired(s) /\ account.active /\ ~Outlived(s)

-----------------------------------------------------------------------------
(* Signing in. *)

LockedOut == account.lockedUntil > now

AttemptRead(b, typed) ==
  /\ ~LockedOut
  /\ Ask(b, [op |-> "signin", right |-> typed = account.password, typed |-> typed,
             failed |-> account.failed, lockedUntil |-> account.lockedUntil,
             active |-> account.active, at |-> now])
  /\ UNCHANGED <<now, account, session>>

(* Mutant: the count starts again once it has locked. *)
FailedRestarting(a) ==
  IF a.failed + 1 >= MaxAttempts
  THEN [account EXCEPT !.failed = 0, !.lockedUntil = a.at + Lockout]
  ELSE [account EXCEPT !.failed = a.failed + 1, !.lockedUntil = a.lockedUntil]

(* registerFailedLogin, from what was read before the password was tried. *)
Failed(a) ==
  IF a.failed + 1 >= MaxAttempts
  THEN [account EXCEPT !.failed = a.failed + 1, !.lockedUntil = a.at + Lockout]
  ELSE [account EXCEPT !.failed = a.failed + 1, !.lockedUntil = a.lockedUntil]

AttemptFails(b) ==
  LET a == attempt[b] IN
  /\ a.op = "signin" /\ ~a.right
  /\ a.failed < MaxFailures
  /\ account' = Failed(a)
  /\ Respond(b)
  /\ UNCHANGED <<now, session>>

AttemptRefused(b) ==
  LET a == attempt[b] IN
  /\ a.op = "signin" /\ a.right /\ ~a.active
  /\ Respond(b)
  /\ UNCHANGED <<now, account, session>>

AttemptSucceeds(b) ==
  LET a == attempt[b] IN
  /\ a.op = "signin" /\ a.right /\ a.active
  /\ account' = [account EXCEPT !.failed = 0, !.lockedUntil = Never]
  /\ attempt' = [attempt EXCEPT ![b] = [op |-> "welcome", typed |-> a.typed]]
  /\ UNCHANGED <<now, session>>

(* startSession, at the end of a sign-in, which looks at the account once  *)
(* more, or of a change of one's own password, which does not.             *)
Enter(b) ==
  /\ attempt[b].op \in {"welcome", "renew"}
  /\ attempt[b].op = "welcome" => account.active
  /\ session' = [session EXCEPT ![b] = [began |-> now, password |-> attempt[b].typed]]
  /\ Respond(b)
  /\ UNCHANGED <<now, account>>

SignOut(b) ==
  /\ attempt[b] = AtRest /\ session[b] # SignedOut
  /\ session' = [session EXCEPT ![b] = SignedOut]
  /\ UNCHANGED <<now, account, attempt>>

-----------------------------------------------------------------------------
(* Passwords. *)

(* One's own, from a session and with the present password. *)
ChangeRead(b) ==
  /\ SignedIn(b)
  /\ Ask(b, [op |-> "change", at |-> now])
  /\ UNCHANGED <<now, account, session>>

(* Somebody else's, by an administrator. *)
ResetRead(b) ==
  /\ session[b] = SignedOut
  /\ Ask(b, [op |-> "reset", at |-> now])
  /\ UNCHANGED <<now, account, session>>

(* storePassword: dated when the request began, hashing included. *)
StorePassword(b) ==
  LET a == attempt[b] IN
  /\ a.op \in {"change", "reset"}
  /\ account.password < MaxPassword
  /\ account' = [account EXCEPT !.password = @ + 1, !.changedAt = a.at,
                                !.failed = 0, !.lockedUntil = Never]
  /\ attempt' = [attempt EXCEPT ![b] =
       IF a.op = "change" THEN [op |-> "renew", typed |-> account.password + 1] ELSE AtRest]
  /\ UNCHANGED <<now, session>>

(* setUserActive, and a request that is given up. *)
SetUserActive ==
  /\ account' = [account EXCEPT !.active = ~@]
  /\ UNCHANGED <<now, session, attempt>>

GiveUp(b) ==
  /\ attempt[b] # AtRest
  /\ Respond(b)
  /\ UNCHANGED <<now, account, session>>

Tick == now < MaxTime /\ now' = now + 1 /\ UNCHANGED <<account, session, attempt>>

Next ==
  \/ Tick
  \/ SetUserActive
  \/ \E b \in Browser :
       \/ \E typed \in Passwords : AttemptRead(b, typed)
       \/ AttemptFails(b)
       \/ AttemptRefused(b)
       \/ AttemptSucceeds(b)
       \/ Enter(b)
       \/ SignOut(b)
       \/ ChangeRead(b)
       \/ ResetRead(b)
       \/ StorePassword(b)
       \/ GiveUp(b)

Spec == Init /\ [][Next]_vars

-----------------------------------------------------------------------------

(* Type correctness of the account, the cookies and the running requests. *)
TypeOK ==
  /\ now \in 0..MaxTime
  /\ account \in [active : BOOLEAN, password : Passwords, changedAt : Time,
                  failed : 0..MaxFailures, lockedUntil : Time \cup {Never}]
  /\ session \in [Browser -> [began : Time \cup {Never}, password : Passwords \cup {Never}]]
  /\ attempt \in [Browser -> Attempts]

(* "changing a password ends every session that knew the old one" and the  *)
(* one it starts survives: a session begun with the present password works *)
(* for as long as it lasts, and one begun with an old password, in an      *)
(* earlier second than the change, does not.                               *)
SessionsFollowThePassword ==
  \A b \in Browser :
    LET s == session[b] IN
    s # SignedOut /\ ~Expired(s) /\ account.active =>
      /\ s.password = account.password => SignedIn(b)
      /\ s.password # account.password /\ s.began + 2 <= account.changedAt => ~SignedIn(b)

(* A wrong password lifts no lock and loses no count, unless the row was   *)
(* written again between its read and its write.                           *)
OnlyOvertakenForgets ==
  [][account'.failed < account.failed \/ (LockedOut /\ account'.lockedUntil < account.lockedUntil) =>
       \/ account'.password # account.password
       \/ \E b \in Browser : /\ attempt[b].op = "signin" /\ attempt'[b] # attempt[b]
                             /\ \/ attempt[b].right
                                \/ attempt[b].failed # account.failed
                                \/ attempt[b].lockedUntil # account.lockedUntil]_vars
=============================================================================
