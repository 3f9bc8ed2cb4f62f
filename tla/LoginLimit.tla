------------------------------ MODULE LoginLimit ------------------------------
(***************************************************************************)
(* The lock of one account (services/auth_service.py, login in             *)
(* api/auth.py): wrong passwords are counted in a Redis key that expires   *)
(* Window after the last of them.  A request reads the count, checks the   *)
(* password, and only then counts the failure or deletes the key; a Redis  *)
(* error on the way is swallowed.                                          *)
(*                                                                         *)
(* orderly    whether the requests come one after the other                *)
(* login      where each request is                                        *)
(* count, ttl the key: its value and how long it lives, 0 and 0 without it *)
(* faults     Redis commands that failed                                   *)
(* tried      wrong passwords checked since the key was last gone          *)
(***************************************************************************)
EXTENDS ServiceBounds, FiniteSets

VARIABLES orderly, login, count, ttl, loginFaults, tried
vars == <<orderly, login, count, ttl, loginFaults, tried>>

Init ==
  /\ orderly \in BOOLEAN
  /\ login = [l \in Logins |-> "idle"]
  /\ count = 0 /\ ttl = 0 /\ loginFaults = 0 /\ tried = 0

At(l, where) == login' = [login EXCEPT ![l] = where]

MayFail == loginFaults < MaxFaults /\ loginFaults' = loginFaults + 1

\* Mutant: one failure more is allowed.
LockedLater(n) == n > Limit
Locked(n) == n >= Limit

\* Mutant: an attempt that is refused renews the lock.
TtlAfterRefusalRenewed == Window
TtlAfterRefusal == ttl

\* No request of l is under way.
Idle(l) == login[l] \in {"idle", "refused"}

\* The count is read.  A locked account answers 429 and counts nothing.
check_login_rate_limit(l) ==
  /\ Idle(l) /\ (orderly => \A k \in Logins : Idle(k))
  /\ \/ ~Locked(count) /\ At(l, "checked") /\ UNCHANGED <<ttl, loginFaults>>
     \/ Locked(count) /\ At(l, "refused") /\ ttl' = TtlAfterRefusal /\ UNCHANGED loginFaults
     \/ MayFail /\ At(l, "checked") /\ UNCHANGED ttl
  /\ UNCHANGED <<orderly, count, tried>>

\* The password is checked: it is right, or right but the user is inactive, or wrong.
authenticate_user(l) ==
  /\ login[l] = "checked"
  /\ \/ At(l, "right") /\ UNCHANGED tried
     \/ At(l, "idle") /\ UNCHANGED tried
     \/ At(l, "wrong") /\ tried' = tried + 1
  /\ UNCHANGED <<orderly, count, ttl, loginFaults>>

\* INCR and EXPIRE, in one transaction.
record_login_failure(l) ==
  /\ login[l] = "wrong" /\ At(l, "idle")
  /\ \/ count' = count + 1 /\ ttl' = Window /\ UNCHANGED loginFaults
     \/ MayFail /\ UNCHANGED <<count, ttl>>
  /\ UNCHANGED <<orderly, tried>>

reset_login_failures(l) ==
  /\ login[l] = "right" /\ At(l, "idle")
  /\ \/ count' = 0 /\ ttl' = 0 /\ tried' = 0 /\ UNCHANGED loginFaults
     \/ MayFail /\ UNCHANGED <<count, ttl, tried>>
  /\ UNCHANGED orderly

\* Time passes; the key expires with its last unit.
Tick ==
  /\ ttl > 0 /\ ttl' = ttl - 1
  /\ count' = IF ttl = 1 THEN 0 ELSE count
  /\ tried' = IF ttl = 1 THEN 0 ELSE tried
  /\ UNCHANGED <<orderly, login, loginFaults>>

Next ==
  \/ \E l \in Logins : \/ check_login_rate_limit(l) \/ authenticate_user(l)
                       \/ record_login_failure(l) \/ reset_login_failures(l)
  \/ Tick
Spec == Init /\ [][Next]_vars /\ WF_vars(Tick)

(***************************************************************************)
(* Properties.                                                             *)
(***************************************************************************)

\* Every variable has its type; a key that exists lives on, one that does not is not
\* counted.
TypeOK ==
  /\ orderly \in BOOLEAN /\ login \in [Logins -> {"idle", "refused", "checked", "right", "wrong"}]
  /\ count \in Nat /\ ttl \in 0..Window /\ loginFaults \in 0..MaxFaults /\ tried \in Nat
  /\ (count > 0) <=> (ttl > 0)

\* As long as Redis answers, at most Limit wrong passwords are tried one after the other,
\* whatever right ones come in between, and with requests at the same time at most one
\* more for each request besides the first: the count is read before the password is
\* checked and raised after it.
GuessesAreBounded ==
  loginFaults = 0 => tried <= IF orderly THEN Limit ELSE Limit - 1 + Cardinality(Logins)

\* A locked account is unlocked in the end, even if the attempts go on: those that are
\* refused do not renew the lock.
LockEnds == Locked(count) ~> ~Locked(count)
=============================================================================
