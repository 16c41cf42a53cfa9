------------------------------ MODULE Accounts ------------------------------
(***************************************************************************)
(* Who may use the dashboard: signing in and user_action in                *)
(* app/routers/admin.py, current_admin in app/security.py, bootstrap_admin *)
(* in app/main.py.                                                         *)
(*                                                                         *)
(* A cookie names an account.  A request looks the account up when it      *)
(* begins and not again when it commits.  Accounts are made by             *)
(* bootstrap_admin alone, from whatever ADMIN_EMAIL is at that start.      *)
(* Passwords, tokens and their expiry are left out.                        *)
(***************************************************************************)

CONSTANTS
    Users,   \* addresses that ADMIN_EMAIL takes
    Changes, \* user_action requests in flight at one time (a bound)
    NoUser   \* a request that is not in flight

ASSUME AccountsAssumption == NoUser \notin Users

VARIABLES
    accounts, active, admin, \* the rows; those with is_active; with is_admin
    cookie,                  \* whose browser holds a cookie
    change,                  \* the requests
    lapsed                   \* history: one was committed for somebody who
                             \* was no longer an active administrator

accountVars == <<accounts, active, admin, cookie, change, lapsed>>

NoChange == [by |-> NoUser, of |-> NoUser, column |-> "admin", to |-> FALSE]

\* A fresh database.
AccountsInit ==
    /\ accounts = {} /\ active = {} /\ admin = {} /\ cookie = {}
    /\ change = [x \in Changes |-> NoChange]
    /\ lapsed = FALSE

\* bootstrap_admin, at a start: the account is made, or promoted; one that is
\* not active stays so.
Boots(u) ==
    /\ accounts' = accounts \cup {u}
    /\ admin' = admin \cup {u}
    /\ active' = IF u \in accounts THEN active ELSE active \cup {u}
    /\ change' = [x \in Changes |-> NoChange]
    /\ lapsed' = (lapsed /\ active' \cap admin' = {})
    /\ UNCHANGED cookie

InCharge == active \cap admin

SignsIn(u) ==
    /\ u \in InCharge \ cookie
    /\ cookie' = cookie \cup {u}
    /\ UNCHANGED <<accounts, active, admin, change, lapsed>>

SignsOut(u) ==
    /\ u \in cookie
    /\ cookie' = cookie \ {u}
    /\ UNCHANGED <<accounts, active, admin, change, lapsed>>

\* current_admin.
Admitted(u) == u \in cookie \cap InCharge

\* "You cannot change your own access."
MayChangeMutant(u, t) == TRUE
MayChange(u, t) == u # t

\* user_action up to its commit: the target is loaded and the column turned.
ChangeBegins(x, u, t, column) ==
    /\ change[x] = NoChange
    /\ Admitted(u) /\ t \in accounts /\ MayChange(u, t)
    /\ change' = [change EXCEPT ![x] =
          [by |-> u, of |-> t, column |-> column,
           to |-> IF column = "admin" THEN t \notin admin ELSE t \notin active]]
    /\ UNCHANGED <<accounts, active, admin, cookie, lapsed>>

Turned(set, x) == IF change[x].to THEN set \cup {change[x].of} ELSE set \ {change[x].of}

ChangeCommits(x) ==
    /\ change[x] # NoChange
    /\ admin' = IF change[x].column = "admin" THEN Turned(admin, x) ELSE admin
    /\ active' = IF change[x].column = "active" THEN Turned(active, x) ELSE active
    /\ lapsed' = (lapsed \/ change[x].by \notin InCharge)
    /\ change' = [change EXCEPT ![x] = NoChange]
    /\ UNCHANGED <<accounts, cookie>>

AccountsNext ==
    \/ \E u \in Users : Boots(u) \/ SignsIn(u) \/ SignsOut(u)
    \/ \E x \in Changes, u, t \in Users, column \in {"admin", "active"} :
          ChangeBegins(x, u, t, column)
    \/ \E x \in Changes : ChangeCommits(x)

AccountsSpec == AccountsInit /\ [][AccountsNext]_accountVars

-----------------------------------------------------------------------------
(* Properties.                                                             *)

AccountsTypeOK ==
    /\ accounts \subseteq Users /\ active \subseteq accounts /\ admin \subseteq accounts
    /\ cookie \subseteq accounts /\ lapsed \in BOOLEAN
    /\ \A x \in Changes : change[x] = NoChange \/ change[x] \in
          [by : accounts, of : accounts, column : {"admin", "active"}, to : BOOLEAN]

\* There is always an active administrator, once there is an account at all:
\* people may take each other's rights away in any order, but the last one
\* only through a request that outlived its author's own rights (user_action:
\* "Locking yourself out of the only admin account is not a feature").
SomebodyInCharge == accounts # {} /\ ~lapsed => InCharge # {}
=============================================================================
