-------------------------------- MODULE Auth --------------------------------
(***************************************************************************)
(* Accounts, login attempts and refresh tokens (auth/service.py) as the    *)
(* routes of api/auth_routes.py use them, one step per database            *)
(* statement whose result a later step relies on.  Requests run            *)
(* concurrently, in one replica or in several.                             *)
(*                                                                         *)
(* One user name, one client address.  An account and a refresh token are  *)
(* named after the request that inserts them.                              *)
(***************************************************************************)
EXTENDS Naturals, FiniteSets

CONSTANTS
    AuthRequests,       \* requests to register, login, refresh, logout, logout_all
    MaxFailedLogins,    \* settings.auth_max_failed_logins
    LoginsPerMinute,    \* settings.auth_ip_login_per_minute
    NoRow               \* no row

ASSUME AuthAssumption ==
    /\ IsFiniteSet(AuthRequests)
    /\ MaxFailedLogins \in Nat \ {0}
    /\ LoginsPerMinute \in Nat
    /\ NoRow \notin AuthRequests

VARIABLES
    accounts,       \* rows of users with the name, each with its columns
    tokens,         \* rows of refresh_tokens
    attempts,       \* login_attempts of the last minute
    auth,           \* auth[r]: the request
    badPasswords    \* wrong passwords so far (history)

authVars == <<accounts, tokens, attempts, auth, badPasswords>>

AuthJob == {"none", "register", "login", "refresh", "logout", "logout_all"}

AccountRow == [failed : Nat, locked : BOOLEAN, active : BOOLEAN]

TokenRow == [account : AuthRequests, parent : AuthRequests \cup {NoRow},
             revoked : BOOLEAN, expired : BOOLEAN]

ASSUME NoRowAssumption == NoRow \notin AccountRow \cup TokenRow

RequestState ==
    [job : AuthJob, step : {"new", "start", "insert", "verify", "revoke", "issue", "done"},
     good : BOOLEAN, failed : Nat, token : AuthRequests \cup {NoRow},
     account : AuthRequests \cup {NoRow}]

AuthTypeOK ==
    /\ accounts \in [AuthRequests -> AccountRow \cup {NoRow}]
    /\ tokens \in [AuthRequests -> TokenRow \cup {NoRow}]
    /\ attempts \in Nat
    /\ auth \in [AuthRequests -> RequestState]
    /\ badPasswords \in Nat

AuthInit ==
    /\ accounts = [r \in AuthRequests |-> NoRow]
    /\ tokens = [r \in AuthRequests |-> NoRow]
    /\ attempts = 0
    /\ auth = [r \in AuthRequests |-> [job |-> "none", step |-> "new", good |-> FALSE,
                                       failed |-> 0, token |-> NoRow, account |-> NoRow]]
    /\ badPasswords = 0

-----------------------------------------------------------------------------
Rows(table) == {r \in AuthRequests : table[r] # NoRow}

Doing(r, job, step) == auth[r].job = job /\ auth[r].step = step

AuthGoes(r, step) == auth' = [auth EXCEPT ![r].step = step]

RequestArrives(r) ==
    /\ auth[r].step = "new"
    /\ \E job \in AuthJob \ {"none"}, good \in BOOLEAN, token \in Rows(tokens) \cup {NoRow} :
          /\ (token # NoRow) = (job \in {"refresh", "logout", "logout_all"})
          /\ job # "login" => ~good
          /\ auth' = [auth EXCEPT ![r] = [@ EXCEPT !.job = job, !.step = "start",
                                                   !.good = good, !.token = token]]
    /\ UNCHANGED <<accounts, tokens, attempts, badPasswords>>

\* register: rows of registrations are counted but never written to
\* login_attempts, so the limit per hour does not stop any; the name is looked up.
RegisterLooks(r) ==
    /\ Doing(r, "register", "start")
    /\ AuthGoes(r, IF Rows(accounts) # {} THEN "done" ELSE "insert")
    /\ UNCHANGED <<accounts, tokens, attempts, badPasswords>>

\* The INSERT: users.username is UNIQUE, a second row is an error.
InsertAccount(r) ==
    /\ Doing(r, "register", "insert")
    /\ \/ /\ Rows(accounts) = {}
          /\ accounts' = [accounts EXCEPT ![r] =
                            [failed |-> 0, locked |-> FALSE, active |-> TRUE]]
          /\ auth' = [auth EXCEPT ![r].step = "issue", ![r].account = r]
       \/ /\ Rows(accounts) # {}
          /\ AuthGoes(r, "done")
          /\ UNCHANGED accounts
    /\ UNCHANGED <<tokens, attempts, badPasswords>>

\* authenticate: too many attempts, no account, a disabled or a locked one end it
\* (the last three leave an attempt); otherwise the row is kept.
LoginLooks(r) ==
    /\ Doing(r, "login", "start")
    /\ \/ /\ attempts >= LoginsPerMinute
          /\ AuthGoes(r, "done")
          /\ UNCHANGED attempts
       \/ /\ attempts < LoginsPerMinute
          /\ \A a \in Rows(accounts) : ~accounts[a].active \/ accounts[a].locked
          /\ attempts' = attempts + 1
          /\ AuthGoes(r, "done")
       \/ /\ attempts < LoginsPerMinute
          /\ \E a \in Rows(accounts) :
                /\ accounts[a].active /\ ~accounts[a].locked
                /\ auth' = [auth EXCEPT ![r].step = "verify", ![r].account = a,
                                        ![r].failed = accounts[a].failed]
          /\ UNCHANGED attempts
    /\ UNCHANGED <<accounts, tokens, badPasswords>>

\* A wrong password writes the count that was read, plus one, and the lock that
\* follows from it.
LoginFails(r) ==
    /\ Doing(r, "login", "verify")
    /\ ~auth[r].good
    /\ accounts' = [accounts EXCEPT ![auth[r].account] =
                      [failed |-> auth[r].failed + 1,
                       locked |-> auth[r].failed + 1 >= MaxFailedLogins,
                       active |-> @.active]]
    /\ badPasswords' = badPasswords + 1
    /\ attempts' = attempts + 1
    /\ AuthGoes(r, "done")
    /\ UNCHANGED tokens

LoginSucceeds(r) ==
    /\ Doing(r, "login", "verify")
    /\ auth[r].good
    /\ accounts' = [accounts EXCEPT ![auth[r].account].failed = 0,
                                    ![auth[r].account].locked = FALSE]
    /\ attempts' = attempts + 1
    /\ AuthGoes(r, "issue")
    /\ UNCHANGED <<tokens, badPasswords>>

\* rotate_refresh_token reads the token's row; one that is revoked already revokes
\* every token of the account.
RefreshLooks(r) ==
    /\ Doing(r, "refresh", "start")
    /\ LET row == tokens[auth[r].token] IN
       \/ /\ row.revoked
          /\ tokens' = [t \in AuthRequests |->
                          IF tokens[t] # NoRow /\ tokens[t].account = row.account
                          THEN [tokens[t] EXCEPT !.revoked = TRUE] ELSE tokens[t]]
          /\ AuthGoes(r, "done")
       \/ /\ ~row.revoked
          /\ row.expired \/ ~accounts[row.account].active
          /\ AuthGoes(r, "done")
          /\ UNCHANGED tokens
       \/ /\ ~row.revoked /\ ~row.expired /\ accounts[row.account].active
          /\ auth' = [auth EXCEPT ![r].step = "revoke", ![r].account = row.account]
          /\ UNCHANGED tokens
    /\ UNCHANGED <<accounts, attempts, badPasswords>>

\* Faulty variant: the old token is left to expire.
RotateOnly(r) ==
    /\ Doing(r, "refresh", "revoke")
    /\ AuthGoes(r, "issue")
    /\ UNCHANGED <<accounts, tokens, attempts, badPasswords>>

\* "Revoke old, log last_used": committed before the replacement is created.
RevokeOld(r) ==
    /\ Doing(r, "refresh", "revoke")
    /\ tokens' = [tokens EXCEPT ![auth[r].token].revoked = TRUE]
    /\ AuthGoes(r, "issue")
    /\ UNCHANGED <<accounts, attempts, badPasswords>>

\* issue_refresh_token, with the old token as parent after a rotation.
IssueToken(r) ==
    /\ auth[r].step = "issue"
    /\ tokens' = [tokens EXCEPT ![r] = [account |-> auth[r].account, parent |-> auth[r].token,
                                        revoked |-> FALSE, expired |-> FALSE]]
    /\ AuthGoes(r, "done")
    /\ UNCHANGED <<accounts, attempts, badPasswords>>

\* logout revokes the token of the cookie.
Logout(r) ==
    /\ Doing(r, "logout", "start")
    /\ tokens' = [tokens EXCEPT ![auth[r].token].revoked = TRUE]
    /\ AuthGoes(r, "done")
    /\ UNCHANGED <<accounts, attempts, badPasswords>>

\* logout_all, for a user whose access token still names an active account.
LogoutAll(r) ==
    /\ Doing(r, "logout_all", "start")
    /\ LET account == tokens[auth[r].token].account IN
       tokens' = IF ~accounts[account].active THEN tokens
                 ELSE [t \in AuthRequests |->
                         IF tokens[t] # NoRow /\ tokens[t].account = account
                         THEN [tokens[t] EXCEPT !.revoked = TRUE] ELSE tokens[t]]
    /\ AuthGoes(r, "done")
    /\ UNCHANGED <<accounts, attempts, badPasswords>>

\* A request that dies with its connection or its replica between two statements.
RequestDies(r) ==
    /\ auth[r].step \in {"insert", "verify", "revoke", "issue"}
    /\ AuthGoes(r, "done")
    /\ UNCHANGED <<accounts, tokens, attempts, badPasswords>>

\* Time: the minute of the attempts, the lock and the tokens run out.
MinuteEnds ==
    /\ attempts > 0
    /\ attempts' = 0
    /\ UNCHANGED <<accounts, tokens, auth, badPasswords>>

LockEnds ==
    /\ \E a \in Rows(accounts) :
          accounts[a].locked /\ accounts' = [accounts EXCEPT ![a].locked = FALSE]
    /\ UNCHANGED <<tokens, attempts, auth, badPasswords>>

TokenExpires ==
    /\ \E t \in Rows(tokens) :
          ~tokens[t].expired /\ tokens' = [tokens EXCEPT ![t].expired = TRUE]
    /\ UNCHANGED <<accounts, attempts, auth, badPasswords>>

\* External: an operator deactivates the account in the database.
AccountDisabled ==
    /\ \E a \in Rows(accounts) :
          accounts[a].active /\ accounts' = [accounts EXCEPT ![a].active = FALSE]
    /\ UNCHANGED <<tokens, attempts, auth, badPasswords>>

AuthNext ==
    \/ MinuteEnds \/ LockEnds \/ TokenExpires \/ AccountDisabled
    \/ \E r \in AuthRequests :
          \/ RequestArrives(r) \/ RegisterLooks(r) \/ InsertAccount(r)
          \/ LoginLooks(r) \/ LoginFails(r) \/ LoginSucceeds(r)
          \/ RefreshLooks(r) \/ RevokeOld(r) \/ IssueToken(r)
          \/ Logout(r) \/ LogoutAll(r) \/ RequestDies(r)

AuthSpec == AuthInit /\ [][AuthNext]_authVars

-----------------------------------------------------------------------------
(* Properties *)

\* Registrations of one name that overlap leave one account: both may find the
\* name free, the INSERT decides.
OneAccountPerName == Cardinality(Rows(accounts)) <= 1

\* A refresh token that was replaced is revoked, also when the request that
\* replaced it dies between its two transactions or runs beside another one.
ReplacedIsRevoked ==
    \A t \in Rows(tokens) : tokens[t].parent # NoRow => tokens[tokens[t].parent].revoked

\* An account is locked only after as many wrong passwords as the setting says,
\* though counts are written from values read earlier.
LockNeedsFailures ==
    \A a \in Rows(accounts) : accounts[a].locked => badPasswords >= MaxFailedLogins

\* The three together: what overlapping requests leave in the two tables.
AccountsSound == OneAccountPerName /\ ReplacedIsRevoked /\ LockNeedsFailures

=============================================================================
