----------------------------- MODULE AuthProofs -----------------------------
(***************************************************************************)
(* Proof of what overlapping requests leave in the tables of accounts and  *)
(* refresh tokens, for any number of requests and any limits.              *)
(***************************************************************************)
EXTENDS Auth, TLAPS, FiniteSetTheorems

OneRow == \A a, b \in Rows(accounts) : a = b

\* What a request knows is in the tables: its account once it has one, the token
\* it was sent with; only a request that is over has issued a token.
RequestShape(r) ==
    /\ auth[r].account # NoRow => auth[r].account \in Rows(accounts)
    /\ auth[r].step \in {"verify", "revoke", "issue"} => auth[r].account # NoRow
    /\ auth[r].token # NoRow => auth[r].token \in Rows(tokens)
    /\ auth[r].job \in {"refresh", "logout", "logout_all"} => auth[r].token # NoRow
    /\ auth[r].job \in {"none", "register", "login"} => auth[r].token = NoRow
    /\ auth[r].step # "done" => tokens[r] = NoRow

\* Parents are rows, and revoked; so is the token a rotation is about to replace.
Replaced ==
    /\ \A t \in Rows(tokens) : /\ tokens[t].account \in Rows(accounts)
                               /\ tokens[t].parent # NoRow =>
                                     /\ tokens[t].parent \in Rows(tokens)
                                     /\ tokens[tokens[t].parent].revoked = TRUE
    /\ \A r \in AuthRequests : auth[r].step = "issue" /\ auth[r].token # NoRow
                                  => tokens[auth[r].token].revoked = TRUE

\* No count, stored or read earlier, exceeds the wrong passwords so far.
Counted ==
    /\ \A a \in Rows(accounts) : /\ accounts[a].failed <= badPasswords
                                 /\ accounts[a].locked = TRUE => badPasswords >= MaxFailedLogins
    /\ \A r \in AuthRequests : auth[r].failed <= badPasswords

AuthInv == /\ AuthTypeOK /\ OneRow /\ Replaced /\ Counted
           /\ \A r \in AuthRequests : RequestShape(r)

-----------------------------------------------------------------------------

LEMMA AuthInitInv == AuthInit => AuthInv
<1>. SUFFICES ASSUME AuthInit PROVE AuthInv
  OBVIOUS
<1>1. AuthTypeOK
  BY DEF AuthInit, AuthTypeOK, RequestState, AuthJob
<1>2. OneRow /\ Replaced /\ Counted /\ \A r \in AuthRequests : RequestShape(r)
  BY DEF AuthInit, OneRow, Replaced, Counted, RequestShape, Rows
<1>. QED  BY <1>1, <1>2 DEF AuthInv

LEMMA RowsAre ==
    ASSUME AuthTypeOK
    PROVE  /\ \A a \in AuthRequests : a \in Rows(accounts) <=> accounts[a] \in AccountRow
           /\ \A t \in AuthRequests : t \in Rows(tokens) <=> tokens[t] \in TokenRow
  BY NoRowAssumption DEF AuthTypeOK, Rows


\* A step of a request that leaves the tables alone: what its new state must be
\* for the invariant to stay.
LEMMA RequestMoves ==
    ASSUME AuthInv, NEW r \in AuthRequests, NEW new \in RequestState,
           auth' = [auth EXCEPT ![r] = new], auth[r].step # "done",
           UNCHANGED <<accounts, tokens, badPasswords>>, attempts' \in Nat,
           new.account # NoRow => new.account \in Rows(accounts),
           new.step \in {"verify", "revoke", "issue"} => new.account # NoRow,
           new.token # NoRow => new.token \in Rows(tokens),
           new.job \in {"refresh", "logout", "logout_all"} => new.token # NoRow,
           new.job \in {"none", "register", "login"} => new.token = NoRow,
           new.step # "issue", new.failed <= badPasswords
    PROVE  AuthInv'
<1>1. /\ \A q \in AuthRequests : q # r => auth'[q] = auth[q]
      /\ auth'[r] = new
  BY DEF AuthInv, AuthTypeOK
<1>2. Rows(accounts)' = Rows(accounts) /\ Rows(tokens)' = Rows(tokens)
  BY DEF Rows
<1>3. AuthTypeOK'
  BY DEF AuthInv, AuthTypeOK
<1>4. OneRow'
  BY <1>2 DEF AuthInv, OneRow
<1>5. Replaced'
  BY <1>1, <1>2 DEF AuthInv, Replaced
<1>6. Counted'
  BY <1>1, <1>2 DEF AuthInv, Counted
<1>7. \A q \in AuthRequests : RequestShape(q)'
  BY <1>1, <1>2 DEF AuthInv, RequestShape
<1>. QED  BY <1>3, <1>4, <1>5, <1>6, <1>7 DEF AuthInv

\* ... in particular one that only goes on to another step.
LEMMA MovesOn ==
    ASSUME AuthInv, NEW r \in AuthRequests, NEW step \in {"insert", "done"},
           AuthGoes(r, step), auth[r].step # "done",
           UNCHANGED <<accounts, tokens, badPasswords>>, attempts' \in Nat
    PROVE  AuthInv'
<1>. DEFINE new == [auth[r] EXCEPT !.step = step]
<1>1. auth' = [auth EXCEPT ![r] = new]
  BY DEF AuthGoes
<1>2. /\ new \in RequestState /\ new.step = step /\ new.job = auth[r].job
      /\ new.token = auth[r].token /\ new.account = auth[r].account
      /\ new.failed = auth[r].failed
  BY DEF AuthInv, AuthTypeOK, RequestState
<1>. HIDE DEF new
<1>3. auth[r].failed <= badPasswords /\ RequestShape(r)
  BY DEF AuthInv, Counted
<1>. QED  BY <1>1, <1>2, <1>3, RequestMoves DEF RequestShape

LEMMA ArrivesKeeps ==
    ASSUME AuthInv, NEW r \in AuthRequests, RequestArrives(r)
    PROVE  AuthInv'
<1>1. PICK job \in AuthJob \ {"none"}, good \in BOOLEAN, token \in Rows(tokens) \cup {NoRow} :
          /\ (token # NoRow) = (job \in {"refresh", "logout", "logout_all"})
          /\ auth' = [auth EXCEPT ![r] = [@ EXCEPT !.job = job, !.step = "start",
                                                   !.good = good, !.token = token]]
  BY DEF RequestArrives
<1>2. auth[r].step = "new" /\ UNCHANGED <<accounts, tokens, attempts, badPasswords>>
  BY DEF RequestArrives
<1>. DEFINE new == [auth[r] EXCEPT !.job = job, !.step = "start", !.good = good,
                                   !.token = token]
<1>3. auth' = [auth EXCEPT ![r] = new]
  BY <1>1
<1>4. token \in AuthRequests \cup {NoRow}
  BY DEF Rows
<1>5. /\ new \in RequestState /\ new.step = "start" /\ new.job = job /\ new.token = token
      /\ new.account = auth[r].account /\ new.failed = auth[r].failed
  BY <1>4 DEF AuthInv, AuthTypeOK, RequestState
<1>. HIDE DEF new
<1>6. auth[r].failed <= badPasswords /\ RequestShape(r) /\ attempts \in Nat
  BY DEF AuthInv, Counted, AuthTypeOK
<1>7. new.token # NoRow => new.token \in Rows(tokens)
  BY <1>5
<1>8. /\ new.job \in {"refresh", "logout", "logout_all"} => new.token # NoRow
      /\ new.job \in {"none", "register", "login"} => new.token = NoRow
  BY <1>1, <1>5
<1>9. new.step \notin {"verify", "revoke", "issue"} /\ (new.account # NoRow => new.account \in Rows(accounts))
  BY <1>5, <1>6 DEF RequestShape
<1>. QED  BY <1>2, <1>3, <1>5, <1>6, <1>7, <1>8, <1>9, RequestMoves

LEMMA LoginLooksKeeps ==
    ASSUME AuthInv, NEW r \in AuthRequests, LoginLooks(r)
    PROVE  AuthInv'
<1>0. /\ auth[r].step = "start" /\ auth[r].job = "login"
      /\ UNCHANGED <<accounts, tokens, badPasswords>> /\ attempts \in Nat
      /\ RequestShape(r) /\ auth[r].token = NoRow
  BY DEF LoginLooks, Doing, AuthInv, AuthTypeOK, RequestShape
<1>1. CASE AuthGoes(r, "done") /\ attempts' \in Nat
  BY <1>0, <1>1, MovesOn
<1>2. ASSUME NEW a \in Rows(accounts), attempts' = attempts,
             auth' = [auth EXCEPT ![r].step = "verify", ![r].account = a,
                                  ![r].failed = accounts[a].failed]
      PROVE  AuthInv'
  <2>. DEFINE new == [auth[r] EXCEPT !.step = "verify", !.account = a,
                                     !.failed = accounts[a].failed]
  <2>1. auth' = [auth EXCEPT ![r] = new]
    BY <1>2 DEF AuthInv, AuthTypeOK
  <2>2. accounts[a] \in AccountRow /\ a \in AuthRequests
    BY RowsAre DEF AuthInv, Rows
  <2>3. /\ new \in RequestState /\ new.step = "verify" /\ new.job = "login"
        /\ new.token = NoRow /\ new.account = a /\ new.failed = accounts[a].failed
    BY <1>0, <2>2 DEF AuthInv, AuthTypeOK, RequestState, AccountRow
  <2>. HIDE DEF new
  <2>4. new.failed <= badPasswords /\ a # NoRow
    BY <2>2, <2>3, AuthAssumption DEF AuthInv, Counted
  <2>. QED  BY <1>0, <1>2, <2>1, <2>3, <2>4, RequestMoves
<1>3. \/ AuthGoes(r, "done") /\ (attempts' = attempts \/ attempts' = attempts + 1)
      \/ /\ attempts' = attempts
         /\ \E a \in Rows(accounts) :
               auth' = [auth EXCEPT ![r].step = "verify", ![r].account = a,
                                    ![r].failed = accounts[a].failed]
  BY Zenon DEF LoginLooks
<1>4. attempts' = attempts \/ attempts' = attempts + 1 => attempts' \in Nat
  BY <1>0
<1>. QED  BY <1>1, <1>2, <1>3, <1>4, Zenon

\* A write to the accounts, with or without a step of a request to its end or to
\* the token it is to issue.
LEMMA AccountsWrite ==
    ASSUME AuthInv, accounts' \in [AuthRequests -> AccountRow \cup {NoRow}],
           Rows(accounts) \subseteq Rows(accounts)', OneRow', UNCHANGED tokens,
           badPasswords' \in Nat, badPasswords <= badPasswords', attempts' \in Nat,
           auth' \in [AuthRequests -> RequestState],
           \A a \in Rows(accounts)' :
              /\ accounts'[a].failed <= badPasswords'
              /\ accounts'[a].locked = TRUE => badPasswords' >= MaxFailedLogins,
           \A q \in AuthRequests :
              \/ auth'[q] = auth[q]
              \/ /\ auth[q].step # "done" /\ auth[q].job \in {"register", "login"}
                 /\ auth'[q].job = auth[q].job /\ auth'[q].token = auth[q].token
                 /\ auth'[q].failed = auth[q].failed
                 /\ auth'[q].account \in Rows(accounts)'
    PROVE  AuthInv'
<1>1. Rows(tokens)' = Rows(tokens)
  BY DEF Rows
<1>2. AuthTypeOK'
  BY DEF AuthInv, AuthTypeOK
<1>3. Rows(accounts)' \subseteq AuthRequests
  BY DEF Rows
<1>4. \A q \in AuthRequests : RequestShape(q)'
  <2>. SUFFICES ASSUME NEW q \in AuthRequests PROVE RequestShape(q)'
    OBVIOUS
  <2>. QED  BY <1>1, <1>3, AuthAssumption DEF AuthInv, RequestShape
<1>5. Replaced'
  <2>1. \A q \in AuthRequests : auth'[q] # auth[q] => auth'[q].token = NoRow
    BY DEF AuthInv, RequestShape
  <2>. QED  BY <1>1, <2>1 DEF AuthInv, Replaced
<1>6. Counted'
  <2>1. \A q \in AuthRequests : auth'[q].failed = auth[q].failed /\ auth[q].failed \in Nat
    BY DEF AuthInv, AuthTypeOK, RequestState
  <2>2. \A q \in AuthRequests : auth'[q].failed <= badPasswords'
    BY <2>1 DEF AuthInv, Counted, AuthTypeOK
  <2>. QED  BY <2>2 DEF Counted
<1>. QED  BY <1>2, <1>4, <1>5, <1>6 DEF AuthInv

LEMMA InsertKeeps ==
    ASSUME AuthInv, NEW r \in AuthRequests, InsertAccount(r)
    PROVE  AuthInv'
<1>0. /\ auth[r].step = "insert" /\ auth[r].job = "register"
      /\ UNCHANGED <<tokens, attempts, badPasswords>>
      /\ attempts \in Nat /\ badPasswords \in Nat
  BY DEF InsertAccount, Doing, AuthInv, AuthTypeOK
<1>1. CASE AuthGoes(r, "done") /\ accounts' = accounts
  BY <1>0, <1>1, MovesOn
<1>. DEFINE row == [failed |-> 0, locked |-> FALSE, active |-> TRUE]
<1>2. CASE /\ Rows(accounts) = {}
           /\ accounts' = [accounts EXCEPT ![r] = row]
           /\ auth' = [auth EXCEPT ![r].step = "issue", ![r].account = r]
  <2>0. row \in AccountRow /\ row # NoRow
    <3>1. row \in AccountRow
      BY DEF AccountRow
    <3>. HIDE DEF row
    <3>. QED  BY <3>1, NoRowAssumption
  <2>1. /\ accounts' \in [AuthRequests -> AccountRow \cup {NoRow}]
        /\ Rows(accounts)' = {r} /\ accounts'[r] = row
    BY <1>2, <2>0 DEF AuthInv, AuthTypeOK, Rows
  <2>2. OneRow'
    BY <2>1 DEF OneRow
  <2>3. /\ auth' \in [AuthRequests -> RequestState]
        /\ \A q \in AuthRequests : q # r => auth'[q] = auth[q]
        /\ auth'[r].job = auth[r].job /\ auth'[r].token = auth[r].token
        /\ auth'[r].failed = auth[r].failed /\ auth'[r].account = r
    BY <1>2 DEF AuthInv, AuthTypeOK, RequestState
  <2>4. \A a \in Rows(accounts)' :
           /\ accounts'[a].failed <= badPasswords'
           /\ accounts'[a].locked = TRUE => badPasswords' >= MaxFailedLogins
    BY <1>0, <2>1
  <2>5. \A q \in AuthRequests :
           \/ auth'[q] = auth[q]
           \/ /\ auth[q].step # "done" /\ auth[q].job \in {"register", "login"}
              /\ auth'[q].job = auth[q].job /\ auth'[q].token = auth[q].token
              /\ auth'[q].failed = auth[q].failed
              /\ auth'[q].account \in Rows(accounts)'
    BY <1>0, <2>1, <2>3
  <2>6. Rows(accounts) \subseteq Rows(accounts)' /\ badPasswords <= badPasswords'
    BY <1>0, <1>2
  <2>. QED  BY <1>0, <2>1, <2>2, <2>3, <2>4, <2>5, <2>6, AccountsWrite
<1>. QED  BY <1>1, <1>2 DEF InsertAccount

\* Writing the row of an account that exists leaves one row.
LEMMA RowWritten ==
    ASSUME AuthInv, NEW a \in Rows(accounts), NEW row \in AccountRow,
           accounts' = [accounts EXCEPT ![a] = row]
    PROVE  /\ accounts' \in [AuthRequests -> AccountRow \cup {NoRow}]
           /\ Rows(accounts)' = Rows(accounts) /\ OneRow'
           /\ \A b \in Rows(accounts)' : accounts'[b] = row
<1>0. a \in AuthRequests /\ row # NoRow
  BY NoRowAssumption DEF Rows
<1>1. accounts' \in [AuthRequests -> AccountRow \cup {NoRow}] /\ accounts'[a] = row
  BY <1>0 DEF AuthInv, AuthTypeOK
<1>2. Rows(accounts)' = Rows(accounts)
  BY <1>0 DEF AuthInv, AuthTypeOK, Rows
<1>3. \A b \in Rows(accounts) : b = a
  BY DEF AuthInv, OneRow
<1>. QED  BY <1>1, <1>2, <1>3 DEF AuthInv, OneRow

LEMMA LoginFailsKeeps ==
    ASSUME AuthInv, NEW r \in AuthRequests, LoginFails(r)
    PROVE  AuthInv'
<1>. DEFINE a == auth[r].account
            lock == auth[r].failed + 1 >= MaxFailedLogins
            row == [failed |-> auth[r].failed + 1, locked |-> lock,
                    active |-> accounts[a].active]
<1>0. /\ auth[r].step = "verify" /\ auth[r].job = "login" /\ a \in Rows(accounts)
      /\ UNCHANGED tokens /\ badPasswords' = badPasswords + 1 /\ attempts' = attempts + 1
      /\ attempts \in Nat /\ badPasswords \in Nat /\ auth[r].failed \in Nat
      /\ auth[r].failed <= badPasswords
  BY DEF LoginFails, Doing, AuthInv, AuthTypeOK, RequestShape, RequestState, Counted
<1>1. accounts[a] \in AccountRow /\ a \in AuthRequests
  BY <1>0, RowsAre DEF AuthInv, Rows
<1>2. accounts' = [accounts EXCEPT ![a] = row]
  BY <1>1 DEF LoginFails, AuthInv, AuthTypeOK
<1>3. lock \in BOOLEAN
  OBVIOUS
<1>. HIDE DEF lock
<1>4. row \in AccountRow /\ row.failed = auth[r].failed + 1 /\ row.locked = lock
  <2>1. auth[r].failed + 1 \in Nat
    BY <1>0
  <2>2. accounts[a].active \in BOOLEAN
    BY <1>1 DEF AccountRow
  <2>. QED  BY <1>3, <2>1, <2>2, Zenon DEF AccountRow
<1>. HIDE DEF row
<1>5. /\ accounts' \in [AuthRequests -> AccountRow \cup {NoRow}]
      /\ Rows(accounts)' = Rows(accounts) /\ OneRow'
      /\ \A b \in Rows(accounts)' : accounts'[b] = row
  BY <1>0, <1>2, <1>4, RowWritten
<1>6. row.failed <= badPasswords'
  BY <1>0, <1>4
<1>7. row.locked = TRUE => badPasswords' >= MaxFailedLogins
  <2>1. auth[r].failed + 1 >= MaxFailedLogins => badPasswords' >= MaxFailedLogins
    BY <1>0, AuthAssumption
  <2>2. row.locked = TRUE => auth[r].failed + 1 >= MaxFailedLogins
    BY <1>4, Zenon DEF lock
  <2>. QED  BY <2>1, <2>2
<1>8. /\ auth' \in [AuthRequests -> RequestState]
      /\ \A q \in AuthRequests : q # r => auth'[q] = auth[q]
      /\ auth'[r].job = auth[r].job /\ auth'[r].token = auth[r].token
      /\ auth'[r].failed = auth[r].failed /\ auth'[r].account = a
  BY DEF LoginFails, AuthGoes, AuthInv, AuthTypeOK, RequestState
<1>9. \A q \in AuthRequests :
         \/ auth'[q] = auth[q]
         \/ /\ auth[q].step # "done" /\ auth[q].job \in {"register", "login"}
            /\ auth'[q].job = auth[q].job /\ auth'[q].token = auth[q].token
            /\ auth'[q].failed = auth[q].failed
            /\ auth'[q].account \in Rows(accounts)'
  BY <1>0, <1>5, <1>8
<1>10. /\ badPasswords' \in Nat /\ badPasswords <= badPasswords' /\ attempts' \in Nat
  BY <1>0
<1>11. \A b \in Rows(accounts)' :
          /\ accounts'[b].failed <= badPasswords'
          /\ accounts'[b].locked = TRUE => badPasswords' >= MaxFailedLogins
  BY <1>5, <1>6, <1>7
<1>. QED  BY <1>0, <1>5, <1>8, <1>9, <1>10, <1>11, AccountsWrite

LEMMA LoginSucceedsKeeps ==
    ASSUME AuthInv, NEW r \in AuthRequests, LoginSucceeds(r)
    PROVE  AuthInv'
<1>. DEFINE a == auth[r].account
            row == [accounts[a] EXCEPT !.failed = 0, !.locked = FALSE]
<1>0. /\ auth[r].step = "verify" /\ auth[r].job = "login" /\ a \in Rows(accounts)
      /\ UNCHANGED <<tokens, badPasswords>> /\ attempts' = attempts + 1
      /\ attempts \in Nat /\ badPasswords \in Nat
  BY DEF LoginSucceeds, Doing, AuthInv, AuthTypeOK, RequestShape
<1>1. accounts[a] \in AccountRow /\ a \in AuthRequests
  BY <1>0, RowsAre DEF AuthInv, Rows
<1>2. accounts' = [accounts EXCEPT ![a] = row]
  BY <1>1 DEF LoginSucceeds, AuthInv, AuthTypeOK
<1>3. row \in AccountRow /\ row.failed = 0 /\ row.locked = FALSE
  BY <1>1 DEF AccountRow
<1>. HIDE DEF row
<1>4. /\ accounts' \in [AuthRequests -> AccountRow \cup {NoRow}]
      /\ Rows(accounts)' = Rows(accounts) /\ OneRow'
      /\ \A b \in Rows(accounts)' : accounts'[b] = row
  BY <1>0, <1>2, <1>3, RowWritten
<1>5. /\ auth' \in [AuthRequests -> RequestState]
      /\ \A q \in AuthRequests : q # r => auth'[q] = auth[q]
      /\ auth'[r].job = auth[r].job /\ auth'[r].token = auth[r].token
      /\ auth'[r].failed = auth[r].failed /\ auth'[r].account = a
  BY DEF LoginSucceeds, AuthGoes, AuthInv, AuthTypeOK, RequestState
<1>6. \A q \in AuthRequests :
         \/ auth'[q] = auth[q]
         \/ /\ auth[q].step # "done" /\ auth[q].job \in {"register", "login"}
            /\ auth'[q].job = auth[q].job /\ auth'[q].token = auth[q].token
            /\ auth'[q].failed = auth[q].failed
            /\ auth'[q].account \in Rows(accounts)'
  BY <1>0, <1>4, <1>5
<1>7. badPasswords' \in Nat /\ badPasswords <= badPasswords' /\ attempts' \in Nat
  BY <1>0
<1>8. \A b \in Rows(accounts)' :
         /\ accounts'[b].failed <= badPasswords'
         /\ accounts'[b].locked = TRUE => badPasswords' >= MaxFailedLogins
  BY <1>0, <1>3, <1>4
<1>. QED  BY <1>0, <1>4, <1>5, <1>6, <1>7, <1>8, AccountsWrite

\* Time and the operator: a row of accounts is unlocked or disabled.
LEMMA RowEased ==
    ASSUME AuthInv, NEW a \in Rows(accounts), NEW row \in AccountRow,
           accounts' = [accounts EXCEPT ![a] = row], row.failed = accounts[a].failed,
           row.locked = TRUE => accounts[a].locked = TRUE,
           UNCHANGED <<tokens, attempts, auth, badPasswords>>
    PROVE  AuthInv'
<1>1. /\ accounts' \in [AuthRequests -> AccountRow \cup {NoRow}]
      /\ Rows(accounts)' = Rows(accounts) /\ OneRow'
      /\ \A b \in Rows(accounts)' : accounts'[b] = row
  BY RowWritten
<1>2. /\ badPasswords' \in Nat /\ badPasswords <= badPasswords' /\ attempts' \in Nat
      /\ auth' \in [AuthRequests -> RequestState]
  BY DEF AuthInv, AuthTypeOK
<1>3. \A b \in Rows(accounts)' :
         /\ accounts'[b].failed <= badPasswords'
         /\ accounts'[b].locked = TRUE => badPasswords' >= MaxFailedLogins
  BY <1>1 DEF AuthInv, Counted
<1>. QED  BY <1>1, <1>2, <1>3, AccountsWrite

LEMMA TimeKeeps ==
    ASSUME AuthInv, LockEnds \/ AccountDisabled
    PROVE  AuthInv'
<1>1. CASE LockEnds
  <2>1. PICK a \in Rows(accounts) : accounts' = [accounts EXCEPT ![a].locked = FALSE]
    BY <1>1 DEF LockEnds
  <2>. DEFINE row == [accounts[a] EXCEPT !.locked = FALSE]
  <2>2. accounts[a] \in AccountRow /\ a \in AuthRequests
    BY RowsAre DEF AuthInv, Rows
  <2>3. row \in AccountRow /\ row.failed = accounts[a].failed /\ row.locked = FALSE
    BY <2>2 DEF AccountRow
  <2>4. accounts' = [accounts EXCEPT ![a] = row]
    BY <2>1
  <2>. HIDE DEF row
  <2>. QED  BY <1>1, <2>3, <2>4, RowEased DEF LockEnds
<1>2. CASE AccountDisabled
  <2>1. PICK a \in Rows(accounts) : accounts' = [accounts EXCEPT ![a].active = FALSE]
    BY <1>2 DEF AccountDisabled
  <2>. DEFINE row == [accounts[a] EXCEPT !.active = FALSE]
  <2>2. accounts[a] \in AccountRow /\ a \in AuthRequests
    BY RowsAre DEF AuthInv, Rows
  <2>3. row \in AccountRow /\ row.failed = accounts[a].failed /\ row.locked = accounts[a].locked
    BY <2>2 DEF AccountRow
  <2>4. accounts' = [accounts EXCEPT ![a] = row]
    BY <2>1
  <2>. HIDE DEF row
  <2>. QED  BY <1>2, <2>3, <2>4, RowEased DEF AccountDisabled
<1>. QED  BY <1>1, <1>2

-----------------------------------------------------------------------------
(* Tokens *)

\* A write that revokes or expires tokens, with or without a step of a request.
LEMMA TokensWrite ==
    ASSUME AuthInv, tokens' \in [AuthRequests -> TokenRow \cup {NoRow}],
           Rows(tokens)' = Rows(tokens),
           \A t \in Rows(tokens) : /\ tokens'[t].account = tokens[t].account
                                   /\ tokens'[t].parent = tokens[t].parent
                                   /\ tokens[t].revoked = TRUE => tokens'[t].revoked = TRUE,
           UNCHANGED <<accounts, attempts, badPasswords>>,
           auth' \in [AuthRequests -> RequestState],
           \A q \in AuthRequests :
              \/ auth'[q] = auth[q]
              \/ /\ auth[q].step # "done" /\ auth'[q].job = auth[q].job
                 /\ auth'[q].token = auth[q].token /\ auth'[q].account = auth[q].account
                 /\ auth'[q].failed = auth[q].failed
                 /\ \/ auth'[q].step = "done"
                    \/ auth[q].account # NoRow /\ tokens'[auth[q].token].revoked = TRUE
    PROVE  AuthInv'
<1>1. Rows(accounts)' = Rows(accounts)
  BY DEF Rows
<1>2. AuthTypeOK'
  BY DEF AuthInv, AuthTypeOK
<1>3. OneRow'
  BY <1>1 DEF AuthInv, OneRow
<1>4. \A q \in AuthRequests : tokens[q] = NoRow => tokens'[q] = NoRow
  BY DEF Rows
<1>5. \A q \in AuthRequests : RequestShape(q)'
  <2>. SUFFICES ASSUME NEW q \in AuthRequests PROVE RequestShape(q)'
    OBVIOUS
  <2>. QED  BY <1>1, <1>4 DEF AuthInv, RequestShape
<1>6. \A q \in AuthRequests : auth[q].token # NoRow => auth[q].token \in Rows(tokens)
  BY DEF AuthInv, RequestShape
<1>7. \A t \in Rows(tokens)' : /\ tokens'[t].account \in Rows(accounts)'
                               /\ tokens'[t].parent # NoRow =>
                                     /\ tokens'[t].parent \in Rows(tokens)'
                                     /\ tokens'[tokens'[t].parent].revoked = TRUE
  BY <1>1 DEF AuthInv, Replaced
<1>8. \A q \in AuthRequests : auth'[q].step = "issue" /\ auth'[q].token # NoRow
                                 => tokens'[auth'[q].token].revoked = TRUE
  BY <1>6 DEF AuthInv, Replaced
<1>9. Replaced'
  BY <1>7, <1>8 DEF Replaced
<1>10. Counted'
  BY <1>1 DEF AuthInv, Counted
<1>. QED  BY <1>2, <1>3, <1>5, <1>9, <1>10 DEF AuthInv

TokensOnlyRevoked ==
    /\ tokens' \in [AuthRequests -> TokenRow \cup {NoRow}]
    /\ Rows(tokens)' = Rows(tokens)
    /\ \A t \in Rows(tokens) : /\ tokens'[t].account = tokens[t].account
                               /\ tokens'[t].parent = tokens[t].parent
                               /\ tokens[t].revoked = TRUE => tokens'[t].revoked = TRUE

LEMMA RevokeSome ==
    ASSUME AuthInv, NEW S \in SUBSET Rows(tokens),
           tokens' = [t \in AuthRequests |-> IF t \in S THEN [tokens[t] EXCEPT !.revoked = TRUE]
                                             ELSE tokens[t]]
    PROVE  TokensOnlyRevoked /\ \A t \in S : tokens'[t].revoked = TRUE
<1>1. ASSUME NEW t \in Rows(tokens)
      PROVE  /\ tokens'[t] \in TokenRow /\ tokens'[t] # NoRow
             /\ tokens'[t].account = tokens[t].account
             /\ tokens'[t].parent = tokens[t].parent
             /\ tokens[t].revoked = TRUE => tokens'[t].revoked = TRUE
             /\ t \in S => tokens'[t].revoked = TRUE
  <2>1. tokens[t] \in TokenRow /\ t \in AuthRequests
    BY RowsAre DEF AuthInv, Rows
  <2>2. CASE t \in S
    <3>1. tokens'[t] = [tokens[t] EXCEPT !.revoked = TRUE]
      BY <2>1, <2>2
    <3>2. /\ tokens'[t] \in TokenRow /\ tokens'[t].account = tokens[t].account
          /\ tokens'[t].parent = tokens[t].parent /\ tokens'[t].revoked = TRUE
      BY <2>1, <3>1 DEF TokenRow
    <3>. QED  BY <3>2, NoRowAssumption
  <2>3. CASE t \notin S
    BY <2>1, <2>3, NoRowAssumption
  <2>. QED  BY <2>2, <2>3
<1>2. \A t \in AuthRequests : t \notin Rows(tokens) => tokens'[t] = NoRow
  BY DEF Rows
<1>3. tokens' \in [AuthRequests -> TokenRow \cup {NoRow}]
  <2>1. \A t \in AuthRequests : tokens'[t] \in TokenRow \cup {NoRow}
    BY <1>1, <1>2
  <2>. QED  BY <2>1
<1>4. Rows(tokens)' = Rows(tokens)
  BY <1>1, <1>2 DEF Rows
<1>. QED  BY <1>1, <1>3, <1>4 DEF TokensOnlyRevoked

\* A request that ends with such a write, or goes on to issue a token once the one
\* it was sent with is revoked.
LEMMA EndsRevoking ==
    ASSUME AuthInv, NEW r \in AuthRequests, TokensOnlyRevoked, auth[r].step # "done",
           NEW step \in {"done", "issue"}, AuthGoes(r, step),
           \/ step = "done"
           \/ auth[r].account # NoRow /\ tokens'[auth[r].token].revoked = TRUE,
           UNCHANGED <<accounts, attempts, badPasswords>>
    PROVE  AuthInv'
<1>1. /\ auth' \in [AuthRequests -> RequestState]
      /\ \A q \in AuthRequests : q # r => auth'[q] = auth[q]
      /\ auth'[r].job = auth[r].job /\ auth'[r].token = auth[r].token
      /\ auth'[r].account = auth[r].account /\ auth'[r].failed = auth[r].failed
      /\ auth'[r].step = step
  BY DEF AuthGoes, AuthInv, AuthTypeOK, RequestState
<1>2. \A q \in AuthRequests :
         \/ auth'[q] = auth[q]
         \/ /\ auth[q].step # "done" /\ auth'[q].job = auth[q].job
            /\ auth'[q].token = auth[q].token /\ auth'[q].account = auth[q].account
            /\ auth'[q].failed = auth[q].failed
            /\ \/ auth'[q].step = "done"
               \/ auth[q].account # NoRow /\ tokens'[auth[q].token].revoked = TRUE
  BY <1>1
<1>. QED  BY <1>1, <1>2, TokensWrite DEF TokensOnlyRevoked

\* The token of a request that has one.
LEMMA TokenOf ==
    ASSUME AuthInv, NEW r \in AuthRequests,
           auth[r].job \in {"refresh", "logout", "logout_all"}
    PROVE  /\ auth[r].token \in Rows(tokens) /\ tokens[auth[r].token] \in TokenRow
           /\ tokens[auth[r].token].account \in Rows(accounts)
<1>1. auth[r].token \in Rows(tokens)
  BY DEF AuthInv, RequestShape
<1>. QED  BY <1>1, RowsAre DEF AuthInv, Replaced, Rows

LEMMA RefreshLooksKeeps ==
    ASSUME AuthInv, NEW r \in AuthRequests, RefreshLooks(r)
    PROVE  AuthInv'
<1>. DEFINE row == tokens[auth[r].token]
            S == {t \in Rows(tokens) : tokens[t].account = row.account}
<1>0. /\ auth[r].step = "start" /\ auth[r].job = "refresh"
      /\ UNCHANGED <<accounts, attempts, badPasswords>> /\ attempts \in Nat
  BY DEF RefreshLooks, Doing, AuthInv, AuthTypeOK
<1>1. /\ auth[r].token \in Rows(tokens) /\ row \in TokenRow /\ row.account \in Rows(accounts)
      /\ row.account \in AuthRequests
  BY <1>0, TokenOf DEF Rows
<1>2. \/ /\ tokens' = [t \in AuthRequests |->
                         IF tokens[t] # NoRow /\ tokens[t].account = row.account
                         THEN [tokens[t] EXCEPT !.revoked = TRUE] ELSE tokens[t]]
         /\ AuthGoes(r, "done")
      \/ AuthGoes(r, "done") /\ tokens' = tokens
      \/ /\ auth' = [auth EXCEPT ![r].step = "revoke", ![r].account = row.account]
         /\ tokens' = tokens
  BY DEF RefreshLooks
<1>3. CASE /\ tokens' = [t \in AuthRequests |->
                           IF tokens[t] # NoRow /\ tokens[t].account = row.account
                           THEN [tokens[t] EXCEPT !.revoked = TRUE] ELSE tokens[t]]
           /\ AuthGoes(r, "done")
  <2>1. tokens' = [t \in AuthRequests |-> IF t \in S THEN [tokens[t] EXCEPT !.revoked = TRUE]
                                          ELSE tokens[t]]
    BY <1>3 DEF Rows
  <2>2. TokensOnlyRevoked
    BY <2>1, RevokeSome
  <2>. QED  BY <1>0, <1>3, <2>2, EndsRevoking
<1>4. CASE AuthGoes(r, "done") /\ tokens' = tokens
  BY <1>0, <1>4, MovesOn
<1>5. CASE /\ auth' = [auth EXCEPT ![r].step = "revoke", ![r].account = row.account]
           /\ tokens' = tokens
  <2>. DEFINE new == [auth[r] EXCEPT !.step = "revoke", !.account = row.account]
  <2>1. auth' = [auth EXCEPT ![r] = new]
    BY <1>5 DEF AuthInv, AuthTypeOK
  <2>2. /\ new \in RequestState /\ new.step = "revoke" /\ new.job = "refresh"
        /\ new.token = auth[r].token /\ new.account = row.account
        /\ new.failed = auth[r].failed
    BY <1>0, <1>1 DEF AuthInv, AuthTypeOK, RequestState
  <2>. HIDE DEF new
  <2>3. new.failed <= badPasswords
    BY <2>2 DEF AuthInv, Counted
  <2>4. new.account \in Rows(accounts) /\ new.account # NoRow /\ new.token \in Rows(tokens)
        /\ new.token # NoRow
    BY <1>1, <2>2, AuthAssumption DEF Rows
  <2>. QED  BY <1>0, <1>5, <2>1, <2>2, <2>3, <2>4, RequestMoves
<1>. QED  BY <1>2, <1>3, <1>4, <1>5

\* RevokeOld and Logout revoke the token the request was sent with.
LEMMA RevokeOneKeeps ==
    ASSUME AuthInv, NEW r \in AuthRequests, RevokeOld(r) \/ Logout(r)
    PROVE  AuthInv'
<1>. DEFINE x == auth[r].token
<1>0. /\ auth[r].job \in {"refresh", "logout"}
      /\ tokens' = [tokens EXCEPT ![x].revoked = TRUE]
      /\ UNCHANGED <<accounts, attempts, badPasswords>>
  BY DEF RevokeOld, Logout, Doing
<1>1. x \in Rows(tokens) /\ x \in AuthRequests
  BY <1>0, TokenOf DEF Rows
<1>2. tokens' = [t \in AuthRequests |-> IF t \in {x} THEN [tokens[t] EXCEPT !.revoked = TRUE]
                                        ELSE tokens[t]]
  BY <1>0, <1>1 DEF AuthInv, AuthTypeOK
<1>3. TokensOnlyRevoked /\ tokens'[x].revoked = TRUE
  BY <1>1, <1>2, RevokeSome
<1>4. CASE RevokeOld(r)
  <2>1. auth[r].step = "revoke" /\ AuthGoes(r, "issue")
    BY <1>4 DEF RevokeOld, Doing
  <2>2. auth[r].account # NoRow
    BY <2>1 DEF AuthInv, RequestShape
  <2>. QED  BY <1>0, <1>3, <2>1, <2>2, EndsRevoking
<1>5. CASE Logout(r)
  <2>1. auth[r].step = "start" /\ AuthGoes(r, "done")
    BY <1>5 DEF Logout, Doing
  <2>. QED  BY <1>0, <1>3, <2>1, EndsRevoking
<1>. QED  BY <1>4, <1>5

LEMMA LogoutAllKeeps ==
    ASSUME AuthInv, NEW r \in AuthRequests, LogoutAll(r)
    PROVE  AuthInv'
<1>. DEFINE account == tokens[auth[r].token].account
            S == {t \in Rows(tokens) : tokens[t].account = account}
<1>0. /\ auth[r].step = "start" /\ AuthGoes(r, "done")
      /\ UNCHANGED <<accounts, attempts, badPasswords>> /\ attempts \in Nat
  BY DEF LogoutAll, Doing, AuthInv, AuthTypeOK
<1>1. \/ tokens' = tokens
      \/ tokens' = [t \in AuthRequests |->
                      IF tokens[t] # NoRow /\ tokens[t].account = account
                      THEN [tokens[t] EXCEPT !.revoked = TRUE] ELSE tokens[t]]
  BY DEF LogoutAll
<1>2. CASE tokens' = tokens
  BY <1>0, <1>2, MovesOn
<1>3. CASE tokens' = [t \in AuthRequests |->
                        IF tokens[t] # NoRow /\ tokens[t].account = account
                        THEN [tokens[t] EXCEPT !.revoked = TRUE] ELSE tokens[t]]
  <2>1. tokens' = [t \in AuthRequests |-> IF t \in S THEN [tokens[t] EXCEPT !.revoked = TRUE]
                                          ELSE tokens[t]]
    BY <1>3 DEF Rows
  <2>2. TokensOnlyRevoked
    BY <2>1, RevokeSome
  <2>. QED  BY <1>0, <2>2, EndsRevoking
<1>. QED  BY <1>1, <1>2, <1>3

LEMMA ExpiresKeeps ==
    ASSUME AuthInv, TokenExpires
    PROVE  AuthInv'
<1>1. PICK x \in Rows(tokens) : tokens' = [tokens EXCEPT ![x].expired = TRUE]
  BY DEF TokenExpires
<1>2. UNCHANGED <<accounts, attempts, auth, badPasswords>>
  BY DEF TokenExpires
<1>3. tokens[x] \in TokenRow /\ x \in AuthRequests
  BY RowsAre DEF AuthInv, Rows
<1>. DEFINE row == [tokens[x] EXCEPT !.expired = TRUE]
<1>4. /\ row \in TokenRow /\ row.account = tokens[x].account /\ row.parent = tokens[x].parent
      /\ row.revoked = tokens[x].revoked
  BY <1>3 DEF TokenRow
<1>5. tokens' = [tokens EXCEPT ![x] = row]
  BY <1>1
<1>. HIDE DEF row
<1>6. /\ tokens' \in [AuthRequests -> TokenRow \cup {NoRow}] /\ tokens'[x] = row
      /\ \A t \in AuthRequests : t # x => tokens'[t] = tokens[t]
  BY <1>3, <1>4, <1>5 DEF AuthInv, AuthTypeOK
<1>7. Rows(tokens)' = Rows(tokens)
  BY <1>4, <1>6, NoRowAssumption DEF Rows
<1>8. \A t \in Rows(tokens) : /\ tokens'[t].account = tokens[t].account
                              /\ tokens'[t].parent = tokens[t].parent
                              /\ tokens[t].revoked = TRUE => tokens'[t].revoked = TRUE
  BY <1>4, <1>6 DEF Rows
<1>9. auth' \in [AuthRequests -> RequestState]
  BY <1>2 DEF AuthInv, AuthTypeOK
<1>. QED  BY <1>2, <1>6, <1>7, <1>8, <1>9, TokensWrite

LEMMA IssueKeeps ==
    ASSUME AuthInv, NEW r \in AuthRequests, IssueToken(r)
    PROVE  AuthInv'
<1>. DEFINE row == [account |-> auth[r].account, parent |-> auth[r].token,
                    revoked |-> FALSE, expired |-> FALSE]
<1>0. /\ auth[r].step = "issue" /\ AuthGoes(r, "done") /\ tokens' = [tokens EXCEPT ![r] = row]
      /\ UNCHANGED <<accounts, attempts, badPasswords>>
  BY DEF IssueToken
<1>1. /\ auth[r].account \in Rows(accounts) /\ tokens[r] = NoRow
      /\ auth[r].token # NoRow => auth[r].token \in Rows(tokens)
                                    /\ tokens[auth[r].token].revoked = TRUE
  BY <1>0 DEF AuthInv, RequestShape, Replaced
<1>2. row \in TokenRow /\ row.account = auth[r].account /\ row.parent = auth[r].token
  <2>1. auth[r].account \in AuthRequests /\ auth[r].token \in AuthRequests \cup {NoRow}
    BY <1>1 DEF Rows
  <2>. QED  BY <2>1 DEF TokenRow
<1>. HIDE DEF row
<1>3. /\ tokens' \in [AuthRequests -> TokenRow \cup {NoRow}] /\ tokens'[r] = row
      /\ \A t \in AuthRequests : t # r => tokens'[t] = tokens[t]
  BY <1>0, <1>2 DEF AuthInv, AuthTypeOK
<1>4. Rows(tokens)' = Rows(tokens) \cup {r} /\ r \notin Rows(tokens)
  BY <1>1, <1>2, <1>3, NoRowAssumption DEF Rows
<1>5. Rows(accounts)' = Rows(accounts)
  BY <1>0 DEF Rows
<1>6. /\ auth' \in [AuthRequests -> RequestState]
      /\ \A q \in AuthRequests : q # r => auth'[q] = auth[q]
      /\ auth'[r].job = auth[r].job /\ auth'[r].token = auth[r].token
      /\ auth'[r].account = auth[r].account /\ auth'[r].failed = auth[r].failed
      /\ auth'[r].step = "done"
  BY <1>0 DEF AuthGoes, AuthInv, AuthTypeOK, RequestState
<1>7. AuthTypeOK'
  BY <1>0, <1>3, <1>6 DEF AuthInv, AuthTypeOK
<1>8. OneRow'
  BY <1>5 DEF AuthInv, OneRow
<1>9. \A q \in AuthRequests : RequestShape(q)'
  <2>. SUFFICES ASSUME NEW q \in AuthRequests PROVE RequestShape(q)'
    OBVIOUS
  <2>1. CASE q = r
    BY <1>4, <1>5, <1>6, <2>1 DEF AuthInv, RequestShape
  <2>2. CASE q # r
    BY <1>3, <1>4, <1>5, <1>6, <2>2 DEF AuthInv, RequestShape
  <2>. QED  BY <2>1, <2>2
<1>10. Replaced'
  <2>1. \A t \in Rows(tokens) : tokens'[t] = tokens[t]
    BY <1>3, <1>4 DEF Rows
  <2>2. ASSUME NEW t \in Rows(tokens)'
        PROVE  /\ tokens'[t].account \in Rows(accounts)'
               /\ tokens'[t].parent # NoRow => /\ tokens'[t].parent \in Rows(tokens)'
                                               /\ tokens'[tokens'[t].parent].revoked = TRUE
    <3>1. CASE t = r
      BY <1>1, <1>2, <1>3, <1>4, <1>5, <2>1, <3>1
    <3>2. CASE t # r
      BY <1>4, <1>5, <2>1, <2>2, <3>2 DEF AuthInv, Replaced
    <3>. QED  BY <3>1, <3>2
  <2>3. ASSUME NEW q \in AuthRequests, auth'[q].step = "issue", auth'[q].token # NoRow
        PROVE  tokens'[auth'[q].token].revoked = TRUE
    <3>1. auth'[q] = auth[q]
      BY <1>6, <2>3
    <3>2. auth[q].token \in Rows(tokens) /\ tokens[auth[q].token].revoked = TRUE
      BY <2>3, <3>1 DEF AuthInv, RequestShape, Replaced
    <3>. QED  BY <2>1, <3>1, <3>2
  <2>. QED  BY <2>2, <2>3 DEF Replaced
<1>11. Counted'
  BY <1>0, <1>5, <1>6 DEF AuthInv, Counted
<1>. QED  BY <1>7, <1>8, <1>9, <1>10, <1>11 DEF AuthInv

-----------------------------------------------------------------------------

LEMMA AuthStepInv == AuthInv /\ [AuthNext]_authVars => AuthInv'
<1>. SUFFICES ASSUME AuthInv, [AuthNext]_authVars
              PROVE  AuthInv'
  OBVIOUS
<1>1. CASE MinuteEnds \/ UNCHANGED authVars
  <2>1. UNCHANGED <<accounts, tokens, auth, badPasswords>> /\ attempts' \in Nat
    BY <1>1 DEF MinuteEnds, authVars, AuthInv, AuthTypeOK
  <2>. QED  BY <2>1 DEF AuthInv, AuthTypeOK, OneRow, Replaced, Counted, RequestShape, Rows
<1>2. CASE LockEnds \/ AccountDisabled
  BY <1>2, TimeKeeps
<1>3. CASE TokenExpires
  BY <1>3, ExpiresKeeps
<1>4. ASSUME NEW r \in AuthRequests, RegisterLooks(r) \/ RequestDies(r)
      PROVE  AuthInv'
  <2>1. /\ AuthGoes(r, "done") \/ AuthGoes(r, "insert")
        /\ auth[r].step # "done"
        /\ UNCHANGED <<accounts, tokens, attempts, badPasswords>> /\ attempts \in Nat
    BY <1>4 DEF RegisterLooks, RequestDies, Doing, AuthInv, AuthTypeOK
  <2>. QED  BY <2>1, MovesOn
<1>5. ASSUME NEW r \in AuthRequests,
             \/ RequestArrives(r) \/ InsertAccount(r) \/ LoginLooks(r) \/ LoginFails(r)
             \/ LoginSucceeds(r) \/ RefreshLooks(r) \/ RevokeOld(r) \/ IssueToken(r)
             \/ Logout(r) \/ LogoutAll(r)
      PROVE  AuthInv'
  BY <1>5, ArrivesKeeps, InsertKeeps, LoginLooksKeeps, LoginFailsKeeps, LoginSucceedsKeeps,
     RefreshLooksKeeps, RevokeOneKeeps, IssueKeeps, LogoutAllKeeps
<1>. QED  BY <1>1, <1>2, <1>3, <1>4, <1>5 DEF AuthNext

LEMMA AuthInvSound == AuthInv => AccountsSound
<1>. SUFFICES ASSUME AuthInv PROVE AccountsSound
  OBVIOUS
<1>1. OneAccountPerName
  <2>1. CASE Rows(accounts) = {}
    BY <2>1, FS_EmptySet DEF OneAccountPerName
  <2>2. ASSUME NEW a \in Rows(accounts) PROVE OneAccountPerName
    <3>1. Rows(accounts) = {a}
      BY <2>2 DEF AuthInv, OneRow
    <3>2. Cardinality({a}) = 1
      BY FS_Singleton
    <3>. QED  BY <3>1, <3>2 DEF OneAccountPerName
  <2>. QED  BY <2>1, <2>2
<1>2. ReplacedIsRevoked
  BY DEF AuthInv, Replaced, ReplacedIsRevoked
<1>3. LockNeedsFailures
  BY DEF AuthInv, AuthTypeOK, AccountRow, Rows, Counted, LockNeedsFailures
<1>. QED  BY <1>1, <1>2, <1>3 DEF AccountsSound

\* For any number of overlapping requests and any limits: a name has one account,
\* a refresh token that was replaced is revoked, and an account is locked only
\* after MaxFailedLogins wrong passwords.
THEOREM AccountsAreSound == AuthSpec => []AccountsSound
  BY AuthInitInv, AuthStepInv, AuthInvSound, PTL DEF AuthSpec
=============================================================================
