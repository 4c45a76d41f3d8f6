------------------------- MODULE Operations_proofs -------------------------
(***************************************************************************)
(* Proofs about what the store's staff work with: the workforce accounts,   *)
(* for any owners, staff, number of concurrent requests, links and          *)
(* abandoned requests; the open orders with the reorder queue, for any      *)
(* shipment events, stock situations and number of reads and transitions;   *)
(* and the stock positions, for any counts, sales, bins and writes.         *)
(***************************************************************************)
EXTENDS WorkAccounts, ReorderQueue, InventoryPositions, FiniteSetTheorems,
        WellFoundedInduction, TLAPS

-----------------------------------------------------------------------------
(* The workforce accounts. *)

Ops == {"login", "reset", "password", "deactivate", "reactivate", "role", "invite", "create",
        "consume", "bootstrap", "legacy"}
Pcs == {"session", "issue", "write", "mail", "audit", "owner", "reread"}

\* A route in progress: what it is doing, to whom, where it is and the row it read.
IsRequest(q) ==
    /\ q = [op |-> q.op, target |-> q.target, arg |-> q.arg, pc |-> q.pc, copy |-> q.copy]
    /\ q.op \in Ops /\ q.target \in Accounts /\ q.pc \in Pcs

\* What a route may rely on: its account exists, and only staff accounts are
\* invited or get another role.
Routed(r) ==
    LET q == request[r] IN
    /\ (q.op = "legacy" /\ q.pc = "owner") \/ Exists(q.target)
    /\ q.pc = "owner" => q.op = "legacy" /\ q.target = Legacy
    /\ q.pc = "write" => q.op \in {"deactivate", "reactivate", "role", "password"}
    /\ (q.op = "deactivate" /\ q.pc = "write") => q.arg = FALSE
    /\ (q.op = "reactivate" /\ q.pc = "write") => q.arg = TRUE
    /\ q.op \in {"role", "invite"} => q.target \in Staff
    /\ (q.op = "role" /\ q.pc = "write") => q.arg \in StaffRoles
    /\ q.pc = "issue" => q.op \in {"invite", "reset"}
    /\ q.pc = "mail" => q.arg \in 1 .. links
    /\ q.pc = "session" => q.copy \in Account

\* Rows, requests and sessions are what the routes write, owners stay owners.
AccountRows ==
    /\ account \in [Accounts -> Account \cup {None}]
    /\ \A a \in Accounts : Exists(a) =>
          /\ account[a].active <=> account[a].status = "active"
          /\ account[a].version \in 1 .. MaxVersion
          /\ a \in Owners => account[a].role = "owner" /\ account[a].status # "invited"
          /\ a \in Staff => account[a].role \in StaffRoles
RequestRows ==
    /\ request = [r \in Requests |-> request[r]]
    /\ \A r \in Requests : request[r] = Idle \/ (IsRequest(request[r]) /\ Routed(r))
LinkRows == links \in 0 .. MaxLinks /\ mailed \subseteq 1 .. links

Rows == AccountRows /\ RequestRows /\ LinkRows

\* Row or session c is not newer than row d, and says the same when it is as new.
NotNewer(c, d) ==
    /\ c.version \in Nat /\ c.version <= d.version
    /\ c.version = d.version => c.role = d.role /\ c.pw = d.pw

\* Sessions handed out, and rows read for a session that will be.
SessionsAge ==
    /\ \A s \in sessions : s.account \in Accounts /\ Exists(s.account) /\ NotNewer(s, account[s.account])
    /\ \A r \in Requests : (request[r].op # "none" /\ request[r].pc = "session") =>
          NotNewer(request[r].copy, account[request[r].target])

\* A link is stored in one place at most, and one that is stored was not used.
LinkAt(a, kind) == IF kind = "invitation" THEN account[a].invitation ELSE account[a].reset
LinkKinds == {"invitation", "reset"}
LinksFresh ==
    /\ spent \in [1 .. MaxLinks -> Nat]
    /\ \A t \in 1 .. MaxLinks : spent[t] <= 1 /\ (t > links => spent[t] = 0)
    /\ \A a \in Accounts, k \in LinkKinds : (Exists(a) /\ LinkAt(a, k) # None) =>
          /\ LinkAt(a, k) \in 1 .. links /\ spent[LinkAt(a, k)] = 0
          /\ \A b \in Accounts, m \in LinkKinds :
                (Exists(b) /\ LinkAt(b, m) = LinkAt(a, k)) => a = b /\ k = m

\* Accounts that are being or were bootstrapped.
Bootstrapped ==
    {e.account : e \in {f \in audit : f.action = "bootstrap"}} \cup
    {request[r].target : r \in {q \in Requests : request[q].op = "bootstrap"}}
FirstOwner ==
    /\ audit \subseteq [action : Ops, account : Accounts]
    /\ \A a, b \in Bootstrapped : a = b
    /\ Bootstrapped # {} => ~NoAccountYet

\* While no two deactivations of owners cross, the one under way leaves an owner.
Leaving(r) == /\ request[r].op = "deactivate" /\ request[r].pc = "write"
              /\ request[r].target \in Owners
OwnersStay ==
    crossing = FALSE =>
        /\ OwnerRemains
        /\ \A r \in Requests : Leaving(r) => ActiveOwners \ {request[r].target} # {}
        /\ \A r, q \in Requests : (Leaving(r) /\ Leaving(q)) => request[r].target = request[q].target

\* The inductive invariant.
AccountInv == Rows /\ SessionsAge /\ LinksFresh /\ FirstOwner /\ OwnersStay /\ crossing \in BOOLEAN

-----------------------------------------------------------------------------
(* The store's methods. *)

\* What becomes of a row: it is created, or its session version goes up, or its
\* role and its password stay; owners stay owners and are never invited.
Evolves(a, v) ==
    /\ v \in Account /\ v.version \in 1 .. MaxVersion /\ (v.active <=> v.status = "active")
    /\ a \in Owners => v.role = "owner" /\ v.status # "invited"
    /\ a \in Staff => v.role \in StaffRoles
    /\ Exists(a) => \/ v.version = account[a].version + 1
                    \/ /\ v.version = account[a].version
                       /\ v.role = account[a].role /\ v.pw = account[a].pw
    /\ ~Exists(a) => v.invitation = None /\ v.reset = None

\* A new row is of its role, without a link.
LEMMA NewRow ==
    ASSUME AccountAssumption, NEW role \in StaffRoles \cup {"owner"}, NEW status \in Status
    PROVE  /\ NewAccount(role, status) \in Account
           /\ NewAccount(role, status).role = role /\ NewAccount(role, status).version = 1
           /\ NewAccount(role, status).active <=> status = "active"
           /\ NewAccount(role, status).status = status
           /\ NewAccount(role, status).invitation = None
           /\ NewAccount(role, status).reset = None
  BY DEF NewAccount, Account, Status

\* The session version goes up and nothing else changes.
LEMMA BumpRow ==
    ASSUME NEW c \in Account
    PROVE  /\ Bump(c) \in Account /\ Bump(c).version = c.version + 1 /\ Bump(c).role = c.role
           /\ Bump(c).active = c.active /\ Bump(c).status = c.status
           /\ Bump(c).invitation = c.invitation /\ Bump(c).reset = c.reset
  BY DEF Bump, Account

\* set_active, set_role and set_password end the sessions of the row.
LEMMA SetActiveRow ==
    ASSUME NEW c \in Account, NEW on \in BOOLEAN
    PROVE  /\ SetActive(c, on) \in Account
           /\ SetActive(c, on).version = c.version + 1 /\ SetActive(c, on).role = c.role
           /\ SetActive(c, on).active <=> on
           /\ SetActive(c, on).status = IF on THEN "active" ELSE "inactive"
           /\ SetActive(c, on).invitation = c.invitation /\ SetActive(c, on).reset = c.reset
  <1> DEFINE d == [c EXCEPT !.active = on, !.status = IF on THEN "active" ELSE "inactive"]
  <1>1. d \in Account /\ d.version = c.version /\ d.role = c.role /\ d.invitation = c.invitation /\ d.reset = c.reset /\ (d.active <=> on)
        /\ d.status = IF on THEN "active" ELSE "inactive"
    BY DEF Account, Status
  <1> HIDE DEF d
  <1>2. SetActive(c, on) = Bump(d)
    BY DEF SetActive, d
  <1> QED
    BY <1>1, <1>2, BumpRow

\* A new role ends the sessions of the account and touches nothing else.
LEMMA SetRoleRow ==
    ASSUME NEW c \in Account, NEW role \in StaffRoles
    PROVE  /\ SetRole(c, role) \in Account
           /\ SetRole(c, role).version = c.version + 1 /\ SetRole(c, role).role = role
           /\ SetRole(c, role).active <=> c.active
           /\ SetRole(c, role).status = c.status
           /\ SetRole(c, role).invitation = c.invitation /\ SetRole(c, role).reset = c.reset
  <1> DEFINE d == [c EXCEPT !.role = role]
  <1>1. d \in Account /\ d.version = c.version /\ d.active = c.active /\ d.status = c.status /\ d.invitation = c.invitation /\ d.reset = c.reset
        /\ d.role = role
    BY DEF Account, Status
  <1> HIDE DEF d
  <1>2. SetRole(c, role) = Bump(d)
    BY DEF SetRole, d
  <1> QED
    BY <1>1, <1>2, BumpRow

\* A new password ends the sessions of the account and touches nothing else.
LEMMA SetPasswordRow ==
    ASSUME NEW c \in Account
    PROVE  /\ SetPassword(c) \in Account
           /\ SetPassword(c).version = c.version + 1 /\ SetPassword(c).role = c.role
           /\ SetPassword(c).active <=> c.active
           /\ SetPassword(c).status = c.status
           /\ SetPassword(c).invitation = c.invitation /\ SetPassword(c).reset = c.reset
  <1> DEFINE d == [c EXCEPT !.pw = @ + 1]
  <1>1. d \in Account /\ d.version = c.version /\ d.role = c.role /\ d.active = c.active /\ d.status = c.status /\ d.invitation = c.invitation /\ d.reset = c.reset
    BY DEF Account, Status
  <1> HIDE DEF d
  <1>2. SetPassword(c) = Bump(d)
    BY DEF SetPassword, d
  <1> QED
    BY <1>1, <1>2, BumpRow

\* A link that is stored leaves version, role and password alone.
LEMMA SetInvitationRow ==
    ASSUME NEW c \in Account, NEW t \in Nat
    PROVE  /\ SetInvitation(c, t) \in Account
           /\ SetInvitation(c, t).version = c.version /\ SetInvitation(c, t).role = c.role
           /\ SetInvitation(c, t).pw = c.pw
           /\ ~ SetInvitation(c, t).active
           /\ SetInvitation(c, t).status = "invited"
           /\ SetInvitation(c, t).invitation = t /\ SetInvitation(c, t).reset = c.reset
  BY DEF SetInvitation, Account, Status

\* A reset link is put into the row and ends no session.
LEMMA SetResetTokenRow ==
    ASSUME NEW c \in Account, NEW t \in Nat
    PROVE  /\ SetResetToken(c, t) \in Account
           /\ SetResetToken(c, t).version = c.version /\ SetResetToken(c, t).role = c.role
           /\ SetResetToken(c, t).pw = c.pw
           /\ SetResetToken(c, t).active <=> c.active
           /\ SetResetToken(c, t).status = c.status
           /\ SetResetToken(c, t).invitation = c.invitation /\ SetResetToken(c, t).reset = t
  BY DEF SetResetToken, Account

\* A link that is consumed is taken out of the row, and its sessions end.
LEMMA ActivateInvitationRow ==
    ASSUME NEW c \in Account
    PROVE  /\ ActivateInvitation(c) \in Account
           /\ ActivateInvitation(c).version = c.version + 1 /\ ActivateInvitation(c).role = c.role
           /\ ActivateInvitation(c).active
           /\ ActivateInvitation(c).status = "active"
           /\ ActivateInvitation(c).invitation = None /\ ActivateInvitation(c).reset = c.reset
  <1> DEFINE d == [c EXCEPT !.active = TRUE, !.status = "active", !.pw = @ + 1, !.invitation = None]
  <1>1. d \in Account /\ d.version = c.version /\ d.role = c.role /\ d.reset = c.reset
        /\ d.active /\ d.status = "active" /\ d.invitation = None
    <2>1. c.pw + 1 \in Nat /\ None \in Nat \cup {None}
      BY DEF Account
    <2>2. DOMAIN d = DOMAIN c
      BY DEF Account
    <2> QED
      BY <2>1, <2>2 DEF Account, Status
  <1> HIDE DEF d
  <1>2. ActivateInvitation(c) = Bump(d)
    BY DEF ActivateInvitation, d
  <1> QED
    BY <1>1, <1>2, BumpRow

\* A reset link that is consumed is taken out of the row, and its sessions end.
LEMMA ConsumeResetTokenRow ==
    ASSUME NEW c \in Account
    PROVE  /\ ConsumeResetToken(c) \in Account
           /\ ConsumeResetToken(c).version = c.version + 1 /\ ConsumeResetToken(c).role = c.role
           /\ ConsumeResetToken(c).active <=> c.active
           /\ ConsumeResetToken(c).status = c.status
           /\ ConsumeResetToken(c).invitation = c.invitation /\ ConsumeResetToken(c).reset = None
  <1> DEFINE d == [c EXCEPT !.pw = @ + 1, !.reset = None]
  <1>1. d \in Account /\ d.version = c.version /\ d.role = c.role /\ d.active = c.active /\ d.status = c.status /\ d.invitation = c.invitation
        /\ d.reset = None
    <2>1. c.pw + 1 \in Nat /\ None \in Nat \cup {None}
      BY DEF Account
    <2>2. DOMAIN d = DOMAIN c
      BY DEF Account
    <2> QED
      BY <2>1, <2>2 DEF Account, Status
  <1> HIDE DEF d
  <1>2. ConsumeResetToken(c) = Bump(d)
    BY DEF ConsumeResetToken, d
  <1> QED
    BY <1>1, <1>2, BumpRow

\* A request that is not idle is a route that may rely on what Routed says.
LEMMA BusyRequest ==
    ASSUME Rows, NEW r \in Requests, request[r].op # "none" \/ request[r] # Idle
    PROVE  IsRequest(request[r]) /\ Routed(r)
  BY DEF Rows, RequestRows, Idle

\* A row that evolves keeps the table as it should be, and no account disappears.
LEMMA EvolvedRows ==
    ASSUME AccountAssumption, AccountRows, NEW a \in Accounts, NEW v, Evolves(a, v),
           account' = [account EXCEPT ![a] = v]
    PROVE  AccountRows' /\ (\A b \in Accounts : Exists(b) => Exists(b)') /\ Exists(a)'
  <1>1. v \in Account /\ v # None
    BY DEF Evolves, AccountAssumption
  <1>2. account' \in [Accounts -> Account \cup {None}]
    BY <1>1 DEF AccountRows
  <1>3. account'[a] = v /\ \A b \in Accounts \ {a} : account'[b] = account[b]
    BY DEF AccountRows
  <1>4. ASSUME NEW b \in Accounts, Exists(b)'
        PROVE  /\ account'[b].active <=> account'[b].status = "active"
               /\ account'[b].version \in 1 .. MaxVersion
               /\ b \in Owners => account'[b].role = "owner" /\ account'[b].status # "invited"
               /\ b \in Staff => account'[b].role \in StaffRoles
    <2>1. CASE b = a
      BY <1>3, <2>1 DEF Evolves
    <2>2. CASE b # a
      BY <1>3, <1>4, <2>2 DEF AccountRows, Exists
    <2> QED
      BY <2>1, <2>2
  <1> QED
    BY <1>1, <1>2, <1>3, <1>4 DEF AccountRows, Exists

\* A step of one request leaves the others what they rely on: accounts and links
\* that are there stay.
LEMMA RequestStep ==
    ASSUME RequestRows, LinkRows, NEW r \in Requests, NEW q, request' = [request EXCEPT ![r] = q],
           \A b \in Accounts : Exists(b) => Exists(b)',
           links' \in Nat, links <= links',
           q = Idle \/ (IsRequest(q) /\ Routed(r)')
    PROVE  RequestRows'
  <1>1. \A p \in Requests : request'[p] = IF p = r THEN q ELSE request[p]
    BY DEF RequestRows
  <1>2. request' = [p \in Requests |-> request'[p]]
    BY DEF RequestRows
  <1>3. ASSUME NEW p \in Requests, p # r
        PROVE  request'[p] = Idle \/ (IsRequest(request'[p]) /\ Routed(p)')
    <2>1. request'[p] = request[p]
      BY <1>1, <1>3
    <2>2. request[p] = Idle \/ (IsRequest(request[p]) /\ Routed(p))
      BY DEF RequestRows
    <2>3. ASSUME IsRequest(request[p]), Routed(p) PROVE Routed(p)'
      <3>1. request[p].target \in Accounts /\ 1 .. links \subseteq 1 .. links'
        BY <2>3 DEF IsRequest, LinkRows
      <3> QED
        BY <2>1, <2>3, <3>1 DEF Routed
    <2> QED
      BY <2>1, <2>2, <2>3
  <1>4. request'[r] = Idle \/ (IsRequest(request'[r]) /\ Routed(r)')
    BY <1>1
  <1> QED
    BY <1>2, <1>3, <1>4 DEF RequestRows

\* A route that passed its checks goes on; nothing else has changed.
LEMMA EnterStep ==
    ASSUME Rows, NEW r \in Requests, NEW op \in Ops, NEW a \in Accounts, NEW arg, NEW pc \in Pcs,
           Enter(r, op, a, arg, pc), UNCHANGED <<account, links, mailed>>,
           (op = "legacy" /\ pc = "owner") \/ Exists(a),
           pc = "owner" => op = "legacy" /\ a = Legacy,
           pc = "write" => op \in {"deactivate", "reactivate", "role", "password"},
           op = "deactivate" => arg = FALSE, op = "reactivate" => arg = TRUE,
           op \in {"role", "invite"} => a \in Staff, op = "role" => arg \in StaffRoles,
           pc = "issue" => op \in {"invite", "reset"}, pc # "mail"
    PROVE  Rows'
  <1>1. PICK q : q = [op |-> op, target |-> a, arg |-> arg, pc |-> pc, copy |-> account[a]]
    OBVIOUS
  <1>2. request' = [request EXCEPT ![r] = q] /\ request'[r] = q
    BY <1>1 DEF Enter, Rows, RequestRows
  <1>3. q.op = op /\ q.target = a /\ q.arg = arg /\ q.pc = pc /\ q.copy = account[a]
    BY <1>1
  <1>4. IsRequest(q)
    BY <1>1 DEF IsRequest
  <1>5. pc = "session" => account[a] \in Account
    BY DEF Exists, Rows, AccountRows, Ops, Pcs
  <1>6. Routed(r)'
    BY <1>2, <1>3, <1>5 DEF Routed, Exists
  <1>7. RequestRows'
    <2>1. RequestRows /\ LinkRows /\ links' \in Nat /\ links <= links'
      BY DEF Rows, LinkRows
    <2>2. \A b \in Accounts : Exists(b) => Exists(b)'
      BY DEF Exists
    <2> QED
      BY <1>2, <1>4, <1>6, <2>1, <2>2, RequestStep
  <1> QED
    BY <1>7 DEF Rows, AccountRows, LinkRows, Exists

\* An account of a session that is accepted exists, and a caller is an owner's account.
LEMMA SignedIn ==
    ASSUME SessionsAge, NEW a, \E s \in sessions : s.account = a /\ Current(s)
    PROVE  a \in Accounts /\ Exists(a)
  BY DEF SessionsAge

\* The part of a row and the version of it that a route may write.
LEMMA RowFacts ==
    ASSUME AccountRows, NEW a \in Accounts, Exists(a)
    PROVE  /\ account[a] \in Account /\ account[a].version \in Nat \ {0}
           /\ account[a].version \in 1 .. MaxVersion
           /\ account[a].active <=> account[a].status = "active"
           /\ a \in Owners => account[a].role = "owner" /\ account[a].status # "invited"
           /\ a \in Staff => account[a].role \in StaffRoles
  BY DEF AccountRows, Exists

\* The single UPDATE of a route: the session version goes up.
LEMMA WriteStep ==
    ASSUME AccountAssumption, Rows, NEW r \in Requests, Write(r)
    PROVE  /\ Rows'
           /\ \E v : /\ Evolves(request[r].target, v) /\ Exists(request[r].target)
                     /\ account' = [account EXCEPT ![request[r].target] = v]
                     /\ v.invitation = account[request[r].target].invitation
                     /\ v.reset = account[request[r].target].reset
                     /\ ~(request[r].op = "deactivate") =>
                           (account[request[r].target].active => v.active)
  <1>1. IsRequest(request[r]) /\ Routed(r) /\ request[r].pc = "write"
    BY BusyRequest DEF Write
  <1>2. PICK q : q = request[r]
    OBVIOUS
  <1>3. PICK a \in Accounts : a = request[r].target
    BY <1>1 DEF IsRequest
  <1>4. Exists(a) /\ q.op \in {"deactivate", "reactivate", "role", "password"}
        /\ (q.op \in {"deactivate", "reactivate"} => q.arg \in BOOLEAN)
        /\ (q.op = "reactivate" => q.arg = TRUE)
        /\ (q.op = "role" => a \in Staff /\ q.arg \in StaffRoles)
    BY <1>1, <1>2, <1>3 DEF Routed
  <1>5. PICK c \in Account : c = account[a]
    BY <1>3, <1>4, RowFacts DEF Rows
  <1>6. c.version < MaxVersion /\ c.version \in 1 .. MaxVersion /\ c.version \in Nat
        /\ (c.active <=> c.status = "active")
        /\ (a \in Owners => c.role = "owner" /\ c.status # "invited")
        /\ (a \in Staff => c.role \in StaffRoles)
    BY <1>3, <1>4, <1>5, RowFacts DEF Rows, Write
  <1>7. PICK v : v = CASE q.op \in {"deactivate", "reactivate"} -> SetActive(c, q.arg)
                       [] q.op = "role" -> SetRole(c, q.arg)
                       [] q.op = "password" -> SetPassword(c)
    OBVIOUS
  <1>8. account' = [account EXCEPT ![a] = v] /\ request' = [request EXCEPT ![r].pc = "audit"]
    BY <1>2, <1>3, <1>5, <1>7 DEF Write, Update
  <1>9. /\ v \in Account /\ v.version = c.version + 1 /\ (v.active <=> v.status = "active")
        /\ v.status \in {c.status, "active", "inactive"}
        /\ v.role = c.role \/ (a \in Staff /\ v.role \in StaffRoles)
        /\ v.invitation = c.invitation /\ v.reset = c.reset
        /\ ~(q.op = "deactivate") => (c.active => v.active)
    <2>1. CASE q.op \in {"deactivate", "reactivate"}
      <3>1. v = SetActive(c, q.arg) /\ q.arg \in BOOLEAN
        BY <1>4, <1>7, <2>1
      <3> QED
        BY <1>4, <2>1, <3>1, SetActiveRow
    <2>2. CASE q.op = "role"
      <3>1. v = SetRole(c, q.arg)
        BY <1>7, <2>2
      <3> QED
        BY <1>4, <1>6, <2>2, <3>1, SetRoleRow
    <2>3. CASE q.op = "password"
      <3>1. v = SetPassword(c)
        BY <1>7, <2>3
      <3> QED
        BY <1>6, <3>1, SetPasswordRow
    <2> QED
      BY <1>4, <2>1, <2>2, <2>3
  <1>10. Evolves(a, v)
    BY <1>3, <1>4, <1>5, <1>6, <1>9 DEF Evolves, AccountAssumption
  <1>11. AccountRows' /\ \A b \in Accounts : Exists(b) => Exists(b)'
    BY <1>8, <1>10, EvolvedRows DEF Rows
  <1>12. PICK p : p = [q EXCEPT !.pc = "audit"]
    OBVIOUS
  <1>13. request' = [request EXCEPT ![r] = p] /\ request'[r] = p
    BY <1>2, <1>8, <1>12 DEF Rows, RequestRows
  <1>14. p.op = q.op /\ p.target = q.target /\ p.arg = q.arg /\ p.pc = "audit" /\ p.copy = q.copy
         /\ IsRequest(p)
    BY <1>1, <1>2, <1>12 DEF IsRequest, Pcs
  <1>15. Routed(r)'
    BY <1>1, <1>2, <1>3, <1>4, <1>11, <1>13, <1>14 DEF Routed
  <1>16. links' = links /\ mailed' = mailed
    BY DEF Write
  <1>17. RequestRows' /\ LinkRows'
    <2>1. RequestRows /\ LinkRows /\ links' \in Nat /\ links <= links' /\ LinkRows'
      BY <1>16 DEF Rows, LinkRows
    <2> QED
      BY <1>11, <1>13, <1>14, <1>15, <2>1, RequestStep
  <1> QED
    BY <1>2, <1>3, <1>4, <1>5, <1>8, <1>9, <1>10, <1>11, <1>17 DEF Rows

\* A route changes its row and goes on.
LEMMA RowAndRequest ==
    ASSUME AccountAssumption, Rows, NEW r \in Requests, NEW a \in Accounts, NEW v, Evolves(a, v),
           account' = [account EXCEPT ![a] = v], NEW p, request' = [request EXCEPT ![r] = p],
           IsRequest(p), p.target = a, p.pc \in {"audit", "mail", "issue"},
           p.op \in {"role", "invite"} => a \in Staff, p.pc = "issue" => p.op \in {"invite", "reset"},
           p.pc = "mail" => p.arg \in 1 .. links', LinkRows', links <= links'
    PROVE  Rows' /\ (\A b \in Accounts : Exists(b) => Exists(b)') /\ Exists(a)'
  <1>1. AccountRows' /\ (\A b \in Accounts : Exists(b) => Exists(b)') /\ Exists(a)'
    BY EvolvedRows DEF Rows
  <1>2. request'[r] = p
    BY DEF Rows, RequestRows
  <1>3. Routed(r)'
    BY <1>1, <1>2 DEF Routed
  <1>4. RequestRows /\ LinkRows /\ links' \in Nat
    BY DEF Rows, LinkRows
  <1>5. RequestRows'
    BY <1>1, <1>3, <1>4, RequestStep
  <1> QED
    BY <1>1, <1>5 DEF Rows

\* create_work_account and invite_work_account insert a staff row.
LEMMA CreateStep ==
    ASSUME AccountAssumption, Rows, NEW r \in Requests, NEW w, NEW a \in Staff,
           NEW role \in StaffRoles, NEW invited \in BOOLEAN, Create(r, w, a, role, invited)
    PROVE  Rows' /\ ~Exists(a) /\ \E v : Evolves(a, v) /\ account' = [account EXCEPT ![a] = v]
  <1>1. a \in Accounts /\ ~Exists(a) /\ a \notin Owners
    BY DEF Create, Accounts, AccountAssumption
  <1>2. PICK v : v = NewAccount(role, IF invited THEN "invited" ELSE "active")
    OBVIOUS
  <1>3. /\ v \in Account /\ v.role = role /\ v.version = 1 /\ (v.active <=> v.status = "active")
        /\ v.invitation = None /\ v.reset = None
    <2>1. (IF invited THEN "invited" ELSE "active") \in Status
      BY DEF Status
    <2> QED
      BY <1>2, <2>1, NewRow
  <1>4. Evolves(a, v)
    BY <1>1, <1>3 DEF Evolves, AccountAssumption
  <1>5. account' = [account EXCEPT ![a] = v] /\ links' = links /\ mailed' = mailed
    BY <1>2 DEF Create
  <1>6. PICK p : p = [op |-> IF invited THEN "invite" ELSE "create", target |-> a, arg |-> None,
                      pc |-> IF invited THEN "issue" ELSE "audit", copy |-> account'[a]]
    OBVIOUS
  <1>7. /\ request' = [request EXCEPT ![r] = p]
        /\ p.target = a /\ p.op = (IF invited THEN "invite" ELSE "create")
        /\ p.pc = (IF invited THEN "issue" ELSE "audit")
    BY <1>6 DEF Create
  <1>8. IsRequest(p)
    BY <1>1, <1>6 DEF IsRequest, Ops, Pcs
  <1>9. LinkRows' /\ links <= links'
    BY <1>5 DEF Rows, LinkRows
  <1>10. p.pc \in {"audit", "mail", "issue"} /\ p.pc # "mail"
         /\ (p.pc = "issue" => p.op \in {"invite", "reset"})
    BY <1>7
  <1>11. Rows'
    BY <1>1, <1>4, <1>5, <1>7, <1>8, <1>9, <1>10, RowAndRequest
  <1> QED
    BY <1>1, <1>4, <1>5, <1>11

\* bootstrap and legacy login insert an active owner.
LEMMA NewOwnerStep ==
    ASSUME AccountAssumption, Rows, NEW r \in Requests, NEW op \in {"bootstrap", "legacy"},
           NEW a \in Owners, ~Exists(a), NewOwner(r, op, a), UNCHANGED <<links, mailed>>
    PROVE  /\ Rows'
           /\ \E v : Evolves(a, v) /\ v.active /\ account' = [account EXCEPT ![a] = v]
           /\ \E p : request' = [request EXCEPT ![r] = p] /\ p.op = op /\ p.target = a /\ p.pc = "audit"
  <1>1. a \in Accounts /\ a \notin Staff
    BY DEF Accounts, AccountAssumption
  <1>2. PICK v : v = NewAccount("owner", "active")
    OBVIOUS
  <1>3. /\ v \in Account /\ v.role = "owner" /\ v.version = 1 /\ v.active /\ v.status = "active"
        /\ v.invitation = None /\ v.reset = None
    BY <1>2, NewRow DEF Status
  <1>4. Evolves(a, v)
    BY <1>1, <1>3 DEF Evolves, AccountAssumption
  <1>5. account' = [account EXCEPT ![a] = v]
    BY <1>2 DEF NewOwner
  <1>6. PICK p : p = [op |-> op, target |-> a, arg |-> None, pc |-> "audit", copy |-> account'[a]]
    OBVIOUS
  <1>7. request' = [request EXCEPT ![r] = p] /\ p.target = a /\ p.op = op /\ p.pc = "audit"
    BY <1>6 DEF NewOwner
  <1>8. IsRequest(p)
    BY <1>1, <1>6 DEF IsRequest, Ops, Pcs
  <1>9. LinkRows' /\ links <= links'
    BY DEF Rows, LinkRows
  <1>10. Rows'
    BY <1>1, <1>4, <1>5, <1>7, <1>8, <1>9, RowAndRequest
  <1> QED
    BY <1>3, <1>4, <1>5, <1>7, <1>10

\* A link is stored in the row before it is mailed: the newest number.
LEMMA IssueLinkStep ==
    ASSUME AccountAssumption, Rows, NEW r \in Requests, IssueLink(r)
    PROVE  /\ Rows' /\ request[r].target \in Accounts /\ Exists(request[r].target)
           /\ request[r].op = "invite" => request[r].target \in Staff
           /\ \E v : /\ Evolves(request[r].target, v)
                     /\ account' = [account EXCEPT ![request[r].target] = v]
                     /\ \/ v.invitation = links + 1 /\ v.reset = account[request[r].target].reset
                        \/ /\ v.invitation = account[request[r].target].invitation
                           /\ v.reset = links + 1
                     /\ request[r].op # "invite" => (account[request[r].target].active => v.active)
  <1>1. IsRequest(request[r]) /\ Routed(r) /\ request[r].pc = "issue"
    BY BusyRequest DEF IssueLink
  <1>2. PICK q : q = request[r]
    OBVIOUS
  <1>3. PICK a \in Accounts : a = request[r].target
    BY <1>1 DEF IsRequest
  <1>4. Exists(a) /\ q.op \in {"invite", "reset"} /\ (q.op = "invite" => a \in Staff)
    BY <1>1, <1>2, <1>3 DEF Routed
  <1>5. PICK c \in Account : c = account[a]
    BY <1>3, <1>4, RowFacts DEF Rows
  <1>6. c.version \in 1 .. MaxVersion
        /\ (c.active <=> c.status = "active")
        /\ (a \in Owners => c.role = "owner" /\ c.status # "invited")
        /\ (a \in Staff => c.role \in StaffRoles)
    BY <1>3, <1>4, <1>5, RowFacts DEF Rows
  <1>7. links \in Nat /\ links' = links + 1 /\ mailed' = mailed /\ links < MaxLinks
    BY DEF IssueLink, Rows, LinkRows
  <1>8. PICK t \in Nat : t = links + 1
    BY <1>7
  <1>9. PICK v : v = IF q.op = "invite" THEN SetInvitation(c, t) ELSE SetResetToken(c, t)
    OBVIOUS
  <1>10. account' = [account EXCEPT ![a] = v]
    BY <1>2, <1>3, <1>5, <1>7, <1>8, <1>9 DEF IssueLink
  <1>11. /\ Evolves(a, v)
         /\ \/ v.invitation = t /\ v.reset = c.reset
            \/ v.invitation = c.invitation /\ v.reset = t
         /\ q.op # "invite" => (c.active => v.active)
    <2>1. CASE q.op = "invite"
      <3>1. v = SetInvitation(c, t)
        BY <1>9, <2>1
      <3>2. /\ v \in Account /\ v.version = c.version /\ v.role = c.role /\ v.pw = c.pw
            /\ ~ v.active /\ v.status = "invited" /\ v.invitation = t /\ v.reset = c.reset
        BY <3>1, SetInvitationRow
      <3>3. a \notin Owners
        BY <1>4, <2>1 DEF AccountAssumption
      <3>4. Evolves(a, v)
        BY <1>4, <1>5, <1>6, <3>2, <3>3 DEF Evolves
      <3> QED
        BY <2>1, <3>2, <3>4
    <2>2. CASE q.op # "invite"
      <3>1. v = SetResetToken(c, t)
        BY <1>9, <2>2
      <3>2. /\ v \in Account /\ v.version = c.version /\ v.role = c.role /\ v.pw = c.pw
            /\ (v.active <=> c.active) /\ v.status = c.status
            /\ v.invitation = c.invitation /\ v.reset = t
        BY <3>1, SetResetTokenRow
      <3>3. Evolves(a, v)
        BY <1>4, <1>5, <1>6, <3>2 DEF Evolves
      <3> QED
        BY <3>2, <3>3
    <2> QED
      BY <2>1, <2>2
  <1>12. PICK p : p = [q EXCEPT !.pc = "mail", !.arg = t]
    OBVIOUS
  <1>13. request' = [request EXCEPT ![r] = p]
    BY <1>2, <1>7, <1>8, <1>12 DEF IssueLink, Rows, RequestRows
  <1>14. p.op = q.op /\ p.target = a /\ p.arg = t /\ p.pc = "mail" /\ IsRequest(p)
    BY <1>1, <1>2, <1>3, <1>12 DEF IsRequest, Pcs
  <1>15. LinkRows' /\ links <= links' /\ t \in 1 .. links'
    BY <1>7, <1>8 DEF Rows, LinkRows, AccountAssumption
  <1>16. p.op \in {"role", "invite"} => a \in Staff
    BY <1>4, <1>14
  <1>17. Rows'
    BY <1>10, <1>11, <1>13, <1>14, <1>15, <1>16, RowAndRequest
  <1> QED
    BY <1>2, <1>3, <1>4, <1>5, <1>8, <1>10, <1>11, <1>17

\* A link that is consumed leaves its row, and the row's sessions end.
LEMMA ConsumeStep ==
    ASSUME AccountAssumption, Rows, NEW r \in Requests, NEW a \in Accounts, NEW t \in 1 .. links,
           Consume(r, a, t)
    PROVE  /\ Rows' /\ Exists(a)
           /\ \E v : /\ Evolves(a, v) /\ account' = [account EXCEPT ![a] = v]
                     /\ \/ /\ account[a].invitation = t /\ v.invitation = None
                           /\ v.reset = account[a].reset
                        \/ /\ account[a].reset = t /\ v.reset = None
                           /\ v.invitation = account[a].invitation
                     /\ account[a].active => v.active
           /\ \E p : /\ request' = [request EXCEPT ![r] = p]
                     /\ p.op = "consume" /\ p.target = a /\ p.pc = "audit"
  <1>1. Exists(a)
    BY DEF Consume
  <1>2. PICK c \in Account : c = account[a]
    BY <1>1, RowFacts DEF Rows
  <1>3. c.version \in 1 .. MaxVersion /\ c.version < MaxVersion
        /\ (c.active <=> c.status = "active")
        /\ (a \in Owners => c.role = "owner" /\ c.status # "invited")
        /\ (a \in Staff => c.role \in StaffRoles)
    BY <1>1, <1>2, RowFacts DEF Rows, Consume
  <1>4. PICK v : /\ account' = [account EXCEPT ![a] = v] /\ Evolves(a, v)
                 /\ \/ c.invitation = t /\ v.invitation = None /\ v.reset = c.reset
                    \/ c.reset = t /\ v.reset = None /\ v.invitation = c.invitation
                 /\ c.active => v.active
    <2>1. CASE c.invitation = t /\ account' = [account EXCEPT ![a] = ActivateInvitation(c)]
      <3>1. PICK d : d = ActivateInvitation(c)
        OBVIOUS
      <3>2. /\ d \in Account /\ d.version = c.version + 1 /\ d.role = c.role /\ d.active
            /\ d.status = "active" /\ d.invitation = None /\ d.reset = c.reset
        BY <3>1, ActivateInvitationRow
      <3>3. Evolves(a, d)
        BY <1>1, <1>2, <1>3, <3>2 DEF Evolves, AccountAssumption
      <3> QED
        BY <2>1, <3>1, <3>2, <3>3
    <2>2. CASE c.reset = t /\ account' = [account EXCEPT ![a] = ConsumeResetToken(c)]
      <3>1. PICK d : d = ConsumeResetToken(c)
        OBVIOUS
      <3>2. /\ d \in Account /\ d.version = c.version + 1 /\ d.role = c.role
            /\ (d.active <=> c.active) /\ d.status = c.status
            /\ d.invitation = c.invitation /\ d.reset = None
        BY <3>1, ConsumeResetTokenRow
      <3>3. Evolves(a, d)
        BY <1>1, <1>2, <1>3, <3>2 DEF Evolves, AccountAssumption
      <3> QED
        BY <2>2, <3>1, <3>2, <3>3
    <2> QED
      BY <1>2, <2>1, <2>2 DEF Consume
  <1>5. PICK p : p = [op |-> "consume", target |-> a, arg |-> t, pc |-> "audit", copy |-> account'[a]]
    OBVIOUS
  <1>6. request' = [request EXCEPT ![r] = p] /\ p.op = "consume" /\ p.target = a /\ p.pc = "audit"
    BY <1>5 DEF Consume
  <1>7. IsRequest(p)
    BY <1>5 DEF IsRequest, Ops, Pcs
  <1>8. LinkRows' /\ links <= links'
    BY DEF Rows, LinkRows, Consume
  <1>9. Rows'
    BY <1>4, <1>6, <1>7, <1>8, RowAndRequest
  <1> QED
    BY <1>1, <1>2, <1>4, <1>6, <1>9

\* A request goes on or ends, and rows and links are left alone.
LEMMA RequestOnly ==
    ASSUME Rows, NEW r \in Requests, NEW p, request' = [request EXCEPT ![r] = p],
           UNCHANGED <<account, links>>, LinkRows', p = Idle \/ (IsRequest(p) /\ Routed(r)')
    PROVE  Rows'
  <1>1. RequestRows /\ LinkRows /\ links' \in Nat /\ links <= links'
    BY DEF Rows, LinkRows
  <1>2. \A b \in Accounts : Exists(b) => Exists(b)'
    BY DEF Exists
  <1>3. RequestRows'
    BY <1>1, <1>2, RequestStep
  <1> QED
    BY <1>3 DEF Rows, AccountRows, Exists

\* The later steps of a route, mailing, auditing, reading again, answering, keep
\* the table and what the routes rely on.
LEMMA EndingStep ==
    ASSUME AccountAssumption, Rows, NEW r \in Requests,
           SendLink(r) \/ RecordAudit(r) \/ Reread(r) \/ IssueSession(r) \/ Abandon(r)
    PROVE  Rows' /\ account' = account /\ request' = [request EXCEPT ![r] = request'[r]]
           /\ (request'[r] = Idle \/ (request'[r].op = request[r].op
                                      /\ request'[r].target = request[r].target
                                      /\ request'[r].pc \in {"audit", "reread", "session"}))
  <1>1. IsRequest(request[r]) /\ Routed(r)
    BY BusyRequest DEF SendLink, RecordAudit, Reread, IssueSession, Abandon
  <1>2. PICK q : q = request[r]
    OBVIOUS
  <1>3. /\ q = [op |-> q.op, target |-> q.target, arg |-> q.arg, pc |-> q.pc, copy |-> q.copy]
        /\ q.op \in Ops /\ q.target \in Accounts /\ q.pc \in Pcs
    BY <1>1, <1>2 DEF IsRequest
  <1>4. account' = account /\ links' = links /\ LinkRows'
    BY <1>1 DEF SendLink, RecordAudit, Reread, IssueSession, Abandon, Rows, LinkRows, Routed
  <1>5. CASE SendLink(r)
    <2>1. PICK p : p = [q EXCEPT !.pc = "audit"]
      OBVIOUS
    <2>2. request' = [request EXCEPT ![r] = p] /\ request'[r] = p /\ request[r].pc = "mail"
      BY <1>2, <1>5, <2>1 DEF SendLink, Rows, RequestRows
    <2>3. p.op = q.op /\ p.target = q.target /\ p.arg = q.arg /\ p.pc = "audit" /\ p.copy = q.copy
          /\ IsRequest(p)
      BY <1>3, <2>1 DEF IsRequest, Pcs
    <2>4. Routed(r)'
      BY <1>1, <1>2, <1>4, <2>2, <2>3 DEF Routed, Exists
    <2> QED
      BY <1>2, <1>4, <2>2, <2>3, <2>4, RequestOnly
  <1>6. CASE RecordAudit(r)
    <2>1. CASE q.op \in WithSession
      <3>1. PICK p : p = [q EXCEPT !.pc = "reread"]
        OBVIOUS
      <3>2. request' = [request EXCEPT ![r] = p] /\ request'[r] = p /\ request[r].pc = "audit"
        BY <1>2, <1>6, <2>1, <3>1 DEF RecordAudit, Rows, RequestRows
      <3>3. p.op = q.op /\ p.target = q.target /\ p.arg = q.arg /\ p.pc = "reread" /\ p.copy = q.copy
            /\ IsRequest(p)
        BY <1>3, <3>1 DEF IsRequest, Pcs
      <3>4. Routed(r)'
        BY <1>1, <1>2, <1>4, <3>2, <3>3 DEF Routed, Exists
      <3> QED
        BY <1>2, <1>4, <3>2, <3>3, <3>4, RequestOnly
    <2>2. CASE q.op \notin WithSession
      <3>1. request' = [request EXCEPT ![r] = Idle] /\ request'[r] = Idle
        BY <1>2, <1>6, <2>2 DEF RecordAudit, Rows, RequestRows
      <3> QED
        BY <1>4, <3>1, RequestOnly
    <2> QED
      BY <2>1, <2>2
  <1>7. CASE Reread(r)
    <2>1. PICK p : p = [q EXCEPT !.pc = "session", !.copy = account[q.target]]
      OBVIOUS
    <2>2. request' = [request EXCEPT ![r] = p] /\ request'[r] = p /\ request[r].pc = "reread"
      BY <1>2, <1>7, <2>1 DEF Reread, Rows, RequestRows
    <2>3. p.op = q.op /\ p.target = q.target /\ p.arg = q.arg /\ p.pc = "session"
          /\ p.copy = account[q.target] /\ IsRequest(p)
      BY <1>3, <2>1 DEF IsRequest, Pcs
    <2>4. Exists(q.target) /\ account[q.target] \in Account
      BY <1>1, <1>2, <1>3, <2>2, RowFacts DEF Routed, Rows
    <2>5. Routed(r)'
      BY <1>1, <1>2, <1>4, <2>2, <2>3, <2>4 DEF Routed, Exists
    <2> QED
      BY <1>2, <1>4, <2>2, <2>3, <2>5, RequestOnly
  <1>8. CASE IssueSession(r) \/ Abandon(r)
    <2>1. request' = [request EXCEPT ![r] = Idle] /\ request'[r] = Idle
      BY <1>8 DEF IssueSession, Abandon, Rows, RequestRows
    <2> QED
      BY <1>4, <2>1, RequestOnly
  <1> QED
    BY <1>5, <1>6, <1>7, <1>8

-----------------------------------------------------------------------------
(* The steps, in seven kinds. *)

\* A route has passed its checks: it deactivates an owner only while another is active.
Entered(r) ==
    \E op \in Ops, a \in Accounts, pc \in Pcs : \E arg :
        /\ Enter(r, op, a, arg, pc)
        /\ UNCHANGED <<account, sessions, links, mailed, spent, audit>>
        /\ op # "bootstrap" /\ (pc = "session" => Exists(a))
        /\ op = "deactivate" =>
              /\ a \in Owners => Cardinality(ActiveOwners) > 1
              /\ crossing' = (crossing \/ (a \in Owners /\ Deactivating(a)))
        /\ op # "deactivate" => crossing' = crossing

\* The first steps of the routes are of that kind and keep the rows.
LEMMA EnteredStep ==
    ASSUME AccountAssumption, Rows, SessionsAge, NEW r \in Requests, NEW a \in Accounts, NEW w, NEW role,
           \/ Login(r, a) \/ RequestReset(r, a) \/ ChangePassword(r, a) \/ Deactivate(r, w, a)
           \/ Reactivate(r, w, a) \/ (role \in StaffRoles /\ ChangeRole(r, w, a, role))
           \/ ResendInvitation(r, w, a) \/ OwnerReset(r, w, a)
    PROVE  Rows' /\ Entered(r)
  <1> USE DEF Ops, Pcs
  <1>0. UNCHANGED <<account, sessions, links, mailed, spent, audit>>
    BY DEF Login, RequestReset, ChangePassword, Deactivate, Reactivate, ChangeRole,
           ResendInvitation, OwnerReset
  <1>1. CASE Login(r, a)
    BY <1>0, <1>1, EnterStep DEF Login, Entered
  <1>2. CASE RequestReset(r, a)
    BY <1>0, <1>2, EnterStep DEF RequestReset, Entered
  <1>3. CASE ChangePassword(r, a)
    <2>1. Exists(a)
      BY <1>3, SignedIn DEF ChangePassword
    <2> QED
      BY <1>0, <1>3, <2>1, EnterStep DEF ChangePassword, Entered
  <1>4. CASE Deactivate(r, w, a)
    <2>1. a \in Owners => account[a].role = "owner"
      BY <1>4, RowFacts DEF Rows, Deactivate
    <2> QED
      BY <1>0, <1>4, <2>1, EnterStep DEF Deactivate, MayDeactivate, Entered
  <1>5. CASE Reactivate(r, w, a)
    BY <1>0, <1>5, EnterStep DEF Reactivate, Entered
  <1>6. CASE role \in StaffRoles /\ ChangeRole(r, w, a, role)
    <2>1. a \in Staff
      BY <1>6, RowFacts DEF Rows, ChangeRole, Accounts
    <2> QED
      BY <1>0, <1>6, <2>1, EnterStep DEF ChangeRole, Entered
  <1>7. CASE ResendInvitation(r, w, a)
    <2>1. a \in Staff
      BY <1>7, RowFacts DEF Rows, ResendInvitation, Accounts
    <2> QED
      BY <1>0, <1>7, <2>1, EnterStep DEF ResendInvitation, Entered
  <1>8. CASE OwnerReset(r, w, a)
    BY <1>0, <1>8, EnterStep DEF OwnerReset, Entered
  <1> QED
    BY <1>1, <1>2, <1>3, <1>4, <1>5, <1>6, <1>7, <1>8

\* So is the legacy login.
LEMMA LegacyEntered ==
    ASSUME AccountAssumption, Rows, NEW r \in Requests, LegacyLogin(r)
    PROVE  Rows' /\ Entered(r)
  <1>1. Legacy \in Accounts /\ "legacy" \in Ops /\ "owner" \in Pcs
    BY DEF AccountAssumption, Accounts, Ops, Pcs
  <1>2. PICK first : first = NoAccountYet
    OBVIOUS
  <1>3. /\ Enter(r, "legacy", Legacy, first, "owner") /\ crossing' = crossing
        /\ UNCHANGED <<account, sessions, links, mailed, spent, audit>>
    BY <1>2 DEF LegacyLogin
  <1>4. Rows'
    BY <1>1, <1>3, EnterStep
  <1> QED
    BY <1>1, <1>3, <1>4 DEF Entered

\* The legacy owner was created by somebody else: the route goes on with that row,
\* or gives up.
Overtaken(r) ==
    /\ request[r].op = "legacy"
    /\ UNCHANGED <<account, sessions, links, mailed, spent, audit, crossing>>
    /\ \/ request' = [request EXCEPT ![r] = Idle]
       \/ request' = [request EXCEPT ![r].pc = "audit"]

\* ... with its row, or idle.
LEMMA OvertakenStep ==
    ASSUME AccountAssumption, Rows, NEW r \in Requests, Overtaken(r), Exists(Legacy)
             \/ request' = [request EXCEPT ![r] = Idle],
           request[r].pc = "owner"
    PROVE  Rows'
  <1>1. IsRequest(request[r]) /\ Routed(r)
    BY BusyRequest DEF Overtaken
  <1>2. account' = account /\ links' = links /\ LinkRows'
    BY DEF Overtaken, Rows, LinkRows
  <1>3. CASE request' = [request EXCEPT ![r] = Idle]
    BY <1>2, <1>3, RequestOnly
  <1>4. CASE request' = [request EXCEPT ![r].pc = "audit"] /\ Exists(Legacy)
    <2>1. PICK q : q = request[r]
      OBVIOUS
    <2>2. PICK p : p = [q EXCEPT !.pc = "audit"]
      OBVIOUS
    <2>3. request' = [request EXCEPT ![r] = p] /\ request'[r] = p
      BY <1>4, <2>1, <2>2 DEF Rows, RequestRows
    <2>4. p.op = q.op /\ p.target = q.target /\ p.arg = q.arg /\ p.pc = "audit" /\ p.copy = q.copy
          /\ IsRequest(p)
      BY <1>1, <2>1, <2>2 DEF IsRequest, Pcs
    <2>5. Routed(r)'
      BY <1>1, <1>2, <1>4, <2>1, <2>3, <2>4 DEF Routed, Exists
    <2> QED
      BY <1>2, <2>3, <2>4, <2>5, RequestOnly
  <1> QED
    BY <1>3, <1>4 DEF Overtaken

Ending(r) == SendLink(r) \/ RecordAudit(r) \/ Reread(r) \/ IssueSession(r) \/ Abandon(r)

\* An owner is created: by the bootstrap when there is no account at all.
OwnerCreated(r) ==
    /\ UNCHANGED <<sessions, links, mailed, spent, audit, crossing>>
    /\ \E op \in {"bootstrap", "legacy"}, a \in Owners :
          /\ ~Exists(a) /\ NewOwner(r, op, a)
          /\ op = "bootstrap" => NoAccountYet
          /\ op = "legacy" => request[r].op = "legacy"

\* A staff row is created, by a caller whose own account exists.
StaffCreated(r) ==
    \E a \in Staff, role \in StaffRoles, invited \in BOOLEAN, w \in Owners :
        Create(r, w, a, role, invited)

\* Every step is of one of these kinds, and keeps rows and requests.
LEMMA StepKinds ==
    ASSUME AccountAssumption, Rows, SessionsAge, Next
    PROVE  /\ Rows'
           /\ \E r \in Requests :
                 \/ Entered(r) \/ Write(r) \/ StaffCreated(r) \/ OwnerCreated(r) \/ IssueLink(r)
                 \/ \E a \in Accounts, t \in 1 .. links : Consume(r, a, t)
                 \/ Overtaken(r) \/ Ending(r)
  <1>1. PICK r \in Requests :
          \/ \E a \in Accounts : \/ Login(r, a) \/ RequestReset(r, a) \/ ChangePassword(r, a)
                                 \/ \E w \in Owners : OwnerRoute(r, w, a)
                                 \/ \E t \in 1 .. links : Consume(r, a, t)
          \/ \E a \in Owners : Bootstrap(r, a)
          \/ LegacyLogin(r) \/ CreateLegacy(r)
          \/ Write(r) \/ IssueLink(r) \/ Ending(r)
    BY DEF Next, Ending
  <1> DEFINE Goal == /\ Rows'
                     /\ \/ Entered(r) \/ Write(r) \/ StaffCreated(r) \/ OwnerCreated(r)
                        \/ IssueLink(r)
                        \/ \E a \in Accounts, t \in 1 .. links : Consume(r, a, t)
                        \/ Overtaken(r) \/ Ending(r)
  <1>2. ASSUME NEW a \in Accounts, NEW w, NEW role,
               \/ Login(r, a) \/ RequestReset(r, a) \/ ChangePassword(r, a) \/ Deactivate(r, w, a)
               \/ Reactivate(r, w, a) \/ (role \in StaffRoles /\ ChangeRole(r, w, a, role))
               \/ ResendInvitation(r, w, a) \/ OwnerReset(r, w, a)
        PROVE  Goal
    BY <1>2, EnteredStep
  <1>3. ASSUME NEW a \in Staff, NEW w \in Owners, NEW role \in StaffRoles, NEW invited \in BOOLEAN,
               Create(r, w, a, role, invited)
        PROVE  Goal
    BY <1>3, CreateStep DEF StaffCreated
  <1>4. ASSUME NEW a \in Accounts, NEW t \in 1 .. links, Consume(r, a, t) PROVE Goal
    BY <1>4, ConsumeStep
  <1>5. ASSUME NEW a \in Owners, Bootstrap(r, a) PROVE Goal
    <2>1. ~Exists(a) /\ NewOwner(r, "bootstrap", a) /\ NoAccountYet
          /\ UNCHANGED <<sessions, links, mailed, spent, audit, crossing>>
      BY <1>5 DEF Bootstrap
    <2>2. Rows'
      BY <2>1, NewOwnerStep
    <2> QED
      BY <2>1, <2>2 DEF OwnerCreated
  <1>6. ASSUME LegacyLogin(r) PROVE Goal
    BY <1>6, LegacyEntered
  <1>7. ASSUME CreateLegacy(r) PROVE Goal
    <2>1. /\ request[r].op = "legacy" /\ request[r].pc = "owner" /\ Legacy \in Owners
          /\ UNCHANGED <<sessions, links, mailed, spent, audit, crossing>>
      BY <1>7 DEF CreateLegacy, AccountAssumption
    <2>2. CASE NewOwner(r, "legacy", Legacy) /\ ~Exists(Legacy)
      <3>1. Rows'
        BY <2>1, <2>2, NewOwnerStep
      <3> QED
        BY <2>1, <2>2, <3>1 DEF OwnerCreated
    <2>3. CASE /\ request' = IF Exists(Legacy) THEN [request EXCEPT ![r].pc = "audit"]
                             ELSE [request EXCEPT ![r] = Idle]
               /\ UNCHANGED account
      <3>1. Overtaken(r) /\ (Exists(Legacy) \/ request' = [request EXCEPT ![r] = Idle])
        BY <2>1, <2>3 DEF Overtaken
      <3>2. Rows'
        BY <2>1, <3>1, OvertakenStep
      <3> QED
        BY <3>1, <3>2
    <2>4. NoAccountYet => ~Exists(Legacy)
      BY <2>1 DEF NoAccountYet, Accounts
    <2> QED
      BY <1>7, <2>2, <2>3, <2>4 DEF CreateLegacy
  <1>8. ASSUME Write(r) PROVE Goal
    BY <1>8, WriteStep
  <1>9. ASSUME IssueLink(r) PROVE Goal
    BY <1>9, IssueLinkStep
  <1>10. ASSUME Ending(r) PROVE Goal
    BY <1>10, EndingStep DEF Ending
  <1> HIDE DEF Goal
  <1>11. ASSUME NEW a \in Accounts, NEW w \in Owners, OwnerRoute(r, w, a) PROVE Goal
    BY <1>2, <1>3, <1>11 DEF OwnerRoute
  <1>12. ASSUME NEW a \in Accounts, Login(r, a) \/ RequestReset(r, a) \/ ChangePassword(r, a)
         PROVE  Goal
    <2>1. PICK w, role : w = a /\ role = a
      OBVIOUS
    <2> QED
      BY <1>2, <1>12, <2>1
  <1>13. Goal
    <2>1. ASSUME NEW a \in Accounts, \/ Login(r, a) \/ RequestReset(r, a) \/ ChangePassword(r, a)
                                     \/ \E w \in Owners : OwnerRoute(r, w, a)
                                     \/ \E t \in 1 .. links : Consume(r, a, t)
          PROVE  Goal
      BY <1>4, <1>11, <1>12, <2>1
    <2>2. ASSUME \E a \in Owners : Bootstrap(r, a) PROVE Goal
      BY <1>5, <2>2
    <2> QED
      BY <1>1, <1>6, <1>7, <1>8, <1>9, <1>10, <2>1, <2>2
  <1> QED
    BY <1>13 DEF Goal

-----------------------------------------------------------------------------
(* Sessions. *)

\* A step leaves the table alone or evolves one row.
RowStep ==
    \/ account' = account
    \/ \E a \in Accounts : \E v : Evolves(a, v) /\ account' = [account EXCEPT ![a] = v]

\* What is not newer than a row stays so when the row evolves.
LEMMA AgeStep ==
    ASSUME AccountAssumption, AccountRows, RowStep, NEW c, NEW b \in Accounts, Exists(b),
           NotNewer(c, account[b])
    PROVE  NotNewer(c, account'[b]) /\ Exists(b)'
  <1>1. CASE account' = account
    BY <1>1 DEF Exists
  <1>2. ASSUME NEW a \in Accounts, NEW v, Evolves(a, v), account' = [account EXCEPT ![a] = v]
        PROVE  NotNewer(c, account'[b]) /\ Exists(b)'
    <2>1. CASE b = a
      <3>1. account'[b] = v /\ v \in Account /\ v # None
        BY <1>2, <2>1 DEF AccountRows, Evolves, AccountAssumption
      <3>2. \/ v.version = account[b].version + 1
            \/ v.version = account[b].version /\ v.role = account[b].role /\ v.pw = account[b].pw
        BY <1>2, <2>1 DEF Evolves
      <3>3. account[b].version \in Nat
        BY RowFacts
      <3> QED
        BY <3>1, <3>2, <3>3 DEF NotNewer, Exists
    <2>2. CASE b # a
      BY <1>2, <2>2 DEF AccountRows, Exists
    <2> QED
      BY <2>1, <2>2
  <1> QED
    BY <1>1, <1>2 DEF RowStep

\* Sessions keep their age when a request goes on without reading a row for one, or
\* with the row as it is now.
LEMMA SessionsKept ==
    ASSUME AccountAssumption, Rows, SessionsAge, RowStep, NEW r \in Requests, NEW p,
           request' = [request EXCEPT ![r] = p], sessions' = sessions,
           (p.op # "none" /\ p.pc = "session") => NotNewer(p.copy, account'[p.target])
    PROVE  SessionsAge'
  <1>1. \A q \in Requests : request'[q] = IF q = r THEN p ELSE request[q]
    BY DEF Rows, RequestRows
  <1>2. ASSUME NEW s \in sessions
        PROVE  s.account \in Accounts /\ Exists(s.account)' /\ NotNewer(s, account'[s.account])
    <2>1. s.account \in Accounts /\ Exists(s.account) /\ NotNewer(s, account[s.account])
      BY DEF SessionsAge
    <2> QED
      BY <2>1, AgeStep DEF Rows
  <1>3. ASSUME NEW q \in Requests, request'[q].op # "none", request'[q].pc = "session"
        PROVE  NotNewer(request'[q].copy, account'[request'[q].target])
    <2>1. CASE q = r
      BY <1>1, <1>3, <2>1
    <2>2. CASE q # r
      <3>1. request'[q] = request[q]
        BY <1>1, <2>2
      <3>2. IsRequest(request[q]) /\ Routed(q)
        BY <1>3, <3>1, BusyRequest
      <3>3. request[q].target \in Accounts /\ Exists(request[q].target)
        BY <1>3, <3>1, <3>2 DEF IsRequest, Routed
      <3>4. NotNewer(request[q].copy, account[request[q].target])
        BY <1>3, <3>1 DEF SessionsAge
      <3> QED
        BY <3>1, <3>3, <3>4, AgeStep DEF Rows
    <2> QED
      BY <2>1, <2>2
  <1> QED
    BY <1>1, <1>2, <1>3 DEF SessionsAge, Exists

\* A row is not newer than itself.
LEMMA SameAge ==
    ASSUME AccountRows, NEW a \in Accounts, Exists(a) PROVE NotNewer(account[a], account[a])
  BY RowFacts DEF NotNewer

\* Every step keeps sessions and the rows read for one as old as they are.
LEMMA SessionsStep ==
    ASSUME AccountAssumption, Rows, SessionsAge, Next PROVE SessionsAge'
  <1>1. PICK r \in Requests :
          \/ Entered(r) \/ Write(r) \/ StaffCreated(r) \/ OwnerCreated(r) \/ IssueLink(r)
          \/ \E a \in Accounts, t \in 1 .. links : Consume(r, a, t)
          \/ Overtaken(r) \/ Ending(r)
    BY StepKinds
  <1>2. CASE Entered(r)
    <2>1. PICK op, a, pc, arg :
             /\ op \in Ops /\ a \in Accounts /\ pc \in Pcs
             /\ Enter(r, op, a, arg, pc) /\ UNCHANGED <<account, sessions>>
             /\ (pc = "session" => Exists(a))
      BY <1>2 DEF Entered
    <2>2. PICK p : p = [op |-> op, target |-> a, arg |-> arg, pc |-> pc, copy |-> account[a]]
      OBVIOUS
    <2>3. request' = [request EXCEPT ![r] = p] /\ p.pc = pc /\ p.copy = account[a] /\ p.target = a
      BY <2>1, <2>2 DEF Enter
    <2>4. p.pc = "session" => NotNewer(p.copy, account'[p.target])
      BY <2>1, <2>3, SameAge DEF Rows
    <2> QED
      BY <2>1, <2>3, <2>4, SessionsKept DEF RowStep
  <1>3. CASE Write(r)
    <2>1. PICK p : p = [request[r] EXCEPT !.pc = "audit"]
      OBVIOUS
    <2>2. request' = [request EXCEPT ![r] = p] /\ sessions' = sessions
      BY <1>3, <2>1 DEF Write, Update, Rows, RequestRows
    <2>3. IsRequest(request[r]) /\ request[r].target \in Accounts
      BY <1>3, BusyRequest DEF Write, IsRequest
    <2>4. p.pc = "audit"
      BY <2>1, <2>3 DEF IsRequest
    <2>5. RowStep
      BY <1>3, <2>3, WriteStep DEF RowStep
    <2> QED
      BY <2>2, <2>4, <2>5, SessionsKept
  <1>4. CASE StaffCreated(r)
    <2>1. PICK a \in Staff, role \in StaffRoles, invited \in BOOLEAN, w \in Owners :
             Create(r, w, a, role, invited)
      BY <1>4 DEF StaffCreated
    <2>2. RowStep
      BY <2>1, CreateStep DEF RowStep, Accounts
    <2>3. PICK p : p = [op |-> IF invited THEN "invite" ELSE "create", target |-> a, arg |-> None,
                        pc |-> IF invited THEN "issue" ELSE "audit", copy |-> account'[a]]
      OBVIOUS
    <2>4. request' = [request EXCEPT ![r] = p] /\ p.pc # "session" /\ sessions' = sessions
      BY <2>1, <2>3 DEF Create
    <2> QED
      BY <2>2, <2>4, SessionsKept
  <1>5. CASE OwnerCreated(r)
    <2>1. PICK op \in {"bootstrap", "legacy"}, a \in Owners :
             ~Exists(a) /\ NewOwner(r, op, a) /\ UNCHANGED <<links, mailed, sessions>>
      BY <1>5 DEF OwnerCreated
    <2>2. RowStep
      BY <2>1, NewOwnerStep DEF RowStep, Accounts
    <2>3. PICK p : request' = [request EXCEPT ![r] = p] /\ p.pc = "audit"
      BY <2>1, NewOwnerStep
    <2> QED
      BY <2>1, <2>2, <2>3, SessionsKept
  <1>6. CASE IssueLink(r)
    <2>1. PICK p : p = [request[r] EXCEPT !.pc = "mail", !.arg = links']
      OBVIOUS
    <2>2. request' = [request EXCEPT ![r] = p] /\ sessions' = sessions
      BY <1>6, <2>1 DEF IssueLink, Rows, RequestRows
    <2>3. IsRequest(request[r])
      BY <1>6, BusyRequest DEF IssueLink
    <2>4. p.pc = "mail"
      BY <2>1, <2>3 DEF IsRequest
    <2>5. RowStep
      BY <1>6, IssueLinkStep DEF RowStep
    <2> QED
      BY <2>2, <2>4, <2>5, SessionsKept
  <1>7. ASSUME NEW a \in Accounts, NEW t \in 1 .. links, Consume(r, a, t) PROVE SessionsAge'
    <2>1. RowStep
      BY <1>7, ConsumeStep DEF RowStep
    <2>3. sessions' = sessions
      BY <1>7 DEF Consume
    <2>2. PICK p : request' = [request EXCEPT ![r] = p] /\ p.pc = "audit"
      BY <1>7, ConsumeStep
    <2> QED
      BY <2>1, <2>2, <2>3, SessionsKept
  <1>8. CASE Overtaken(r)
    <2>1. CASE request' = [request EXCEPT ![r] = Idle]
      BY <1>8, <2>1, SessionsKept DEF Overtaken, RowStep, Idle
    <2>2. CASE request' = [request EXCEPT ![r].pc = "audit"]
      <3>1. PICK p : p = [request[r] EXCEPT !.pc = "audit"]
        OBVIOUS
      <3>2. request' = [request EXCEPT ![r] = p]
        BY <2>2, <3>1 DEF Rows, RequestRows
      <3>3. IsRequest(request[r])
        BY <1>8, BusyRequest DEF Overtaken
      <3>4. p.pc = "audit"
        BY <3>1, <3>3 DEF IsRequest
      <3> QED
        BY <1>8, <3>2, <3>4, SessionsKept DEF Overtaken, RowStep
    <2> QED
      BY <1>8, <2>1, <2>2 DEF Overtaken
  <1>9. CASE Ending(r)
    <2>1. account' = account /\ RowStep
      BY <1>9, EndingStep DEF Ending, RowStep
    <2>2. IsRequest(request[r]) /\ Routed(r)
      BY <1>9, BusyRequest DEF Ending, SendLink, RecordAudit, Reread, IssueSession, Abandon
    <2>3. PICK p : p = request'[r]
      OBVIOUS
    <2>4. request' = [request EXCEPT ![r] = p]
      BY <1>9, <2>3, EndingStep DEF Ending
    <2>5. CASE SendLink(r) \/ RecordAudit(r) \/ Abandon(r)
      <3>1. sessions' = sessions /\ (p.op = "none" \/ p.pc # "session")
        BY <2>2, <2>3, <2>5 DEF SendLink, RecordAudit, Abandon, Idle, IsRequest, Rows, RequestRows
      <3> QED
        BY <2>1, <2>4, <3>1, SessionsKept
    <2>6. CASE Reread(r)
      <3>1. sessions' = sessions /\ p.copy = account[p.target] /\ p.target = request[r].target
            /\ request[r].pc = "reread"
        BY <2>2, <2>3, <2>6 DEF Reread, IsRequest, Rows, RequestRows
      <3>2. request[r].target \in Accounts /\ Exists(request[r].target)
        BY <2>2, <3>1 DEF IsRequest, Routed
      <3>3. NotNewer(p.copy, account'[p.target])
        BY <2>1, <3>1, <3>2, SameAge DEF Rows
      <3> QED
        BY <2>1, <2>4, <3>1, <3>3, SessionsKept
    <2>7. CASE IssueSession(r)
      <3>1. PICK s : s = [account |-> request[r].target, version |-> request[r].copy.version,
                          role |-> request[r].copy.role, pw |-> request[r].copy.pw]
        OBVIOUS
      <3>2. sessions' = sessions \cup {s} /\ request' = [request EXCEPT ![r] = Idle]
            /\ request[r].op # "none" /\ request[r].pc = "session"
        BY <2>7, <3>1 DEF IssueSession
      <3>3. NotNewer(request[r].copy, account[request[r].target])
        BY <3>2 DEF SessionsAge
      <3>4. s.account \in Accounts /\ Exists(s.account) /\ NotNewer(s, account[s.account])
        BY <2>2, <3>1, <3>2, <3>3 DEF NotNewer, IsRequest, Routed
      <3>5. \A q \in Requests : request'[q] = IF q = r THEN Idle ELSE request[q]
        BY <3>2 DEF Rows, RequestRows
      <3> QED
        BY <2>1, <3>2, <3>4, <3>5 DEF SessionsAge, Exists, Idle
    <2> QED
      BY <1>9, <2>5, <2>6, <2>7 DEF Ending
  <1> QED
    BY <1>1, <1>2, <1>3, <1>4, <1>5, <1>6, <1>7, <1>8, <1>9

-----------------------------------------------------------------------------
(* Links. *)

\* Links stay fresh when no row gets one it did not have.
LEMMA LinksShrink ==
    ASSUME LinksFresh, links' = links, spent' = spent,
           \A b \in Accounts, k \in LinkKinds : (Exists(b)' /\ LinkAt(b, k)' # None) =>
               Exists(b) /\ LinkAt(b, k)' = LinkAt(b, k)
    PROVE  LinksFresh'
  BY DEF LinksFresh

\* What the links of the rows are when one row has changed.
LEMMA LinkOfRow ==
    ASSUME AccountRows, NEW a \in Accounts, NEW v, account' = [account EXCEPT ![a] = v]
    PROVE  /\ LinkAt(a, "invitation")' = v.invitation /\ LinkAt(a, "reset")' = v.reset
           /\ \A b \in Accounts \ {a} : \A k \in LinkKinds :
                 LinkAt(b, k)' = LinkAt(b, k) /\ (Exists(b)' <=> Exists(b))
  BY DEF AccountRows, LinkAt, Exists

\* A row that keeps its links, or is new and has none.
LEMMA RowKeepsLinks ==
    ASSUME AccountRows, LinksFresh, links' = links, spent' = spent, NEW a \in Accounts, NEW v,
           Evolves(a, v), account' = [account EXCEPT ![a] = v],
           Exists(a) => v.invitation = account[a].invitation /\ v.reset = account[a].reset
    PROVE  LinksFresh'
  <1>1. \A k \in LinkKinds : LinkAt(a, k)' # None => Exists(a) /\ LinkAt(a, k)' = LinkAt(a, k)
    BY LinkOfRow DEF Evolves, LinkAt, LinkKinds
  <1>2. \A b \in Accounts \ {a} : \A k \in LinkKinds :
           LinkAt(b, k)' = LinkAt(b, k) /\ (Exists(b)' <=> Exists(b))
    BY LinkOfRow
  <1>3. \A b \in Accounts, k \in LinkKinds : (Exists(b)' /\ LinkAt(b, k)' # None) =>
            Exists(b) /\ LinkAt(b, k)' = LinkAt(b, k)
    BY <1>1, <1>2
  <1> QED
    BY <1>3, LinksShrink

\* The new link is in one place: no row has a number that was not issued yet.
LEMMA LinkIssued ==
    ASSUME AccountAssumption, Rows, LinksFresh, NEW r \in Requests, IssueLink(r)
    PROVE  LinksFresh'
  <1>1. PICK a \in Accounts : a = request[r].target
    BY IssueLinkStep
  <1>2. PICK v : /\ Evolves(a, v) /\ account' = [account EXCEPT ![a] = v]
                 /\ \/ v.invitation = links + 1 /\ v.reset = account[a].reset
                    \/ v.invitation = account[a].invitation /\ v.reset = links + 1
    BY <1>1, IssueLinkStep
  <1>3. Exists(a) /\ Exists(a)'
    BY <1>1, <1>2, IssueLinkStep, EvolvedRows DEF Rows
  <1>4. links' = links + 1 /\ spent' = spent /\ links \in Nat /\ links < MaxLinks /\ links + 1 # None
    BY DEF IssueLink, Rows, LinkRows, AccountAssumption
  <1>5. PICK m \in LinkKinds :
           /\ LinkAt(a, m)' = links + 1
           /\ \A k \in LinkKinds \ {m} : LinkAt(a, k)' = LinkAt(a, k)
    <2>1. LinkAt(a, "invitation")' = v.invitation /\ LinkAt(a, "reset")' = v.reset
      BY <1>2, LinkOfRow DEF Rows
    <2>2. LinkAt(a, "invitation") = account[a].invitation /\ LinkAt(a, "reset") = account[a].reset
      BY DEF LinkAt
    <2>3. LinkKinds \ {"invitation"} = {"reset"} /\ LinkKinds \ {"reset"} = {"invitation"}
          /\ "invitation" \in LinkKinds /\ "reset" \in LinkKinds
      BY DEF LinkKinds
    <2>4. CASE v.invitation = links + 1 /\ v.reset = account[a].reset
      BY <2>1, <2>2, <2>3, <2>4
    <2>5. CASE v.invitation = account[a].invitation /\ v.reset = links + 1
      BY <2>1, <2>2, <2>3, <2>5
    <2> QED
      BY <1>2, <2>4, <2>5
  <1>6. \A b \in Accounts \ {a} : \A k \in LinkKinds :
           LinkAt(b, k)' = LinkAt(b, k) /\ (Exists(b)' <=> Exists(b))
    BY <1>2, LinkOfRow DEF Rows
  <1>7. ASSUME NEW b \in Accounts, NEW k \in LinkKinds, Exists(b)', LinkAt(b, k)' # None,
               ~(b = a /\ k = m)
        PROVE  /\ Exists(b) /\ LinkAt(b, k)' = LinkAt(b, k) /\ LinkAt(b, k) \in 1 .. links
               /\ spent[LinkAt(b, k)] = 0 /\ LinkAt(b, k)' # links + 1
    <2>1. Exists(b) /\ LinkAt(b, k)' = LinkAt(b, k)
      BY <1>3, <1>5, <1>6, <1>7
    <2>2. LinkAt(b, k) \in 1 .. links /\ spent[LinkAt(b, k)] = 0
      BY <1>7, <2>1 DEF LinksFresh
    <2> QED
      BY <1>4, <2>1, <2>2
  <1>8. spent[links + 1] = 0 /\ \A t \in 1 .. MaxLinks : t > links' => spent[t] = 0
    BY <1>4 DEF LinksFresh, AccountAssumption
  <1>9. ASSUME NEW b \in Accounts, NEW k \in LinkKinds, Exists(b)', LinkAt(b, k)' # None
        PROVE  /\ LinkAt(b, k)' \in 1 .. links' /\ spent[LinkAt(b, k)'] = 0
               /\ \A d \in Accounts, n \in LinkKinds :
                     (Exists(d)' /\ LinkAt(d, n)' = LinkAt(b, k)') => b = d /\ k = n
    <2>1. CASE b = a /\ k = m
      BY <1>4, <1>5, <1>7, <1>8, <2>1
    <2>2. CASE ~(b = a /\ k = m)
      <3>1. /\ Exists(b) /\ LinkAt(b, k)' = LinkAt(b, k) /\ LinkAt(b, k) \in 1 .. links
            /\ spent[LinkAt(b, k)] = 0 /\ LinkAt(b, k)' # links + 1
        BY <1>7, <1>9, <2>2
      <3>2. ASSUME NEW d \in Accounts, NEW n \in LinkKinds, Exists(d)', LinkAt(d, n)' = LinkAt(b, k)'
            PROVE  b = d /\ k = n
        <4>1. ~(d = a /\ n = m)
          BY <1>5, <3>1, <3>2
        <4>2. Exists(d) /\ LinkAt(d, n)' = LinkAt(d, n)
          BY <1>7, <1>9, <3>2, <4>1
        <4> QED
          BY <1>9, <3>1, <3>2, <4>2 DEF LinksFresh
      <3> QED
        BY <1>4, <3>1, <3>2
    <2> QED
      BY <2>1, <2>2
  <1> QED
    BY <1>4, <1>8, <1>9 DEF LinksFresh

\* The link that is consumed was fresh, and nobody else holds it.
LEMMA LinkConsumed ==
    ASSUME AccountAssumption, Rows, LinksFresh, NEW r \in Requests, NEW a \in Accounts,
           NEW t \in 1 .. links, Consume(r, a, t)
    PROVE  LinksFresh'
  <1>1. PICK v : /\ Evolves(a, v) /\ account' = [account EXCEPT ![a] = v]
                 /\ \/ account[a].invitation = t /\ v.invitation = None /\ v.reset = account[a].reset
                    \/ account[a].reset = t /\ v.reset = None /\ v.invitation = account[a].invitation
    BY ConsumeStep
  <1>2. Exists(a) /\ links' = links /\ spent' = [spent EXCEPT ![t] = @ + 1]
    BY DEF Consume
  <1>3. t \in Nat /\ t # None /\ t \in 1 .. MaxLinks
    BY DEF AccountAssumption, Rows, LinkRows
  <1>4. PICK m \in LinkKinds :
           /\ LinkAt(a, m) = t /\ LinkAt(a, m)' = None
           /\ \A k \in LinkKinds \ {m} : LinkAt(a, k)' = LinkAt(a, k)
    <2>1. LinkAt(a, "invitation")' = v.invitation /\ LinkAt(a, "reset")' = v.reset
      BY <1>1, LinkOfRow DEF Rows
    <2>2. LinkAt(a, "invitation") = account[a].invitation /\ LinkAt(a, "reset") = account[a].reset
      BY DEF LinkAt
    <2>3. LinkKinds \ {"invitation"} = {"reset"} /\ LinkKinds \ {"reset"} = {"invitation"}
          /\ "invitation" \in LinkKinds /\ "reset" \in LinkKinds
      BY DEF LinkKinds
    <2>4. CASE account[a].invitation = t /\ v.invitation = None /\ v.reset = account[a].reset
      BY <2>1, <2>2, <2>3, <2>4
    <2>5. CASE account[a].reset = t /\ v.reset = None /\ v.invitation = account[a].invitation
      BY <2>1, <2>2, <2>3, <2>5
    <2> QED
      BY <1>1, <2>4, <2>5
  <1>5. \A b \in Accounts \ {a} : \A k \in LinkKinds :
           LinkAt(b, k)' = LinkAt(b, k) /\ (Exists(b)' <=> Exists(b))
    BY <1>1, LinkOfRow DEF Rows
  <1>6. spent[t] = 0 /\ spent \in [1 .. MaxLinks -> Nat]
    BY <1>2, <1>3, <1>4 DEF LinksFresh
  <1>7. /\ spent' \in [1 .. MaxLinks -> Nat] /\ spent'[t] = 1
        /\ \A n \in 1 .. MaxLinks : n # t => spent'[n] = spent[n]
    BY <1>2, <1>3, <1>6
  <1>8. ASSUME NEW b \in Accounts, NEW k \in LinkKinds, Exists(b)', LinkAt(b, k)' # None
        PROVE  /\ Exists(b) /\ LinkAt(b, k)' = LinkAt(b, k)
               /\ LinkAt(b, k) \in 1 .. links /\ LinkAt(b, k) # t
    <2>1. Exists(b) /\ LinkAt(b, k)' = LinkAt(b, k) /\ ~(b = a /\ k = m)
      BY <1>2, <1>4, <1>5, <1>8
    <2>2. LinkAt(b, k) \in 1 .. links
      BY <1>8, <2>1 DEF LinksFresh
    <2>3. LinkAt(b, k) # t
      BY <1>2, <1>3, <1>4, <2>1 DEF LinksFresh
    <2> QED
      BY <2>1, <2>2, <2>3
  <1>9. \A n \in 1 .. MaxLinks : spent'[n] <= 1 /\ (n > links' => spent'[n] = 0)
    BY <1>2, <1>3, <1>7 DEF LinksFresh, Rows, LinkRows, AccountAssumption
  <1>10. ASSUME NEW b \in Accounts, NEW k \in LinkKinds, Exists(b)', LinkAt(b, k)' # None
         PROVE  /\ LinkAt(b, k)' \in 1 .. links' /\ spent'[LinkAt(b, k)'] = 0
                /\ \A d \in Accounts, n \in LinkKinds :
                      (Exists(d)' /\ LinkAt(d, n)' = LinkAt(b, k)') => b = d /\ k = n
    <2>1. /\ Exists(b) /\ LinkAt(b, k)' = LinkAt(b, k)
          /\ LinkAt(b, k) \in 1 .. links /\ LinkAt(b, k) # t
      BY <1>8, <1>10
    <2>2. spent[LinkAt(b, k)] = 0 /\ LinkAt(b, k) \in 1 .. MaxLinks
      BY <1>10, <2>1 DEF LinksFresh, Rows, LinkRows, AccountAssumption
    <2>3. \A d \in Accounts, n \in LinkKinds :
             (Exists(d)' /\ LinkAt(d, n)' = LinkAt(b, k)') => b = d /\ k = n
      BY <1>8, <1>10, <2>1 DEF LinksFresh
    <2> QED
      BY <1>2, <1>7, <2>1, <2>2, <2>3
  <1> QED
    BY <1>7, <1>9, <1>10 DEF LinksFresh

\* Every step keeps the links fresh.
LEMMA LinksStep ==
    ASSUME AccountAssumption, Rows, SessionsAge, LinksFresh, Next PROVE LinksFresh'
  <1>1. PICK r \in Requests :
          \/ Entered(r) \/ Write(r) \/ StaffCreated(r) \/ OwnerCreated(r) \/ IssueLink(r)
          \/ \E a \in Accounts, t \in 1 .. links : Consume(r, a, t)
          \/ Overtaken(r) \/ Ending(r)
    BY StepKinds
  <1>2. CASE Entered(r) \/ Overtaken(r) \/ Ending(r)
    <2>1. account' = account /\ links' = links /\ spent' = spent
      BY <1>2 DEF Entered, Overtaken, Ending, SendLink, RecordAudit, Reread, IssueSession, Abandon
    <2> QED
      BY <2>1, LinksShrink DEF LinkAt, Exists
  <1>3. CASE Write(r)
    <2>1. links' = links /\ spent' = spent
      BY <1>3 DEF Write
    <2>2. PICK a \in Accounts : a = request[r].target
      BY <1>3, BusyRequest DEF Write, IsRequest
    <2>3. PICK v : /\ Evolves(a, v) /\ account' = [account EXCEPT ![a] = v]
                   /\ v.invitation = account[a].invitation /\ v.reset = account[a].reset
      BY <1>3, <2>2, WriteStep
    <2> QED
      BY <2>1, <2>3, RowKeepsLinks DEF Rows
  <1>4. CASE StaffCreated(r)
    <2>1. PICK a \in Staff, role \in StaffRoles, invited \in BOOLEAN, w \in Owners :
             Create(r, w, a, role, invited)
      BY <1>4 DEF StaffCreated
    <2>2. links' = links /\ spent' = spent /\ a \in Accounts
      BY <2>1 DEF Create, Accounts
    <2>3. ~Exists(a) /\ \E v : Evolves(a, v) /\ account' = [account EXCEPT ![a] = v]
      BY <2>1, CreateStep
    <2> QED
      BY <2>2, <2>3, RowKeepsLinks DEF Rows
  <1>5. CASE OwnerCreated(r)
    <2>1. PICK op \in {"bootstrap", "legacy"}, a \in Owners :
             ~Exists(a) /\ NewOwner(r, op, a) /\ UNCHANGED <<links, mailed, spent>>
      BY <1>5 DEF OwnerCreated
    <2>2. a \in Accounts /\ \E v : Evolves(a, v) /\ account' = [account EXCEPT ![a] = v]
      BY <2>1, NewOwnerStep DEF Accounts
    <2> QED
      BY <2>1, <2>2, RowKeepsLinks DEF Rows
  <1> QED
    BY <1>1, <1>2, <1>3, <1>4, <1>5, LinkIssued, LinkConsumed

-----------------------------------------------------------------------------
(* The first owner. *)

\* A step that bootstraps nobody and forgets nothing keeps the first owner.
LEMMA FirstOwnerKept ==
    ASSUME FirstOwner, Bootstrapped' \subseteq Bootstrapped,
           audit' \subseteq [action : Ops, account : Accounts],
           \A b \in Accounts : Exists(b) => Exists(b)'
    PROVE  FirstOwner'
  <1>1. \A a, b \in Bootstrapped' : a = b
    BY DEF FirstOwner
  <1>2. Bootstrapped' # {} => ~NoAccountYet'
    BY DEF FirstOwner, NoAccountYet
  <1> QED
    BY <1>1, <1>2 DEF FirstOwner

\* Who is bootstrapped after a step of one request.
LEMMA BootstrappedAfter ==
    ASSUME RequestRows, NEW r \in Requests, NEW p, request' = [request EXCEPT ![r] = p],
           audit' = audit \/ (request[r].op # "none" /\
                              audit' = audit \cup {[action |-> request[r].op,
                                                    account |-> request[r].target]})
    PROVE  Bootstrapped' \subseteq Bootstrapped \cup (IF p.op = "bootstrap" THEN {p.target} ELSE {})
  <1>1. \A q \in Requests : request'[q] = IF q = r THEN p ELSE request[q]
    BY DEF RequestRows
  <1>2. \A e \in audit' : e.action = "bootstrap" => e.account \in Bootstrapped
    <2>1. \A e \in audit : e.action = "bootstrap" => e.account \in Bootstrapped
      BY DEF Bootstrapped
    <2>2. PICK e : e = [action |-> request[r].op, account |-> request[r].target]
      OBVIOUS
    <2>3. e.action = "bootstrap" => e.account \in Bootstrapped
      BY <2>2 DEF Bootstrapped
    <2> QED
      BY <2>1, <2>2, <2>3
  <1>3. \A q \in Requests : request'[q].op = "bootstrap" =>
           \/ request'[q].target \in Bootstrapped
           \/ p.op = "bootstrap" /\ request'[q].target = p.target
    BY <1>1 DEF Bootstrapped
  <1> QED
    BY <1>2, <1>3 DEF Bootstrapped

\* Every step keeps the bootstrap to one account: it needs an empty table, and no
\* account is ever deleted.
LEMMA FirstOwnerStep ==
    ASSUME AccountAssumption, Rows, SessionsAge, FirstOwner, Next PROVE FirstOwner'
  <1>1. PICK r \in Requests :
          \/ Entered(r) \/ Write(r) \/ StaffCreated(r) \/ OwnerCreated(r) \/ IssueLink(r)
          \/ \E a \in Accounts, t \in 1 .. links : Consume(r, a, t)
          \/ Overtaken(r) \/ Ending(r)
    BY StepKinds
  <1>2. ASSUME NEW p, request' = [request EXCEPT ![r] = p], audit' = audit,
               p.op = "bootstrap" => request[r].op = "bootstrap" /\ p.target = request[r].target,
               RowStep
        PROVE  FirstOwner'
    <2>1. Bootstrapped' \subseteq Bootstrapped
      BY <1>2, BootstrappedAfter DEF Rows, Bootstrapped
    <2>2. \A b \in Accounts : Exists(b) => Exists(b)'
      <3>1. CASE account' = account
        BY <3>1 DEF Exists
      <3>2. ASSUME NEW a \in Accounts, NEW v, Evolves(a, v), account' = [account EXCEPT ![a] = v]
            PROVE  \A b \in Accounts : Exists(b) => Exists(b)'
        BY <3>2, EvolvedRows DEF Rows
      <3> QED
        BY <1>2, <3>1, <3>2 DEF RowStep
    <2> QED
      BY <1>2, <2>1, <2>2, FirstOwnerKept DEF FirstOwner
  <1>3. CASE Entered(r)
    <2>1. PICK op, a, pc, arg :
             /\ op \in Ops /\ a \in Accounts /\ pc \in Pcs
             /\ Enter(r, op, a, arg, pc) /\ UNCHANGED <<account, audit>> /\ op # "bootstrap"
      BY <1>3 DEF Entered
    <2>2. PICK p : p = [op |-> op, target |-> a, arg |-> arg, pc |-> pc, copy |-> account[a]]
      OBVIOUS
    <2>3. request' = [request EXCEPT ![r] = p] /\ p.op # "bootstrap"
      BY <2>1, <2>2 DEF Enter
    <2> QED
      BY <1>2, <2>1, <2>3 DEF RowStep
  <1>4. CASE Write(r)
    <2>1. PICK p : p = [request[r] EXCEPT !.pc = "audit"]
      OBVIOUS
    <2>2. request' = [request EXCEPT ![r] = p] /\ audit' = audit
      BY <1>4, <2>1 DEF Write, Update, Rows, RequestRows
    <2>3. IsRequest(request[r]) /\ request[r].target \in Accounts
      BY <1>4, BusyRequest DEF Write, IsRequest
    <2>4. p.op = request[r].op /\ p.target = request[r].target
      BY <2>1, <2>3 DEF IsRequest
    <2>5. RowStep
      BY <1>4, <2>3, WriteStep DEF RowStep
    <2> QED
      BY <1>2, <2>2, <2>4, <2>5
  <1>5. CASE StaffCreated(r)
    <2>1. PICK a \in Staff, role \in StaffRoles, invited \in BOOLEAN, w \in Owners :
             Create(r, w, a, role, invited)
      BY <1>5 DEF StaffCreated
    <2>2. RowStep
      BY <2>1, CreateStep DEF RowStep, Accounts
    <2>3. PICK p : p = [op |-> IF invited THEN "invite" ELSE "create", target |-> a, arg |-> None,
                        pc |-> IF invited THEN "issue" ELSE "audit", copy |-> account'[a]]
      OBVIOUS
    <2>4. request' = [request EXCEPT ![r] = p] /\ p.op # "bootstrap" /\ audit' = audit
      BY <2>1, <2>3 DEF Create
    <2> QED
      BY <1>2, <2>2, <2>4
  <1>6. CASE OwnerCreated(r)
    <2>1. PICK op \in {"bootstrap", "legacy"}, a \in Owners :
             /\ ~Exists(a) /\ NewOwner(r, op, a) /\ UNCHANGED <<links, mailed, audit>>
             /\ op = "bootstrap" => NoAccountYet
      BY <1>6 DEF OwnerCreated
    <2>2. PICK v : Evolves(a, v) /\ account' = [account EXCEPT ![a] = v]
      BY <2>1, NewOwnerStep
    <2>3. PICK p : request' = [request EXCEPT ![r] = p] /\ p.op = op /\ p.target = a
      BY <2>1, NewOwnerStep
    <2>4. a \in Accounts
      BY DEF Accounts
    <2>5. CASE op = "legacy"
      BY <1>2, <2>1, <2>2, <2>3, <2>4, <2>5 DEF RowStep
    <2>6. CASE op = "bootstrap"
      <3>1. Bootstrapped = {}
        BY <2>1, <2>6 DEF FirstOwner
      <3>2. Bootstrapped' \subseteq {a}
        BY <2>1, <2>3, <2>6, <3>1, BootstrappedAfter DEF Rows
      <3>3. Exists(a)'
        BY <2>2, <2>4, EvolvedRows DEF Rows
      <3>4. ~NoAccountYet'
        BY <2>4, <3>3 DEF NoAccountYet
      <3> QED
        BY <2>1, <3>2, <3>4 DEF FirstOwner
    <2> QED
      BY <2>5, <2>6
  <1>7. CASE IssueLink(r)
    <2>1. PICK p : p = [request[r] EXCEPT !.pc = "mail", !.arg = links']
      OBVIOUS
    <2>2. request' = [request EXCEPT ![r] = p] /\ audit' = audit
      BY <1>7, <2>1 DEF IssueLink, Rows, RequestRows
    <2>3. IsRequest(request[r])
      BY <1>7, BusyRequest DEF IssueLink
    <2>4. p.op = request[r].op /\ p.target = request[r].target
      BY <2>1, <2>3 DEF IsRequest
    <2>5. RowStep
      BY <1>7, IssueLinkStep DEF RowStep
    <2> QED
      BY <1>2, <2>2, <2>4, <2>5
  <1>8. ASSUME NEW a \in Accounts, NEW t \in 1 .. links, Consume(r, a, t) PROVE FirstOwner'
    <2>1. RowStep
      BY <1>8, ConsumeStep DEF RowStep
    <2>2. audit' = audit
      BY <1>8 DEF Consume
    <2>3. PICK p : request' = [request EXCEPT ![r] = p] /\ p.op = "consume"
      BY <1>8, ConsumeStep
    <2> QED
      BY <1>2, <2>1, <2>2, <2>3
  <1>9. CASE Overtaken(r)
    <2>1. CASE request' = [request EXCEPT ![r] = Idle]
      BY <1>2, <1>9, <2>1 DEF Overtaken, RowStep, Idle
    <2>2. CASE request' = [request EXCEPT ![r].pc = "audit"]
      <3>1. PICK p : p = [request[r] EXCEPT !.pc = "audit"]
        OBVIOUS
      <3>2. request' = [request EXCEPT ![r] = p]
        BY <2>2, <3>1 DEF Rows, RequestRows
      <3>3. IsRequest(request[r])
        BY <1>9, BusyRequest DEF Overtaken
      <3>4. p.op = request[r].op /\ p.target = request[r].target
        BY <3>1, <3>3 DEF IsRequest
      <3> QED
        BY <1>2, <1>9, <3>2, <3>4 DEF Overtaken, RowStep
    <2> QED
      BY <1>9, <2>1, <2>2 DEF Overtaken
  <1>10. CASE Ending(r)
    <2>1. account' = account
      BY <1>10, EndingStep DEF Ending
    <2>2. PICK p : p = request'[r]
      OBVIOUS
    <2>3. request' = [request EXCEPT ![r] = p]
          /\ (p = Idle \/ (p.op = request[r].op /\ p.target = request[r].target))
      BY <1>10, <2>2, EndingStep DEF Ending
    <2>4. IsRequest(request[r])
      BY <1>10, BusyRequest DEF Ending, SendLink, RecordAudit, Reread, IssueSession, Abandon
    <2>5. CASE audit' = audit
      BY <1>2, <2>1, <2>3, <2>5 DEF RowStep, Idle
    <2>6. CASE RecordAudit(r)
      <3>1. request[r].op # "none" /\
            audit' = audit \cup {[action |-> request[r].op, account |-> request[r].target]}
        BY <2>6 DEF RecordAudit
      <3>2. Bootstrapped' \subseteq Bootstrapped
        BY <2>3, <3>1, BootstrappedAfter DEF Rows, Bootstrapped, Idle
      <3>3. audit' \subseteq [action : Ops, account : Accounts]
        BY <2>4, <3>1 DEF FirstOwner, IsRequest
      <3> QED
        BY <2>1, <3>2, <3>3, FirstOwnerKept DEF Exists
    <2> QED
      BY <1>10, <2>5, <2>6 DEF Ending, SendLink, Reread, IssueSession, Abandon
  <1> QED
    BY <1>1, <1>3, <1>4, <1>5, <1>6, <1>7, <1>8, <1>9, <1>10

-----------------------------------------------------------------------------
(* The last owner. *)

\* Of two owners one is left without the other.
LEMMA AnotherOwner ==
    ASSUME AccountAssumption, Cardinality(ActiveOwners) > 1, NEW a PROVE ActiveOwners \ {a} # {}
  <1> SUFFICES ASSUME ActiveOwners \subseteq {a} PROVE FALSE
    OBVIOUS
  <1>1. IsFiniteSet({a}) /\ Cardinality({a}) = 1
    BY FS_Singleton
  <1>2. IsFiniteSet(ActiveOwners) /\ Cardinality(ActiveOwners) <= 1
    BY <1>1, FS_Subset
  <1>3. Cardinality(ActiveOwners) \in Nat
    BY <1>2, FS_CardinalityType
  <1> QED
    BY <1>2, <1>3

\* A row that evolves takes no other owner away, nor itself while it stays active.
LEMMA ActiveAfter ==
    ASSUME AccountAssumption, AccountRows, NEW a \in Accounts, NEW v, Evolves(a, v),
           account' = [account EXCEPT ![a] = v]
    PROVE  /\ ActiveOwners \ {a} \subseteq ActiveOwners'
           /\ (Exists(a) /\ a \in Owners => (account[a].active => v.active))
                 => ActiveOwners \subseteq ActiveOwners'
  <1>1. account'[a] = v /\ \A b \in Accounts \ {a} : account'[b] = account[b]
    BY DEF AccountRows
  <1>2. v \in Account /\ v # None
    BY DEF Evolves, AccountAssumption
  <1>3. ActiveOwners \ {a} \subseteq ActiveOwners'
    BY <1>1 DEF ActiveOwners, Exists
  <1>4. a \in ActiveOwners => a \in Owners /\ Exists(a) /\ account[a].active
    BY RowFacts DEF ActiveOwners, AccountAssumption, Accounts
  <1>5. (a \in Owners /\ v.active) => a \in ActiveOwners'
    BY <1>1, <1>2 DEF ActiveOwners, Exists, Evolves
  <1> QED
    BY <1>3, <1>4, <1>5

\* An owner remains when no owner leaves and nobody sets out to deactivate one.
LEMMA OwnersKept ==
    ASSUME Rows, OwnersStay, crossing' = crossing, NEW r \in Requests, NEW p,
           request' = [request EXCEPT ![r] = p],
           ~(p.op = "deactivate" /\ p.pc = "write"),
           ActiveOwners \subseteq ActiveOwners',
           ~NoAccountYet' => ~NoAccountYet \/ ActiveOwners' # {}
    PROVE  OwnersStay'
  <1>1. \A q \in Requests : request'[q] = IF q = r THEN p ELSE request[q]
    BY DEF Rows, RequestRows
  <1>2. \A q \in Requests : Leaving(q)' => Leaving(q) /\ request'[q] = request[q]
    BY <1>1 DEF Leaving
  <1>3. ASSUME crossing = FALSE
        PROVE  /\ OwnerRemains'
               /\ \A q \in Requests : Leaving(q)' => ActiveOwners' \ {request'[q].target} # {}
               /\ \A q, u \in Requests :
                     (Leaving(q)' /\ Leaving(u)') => request'[q].target = request'[u].target
    BY <1>2, <1>3 DEF OwnersStay, OwnerRemains
  <1> QED
    BY <1>3 DEF OwnersStay

\* Every step keeps an owner as long as no two deactivations of owners cross.
LEMMA OwnersStep ==
    ASSUME AccountAssumption, Rows, SessionsAge, OwnersStay, crossing \in BOOLEAN, Next
    PROVE  OwnersStay' /\ crossing' \in BOOLEAN
  <1>1. PICK r \in Requests :
          \/ Entered(r) \/ Write(r) \/ StaffCreated(r) \/ OwnerCreated(r) \/ IssueLink(r)
          \/ \E a \in Accounts, t \in 1 .. links : Consume(r, a, t)
          \/ Overtaken(r) \/ Ending(r)
    BY StepKinds
  <1>2. CASE Entered(r)
    <2>1. PICK op, a, pc, arg :
             /\ op \in Ops /\ a \in Accounts /\ pc \in Pcs
             /\ Enter(r, op, a, arg, pc) /\ account' = account
             /\ op = "deactivate" =>
                   /\ a \in Owners => Cardinality(ActiveOwners) > 1
                   /\ crossing' = (crossing \/ (a \in Owners /\ Deactivating(a)))
             /\ op # "deactivate" => crossing' = crossing
      BY <1>2 DEF Entered
    <2>2. PICK p : p = [op |-> op, target |-> a, arg |-> arg, pc |-> pc, copy |-> account[a]]
      OBVIOUS
    <2>3. request' = [request EXCEPT ![r] = p] /\ p.op = op /\ p.target = a /\ p.pc = pc
      BY <2>1, <2>2 DEF Enter
    <2>4. ActiveOwners' = ActiveOwners /\ (NoAccountYet' <=> NoAccountYet)
      BY <2>1 DEF ActiveOwners, NoAccountYet, Exists
    <2>5. CASE op # "deactivate"
      BY <2>1, <2>3, <2>4, <2>5, OwnersKept
    <2>6. CASE op = "deactivate"
      <3>0. crossing' \in BOOLEAN
        BY <2>1, <2>6
      <3>1. \A q \in Requests : request'[q] = IF q = r THEN p ELSE request[q]
        BY <2>3 DEF Rows, RequestRows
      <3>2. \A q \in Requests \ {r} : request'[q] = request[q] /\ (Leaving(q)' <=> Leaving(q))
        BY <3>1 DEF Leaving
      <3>3. Leaving(r)' => a \in Owners /\ request'[r].target = a
        BY <2>3, <3>1 DEF Leaving
      <3>4. ASSUME crossing' = FALSE
            PROVE  /\ OwnerRemains'
                   /\ \A q \in Requests : Leaving(q)' => ActiveOwners' \ {request'[q].target} # {}
                   /\ \A q, u \in Requests :
                         (Leaving(q)' /\ Leaving(u)') => request'[q].target = request'[u].target
        <4>1. crossing = FALSE /\ (a \in Owners => ~Deactivating(a))
          BY <2>1, <2>6, <3>4
        <4>2. a \in Owners => \A q \in Requests : Leaving(q) => request[q].target = a
          BY <4>1 DEF Deactivating, Leaving
        <4>3. a \in Owners => ActiveOwners \ {a} # {}
          BY <2>1, <2>6, AnotherOwner
        <4>4. /\ OwnerRemains
              /\ \A q \in Requests : Leaving(q) => ActiveOwners \ {request[q].target} # {}
              /\ \A q, u \in Requests :
                    (Leaving(q) /\ Leaving(u)) => request[q].target = request[u].target
          BY <4>1 DEF OwnersStay
        <4>5. OwnerRemains'
          BY <2>4, <4>1, <4>4 DEF OwnerRemains
        <4>6. \A q \in Requests : Leaving(q)' => ActiveOwners' \ {request'[q].target} # {}
          BY <2>4, <3>2, <3>3, <4>3, <4>4
        <4>7. ASSUME NEW q \in Requests, NEW u \in Requests, Leaving(q)', Leaving(u)'
              PROVE  request'[q].target = request'[u].target
          BY <3>2, <3>3, <4>2, <4>4, <4>7
        <4> QED
          BY <4>5, <4>6, <4>7
      <3> QED
        BY <3>0, <3>4 DEF OwnersStay
    <2> QED
      BY <2>5, <2>6
  <1>3. CASE Write(r)
    <2>1. PICK p : p = [request[r] EXCEPT !.pc = "audit"]
      OBVIOUS
    <2>2. request' = [request EXCEPT ![r] = p] /\ crossing' = crossing /\ request[r].pc = "write"
      BY <1>3, <2>1 DEF Write, Update, Rows, RequestRows
    <2>3. IsRequest(request[r])
      BY <1>3, BusyRequest DEF Write
    <2>4. p.pc = "audit"
      BY <2>1, <2>3 DEF IsRequest
    <2>5. PICK a \in Accounts : a = request[r].target
      BY <2>3 DEF IsRequest
    <2>6. PICK v : /\ Evolves(a, v) /\ account' = [account EXCEPT ![a] = v] /\ Exists(a)
                   /\ ~(request[r].op = "deactivate") => (account[a].active => v.active)
      BY <1>3, <2>5, WriteStep
    <2>7. ~NoAccountYet
      BY <2>6 DEF NoAccountYet
    <2>8. CASE request[r].op # "deactivate" \/ a \notin Owners
      <3>1. ActiveOwners \subseteq ActiveOwners'
        BY <2>6, <2>8, ActiveAfter DEF Rows
      <3> QED
        BY <2>2, <2>4, <2>7, <3>1, OwnersKept
    <2>9. CASE request[r].op = "deactivate" /\ a \in Owners
      <3>1. Leaving(r)
        BY <2>2, <2>5, <2>9 DEF Leaving
      <3>2. ActiveOwners \ {a} \subseteq ActiveOwners'
        BY <2>6, ActiveAfter DEF Rows
      <3>3. \A q \in Requests : request'[q] = IF q = r THEN p ELSE request[q]
        BY <2>2 DEF Rows, RequestRows
      <3>4. \A q \in Requests : Leaving(q)' => Leaving(q) /\ request'[q] = request[q]
        BY <2>4, <3>3 DEF Leaving
      <3>5. ASSUME crossing = FALSE
            PROVE  /\ OwnerRemains'
                   /\ \A q \in Requests : Leaving(q)' => ActiveOwners' \ {request'[q].target} # {}
                   /\ \A q, u \in Requests :
                         (Leaving(q)' /\ Leaving(u)') => request'[q].target = request'[u].target
        <4>1. ActiveOwners \ {a} # {} /\ \A q \in Requests : Leaving(q) => request[q].target = a
          BY <2>5, <3>1, <3>5 DEF OwnersStay
        <4>2. ActiveOwners' \ {a} # {}
          BY <3>2, <4>1
        <4> QED
          BY <3>4, <4>1, <4>2 DEF OwnerRemains
      <3> QED
        BY <2>2, <3>5 DEF OwnersStay
    <2> QED
      BY <2>8, <2>9
  <1>4. CASE StaffCreated(r)
    <2>1. PICK a \in Staff, role \in StaffRoles, invited \in BOOLEAN, w \in Owners :
             Create(r, w, a, role, invited)
      BY <1>4 DEF StaffCreated
    <2>2. PICK v : ~Exists(a) /\ Evolves(a, v) /\ account' = [account EXCEPT ![a] = v]
      BY <2>1, CreateStep
    <2>3. PICK p : p = [op |-> IF invited THEN "invite" ELSE "create", target |-> a, arg |-> None,
                        pc |-> IF invited THEN "issue" ELSE "audit", copy |-> account'[a]]
      OBVIOUS
    <2>4. request' = [request EXCEPT ![r] = p] /\ p.op # "deactivate" /\ crossing' = crossing
      BY <2>1, <2>3 DEF Create
    <2>5. ActiveOwners \subseteq ActiveOwners'
      BY <2>2, ActiveAfter DEF Rows, Accounts
    <2>6. ~NoAccountYet
      <3>1. \E s \in sessions : s.account = w /\ Current(s)
        BY <2>1 DEF Create, OwnerCalls
      <3> QED
        BY <3>1, SignedIn DEF NoAccountYet
    <2> QED
      BY <2>4, <2>5, <2>6, OwnersKept
  <1>5. CASE OwnerCreated(r)
    <2>1. PICK op \in {"bootstrap", "legacy"}, a \in Owners :
             ~Exists(a) /\ NewOwner(r, op, a) /\ UNCHANGED <<links, mailed, crossing>>
      BY <1>5 DEF OwnerCreated
    <2>2. PICK v : Evolves(a, v) /\ v.active /\ account' = [account EXCEPT ![a] = v]
      BY <2>1, NewOwnerStep
    <2>3. PICK p : request' = [request EXCEPT ![r] = p] /\ p.op = op
      BY <2>1, NewOwnerStep
    <2>4. a \in Accounts
      BY DEF Accounts
    <2>5. ActiveOwners \subseteq ActiveOwners'
      BY <2>1, <2>2, <2>4, ActiveAfter DEF Rows
    <2>6. a \in ActiveOwners'
      <3>1. account'[a] = v /\ v # None /\ v.role = "owner"
        BY <2>2, <2>4 DEF Rows, AccountRows, Evolves, AccountAssumption
      <3> QED
        BY <2>2, <2>4, <3>1 DEF ActiveOwners, Exists
    <2> QED
      BY <2>1, <2>3, <2>5, <2>6, OwnersKept
  <1>6. CASE IssueLink(r)
    <2>1. PICK p : p = [request[r] EXCEPT !.pc = "mail", !.arg = links']
      OBVIOUS
    <2>2. request' = [request EXCEPT ![r] = p] /\ crossing' = crossing
      BY <1>6, <2>1 DEF IssueLink, Rows, RequestRows
    <2>3. IsRequest(request[r])
      BY <1>6, BusyRequest DEF IssueLink
    <2>4. p.pc = "mail"
      BY <2>1, <2>3 DEF IsRequest
    <2>5. PICK a \in Accounts : a = request[r].target
      BY <2>3 DEF IsRequest
    <2>6. PICK v : /\ Evolves(a, v) /\ account' = [account EXCEPT ![a] = v] /\ Exists(a)
                   /\ request[r].op # "invite" => (account[a].active => v.active)
                   /\ request[r].op = "invite" => a \in Staff
      BY <1>6, <2>5, IssueLinkStep
    <2>7. ~NoAccountYet
      BY <2>6 DEF NoAccountYet
    <2>8. ActiveOwners \subseteq ActiveOwners'
      BY <2>6, ActiveAfter DEF Rows, AccountAssumption
    <2> QED
      BY <2>2, <2>4, <2>7, <2>8, OwnersKept
  <1>7. ASSUME NEW a \in Accounts, NEW t \in 1 .. links, Consume(r, a, t)
        PROVE  OwnersStay' /\ crossing' \in BOOLEAN
    <2>1. PICK v : /\ Evolves(a, v) /\ account' = [account EXCEPT ![a] = v]
                   /\ account[a].active => v.active
      BY <1>7, ConsumeStep
    <2>2. crossing' = crossing /\ Exists(a)
      BY <1>7 DEF Consume
    <2>3. PICK p : request' = [request EXCEPT ![r] = p] /\ p.op = "consume"
      BY <1>7, ConsumeStep
    <2>4. ActiveOwners \subseteq ActiveOwners'
      BY <2>1, ActiveAfter DEF Rows
    <2>5. ~NoAccountYet
      BY <2>2 DEF NoAccountYet
    <2> QED
      BY <2>2, <2>3, <2>4, <2>5, OwnersKept
  <1>8. CASE Overtaken(r)
    <2>1. ActiveOwners' = ActiveOwners /\ (NoAccountYet' <=> NoAccountYet) /\ crossing' = crossing
      BY <1>8 DEF Overtaken, ActiveOwners, NoAccountYet, Exists
    <2>2. CASE request' = [request EXCEPT ![r] = Idle]
      BY <2>1, <2>2, OwnersKept DEF Idle
    <2>3. CASE request' = [request EXCEPT ![r].pc = "audit"]
      <3>1. PICK p : p = [request[r] EXCEPT !.pc = "audit"]
        OBVIOUS
      <3>2. request' = [request EXCEPT ![r] = p]
        BY <2>3, <3>1 DEF Rows, RequestRows
      <3>3. IsRequest(request[r])
        BY <1>8, BusyRequest DEF Overtaken
      <3>4. p.pc = "audit"
        BY <3>1, <3>3 DEF IsRequest
      <3> QED
        BY <2>1, <3>2, <3>4, OwnersKept
    <2> QED
      BY <1>8, <2>2, <2>3 DEF Overtaken
  <1>9. CASE Ending(r)
    <2>1. account' = account
      BY <1>9, EndingStep DEF Ending
    <2>2. PICK p : p = request'[r]
      OBVIOUS
    <2>3. request' = [request EXCEPT ![r] = p]
          /\ (p = Idle \/ p.pc \in {"audit", "reread", "session"})
      BY <1>9, <2>2, EndingStep DEF Ending
    <2>4. crossing' = crossing
      BY <1>9 DEF Ending, SendLink, RecordAudit, Reread, IssueSession, Abandon
    <2>5. ActiveOwners' = ActiveOwners /\ (NoAccountYet' <=> NoAccountYet)
      BY <2>1 DEF ActiveOwners, NoAccountYet, Exists
    <2>6. ~(p.op = "deactivate" /\ p.pc = "write")
      BY <2>3 DEF Idle
    <2> QED
      BY <2>3, <2>4, <2>5, <2>6, OwnersKept
  <1> QED
    BY <1>1, <1>2, <1>3, <1>4, <1>5, <1>6, <1>7, <1>8, <1>9

-----------------------------------------------------------------------------
(* The theorems. *)

\* The tables start empty, and nothing is under way.
LEMMA InitialAccounts ==
    ASSUME AccountAssumption, Init PROVE AccountInv
  <1>1. Rows
    BY DEF Init, Rows, AccountRows, RequestRows, LinkRows, Exists, AccountAssumption
  <1>2. SessionsAge
    BY DEF Init, SessionsAge, Idle
  <1>3. LinksFresh
    BY DEF Init, LinksFresh, Exists
  <1>4. FirstOwner
    BY DEF Init, FirstOwner, Bootstrapped, Idle
  <1>5. OwnersStay
    BY DEF Init, OwnersStay, OwnerRemains, NoAccountYet, Exists, Leaving, Idle
  <1> QED
    BY <1>1, <1>2, <1>3, <1>4, <1>5 DEF AccountInv, Init

\* The inductive invariant implies what the owner relies on.
LEMMA InvGoverns ==
    ASSUME AccountAssumption, AccountInv PROVE AccountsAreGoverned
  <1>1. Rows /\ SessionsAge /\ LinksFresh /\ FirstOwner /\ OwnersStay /\ crossing \in BOOLEAN
    BY DEF AccountInv
  <1>2. TypeOK
    <2>1. \A r \in Requests : request[r] = Idle \/ request[r].target \in Accounts
      BY <1>1 DEF Rows, RequestRows, IsRequest
    <2>2. \A a \in Accounts : Exists(a) =>
             /\ account[a].role \in StaffRoles \cup {"owner"} /\ account[a].status \in Status
             /\ account[a].active = (account[a].status = "active")
             /\ account[a].version \in 1 .. MaxVersion
      <3> SUFFICES ASSUME NEW a \in Accounts, Exists(a)
                   PROVE  /\ account[a].role \in StaffRoles \cup {"owner"}
                          /\ account[a].status \in Status
                          /\ account[a].active = (account[a].status = "active")
                          /\ account[a].version \in 1 .. MaxVersion
        OBVIOUS
      <3>1. /\ account[a] \in Account /\ account[a].version \in 1 .. MaxVersion
            /\ account[a].active <=> account[a].status = "active"
        BY <1>1, RowFacts DEF Rows
      <3>2. account[a].active \in BOOLEAN /\ account[a].role \in StaffRoles \cup {"owner"}
            /\ account[a].status \in Status
        BY <3>1 DEF Account
      <3> QED
        BY <3>1, <3>2
    <2> QED
      BY <1>1, <2>1, <2>2 DEF TypeOK, SessionsAge, Rows, LinkRows
  <1>3. SessionsFollowAccount
    BY <1>1 DEF SessionsFollowAccount, SessionsAge, NotNewer, Current
  <1>4. LinksSpentOnce
    BY <1>1 DEF LinksSpentOnce, LinksFresh, Rows, LinkRows, AccountAssumption
  <1>5. OneFirstOwner
    <2> DEFINE S == {e \in audit : e.action = "bootstrap"}
    <2>1. \A e, f \in S : e = f
      <3> SUFFICES ASSUME NEW e \in S, NEW f \in S PROVE e = f
        OBVIOUS
      <3>1. e.account \in Bootstrapped /\ f.account \in Bootstrapped
        BY DEF Bootstrapped
      <3>2. e \in [action : Ops, account : Accounts] /\ f \in [action : Ops, account : Accounts]
            /\ e.action = f.action /\ e.account = f.account
        BY <1>1, <3>1 DEF FirstOwner
      <3> QED
        BY <3>2
    <2>2. CASE S = {}
      BY <2>2, FS_EmptySet DEF OneFirstOwner
    <2>3. CASE S # {}
      <3>1. PICK e : S = {e}
        BY <2>1, <2>3
      <3>2. Cardinality({e}) = 1
        BY FS_Singleton
      <3>3. Cardinality(S) <= 1
        BY <3>1, <3>2
      <3> QED
        BY <3>3 DEF OneFirstOwner
    <2> QED
      BY <2>2, <2>3
  <1>6. OwnerRemains
    BY <1>1 DEF OwnersStay, OwnerRemains
  <1> QED
    BY <1>2, <1>3, <1>4, <1>5, <1>6 DEF AccountsAreGoverned

\* Routes that read, decide and write in separate transactions keep AccountInv,
\* however they overlap and wherever they are cut off.
THEOREM AccountInvariant ==
    ASSUME AccountAssumption PROVE Spec => []AccountInv
  <1>1. Init => AccountInv
    BY InitialAccounts
  <1>2. AccountInv /\ [Next]_vars => AccountInv'
    <2>1. ASSUME AccountInv, Next PROVE AccountInv'
      <3>1. Rows /\ SessionsAge /\ LinksFresh /\ FirstOwner /\ OwnersStay /\ crossing \in BOOLEAN
        BY <2>1 DEF AccountInv
      <3>2. Rows'
        BY <2>1, <3>1, StepKinds
      <3>3. SessionsAge'
        BY <2>1, <3>1, SessionsStep
      <3>4. LinksFresh'
        BY <2>1, <3>1, LinksStep
      <3>5. FirstOwner'
        BY <2>1, <3>1, FirstOwnerStep
      <3>6. OwnersStay' /\ crossing' \in BOOLEAN
        BY <2>1, <3>1, OwnersStep
      <3> QED
        BY <3>2, <3>3, <3>4, <3>5, <3>6 DEF AccountInv
    <2>2. ASSUME AccountInv, UNCHANGED vars PROVE AccountInv'
      <3>1. Rows'
        BY <2>2 DEF vars, AccountInv, Rows, AccountRows, RequestRows, LinkRows, Routed, Exists
      <3>2. SessionsAge'
        BY <2>2 DEF vars, AccountInv, SessionsAge, Exists
      <3>3. LinksFresh'
        BY <2>2, LinksShrink DEF vars, AccountInv, LinkAt, Exists
      <3>4. FirstOwner'
        BY <2>2 DEF vars, AccountInv, FirstOwner, Bootstrapped, NoAccountYet, Exists
      <3>5. OwnersStay' /\ crossing' \in BOOLEAN
        BY <2>2 DEF vars, AccountInv, OwnersStay, OwnerRemains, Leaving, ActiveOwners,
                    NoAccountYet, Exists
      <3> QED
        BY <3>1, <3>2, <3>3, <3>4, <3>5 DEF AccountInv
    <2> QED
      BY <2>1, <2>2
  <1> QED
    BY <1>1, <1>2, PTL DEF Spec

\* Sessions follow their account, links are used once, there is one first owner and
\* an owner remains, for every deployment.
THEOREM AccountsGoverned ==
    ASSUME AccountAssumption PROVE Spec => []AccountsAreGoverned
  <1>1. AccountInv => AccountsAreGoverned
    BY InvGoverns
  <1>2. Spec => []AccountInv
    BY AccountInvariant
  <1> QED
    BY <1>1, <1>2, PTL

-----------------------------------------------------------------------------
(* The open orders and the reorder queue. *)

\* One of these events says what the order shows, and some event up to its time has its
\* received units.
Sourced(o, events) ==
    \E e \in events : /\ ShipmentOf[e].ts = o.ts /\ ShipmentOf[e].ordered = o.ordered
                      /\ ShipmentOf[e].eta = o.eta
Reported(o) ==
    \E e \in Shipments : ShipmentOf[e].ts <= o.ts /\ ShipmentOf[e].received = o.received

\* What observe_event may write later: an event that was observed, or its own, is behind
\* it, and it is no older than its own.
Writable(e) ==
    merging[e] # Nothing =>
        /\ Sourced(merging[e], observed \cup {e}) /\ Reported(merging[e])
        /\ merging[e].ts >= ShipmentOf[e].ts

\* The units a request counts on were ordered by an observed event with that eta, and
\* what it still has to log is a status.
Promised(q) ==
    /\ q.remaining > 0 =>
          \E e \in observed : ShipmentOf[e].ordered >= q.remaining /\ ShipmentOf[e].eta = q.eta
    /\ q.pc = "log" => q.said \in CandidateStatus /\ q.next \in {"cover", "end"}

\* The inductive invariant.
QueueInv ==
    /\ QueueTypeOK
    /\ order # Nothing => Sourced(order, observed) /\ Reported(order)
    /\ NewestOrderShown
    /\ \A e \in Shipments : Writable(e)
    /\ \A r \in Reads : read[r] # NoRead => Promised(read[r])
    /\ SuppressionIsBacked
    /\ candidate # Nothing /\ candidate.status = "suppressed" => candidate.until \in Nat
    /\ OneEntryPerTransition

\* The larger of two numbers.
LEMMA LargerOfTwo ==
    ASSUME NEW a \in Nat, NEW b \in Nat
    PROVE  Max({a, b}) \in {a, b} /\ Max({a, b}) >= a /\ Max({a, b}) >= b
  <1>1. \E x \in {a, b} : \A y \in {a, b} : x >= y
    <2>1. CASE a >= b
      BY <2>1
    <2>2. CASE ~ a >= b
      BY <2>2
    <2> QED
      BY <2>1, <2>2
  <1> QED
    BY <1>1 DEF Max

\* The merge of an event with the order (_order_record): the newer one's time, ordered
\* units and eta, and units that one of the two received.
LEMMA MergeReports ==
    ASSUME QueueAssumption, QueueInv, NEW e \in Shipments
    PROVE  /\ Merged(e, order) \in Order /\ Merged(e, order).ts >= ShipmentOf[e].ts
           /\ Sourced(Merged(e, order), observed \cup {e}) /\ Reported(Merged(e, order))
  <1>1. ShipmentOf[e] \in Order /\ order \in Order \cup {Nothing} /\ Nothing \notin Order
           /\ observed \subseteq Shipments
    BY DEF QueueAssumption, ShipmentAssumption, QueueInv, QueueTypeOK, OrderTypeOK
  <1>2. CASE order = Nothing
    <2>1. Merged(e, order) = [ts |-> ShipmentOf[e].ts, ordered |-> ShipmentOf[e].ordered,
                              received |-> ShipmentOf[e].received, eta |-> ShipmentOf[e].eta]
      BY <1>2 DEF Merged
    <2> QED
      BY <1>1, <2>1 DEF Order, Sourced, Reported
  <1>3. CASE order # Nothing /\ ShipmentOf[e].ts < order.ts
    <2>1. Merged(e, order) = order
      BY <1>3 DEF Merged
    <2> QED
      BY <1>1, <1>3, <2>1 DEF Order, Sourced, QueueInv
  <1>4. CASE order # Nothing /\ ~ ShipmentOf[e].ts < order.ts
    <2> PICK top : top = Max({ShipmentOf[e].received, order.received})
      OBVIOUS
    <2>1. Merged(e, order) = [ts |-> ShipmentOf[e].ts, ordered |-> ShipmentOf[e].ordered,
                              received |-> top, eta |-> ShipmentOf[e].eta]
      BY <1>4 DEF Merged
    <2>2. top \in {ShipmentOf[e].received, order.received} /\ top \in Nat
      BY <1>1, <1>4, LargerOfTwo DEF Order
    <2>3. Sourced(Merged(e, order), observed \cup {e})
      BY <2>1 DEF Sourced
    <2>4. PICK s \in Shipments : ShipmentOf[s].ts <= order.ts /\ ShipmentOf[s].received = order.received
      BY <1>4 DEF QueueInv, Reported
    <2>5. ShipmentOf[s] \in Order
      BY DEF QueueAssumption, ShipmentAssumption
    <2>6. Reported(Merged(e, order))
      <3>1. CASE top = ShipmentOf[e].received
        <4>1. Merged(e, order).ts = ShipmentOf[e].ts /\ Merged(e, order).received = ShipmentOf[e].received
          BY <2>1, <3>1
        <4>2. ShipmentOf[e].ts <= ShipmentOf[e].ts
          BY <1>1 DEF Order
        <4> QED
          BY <4>1, <4>2 DEF Reported
      <3>2. CASE top = order.received
        BY <1>1, <1>4, <2>1, <2>4, <2>5, <3>2 DEF Reported, Order
      <3> QED
        BY <2>2, <3>1, <3>2
    <2> QED
      BY <1>1, <2>1, <2>2, <2>3, <2>6 DEF Order
  <1> QED
    BY <1>2, <1>3, <1>4

\* An order event read or written leaves the candidate's part alone.
LEMMA ReadOrderKept ==
    ASSUME QueueAssumption, QueueInv, NEW e \in Shipments, ReadOrder(e),
           UNCHANGED <<candidateVars, clock>>
    PROVE  QueueInv'
  <1> PICK m : m = Merged(e, order)
    OBVIOUS
  <1>1. merging' = [merging EXCEPT ![e] = m] /\ m \in Order /\ m.ts >= ShipmentOf[e].ts
           /\ Sourced(m, observed \cup {e}) /\ Reported(m)
    BY MergeReports DEF ReadOrder
  <1>2. UNCHANGED <<order, observed, candidate, trail, read, turns, unlogged, clock>>
    BY DEF ReadOrder, candidateVars
  <1>3. merging \in [Shipments -> Order \cup {Nothing}]
    BY DEF QueueInv, QueueTypeOK, OrderTypeOK
  <1>4. QueueTypeOK'
    BY <1>1, <1>2, <1>3 DEF QueueInv, QueueTypeOK, OrderTypeOK
  <1>5. \A d \in Shipments : Writable(d)'
    BY <1>1, <1>2, <1>3 DEF QueueInv, Writable
  <1> QED
    BY <1>2, <1>4, <1>5 DEF QueueInv, NewestOrderShown, SuppressionIsBacked, OneEntryPerTransition,
       Count, Promised

\* The guarded upsert never shows an order older than the one it replaces or than the event
\* observed.
LEMMA WriteOrderKept ==
    ASSUME QueueAssumption, QueueInv, NEW e \in Shipments, WriteOrder(e),
           UNCHANGED <<candidateVars, clock>>
    PROVE  QueueInv'
  <1>1. merging \in [Shipments -> Order \cup {Nothing}] /\ merging[e] # Nothing /\ merging[e] \in Order
           /\ order \in Order \cup {Nothing} /\ observed \subseteq Shipments
    BY DEF QueueInv, QueueTypeOK, OrderTypeOK, WriteOrder
  <1>2. Sourced(merging[e], observed \cup {e}) /\ Reported(merging[e])
           /\ merging[e].ts >= ShipmentOf[e].ts
    BY <1>1 DEF QueueInv, Writable
  <1>3. observed' = observed \cup {e} /\ merging' = [merging EXCEPT ![e] = Nothing]
           /\ order' = IF order = Nothing \/ order.ts <= merging[e].ts THEN merging[e] ELSE order
    BY DEF WriteOrder
  <1>4. UNCHANGED <<candidate, trail, read, turns, unlogged, clock>>
    BY DEF candidateVars
  <1>5. QueueTypeOK'
    BY <1>1, <1>3, <1>4 DEF QueueInv, QueueTypeOK, OrderTypeOK
  <1>6. \A d \in Shipments : ShipmentOf[d] \in Order
    BY DEF QueueAssumption, ShipmentAssumption
  <1>7. order' # Nothing /\ order' \in Order /\ order'.ts >= merging[e].ts
           /\ (order # Nothing => order'.ts >= order.ts)
           /\ Sourced(order', observed') /\ Reported(order')
    <2>1. CASE order = Nothing \/ order.ts <= merging[e].ts
      BY <1>1, <1>2, <1>3, <2>1 DEF Order
    <2>2. CASE order # Nothing /\ ~ order.ts <= merging[e].ts
      BY <1>1, <1>3, <2>2 DEF Order, QueueInv, Sourced
    <2> QED
      BY <2>1, <2>2
  <1>8. NewestOrderShown'
    <2> SUFFICES ASSUME NEW d \in observed' PROVE order'.ts >= ShipmentOf[d].ts
      BY <1>7 DEF NewestOrderShown
    <2>1. CASE d = e
      BY <1>1, <1>2, <1>6, <1>7, <2>1 DEF Order
    <2>2. CASE d \in observed
      <3>1. order # Nothing /\ order.ts >= ShipmentOf[d].ts
        BY <2>2 DEF QueueInv, NewestOrderShown
      <3> QED
        BY <1>1, <1>6, <1>7, <2>2, <3>1 DEF Order
    <2> QED
      BY <1>3, <2>1, <2>2
  <1>9. \A d \in Shipments : Writable(d)'
    <2> SUFFICES ASSUME NEW d \in Shipments, d # e, merging[d] # Nothing
                 PROVE  Sourced(merging[d], observed' \cup {d})
      BY <1>1, <1>3 DEF QueueInv, Writable, Reported
    <2> QED
      BY <1>3 DEF QueueInv, Writable, Sourced
  <1>10. (\A r \in Reads : read[r] # NoRead => Promised(read[r]))'
    BY <1>3, <1>4 DEF QueueInv, Promised
  <1>11. SuppressionIsBacked'
    BY <1>3, <1>4 DEF QueueInv, SuppressionIsBacked
  <1>12. OneEntryPerTransition'
    BY <1>4 DEF QueueInv, OneEntryPerTransition, Count
  <1> QED
    BY <1>4, <1>5, <1>7, <1>8, <1>9, <1>10, <1>11, <1>12 DEF QueueInv

\* Time passing leaves a suppression's end where it was.
LEMMA TickKept ==
    ASSUME QueueAssumption, QueueInv, Tick
    PROVE  QueueInv'
  <1>1. UNCHANGED <<order, merging, observed, candidate, trail, read, turns, unlogged>>
    BY DEF Tick, orderVars, candidateVars
  <1>2. clock \in 0 .. MaxTime /\ clock' \in 0 .. MaxTime /\ clock' = clock + 1
    BY DEF Tick, QueueInv, QueueTypeOK, QueueAssumption
  <1>3. SuppressionIsBacked'
    <2> SUFFICES ASSUME candidate # Nothing, candidate.status = "suppressed"
                 PROVE  SuppressionIsBacked'
      BY <1>1 DEF SuppressionIsBacked
    <2>1. PICK e \in observed, g \in Gaps :
             /\ g.units > 0 /\ ShipmentOf[e].ordered >= g.units
             /\ \/ candidate.until = ShipmentOf[e].eta
                \/ ShipmentOf[e].eta = Nothing /\ candidate.until <= clock + 1
      BY DEF QueueInv, SuppressionIsBacked
    <2>2. candidate.until \in Nat /\ clock \in Nat
      BY <1>2 DEF QueueInv, QueueAssumption
    <2> QED
      BY <1>1, <1>2, <2>1, <2>2 DEF SuppressionIsBacked
  <1> QED
    BY <1>1, <1>2, <1>3 DEF QueueInv, QueueTypeOK, OrderTypeOK, NewestOrderShown, Writable, Promised,
       OneEntryPerTransition, Count

\* The requests that still have an entry of this status to log.
Logging(s) == {r \in Reads : read[r].pc = "log" /\ read[r].said = s}

\* A count grows by one with an entry of its own, and not with another.
LEMMA CountAppend ==
    ASSUME NEW s \in Seq(CandidateStatus), NEW x \in CandidateStatus, NEW status
    PROVE  /\ Count(s, status) \in Nat
           /\ Count(Append(s, x), status) = Count(s, status) + (IF x = status THEN 1 ELSE 0)
  <1> PICK n : n = Len(s)
    OBVIOUS
  <1> PICK t : t = Append(s, x)
    OBVIOUS
  <1>1. n \in Nat /\ DOMAIN s = 1 .. n /\ DOMAIN t = 1 .. n + 1 /\ t[n + 1] = x
           /\ \A i \in 1 .. n : t[i] = s[i]
    OBVIOUS
  <1> PICK A : A = {i \in DOMAIN s : s[i] = status}
    OBVIOUS
  <1>2. IsFiniteSet(A) /\ A \subseteq 1 .. n
    <2>1. IsFiniteSet(1 .. n)
      BY <1>1, FS_Interval
    <2> QED
      BY <1>1, <2>1, FS_Subset
  <1>3. Cardinality(A) \in Nat /\ n + 1 \notin A
    BY <1>1, <1>2, FS_CardinalityType
  <1> PICK c : c = Cardinality(A)
    OBVIOUS
  <1>4. Count(s, status) = c /\ c \in Nat
    BY <1>3 DEF Count
  <1>5. CASE x = status
    <2>1. {i \in DOMAIN t : t[i] = status} = A \cup {n + 1}
      BY <1>1, <1>5
    <2>2. Cardinality(A \cup {n + 1}) = Cardinality(A) + 1
      BY <1>2, <1>3, FS_AddElement
    <2>3. Count(t, status) = c + 1
      BY <2>1, <2>2 DEF Count
    <2> QED
      BY <1>4, <1>5, <2>3
  <1>6. CASE x # status
    <2>1. {i \in DOMAIN t : t[i] = status} = A
      BY <1>1, <1>6
    <2>2. Count(t, status) = c
      BY <2>1 DEF Count
    <2>3. c = c + (IF x = status THEN 1 ELSE 0)
      BY <1>4, <1>6
    <2> QED
      BY <1>4, <2>2, <2>3
  <1> QED
    BY <1>5, <1>6

\* Neither side of the account is anything but a number.
LEMMA CountsAreNumbers ==
    ASSUME QueueAssumption, QueueInv, NEW s
    PROVE  /\ Count(turns, s) \in Nat /\ Count(trail, s) \in Nat /\ Count(unlogged, s) \in Nat
           /\ IsFiniteSet(Logging(s)) /\ Cardinality(Logging(s)) \in Nat
  <1>1. turns \in Seq(CandidateStatus) /\ trail \in Seq(CandidateStatus)
           /\ unlogged \in Seq(CandidateStatus)
    BY DEF QueueInv, QueueTypeOK
  <1>2. Logging(s) \subseteq Reads /\ IsFiniteSet(Reads)
    BY DEF Logging, QueueAssumption
  <1>3. IsFiniteSet(Logging(s))
    BY <1>2, FS_Subset
  <1>4. "new" \in CandidateStatus
    BY DEF CandidateStatus
  <1> QED
    BY <1>1, <1>3, <1>4, CountAppend, FS_CardinalityType

\* The account, and what each kind of step does to it: a transition leaves a request with
\* an entry to log, the entry or its loss takes it away, anything else changes nothing.
LEMMA AccountIs ==
    OneEntryPerTransition <=>
        \A s \in CandidateStatus :
            Count(turns, s) = Count(trail, s) + Count(unlogged, s) + Cardinality(Logging(s))
  BY DEF OneEntryPerTransition, Logging

\* A transition of the candidate.
LEMMA TransitionKept ==
    ASSUME QueueAssumption, QueueInv, NEW r \in Reads, NEW p, NEW x \in CandidateStatus,
           read' = [read EXCEPT ![r] = p], read[r].pc # "log", p.pc = "log", p.said = x,
           turns' = Append(turns, x), UNCHANGED <<trail, unlogged>>
    PROVE  OneEntryPerTransition'
  <1>1. DOMAIN read = Reads /\ turns \in Seq(CandidateStatus)
    BY DEF QueueInv, QueueTypeOK
  <1> SUFFICES ASSUME NEW s \in CandidateStatus
               PROVE  Count(turns', s) = Count(trail', s) + Count(unlogged', s)
                                           + Cardinality(Logging(s)')
    BY DEF OneEntryPerTransition, Logging
  <1>2. Count(turns, s) = Count(trail, s) + Count(unlogged, s) + Cardinality(Logging(s))
    BY AccountIs DEF QueueInv
  <1>3. Count(turns', s) = Count(turns, s) + (IF x = s THEN 1 ELSE 0)
    BY <1>1, CountAppend
  <1>4. CASE x = s
    <2>1. Logging(s)' = Logging(s) \cup {r} /\ r \notin Logging(s)
      BY <1>1, <1>4 DEF Logging
    <2>2. Cardinality(Logging(s) \cup {r}) = Cardinality(Logging(s)) + 1
      BY <2>1, CountsAreNumbers, FS_AddElement
    <2> QED
      BY <1>2, <1>3, <1>4, <2>1, <2>2, CountsAreNumbers
  <1>5. CASE x # s
    <2>1. Logging(s)' = Logging(s)
      BY <1>1, <1>5 DEF Logging
    <2> QED
      BY <1>2, <1>3, <1>5, <2>1, CountsAreNumbers
  <1> QED
    BY <1>4, <1>5

\* An entry put on the history, or lost with its process.
LEMMA EntryKept ==
    ASSUME QueueAssumption, QueueInv, NEW r \in Reads, NEW p, NEW x \in CandidateStatus,
           read' = [read EXCEPT ![r] = p], read[r].pc = "log", read[r].said = x, p.pc # "log",
           \/ trail' = Append(trail, x) /\ UNCHANGED unlogged
           \/ unlogged' = Append(unlogged, x) /\ UNCHANGED trail,
           UNCHANGED turns
    PROVE  OneEntryPerTransition'
  <1>1. DOMAIN read = Reads /\ trail \in Seq(CandidateStatus) /\ unlogged \in Seq(CandidateStatus)
    BY DEF QueueInv, QueueTypeOK
  <1> SUFFICES ASSUME NEW s \in CandidateStatus
               PROVE  Count(turns', s) = Count(trail', s) + Count(unlogged', s)
                                           + Cardinality(Logging(s)')
    BY DEF OneEntryPerTransition, Logging
  <1>2. Count(turns, s) = Count(trail, s) + Count(unlogged, s) + Cardinality(Logging(s))
    BY AccountIs DEF QueueInv
  <1>3. Count(trail', s) + Count(unlogged', s)
           = Count(trail, s) + Count(unlogged, s) + (IF x = s THEN 1 ELSE 0)
    <2>1. CASE trail' = Append(trail, x) /\ UNCHANGED unlogged
      <3>1. Count(trail', s) = Count(trail, s) + (IF x = s THEN 1 ELSE 0)
        BY <1>1, <2>1, CountAppend
      <3>2. Count(unlogged', s) = Count(unlogged, s)
        BY <2>1
      <3> QED
        BY <3>1, <3>2, CountsAreNumbers
    <2>2. CASE unlogged' = Append(unlogged, x) /\ UNCHANGED trail
      <3>1. Count(unlogged', s) = Count(unlogged, s) + (IF x = s THEN 1 ELSE 0)
        BY <1>1, <2>2, CountAppend
      <3>2. Count(trail', s) = Count(trail, s)
        BY <2>2
      <3> QED
        BY <3>1, <3>2, CountsAreNumbers
    <2> QED
      BY <2>1, <2>2
  <1>4. CASE x = s
    <2>1. Logging(s)' = Logging(s) \ {r} /\ r \in Logging(s)
      BY <1>1, <1>4 DEF Logging
    <2>2. Cardinality(Logging(s) \ {r}) = Cardinality(Logging(s)) - 1
      BY <2>1, CountsAreNumbers, FS_RemoveElement
    <2> QED
      BY <1>2, <1>3, <1>4, <2>1, <2>2, CountsAreNumbers
  <1>5. CASE x # s
    <2>1. Logging(s)' = Logging(s)
      BY <1>1, <1>5 DEF Logging
    <2> QED
      BY <1>2, <1>3, <1>5, <2>1, CountsAreNumbers
  <1> QED
    BY <1>4, <1>5

\* A step of a request that neither changes the candidate nor owes an entry.
LEMMA QuietKept ==
    ASSUME QueueAssumption, QueueInv, NEW r \in Reads, NEW p, read' = [read EXCEPT ![r] = p],
           read[r].pc # "log", p.pc # "log", UNCHANGED <<turns, trail, unlogged>>
    PROVE  OneEntryPerTransition'
  <1>1. DOMAIN read = Reads
    BY DEF QueueInv, QueueTypeOK
  <1>2. \A s \in CandidateStatus : Logging(s)' = Logging(s)
    BY <1>1 DEF Logging
  <1>3. \A s \in CandidateStatus :
           Count(turns, s) = Count(trail, s) + Count(unlogged, s) + Cardinality(Logging(s))
    BY AccountIs DEF QueueInv
  <1> SUFFICES ASSUME NEW s \in CandidateStatus
               PROVE  Count(turns', s) = Count(trail', s) + Count(unlogged', s)
                                           + Cardinality(Logging(s)')
    BY DEF OneEntryPerTransition, Logging
  <1> QED
    BY <1>2, <1>3

\* A request is in progress exactly when it is at one of its steps.
LEMMA ReadIsInProgress ==
    ASSUME QueueAssumption, QueueInv, NEW r \in Reads
    PROVE  /\ read[r] \in Progress \cup {NoRead}
           /\ read[r].pc # "none" => read[r] \in Progress /\ Promised(read[r])
  <1>1. read[r] \in Progress \cup {NoRead}
    BY DEF QueueInv, QueueTypeOK
  <1>2. NoRead.pc = "none"
    BY DEF NoRead
  <1> QED
    BY <1>1, <1>2 DEF QueueInv

\* What the step of one request has to establish.
LEMMA ReadStep ==
    ASSUME QueueAssumption, QueueInv, NEW r \in Reads, NEW p \in Progress \cup {NoRead},
           read' = [read EXCEPT ![r] = p], UNCHANGED <<order, merging, observed, clock>>,
           p # NoRead => Promised(p),
           candidate' \in Candidate \cup {Nothing},
           trail' \in Seq(CandidateStatus), turns' \in Seq(CandidateStatus),
           unlogged' \in Seq(CandidateStatus),
           SuppressionIsBacked',
           (candidate # Nothing /\ candidate.status = "suppressed" => candidate.until \in Nat)',
           OneEntryPerTransition'
    PROVE  QueueInv'
  <1>1. read \in [Reads -> Progress \cup {NoRead}]
    BY DEF QueueInv, QueueTypeOK
  <1>2. read' \in [Reads -> Progress \cup {NoRead}]
    BY <1>1
  <1>3. QueueTypeOK'
    BY <1>2 DEF QueueInv, QueueTypeOK, OrderTypeOK
  <1>4. (\A q \in Reads : read[q] # NoRead => Promised(read[q]))'
    <2> SUFFICES ASSUME NEW q \in Reads, read'[q] # NoRead
                 PROVE  Promised(read'[q])
      BY DEF Promised
    <2>1. CASE q = r
      BY <1>1, <2>1
    <2>2. CASE q # r
      BY <1>1, <2>2 DEF QueueInv
    <2> QED
      BY <2>1, <2>2
  <1>5. (\A e \in Shipments : Writable(e))' /\ NewestOrderShown'
           /\ (order # Nothing => Sourced(order, observed) /\ Reported(order))'
    BY DEF QueueInv, Writable, NewestOrderShown
  <1> QED
    BY <1>3, <1>4, <1>5 DEF QueueInv

\* A candidate that stays as it is stays backed.
LEMMA CandidateKept ==
    ASSUME QueueInv, UNCHANGED <<candidate, observed, clock>>
    PROVE  /\ candidate' \in Candidate \cup {Nothing} /\ SuppressionIsBacked'
           /\ (candidate # Nothing /\ candidate.status = "suppressed" => candidate.until \in Nat)'
  BY DEF QueueInv, QueueTypeOK, SuppressionIsBacked

\* product_attention reads the coverage: what the order still promises was ordered by an
\* event that was observed.
LEMMA AttentionKept ==
    ASSUME QueueAssumption, QueueInv, NEW r \in Reads, Attention(r)
    PROVE  QueueInv'
  <1>1. UNCHANGED <<order, merging, observed, candidate, trail, clock, turns, unlogged>>
           /\ read[r].pc = "none"
    BY DEF Attention, orderVars
  <1>2. PICK g \in Gaps : read' = [read EXCEPT ![r] =
                      [pc |-> "observe", gap |-> g, remaining |-> Remaining(order),
                       eta |-> IF order = Nothing THEN Nothing ELSE order.eta,
                       said |-> Nothing, next |-> Nothing]]
    BY DEF Attention
  <1> PICK p : p = [pc |-> "observe", gap |-> g, remaining |-> Remaining(order),
                    eta |-> IF order = Nothing THEN Nothing ELSE order.eta,
                    said |-> Nothing, next |-> Nothing]
    OBVIOUS
  <1>3. order \in Order \cup {Nothing} /\ trail \in Seq(CandidateStatus) /\ turns \in Seq(CandidateStatus)
           /\ unlogged \in Seq(CandidateStatus)
    BY DEF QueueInv, QueueTypeOK, OrderTypeOK
  <1>4. Remaining(order) \in Nat
    BY <1>3 DEF Remaining, Order
  <1>5. p \in Progress
    BY <1>3, <1>4 DEF Progress, Order
  <1>6. Promised(p)
    <2> SUFFICES ASSUME Remaining(order) > 0
                 PROVE  \E e \in observed : /\ ShipmentOf[e].ordered >= Remaining(order)
                                            /\ ShipmentOf[e].eta = p.eta
      BY DEF Promised
    <2>1. order \in Order /\ order # Nothing /\ Remaining(order) <= order.ordered
             /\ p.eta = order.eta
      BY <1>3 DEF Remaining, Order
    <2>2. PICK e \in observed : ShipmentOf[e].ordered = order.ordered /\ ShipmentOf[e].eta = order.eta
      BY <2>1 DEF QueueInv, Sourced
    <2> QED
      BY <2>1, <2>2
  <1>7. read' = [read EXCEPT ![r] = p] /\ read[r].pc # "log" /\ p.pc # "log"
           /\ UNCHANGED <<turns, trail, unlogged>>
    BY <1>1, <1>2
  <1>8. OneEntryPerTransition'
    BY <1>7, QuietKept
  <1>9. candidate' \in Candidate \cup {Nothing} /\ SuppressionIsBacked'
           /\ (candidate # Nothing /\ candidate.status = "suppressed" => candidate.until \in Nat)'
    BY <1>1, CandidateKept
  <1>10. UNCHANGED <<order, merging, observed, clock>>
    BY <1>1
  <1>11. trail' \in Seq(CandidateStatus) /\ turns' \in Seq(CandidateStatus)
           /\ unlogged' \in Seq(CandidateStatus)
    BY <1>1, <1>3
  <1> QED
    BY <1>5, <1>6, <1>8, <1>9, <1>10, <1>11, <1>7, ReadStep

\* upsert: only a suppression whose time is up is observed afresh, and a fresh candidate is
\* not suppressed.
LEMMA ObserveKept ==
    ASSUME QueueAssumption, QueueInv, NEW r \in Reads, Observe(r)
    PROVE  QueueInv'
  <1> PICK q : q = read[r]
    OBVIOUS
  <1> PICK value : value = Observation(q.gap)
    OBVIOUS
  <1> PICK changes \in BOOLEAN : changes = (candidate = Nothing \/ candidate.status # value.status)
    OBVIOUS
  <1> PICK p : p = [q EXCEPT !.pc = IF changes THEN "log" ELSE "cover",
                             !.said = value.status, !.next = "cover"]
    OBVIOUS
  <1>1. UNCHANGED <<order, merging, observed, trail, clock, unlogged>> /\ q.pc = "observe"
    BY DEF Observe, orderVars
  <1>2. q \in Progress /\ Promised(q) /\ candidate \in Candidate \cup {Nothing}
           /\ trail \in Seq(CandidateStatus) /\ turns \in Seq(CandidateStatus)
           /\ unlogged \in Seq(CandidateStatus)
    BY <1>1, ReadIsInProgress DEF QueueInv, QueueTypeOK
  <1>3. candidate' = value /\ turns' = IF changes THEN Append(turns, value.status) ELSE turns
    BY DEF Observe, Commit
  <1>4. read' = [read EXCEPT ![r] = p]
    <2>1. read \in [Reads -> Progress \cup {NoRead}]
      BY DEF QueueInv, QueueTypeOK
    <2>2. read' = [read EXCEPT ![r].pc = IF changes THEN "log" ELSE "cover",
                               ![r].said = value.status, ![r].next = "cover"]
      BY DEF Observe, Commit
    <2> QED
      BY <2>1, <2>2
  <1>5. value \in Candidate /\ (value.status = "suppressed" => value = candidate)
    <2>1. CASE value = candidate /\ candidate # Nothing
      BY <1>2, <2>1
    <2>2. CASE value = [status |-> FreshStatus(q.gap), until |-> Nothing]
      BY <2>2 DEF FreshStatus, Candidate, CandidateStatus
    <2> QED
      BY <2>1, <2>2 DEF Observation
  <1>6. value.status \in CandidateStatus
    BY <1>5 DEF Candidate
  <1>7. p \in Progress /\ p.said = value.status /\ p.next = "cover"
           /\ p.pc = (IF changes THEN "log" ELSE "cover")
           /\ p.remaining = q.remaining /\ p.eta = q.eta
    BY <1>2, <1>6 DEF Progress
  <1>8. Promised(p)
    BY <1>2, <1>6, <1>7 DEF Promised
  <1>9. SuppressionIsBacked'
           /\ (candidate # Nothing /\ candidate.status = "suppressed" => candidate.until \in Nat)'
    <2>1. CASE value = candidate
      BY <1>1, <1>3, <2>1, CandidateKept
    <2>2. CASE value.status # "suppressed"
      BY <1>3, <2>2 DEF SuppressionIsBacked
    <2> QED
      BY <1>5, <2>1, <2>2
  <1>10. OneEntryPerTransition' /\ turns' \in Seq(CandidateStatus)
    <2>1. CASE changes
      <3>1. turns' = Append(turns, value.status) /\ p.pc = "log" /\ UNCHANGED <<trail, unlogged>>
        BY <1>1, <1>3, <1>7, <2>1
      <3>2. turns' \in Seq(CandidateStatus)
        BY <1>2, <1>6, <3>1
      <3>3. read[r].pc # "log"
        BY <1>1
      <3>4. OneEntryPerTransition'
        BY <1>4, <1>6, <1>7, <3>1, <3>3, TransitionKept
      <3> QED
        BY <3>2, <3>4
    <2>2. CASE ~ changes
      <3>1. turns' = turns /\ p.pc # "log" /\ UNCHANGED <<trail, unlogged>>
        BY <1>1, <1>3, <1>7, <2>2
      <3> QED
        BY <1>1, <1>2, <1>4, <3>1, QuietKept
    <2> QED
      BY <2>1, <2>2
  <1> QED
    BY <1>1, <1>2, <1>3, <1>4, <1>5, <1>7, <1>8, <1>9, <1>10, ReadStep

\* suppress: the units that cover the gap were promised by an observed event, whose eta is
\* the suppression's end.
LEMMA SuppressKept ==
    ASSUME QueueAssumption, QueueInv, NEW r \in Reads, Suppress(r)
    PROVE  QueueInv'
  <1> PICK q : q = read[r]
    OBVIOUS
  <1> PICK end : end = IF q.eta = Nothing THEN clock + 1 ELSE q.eta
    OBVIOUS
  <1> PICK value : value = [status |-> "suppressed", until |-> end]
    OBVIOUS
  <1> PICK p : p = [q EXCEPT !.pc = "log", !.said = "suppressed", !.next = "end"]
    OBVIOUS
  <1>1. UNCHANGED <<order, merging, observed, trail, clock, unlogged>> /\ q.pc = "cover"
           /\ q.gap.units > 0 /\ q.remaining >= q.gap.units
    BY DEF Suppress, Covered, orderVars
  <1>2. q \in Progress /\ Promised(q)
           /\ trail \in Seq(CandidateStatus) /\ turns \in Seq(CandidateStatus)
           /\ unlogged \in Seq(CandidateStatus) /\ clock \in Nat
    BY <1>1, ReadIsInProgress DEF QueueInv, QueueTypeOK, QueueAssumption
  <1>3. candidate' = value /\ turns' = Append(turns, "suppressed")
    BY DEF Suppress, Commit
  <1>4. read' = [read EXCEPT ![r] = p]
    <2>1. read \in [Reads -> Progress \cup {NoRead}]
      BY DEF QueueInv, QueueTypeOK
    <2>2. read' = [read EXCEPT ![r].pc = "log", ![r].said = "suppressed", ![r].next = "end"]
      BY DEF Suppress, Commit
    <2> QED
      BY <2>1, <2>2
  <1>5. q.eta \in Nat \cup {Nothing} /\ q.gap \in Gaps /\ q.remaining \in Nat /\ q.gap.units \in Nat
    BY <1>2 DEF Progress, QueueAssumption
  <1>6. end \in Nat /\ value \in Candidate /\ value.until = end /\ "suppressed" \in CandidateStatus
    BY <1>2, <1>5 DEF Candidate, CandidateStatus
  <1>7. p \in Progress /\ p.said = "suppressed" /\ p.next = "end" /\ p.pc = "log"
           /\ p.remaining = q.remaining /\ p.eta = q.eta
    BY <1>2, <1>6 DEF Progress
  <1>8. Promised(p)
    BY <1>2, <1>6, <1>7 DEF Promised
  <1>9. SuppressionIsBacked'
    <2>1. PICK e \in observed : ShipmentOf[e].ordered >= q.remaining /\ ShipmentOf[e].eta = q.eta
      BY <1>1, <1>2, <1>5 DEF Promised
    <2>2. ShipmentOf[e].ordered \in Nat
      BY DEF QueueInv, QueueTypeOK, OrderTypeOK, QueueAssumption, ShipmentAssumption, Order
    <2>3. ShipmentOf[e].ordered >= q.gap.units
      BY <1>1, <1>5, <2>1, <2>2
    <2>4. end = ShipmentOf[e].eta \/ (ShipmentOf[e].eta = Nothing /\ end <= clock + 1)
      BY <1>2, <2>1
    <2> QED
      BY <1>1, <1>3, <1>5, <1>6, <2>3, <2>4 DEF SuppressionIsBacked
  <1>10. OneEntryPerTransition'
    BY <1>1, <1>3, <1>4, <1>6, <1>7, TransitionKept
  <1>11. candidate' \in Candidate \cup {Nothing}
           /\ (candidate # Nothing /\ candidate.status = "suppressed" => candidate.until \in Nat)'
    BY <1>3, <1>6
  <1>12. UNCHANGED <<order, merging, observed, clock>>
    BY <1>1
  <1>13. trail' \in Seq(CandidateStatus) /\ turns' \in Seq(CandidateStatus)
           /\ unlogged' \in Seq(CandidateStatus)
    BY <1>1, <1>2, <1>3, <1>6
  <1> QED
    BY <1>4, <1>7, <1>8, <1>9, <1>10, <1>11, <1>12, <1>13, ReadStep

\* history.record: the entry is the one the request owes.
LEMMA LogEntryKept ==
    ASSUME QueueAssumption, QueueInv, NEW r \in Reads, LogEntry(r)
    PROVE  QueueInv'
  <1> PICK q : q = read[r]
    OBVIOUS
  <1> PICK p : p = [q EXCEPT !.pc = q.next]
    OBVIOUS
  <1>1. UNCHANGED <<order, merging, observed, candidate, clock, turns, unlogged>> /\ q.pc = "log"
           /\ trail' = Append(trail, q.said)
    BY DEF LogEntry, orderVars
  <1>2. q \in Progress /\ Promised(q) /\ q.said \in CandidateStatus /\ q.next \in {"cover", "end"}
           /\ trail \in Seq(CandidateStatus) /\ turns \in Seq(CandidateStatus)
           /\ unlogged \in Seq(CandidateStatus)
    BY <1>1, ReadIsInProgress DEF QueueInv, QueueTypeOK, Promised
  <1>3. read' = [read EXCEPT ![r] = p]
    <2>1. read \in [Reads -> Progress \cup {NoRead}]
      BY DEF QueueInv, QueueTypeOK
    <2>2. read' = [read EXCEPT ![r].pc = q.next]
      BY DEF LogEntry
    <2> QED
      BY <2>1, <2>2
  <1>4. p \in Progress /\ p.pc # "log" /\ p.remaining = q.remaining /\ p.eta = q.eta
    BY <1>2 DEF Progress
  <1>5. Promised(p)
    BY <1>2, <1>4 DEF Promised
  <1>6. OneEntryPerTransition'
    BY <1>1, <1>2, <1>3, <1>4, EntryKept
  <1>7. candidate' \in Candidate \cup {Nothing} /\ SuppressionIsBacked'
           /\ (candidate # Nothing /\ candidate.status = "suppressed" => candidate.until \in Nat)'
    BY <1>1, CandidateKept
  <1>8. UNCHANGED <<order, merging, observed, clock>>
    BY <1>1
  <1>9. trail' \in Seq(CandidateStatus) /\ turns' \in Seq(CandidateStatus)
           /\ unlogged' \in Seq(CandidateStatus)
    BY <1>1, <1>2
  <1> QED
    BY <1>3, <1>4, <1>5, <1>6, <1>7, <1>8, <1>9, ReadStep

\* A request that answers owes no entry.
LEMMA AnswerKept ==
    ASSUME QueueAssumption, QueueInv, NEW r \in Reads, Answer(r)
    PROVE  QueueInv'
  <1>1. UNCHANGED <<order, merging, observed, candidate, trail, clock, turns, unlogged>>
           /\ read[r].pc # "log" /\ read' = [read EXCEPT ![r] = NoRead] /\ NoRead.pc # "log"
    BY DEF Answer, orderVars, NoRead
  <1>2. trail \in Seq(CandidateStatus) /\ turns \in Seq(CandidateStatus)
           /\ unlogged \in Seq(CandidateStatus)
    BY DEF QueueInv, QueueTypeOK
  <1>3. OneEntryPerTransition'
    BY <1>1, QuietKept
  <1> QED
    BY <1>1, <1>2, <1>3, CandidateKept, ReadStep

\* A request killed before it logged leaves its transition without an entry.
LEMMA DieKept ==
    ASSUME QueueAssumption, QueueInv, NEW r \in Reads, Die(r)
    PROVE  QueueInv'
  <1>1. UNCHANGED <<order, merging, observed, candidate, trail, clock, turns>>
           /\ read' = [read EXCEPT ![r] = NoRead] /\ NoRead.pc # "log" /\ read[r].pc # "none"
    BY DEF Die, orderVars, NoRead
  <1>2. trail \in Seq(CandidateStatus) /\ turns \in Seq(CandidateStatus)
           /\ unlogged \in Seq(CandidateStatus)
    BY DEF QueueInv, QueueTypeOK
  <1>3. OneEntryPerTransition' /\ unlogged' \in Seq(CandidateStatus)
    <2>1. CASE read[r].pc = "log"
      <3>1. unlogged' = Append(unlogged, read[r].said)
        BY <2>1 DEF Die
      <3>2. read[r].said \in CandidateStatus
        BY <2>1, ReadIsInProgress DEF Promised
      <3>3. unlogged' \in Seq(CandidateStatus)
        BY <1>2, <3>1, <3>2
      <3>4. \/ trail' = Append(trail, read[r].said) /\ UNCHANGED unlogged
            \/ unlogged' = Append(unlogged, read[r].said) /\ UNCHANGED trail
        BY <1>1, <3>1
      <3>5. UNCHANGED turns
        BY <1>1
      <3>6. OneEntryPerTransition'
        BY <1>1, <2>1, <3>2, <3>4, <3>5, EntryKept
      <3> QED
        BY <3>3, <3>6
    <2>2. CASE read[r].pc # "log"
      <3>1. unlogged' = unlogged
        BY <2>2 DEF Die
      <3> QED
        BY <1>1, <1>2, <2>2, <3>1, QuietKept
    <2> QED
      BY <2>1, <2>2
  <1> QED
    BY <1>1, <1>2, <1>3, CandidateKept, ReadStep

\* No order, no candidate, no request.
LEMMA QueueStarts ==
    ASSUME QueueAssumption, QueueInit
    PROVE  QueueInv
  <1>1. QueueTypeOK
    BY DEF QueueInit, OrderInit, QueueTypeOK, OrderTypeOK, QueueAssumption, Candidate
  <1>2. \A s \in CandidateStatus :
           /\ {i \in DOMAIN turns : turns[i] = s} = {} /\ {i \in DOMAIN trail : trail[i] = s} = {}
           /\ {i \in DOMAIN unlogged : unlogged[i] = s} = {}
           /\ {r \in Reads : read[r].pc = "log" /\ read[r].said = s} = {}
    BY DEF QueueInit, NoRead
  <1>3. Cardinality({}) = 0
    BY FS_EmptySet
  <1>4. OneEntryPerTransition
    <2> SUFFICES ASSUME NEW s \in CandidateStatus
                 PROVE  Count(turns, s) = Count(trail, s) + Count(unlogged, s)
                          + Cardinality({r \in Reads : read[r].pc = "log" /\ read[r].said = s})
      BY DEF OneEntryPerTransition
    <2>1. Count(turns, s) = 0 /\ Count(trail, s) = 0 /\ Count(unlogged, s) = 0
      BY <1>2, <1>3 DEF Count
    <2>2. Cardinality({r \in Reads : read[r].pc = "log" /\ read[r].said = s}) = 0
      BY <1>2, <1>3
    <2> QED
      BY <2>1, <2>2
  <1> QED
    BY <1>1, <1>4 DEF QueueInv, QueueInit, OrderInit, NewestOrderShown, Writable, SuppressionIsBacked

\* Every step keeps the invariant.
LEMMA QueueStep ==
    ASSUME QueueAssumption, QueueInv, [QueueNext]_queueVars
    PROVE  QueueInv'
  <1>1. CASE Tick
    BY <1>1, TickKept
  <1>2. ASSUME NEW e \in Shipments, Shipment(e) PROVE QueueInv'
    BY <1>2, ReadOrderKept, WriteOrderKept DEF Shipment, OrderStep
  <1>3. ASSUME NEW r \in Reads,
               Attention(r) \/ Observe(r) \/ Suppress(r) \/ LogEntry(r) \/ Answer(r) \/ Die(r)
        PROVE  QueueInv'
    BY <1>3, AttentionKept, ObserveKept, SuppressKept, LogEntryKept, AnswerKept, DieKept
  <1>4. CASE UNCHANGED queueVars
    BY <1>4 DEF queueVars, QueueInv, QueueTypeOK, OrderTypeOK, NewestOrderShown, Writable, Promised,
       SuppressionIsBacked, OneEntryPerTransition, Count
  <1> QED
    BY <1>1, <1>2, <1>3, <1>4 DEF QueueNext

\* The inductive invariant of the open orders and the reorder queue.
THEOREM QueueInvariance ==
    ASSUME QueueAssumption
    PROVE  QueueSpec => []QueueInv
  <1>1. QueueInit => QueueInv
    BY QueueStarts
  <1>2. QueueInv /\ [QueueNext]_queueVars => QueueInv'
    BY QueueStep
  <1> QED
    BY <1>1, <1>2, PTL DEF QueueSpec

\* However the reads of the attention queue and the observations of shipment events overlap
\* and die: the order shown is the newest observed and what it shows was reported; a
\* suppression rests on an observed order that covers a gap and ends at its eta; and the
\* history has one entry per transition, less those still being logged or lost with a process.
THEOREM QueueAlwaysBacked ==
    ASSUME QueueAssumption
    PROVE  QueueSpec => []QueueIsBacked
  <1>1. QueueInv => QueueIsBacked
    <2> SUFFICES ASSUME QueueInv PROVE QueueIsBacked
      OBVIOUS
    <2>1. QueueTypeOK /\ observed \subseteq Shipments
      BY DEF QueueInv, QueueTypeOK, OrderTypeOK
    <2>2. OrderIsReported
      BY <2>1 DEF QueueInv, OrderIsReported, Sourced, Reported
    <2> QED
      BY <2>1, <2>2 DEF QueueInv, QueueIsBacked
  <1> QED
    BY <1>1, QueueInvariance, PTL

-----------------------------------------------------------------------------
(* Sums over finite sets, and the quantities of stock positions. *)

\* The element a sum takes next, and one step of the sum.
Pick(S) == CHOOSE x \in S : TRUE
Added(f, g, S) == IF S = {} THEN 0 ELSE f[Pick(S)] + g[S \ {Pick(S)}]
\* The function that SumFunctionOnSet is defined by.
Sums(g, f, S) == g = [T \in SUBSET S |-> Added(f, g, T)]

\* A sum is the value of a function that takes one element after the other.
LEMMA SumIsChosen ==
    \A f, S : SumFunctionOnSet(f, S) = (CHOOSE g : Sums(g, f, S))[S]
  BY DEF SumFunctionOnSet, FoldFunctionOnSet, MapThenFoldSet, Sums, Added, Pick

\* Of some subsets of a finite set one is least.
LEMMA LeastSubset ==
    ASSUME NEW S, IsFiniteSet(S), NEW All \in SUBSET SUBSET S, All # {}
    PROVE  \E T \in All : \A U \in All : U \subseteq T => U = T
  <1>1. All \subseteq FiniteSubsetsOf(S)
    BY FS_FiniteSubsetsOfFinite
  <1>2. PICK T \in All : \A U \in All : ~ <<U, T>> \in StrictSubsetOrdering(S)
    BY <1>1, FS_StrictSubsetOrderingWellFounded, WFMin
  <1> QED
    BY <1>2 DEF StrictSubsetOrdering

\* The element that is taken next is one of the set.
LEMMA PickIsIn == \A S : S # {} => Pick(S) \in S
  BY DEF Pick

\* Two such functions agree where both are defined.
LEMMA SumsAgree ==
    ASSUME NEW f, NEW S, NEW T, NEW U, IsFiniteSet(U), U \subseteq S, U \subseteq T,
           NEW g, NEW h, Sums(g, f, S), Sums(h, f, T)
    PROVE  g[U] = h[U]
  <1> DEFINE Differ == {V \in SUBSET U : g[V] # h[V]}
  <1> SUFFICES ASSUME Differ # {} PROVE FALSE
    OBVIOUS
  <1>0. Differ \in SUBSET SUBSET U
    OBVIOUS
  <1>1. PICK V \in Differ : \A W \in Differ : W \subseteq V => W = V
    <2> HIDE DEF Differ
    <2> QED
      BY <1>0, LeastSubset
  <1>2. V \in SUBSET S /\ V \in SUBSET T
    OBVIOUS
  <1>3. g[V] = Added(f, g, V) /\ h[V] = Added(f, h, V)
    BY <1>2 DEF Sums
  <1>4. CASE V = {}
    BY <1>3, <1>4 DEF Added
  <1>5. CASE V # {}
    <2>1. Pick(V) \in V
      BY <1>5, PickIsIn
    <2>2. V \ {Pick(V)} \notin Differ
      BY <1>1, <2>1
    <2>3. g[V \ {Pick(V)}] = h[V \ {Pick(V)}]
      BY <2>2
    <2> QED
      BY <1>3, <1>5, <2>3 DEF Added
  <1> QED
    BY <1>4, <1>5

\* The function exists for every finite set.
LEMMA SumsExist ==
    ASSUME NEW f, NEW S, IsFiniteSet(S)
    PROVE  \E g : Sums(g, f, S)
  <1> DEFINE Bad == {T \in SUBSET S : ~ \E g : Sums(g, f, T)}
             Sum(T) == (CHOOSE g : Sums(g, f, T))[T]
  <1>1. CASE Bad = {}
    BY <1>1
  <1>2. CASE Bad # {}
    <2>0. Bad \in SUBSET SUBSET S
      OBVIOUS
    <2>1. PICK T \in Bad : \A U \in Bad : U \subseteq T => U = T
      <3> HIDE DEF Bad
      <3> QED
        BY <1>2, <2>0, LeastSubset
    <2>2. IsFiniteSet(T)
      BY FS_Subset
    <2> PICK g : g = [U \in SUBSET T |-> IF U = {} THEN 0 ELSE f[Pick(U)] + Sum(U \ {Pick(U)})]
      OBVIOUS
    <2>3. ASSUME NEW U \in SUBSET T, U # T PROVE g[U] = Sum(U)
      <3>0. U \notin Bad
        BY <2>1, <2>3
      <3>1. PICK h : Sums(h, f, U) /\ Sum(U) = h[U]
        BY <3>0
      <3>2. Sum(U) = Added(f, h, U)
        BY <3>1 DEF Sums
      <3>3. CASE U = {}
        BY <3>2, <3>3 DEF Added
      <3>4. CASE U # {}
        <4> PICK V : V = U \ {Pick(U)}
          OBVIOUS
        <4>1. Pick(U) \in U /\ V \subseteq U /\ V # T /\ V \in SUBSET T
          BY <2>3, <3>4, PickIsIn
        <4>0. V \notin Bad
          BY <2>1, <4>1
        <4>2. PICK k : Sums(k, f, V) /\ Sum(V) = k[V]
          BY <4>0, <4>1
        <4>3. IsFiniteSet(V)
          BY <2>2, <4>1, FS_Subset
        <4>4. k[V] = h[V]
          <5>1. V \subseteq V
            OBVIOUS
          <5> HIDE DEF Bad, Sum
          <5> QED
            BY <3>1, <4>1, <4>2, <4>3, <5>1, SumsAgree
        <4>5. Sum(U) = f[Pick(U)] + h[V]
          BY <3>2, <3>4 DEF Added
        <4>6. g[U] = f[Pick(U)] + Sum(V)
          BY <3>4
        <4> QED
          BY <4>2, <4>4, <4>5, <4>6
      <3> QED
        BY <3>3, <3>4
    <2>4. ASSUME NEW U \in SUBSET T PROVE g[U] = Added(f, g, U)
      <3>1. CASE U = {}
        BY <3>1 DEF Added
      <3>2. CASE U # {}
        <4>1. Pick(U) \in U
          BY <3>2, PickIsIn
        <4>2. U \ {Pick(U)} \in SUBSET T /\ U \ {Pick(U)} # T
          BY <4>1
        <4>3. g[U \ {Pick(U)}] = Sum(U \ {Pick(U)})
          BY <2>3, <4>2
        <4> QED
          BY <3>2, <4>3 DEF Added
      <3> QED
        BY <3>1, <3>2
    <2>5. Sums(g, f, T)
      BY <2>4 DEF Sums
    <2> QED
      BY <2>5
  <1> QED
    BY <1>1, <1>2

\* A sum over nothing is zero; any other is the element taken next and the sum of the rest.
LEMMA SumStep ==
    ASSUME NEW f, NEW S, IsFiniteSet(S)
    PROVE  /\ S = {} => SumFunctionOnSet(f, S) = 0
           /\ S # {} => SumFunctionOnSet(f, S) = f[Pick(S)] + SumFunctionOnSet(f, S \ {Pick(S)})
  <1> PICK g : g = CHOOSE h : Sums(h, f, S)
    OBVIOUS
  <1>1. Sums(g, f, S)
    BY SumsExist
  <1>2. SumFunctionOnSet(f, S) = Added(f, g, S)
    <2>1. SumFunctionOnSet(f, S) = g[S]
      BY SumIsChosen
    <2> QED
      BY <1>1, <2>1 DEF Sums
  <1>3. CASE S = {}
    BY <1>2, <1>3 DEF Added
  <1>4. CASE S # {}
    <2> PICK T : T = S \ {Pick(S)}
      OBVIOUS
    <2>1. T \subseteq S /\ T \subseteq T /\ IsFiniteSet(T)
      BY FS_Subset
    <2> PICK k : k = CHOOSE h : Sums(h, f, T)
      OBVIOUS
    <2>2. Sums(k, f, T)
      BY <2>1, SumsExist
    <2>3. SumFunctionOnSet(f, T) = k[T]
      BY SumIsChosen
    <2>4. g[T] = k[T]
      BY <1>1, <2>1, <2>2, SumsAgree
    <2> QED
      BY <1>2, <1>4, <2>3, <2>4 DEF Added
  <1> QED
    BY <1>3, <1>4

\* Sums of integers are integers, and of naturals naturals.
LEMMA SumType ==
    ASSUME NEW f, NEW S, IsFiniteSet(S), NEW Type \in {Nat, Int}, \A x \in S : f[x] \in Type
    PROVE  SumFunctionOnSet(f, S) \in Type
  <1> DEFINE Bad == {T \in SUBSET S : SumFunctionOnSet(f, T) \notin Type}
  <1> SUFFICES ASSUME Bad # {} PROVE FALSE
    OBVIOUS
  <1>1. Bad \in SUBSET SUBSET S
    OBVIOUS
  <1>2. PICK T \in Bad : \A U \in Bad : U \subseteq T => U = T
    <2> HIDE DEF Bad
    <2> QED
      BY <1>1, LeastSubset
  <1>3. IsFiniteSet(T)
    BY FS_Subset
  <1>4. T # {}
    <2>1. SumFunctionOnSet(f, {}) = 0
      BY FS_EmptySet, SumStep
    <2>2. 0 \in Type
      OBVIOUS
    <2> QED
      BY <2>1, <2>2
  <1> PICK x : x = Pick(T)
    OBVIOUS
  <1> PICK U : U = T \ {x}
    OBVIOUS
  <1>5. x \in T /\ x \in S /\ U \subseteq T /\ U # T
    BY <1>4, PickIsIn
  <1>6. U \notin Bad /\ U \in SUBSET S
    BY <1>2, <1>5
  <1>7. SumFunctionOnSet(f, U) \in Type
    BY <1>6
  <1>8. SumFunctionOnSet(f, T) = f[x] + SumFunctionOnSet(f, U)
    BY <1>3, <1>4, SumStep
  <1>9. f[x] \in Type
    BY <1>5
  <1>10. f[x] + SumFunctionOnSet(f, U) \in Type
    BY <1>7, <1>9
  <1> QED
    BY <1>8, <1>10

\* Any element may be taken first.
LEMMA SumTakes ==
    ASSUME NEW f, NEW S, IsFiniteSet(S), \A x \in S : f[x] \in Int, NEW x \in S
    PROVE  SumFunctionOnSet(f, S) = f[x] + SumFunctionOnSet(f, S \ {x})
  <1> DEFINE Apart(T, y) == SumFunctionOnSet(f, T) # f[y] + SumFunctionOnSet(f, T \ {y})
             Bad == {T \in SUBSET S : \E y \in T : Apart(T, y)}
  <1> SUFFICES ASSUME Bad # {} PROVE FALSE
    OBVIOUS
  <1>1. Bad \in SUBSET SUBSET S
    OBVIOUS
  <1>2. PICK T \in Bad : \A U \in Bad : U \subseteq T => U = T
    <2> HIDE DEF Bad
    <2> QED
      BY <1>1, LeastSubset
  <1>3. PICK y \in T : Apart(T, y)
    BY <1>2
  <1>4. IsFiniteSet(T) /\ T \subseteq S
    BY FS_Subset
  <1> PICK p : p = Pick(T)
    OBVIOUS
  <1>5. p \in T /\ SumFunctionOnSet(f, T) = f[p] + SumFunctionOnSet(f, T \ {p})
    BY <1>3, <1>4, PickIsIn, SumStep
  <1>6. p # y
    BY <1>3, <1>5
  <1>7. T \ {p} \notin Bad /\ T \ {y} \notin Bad
    BY <1>2, <1>3, <1>5
  <1>8. y \in T \ {p} /\ p \in T \ {y} /\ T \ {p} \in SUBSET S /\ T \ {y} \in SUBSET S
    BY <1>3, <1>4, <1>5, <1>6
  <1>9. SumFunctionOnSet(f, T \ {p}) = f[y] + SumFunctionOnSet(f, (T \ {p}) \ {y})
           /\ SumFunctionOnSet(f, T \ {y}) = f[p] + SumFunctionOnSet(f, (T \ {y}) \ {p})
    BY <1>7, <1>8
  <1>10. (T \ {p}) \ {y} = (T \ {y}) \ {p}
    OBVIOUS
  <1> PICK rest : rest = SumFunctionOnSet(f, (T \ {y}) \ {p})
    OBVIOUS
  <1>11. rest \in Int
    <2>1. IsFiniteSet((T \ {y}) \ {p})
      BY <1>4, FS_Subset
    <2>2. \A z \in (T \ {y}) \ {p} : f[z] \in Int
      BY <1>4
    <2> QED
      BY <2>1, <2>2, SumType
  <1>12. f[p] \in Int /\ f[y] \in Int
    BY <1>3, <1>4, <1>5
  <1>13. SumFunctionOnSet(f, T) = f[p] + (f[y] + rest) /\ SumFunctionOnSet(f, T \ {y}) = f[p] + rest
    BY <1>5, <1>9, <1>10
  <1>14. SumFunctionOnSet(f, T) = f[y] + SumFunctionOnSet(f, T \ {y})
    BY <1>11, <1>12, <1>13
  <1> QED
    BY <1>3, <1>14

\* A sum depends on the values of the elements it is over.
LEMMA SumSame ==
    ASSUME NEW f, NEW h, NEW S, IsFiniteSet(S), \A x \in S : f[x] = h[x]
    PROVE  SumFunctionOnSet(f, S) = SumFunctionOnSet(h, S)
  <1> DEFINE Bad == {T \in SUBSET S : SumFunctionOnSet(f, T) # SumFunctionOnSet(h, T)}
  <1> SUFFICES ASSUME Bad # {} PROVE FALSE
    OBVIOUS
  <1>1. Bad \in SUBSET SUBSET S
    OBVIOUS
  <1>2. PICK T \in Bad : \A U \in Bad : U \subseteq T => U = T
    <2> HIDE DEF Bad
    <2> QED
      BY <1>1, LeastSubset
  <1>3. IsFiniteSet(T)
    BY FS_Subset
  <1>4. T # {}
    BY <1>2, <1>3, SumStep
  <1> PICK x : x = Pick(T)
    OBVIOUS
  <1>5. x \in T /\ x \in S
    BY <1>4, PickIsIn
  <1>6. T \ {x} \notin Bad /\ T \ {x} \in SUBSET S
    BY <1>2, <1>5
  <1>7. SumFunctionOnSet(f, T) = f[x] + SumFunctionOnSet(f, T \ {x})
           /\ SumFunctionOnSet(h, T) = h[x] + SumFunctionOnSet(h, T \ {x})
    BY <1>3, <1>4, SumStep
  <1> QED
    BY <1>2, <1>5, <1>6, <1>7

\* Replacing one value changes a sum by the difference.
LEMMA SumChanges ==
    ASSUME NEW f, NEW h, NEW S, IsFiniteSet(S), NEW x \in S,
           \A y \in S : f[y] \in Int /\ h[y] \in Int,
           \A y \in S \ {x} : f[y] = h[y]
    PROVE  SumFunctionOnSet(h, S) = SumFunctionOnSet(f, S) + h[x] - f[x]
  <1> PICK rest : rest = SumFunctionOnSet(f, S \ {x})
    OBVIOUS
  <1>1. IsFiniteSet(S \ {x})
    BY FS_Subset
  <1>2. SumFunctionOnSet(h, S \ {x}) = rest
    BY <1>1, SumSame
  <1>3. rest \in Int
    <2>1. \A y \in S \ {x} : f[y] \in Int
      OBVIOUS
    <2> QED
      BY <1>1, <2>1, SumType
  <1>4. SumFunctionOnSet(f, S) = f[x] + rest /\ SumFunctionOnSet(h, S) = h[x] + rest
    <2>1. \A y \in S : f[y] \in Int
      OBVIOUS
    <2>2. \A y \in S : h[y] \in Int
      OBVIOUS
    <2>3. SumFunctionOnSet(f, S) = f[x] + rest
      BY <2>1, SumTakes
    <2>4. SumFunctionOnSet(h, S) = h[x] + SumFunctionOnSet(h, S \ {x})
      BY <2>2, SumTakes
    <2> QED
      BY <1>2, <2>3, <2>4
  <1>5. f[x] \in Int /\ h[x] \in Int
    OBVIOUS
  <1> QED
    BY <1>3, <1>4, <1>5

\* Elements without a value may be left out.
LEMMA SumLeavesOut ==
    ASSUME NEW f, NEW S, IsFiniteSet(S), \A x \in S : f[x] \in Int,
           NEW R, R \subseteq S, \A x \in S \ R : f[x] = 0
    PROVE  SumFunctionOnSet(f, S) = SumFunctionOnSet(f, R)
  <1> DEFINE Bad == {T \in SUBSET S : R \subseteq T /\ SumFunctionOnSet(f, T) # SumFunctionOnSet(f, R)}
  <1> SUFFICES ASSUME Bad # {} PROVE FALSE
    OBVIOUS
  <1>1. Bad \in SUBSET SUBSET S
    OBVIOUS
  <1>2. PICK T \in Bad : \A U \in Bad : U \subseteq T => U = T
    <2> HIDE DEF Bad
    <2> QED
      BY <1>1, LeastSubset
  <1>3. T \subseteq S /\ R \subseteq T /\ SumFunctionOnSet(f, T) # SumFunctionOnSet(f, R)
    OBVIOUS
  <1>4. PICK x \in T : x \notin R
    BY <1>3
  <1>5. T \ {x} \notin Bad
    BY <1>2
  <1>6. SumFunctionOnSet(f, T \ {x}) = SumFunctionOnSet(f, R)
    BY <1>3, <1>4, <1>5
  <1>7. IsFiniteSet(T) /\ IsFiniteSet(T \ {x})
    BY <1>3, FS_Subset
  <1>8. SumFunctionOnSet(f, T) = f[x] + SumFunctionOnSet(f, T \ {x})
    <2>1. \A y \in T : f[y] \in Int
      BY <1>3
    <2> QED
      BY <1>7, <2>1, SumTakes
  <1>9. SumFunctionOnSet(f, T \ {x}) \in Int
    <2>1. \A y \in T \ {x} : f[y] \in Int
      BY <1>3
    <2> QED
      BY <1>7, <2>1, SumType
  <1>10. f[x] = 0
    BY <1>3, <1>4
  <1> QED
    BY <1>3, <1>6, <1>8, <1>9, <1>10

\* A set of naturals.
Numbers(S) == S \subseteq Nat

\* A nonempty finite set of numbers has a greatest element.
LEMMA Greatest ==
    ASSUME NEW S, IsFiniteSet(S), S # {}, Numbers(S)
    PROVE  \E x \in S : \A y \in S : y <= x
  <1> DEFINE Above == {{z \in S : z >= x} : x \in S}
  <1>1. Above \in SUBSET SUBSET S /\ Above # {}
    OBVIOUS
  <1>2. PICK T \in Above : \A U \in Above : U \subseteq T => U = T
    <2> HIDE DEF Above
    <2> QED
      BY <1>1, LeastSubset
  <1>3. PICK x \in S : T = {z \in S : z >= x}
    OBVIOUS
  <1>4. ASSUME NEW y \in S PROVE y <= x
    <2> SUFFICES ASSUME ~ (y <= x) PROVE FALSE
      OBVIOUS
    <2> PICK U : U = {z \in S : z >= y}
      OBVIOUS
    <2>1. U \in Above
      OBVIOUS
    <2>2. \A z \in U : z \in S /\ z \in Nat /\ z >= y
      BY DEF Numbers
    <2>3. x \in Nat /\ y \in Nat
      BY DEF Numbers
    <2>4. U \subseteq T
      <3> SUFFICES ASSUME NEW z \in U PROVE z \in T
        OBVIOUS
      <3>1. z \in S /\ z \in Nat /\ z >= x
        BY <2>2, <2>3
      <3> QED
        BY <1>3, <3>1
    <2>5. x \in T /\ x \notin U
      BY <1>3, <2>3
    <2> QED
      BY <1>2, <2>1, <2>4, <2>5
  <1> QED
    BY <1>3, <1>4

\* The lesser of two integers.
LEMMA MinTwo ==
    ASSUME NEW a \in Int, NEW b \in Int
    PROVE  Min({a, b}) = IF a <= b THEN a ELSE b
  BY DEF Min

\* The greater of two integers.
LEMMA MaxTwo ==
    ASSUME NEW a \in Int, NEW b \in Int
    PROVE  Max({a, b}) = IF a >= b THEN a ELSE b
  BY DEF Max

\* What is left of each value when some units are taken in order.
Left(f, S, units, x) ==
    f[x] - Min({f[x], Max({0, units - SumFunctionOnSet(f, {y \in S : y < x})})})

\* Taking units in order takes as many as there are.
LEMMA SumLeft ==
    ASSUME NEW f, NEW h, NEW S, IsFiniteSet(S), Numbers(S), NEW units \in Nat,
           \A x \in S : f[x] \in Nat,
           \A x \in S : h[x] = Left(f, S, units, x)
    PROVE  SumFunctionOnSet(h, S) =
              SumFunctionOnSet(f, S) - Min({SumFunctionOnSet(f, S), units})
  <1> DEFINE Wrong(P) == SumFunctionOnSet(h, P) #
                 SumFunctionOnSet(f, P) - Min({SumFunctionOnSet(f, P), units})
             Closed(P) == \A x \in P, y \in S : y < x => y \in P
             Bad == {P \in SUBSET S : Closed(P) /\ Wrong(P)}
  <1>0. Closed(S)
    OBVIOUS
  <1> SUFFICES ASSUME Bad # {} PROVE FALSE
    BY <1>0
  <1>1. Bad \in SUBSET SUBSET S
    OBVIOUS
  <1>2. PICK P \in Bad : \A U \in Bad : U \subseteq P => U = P
    <2> HIDE DEF Bad
    <2> QED
      BY <1>1, LeastSubset
  <1>3. P \in SUBSET S /\ Closed(P) /\ Wrong(P)
    OBVIOUS
  <1>4. IsFiniteSet(P)
    BY <1>3, FS_Subset
  <1>5. P # {}
    <2> SUFFICES ASSUME P = {} PROVE FALSE
      OBVIOUS
    <2>1. SumFunctionOnSet(h, P) = 0 /\ SumFunctionOnSet(f, P) = 0
      BY <1>4, SumStep
    <2>2. Min({0, units}) = 0
      BY MinTwo
    <2> QED
      BY <1>3, <2>1, <2>2
  <1>6. PICK x \in P : \A y \in P : y <= x
    <2>1. Numbers(P)
      BY <1>3 DEF Numbers
    <2> QED
      BY <1>4, <1>5, <2>1, Greatest
  <1> PICK Q : Q = P \ {x}
    OBVIOUS
  <1>7. Q \subseteq S /\ IsFiniteSet(Q) /\ x \in S /\ x \in Nat
    BY <1>3, <1>4, FS_Subset DEF Numbers
  <1>8. {y \in S : y < x} = Q
    <2>1. ASSUME NEW y \in S, y < x PROVE y \in Q
      BY <1>3, <1>6, <1>7, <2>1
    <2>2. ASSUME NEW y \in Q PROVE y \in S /\ y < x
      <3>1. y \in S /\ y \in Nat /\ y <= x /\ y # x
        BY <1>3, <1>6, <1>7 DEF Numbers
      <3> QED
        BY <1>7, <3>1
    <2> QED
      BY <2>1, <2>2
  <1>9. Closed(Q)
    <2> SUFFICES ASSUME NEW y \in Q, NEW z \in S, z < y PROVE z \in Q
      OBVIOUS
    <2>1. z \in P
      BY <1>3
    <2>2. y <= x /\ y \in Nat /\ z \in Nat /\ x \in Nat
      BY <1>3, <1>6 DEF Numbers
    <2> QED
      BY <2>1, <2>2
  <1>10. ~ Wrong(Q)
    <2>1. Q \notin Bad
      BY <1>2, <1>6
    <2> QED
      BY <1>7, <1>9, <2>1
  <1> PICK s : s = SumFunctionOnSet(f, Q)
    OBVIOUS
  <1>11. s \in Nat
    <2>1. \A y \in Q : f[y] \in Nat
      BY <1>7
    <2> QED
      BY <1>7, <2>1, SumType
  <1>12. f[x] \in Nat
    BY <1>7
  <1>13. h[x] = f[x] - Min({f[x], Max({0, units - s})})
    BY <1>7, <1>8 DEF Left
  <1>14. h[x] = f[x] - (LET m == IF 0 >= units - s THEN 0 ELSE units - s
                        IN  IF f[x] <= m THEN f[x] ELSE m)
    <2> PICK m : m = Max({0, units - s})
      OBVIOUS
    <2>0. 0 \in Int /\ units - s \in Int
      BY <1>11
    <2>3. m = (IF 0 >= units - s THEN 0 ELSE units - s)
      BY <2>0, MaxTwo
    <2>1. m = (IF 0 >= units - s THEN 0 ELSE units - s) /\ m \in Nat
      BY <1>11, <2>3
    <2>2. Min({f[x], m}) = IF f[x] <= m THEN f[x] ELSE m
      <3>1. f[x] \in Int /\ m \in Int
        BY <1>12, <2>1
      <3> QED
        BY <3>1, MinTwo
    <2> QED
      BY <1>13, <2>1, <2>2
  <1>15. SumFunctionOnSet(f, P) = f[x] + s
    <2>1. \A y \in P : f[y] \in Int
      BY <1>3
    <2>2. x \in P /\ Q = P \ {x}
      BY <1>6
    <2> HIDE DEF Bad, Wrong, Closed
    <2> QED
      BY <1>4, <2>1, <2>2, SumTakes
  <1>16. \A y \in S : h[y] \in Int
    <2> SUFFICES ASSUME NEW y \in S PROVE h[y] \in Int
      OBVIOUS
    <2> PICK t : t = SumFunctionOnSet(f, {z \in S : z < y})
      OBVIOUS
    <2>1. t \in Nat
      <3>1. IsFiniteSet({z \in S : z < y})
        BY FS_Subset
      <3>2. \A z \in {w \in S : w < y} : f[z] \in Nat
        OBVIOUS
      <3> QED
        BY <3>1, <3>2, SumType
    <2>2. Max({0, units - t}) \in Int
      BY <2>1, MaxTwo
    <2>3. Min({f[y], Max({0, units - t})}) \in Int
      BY <2>2, MinTwo
    <2>4. h[y] = f[y] - Min({f[y], Max({0, units - t})})
      BY DEF Left
    <2> QED
      BY <2>3, <2>4
  <1>17. SumFunctionOnSet(h, P) = h[x] + SumFunctionOnSet(h, Q)
    <2>1. \A y \in P : h[y] \in Int
      BY <1>3, <1>16
    <2>2. x \in P /\ Q = P \ {x}
      BY <1>6
    <2> HIDE DEF Bad, Wrong, Closed
    <2> QED
      BY <1>4, <2>1, <2>2, SumTakes
  <1>18. SumFunctionOnSet(h, Q) = s - (IF s <= units THEN s ELSE units)
    <2>0. s \in Int /\ units \in Int
      BY <1>11
    <2>1. Min({s, units}) = IF s <= units THEN s ELSE units
      BY <2>0, MinTwo
    <2> QED
      BY <1>10, <2>1
  <1>19. Min({f[x] + s, units}) = IF f[x] + s <= units THEN f[x] + s ELSE units
    <2> PICK t : t = f[x] + s
      OBVIOUS
    <2>1. t \in Int /\ units \in Int
      BY <1>11, <1>12
    <2>2. Min({t, units}) = IF t <= units THEN t ELSE units
      BY <2>1, MinTwo
    <2> QED
      BY <2>2
  <1>20. SumFunctionOnSet(h, P) = (f[x] + s) - (IF f[x] + s <= units THEN f[x] + s ELSE units)
    BY <1>11, <1>12, <1>14, <1>17, <1>18
  <1> QED
    BY <1>3, <1>15, <1>19, <1>20

\* A sum is the sum over some elements and the sum over the others.
LEMMA SumSplits ==
    ASSUME NEW f, NEW S, IsFiniteSet(S), \A x \in S : f[x] \in Int, NEW R, R \subseteq S
    PROVE  SumFunctionOnSet(f, S) = SumFunctionOnSet(f, R) + SumFunctionOnSet(f, S \ R)
  <1> DEFINE Parts(T) == SumFunctionOnSet(f, R) + SumFunctionOnSet(f, T \ R)
             Bad == {T \in SUBSET S : R \subseteq T /\ SumFunctionOnSet(f, T) # Parts(T)}
  <1> SUFFICES ASSUME Bad # {} PROVE FALSE
    OBVIOUS
  <1>1. Bad \in SUBSET SUBSET S
    OBVIOUS
  <1>2. PICK T \in Bad : \A U \in Bad : U \subseteq T => U = T
    <2> HIDE DEF Bad
    <2> QED
      BY <1>1, LeastSubset
  <1>3. T \subseteq S /\ R \subseteq T /\ SumFunctionOnSet(f, T) # Parts(T)
    OBVIOUS
  <1>4. SumFunctionOnSet(f, R) \in Int
    <2>1. IsFiniteSet(R) /\ \A x \in R : f[x] \in Int
      BY FS_Subset
    <2> QED
      BY <2>1, SumType
  <1>5. T # R
    <2> SUFFICES ASSUME T = R PROVE FALSE
      OBVIOUS
    <2>1. T \ R = {}
      OBVIOUS
    <2>2. SumFunctionOnSet(f, {}) = 0
      BY FS_EmptySet, SumStep
    <2>3. SumFunctionOnSet(f, T \ R) = 0
      BY <2>1, <2>2
    <2>4. Parts(T) = SumFunctionOnSet(f, R)
      BY <1>4, <2>3
    <2> QED
      BY <1>3, <2>4
  <1>6. PICK x \in T : x \notin R
    BY <1>3, <1>5
  <1>7. SumFunctionOnSet(f, T \ {x}) = Parts(T \ {x})
    <2>1. T \ {x} \notin Bad
      BY <1>2
    <2> QED
      BY <1>3, <1>6, <2>1
  <1>8. (T \ {x}) \ R = (T \ R) \ {x}
    OBVIOUS
  <1>9. SumFunctionOnSet(f, T) = f[x] + SumFunctionOnSet(f, T \ {x})
    <2>1. IsFiniteSet(T) /\ \A y \in T : f[y] \in Int
      BY <1>3, FS_Subset
    <2> QED
      BY <2>1, SumTakes
  <1>10. SumFunctionOnSet(f, T \ R) = f[x] + SumFunctionOnSet(f, (T \ R) \ {x})
    <2>1. IsFiniteSet(T \ R) /\ (\A y \in T \ R : f[y] \in Int) /\ x \in T \ R
      BY <1>3, <1>6, FS_Subset
    <2> QED
      BY <2>1, SumTakes
  <1> PICK others : others = SumFunctionOnSet(f, (T \ R) \ {x})
    OBVIOUS
  <1>11. others \in Int
    <2>1. IsFiniteSet((T \ R) \ {x}) /\ \A y \in (T \ R) \ {x} : f[y] \in Int
      BY <1>3, FS_Subset
    <2> QED
      BY <2>1, SumType
  <1>12. f[x] \in Int
    BY <1>3
  <1>13. SumFunctionOnSet(f, T) = f[x] + (SumFunctionOnSet(f, R) + others)
    BY <1>7, <1>8, <1>9
  <1>14. Parts(T) = SumFunctionOnSet(f, R) + (f[x] + others)
    BY <1>10
  <1> QED
    BY <1>3, <1>4, <1>11, <1>12, <1>13, <1>14

\* The sum over one more element.
LEMMA SumAdds ==
    ASSUME NEW f, NEW h, NEW S, IsFiniteSet(S), NEW x, x \notin S, h[x] \in Int,
           \A y \in S : f[y] \in Int /\ h[y] = f[y]
    PROVE  SumFunctionOnSet(h, S \cup {x}) = SumFunctionOnSet(f, S) + h[x]
  <1>1. IsFiniteSet(S \cup {x}) /\ (\A y \in S \cup {x} : h[y] \in Int) /\ x \in S \cup {x}
    BY FS_AddElement
  <1>2. SumFunctionOnSet(h, S \cup {x}) = h[x] + SumFunctionOnSet(h, (S \cup {x}) \ {x})
    BY <1>1, SumTakes
  <1>3. (S \cup {x}) \ {x} = S
    OBVIOUS
  <1>6. SumFunctionOnSet(h, S \cup {x}) = h[x] + SumFunctionOnSet(h, S)
    BY <1>2, <1>3, Zenon
  <1>4. SumFunctionOnSet(h, S) = SumFunctionOnSet(f, S)
    BY SumSame
  <1>5. SumFunctionOnSet(f, S) \in Int
    BY SumType
  <1> QED
    BY <1>4, <1>5, <1>6

-----------------------------------------------------------------------------
(* The stock positions. *)

\* The quantities of a location's bins, and what they add up to.
Shelves == [Bins -> Nat \cup {Absent}]
Value(q, b) == IF q[b] = Absent THEN 0 ELSE q[b]
Values(q) == [b \in Bins |-> Value(q, b)]
Filled(q) == {b \in Bins : q[b] # Absent}
Counted(q) == SumFunctionOnSet(Values(q), Filled(q))

\* What a location holds is what its shelves add up to, before a step and after it.
LEMMA TotalIsCounted ==
    ASSUME NEW l \in Locations
    PROVE  /\ Total(l) = Counted(quantity[l]) /\ Total(l)' = Counted(quantity'[l])
           /\ Stock(l) = Values(quantity[l]) /\ Positions(l) = Filled(quantity[l])
           /\ Positions(l)' = Filled(quantity'[l])
           /\ \A b : Units(l, b) = Value(quantity[l], b)
  BY DEF Total, Counted, Stock, Positions, Units, Values, Value, Filled

\* A position without a row adds nothing.
LEMMA ShelvesCounted ==
    ASSUME InventoryAssumption, NEW q \in Shelves
    PROVE  /\ \A b \in Bins : Values(q)[b] = Value(q, b) /\ Value(q, b) \in Nat
           /\ Counted(q) = SumFunctionOnSet(Values(q), Bins)
           /\ Counted(q) \in Nat
  <1>1. \A b \in Bins : Values(q)[b] = Value(q, b) /\ Value(q, b) \in Nat
    BY DEF Values, Value, Shelves
  <1>2. IsFiniteSet(Bins)
    BY DEF InventoryAssumption
  <1>3. Counted(q) = SumFunctionOnSet(Values(q), Bins)
    <2>1. \A b \in Bins : Values(q)[b] \in Int
      BY <1>1
    <2>2. Filled(q) \subseteq Bins
      BY DEF Filled
    <2>3. \A b \in Bins \ Filled(q) : Values(q)[b] = 0
      BY DEF Filled, Values, Value
    <2>4. SumFunctionOnSet(Values(q), Bins) = SumFunctionOnSet(Values(q), Filled(q))
      BY <1>2, <2>1, <2>2, <2>3, SumLeavesOut
    <2> QED
      BY <2>4 DEF Counted
  <1>4. SumFunctionOnSet(Values(q), Bins) \in Nat
    BY <1>1, <1>2, SumType
  <1> QED
    BY <1>1, <1>3, <1>4

\* Shelves that differ in one bin.
LEMMA OneBinCounts ==
    ASSUME InventoryAssumption, NEW q \in Shelves, NEW r \in Shelves, NEW bin \in Bins,
           \A b \in Bins \ {bin} : r[b] = q[b]
    PROVE  Counted(r) = Counted(q) + Value(r, bin) - Value(q, bin)
  <1>1. IsFiniteSet(Bins)
    BY DEF InventoryAssumption
  <1> PICK f : f = Values(q)
    OBVIOUS
  <1> PICK h : h = Values(r)
    OBVIOUS
  <1>2. \A b \in Bins : f[b] = Value(q, b) /\ f[b] \in Int /\ h[b] = Value(r, b) /\ h[b] \in Int
    BY ShelvesCounted
  <1>3. \A b \in Bins \ {bin} : f[b] = h[b]
    BY <1>2 DEF Value
  <1>4. \A b \in Bins : f[b] \in Int /\ h[b] \in Int
    BY <1>2
  <1>5. SumFunctionOnSet(h, Bins) = SumFunctionOnSet(f, Bins) + h[bin] - f[bin]
    BY <1>1, <1>3, <1>4, SumChanges
  <1>6. Counted(r) = SumFunctionOnSet(h, Bins) /\ Counted(q) = SumFunctionOnSet(f, Bins)
    BY ShelvesCounted
  <1>7. f[bin] = Value(q, bin) /\ h[bin] = Value(r, bin)
    BY <1>2
  <1> QED
    BY <1>5, <1>6, <1>7

\* Writing one position.
LEMMA WritingChanges ==
    ASSUME InventoryAssumption, NEW q \in Shelves, NEW bin \in Bins, NEW units \in Nat,
           NEW r, r = [q EXCEPT ![bin] = units]
    PROVE  r \in Shelves /\ Counted(r) = Counted(q) + units - Value(q, bin)
                /\ Filled(q) \subseteq Filled(r)
  <1>1. r \in Shelves
    BY DEF Shelves
  <1>2. r[bin] = units /\ \A b \in Bins \ {bin} : r[b] = q[b]
    BY DEF Shelves
  <1>3. units # Absent
    BY DEF InventoryAssumption
  <1>4. Value(r, bin) = units
    BY <1>2, <1>3 DEF Value
  <1>5. Counted(r) = Counted(q) + Value(r, bin) - Value(q, bin)
    BY <1>1, <1>2, OneBinCounts
  <1>6. Filled(q) \subseteq Filled(r)
    BY <1>2, <1>3 DEF Filled
  <1> QED
    BY <1>1, <1>4, <1>5, <1>6

\* What a sale leaves in the rows it has locked.
Sold(q, rows, units, b) == Min({Value(q, b), Max({0, units - SumFunctionOnSet(Values(q), {c \in rows : c < b})})})

\* The shelves after a sale.
AfterSale(q, rows, units) ==
    [b \in Bins |-> IF b \in rows THEN q[b] - Sold(q, rows, units, b) ELSE q[b]]

\* A sale takes what there is of its units from the rows that it has locked.
LEMMA SellingChanges ==
    ASSUME InventoryAssumption, NEW q \in Shelves, NEW rows, rows \subseteq Filled(q),
           NEW units \in Nat,
           NEW r, r = AfterSale(q, rows, units)
    PROVE  /\ r \in Shelves /\ Filled(r) = Filled(q)
           /\ SumFunctionOnSet(Values(q), rows) \in Nat
           /\ Counted(r) = Counted(q) - Min({SumFunctionOnSet(Values(q), rows), units})
  <1>1. rows \subseteq Bins /\ \A b \in rows : q[b] # Absent /\ q[b] \in Nat /\ Value(q, b) = q[b]
    BY DEF Filled, Value, Shelves
  <1>2. IsFiniteSet(Bins)
    BY DEF InventoryAssumption
  <1>3. IsFiniteSet(rows) /\ Numbers(rows)
    <2>1. Bins \subseteq Nat
      BY DEF InventoryAssumption
    <2> QED
      BY <1>1, <1>2, <2>1, FS_Subset DEF Numbers
  <1>4. \A b \in Bins : Values(q)[b] = Value(q, b) /\ Values(q)[b] \in Nat
    BY ShelvesCounted
  <1>5. ASSUME NEW b \in rows
        PROVE  /\ q[b] - Sold(q, rows, units, b) \in Nat
               /\ q[b] - Sold(q, rows, units, b) = Left(Values(q), rows, units, b)
    <2> PICK s : s = SumFunctionOnSet(Values(q), {c \in rows : c < b})
      OBVIOUS
    <2>1. s \in Nat
      <3>1. IsFiniteSet({c \in rows : c < b})
        BY <1>3, FS_Subset
      <3>2. \A c \in {a \in rows : a < b} : Values(q)[c] \in Nat
        BY <1>1, <1>4
      <3> QED
        BY <3>1, <3>2, SumType
    <2>2. 0 \in Int /\ units - s \in Int
      BY <2>1
    <2> PICK m : m = Max({0, units - s})
      OBVIOUS
    <2>3. m = IF 0 >= units - s THEN 0 ELSE units - s
      BY <2>2, MaxTwo
    <2>4. m \in Nat
      BY <2>2, <2>3
    <2> PICK v : v = Value(q, b)
      OBVIOUS
    <2>5. v = q[b] /\ v \in Nat /\ Values(q)[b] = v
      BY <1>1, <1>4
    <2>6. v \in Int /\ m \in Int
      BY <2>4, <2>5
    <2>7. Min({v, m}) = IF v <= m THEN v ELSE m
      BY <2>6, MinTwo
    <2>8. Sold(q, rows, units, b) = Min({v, m})
      BY DEF Sold
    <2>9. Left(Values(q), rows, units, b) = v - Min({v, m})
      BY <2>5 DEF Left
    <2> QED
      BY <2>4, <2>5, <2>7, <2>8, <2>9
  <1>6. \A b \in rows : r[b] = Left(Values(q), rows, units, b) /\ r[b] \in Nat
    BY <1>1, <1>5 DEF AfterSale
  <1>7. \A b \in Bins \ rows : r[b] = q[b]
    BY DEF AfterSale
  <1>8. r \in Shelves
    <2>1. \A b \in Bins : r[b] \in Nat \cup {Absent}
      BY <1>6, <1>7 DEF Shelves
    <2>2. r = [b \in Bins |-> r[b]]
      BY DEF AfterSale
    <2> QED
      BY <2>1, <2>2 DEF Shelves
  <1>9. Absent \notin Nat
    BY DEF InventoryAssumption
  <1>10. Filled(r) = Filled(q)
    BY <1>1, <1>6, <1>7, <1>9 DEF Filled
  <1>11. \A b \in Bins : Values(r)[b] = Value(r, b) /\ Values(r)[b] \in Nat
    BY <1>8, ShelvesCounted
  <1>12. \A b \in rows : Values(r)[b] = Left(Values(q), rows, units, b)
    BY <1>1, <1>6, <1>9, <1>11 DEF Value
  <1>13. \A b \in Bins \ rows : Values(r)[b] = Values(q)[b]
    BY <1>4, <1>7, <1>11 DEF Value
  <1>14. SumFunctionOnSet(Values(r), rows) =
            SumFunctionOnSet(Values(q), rows) - Min({SumFunctionOnSet(Values(q), rows), units})
    <2>1. \A b \in rows : Values(q)[b] \in Nat
      BY <1>1, <1>4
    <2> QED
      BY <1>3, <1>12, <2>1, SumLeft
  <1>15. SumFunctionOnSet(Values(r), Bins \ rows) = SumFunctionOnSet(Values(q), Bins \ rows)
    <2>1. IsFiniteSet(Bins \ rows)
      BY <1>2, FS_Subset
    <2> QED
      BY <1>13, <2>1, SumSame
  <1>16. SumFunctionOnSet(Values(q), Bins)
            = SumFunctionOnSet(Values(q), rows) + SumFunctionOnSet(Values(q), Bins \ rows)
    <2>1. \A b \in Bins : Values(q)[b] \in Int
      BY <1>4
    <2> QED
      BY <1>1, <1>2, <2>1, SumSplits
  <1>17. SumFunctionOnSet(Values(r), Bins)
            = SumFunctionOnSet(Values(r), rows) + SumFunctionOnSet(Values(r), Bins \ rows)
    <2>1. \A b \in Bins : Values(r)[b] \in Int
      BY <1>11
    <2> QED
      BY <1>1, <1>2, <2>1, SumSplits
  <1>18. SumFunctionOnSet(Values(q), rows) \in Nat
    <2>1. \A b \in rows : Values(q)[b] \in Nat
      BY <1>1, <1>4
    <2> QED
      BY <1>3, <2>1, SumType
  <1>19. SumFunctionOnSet(Values(q), Bins \ rows) \in Nat
    <2>1. IsFiniteSet(Bins \ rows) /\ \A b \in Bins \ rows : Values(q)[b] \in Nat
      BY <1>2, <1>4, FS_Subset
    <2> QED
      BY <2>1, SumType
  <1>20. Counted(r) = SumFunctionOnSet(Values(r), Bins) /\ Counted(q) = SumFunctionOnSet(Values(q), Bins)
    BY <1>8, ShelvesCounted
  <1>21. Min({SumFunctionOnSet(Values(q), rows), units}) \in Int
    <2> PICK s : s = SumFunctionOnSet(Values(q), rows)
      OBVIOUS
    <2>1. s \in Int /\ units \in Int
      BY <1>18
    <2>2. Min({s, units}) = IF s <= units THEN s ELSE units
      BY <2>1, MinTwo
    <2> QED
      BY <2>1, <2>2
  <1>22. Counted(r) = Counted(q) - Min({SumFunctionOnSet(Values(q), rows), units})
    BY <1>14, <1>15, <1>16, <1>17, <1>18, <1>19, <1>20, <1>21
  <1> QED
    BY <1>8, <1>10, <1>18, <1>22


\* Locked rows that are still there, and the units of a sale.
CanSell(q, rows, units) == q \in Shelves /\ rows \subseteq Filled(q) /\ units \in Nat

\* The same of the shelves themselves.
LEMMA SaleShelves ==
    ASSUME InventoryAssumption, NEW q, NEW rows, NEW units, CanSell(q, rows, units)
    PROVE  /\ AfterSale(q, rows, units) \in Shelves
           /\ Filled(AfterSale(q, rows, units)) = Filled(q)
           /\ SumFunctionOnSet(Values(q), rows) \in Nat
           /\ Counted(AfterSale(q, rows, units))
                 = Counted(q) - Min({SumFunctionOnSet(Values(q), rows), units})
  <1>1. q \in Shelves /\ rows \subseteq Filled(q) /\ units \in Nat
    BY DEF CanSell
  <1> QED
    BY <1>1, SellingChanges

\* An open transaction belongs to an event without a receipt, and the rows it
\* has seen are still there.
OpenRows ==
    \A e \in Movements : txn[e] # Absent =>
        receipts[e] = Absent /\ txn[e].rows \subseteq Positions(At(e))

StockInv == StockTypeOK /\ OpenRows /\ ReceiptsBalance /\ SaleIsAccounted

\* Where the events are, and what their receipts say.
LEMMA MovementIs ==
    ASSUME InventoryAssumption, NEW e \in Movements
    PROVE  /\ At(e) \in Locations /\ MovementOf[e].bin \in Bins /\ MovementOf[e].units \in Nat
           /\ MovementOf[e].type \in {"stock_update", "sale"}
  BY DEF InventoryAssumption, At

\* Nothing that is stored is the mark of a missing row.
LEMMA AbsentIs ==
    ASSUME InventoryAssumption
    PROVE  Absent \notin Nat /\ Absent \notin Receipt /\ Absent \notin Transaction
  BY DEF InventoryAssumption

\* The sum of the differences that the receipts of a location state.
Accounted(R, receipt) == SumFunctionOnSet([e \in R |-> receipt[e].after - receipt[e].before], R)

\* The differences of a location add up to what its receipts account for.
LEMMA ReceiptsSum ==
    ASSUME NEW l
    PROVE  SumFunction(Differences(l)) = Accounted(Receipted(l), receipts)
  BY DEF SumFunction, Differences, Accounted

\* Event e gets a receipt, and the others in R keep theirs.
OneReceiptMore(R, e, old, new) ==
    /\ R \in SUBSET Movements /\ e \in Movements \ R /\ new[e] \in Receipt
    /\ \A f \in R : old[f] \in Receipt /\ new[f] = old[f]

\* One receipt more adds the difference it states.
LEMMA ReceiptsAdd ==
    ASSUME InventoryAssumption, NEW R, NEW e, NEW old, NEW new, OneReceiptMore(R, e, old, new)
    PROVE  /\ Accounted(R, old) \in Int
           /\ Accounted(R \cup {e}, new) = Accounted(R, old) + (new[e].after - new[e].before)
  <1>0. /\ R \in SUBSET Movements /\ e \in Movements \ R /\ new[e] \in Receipt
        /\ \A f \in R : old[f] \in Receipt /\ new[f] = old[f]
    BY DEF OneReceiptMore
  <1>1. IsFiniteSet(R)
    <2>1. IsFiniteSet(Movements)
      BY DEF InventoryAssumption
    <2> QED
      BY <1>0, <2>1, FS_Subset
  <1> PICK f : f = [d \in R |-> old[d].after - old[d].before]
    OBVIOUS
  <1> PICK h : h = [d \in R \cup {e} |-> new[d].after - new[d].before]
    OBVIOUS
  <1>2. \A d \in R : f[d] \in Int /\ h[d] = f[d]
    <2> SUFFICES ASSUME NEW d \in R PROVE f[d] \in Int /\ h[d] = f[d]
      OBVIOUS
    <2>1. old[d].after \in Nat /\ old[d].before \in Nat /\ new[d] = old[d]
      BY <1>0 DEF Receipt
    <2> QED
      BY <2>1
  <1>3. h[e] = new[e].after - new[e].before /\ h[e] \in Int
    <2>1. new[e].after \in Nat /\ new[e].before \in Nat
      BY <1>0 DEF Receipt
    <2> QED
      BY <2>1
  <1>4. e \notin R /\ h[e] \in Int
    BY <1>0, <1>3
  <1>5. SumFunctionOnSet(h, R \cup {e}) = SumFunctionOnSet(f, R) + h[e]
    BY <1>1, <1>2, <1>4, SumAdds
  <1>6. SumFunctionOnSet(f, R) \in Int
    <2>1. \A d \in R : f[d] \in Int
      BY <1>2
    <2> QED
      BY <1>1, <2>1, SumType
  <1>7. Accounted(R, old) = SumFunctionOnSet(f, R)
    BY DEF Accounted
  <1>8. Accounted(R \cup {e}, new) = SumFunctionOnSet(h, R \cup {e})
    BY DEF Accounted
  <1> QED
    BY <1>3, <1>5, <1>6, <1>7, <1>8

\* The differences of a location are integers, and so is their sum.
LEMMA SumDifferences ==
    ASSUME InventoryAssumption, StockTypeOK, NEW l \in Locations
    PROVE  SumFunction(Differences(l)) \in Int
  <1>1. IsFiniteSet(Receipted(l))
    <2>1. IsFiniteSet(Movements) /\ Receipted(l) \subseteq Movements
      BY DEF InventoryAssumption, Receipted
    <2> QED
      BY <2>1, FS_Subset
  <1>2. \A e \in Receipted(l) : Differences(l)[e] \in Int
    <2> SUFFICES ASSUME NEW e \in Receipted(l) PROVE Differences(l)[e] \in Int
      OBVIOUS
    <2>1. receipts[e] \in Receipt
      BY DEF Receipted, StockTypeOK
    <2>2. receipts[e].after \in Nat /\ receipts[e].before \in Nat
      BY <2>1 DEF Receipt
    <2> QED
      BY <2>2 DEF Differences
  <1>3. SumFunctionOnSet(Differences(l), Receipted(l)) \in Int
    BY <1>1, <1>2, SumType
  <1> QED
    BY <1>3 DEF SumFunction, Differences

\* The positions of a location are shelves.
LEMMA ShelvesAre ==
    ASSUME StockTypeOK, NEW l \in Locations
    PROVE  quantity[l] \in Shelves
  BY DEF StockTypeOK, Shelves

-----------------------------------------------------------------------------
\* An action that leaves quantities, receipts and writes alone disturbs no sum.
LEMMA SumsStay ==
    ASSUME ReceiptsBalance, SaleIsAccounted, UNCHANGED <<quantity, receipts, written, raced>>
    PROVE  ReceiptsBalance' /\ SaleIsAccounted'
  <1>1. \A l : Total(l)' = Total(l) /\ Receipted(l)' = Receipted(l)
               /\ SumFunction(Differences(l))' = SumFunction(Differences(l))
    BY DEF Total, Stock, Units, Positions, Receipted, Differences, SumFunction
  <1> QED
    BY <1>1 DEF ReceiptsBalance, SaleIsAccounted

\* The state begins balanced.
LEMMA StockBegins == ASSUME InventoryAssumption, StockInit PROVE StockInv
  <1>1. StockTypeOK
    <2>1. quantity \in [Locations -> [Bins -> Nat \cup {Absent}]]
      BY DEF StockInit
    <2>2. receipts \in [Movements -> Receipt \cup {Absent}] /\ txn \in [Movements -> Transaction \cup {Absent}]
      BY DEF StockInit
    <2>3. writes \in 0 .. MaxWrites
      BY DEF InventoryAssumption, StockInit
    <2>4. written \in [Locations -> Int]
      <3>1. written = [l \in Locations |-> 0]
        BY DEF StockInit
      <3> QED
        BY <3>1
    <2>5. moving \in BOOLEAN /\ raced \subseteq Movements
      <3>1. moving = FALSE /\ raced = {}
        BY DEF StockInit
      <3> QED
        BY <3>1
    <2> QED
      BY <2>1, <2>2, <2>3, <2>4, <2>5 DEF StockTypeOK
  <1>2. OpenRows /\ SaleIsAccounted
    BY DEF OpenRows, SaleIsAccounted, StockInit
  <1>3. ReceiptsBalance
    <2> SUFFICES ASSUME NEW l \in Locations PROVE Total(l) = written[l] + SumFunction(Differences(l))
      BY DEF ReceiptsBalance
    <2>1. Positions(l) = {} /\ Receipted(l) = {} /\ written[l] = 0
      BY DEF StockInit, Positions, Receipted
    <2>2. \A f : SumFunctionOnSet(f, {}) = 0
      BY FS_EmptySet, SumStep
    <2>3. Total(l) = 0
      BY <2>1, <2>2 DEF Total
    <2>4. SumFunction(Differences(l)) = 0
      BY <2>1, <2>2, ReceiptsSum DEF Accounted
    <2> QED
      BY <2>1, <2>3, <2>4
  <1> QED
    BY <1>1, <1>2, <1>3 DEF StockInv

\* Looking rows up and locking them.
LEMMA SelectKeeps ==
    ASSUME InventoryAssumption, StockInv, NEW e \in Movements, Select(e)
    PROVE  StockInv'
  <1> USE DEF StockInv
  <1>1. [rows |-> Positions(At(e)), locked |-> FALSE] \in Transaction
    BY DEF Transaction, Positions
  <1>2. StockTypeOK'
    BY <1>1 DEF Select, StockTypeOK
  <1>3. \A l : Positions(l)' = Positions(l)
    BY DEF Select, Positions
  <1>4. OpenRows'
    <2> SUFFICES ASSUME NEW f \in Movements, txn'[f] # Absent
                 PROVE  receipts'[f] = Absent /\ txn'[f].rows \subseteq Positions(At(f))'
      BY DEF OpenRows
    <2>1. txn' = [txn EXCEPT ![e] = [rows |-> Positions(At(e)), locked |-> FALSE]]
             /\ receipts' = receipts /\ receipts[e] = Absent
      BY DEF Select
    <2>2. CASE f = e
      <3>1. txn'[f] = [rows |-> Positions(At(e)), locked |-> FALSE]
        BY <2>1, <2>2 DEF StockTypeOK
      <3>2. txn'[f].rows = Positions(At(e))
        BY <3>1
      <3>3. Positions(At(f))' = Positions(At(e))
        BY <1>3, <2>2 DEF At
      <3> QED
        BY <2>1, <2>2, <3>2, <3>3
    <2>3. CASE f # e
      <3>1. txn'[f] = txn[f]
        BY <2>1, <2>3 DEF StockTypeOK
      <3>2. Positions(At(f))' = Positions(At(f))
        BY <1>3 DEF At
      <3> QED
        BY <2>1, <3>1, <3>2 DEF OpenRows
    <2> QED
      BY <2>2, <2>3
  <1>5. ReceiptsBalance' /\ SaleIsAccounted'
    BY SumsStay DEF Select
  <1> QED
    BY <1>2, <1>4, <1>5

\* Getting the locks changes no row.
LEMMA LockRowsKeeps ==
    ASSUME InventoryAssumption, StockInv, NEW e \in Movements, LockRows(e)
    PROVE  StockInv'
  <1> USE DEF StockInv
  <1>1. txn[e] \in Transaction /\ txn[e] # Absent
    BY DEF LockRows, StockTypeOK
  <1>2. txn' = [txn EXCEPT ![e] = [txn[e] EXCEPT !.locked = TRUE]]
    BY DEF LockRows
  <1> PICK t : t = [txn[e] EXCEPT !.locked = TRUE]
    OBVIOUS
  <1>3. t \in Transaction /\ t.rows = txn[e].rows
    BY <1>1 DEF Transaction
  <1>4. txn' = [txn EXCEPT ![e] = t]
    BY <1>2
  <1>5. StockTypeOK'
    BY <1>3, <1>4 DEF LockRows, StockTypeOK
  <1>6. OpenRows'
    <2> SUFFICES ASSUME NEW f \in Movements, txn'[f] # Absent
                 PROVE  receipts'[f] = Absent /\ txn'[f].rows \subseteq Positions(At(f))'
      BY DEF OpenRows
    <2>1. txn'[f].rows = txn[f].rows /\ txn[f] # Absent
      BY <1>1, <1>3, <1>4 DEF StockTypeOK
    <2>2. Positions(At(f))' = Positions(At(f)) /\ receipts' = receipts
      BY DEF LockRows, Positions, At
    <2> QED
      BY <2>1, <2>2 DEF OpenRows
  <1>7. ReceiptsBalance' /\ SaleIsAccounted'
    BY SumsStay DEF LockRows
  <1> QED
    BY <1>5, <1>6, <1>7

\* A crash rolls the open transactions back.
LEMMA CrashKeeps ==
    ASSUME InventoryAssumption, StockInv, Crash
    PROVE  StockInv'
  <1> USE DEF StockInv
  <1>1. StockTypeOK'
    BY DEF Crash, StockTypeOK
  <1>2. OpenRows'
    BY DEF Crash, OpenRows
  <1>3. ReceiptsBalance' /\ SaleIsAccounted'
    BY SumsStay DEF Crash
  <1> QED
    BY <1>1, <1>2, <1>3

\* Writing a position by hand is in the ledger of what was written.
LEMMA OverwriteKeeps ==
    ASSUME InventoryAssumption, StockInv, NEW l \in Locations, NEW b \in Bins, NEW units \in Nat,
           Overwrite(l, b, units), moving' \in BOOLEAN
    PROVE  StockInv'
  <1> USE DEF StockInv
  <1> PICK r : r = [quantity[l] EXCEPT ![b] = units]
    OBVIOUS
  <1>1. quantity[l] \in Shelves
    BY ShelvesAre
  <1>2. r \in Shelves /\ Counted(r) = Counted(quantity[l]) + units - Value(quantity[l], b)
           /\ Filled(quantity[l]) \subseteq Filled(r)
    BY <1>1, WritingChanges
  <1>3. quantity' = [quantity EXCEPT ![l] = r]
    BY DEF Overwrite
  <1>4. quantity'[l] = r /\ \A m \in Locations \ {l} : quantity'[m] = quantity[m]
    BY <1>3 DEF StockTypeOK
  <1>5. Counted(quantity[l]) \in Nat /\ Value(quantity[l], b) \in Nat
    BY <1>1, ShelvesCounted
  <1>6. written' = [written EXCEPT ![l] = @ + units - Value(quantity[l], b)]
    BY TotalIsCounted DEF Overwrite
  <1>7. written[l] \in Int /\ written'[l] = written[l] + units - Value(quantity[l], b)
           /\ \A m \in Locations \ {l} : written'[m] = written[m]
    BY <1>6 DEF StockTypeOK
  <1>8. StockTypeOK'
    <2>1. quantity' \in [Locations -> [Bins -> Nat \cup {Absent}]]
      BY <1>2, <1>3 DEF StockTypeOK, Shelves
    <2>2. written' \in [Locations -> Int]
      <3>1. written[l] + units - Value(quantity[l], b) \in Int
        BY <1>5, <1>7
      <3> QED
        BY <1>6, <3>1 DEF StockTypeOK
    <2>3. writes' \in 0 .. MaxWrites
      BY DEF Overwrite, StockTypeOK, InventoryAssumption
    <2>4. UNCHANGED <<receipts, txn, raced>>
      BY DEF Overwrite
    <2> QED
      BY <2>1, <2>2, <2>3, <2>4 DEF StockTypeOK
  <1>9. OpenRows'
    <2> SUFFICES ASSUME NEW f \in Movements, txn'[f] # Absent
                 PROVE  receipts'[f] = Absent /\ txn'[f].rows \subseteq Positions(At(f))'
      BY DEF OpenRows
    <2>1. UNCHANGED <<receipts, txn>> /\ At(f) \in Locations
      BY MovementIs DEF Overwrite
    <2>2. Positions(At(f)) = Filled(quantity[At(f)]) /\ Positions(At(f))' = Filled(quantity'[At(f)])
      BY <2>1, TotalIsCounted DEF At
    <2>3. Filled(quantity[At(f)]) \subseteq Filled(quantity'[At(f)])
      BY <1>2, <1>4, <2>1
    <2> QED
      BY <2>1, <2>2, <2>3 DEF OpenRows
  <1>10. ReceiptsBalance'
    <2> SUFFICES ASSUME NEW m \in Locations, (Receipted(m) \cap raced = {})'
                 PROVE  Total(m)' = written'[m] + SumFunction(Differences(m))'
      BY DEF ReceiptsBalance
    <2>1. Receipted(m)' = Receipted(m) /\ SumFunction(Differences(m))' = SumFunction(Differences(m))
             /\ raced' = raced
      BY DEF Overwrite, Receipted, Differences, SumFunction
    <2>2. Total(m) = written[m] + SumFunction(Differences(m))
      BY <2>1 DEF ReceiptsBalance
    <2>3. Total(m) = Counted(quantity[m]) /\ Total(m)' = Counted(quantity'[m])
      BY TotalIsCounted
    <2> PICK d : d = SumFunction(Differences(m))
      OBVIOUS
    <2>4. CASE m # l
      BY <1>4, <1>7, <2>1, <2>2, <2>3, <2>4
    <2>5. CASE m = l
      <3>1. d \in Int
        BY SumDifferences
      <3>2. Counted(r) = written'[l] + d
        BY <1>2, <1>5, <1>7, <2>2, <2>3, <2>5, <3>1
      <3> QED
        BY <1>4, <2>1, <2>3, <2>5, <3>2
    <2> QED
      BY <2>4, <2>5
  <1>11. SaleIsAccounted'
    BY DEF SaleIsAccounted, Overwrite
  <1> QED
    BY <1>8, <1>9, <1>10, <1>11

-----------------------------------------------------------------------------
(* The two commits: new shelves r, and a receipt whose difference is theirs. *)

\* What a commit of event e at its location changes.
Commits(e, r, receipt) ==
    /\ txn[e] # Absent
    /\ quantity' = [quantity EXCEPT ![At(e)] = r]
    /\ receipts' = [receipts EXCEPT ![e] = receipt]
    /\ txn' = [txn EXCEPT ![e] = Absent]
    /\ UNCHANGED <<moving, written, writes>>
    /\ raced \subseteq raced' /\ raced' \subseteq Movements

\* The receipt of a sale says where its units went.
SaleExplained(e, receipt) ==
    MovementOf[e].type = "sale" =>
        /\ receipt.before - receipt.after + receipt.unfulfilled = MovementOf[e].units
        /\ receipt.unfulfilled > 0 => receipt.after = 0

\* A commit whose receipt states what it changed keeps the balance.
LEMMA CommitKeeps ==
    ASSUME InventoryAssumption, StockInv, NEW e \in Movements, NEW r \in Shelves,
           NEW receipt \in Receipt, Commits(e, r, receipt),
           Filled(quantity[At(e)]) \subseteq Filled(r),
           e \notin raced' =>
               Counted(r) = Counted(quantity[At(e)]) + (receipt.after - receipt.before),
           SaleExplained(e, receipt)
    PROVE  StockInv'
  <1> USE DEF StockInv
  <1> PICK l : l = At(e)
    OBVIOUS
  <1>1. l \in Locations /\ quantity[l] \in Shelves
    BY MovementIs, ShelvesAre
  <1>2. quantity'[l] = r /\ \A m \in Locations \ {l} : quantity'[m] = quantity[m]
    BY <1>1 DEF Commits, StockTypeOK
  <1>3. receipts'[e] = receipt /\ \A f \in Movements \ {e} : receipts'[f] = receipts[f]
    BY DEF Commits, StockTypeOK
  <1>4. txn'[e] = Absent /\ \A f \in Movements \ {e} : txn'[f] = txn[f]
    BY DEF Commits, StockTypeOK
  <1>5. receipts[e] = Absent /\ receipt # Absent
    BY AbsentIs DEF Commits, OpenRows
  <1>6. StockTypeOK'
    <2>1. quantity' \in [Locations -> [Bins -> Nat \cup {Absent}]]
      <3>1. quantity' = [quantity EXCEPT ![At(e)] = r]
        BY DEF Commits
      <3> QED
        BY <3>1 DEF StockTypeOK, Shelves
    <2>2. receipts' \in [Movements -> Receipt \cup {Absent}]
      <3>1. receipts' = [receipts EXCEPT ![e] = receipt]
        BY DEF Commits
      <3> QED
        BY <3>1 DEF StockTypeOK
    <2>3. txn' \in [Movements -> Transaction \cup {Absent}]
      <3>1. txn' = [txn EXCEPT ![e] = Absent]
        BY DEF Commits
      <3> QED
        BY <3>1 DEF StockTypeOK
    <2>4. UNCHANGED <<moving, written, writes>> /\ raced' \subseteq Movements
      BY DEF Commits
    <2> QED
      BY <2>1, <2>2, <2>3, <2>4 DEF StockTypeOK
  <1>7. OpenRows'
    <2> SUFFICES ASSUME NEW f \in Movements, txn'[f] # Absent
                 PROVE  receipts'[f] = Absent /\ txn'[f].rows \subseteq Positions(At(f))'
      BY DEF OpenRows
    <2>1. f # e /\ txn'[f] = txn[f] /\ receipts'[f] = receipts[f] /\ At(f) \in Locations
      BY <1>3, <1>4, MovementIs
    <2>2. Positions(At(f)) = Filled(quantity[At(f)]) /\ Positions(At(f))' = Filled(quantity'[At(f)])
      BY <2>1, TotalIsCounted DEF At
    <2>3. Filled(quantity[At(f)]) \subseteq Filled(quantity'[At(f)])
      BY <1>2, <2>1
    <2> QED
      BY <2>1, <2>2, <2>3 DEF OpenRows
  <1>8. ReceiptsBalance'
    <2> SUFFICES ASSUME NEW m \in Locations, (Receipted(m) \cap raced = {})'
                 PROVE  Total(m)' = written'[m] + SumFunction(Differences(m))'
      BY DEF ReceiptsBalance
    <2>1. Total(m) = Counted(quantity[m]) /\ Total(m)' = Counted(quantity'[m])
      BY TotalIsCounted
    <2>2. written' = written /\ raced \subseteq raced'
      BY DEF Commits
    <2>3. CASE m # l
      <3>1. Receipted(m)' = Receipted(m)
        BY <1>3, <2>3 DEF Receipted, At
      <3>2. \A f \in Receipted(m) : receipts'[f] = receipts[f]
        BY <1>3, <2>3 DEF Receipted, At
      <3>3. Differences(m)' = Differences(m)
        BY <3>1, <3>2 DEF Differences
      <3>4. SumFunction(Differences(m))' = SumFunction(Differences(m))
        BY <3>3 DEF SumFunction
      <3>5. Total(m) = written[m] + SumFunction(Differences(m))
        BY <2>2, <3>1 DEF ReceiptsBalance
      <3> QED
        BY <1>2, <2>1, <2>2, <2>3, <3>4, <3>5
    <2>4. CASE m = l
      <3>1. Receipted(l)' = Receipted(l) \cup {e}
        BY <1>3, <1>5 DEF Receipted, At
      <3>2. Receipted(l) \in SUBSET Movements /\ e \in Movements \ Receipted(l)
        BY <1>5 DEF Receipted
      <3>3. \A f \in Receipted(l) : receipts[f] \in Receipt /\ receipts'[f] = receipts[f]
        BY <1>3, <3>2 DEF Receipted, StockTypeOK
      <3> PICK R : R = Receipted(l)
        OBVIOUS
      <3>4. Accounted(R, receipts) \in Int
               /\ Accounted(R \cup {e}, receipts') = Accounted(R, receipts) + (receipt.after - receipt.before)
        <4> PICK old : old = receipts
          OBVIOUS
        <4> PICK new : new = receipts'
          OBVIOUS
        <4>1. new[e] \in Receipt /\ new[e] = receipt
          BY <1>3
        <4>2. OneReceiptMore(R, e, old, new)
          BY <3>2, <3>3, <4>1 DEF OneReceiptMore
        <4>3. Accounted(R, old) \in Int
                 /\ Accounted(R \cup {e}, new) = Accounted(R, old) + (new[e].after - new[e].before)
          BY <4>2, ReceiptsAdd
        <4> QED
          BY <4>1, <4>3
      <3>5. SumFunction(Differences(l)) = Accounted(R, receipts)
        BY ReceiptsSum
      <3>6. SumFunction(Differences(l))' = Accounted(R \cup {e}, receipts')
        BY <3>1 DEF SumFunction, Differences, Accounted
      <3>7. e \notin raced' /\ Receipted(l) \cap raced = {}
        BY <2>2, <2>4, <3>1
      <3>8. Counted(quantity[l]) = written[l] + Accounted(R, receipts)
        BY <1>1, <2>1, <2>4, <3>5, <3>7 DEF ReceiptsBalance
      <3>9. Counted(r) = Counted(quantity[l]) + (receipt.after - receipt.before)
        BY <3>7
      <3>10. receipt.after - receipt.before \in Int /\ written[l] \in Int
        BY <1>1 DEF Receipt, StockTypeOK
      <3>11. Counted(r) = written[l] + Accounted(R \cup {e}, receipts')
        BY <3>4, <3>8, <3>9, <3>10
      <3> QED
        BY <1>2, <1>1, <2>1, <2>2, <2>4, <3>6, <3>11
    <2> QED
      BY <2>3, <2>4
  <1>9. SaleIsAccounted'
    <2> SUFFICES ASSUME NEW f \in Movements, receipts'[f] # Absent, MovementOf[f].type = "sale"
                 PROVE  /\ receipts'[f].before - receipts'[f].after + receipts'[f].unfulfilled
                              = MovementOf[f].units
                        /\ receipts'[f].unfulfilled > 0 => receipts'[f].after = 0
      BY DEF SaleIsAccounted
    <2>1. CASE f = e
      BY <1>3, <2>1 DEF SaleExplained
    <2>2. CASE f # e
      BY <1>3, <2>2 DEF SaleIsAccounted
    <2> QED
      BY <2>1, <2>2
  <1> QED
    BY <1>6, <1>7, <1>8, <1>9

\* A count replaces what its bin had; its receipt says so unless the row was
\* inserted after the count had looked.
LEMMA CommitStockKeeps ==
    ASSUME InventoryAssumption, StockInv, NEW e \in Movements, CommitStock(e)
    PROVE  StockInv'
  <1> PICK l : l = At(e)
    OBVIOUS
  <1> PICK bin : bin = MovementOf[e].bin
    OBVIOUS
  <1> PICK units : units = MovementOf[e].units
    OBVIOUS
  <1>0. StockTypeOK /\ OpenRows
    BY DEF StockInv
  <1>1. l \in Locations /\ bin \in Bins /\ units \in Nat /\ quantity[l] \in Shelves
    BY <1>0, MovementIs, ShelvesAre
  <1> PICK r : r = [quantity[l] EXCEPT ![bin] = units]
    OBVIOUS
  <1>2. r \in Shelves /\ Counted(r) = Counted(quantity[l]) + units - Value(quantity[l], bin)
           /\ Filled(quantity[l]) \subseteq Filled(r)
    BY <1>1, WritingChanges
  <1>3. quantity' = [quantity EXCEPT ![l] = r]
    BY DEF CommitStock
  <1>4. txn[e].rows \subseteq Filled(quantity[l]) /\ txn[e] # Absent
    BY <1>0, <1>1, TotalIsCounted DEF CommitStock, OpenRows
  <1>5. Seen(e) = SumFunctionOnSet(Values(quantity[l]), txn[e].rows)
    BY <1>1, TotalIsCounted DEF Seen
  <1>6. \A b \in Bins : Values(quantity[l])[b] = Value(quantity[l], b) /\ Value(quantity[l], b) \in Nat
    BY <1>1, ShelvesCounted
  <1>7. txn[e].rows \subseteq Bins /\ IsFiniteSet(txn[e].rows)
    <2>1. IsFiniteSet(Bins)
      BY DEF InventoryAssumption
    <2> QED
      BY <1>4, <2>1, FS_Subset DEF Filled
  <1>8. Previous(e) = IF bin \in txn[e].rows THEN Value(quantity[l], bin) ELSE 0
    BY <1>1, TotalIsCounted DEF Previous
  <1>9. Seen(e) \in Nat /\ Previous(e) \in Nat /\ Previous(e) <= Seen(e)
    <2> PICK f : f = Values(quantity[l])
      OBVIOUS
    <2> PICK R : R = txn[e].rows
      OBVIOUS
    <2>1. \A b \in R : f[b] \in Nat
      BY <1>6, <1>7
    <2>2. SumFunctionOnSet(f, R) \in Nat
      BY <1>7, <2>1, SumType
    <2>3. CASE bin \notin R
      BY <1>5, <1>8, <2>2, <2>3
    <2>4. CASE bin \in R
      <3>1. IsFiniteSet(R) /\ \A b \in R : f[b] \in Int
        BY <1>7, <2>1
      <3>2. SumFunctionOnSet(f, R) = f[bin] + SumFunctionOnSet(f, R \ {bin})
        BY <2>4, <3>1, SumTakes
      <3>3. SumFunctionOnSet(f, R \ {bin}) \in Nat
        <4>1. IsFiniteSet(R \ {bin}) /\ \A b \in R \ {bin} : f[b] \in Nat
          BY <2>1, <3>1, FS_Subset
        <4> QED
          BY <4>1, SumType
      <3>4. f[bin] \in Nat /\ Previous(e) = f[bin]
        BY <1>6, <1>8, <2>1, <2>4, <1>1
      <3> QED
        BY <1>5, <3>2, <3>3, <3>4
    <2> QED
      BY <2>3, <2>4
  <1> PICK receipt : receipt = [before |-> Seen(e), after |-> Seen(e) - Previous(e) + units, unfulfilled |-> 0]
    OBVIOUS
  <1>10. receipt \in Receipt /\ receipt.after - receipt.before = units - Previous(e)
    <2>1. receipt.before = Seen(e) /\ receipt.after = Seen(e) - Previous(e) + units
      OBVIOUS
    <2>2. Seen(e) - Previous(e) + units \in Nat
      BY <1>1, <1>9
    <2>3. receipt \in Receipt
      BY <1>9, <2>2 DEF Receipt
    <2> QED
      BY <1>1, <1>9, <2>1, <2>3
  <1>11. Commits(e, r, receipt)
    <2>1. raced \subseteq raced' /\ raced' \subseteq Movements
      BY <1>0 DEF CommitStock, StockTypeOK
    <2> QED
      BY <1>3, <2>1 DEF CommitStock, Commits
  <1>12. e \notin raced' => Previous(e) = Value(quantity[l], bin)
    <2>1. e \notin raced' => bin \in txn[e].rows \/ quantity[l][bin] = Absent
      BY DEF CommitStock
    <2> QED
      BY <1>8, <2>1 DEF Value
  <1>13. e \notin raced' => Counted(r) = Counted(quantity[l]) + (receipt.after - receipt.before)
    <2>1. Counted(quantity[l]) \in Nat /\ Value(quantity[l], bin) \in Nat
      BY <1>1, ShelvesCounted
    <2> QED
      BY <1>1, <1>2, <1>10, <1>12, <2>1
  <1>14. SaleExplained(e, receipt)
    BY DEF SaleExplained, CommitStock
  <1> QED
    BY <1>2, <1>10, <1>11, <1>13, <1>14, CommitKeeps

\* The lesser of two numbers.
Smaller(s, units) == IF s <= units THEN s ELSE units

\* The units a sale takes, and those it does not find.
LEMMA SoldUnits ==
    ASSUME NEW s \in Nat, NEW units \in Nat
    PROVE  /\ Smaller(s, units) \in Nat
           /\ s - Smaller(s, units) \in Nat /\ units - Smaller(s, units) \in Nat
           /\ s - (s - Smaller(s, units)) + (units - Smaller(s, units)) = units
           /\ units - Smaller(s, units) > 0 => s - Smaller(s, units) = 0
           /\ Min({s, units}) = Smaller(s, units)
  <1>1. s \in Int /\ units \in Int
    OBVIOUS
  <1>2. Min({s, units}) = IF s <= units THEN s ELSE units
    BY <1>1, MinTwo
  <1> QED
    BY <1>2 DEF Smaller

\* The receipt of a sale that found s of its units.
SaleReceipt(s, units) ==
    [before |-> s, after |-> s - Smaller(s, units), unfulfilled |-> units - Smaller(s, units)]

\* It says where the units went.
LEMMA SaleReceiptStates ==
    ASSUME NEW s \in Nat, NEW units \in Nat
    PROVE  /\ SaleReceipt(s, units) \in Receipt
           /\ SaleReceipt(s, units).after - SaleReceipt(s, units).before = 0 - Smaller(s, units)
           /\ SaleReceipt(s, units).before - SaleReceipt(s, units).after
                 + SaleReceipt(s, units).unfulfilled = units
           /\ SaleReceipt(s, units).unfulfilled > 0 => SaleReceipt(s, units).after = 0
  <1> PICK sold : sold = Smaller(s, units)
    OBVIOUS
  <1>1. sold \in Nat /\ s - sold \in Nat /\ units - sold \in Nat
    BY SoldUnits
  <1>2. /\ SaleReceipt(s, units).before = s /\ SaleReceipt(s, units).after = s - sold
        /\ SaleReceipt(s, units).unfulfilled = units - sold
    BY DEF SaleReceipt
  <1>3. SaleReceipt(s, units) \in Receipt
    BY <1>1 DEF SaleReceipt, Receipt
  <1>4. units - sold > 0 => s - sold = 0
    BY SoldUnits
  <1> QED
    BY <1>1, <1>2, <1>3, <1>4

\* A sale takes what it finds, and its receipt says what it took.
LEMMA CommitSaleKeeps ==
    ASSUME InventoryAssumption, StockInv, NEW e \in Movements, CommitSale(e)
    PROVE  StockInv'
  <1> PICK l : l = At(e)
    OBVIOUS
  <1> PICK units : units = MovementOf[e].units
    OBVIOUS
  <1> PICK R : R = txn[e].rows
    OBVIOUS
  <1> PICK q : q = quantity[l]
    OBVIOUS
  <1>0. StockTypeOK /\ OpenRows
    BY DEF StockInv
  <1>1. l \in Locations /\ units \in Nat /\ q \in Shelves
    BY <1>0, MovementIs, ShelvesAre
  <1>2. R \subseteq Filled(q) /\ txn[e] # Absent
    BY <1>0, <1>1, TotalIsCounted DEF CommitSale, OpenRows
  <1> PICK r : r = AfterSale(q, R, units)
    OBVIOUS
  <1> PICK s : s = SumFunctionOnSet(Values(q), R)
    OBVIOUS
  <1>3. r \in Shelves /\ Filled(r) = Filled(q) /\ s \in Nat /\ Counted(r) = Counted(q) - Min({s, units})
    <2>1. CanSell(q, R, units)
      BY <1>1, <1>2 DEF CanSell
    <2> QED
      BY <2>1, SaleShelves
  <1>4. Seen(e) = s
    BY <1>1, TotalIsCounted DEF Seen
  <1>5. \A b : Taken(e, b) = Sold(q, R, units, b)
    BY <1>1, TotalIsCounted DEF Taken, Before, Sold
  <1>6. quantity' = [quantity EXCEPT ![l] = r]
    <2>1. quantity' = [quantity EXCEPT ![l] =
             [b \in Bins |-> IF b \in R THEN q[b] - Taken(e, b) ELSE q[b]]]
      BY DEF CommitSale
    <2>2. r = [b \in Bins |-> IF b \in R THEN q[b] - Taken(e, b) ELSE q[b]]
      BY <1>5 DEF AfterSale
    <2> QED
      BY <2>1, <2>2
  <1> PICK receipt : receipt = SaleReceipt(s, units)
    OBVIOUS
  <1>7. Min({s, units}) = Smaller(s, units) /\ Smaller(s, units) \in Nat
    BY <1>1, <1>3, SoldUnits
  <1>8. /\ receipt \in Receipt
        /\ receipt.after - receipt.before = 0 - Smaller(s, units)
        /\ receipt.before - receipt.after + receipt.unfulfilled = units
        /\ receipt.unfulfilled > 0 => receipt.after = 0
    <2>1. s \in Nat /\ units \in Nat
      BY <1>1, <1>3
    <2> QED
      BY <2>1, SaleReceiptStates
  <1>10. Commits(e, r, receipt)
    <2>1. receipts' = [receipts EXCEPT ![e] = receipt]
      BY <1>4, <1>7 DEF CommitSale, SaleReceipt
    <2>2. raced \subseteq raced' /\ raced' \subseteq Movements
      BY <1>0 DEF CommitSale, StockTypeOK
    <2> QED
      BY <1>6, <2>1, <2>2 DEF CommitSale, Commits
  <1>11. Counted(r) = Counted(quantity[At(e)]) + (receipt.after - receipt.before)
    <2>1. Counted(q) \in Nat
      BY <1>1, ShelvesCounted
    <2> QED
      BY <1>3, <1>7, <1>8, <2>1
  <1>12. SaleExplained(e, receipt)
    BY <1>8 DEF SaleExplained
  <1>13. Filled(quantity[At(e)]) \subseteq Filled(r)
    BY <1>3
  <1> QED
    BY <1>3, <1>8, <1>10, <1>11, <1>12, <1>13, CommitKeeps

\* Every step of project_event, the manual route, a relocation or a crash keeps it all.
LEMMA StockStep ==
    ASSUME InventoryAssumption, StockInv, [StockNext]_stockVars PROVE StockInv'
  <1>1. CASE UNCHANGED stockVars
    <2>1. StockTypeOK'
      BY <1>1 DEF StockInv, StockTypeOK, stockVars
    <2>2. OpenRows'
      BY <1>1 DEF StockInv, OpenRows, Positions, stockVars
    <2>3. ReceiptsBalance' /\ SaleIsAccounted'
      BY <1>1, SumsStay DEF StockInv, stockVars
    <2> QED
      BY <2>1, <2>2, <2>3 DEF StockInv
  <1>2. ASSUME NEW e \in Movements, Select(e) PROVE StockInv'
    BY <1>2, SelectKeeps
  <1>3. ASSUME NEW e \in Movements, LockRows(e) PROVE StockInv'
    BY <1>3, LockRowsKeeps
  <1>4. ASSUME NEW e \in Movements, CommitStock(e) PROVE StockInv'
    BY <1>4, CommitStockKeeps
  <1>5. ASSUME NEW e \in Movements, CommitSale(e) PROVE StockInv'
    BY <1>5, CommitSaleKeeps
  <1>6. ASSUME NEW l \in Locations, NEW b \in Bins, NEW units \in 0 .. MaxQuantity,
               UpsertPosition(l, b, units)
        PROVE  StockInv'
    <2>1. units \in Nat /\ Overwrite(l, b, units) /\ moving' \in BOOLEAN
      BY <1>6 DEF UpsertPosition, InventoryAssumption, StockInv, StockTypeOK
    <2> QED
      BY <2>1, OverwriteKeeps
  <1>7. CASE EmptySource
    <2>1. Relocation.from \in Locations /\ Unassigned \in Bins /\ 0 \in Nat
      BY DEF InventoryAssumption
    <2>2. Overwrite(Relocation.from, Unassigned, 0) /\ moving' \in BOOLEAN
      BY <1>7 DEF EmptySource
    <2> QED
      BY <2>1, <2>2, OverwriteKeeps
  <1>8. CASE FillTarget
    <2>1. Relocation.to \in Locations /\ Unassigned \in Bins /\ Relocation.units \in Nat
      BY DEF InventoryAssumption
    <2>2. Overwrite(Relocation.to, Unassigned, Relocation.units) /\ moving' \in BOOLEAN
      BY <1>8 DEF FillTarget
    <2> QED
      BY <2>1, <2>2, OverwriteKeeps
  <1>9. CASE Crash
    BY <1>9, CrashKeeps
  <1> QED
    BY <1>1, <1>2, <1>3, <1>4, <1>5, <1>6, <1>7, <1>8, <1>9 DEF StockNext

\* The inductive invariant of the stock positions holds in every reachable state.
THEOREM StockInvariance == ASSUME InventoryAssumption PROVE StockSpec => []StockInv
  <1>1. StockInit => StockInv
    BY StockBegins
  <1>2. StockInv /\ [StockNext]_stockVars => StockInv'
    BY StockStep
  <1> QED
    BY <1>1, <1>2, PTL DEF StockSpec

\* Receipts explain the stock, and each sale is accounted for: for any events, bins,
\* locations and number of writes.
THEOREM ReceiptsExplainStock == ASSUME InventoryAssumption PROVE StockSpec => []StockIsAccounted
  <1>1. StockInv => StockIsAccounted
    BY DEF StockInv, StockIsAccounted
  <1> QED
    BY <1>1, StockInvariance, PTL
=============================================================================
