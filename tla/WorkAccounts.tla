---------------------------- MODULE WorkAccounts ----------------------------
(***************************************************************************)
(* The workforce accounts of one tenant and the routes that change them.    *)
(* Every store method is one UPDATE, but a route reads, decides, updates,   *)
(* sends a link, writes the audit entry and issues a session in separate    *)
(* transactions, and requests run on a thread pool.                         *)
(*                                                                          *)
(* Passwords are generations. Links and sessions that expire are those no   *)
(* step uses; must_change_password restricts staff accounts only, which     *)
(* call none of the owner's routes.                                         *)
(***************************************************************************)
EXTENDS Naturals, FiniteSets

CONSTANTS Owners,      \* accounts the bootstrap and the legacy login may create
          Legacy,      \* the one the legacy login is configured for
          Staff,       \* accounts an owner creates or invites
          StaffRoles,
          Requests,    \* concurrent requests
          Recovery,    \* SHELFWISE_LEGACY_OWNER_RECOVERY_ENABLED
          None,
          MaxVersion,  \* bound: session_version
          MaxLinks,    \* bound: links issued
          MaxRequests  \* bound: requests

Accounts == Owners \cup Staff
Status   == {"invited", "active", "inactive"}

\* A row of the accounts table: passwords are generations, links numbers.
Account == [role : StaffRoles \cup {"owner"}, active : BOOLEAN, status : Status,
            version : Nat, pw : Nat, invitation : Nat \cup {None}, reset : Nat \cup {None}]

AccountAssumption ==
    /\ Legacy \in Owners /\ Owners \cap Staff = {} /\ "owner" \notin StaffRoles
    /\ IsFiniteSet(Accounts) /\ None \notin Account \cup Nat
    /\ Recovery \in BOOLEAN
    /\ MaxVersion \in Nat \ {0} /\ MaxLinks \in Nat /\ MaxRequests \in Nat

VARIABLES
    account,   \* the rows; None: no such account
    request,   \* routes in progress
    sessions,  \* session tokens handed out
    links,     \* number of links issued; a link is its number
    mailed,    \* links that were delivered
    spent,     \* how often each link was consumed (history)
    audit,     \* account audit: what was done to whom
    arrived,   \* number of requests
    crossing   \* two deactivations of owners were under way at once (history)

vars == <<account, request, sessions, links, mailed, spent, audit, arrived, crossing>>

Idle == [op |-> "none"]

Init ==
    /\ account = [a \in Accounts |-> None]
    /\ request = [r \in Requests |-> Idle]
    /\ sessions = {} /\ links = 0 /\ mailed = {} /\ audit = {} /\ arrived = 0 /\ crossing = FALSE
    /\ spent = [t \in 1 .. MaxLinks |-> 0]

Exists(a)    == account[a] # None
ActiveOwners == {a \in Accounts : Exists(a) /\ account[a].role = "owner" /\ account[a].active}

\* _record
NewAccount(role, status) ==
    [role |-> role, active |-> status = "active", status |-> status, version |-> 1,
     pw |-> 0, invitation |-> None, reset |-> None]

\* _verified_tenant_context, and require_role(OWNER).
Current(s) == /\ account[s.account].active
              /\ account[s.account].version = s.version
OwnerCalls(w) == \E s \in sessions : s.account = w /\ s.role = "owner" /\ Current(s)

\* The store's methods. All but two of them bump the session version.
Bump(c)             == [c EXCEPT !.version = @ + 1]
SetActive(c, on)    == Bump([c EXCEPT !.active = on,
                                      !.status = IF on THEN "active" ELSE "inactive"])
\* Mistake: the role changes under the sessions that carry it.
SetRoleKeepingSessions(c, role) == [c EXCEPT !.role = role]
SetRole(c, role) == Bump([c EXCEPT !.role = role])
SetPassword(c)      == Bump([c EXCEPT !.pw = @ + 1])
SetInvitation(c, t) == [c EXCEPT !.active = FALSE, !.status = "invited", !.invitation = t]
SetResetToken(c, t) == [c EXCEPT !.reset = t]
ActivateInvitation(c) ==
    Bump([c EXCEPT !.active = TRUE, !.status = "active", !.pw = @ + 1, !.invitation = None])
\* Mistake: the reset link stays in the row.
ConsumeKeepingLink(c) == Bump([c EXCEPT !.pw = @ + 1])
ConsumeResetToken(c) == Bump([c EXCEPT !.pw = @ + 1, !.reset = None])

----------------------------------------------------------------------------
Arrive(r) == request[r] = Idle /\ arrived < MaxRequests /\ arrived' = arrived + 1

\* A route has passed its checks on what it read, and goes on at pc.
Enter(r, op, a, arg, pc) ==
    /\ Arrive(r)
    /\ request' = [request EXCEPT ![r] = [op |-> op, target |-> a, arg |-> arg, pc |-> pc,
                                          copy |-> account[a]]]

\* A route updates its account and goes on at pc.
Update(r, value, pc) ==
    /\ account' = [account EXCEPT ![request[r].target] = value]
    /\ request' = [request EXCEPT ![r].pc = pc]

\* company_login, for an account: the session is of the row that was read.
Login(r, a) ==
    /\ Exists(a) /\ account[a].active
    /\ Enter(r, "login", a, None, "session")
    /\ UNCHANGED <<account, sessions, links, mailed, spent, audit, crossing>>

\* request_password_reset, and change_own_password by whoever is signed in.
RequestReset(r, a) ==
    /\ Exists(a) /\ account[a].active
    /\ Enter(r, "reset", a, None, "issue")
    /\ UNCHANGED <<account, sessions, links, mailed, spent, audit, crossing>>

ChangePassword(r, a) ==
    /\ \E s \in sessions : s.account = a /\ Current(s)
    /\ Enter(r, "password", a, None, "write")
    /\ UNCHANGED <<account, sessions, links, mailed, spent, audit, crossing>>

\* deactivate_work_account: get_by_id, and the list when it is an owner.
MayDeactivate(w, a) ==
    w # a /\ (account[a].role = "owner" => Cardinality(ActiveOwners) > 1)

Deactivating(a) == \E r \in Requests : /\ request[r].op = "deactivate" /\ request[r].pc = "write"
                                       /\ request[r].target # a /\ request[r].target \in Owners

Deactivate(r, w, a) ==
    /\ OwnerCalls(w) /\ Exists(a) /\ MayDeactivate(w, a)
    /\ Enter(r, "deactivate", a, FALSE, "write")
    /\ crossing' = (crossing \/ (a \in Owners /\ Deactivating(a)))
    /\ UNCHANGED <<account, sessions, links, mailed, spent, audit>>

Reactivate(r, w, a) ==
    /\ OwnerCalls(w) /\ Exists(a) /\ account[a].status # "invited"
    /\ Enter(r, "reactivate", a, TRUE, "write")
    /\ UNCHANGED <<account, sessions, links, mailed, spent, audit, crossing>>

ChangeRole(r, w, a, role) ==
    /\ OwnerCalls(w) /\ Exists(a) /\ account[a].role # "owner"
    /\ Enter(r, "role", a, role, "write")
    /\ UNCHANGED <<account, sessions, links, mailed, spent, audit, crossing>>

ResendInvitation(r, w, a) ==
    /\ OwnerCalls(w) /\ Exists(a) /\ account[a].status = "invited"
    /\ Enter(r, "invite", a, None, "issue")
    /\ UNCHANGED <<account, sessions, links, mailed, spent, audit, crossing>>

OwnerReset(r, w, a) ==
    /\ OwnerCalls(w) /\ Exists(a)
    /\ Enter(r, "reset", a, None, "issue")
    /\ UNCHANGED <<account, sessions, links, mailed, spent, audit, crossing>>

\* The routes' single UPDATE.
Write(r) ==
    LET q == request[r]
        c == account[q.target]
    IN  /\ q.op # "none" /\ q.pc = "write" /\ c.version < MaxVersion
        /\ Update(r, CASE q.op \in {"deactivate", "reactivate"} -> SetActive(c, q.arg)
                       [] q.op = "role" -> SetRole(c, q.arg)
                       [] q.op = "password" -> SetPassword(c), "audit")
        /\ UNCHANGED <<sessions, links, mailed, spent, audit, arrived, crossing>>

\* create_work_account and invite_work_account: the insert, unique by email.
Create(r, w, a, role, invited) ==
    /\ OwnerCalls(w) /\ ~Exists(a) /\ Arrive(r)
    /\ account' = [account EXCEPT ![a] = NewAccount(role, IF invited THEN "invited" ELSE "active")]
    /\ request' = [request EXCEPT ![r] =
          [op |-> IF invited THEN "invite" ELSE "create", target |-> a, arg |-> None,
           pc |-> IF invited THEN "issue" ELSE "audit", copy |-> account'[a]]]
    /\ UNCHANGED <<sessions, links, mailed, spent, audit, crossing>>

\* _issue_and_send_account_link: the link's digest is stored, then it is mailed.
IssueLink(r) ==
    LET q == request[r]
        c == account[q.target]
    IN  /\ q.op # "none" /\ q.pc = "issue" /\ links < MaxLinks
        /\ links' = links + 1
        /\ account' = [account EXCEPT ![q.target] =
              IF q.op = "invite" THEN SetInvitation(c, links') ELSE SetResetToken(c, links')]
        /\ request' = [request EXCEPT ![r].pc = "mail", ![r].arg = links']
        /\ UNCHANGED <<sessions, mailed, spent, audit, arrived, crossing>>

SendLink(r) ==
    /\ request[r].op # "none" /\ request[r].pc = "mail"
    /\ mailed' = mailed \cup {request[r].arg}
    /\ request' = [request EXCEPT ![r].pc = "audit"]
    /\ UNCHANGED <<account, sessions, links, spent, audit, arrived, crossing>>

\* activate_invitation and consume_password_reset: _consume_token matches the
\* stored digest in the UPDATE itself.
Consume(r, a, t) ==
    /\ Arrive(r) /\ t \in mailed /\ Exists(a) /\ account[a].version < MaxVersion
    /\ \/ /\ account[a].invitation = t
          /\ account' = [account EXCEPT ![a] = ActivateInvitation(@)]
       \/ /\ account[a].reset = t
          /\ account' = [account EXCEPT ![a] = ConsumeResetToken(@)]
    /\ spent' = [spent EXCEPT ![t] = @ + 1]
    /\ request' = [request EXCEPT ![r] = [op |-> "consume", target |-> a, arg |-> t,
                                          pc |-> "audit", copy |-> account'[a]]]
    /\ UNCHANGED <<sessions, links, mailed, audit, crossing>>

\* Mistake: whoever comes first, and whoever comes second.
FirstOwnerMissing == \E a \in Owners : ~Exists(a)

\* create_first_owner, under the tenant's advisory lock.
NoAccountYet == \A a \in Accounts : ~Exists(a)

NewOwner(r, op, a) ==
    /\ account' = [account EXCEPT ![a] = NewAccount("owner", "active")]
    /\ request' = [request EXCEPT ![r] = [op |-> op, target |-> a, arg |-> None,
                                          pc |-> "audit", copy |-> account'[a]]]

\* bootstrap_client_owner
Bootstrap(r, a) ==
    /\ Arrive(r) /\ ~Exists(a) /\ NoAccountYet
    /\ NewOwner(r, "bootstrap", a)
    /\ UNCHANGED <<sessions, links, mailed, spent, audit, crossing>>

\* _migrate_or_recover_legacy_owner: the list is read, then the owner is created.
LegacyLogin(r) ==
    /\ ~Exists(Legacy)
    /\ NoAccountYet \/ Recovery
    /\ Enter(r, "legacy", Legacy, NoAccountYet, "owner")
    /\ UNCHANGED <<account, sessions, links, mailed, spent, audit, crossing>>

CreateLegacy(r) ==
    LET first == request[r].arg IN
    /\ request[r].op = "legacy" /\ request[r].pc = "owner"
    /\ \/ /\ IF first THEN NoAccountYet ELSE ~Exists(Legacy)
          /\ NewOwner(r, "legacy", Legacy)
       \/ /\ IF first THEN ~NoAccountYet ELSE Exists(Legacy)
          /\ request' = IF Exists(Legacy) THEN [request EXCEPT ![r].pc = "audit"]
                        ELSE [request EXCEPT ![r] = Idle]
          /\ UNCHANGED account
    /\ UNCHANGED <<sessions, links, mailed, spent, audit, arrived, crossing>>

WithSession == {"login", "bootstrap", "legacy", "consume", "password"}

\* record_audit; then the answer, or the row is read for the session.
RecordAudit(r) ==
    LET q == request[r] IN
    /\ q.op # "none" /\ q.pc = "audit"
    /\ audit' = audit \cup {[action |-> q.op, account |-> q.target]}
    /\ request' = [request EXCEPT ![r] =
          IF q.op \in WithSession THEN [q EXCEPT !.pc = "reread"] ELSE Idle]
    /\ UNCHANGED <<account, sessions, links, mailed, spent, arrived, crossing>>

Reread(r) ==
    /\ request[r].op # "none" /\ request[r].pc = "reread"
    /\ request' = [request EXCEPT ![r].pc = "session", ![r].copy = account[request[r].target]]
    /\ UNCHANGED <<account, sessions, links, mailed, spent, audit, arrived, crossing>>

\* _account_session_response
IssueSession(r) ==
    LET c == request[r].copy IN
    /\ request[r].op # "none" /\ request[r].pc = "session"
    /\ sessions' = sessions \cup {[account |-> request[r].target, version |-> c.version,
                                   role |-> c.role, pw |-> c.pw]}
    /\ request' = [request EXCEPT ![r] = Idle]
    /\ UNCHANGED <<account, links, mailed, spent, audit, arrived, crossing>>

\* The process is killed, the request times out, or the mail cannot be sent.
Abandon(r) ==
    /\ request[r] # Idle
    /\ request' = [request EXCEPT ![r] = Idle]
    /\ UNCHANGED <<account, sessions, links, mailed, spent, audit, arrived, crossing>>

OwnerRoute(r, w, a) ==
    \/ Deactivate(r, w, a) \/ Reactivate(r, w, a) \/ ResendInvitation(r, w, a) \/ OwnerReset(r, w, a)
    \/ \E role \in StaffRoles :
          \/ ChangeRole(r, w, a, role)
          \/ a \in Staff /\ \E invited \in BOOLEAN : Create(r, w, a, role, invited)

Next == \E r \in Requests :
    \/ \E a \in Accounts : \/ Login(r, a) \/ RequestReset(r, a) \/ ChangePassword(r, a)
                           \/ \E w \in Owners : OwnerRoute(r, w, a)
                           \/ \E t \in 1 .. links : Consume(r, a, t)
    \/ \E a \in Owners : Bootstrap(r, a)
    \/ LegacyLogin(r) \/ CreateLegacy(r)
    \/ Write(r) \/ IssueLink(r) \/ SendLink(r) \/ RecordAudit(r) \/ Reread(r)
    \/ IssueSession(r) \/ Abandon(r)

Spec == Init /\ [][Next]_vars

----------------------------------------------------------------------------
TypeOK ==
    /\ \A a \in Accounts : Exists(a) =>
          /\ account[a].role \in StaffRoles \cup {"owner"} /\ account[a].status \in Status
          /\ account[a].active = (account[a].status = "active")
          /\ account[a].version \in 1 .. MaxVersion
    /\ \A r \in Requests : request[r] = Idle \/ request[r].target \in Accounts
    /\ \A s \in sessions : s.account \in Accounts
    /\ links \in 0 .. MaxLinks /\ mailed \subseteq 1 .. links

\* A session that is still accepted carries the role the account has now, and was
\* issued on the password it has now: a change of role or password, however it
\* overlaps with a login or an activation, leaves no older session valid.
SessionsFollowAccount ==
    \A s \in sessions : Current(s) =>
        /\ account[s.account].role = s.role
        /\ account[s.account].pw = s.pw

\* "Single-use signed tokens": no link is consumed twice, whatever is resent or
\* requested meanwhile.
LinksSpentOnce == \A t \in 1 .. links : spent[t] <= 1

\* "Create the configured dedicated client and its only bootstrap owner exactly
\* once": however bootstraps and legacy logins overlap, one bootstrap succeeds.
OneFirstOwner == Cardinality({e \in audit : e.action = "bootstrap"}) <= 1

\* "The last active owner cannot be deactivated": once there is an account there is
\* an active owner, as long as no two deactivations of owners are under way at once.
OwnerRemains == (~NoAccountYet /\ ~crossing) => ActiveOwners # {}

\* What the owner may rely on of the accounts, however the routes overlap.
AccountsAreGoverned ==
    TypeOK /\ SessionsFollowAccount /\ LinksSpentOnce /\ OneFirstOwner /\ OwnerRemains
====
