----------------------------- MODULE Authority -----------------------------
(***************************************************************************)
(* Who may do what: accounts, project memberships, credentials, and the    *)
(* transactions that change or rely on them, at the grain of the locks     *)
(* they take in PostgreSQL.  A transaction takes its locks one by one,     *)
(* decides on what it then reads, may need further locks to write, and     *)
(* commits.  Row locks have PostgreSQL's modes: a foreign key takes "key"  *)
(* on the row it references, an UPDATE "nokey", FOR SHARE "share" and      *)
(* FOR UPDATE "update"; the advisory lock is a row of its own.             *)
(***************************************************************************)
EXTENDS Integers, Sequences, FiniteSets, SequencesExt

CONSTANTS
    Clients,        \* API threads and CLI processes
    Users,          \* enrolled accounts
    Projects,
    NoUser,         \* the CLI: a change made by no account
    NoProject,      \* a browser session is not bound to a project
    Founded,        \* projects that may exist when the run begins
    Offered,        \* the transactions this instance offers
    MaxCredentials, \* bound on sessions and device tokens that replace no other
    MaxCode         \* bound on one-time-code counters

Roles == {"none", "viewer", "planner", "admin"}
Kinds == {"create", "grant", "revoke", "disable", "submit", "login", "logout",
          "issue", "write"}

(* The roles are levels: a role allows what a lower one does.               *)
Level == [r \in Roles |-> CASE r = "none" -> 0 [] r = "viewer" -> 1
                            [] r = "planner" -> 2 [] r = "admin" -> 3]
Allows(r, required) == Level[r] >= Level[required]

ASSUME NamesAssumption == NoUser \notin Users /\ NoProject \notin Projects
ASSUME FoundedAssumption == Founded \subseteq Projects /\ IsFiniteSet(Founded)
ASSUME OfferedAssumption == Offered \subseteq Kinds
ASSUME BoundsAssumption == MaxCredentials \in Nat /\ MaxCode \in Nat

VARIABLES
    enabled,        \* users.enabled
    counter,        \* users.last_totp_counter
    projects,       \* the projects that exist
    role,           \* project_memberships, "none" when absent or revoked
    credentials,    \* server_sessions and device_tokens
    holds,          \* the locks each transaction has
    txn,            \* each client's transaction
    codes           \* history: the one-time codes each user's logins consumed

tables == <<enabled, counter, projects, role, credentials>>
vars == <<tables, holds, txn, codes>>

----------------------------------------------------------------------------
(* Locks.                                                                  *)

AuthorityLock == <<"authority", "all">>
User(u) == <<"user", u>>
Project(p) == <<"project", p>>
Credential(k) == <<"credential", k>>
Lock(row, mode) == [row |-> row, mode |-> mode]

Modes == {"key", "share", "nokey", "update"}
Conflicts(m, n) ==
    \/ "update" \in {m, n}
    \/ {m, n} \in {{"nokey"}, {"nokey", "share"}}

Blockers(c) ==
    IF txn[c].wants = <<>> THEN {}
    ELSE {d \in Clients \ {c} :
            \E l \in holds[d] : /\ l.row = Head(txn[c].wants).row
                                /\ Conflicts(l.mode, Head(txn[c].wants).mode)}

Acquire(c) ==
    /\ txn[c].wants # <<>> /\ Blockers(c) = {}
    /\ holds' = [holds EXCEPT ![c] = @ \union {Head(txn[c].wants)}]
    /\ txn' = [txn EXCEPT ![c].wants = Tail(@)]
    /\ UNCHANGED <<tables, codes>>

----------------------------------------------------------------------------
(* Transactions.                                                           *)

Idle == [op |-> "idle", wants |-> <<>>]
Begun(op, u, p, by, arg, wants) ==
    [op |-> op, pc |-> "begun", user |-> u, project |-> p, by |-> by, arg |-> arg,
     wants |-> wants]

Begin(c, op, u, p, by, arg, wants) ==
    /\ op \in Offered /\ txn[c] = Idle
    /\ txn' = [txn EXCEPT ![c] = Begun(op, u, p, by, arg, wants)]
    /\ UNCHANGED <<tables, holds, codes>>

Ready(c, op, pc) == txn[c].op = op /\ txn[c].pc = pc /\ txn[c].wants = <<>>

(* Going on after a decision, with the locks that writing needs.            *)
GoOn(c, pc, wants) ==
    /\ txn' = [txn EXCEPT ![c].pc = pc, ![c].wants = wants]
    /\ UNCHANGED <<tables, holds, codes>>

(* COMMIT and ROLLBACK release every lock.                                  *)
End(c) == txn' = [txn EXCEPT ![c] = Idle] /\ holds' = [holds EXCEPT ![c] = {}]
Refuse(c) == End(c) /\ UNCHANGED <<tables, codes>>

Rows(S, mode) == SetToSeq({Lock(r, mode) : r \in S})
By(by) == IF by = NoUser THEN <<>> ELSE <<Lock(User(by), "key")>>

IgnoringDisabled(p, u) == {v \in Users \ {u} : role[p][v] = "admin"}
OtherEnabledAdmins(p, u) == {v \in Users \ {u} : role[p][v] = "admin" /\ enabled[v]}

Active(k) == credentials[k].active
ActiveOf(u) == {k \in DOMAIN credentials : credentials[k].user = u /\ Active(k)}
TokensOf(u, p) == {k \in ActiveOf(u) : credentials[k].project = p}
Deactivated(ks) ==
    [k \in DOMAIN credentials |->
        [credentials[k] EXCEPT !.active = @ /\ k \notin ks]]
Session(u) == [user |-> u, project |-> NoProject, cap |-> "admin", active |-> TRUE]
Token(u, p, r) == [user |-> u, project |-> p, cap |-> r, active |-> TRUE]
----------------------------------------------------------------------------
(* create_project: the new row references its creator before the creator is *)
(* made its administrator by grant_membership.                              *)

CreateBegin(c, u, p) ==
    /\ p \notin projects /\ enabled[u]
    /\ \A d \in Clients : txn[d] # Idle => ~(txn[d].op = "create" /\ txn[d].project = p)
    /\ Begin(c, "create", u, p, u, "admin",
             <<Lock(User(u), "key"), Lock(AuthorityLock, "update"),
               Lock(Project(p), "update"), Lock(User(u), "update")>>)

CreateDecide(c) ==
    /\ Ready(c, "create", "begun")
    /\ IF enabled[txn[c].user] THEN GoOn(c, "decided", <<>>) ELSE Refuse(c)

CreateCommit(c) ==
    /\ Ready(c, "create", "decided") /\ End(c)
    /\ projects' = projects \union {txn[c].project}
    /\ role' = [role EXCEPT ![txn[c].project][txn[c].user] = "admin"]
    /\ UNCHANGED <<enabled, counter, credentials, codes>>

(* grant_membership, asked for by an administrator or from the CLI.         *)
GrantLocks(p, u) ==
    <<Lock(AuthorityLock, "update"), Lock(Project(p), "update"), Lock(User(u), "update")>>

GrantBegin(c, u, p, by, r) ==
    /\ p \in projects /\ enabled[u]
    /\ by # NoUser => enabled[by] /\ role[p][by] = "admin"
    /\ Begin(c, "grant", u, p, by, r, GrantLocks(p, u))

Demotes(c) == role[txn[c].project][txn[c].user] = "admin" /\ txn[c].arg # "admin"

GrantDecide(c) ==
    /\ Ready(c, "grant", "begun")
    /\ IF /\ enabled[txn[c].user]
          /\ Demotes(c) => OtherEnabledAdmins(txn[c].project, txn[c].user) # {}
       THEN GoOn(c, "decided", By(txn[c].by)) ELSE Refuse(c)

GrantCommit(c) ==
    /\ Ready(c, "grant", "decided") /\ End(c)
    /\ role' = [role EXCEPT ![txn[c].project][txn[c].user] = txn[c].arg]
    /\ UNCHANGED <<enabled, counter, projects, credentials, codes>>

(* revoke_membership, which also revokes the member's device tokens.        *)
RevokeBegin(c, u, p, by) ==
    /\ p \in projects /\ enabled[by] /\ role[p][by] = "admin"
    /\ Begin(c, "revoke", u, p, by, "none",
             <<Lock(AuthorityLock, "update"), Lock(Project(p), "update")>>)

RevokeDecide(c) ==
    LET u == txn[c].user p == txn[c].project IN
    /\ Ready(c, "revoke", "begun")
    /\ IF role[p][u] # "none" /\ (role[p][u] = "admin" => OtherEnabledAdmins(p, u) # {})
       THEN GoOn(c, "decided",
                 <<Lock(User(u), "key")>> \o By(txn[c].by)
                 \o Rows({Credential(k) : k \in TokensOf(u, p)}, "nokey"))
       ELSE Refuse(c)

RevokeCommit(c) ==
    LET u == txn[c].user p == txn[c].project IN
    /\ Ready(c, "revoke", "decided") /\ End(c)
    /\ role' = [role EXCEPT ![p][u] = "none"]
    /\ credentials' = Deactivated(TokensOf(u, p))
    /\ UNCHANGED <<enabled, counter, projects, codes>>

(* disable_user: the account, then every project it administers, then its   *)
(* credentials.                                                             *)
DisableBegin(c, u) ==
    Begin(c, "disable", u, NoProject, NoUser, "none",
          <<Lock(AuthorityLock, "update"), Lock(User(u), "update")>>)

Administers(u) == {p \in projects : role[p][u] = "admin"}

DisableList(c) ==
    /\ Ready(c, "disable", "begun")
    /\ IF enabled[txn[c].user]
       THEN GoOn(c, "listed", Rows({Project(p) : p \in Administers(txn[c].user)}, "update"))
       ELSE GoOn(c, "decided", Rows({Credential(k) : k \in ActiveOf(txn[c].user)}, "nokey"))

DisableDecide(c) ==
    LET u == txn[c].user IN
    /\ Ready(c, "disable", "listed")
    /\ IF \A p \in Administers(u) : OtherEnabledAdmins(p, u) # {}
       THEN GoOn(c, "decided", Rows({Credential(k) : k \in ActiveOf(u)}, "nokey"))
       ELSE Refuse(c)

DisableCommit(c) ==
    /\ Ready(c, "disable", "decided") /\ End(c)
    /\ enabled' = [enabled EXCEPT ![txn[c].user] = FALSE]
    /\ credentials' = Deactivated(ActiveOf(txn[c].user))
    /\ UNCHANGED <<counter, projects, role, codes>>

----------------------------------------------------------------------------
(* live_operations.submit: the transaction in which a member's fact is      *)
(* accepted.  arg is the credential it was authenticated with.              *)

Acceptable(u, p, k) ==
    /\ Active(k) /\ enabled[u]
    /\ Allows(role[p][u], "planner") /\ Allows(credentials[k].cap, "planner")
    /\ credentials[k].project \in {NoProject, p}

SubmitIgnoringCredential(u, p, k) ==
    <<Lock(AuthorityLock, "share"), Lock(User(u), "share"), Lock(Project(p), "update")>>
SubmitOutsideAuthority(u, p, k) ==
    <<Lock(Credential(k), "share"), Lock(User(u), "share"), Lock(Project(p), "update")>>
SubmitLocks(u, p, k) ==
    <<Lock(AuthorityLock, "share"), Lock(Credential(k), "share"),
      Lock(User(u), "share"), Lock(Project(p), "update")>>

SubmitBegin(c, p, k) ==
    LET u == credentials[k].user IN
    /\ p \in projects /\ Acceptable(u, p, k)
    /\ Begin(c, "submit", u, p, NoUser, k, SubmitLocks(u, p, k))

SubmitDecide(c) ==
    /\ Ready(c, "submit", "begun")
    /\ IF Acceptable(txn[c].user, txn[c].project, txn[c].arg)
       THEN GoOn(c, "decided", <<>>) ELSE Refuse(c)

SubmitCommit(c) == Ready(c, "submit", "decided") /\ Refuse(c)

(* Any other planner write: it takes the project row, and the rows it       *)
(* inserts reference their author.                                          *)
WriteBegin(c, u, p) ==
    /\ p \in projects /\ enabled[u] /\ Allows(role[p][u], "planner")
    /\ Begin(c, "write", u, p, NoUser, "none",
             <<Lock(Project(p), "update"), Lock(User(u), "key")>>)

WriteCommit(c) == Ready(c, "write", "begun") /\ Refuse(c)

----------------------------------------------------------------------------
(* AuthService.login: the password and the code are checked before the      *)
(* transaction, against a row read without a lock.  arg is the code's       *)
(* counter and the session the browser still had, 0 for none.               *)

LoginUnlocked(u) == <<>>
LoginLocks(u) == <<Lock(User(u), "update")>>

LoginBegin(c, u, code, old) ==
    /\ enabled[u]
    /\ old # 0 => credentials[old].project = NoProject
    /\ Begin(c, "login", u, NoProject, NoUser, <<code, old>>, LoginLocks(u))

LoginDecide(c) ==
    LET u == txn[c].user code == txn[c].arg[1] old == txn[c].arg[2] IN
    /\ Ready(c, "login", "begun")
    /\ IF enabled[u] /\ code > counter[u]
       THEN GoOn(c, "decided",
                 IF old = 0 \/ ~Active(old) THEN <<>>
                 ELSE <<Lock(Credential(old), "nokey")>>)
       ELSE Refuse(c)

LoginCommit(c) ==
    LET u == txn[c].user code == txn[c].arg[1] old == txn[c].arg[2] IN
    /\ Ready(c, "login", "decided") /\ End(c)
    /\ Len(credentials) < MaxCredentials \/ (old # 0 /\ Active(old))
    /\ counter' = [counter EXCEPT ![u] = code]
    /\ codes' = [codes EXCEPT ![u] = Append(@, code)]
    /\ credentials' = Append(Deactivated({old}), Session(u))
    /\ UNCHANGED <<enabled, projects, role>>

(* revoke_session and revoke_device_token: one UPDATE.                      *)
LogoutBegin(c, k) ==
    Begin(c, "logout", credentials[k].user, credentials[k].project, NoUser, k,
          <<Lock(Credential(k), "nokey")>>)

LogoutCommit(c) ==
    /\ Ready(c, "logout", "begun") /\ End(c)
    /\ credentials' = Deactivated({txn[c].arg})
    /\ UNCHANGED <<enabled, counter, projects, role, codes>>

(* issue_device_token, by an administrator for a member.                    *)
IssueBegin(c, u, p, by, r) ==
    /\ p \in projects /\ enabled[by] /\ role[p][by] = "admin"
    /\ Begin(c, "issue", u, p, by, r, <<Lock(User(u), "update")>>)

IssueDecide(c) ==
    LET u == txn[c].user p == txn[c].project IN
    /\ Ready(c, "issue", "begun")
    /\ IF enabled[u] /\ Allows(role[p][u], txn[c].arg) /\ role[p][txn[c].by] = "admin"
       THEN GoOn(c, "decided", By(txn[c].by)) ELSE Refuse(c)

IssueCommit(c) ==
    /\ Ready(c, "issue", "decided") /\ End(c)
    /\ Len(credentials) < MaxCredentials
    /\ credentials' = Append(credentials, Token(txn[c].user, txn[c].project, txn[c].arg))
    /\ UNCHANGED <<enabled, counter, projects, role, codes>>

----------------------------------------------------------------------------
(* A transaction is rolled back: its connection breaks, its process stops,  *)
(* or PostgreSQL chooses it to break a deadlock.                            *)
Rollback(c) == txn[c] # Idle /\ Refuse(c)

(* Each founded project has the member who created it, still signed in.     *)
Init ==
    /\ enabled = [u \in Users |-> TRUE]
    /\ counter = [u \in Users |-> 0]
    /\ projects \in SUBSET Founded
    /\ \E founder \in [projects -> Users] :
          /\ role = [p \in Projects |-> [u \in Users |->
                        IF p \in projects /\ founder[p] = u THEN "admin" ELSE "none"]]
          /\ credentials = [k \in 1..Cardinality(projects) |->
                               Session(founder[SetToSeq(projects)[k]])]
    /\ holds = [c \in Clients |-> {}]
    /\ txn = [c \in Clients |-> Idle]
    /\ codes = [u \in Users |-> <<>>]

Ask(c) ==
    \/ \E u \in Users :
          \/ DisableBegin(c, u)
          \/ \E code \in 1..MaxCode, old \in 0..Len(credentials) : LoginBegin(c, u, code, old)
          \/ \E p \in Projects :
                \/ CreateBegin(c, u, p) \/ WriteBegin(c, u, p)
                \/ \E by \in Users :
                      \/ RevokeBegin(c, u, p, by)
                      \/ \E r \in {"viewer", "planner"} : IssueBegin(c, u, p, by, r)
                \/ \E by \in Users \union {NoUser}, r \in Roles \ {"none"} :
                      GrantBegin(c, u, p, by, r)
    \/ \E k \in DOMAIN credentials :
          \/ LogoutBegin(c, k)
          \/ \E p \in Projects : SubmitBegin(c, p, k)

Decide(c) ==
    \/ CreateDecide(c) \/ GrantDecide(c) \/ RevokeDecide(c) \/ DisableList(c)
    \/ DisableDecide(c) \/ SubmitDecide(c) \/ LoginDecide(c) \/ IssueDecide(c)

Commit(c) ==
    \/ CreateCommit(c) \/ GrantCommit(c) \/ RevokeCommit(c) \/ DisableCommit(c)
    \/ SubmitCommit(c) \/ WriteCommit(c) \/ LoginCommit(c) \/ LogoutCommit(c)
    \/ IssueCommit(c)

Next == \E c \in Clients : Ask(c) \/ Acquire(c) \/ Decide(c) \/ Commit(c) \/ Rollback(c)

Spec == Init /\ [][Next]_vars

----------------------------------------------------------------------------
(* Properties.                                                             *)

Locks == [row : {AuthorityLock} \union {User(u) : u \in Users}
                 \union {Project(p) : p \in Projects}
                 \union {Credential(k) : k \in DOMAIN credentials},
          mode : Modes]

(* The tables and the transactions in progress hold what they should.       *)
TypeOK ==
    /\ enabled \in [Users -> BOOLEAN]
    /\ counter \in [Users -> Nat]
    /\ projects \subseteq Projects
    /\ role \in [Projects -> [Users -> Roles]]
    /\ credentials \in Seq([user : Users, project : Projects \union {NoProject},
                            cap : Roles, active : BOOLEAN])
    /\ \A c \in Clients : txn[c] # Idle =>
          /\ txn[c].op \in Kinds /\ txn[c].pc \in {"begun", "listed", "decided"}
          /\ txn[c].user \in Users
          /\ \A i \in DOMAIN txn[c].wants : txn[c].wants[i] \in Locks
    /\ \A c \in Clients : holds[c] \subseteq Locks

(* "a project must retain an enabled administrator": demotions, revocations *)
(* and account disables that each leave one never together leave none.      *)
AdministratorsRemain ==
    \A p \in projects : \E u \in Users : enabled[u] /\ role[p][u] = "admin"

(* A disabled account has no credential left, however its logins and the    *)
(* tokens being issued to it race with the disable.                         *)
DisabledHoldsNothing ==
    \A u \in Users : ~enabled[u] => ActiveOf(u) = {}

(* A one-time code opens at most one session: while a login that passed the  *)
(* check of its code commits, no other has passed with it, and none that     *)
(* committed used it or a later one (AuthService.login).                     *)
Entering(c, u, code) ==
    txn[c].op = "login" /\ txn[c].pc = "decided" /\ txn[c].user = u /\ txn[c].arg[1] = code

CodesAreUsedOnce ==
    \A c \in Clients, u \in Users, code \in 0..MaxCode : Entering(c, u, code) =>
        /\ \A i \in DOMAIN codes[u] : codes[u][i] < code
        /\ \A d \in Clients \ {c} : ~Entering(d, u, code)

(* From the check until the commit of an execution fact, its author's       *)
(* membership, account and credential stay as they were checked.            *)
AcceptedIsAuthorized ==
    \A c \in Clients : Ready(c, "submit", "decided") =>
        Acceptable(txn[c].user, txn[c].project, txn[c].arg)

(* Transactions that wait for each other, until PostgreSQL aborts one: the   *)
(* smallest such sets are the cycles its deadlock detector looks for.        *)
Deadlocked(S) == S # {} /\ \A c \in S : Blockers(c) \cap S # {}
Cycle(S) == Deadlocked(S) /\ \A T \in SUBSET S : Deadlocked(T) => T = S

(* The shared advisory lock "excludes their different row-lock orders": an   *)
(* execution fact is never aborted because it and changes of authority,      *)
(* logouts or planner writes wait for each other.  Only a login can be part  *)
(* of such a cycle: it locks its account and then, without the advisory      *)
(* lock, the session it replaces (submit, AuthService.login).                *)
SubmitNeverDeadlocks ==
    \A S \in SUBSET Clients :
        Cycle(S) /\ (\E c \in S : txn[c].op = "submit") => \E d \in S : txn[d].op = "login"
=============================================================================
