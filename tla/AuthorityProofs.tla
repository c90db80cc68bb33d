-------------------------- MODULE AuthorityProofs --------------------------
(***************************************************************************)
(* What TLAPS proves of accounts, memberships and credentials for any       *)
(* number of clients, users and projects.  The argument is about locks: no  *)
(* two transactions hold conflicting ones, each holds, from its decision    *)
(* to its commit, the locks that protect what it decided on, and no commit  *)
(* of another changes what those locks protect.                             *)
(***************************************************************************)
EXTENDS Authority, FiniteSetTheorems, TLAPS

RowNames == {AuthorityLock} \union {User(u) : u \in Users} \union {Project(p) : p \in Projects}
            \union {Credential(k) : k \in Nat}
AnyLock == [row : RowNames, mode : Modes]
CredentialRow == [user : Users, project : Projects \union {NoProject},
                  cap : Roles, active : BOOLEAN]

Wanted(c) == {txn[c].wants[i] : i \in DOMAIN txn[c].wants}

(* A lock the transaction asks for when it begins and has before it decides. *)
Taken(c, l) ==
    /\ l \in holds[c] \union Wanted(c)
    /\ txn[c].pc # "begun" => l \in holds[c]

AdminLock == Lock(AuthorityLock, "update")
Protected(c) ==
    LET op == txn[c].op IN
    /\ op \in {"create", "grant", "revoke", "disable"} => Taken(c, AdminLock)
    /\ op \in {"disable", "login", "issue"} => Taken(c, Lock(User(txn[c].user), "update"))
    /\ op = "submit" => /\ Taken(c, Lock(AuthorityLock, "share"))
                        /\ Taken(c, Lock(Credential(txn[c].arg), "share"))
    /\ op = "logout" => Taken(c, Lock(Credential(txn[c].arg), "nokey"))

(* The order in which a transaction takes its locks: what it has by the time *)
(* it asks for a given one.                                                  *)
Before(c, i) == holds[c] \union {txn[c].wants[j] : j \in 1..(i - 1)}
InOrder(c) ==
    \A i \in DOMAIN txn[c].wants :
        LET l == txn[c].wants[i] IN
        /\ l.row[1] = "authority" /\ l.mode # "share" =>
              \A b \in Before(c, i) : b.mode = "key" /\ b.row[1] = "user"
        /\ l.row[1] \in {"user", "credential"} /\ l.mode \in {"nokey", "update"} =>
              \/ txn[c].op = "login"
              \/ Before(c, i) = {}
              \/ AdminLock \in Before(c, i)
        /\ txn[c].op = "submit" =>
              /\ \A b \in Before(c, i) : b.mode = "share" /\ b.row[1] # "project"
              /\ Before(c, i) # {} => Lock(AuthorityLock, "share") \in Before(c, i)

(* What a transaction was asked, and what it may still rely on after it      *)
(* decided.                                                                  *)
Asked(c) ==
    LET op == txn[c].op arg == txn[c].arg IN
    /\ op \notin {"disable", "login", "logout"} => txn[c].project \in Projects
    /\ op \in {"grant", "issue"} => arg \in Roles
    /\ op \in {"submit", "logout"} => arg \in DOMAIN credentials
    /\ op = "login" => arg[1] \in Nat /\ arg[2] \in 0..Len(credentials)

Decided(c) ==
    LET op == txn[c].op u == txn[c].user p == txn[c].project arg == txn[c].arg IN
    /\ op \in {"create", "login", "issue"} => enabled[u]
    /\ op = "grant" => (Demotes(c) => OtherEnabledAdmins(p, u) # {})
    /\ op = "revoke" => (role[p][u] = "admin" => OtherEnabledAdmins(p, u) # {})
    /\ op = "disable" => (enabled[u] => \A q \in Administers(u) : OtherEnabledAdmins(q, u) # {})
    /\ op = "submit" => Acceptable(u, p, arg)
    /\ op = "login" =>
          /\ arg[1] > counter[u]
          /\ arg[2] # 0 /\ Active(arg[2]) =>
                Lock(Credential(arg[2]), "nokey") \in holds[c] \union Wanted(c)

ClientOK(c) ==
    \/ txn[c] = Idle /\ holds[c] = {}
    \/ /\ txn[c] \in [op : Kinds, pc : {"begun", "listed", "decided"}, user : Users,
                      project : Projects \union {NoProject}, by : Users \union {NoUser},
                      arg : {txn[c].arg}, wants : Seq(AnyLock)]
       /\ holds[c] \union Wanted(c) \subseteq Locks
       /\ Protected(c) /\ InOrder(c) /\ Asked(c)
       /\ txn[c].pc = "decided" => Decided(c)

TablesOK ==
    /\ enabled \in [Users -> BOOLEAN]
    /\ counter \in [Users -> Nat]
    /\ projects \subseteq Projects /\ IsFiniteSet(projects)
    /\ role \in [Projects -> [Users -> Roles]]
    /\ credentials \in Seq(CredentialRow)
    /\ codes \in [Users -> Seq(Nat)]

LocksExclude ==
    \A c, d \in Clients : c # d =>
        \A l \in holds[c], m \in holds[d] : l.row = m.row => ~Conflicts(l.mode, m.mode)

CodesCounted == \A u \in Users : \A i \in DOMAIN codes[u] : codes[u][i] <= counter[u]

RowsOK == AdministratorsRemain /\ DisabledHoldsNothing /\ CodesCounted

AInv ==
    /\ TablesOK
    /\ txn = [c \in Clients |-> txn[c]] /\ holds \in [Clients -> SUBSET AnyLock]
    /\ \A c \in Clients : ClientOK(c)
    /\ LocksExclude
    /\ RowsOK
----------------------------------------------------------------------------
(* Operators of the model.                                                   *)

(* What two lock modes exclude does not depend on who came first.            *)
LEMMA ConflictsSymmetric ==
    ASSUME NEW m, NEW n
    PROVE  Conflicts(m, n) <=> Conflicts(n, m)
BY DEF Conflicts

(* Lock modes that exclude a shared or a foreign-key lock.                   *)
LEMMA ConflictsOfWeakModes ==
    ASSUME NEW n
    PROVE  /\ Conflicts("share", n) => n \in {"nokey", "update"}
           /\ Conflicts("key", n) => n = "update"
<1>1. Conflicts("share", n) => n \in {"nokey", "update"}
  <2> SUFFICES ASSUME {"share", n} \in {{"nokey"}, {"nokey", "share"}} PROVE n = "nokey"
    BY DEF Conflicts
  <2>1. "nokey" \in {"share", n}
    OBVIOUS
  <2> QED BY <2>1
<1>2. Conflicts("key", n) => n = "update"
  <2> SUFFICES ASSUME {"key", n} \in {{"nokey"}, {"nokey", "share"}} PROVE FALSE
    BY DEF Conflicts
  <2>1. "key" \in {"key", n}
    OBVIOUS
  <2> QED BY <2>1
<1> QED BY <1>1, <1>2

(* A finite set can be listed.                                               *)
LEMMA SetToSeqLists ==
    ASSUME NEW S, IsFiniteSet(S)
    PROVE  SetToSeq(S) \in [1..Cardinality(S) -> S] /\ Cardinality(S) \in Nat
<1>1. Cardinality(S) \in Nat /\ ExistsBijection(1..Cardinality(S), S)
  BY FS_CardinalityType
<1>2. PICK f \in [1..Cardinality(S) -> S] : \A a, b \in 1..Cardinality(S) : f[a] = f[b] => a = b
  BY <1>1, Zenon DEF ExistsBijection, Bijection, Injection, IsInjective
<1>3. IsInjective(f)
  BY <1>2 DEF IsInjective
<1> QED BY <1>1, <1>2, <1>3, Zenon DEF SetToSeq

(* The locks of a finite set of rows, as a transaction asks for them.        *)
LEMMA RowsLists ==
    ASSUME NEW S, IsFiniteSet(S), NEW mode
    PROVE  Rows(S, mode) \in Seq([row : S, mode : {mode}])
<1> DEFINE f == [r \in S |-> Lock(r, mode)]
           L == {Lock(r, mode) : r \in S}
<1>1. f \in Surjection(S, L)
  <2>1. f \in [S -> L]
    OBVIOUS
  <2>2. \A l \in L : \E r \in S : f[r] = l
    OBVIOUS
  <2> QED BY <2>1, <2>2 DEF Surjection
<1>2. IsFiniteSet(L)
  BY <1>1, FS_Surjection
<1>3. SetToSeq(L) \in [1..Cardinality(L) -> L] /\ Cardinality(L) \in Nat
  BY <1>2, SetToSeqLists
<1> DEFINE R == [row : S, mode : {mode}]
<1>4. L \subseteq R
  BY DEF Lock
<1>5. SetToSeq(L) \in Seq(R)
  <2> HIDE DEF L, R
  <2>1. SetToSeq(L) \in [1..Cardinality(L) -> R]
    BY <1>3, <1>4
  <2> QED BY <2>1, <1>3
<1>6. Rows(S, mode) = SetToSeq(L)
  BY DEF Rows
<1> QED BY <1>5, <1>6

(* The rows a transaction lists: projects, and credentials.                  *)
LEMMA ProjectRowsListed ==
    ASSUME NEW S, IsFiniteSet(S), S \subseteq Projects
    PROVE  Rows({Project(p) : p \in S}, "update") \in Seq([row : {Project(p) : p \in S}, mode : {"update"}])
<1> DEFINE f == [p \in S |-> Project(p)]
<1>1. f \in Surjection(S, {Project(p) : p \in S})
  BY DEF Surjection
<1>2. IsFiniteSet({Project(p) : p \in S})
  BY <1>1, FS_Surjection
<1> QED BY <1>2, RowsLists

(* The locks on some credentials make a list of locks.                      *)
LEMMA CredentialRowsListed ==
    ASSUME NEW S, NEW n \in Nat, S \subseteq 1..n
    PROVE  Rows({Credential(k) : k \in S}, "nokey") \in Seq([row : {Credential(k) : k \in S}, mode : {"nokey"}])
<1> DEFINE f == [k \in S |-> Credential(k)]
<1>1. f \in Surjection(S, {Credential(k) : k \in S})
  BY DEF Surjection
<1>2. IsFiniteSet(1..n)
  BY FS_Interval
<1>3. IsFiniteSet(S)
  BY <1>2, FS_Subset
<1>4. IsFiniteSet({Credential(k) : k \in S})
  BY <1>1, <1>3, FS_Surjection
<1> QED BY <1>4, RowsLists
----------------------------------------------------------------------------
(* Steps that change no table.                                               *)

(* A transaction is as it was after a step of another that changes no table. *)
LEMMA OtherClientStays ==
    ASSUME NEW d, ClientOK(d), txn'[d] = txn[d], holds'[d] = holds[d], UNCHANGED tables
    PROVE  ClientOK(d)'
<1>1. CASE txn[d] = Idle /\ holds[d] = {}
  BY <1>1 DEF ClientOK
<1>2. CASE ~(txn[d] = Idle /\ holds[d] = {})
  <2>1. UNCHANGED <<enabled, counter, projects, role, credentials, Locks>>
    BY DEF tables, Locks
  <2>0. Protected(d) /\ InOrder(d)
    BY <1>2 DEF ClientOK
  <2>2. Wanted(d)' = Wanted(d) /\ Protected(d)' /\ InOrder(d)'
    <3>1. Wanted(d)' = Wanted(d)
      BY DEF Wanted
    <3>2. Protected(d)'
      BY <2>0, <3>1 DEF Protected, Taken, AdminLock
    <3>3. \A i : Before(d, i)' = Before(d, i)
      BY DEF Before
    <3>4. InOrder(d)'
      BY <2>0, <3>3 DEF InOrder, AdminLock
    <3> QED BY <3>1, <3>2, <3>4
  <2>3. Asked(d)'
    BY <1>2, <2>1 DEF ClientOK, Asked
  <2>4. txn[d].pc = "decided" => Decided(d)'
    BY <1>2, <2>1 DEF ClientOK, Decided, Demotes, OtherEnabledAdmins, Administers, Acceptable,
       Active, Wanted
  <2> QED BY <1>2, <2>1, <2>2, <2>3, <2>4 DEF ClientOK
<1> QED BY <1>1, <1>2

(* The tables stay well-formed and consistent when they do not change.       *)
LEMMA TablesStay ==
    ASSUME AInv, UNCHANGED <<tables, codes>>
    PROVE  TablesOK' /\ RowsOK'
<1>1. UNCHANGED <<enabled, counter, projects, role, credentials, codes>>
  BY DEF tables
<1> QED
  BY <1>1 DEF AInv, TablesOK, RowsOK, AdministratorsRemain, DisabledHoldsNothing, CodesCounted,
     ActiveOf, Active

(* A client that begins, or goes on after it decided.                        *)
LEMMA AsksKeeps ==
    ASSUME AInv, NEW c \in Clients, UNCHANGED <<tables, holds, codes>>,
           txn' = [d \in Clients |-> txn'[d]], \A d \in Clients \ {c} : txn'[d] = txn[d],
           ClientOK(c)'
    PROVE  AInv'
<1>1. ASSUME NEW d \in Clients PROVE ClientOK(d)'
  BY OtherClientStays DEF AInv
<1>2. LocksExclude' /\ (holds \in [Clients -> SUBSET AnyLock])'
  BY DEF AInv, LocksExclude
<1> QED BY <1>1, <1>2, TablesStay DEF AInv

(* A client that takes the lock it waited for: nobody holds a conflicting    *)
(* one, and what it asks for next it asks for with this one in hand.         *)
LEMMA AcquireKeeps ==
    ASSUME AInv, NEW c \in Clients, Acquire(c)
    PROVE  AInv'
<1> DEFINE w == txn[c].wants
           l == Head(w)
<1>1. txn[c] # Idle /\ w # <<>> /\ w \in Seq(AnyLock) /\ l \in Wanted(c)
  BY DEF AInv, ClientOK, Acquire, Idle, Wanted
<1>2. UNCHANGED <<tables, codes>>
  BY DEF Acquire
<1>3. /\ holds' = [holds EXCEPT ![c] = @ \union {l}] /\ holds'[c] = holds[c] \union {l}
      /\ txn' = [txn EXCEPT ![c].wants = Tail(w)]
      /\ \A d \in Clients \ {c} : txn'[d] = txn[d] /\ holds'[d] = holds[d]
      /\ txn' = [d \in Clients |-> txn'[d]]
  BY DEF Acquire, AInv
<1>4. /\ txn'[c].op = txn[c].op /\ txn'[c].pc = txn[c].pc /\ txn'[c].user = txn[c].user
      /\ txn'[c].arg = txn[c].arg /\ txn'[c].project = txn[c].project
      /\ txn'[c].by = txn[c].by /\ txn'[c].wants = Tail(w)
      /\ txn'[c] = [txn[c] EXCEPT !.wants = Tail(w)]
  BY <1>1, <1>3 DEF AInv, ClientOK
<1>5. l \in AnyLock /\ Tail(w) \in Seq(AnyLock)
      /\ DOMAIN Tail(w) = 1..(Len(w) - 1) /\ Len(w) \in Nat /\ DOMAIN w = 1..Len(w)
      /\ \A i \in DOMAIN Tail(w) : i + 1 \in DOMAIN w /\ Tail(w)[i] = w[i + 1]
  BY <1>1
<1>6. (holds[c] \union Wanted(c))' = holds[c] \union Wanted(c)
  <2>1. ASSUME NEW i \in DOMAIN w PROVE w[i] = l \/ \E j \in DOMAIN Tail(w) : Tail(w)[j] = w[i]
    <3>1. i = 1 \/ (i - 1 \in DOMAIN Tail(w) /\ Tail(w)[i - 1] = w[i])
      BY <1>5
    <3> QED BY <1>1, <3>1
  <2>2. Wanted(c) = {w[i] : i \in DOMAIN w} /\ Wanted(c)' = {Tail(w)[i] : i \in DOMAIN Tail(w)}
    BY <1>4, Zenon DEF Wanted
  <2> HIDE DEF l, w
  <2>3. {Tail(w)[i] : i \in DOMAIN Tail(w)} \subseteq {w[i] : i \in DOMAIN w}
    BY <1>5
  <2>4. {w[i] : i \in DOMAIN w} \subseteq {l} \union {Tail(w)[i] : i \in DOMAIN Tail(w)}
    BY <2>1
  <2> QED BY <1>1, <1>3, <2>2, <2>3, <2>4
<1>7. \A i \in DOMAIN Tail(w) : Before(c, i)' = Before(c, i + 1)
  <2> SUFFICES ASSUME NEW i \in DOMAIN Tail(w) PROVE Before(c, i)' = Before(c, i + 1)
    OBVIOUS
  <2>1. \A j \in 1..(i - 1) : j + 1 \in 1..i /\ Tail(w)[j] = w[j + 1]
    BY <1>5
  <2>2. \A j \in 1..i : j = 1 \/ (j - 1 \in 1..(i - 1) /\ Tail(w)[j - 1] = w[j])
    BY <1>5
  <2>3. (i + 1) - 1 = i /\ 1 \in 1..i
    BY <1>5
  <2>4. l = w[1]
    BY <1>1
  <2>5. Before(c, i + 1) = holds[c] \union {w[j] : j \in 1..i}
    BY <2>3 DEF Before
  <2>6. Before(c, i)' = (holds[c] \union {l}) \union {Tail(w)[j] : j \in 1..(i - 1)}
    <3>1. Before(c, i)' = holds'[c] \union {txn'[c].wants[j] : j \in 1..(i - 1)}
      BY DEF Before
    <3>2. holds'[c] = holds[c] \union {l} /\ txn'[c].wants = Tail(w)
      BY <1>3, <1>4
    <3> HIDE DEF l, w
    <3> QED BY <3>1, <3>2
  <2>7. {w[j] : j \in 1..i} = {l} \union {Tail(w)[j] : j \in 1..(i - 1)}
    <3> HIDE DEF l, w
    <3>1. ASSUME NEW j \in 1..i PROVE w[j] \in {l} \union {Tail(w)[k] : k \in 1..(i - 1)}
      BY <2>2, <2>4
    <3> QED BY <2>1, <2>3, <2>4, <3>1
  <2> QED BY <2>5, <2>6, <2>7
<1>8. InOrder(c)'
  <2>1. InOrder(c)
    BY <1>1 DEF AInv, ClientOK
  <2> SUFFICES ASSUME NEW i \in DOMAIN Tail(w)
               PROVE  LET m == Tail(w)[i] IN
                      /\ m.row[1] = "authority" /\ m.mode # "share" =>
                            \A b \in Before(c, i)' : b.mode = "key" /\ b.row[1] = "user"
                      /\ m.row[1] \in {"user", "credential"} /\ m.mode \in {"nokey", "update"} =>
                            \/ txn'[c].op = "login"
                            \/ Before(c, i)' = {}
                            \/ AdminLock \in Before(c, i)'
                      /\ txn'[c].op = "submit" =>
                            /\ \A b \in Before(c, i)' : b.mode = "share" /\ b.row[1] # "project"
                            /\ Before(c, i)' # {} => Lock(AuthorityLock, "share") \in Before(c, i)'
    BY <1>4 DEF InOrder, AdminLock, Lock, AuthorityLock
  <2>2. Before(c, i)' = Before(c, i + 1) /\ i + 1 \in DOMAIN w /\ Tail(w)[i] = w[i + 1]
    BY <1>5, <1>7
  <2> QED BY <2>1, <2>2, <1>4 DEF InOrder
<1>9. Protected(c)'
  BY <1>1, <1>3, <1>4, <1>6 DEF AInv, ClientOK, Protected, Taken, AdminLock, Lock, AuthorityLock,
     User, Credential
<1>10. Asked(c)' /\ (txn[c].pc = "decided" => Decided(c)')
  <2>1. UNCHANGED <<enabled, counter, projects, role, credentials>>
    BY <1>2 DEF tables
  <2>2. Asked(c)'
    BY <1>1, <1>4, <2>1 DEF AInv, ClientOK, Asked
  <2>3. ASSUME txn[c].pc = "decided" PROVE Decided(c)'
    <3>1. Decided(c)
      BY <1>1, <2>3 DEF AInv, ClientOK
    <3>2. /\ \A p, u : UNCHANGED <<OtherEnabledAdmins(p, u), Administers(u)>>
          /\ \A u, p, k : UNCHANGED <<Acceptable(u, p, k), Active(k)>>
      BY <2>1 DEF OtherEnabledAdmins, Administers, Acceptable, Active
    <3>3. Demotes(c)' <=> Demotes(c)
      BY <1>4, <2>1 DEF Demotes
    <3>4. Lock(Credential(txn[c].arg[2]), "nokey") \in holds[c] \union Wanted(c) =>
          (Lock(Credential(txn[c].arg[2]), "nokey") \in holds[c] \union Wanted(c))'
      BY <1>4, <1>6
    <3> QED BY <1>4, <2>1, <3>1, <3>2, <3>3, <3>4 DEF Decided, Active, Acceptable, OtherEnabledAdmins, Administers
  <2> QED BY <2>2, <2>3
<1>11. ClientOK(c)'
  <2>1. Locks' = Locks
    BY <1>2 DEF Locks, tables
  <2>2. txn'[c] \in [op : Kinds, pc : {"begun", "listed", "decided"}, user : Users,
                     project : Projects \union {NoProject}, by : Users \union {NoUser},
                     arg : {txn'[c].arg}, wants : Seq(AnyLock)]
    BY <1>1, <1>4, <1>5 DEF AInv, ClientOK
  <2> QED BY <1>1, <1>4, <1>6, <1>8, <1>9, <1>10, <2>1, <2>2 DEF AInv, ClientOK
<1>12. LocksExclude'
  <2> SUFFICES ASSUME NEW d \in Clients, NEW e \in Clients, d # e, NEW m \in holds'[d],
                      NEW n \in holds'[e], m.row = n.row
               PROVE  ~Conflicts(m.mode, n.mode)
    BY DEF LocksExclude
  <2>1. ASSUME NEW f \in Clients, f # c, NEW k \in holds[f], k.row = l.row
        PROVE  ~Conflicts(k.mode, l.mode)
    BY <2>1, <1>1 DEF Acquire, Blockers
  <2> HIDE DEF l
  <2>2. CASE d = c
    BY <2>1, <2>2, <1>3, ConflictsSymmetric DEF AInv, LocksExclude
  <2>3. CASE e = c
    BY <2>1, <2>3, <1>3, ConflictsSymmetric DEF AInv, LocksExclude
  <2>4. CASE d # c /\ e # c
    BY <2>4, <1>3 DEF AInv, LocksExclude
  <2> QED BY <2>2, <2>3, <2>4
<1>13. (holds \in [Clients -> SUBSET AnyLock])'
  BY <1>3, <1>5 DEF AInv
<1>14. ASSUME NEW d \in Clients PROVE ClientOK(d)'
  BY <1>2, <1>3, <1>11, OtherClientStays DEF AInv
<1> QED BY <1>2, <1>3, <1>12, <1>13, <1>14, TablesStay DEF AInv
----------------------------------------------------------------------------
(* Commits.                                                                  *)

(* What a commit may change, by the locks its transaction holds.             *)
Effect(c) ==
    /\ AdminLock \notin holds[c] => UNCHANGED <<enabled, role, projects>>
    /\ \A u \in Users : Lock(User(u), "update") \notin holds[c] =>
          enabled'[u] = enabled[u] /\ counter'[u] = counter[u]
    /\ \A k \in DOMAIN credentials :
          /\ k \in DOMAIN credentials'
          /\ credentials'[k].user = credentials[k].user
          /\ credentials'[k].project = credentials[k].project
          /\ credentials'[k].cap = credentials[k].cap
          /\ credentials'[k].active => credentials[k].active
          /\ credentials[k].active /\ ~credentials'[k].active =>
                AdminLock \in holds[c] \/ Lock(Credential(k), "nokey") \in holds[c]

(* Two transactions do not both hold the locks of an authority change, and   *)
(* none holds them while another holds what a submission holds.              *)
LEMMA HeldExclusively ==
    ASSUME AInv, NEW c \in Clients, NEW d \in Clients, c # d
    PROVE  /\ AdminLock \in holds[c] => AdminLock \notin holds[d]
           /\ AdminLock \in holds[c] => Lock(AuthorityLock, "share") \notin holds[d]
           /\ \A k : Lock(Credential(k), "nokey") \in holds[c] =>
                        Lock(Credential(k), "share") \notin holds[d]
           /\ \A u : Lock(User(u), "update") \in holds[c] =>
                        Lock(User(u), "update") \notin holds[d]
<1>1. \A l \in holds[c], m \in holds[d] : l.row = m.row => ~Conflicts(l.mode, m.mode)
  BY DEF AInv, LocksExclude
<1>2. /\ Conflicts("update", "update") /\ Conflicts("update", "share")
      /\ Conflicts("nokey", "share")
  BY DEF Conflicts
<1> QED BY <1>1, <1>2 DEF AdminLock, Lock

(* What a transaction relies on after its decision no other's commit changes. *)
LEMMA DecisionsStand ==
    ASSUME AInv, NEW c \in Clients, NEW d \in Clients, c # d, Effect(c), TablesOK',
           txn'[d] = txn[d], holds'[d] = holds[d], txn[d] # Idle, txn[d].pc = "decided"
    PROVE  Decided(d)'
<1> DEFINE t == txn[d]
<1>1. ClientOK(d) /\ t \in [op : Kinds, pc : {"begun", "listed", "decided"}, user : Users,
                            project : Projects \union {NoProject}, by : Users \union {NoUser},
                            arg : {t.arg}, wants : Seq(AnyLock)]
      /\ Protected(d) /\ Asked(d) /\ Decided(d)
  BY DEF AInv, ClientOK
<1>2. (holds[d] \union Wanted(d))' = holds[d] \union Wanted(d)
  BY DEF Wanted
<1>3. /\ AdminLock \in holds[d] => UNCHANGED <<enabled, role, projects>>
      /\ Lock(AuthorityLock, "share") \in holds[d] => UNCHANGED <<enabled, role, projects>>
  BY HeldExclusively DEF Effect
<1>4. t.op \in {"create", "grant", "revoke", "disable"} => AdminLock \in holds[d]
  BY <1>1 DEF Protected, Taken
<1>5. CASE t.op = "create"
  BY <1>1, <1>3, <1>4, <1>5 DEF Decided
<1>6. CASE t.op \in {"grant", "revoke", "disable"}
  <2>1. /\ UNCHANGED <<enabled, role, projects>>
        /\ \A p, u : UNCHANGED <<OtherEnabledAdmins(p, u), Administers(u)>>
    BY <1>3, <1>4, <1>6 DEF OtherEnabledAdmins, Administers
  <2>2. Demotes(d)' <=> Demotes(d)
    BY <2>1 DEF Demotes
  <2> QED BY <1>1, <1>6, <2>1, <2>2 DEF Decided, OtherEnabledAdmins, Administers
<1>7. CASE t.op = "submit"
  <2>1. /\ Lock(AuthorityLock, "share") \in holds[d] /\ Lock(Credential(t.arg), "share") \in holds[d]
        /\ t.arg \in DOMAIN credentials /\ Acceptable(t.user, t.project, t.arg)
    BY <1>1, <1>7 DEF Protected, Taken, Asked, Decided
  <2>2. AdminLock \notin holds[c] /\ Lock(Credential(t.arg), "nokey") \notin holds[c]
    BY <2>1, HeldExclusively
  <2>3. credentials'[t.arg].active
    <3>1. credentials[t.arg].active
      BY <2>1 DEF Acceptable, Active
    <3>2. credentials'[t.arg].active \in BOOLEAN
      <4>1. t.arg \in DOMAIN credentials' /\ credentials' \in Seq(CredentialRow)
        BY <2>1 DEF TablesOK, Effect
      <4>2. credentials'[t.arg] \in CredentialRow
        BY <4>1
      <4> QED BY <4>2 DEF CredentialRow
    <3> QED BY <2>1, <2>2, <3>1, <3>2 DEF Effect
  <2>4. Acceptable(t.user, t.project, t.arg)'
    BY <1>3, <2>1, <2>3 DEF Acceptable, Active, Effect
  <2> QED BY <1>7, <2>4 DEF Decided, Acceptable, Active, Allows
<1>8. CASE t.op \in {"login", "issue"}
  <2>1. Lock(User(t.user), "update") \in holds[d] /\ t.user \in Users
    BY <1>1, <1>8 DEF Protected, Taken
  <2>2. enabled'[t.user] = enabled[t.user] /\ counter'[t.user] = counter[t.user]
    BY <2>1, HeldExclusively DEF Effect
  <2>3. CASE t.op = "issue"
    BY <1>1, <2>2, <2>3 DEF Decided
  <2>4. CASE t.op = "login"
    <3>1. t.arg[2] # 0 => t.arg[2] \in DOMAIN credentials
      BY <1>1, <2>4 DEF AInv, TablesOK, Asked
    <3>2. t.arg[2] # 0 /\ credentials'[t.arg[2]].active => credentials[t.arg[2]].active
      BY <3>1 DEF Effect
    <3> QED BY <1>1, <1>2, <2>2, <2>4, <3>2 DEF Decided, Active, Lock, Credential
  <2> QED BY <1>8, <2>3, <2>4
<1>9. CASE t.op \in {"logout", "write"}
  BY <1>9 DEF Decided
<1> QED BY <1>1, <1>5, <1>6, <1>7, <1>8, <1>9 DEF Kinds

(* A transaction stays sound through another's commit.                       *)
LEMMA OthersStaySound ==
    ASSUME AInv, NEW c \in Clients, NEW d \in Clients, c # d, Effect(c), TablesOK',
           txn'[d] = txn[d], holds'[d] = holds[d]
    PROVE  ClientOK(d)'
<1>1. CASE txn[d] = Idle /\ holds[d] = {}
  BY <1>1 DEF ClientOK
<1>2. CASE ~(txn[d] = Idle /\ holds[d] = {})
  <2>1. txn[d] # Idle /\ Protected(d) /\ InOrder(d) /\ Asked(d)
        /\ holds[d] \union Wanted(d) \subseteq Locks
        /\ txn[d] \in [op : Kinds, pc : {"begun", "listed", "decided"}, user : Users,
                       project : Projects \union {NoProject}, by : Users \union {NoUser},
                       arg : {txn[d].arg}, wants : Seq(AnyLock)]
    BY <1>2 DEF AInv, ClientOK, Idle
  <2>2. Wanted(d)' = Wanted(d)
    BY DEF Wanted
  <2>3. Protected(d)'
    BY <2>1, <2>2 DEF Protected, Taken, AdminLock
  <2>4. InOrder(d)'
    <3>1. \A i : Before(d, i)' = Before(d, i)
      BY DEF Before
    <3> QED BY <2>1, <3>1 DEF InOrder, AdminLock
  <2>5. /\ \A k \in DOMAIN credentials : k \in DOMAIN credentials'
        /\ Len(credentials) \in Nat /\ Len(credentials') \in Nat
        /\ Len(credentials) <= Len(credentials')
    <3>1. /\ Len(credentials) \in Nat /\ DOMAIN credentials = 1..Len(credentials)
          /\ Len(credentials') \in Nat /\ DOMAIN credentials' = 1..Len(credentials')
      BY DEF AInv, TablesOK
    <3>2. \A k \in DOMAIN credentials : k \in DOMAIN credentials'
      BY DEF Effect
    <3> DEFINE n == Len(credentials)
               m == Len(credentials')
    <3>3. n \in Nat /\ m \in Nat /\ \A k \in 1..n : k \in 1..m
      BY <3>1, <3>2
    <3>4. n <= m
      <4> HIDE DEF n, m
      <4>1. CASE n = 0
        BY <4>1, <3>3
      <4>2. CASE n # 0
        <5>1. n \in 1..n
          BY <3>3, <4>2
        <5> QED BY <5>1, <3>3
      <4> QED BY <4>1, <4>2
    <3> QED BY <3>1, <3>2, <3>4
  <2>6. Asked(d)'
    BY <2>1, <2>5 DEF Asked
  <2>7. (holds[d] \union Wanted(d) \subseteq Locks)'
    <3>1. Locks \subseteq Locks'
      BY <2>5 DEF Locks
    <3> QED BY <2>1, <2>2, <3>1
  <2>8. txn[d].pc = "decided" => Decided(d)'
    BY <2>1, DecisionsStand
  <2> QED BY <2>1, <2>3, <2>4, <2>6, <2>7, <2>8 DEF ClientOK
<1> QED BY <1>1, <1>2

(* A commit or a rollback.                                                   *)
LEMMA EndKeeps ==
    ASSUME AInv, NEW c \in Clients, End(c), Effect(c), TablesOK', RowsOK'
    PROVE  AInv'
<1>1. /\ txn' = [txn EXCEPT ![c] = Idle] /\ holds' = [holds EXCEPT ![c] = {}]
      /\ txn'[c] = Idle /\ holds'[c] = {} /\ txn' = [d \in Clients |-> txn'[d]]
      /\ \A d \in Clients \ {c} : txn'[d] = txn[d] /\ holds'[d] = holds[d]
      /\ (holds \in [Clients -> SUBSET AnyLock])'
  BY DEF End, AInv
<1>2. ASSUME NEW d \in Clients PROVE ClientOK(d)'
  BY <1>1, OthersStaySound DEF ClientOK
<1>3. LocksExclude'
  BY <1>1 DEF AInv, LocksExclude
<1> QED BY <1>1, <1>2, <1>3 DEF AInv

(* A refusal, a rollback, or a commit that only releases.                    *)
LEMMA RefuseKeeps ==
    ASSUME AInv, NEW c \in Clients, Refuse(c)
    PROVE  AInv'
<1>1. Effect(c)
  BY DEF Refuse, tables, Effect
<1> QED BY <1>1, EndKeeps, TablesStay DEF Refuse
----------------------------------------------------------------------------
(* Transactions that begin.                                                  *)

(* Every list of locks asked for is made of locks there are.                *)
LEMMA LocksFormed ==
    /\ \A mode \in Modes : /\ Lock(AuthorityLock, mode) \in Locks \intersect AnyLock
                           /\ \A u \in Users : Lock(User(u), mode) \in Locks \intersect AnyLock
                           /\ \A p \in Projects : Lock(Project(p), mode) \in Locks \intersect AnyLock
    /\ TablesOK => \A mode \in Modes, k \in DOMAIN credentials :
                      Lock(Credential(k), mode) \in Locks \intersect AnyLock
    /\ {"key", "share", "nokey", "update"} = Modes
<1>1. ASSUME NEW mode \in Modes
      PROVE  /\ Lock(AuthorityLock, mode) \in Locks \intersect AnyLock
             /\ \A u \in Users : Lock(User(u), mode) \in Locks \intersect AnyLock
             /\ \A p \in Projects : Lock(Project(p), mode) \in Locks \intersect AnyLock
  BY DEF Lock, Locks, AnyLock, RowNames
<1>2. ASSUME TablesOK, NEW mode \in Modes, NEW k \in DOMAIN credentials
      PROVE  Lock(Credential(k), mode) \in Locks \intersect AnyLock
  <2>1. k \in Nat
    BY <1>2 DEF TablesOK
  <2> QED BY <2>1 DEF Lock, Locks, AnyLock, RowNames
<1> QED BY <1>1, <1>2 DEF Modes

(* What a transaction that begins has and asks for.                          *)
LEMMA BegunFacts ==
    ASSUME AInv, NEW c \in Clients, NEW op, NEW u, NEW p, NEW by, NEW arg, NEW wants,
           Begin(c, op, u, p, by, arg, wants)
    PROVE  /\ UNCHANGED <<tables, holds, codes>>
           /\ txn' = [d \in Clients |-> txn'[d]] /\ \A d \in Clients \ {c} : txn'[d] = txn[d]
           /\ holds'[c] = {} /\ txn'[c] = Begun(op, u, p, by, arg, wants)
           /\ Wanted(c)' = {wants[i] : i \in DOMAIN wants}
           /\ \A i : Before(c, i)' = {wants[j] : j \in 1..(i - 1)}
<1>1. UNCHANGED <<tables, holds, codes>> /\ txn' = [txn EXCEPT ![c] = Begun(op, u, p, by, arg, wants)]
  BY DEF Begin
<1>2. holds[c] = {}
  BY DEF AInv, ClientOK, Begin, Idle, Kinds
<1>3. txn'[c] = Begun(op, u, p, by, arg, wants) /\ txn'[c].wants = wants
  BY <1>1 DEF AInv, Begun
<1>4. Wanted(c)' = {wants[i] : i \in DOMAIN wants}
  BY <1>3 DEF Wanted
<1>5. \A i : Before(c, i)' = {wants[j] : j \in 1..(i - 1)}
  <2>1. \A i : Before(c, i)' = holds'[c] \union {txn'[c].wants[j] : j \in 1..(i - 1)}
    BY DEF Before
  <2> QED BY <2>1, <1>1, <1>2, <1>3
<1> QED BY <1>1, <1>2, <1>3, <1>4, <1>5 DEF AInv

(* A transaction that begins soundly keeps the invariant.                    *)
LEMMA BeginKeeps ==
    ASSUME AInv, NEW c \in Clients, NEW op \in Kinds, NEW u \in Users,
           NEW p \in Projects \union {NoProject}, NEW by \in Users \union {NoUser}, NEW arg,
           NEW wants \in Seq(AnyLock), \A i \in DOMAIN wants : wants[i] \in Locks,
           Begin(c, op, u, p, by, arg, wants), Protected(c)', InOrder(c)', Asked(c)'
    PROVE  AInv'
<1>1. ClientOK(c)'
  <2>1. txn'[c] = Begun(op, u, p, by, arg, wants) /\ holds'[c] = {}
        /\ Wanted(c)' = {wants[i] : i \in DOMAIN wants}
    BY BegunFacts
  <2>2. Locks' = Locks
    BY BegunFacts DEF tables, Locks
  <2>3. (txn[c] \in [op : Kinds, pc : {"begun", "listed", "decided"}, user : Users,
                    project : Projects \union {NoProject}, by : Users \union {NoUser},
                    arg : {txn[c].arg}, wants : Seq(AnyLock)])'
    BY <2>1 DEF Begun
  <2>4. txn'[c].pc = "begun"
    BY <2>1 DEF Begun
  <2> QED BY <2>1, <2>2, <2>3, <2>4 DEF ClientOK
<1> QED BY <1>1, BegunFacts, AsksKeeps

(* What every account and project taken from the tables is.                  *)
LEMMA RequestsTyped ==
    ASSUME AInv
    PROVE  /\ TablesOK
           /\ \A p \in projects : p \in Projects
           /\ \A k \in DOMAIN credentials :
                 /\ credentials[k].user \in Users
                 /\ credentials[k].project \in Projects \union {NoProject}
<1>1. TablesOK
  BY DEF AInv
<1>2. ASSUME NEW k \in DOMAIN credentials PROVE credentials[k] \in CredentialRow
  BY <1>1 DEF TablesOK
<1> QED BY <1>1, <1>2 DEF TablesOK, CredentialRow

(* A transaction that asks for one lock asks for it first.                   *)
LEMMA OneLockInOrder ==
    ASSUME AInv, NEW c \in Clients, NEW op, NEW u, NEW p, NEW by, NEW arg, NEW l,
           Begin(c, op, u, p, by, arg, <<l>>)
    PROVE  InOrder(c)' /\ Wanted(c)' = {l}
<1> DEFINE w == <<l>>
<1>1. DOMAIN w = {1} /\ w[1] = l
  OBVIOUS
<1>2. Begin(c, op, u, p, by, arg, w)
  OBVIOUS
<1> HIDE DEF w
<1>3. /\ \A i : Before(c, i)' = {w[j] : j \in 1..(i - 1)}
      /\ Wanted(c)' = {w[i] : i \in DOMAIN w}
      /\ txn'[c].wants = w
  <2>1. txn'[c] = Begun(op, u, p, by, arg, w)
    BY <1>2, BegunFacts
  <2> QED BY <1>2, <2>1, BegunFacts DEF Begun
<1>4. Before(c, 1)' = {}
  BY <1>3
<1> QED BY <1>1, <1>3, <1>4 DEF InOrder

(* Each kind of transaction begins in a state the invariant describes:      *)
(* here, creating a project.                                                *)
LEMMA CreateBegins ==
    ASSUME AInv, NEW c \in Clients, NEW u \in Users, NEW p \in Projects, CreateBegin(c, u, p)
    PROVE  AInv'
<1> DEFINE a == Lock(User(u), "key")
           q == Lock(Project(p), "update")
           m == Lock(User(u), "update")
           w == <<a, AdminLock, q, m>>
<1>1. Begin(c, "create", u, p, u, "admin", w)
  BY DEF CreateBegin, AdminLock
<1>2. /\ w[1] = a /\ w[2] = AdminLock /\ w[3] = q /\ w[4] = m /\ DOMAIN w = {1, 2, 3, 4}
      /\ {w[i] : i \in DOMAIN w} = {a, AdminLock, q, m}
  OBVIOUS
<1>3. w \in Seq(AnyLock) /\ \A i \in DOMAIN w : w[i] \in Locks
  BY LocksFormed DEF AdminLock
<1>4. /\ txn'[c] = Begun("create", u, p, u, "admin", w) /\ holds'[c] = {}
      /\ Wanted(c)' = {a, AdminLock, q, m}
      /\ \A i : Before(c, i)' = {w[j] : j \in 1..(i - 1)}
  <2> HIDE DEF a, q, m, w
  <2> QED BY <1>1, <1>2, BegunFacts
<1>5. /\ a.mode = "key" /\ a.row[1] = "user" /\ AdminLock.row[1] = "authority"
      /\ q.row[1] = "project" /\ m.row[1] = "user"
  BY DEF Lock, User, Project, AdminLock, AuthorityLock
<1> HIDE DEF a, q, m, w
<1>6. InOrder(c)'
  <2>1. txn'[c].op = "create" /\ txn'[c].wants = w
    BY <1>4 DEF Begun
  <2>2. Before(c, 2)' = {a} /\ AdminLock \in Before(c, 4)'
    <3>1. 1..(2 - 1) = {1} /\ 2 \in 1..(4 - 1)
      OBVIOUS
    <3> QED BY <1>2, <1>4, <3>1
  <2> QED BY <1>2, <1>5, <2>1, <2>2 DEF InOrder, AdminLock
<1>7. Protected(c)' /\ Asked(c)'
  BY <1>4 DEF Begun, Protected, Asked, Taken, AdminLock
<1> QED BY <1>1, <1>3, <1>6, <1>7, BeginKeeps DEF Kinds

(* Granting a membership.                                                   *)
LEMMA GrantBegins ==
    ASSUME AInv, NEW c \in Clients, NEW u \in Users, NEW p \in Projects,
           NEW by \in Users \union {NoUser}, NEW r \in Roles, GrantBegin(c, u, p, by, r)
    PROVE  AInv'
<1> DEFINE q == Lock(Project(p), "update")
           m == Lock(User(u), "update")
           w == <<AdminLock, q, m>>
<1>1. Begin(c, "grant", u, p, by, r, w)
  BY DEF GrantBegin, GrantLocks, AdminLock
<1>2. /\ w[1] = AdminLock /\ w[2] = q /\ w[3] = m /\ DOMAIN w = {1, 2, 3}
      /\ {w[i] : i \in DOMAIN w} = {AdminLock, q, m}
  OBVIOUS
<1>3. w \in Seq(AnyLock) /\ \A i \in DOMAIN w : w[i] \in Locks
  BY LocksFormed DEF AdminLock
<1>4. /\ txn'[c] = Begun("grant", u, p, by, r, w) /\ holds'[c] = {}
      /\ Wanted(c)' = {AdminLock, q, m}
      /\ \A i : Before(c, i)' = {w[j] : j \in 1..(i - 1)}
  <2> HIDE DEF q, m, w
  <2> QED BY <1>1, <1>2, BegunFacts
<1>5. /\ AdminLock.row[1] = "authority" /\ q.row[1] = "project" /\ m.row[1] = "user"
  BY DEF Lock, User, Project, AdminLock, AuthorityLock
<1> HIDE DEF q, m, w
<1>6. InOrder(c)'
  <2>1. txn'[c].op = "grant" /\ txn'[c].wants = w
    BY <1>4 DEF Begun
  <2>2. Before(c, 1)' = {} /\ AdminLock \in Before(c, 3)'
    <3>1. 1..(1 - 1) = {} /\ 1 \in 1..(3 - 1)
      OBVIOUS
    <3> QED BY <1>2, <1>4, <3>1
  <2> QED BY <1>2, <1>5, <2>1, <2>2 DEF InOrder, AdminLock
<1>7. Protected(c)' /\ Asked(c)'
  BY <1>4 DEF Begun, Protected, Asked, Taken, AdminLock
<1> QED BY <1>1, <1>3, <1>6, <1>7, BeginKeeps DEF Kinds

(* Revoking one.                                                            *)
LEMMA RevokeBegins ==
    ASSUME AInv, NEW c \in Clients, NEW u \in Users, NEW p \in Projects, NEW by \in Users,
           RevokeBegin(c, u, p, by)
    PROVE  AInv'
<1> DEFINE q == Lock(Project(p), "update")
           w == <<AdminLock, q>>
<1>1. Begin(c, "revoke", u, p, by, "none", w)
  BY DEF RevokeBegin, AdminLock
<1>2. /\ w[1] = AdminLock /\ w[2] = q /\ DOMAIN w = {1, 2}
      /\ {w[i] : i \in DOMAIN w} = {AdminLock, q}
  OBVIOUS
<1>3. w \in Seq(AnyLock) /\ \A i \in DOMAIN w : w[i] \in Locks
  BY LocksFormed DEF AdminLock
<1>4. /\ txn'[c] = Begun("revoke", u, p, by, "none", w) /\ holds'[c] = {}
      /\ Wanted(c)' = {AdminLock, q}
      /\ \A i : Before(c, i)' = {w[j] : j \in 1..(i - 1)}
  <2> HIDE DEF q, w
  <2> QED BY <1>1, <1>2, BegunFacts
<1>5. /\ AdminLock.row[1] = "authority" /\ q.row[1] = "project"
  BY DEF Lock, Project, AdminLock, AuthorityLock
<1> HIDE DEF q, w
<1>6. InOrder(c)'
  <2>1. txn'[c].op = "revoke" /\ txn'[c].wants = w
    BY <1>4 DEF Begun
  <2>2. Before(c, 1)' = {}
    BY <1>4
  <2> QED BY <1>2, <1>5, <2>1, <2>2 DEF InOrder, AdminLock
<1>7. Protected(c)' /\ Asked(c)'
  BY <1>4 DEF Begun, Protected, Asked, Taken, AdminLock
<1> QED BY <1>1, <1>3, <1>6, <1>7, BeginKeeps DEF Kinds

(* Disabling an account.                                                    *)
LEMMA DisableBegins ==
    ASSUME AInv, NEW c \in Clients, NEW u \in Users, DisableBegin(c, u)
    PROVE  AInv'
<1> DEFINE m == Lock(User(u), "update")
           w == <<AdminLock, m>>
<1>1. Begin(c, "disable", u, NoProject, NoUser, "none", w)
  BY DEF DisableBegin, AdminLock
<1>2. /\ w[1] = AdminLock /\ w[2] = m /\ DOMAIN w = {1, 2}
      /\ {w[i] : i \in DOMAIN w} = {AdminLock, m}
  OBVIOUS
<1>3. w \in Seq(AnyLock) /\ \A i \in DOMAIN w : w[i] \in Locks
  BY LocksFormed DEF AdminLock
<1>4. /\ txn'[c] = Begun("disable", u, NoProject, NoUser, "none", w) /\ holds'[c] = {}
      /\ Wanted(c)' = {AdminLock, m}
      /\ \A i : Before(c, i)' = {w[j] : j \in 1..(i - 1)}
  <2> HIDE DEF m, w
  <2> QED BY <1>1, <1>2, BegunFacts
<1>5. /\ AdminLock.row[1] = "authority" /\ m.row[1] = "user"
  BY DEF Lock, User, AdminLock, AuthorityLock
<1>6. Protected(c)' /\ Asked(c)'
  <2> HIDE DEF w
  <2> QED BY <1>4 DEF Begun, Protected, Asked, Taken, AdminLock
<1> HIDE DEF m, w
<1>7. InOrder(c)'
  <2>1. txn'[c].op = "disable" /\ txn'[c].wants = w
    BY <1>4 DEF Begun
  <2>2. Before(c, 1)' = {} /\ AdminLock \in Before(c, 2)'
    <3>1. 1..(1 - 1) = {} /\ 1 \in 1..(2 - 1)
      OBVIOUS
    <3> QED BY <1>2, <1>4, <3>1
  <2> QED BY <1>2, <1>5, <2>1, <2>2 DEF InOrder, AdminLock
<1> QED BY <1>1, <1>3, <1>6, <1>7, BeginKeeps DEF Kinds

(* Submitting an execution fact.                                            *)
LEMMA SubmitBegins ==
    ASSUME AInv, NEW c \in Clients, NEW p \in Projects, NEW k \in DOMAIN credentials,
           SubmitBegin(c, p, k)
    PROVE  AInv'
<1> DEFINE u == credentials[k].user
           a == Lock(AuthorityLock, "share")
           b == Lock(Credential(k), "share")
           m == Lock(User(u), "share")
           q == Lock(Project(p), "update")
           w == <<a, b, m, q>>
<1>1. Begin(c, "submit", u, p, NoUser, k, w) /\ u \in Users
  BY RequestsTyped DEF SubmitBegin, SubmitLocks
<1>2. /\ w[1] = a /\ w[2] = b /\ w[3] = m /\ w[4] = q /\ DOMAIN w = {1, 2, 3, 4}
      /\ {w[i] : i \in DOMAIN w} = {a, b, m, q}
  OBVIOUS
<1>3. w \in Seq(AnyLock) /\ \A i \in DOMAIN w : w[i] \in Locks
  <2>1. {a, b, m, q} \subseteq Locks \intersect AnyLock
    BY <1>1, LocksFormed, RequestsTyped
  <2> HIDE DEF u, a, b, m, q
  <2> QED BY <2>1
<1>5. /\ a.mode = "share" /\ b.mode = "share" /\ m.mode = "share"
      /\ a.row[1] = "authority" /\ b.row[1] = "credential" /\ m.row[1] = "user"
      /\ q.row[1] = "project"
  BY DEF Lock, User, Project, Credential, AuthorityLock
<1> HIDE DEF u, w
<1>4. /\ txn'[c] = Begun("submit", u, p, NoUser, k, w) /\ holds'[c] = {}
      /\ Wanted(c)' = {a, b, m, q}
      /\ \A i : Before(c, i)' = {w[j] : j \in 1..(i - 1)}
  <2> HIDE DEF a, b, m, q
  <2> QED BY <1>1, <1>2, BegunFacts
<1>7. Protected(c)' /\ Asked(c)'
  <2>1. UNCHANGED credentials
    BY <1>1, BegunFacts DEF tables
  <2> QED BY <1>4, <2>1 DEF Begun, Protected, Asked, Taken, AdminLock
<1>8. /\ Before(c, 1)' = {} /\ Before(c, 2)' = {a} /\ Before(c, 3)' = {a, b}
      /\ Before(c, 4)' = {a, b, m}
  <2> HIDE DEF a, b, m, q
  <2>1. /\ 1..(1 - 1) = {} /\ 1..(2 - 1) = {1} /\ 1..(3 - 1) = {1, 2} /\ 1..(4 - 1) = {1, 2, 3}
    OBVIOUS
  <2> QED BY <1>2, <1>4, <2>1
<1>6. InOrder(c)'
  <2>1. txn'[c].op = "submit" /\ txn'[c].wants = w
    BY <1>4 DEF Begun
  <2>2. Lock(AuthorityLock, "share") = a
    OBVIOUS
  <2> HIDE DEF a, b, m, q
  <2> QED BY <1>2, <1>5, <1>8, <2>1, <2>2 DEF InOrder
<1> QED BY <1>1, <1>3, <1>6, <1>7, BeginKeeps DEF Kinds

(* A planner's write.                                                       *)
LEMMA WriteBegins ==
    ASSUME AInv, NEW c \in Clients, NEW u \in Users, NEW p \in Projects, WriteBegin(c, u, p)
    PROVE  AInv'
<1> DEFINE q == Lock(Project(p), "update")
           m == Lock(User(u), "key")
           w == <<q, m>>
<1>1. Begin(c, "write", u, p, NoUser, "none", w)
  BY DEF WriteBegin
<1>2. /\ w[1] = q /\ w[2] = m /\ DOMAIN w = {1, 2} /\ {w[i] : i \in DOMAIN w} = {q, m}
  OBVIOUS
<1>3. w \in Seq(AnyLock) /\ \A i \in DOMAIN w : w[i] \in Locks
  BY LocksFormed
<1>5. /\ q.row[1] = "project" /\ m.row[1] = "user" /\ m.mode = "key"
  BY DEF Lock, User, Project
<1> HIDE DEF q, m, w
<1>4. txn'[c] = Begun("write", u, p, NoUser, "none", w)
  BY <1>1, BegunFacts
<1>6. InOrder(c)'
  <2>1. txn'[c].op = "write" /\ txn'[c].wants = w
    BY <1>4 DEF Begun
  <2> QED BY <1>2, <1>5, <2>1 DEF InOrder
<1>7. Protected(c)' /\ Asked(c)'
  BY <1>4 DEF Begun, Protected, Asked
<1> QED BY <1>1, <1>3, <1>6, <1>7, BeginKeeps DEF Kinds

(* Logging in.                                                              *)
LEMMA LoginBegins ==
    ASSUME AInv, NEW c \in Clients, NEW u \in Users, NEW code \in 1..MaxCode,
           NEW old \in 0..Len(credentials), LoginBegin(c, u, code, old)
    PROVE  AInv'
<1> DEFINE m == Lock(User(u), "update")
           arg == <<code, old>>
<1>1. Begin(c, "login", u, NoProject, NoUser, arg, <<m>>)
  BY DEF LoginBegin, LoginLocks
<1>2. <<m>> \in Seq(AnyLock) /\ \A i \in DOMAIN <<m>> : <<m>>[i] \in Locks
  BY LocksFormed
<1>3. arg[1] \in Nat /\ arg[2] \in 0..Len(credentials)
  BY BoundsAssumption
<1> HIDE DEF arg
<1>4. txn'[c] = Begun("login", u, NoProject, NoUser, arg, <<m>>) /\ UNCHANGED credentials
  BY <1>1, BegunFacts DEF tables
<1>5. InOrder(c)' /\ Wanted(c)' = {m}
  BY <1>1, OneLockInOrder
<1>6. Asked(c)'
  <2>1. txn'[c].op = "login" /\ txn'[c].arg = arg
    BY <1>4 DEF Begun
  <2> QED BY <1>3, <1>4, <2>1 DEF Asked
<1>7. Protected(c)'
  BY <1>4, <1>5 DEF Begun, Protected, Taken
<1> QED BY <1>1, <1>2, <1>5, <1>6, <1>7, BeginKeeps DEF Kinds

(* Logging out.                                                             *)
LEMMA LogoutBegins ==
    ASSUME AInv, NEW c \in Clients, NEW k \in DOMAIN credentials, LogoutBegin(c, k)
    PROVE  AInv'
<1> DEFINE b == Lock(Credential(k), "nokey")
           u == credentials[k].user
           p == credentials[k].project
<1>1. Begin(c, "logout", u, p, NoUser, k, <<b>>)
      /\ u \in Users /\ p \in Projects \union {NoProject}
  BY RequestsTyped DEF LogoutBegin
<1>2. <<b>> \in Seq(AnyLock) /\ \A i \in DOMAIN <<b>> : <<b>>[i] \in Locks
  <2>1. b \in Locks \intersect AnyLock
    BY LocksFormed, RequestsTyped
  <2> HIDE DEF b
  <2> QED BY <2>1
<1> HIDE DEF u, p
<1>3. txn'[c] = Begun("logout", u, p, NoUser, k, <<b>>) /\ UNCHANGED credentials
  BY <1>1, BegunFacts DEF tables
<1>4. InOrder(c)' /\ Wanted(c)' = {b}
  BY <1>1, OneLockInOrder
<1>5. Protected(c)' /\ Asked(c)'
  BY <1>3, <1>4 DEF Begun, Protected, Taken, Asked
<1> QED BY <1>1, <1>2, <1>4, <1>5, BeginKeeps DEF Kinds

(* Issuing a device token.                                                  *)
LEMMA IssueBegins ==
    ASSUME AInv, NEW c \in Clients, NEW u \in Users, NEW p \in Projects, NEW by \in Users,
           NEW r \in Roles, IssueBegin(c, u, p, by, r)
    PROVE  AInv'
<1> DEFINE m == Lock(User(u), "update")
<1>1. Begin(c, "issue", u, p, by, r, <<m>>)
  BY DEF IssueBegin
<1>2. <<m>> \in Seq(AnyLock) /\ \A i \in DOMAIN <<m>> : <<m>>[i] \in Locks
  <2>1. m \in AnyLock /\ m \in Locks
    BY LocksFormed
  <2> HIDE DEF m
  <2> QED BY ONLY <2>1
<1>3. txn'[c] = Begun("issue", u, p, by, r, <<m>>)
  BY <1>1, BegunFacts
<1>4. InOrder(c)' /\ Wanted(c)' = {m}
  BY <1>1, OneLockInOrder
<1>5. Protected(c)' /\ Asked(c)'
  BY <1>3, <1>4 DEF Begun, Protected, Taken, Asked
<1> QED BY <1>1, <1>2, <1>4, <1>5, BeginKeeps DEF Kinds

(* Whatever a client asks for, the invariant is kept.                       *)
LEMMA AskKeeps ==
    ASSUME AInv, NEW c \in Clients, Ask(c)
    PROVE  AInv'
<1>1. {"viewer", "planner"} \subseteq Roles
  BY DEF Roles
<1> QED
  BY <1>1, CreateBegins, GrantBegins, RevokeBegins, DisableBegins, SubmitBegins, WriteBegins,
     LoginBegins, LogoutBegins, IssueBegins DEF Ask
----------------------------------------------------------------------------
(* Decisions.                                                                *)

(* What a transaction has when it decides, and what a decision leaves alone. *)
LEMMA DecidingFacts ==
    ASSUME AInv, NEW c \in Clients, NEW op \in Kinds, NEW at, Ready(c, op, at)
    PROVE  /\ txn[c].op = op /\ txn[c].user \in Users /\ txn[c].by \in Users \union {NoUser}
           /\ txn[c].project \in Projects \union {NoProject}
           /\ txn[c] \in [op : Kinds, pc : {"begun", "listed", "decided"}, user : Users,
                          project : Projects \union {NoProject}, by : Users \union {NoUser},
                          arg : {txn[c].arg}, wants : Seq(AnyLock)]
           /\ Wanted(c) = {} /\ Protected(c) /\ Asked(c) /\ holds[c] \subseteq Locks
           /\ \A l : Taken(c, l) => l \in holds[c]
           /\ op \in {"create", "grant", "revoke", "disable"} => AdminLock \in holds[c]
           /\ op \in {"disable", "login", "issue"} => Lock(User(txn[c].user), "update") \in holds[c]
           /\ TablesOK
<1>1. txn[c] # Idle
  BY DEF Ready, Idle, Kinds
<1>2. ClientOK(c) /\ TablesOK
  BY DEF AInv
<1>3. Wanted(c) = {} /\ txn[c].op = op
  BY DEF Ready, Wanted
<1>4. \A l : Taken(c, l) => l \in holds[c]
  BY <1>3 DEF Taken
<1>5. Protected(c) /\ Asked(c) /\ holds[c] \subseteq Locks
  BY <1>1, <1>2 DEF ClientOK
<1> QED BY <1>1, <1>2, <1>3, <1>4, <1>5 DEF ClientOK, Protected

(* A transaction that goes on to further locks keeps what its stage         *)
(* promises.                                                                *)
LEMMA GoOnKeeps ==
    ASSUME AInv, NEW c \in Clients, NEW op \in Kinds, NEW at, Ready(c, op, at),
           NEW pc \in {"begun", "listed", "decided"}, NEW wants \in Seq(AnyLock),
           \A i \in DOMAIN wants :
               /\ wants[i] \in Locks /\ wants[i].row[1] # "authority" /\ op # "submit"
               /\ wants[i].row[1] \in {"user", "credential"} /\ wants[i].mode \in {"nokey", "update"}
                     => op = "login" \/ AdminLock \in holds[c],
           GoOn(c, pc, wants),
           (pc = "decided" /\ txn'[c].op = op /\ txn'[c].user = txn[c].user
            /\ txn'[c].project = txn[c].project /\ txn'[c].arg = txn[c].arg
            /\ txn'[c].by = txn[c].by /\ holds'[c] = holds[c]
            /\ Wanted(c)' = {wants[i] : i \in DOMAIN wants}) => Decided(c)'
    PROVE  AInv'
<1>1. /\ txn' = [txn EXCEPT ![c].pc = pc, ![c].wants = wants]
      /\ UNCHANGED <<tables, holds, codes>> /\ holds'[c] = holds[c]
  BY DEF GoOn
<1> DEFINE t == [txn[c] EXCEPT !.pc = pc, !.wants = wants]
<1>2. txn'[c] = t /\ txn' = [d \in Clients |-> txn'[d]]
      /\ \A d \in Clients \ {c} : txn'[d] = txn[d]
  BY <1>1 DEF AInv
<1>3. /\ t \in [op : Kinds, pc : {"begun", "listed", "decided"}, user : Users,
                project : Projects \union {NoProject}, by : Users \union {NoUser},
                arg : {t.arg}, wants : Seq(AnyLock)]
      /\ t.op = op /\ t.pc = pc /\ t.wants = wants /\ t.user = txn[c].user
      /\ t.project = txn[c].project /\ t.arg = txn[c].arg /\ t.by = txn[c].by
  BY DecidingFacts
<1> HIDE DEF t
<1>4. Wanted(c)' = {wants[i] : i \in DOMAIN wants}
  BY <1>2, <1>3 DEF Wanted
<1>5. Protected(c)'
  <2>1. \A l : Taken(c, l) => Taken(c, l)'
    BY <1>1, DecidingFacts DEF Taken
  <2>2. /\ op \in {"create", "grant", "revoke", "disable"} => AdminLock \in holds'[c]
        /\ op \in {"disable", "login", "issue"} => Lock(User(txn[c].user), "update") \in holds'[c]
        /\ op = "submit" => /\ Lock(AuthorityLock, "share") \in holds'[c]
                            /\ Lock(Credential(txn[c].arg), "share") \in holds'[c]
        /\ op = "logout" => Lock(Credential(txn[c].arg), "nokey") \in holds'[c]
    BY <1>1, DecidingFacts DEF Protected
  <2> QED BY <1>2, <1>3, <2>2 DEF Protected, Taken, AdminLock
<1>6. InOrder(c)'
  <2>1. txn'[c].op = op /\ txn'[c].wants = wants
    BY <1>2, <1>3
  <2>2. \A i : AdminLock \in holds[c] => AdminLock \in Before(c, i)'
    BY <1>1 DEF Before, AdminLock
  <2> QED BY <2>1, <2>2 DEF InOrder, AdminLock
<1>7. UNCHANGED credentials /\ Locks' = Locks
  BY <1>1 DEF tables, Locks
<1>8. Asked(c)'
  BY <1>2, <1>3, <1>7, DecidingFacts DEF Asked
<1>9. pc = "decided" => Decided(c)'
  BY <1>1, <1>2, <1>3, <1>4
<1>10. ClientOK(c)'
  <2>1. (holds[c] \union Wanted(c) \subseteq Locks)'
    BY <1>1, <1>4, <1>7, DecidingFacts
  <2> QED BY <1>2, <1>3, <1>5, <1>6, <1>8, <1>9, <2>1 DEF ClientOK
<1> QED BY <1>1, <1>2, <1>10, AsksKeeps

(* A decision that needs no more locks.                                      *)
LEMMA GoOnFreelyKeeps ==
    ASSUME AInv, NEW c \in Clients, NEW op \in Kinds, NEW at, Ready(c, op, at),
           GoOn(c, "decided", <<>>),
           (txn'[c].op = op /\ txn'[c].user = txn[c].user
            /\ txn'[c].project = txn[c].project /\ txn'[c].arg = txn[c].arg) => Decided(c)'
    PROVE  AInv'
<1> DEFINE w == <<>>
<1>1. w \in Seq(AnyLock) /\ GoOn(c, "decided", w) /\ \A i \in DOMAIN w : FALSE
  OBVIOUS
<1> HIDE DEF w
<1> QED BY <1>1, GoOnKeeps

(* Each decision keeps the invariant, whether it goes on or refuses:        *)
(* creating a project.                                                      *)
LEMMA CreateDecides ==
    ASSUME AInv, NEW c \in Clients, CreateDecide(c)
    PROVE  AInv'
<1>1. CASE enabled[txn[c].user]
  <2>1. Ready(c, "create", "begun") /\ GoOn(c, "decided", <<>>) /\ enabled' = enabled
    BY <1>1 DEF CreateDecide, GoOn, tables
  <2>2. txn'[c].op = "create" /\ txn'[c].user = txn[c].user => Decided(c)'
    BY <1>1, <2>1 DEF Decided
  <2> QED BY <2>1, <2>2, GoOnFreelyKeeps DEF Kinds
<1>2. CASE ~enabled[txn[c].user]
  BY <1>2, RefuseKeeps DEF CreateDecide
<1> QED BY <1>1, <1>2

(* The lock the author of a change needs on its account's row.               *)
LEMMA ByListed ==
    ASSUME NEW by \in Users \union {NoUser}
    PROVE  /\ By(by) \in Seq(AnyLock)
           /\ \A i \in DOMAIN By(by) : /\ By(by)[i] \in Locks /\ By(by)[i].row[1] = "user"
                                       /\ By(by)[i].mode = "key"
<1>1. CASE by = NoUser
  BY <1>1 DEF By
<1>2. CASE by # NoUser
  <2> DEFINE l == Lock(User(by), "key")
  <2>1. l \in Locks \intersect AnyLock /\ l.row[1] = "user" /\ l.mode = "key"
    <3>1. l \in Locks \intersect AnyLock
      BY <1>2, LocksFormed
    <3> QED BY <3>1 DEF Lock, User
  <2>2. By(by) = <<l>>
    BY <1>2 DEF By
  <2> HIDE DEF l
  <2> QED BY <2>1, <2>2
<1> QED BY <1>1, <1>2

(* Granting a membership.                                                   *)
LEMMA GrantDecides ==
    ASSUME AInv, NEW c \in Clients, GrantDecide(c)
    PROVE  AInv'
<1> DEFINE u == txn[c].user
           p == txn[c].project
<1>1. CASE enabled[u] /\ (Demotes(c) => OtherEnabledAdmins(p, u) # {})
  <2>1. Ready(c, "grant", "begun") /\ GoOn(c, "decided", By(txn[c].by))
        /\ UNCHANGED <<enabled, role>>
    BY <1>1 DEF GrantDecide, GoOn, tables
  <2>2. ASSUME txn'[c].op = "grant", txn'[c].user = u, txn'[c].project = p, txn'[c].arg = txn[c].arg
        PROVE  Decided(c)'
    <3>1. Demotes(c)' <=> Demotes(c)
      BY <2>1, <2>2 DEF Demotes
    <3>2. OtherEnabledAdmins(txn[c].project, txn[c].user)' = OtherEnabledAdmins(p, u)
      BY <2>1, <2>2 DEF OtherEnabledAdmins
    <3>3. Demotes(c)' => (OtherEnabledAdmins(txn[c].project, txn[c].user) # {})'
      BY <1>1, <3>1, <3>2
    <3> QED BY ONLY <2>2, <3>3 DEF Decided
  <2>3. txn[c].by \in Users \union {NoUser}
    BY <2>1, DecidingFacts DEF Kinds
  <2> QED BY <2>1, <2>2, <2>3, ByListed, GoOnKeeps DEF Kinds
<1>2. CASE ~(enabled[u] /\ (Demotes(c) => OtherEnabledAdmins(p, u) # {}))
  BY <1>2, RefuseKeeps DEF GrantDecide
<1> QED BY <1>1, <1>2

(* Submitting an execution fact.                                            *)
LEMMA SubmitDecides ==
    ASSUME AInv, NEW c \in Clients, SubmitDecide(c)
    PROVE  AInv'
<1> DEFINE ok == Acceptable(txn[c].user, txn[c].project, txn[c].arg)
<1>1. CASE ok
  <2>1. Ready(c, "submit", "begun") /\ GoOn(c, "decided", <<>>)
        /\ UNCHANGED <<enabled, role, credentials>>
    BY <1>1 DEF SubmitDecide, GoOn, tables
  <2>2. ASSUME txn'[c].op = "submit", txn'[c].user = txn[c].user,
               txn'[c].project = txn[c].project, txn'[c].arg = txn[c].arg
        PROVE  Decided(c)'
    BY <1>1, <2>1, <2>2 DEF Decided, Acceptable, Active
  <2> HIDE DEF ok
  <2> QED BY <2>1, <2>2, GoOnFreelyKeeps DEF Kinds
<1>2. CASE ~ok
  BY <1>2, RefuseKeeps DEF SubmitDecide
<1> QED BY <1>1, <1>2

(* Issuing a device token.                                                  *)
LEMMA IssueDecides ==
    ASSUME AInv, NEW c \in Clients, IssueDecide(c)
    PROVE  AInv'
<1> DEFINE u == txn[c].user
           p == txn[c].project
           ok == enabled[u] /\ Allows(role[p][u], txn[c].arg) /\ role[p][txn[c].by] = "admin"
<1>1. CASE ok
  <2>1. Ready(c, "issue", "begun") /\ GoOn(c, "decided", By(txn[c].by)) /\ enabled' = enabled
    BY <1>1 DEF IssueDecide, GoOn, tables
  <2>2. txn'[c].op = "issue" /\ txn'[c].user = u => Decided(c)'
    BY <1>1, <2>1 DEF Decided
  <2>3. txn[c].by \in Users \union {NoUser}
    BY <2>1, DecidingFacts DEF Kinds
  <2> HIDE DEF ok
  <2> QED BY <2>1, <2>2, <2>3, ByListed, GoOnKeeps DEF Kinds
<1>2. CASE ~ok
  BY <1>2, RefuseKeeps DEF IssueDecide
<1> QED BY <1>1, <1>2

(* A login keeps the session it replaces locked, when that is still active.  *)
LEMMA LoginDecides ==
    ASSUME AInv, NEW c \in Clients, LoginDecide(c)
    PROVE  AInv'
<1> DEFINE u == txn[c].user
           code == txn[c].arg[1]
           old == txn[c].arg[2]
           l == Lock(Credential(old), "nokey")
           ok == enabled[u] /\ code > counter[u]
<1>1. CASE ~ok
  BY <1>1, RefuseKeeps DEF LoginDecide
<1>2. Ready(c, "login", "begun")
  BY DEF LoginDecide
<1>3. CASE ok /\ (old = 0 \/ ~Active(old))
  <2>1. GoOn(c, "decided", <<>>) /\ UNCHANGED <<enabled, counter, credentials>>
    BY <1>3 DEF LoginDecide, GoOn, tables
  <2>2. ASSUME txn'[c].op = "login", txn'[c].user = u, txn'[c].arg = txn[c].arg
        PROVE  Decided(c)'
    BY <1>3, <2>1, <2>2 DEF Decided, Active
  <2> HIDE DEF ok, old
  <2> QED BY <1>2, <2>1, <2>2, GoOnFreelyKeeps DEF Kinds
<1>4. CASE ok /\ ~(old = 0 \/ ~Active(old))
  <2>1. GoOn(c, "decided", <<l>>) /\ UNCHANGED <<enabled, counter, credentials>>
    BY <1>4 DEF LoginDecide, GoOn, tables
  <2>2. l \in Locks \intersect AnyLock /\ l.row[1] = "credential" /\ l.mode = "nokey"
    <3>1. TablesOK /\ Asked(c) /\ txn[c].op = "login"
      BY <1>2, DecidingFacts DEF Kinds
    <3>2. old \in DOMAIN credentials
      BY <1>4, <3>1 DEF Asked, TablesOK
    <3>3. l \in Locks \intersect AnyLock
      BY <3>1, <3>2, LocksFormed
    <3> QED BY <3>3 DEF Lock, Credential
  <2> DEFINE w == <<l>>
  <2>3. w \in Seq(AnyLock) /\ DOMAIN w = {1} /\ w[1] = l /\ {w[i] : i \in DOMAIN w} = {l}
    BY <2>2
  <2>5. GoOn(c, "decided", w)
    BY <2>1
  <2> HIDE DEF w
  <2>4. ASSUME txn'[c].op = "login", txn'[c].user = u, txn'[c].arg = txn[c].arg, Wanted(c)' = {l}
        PROVE  Decided(c)'
    BY <1>4, <2>1, <2>4 DEF Decided, Active, Lock, Credential
  <2> HIDE DEF ok, l
  <2> QED BY <1>2, <2>2, <2>3, <2>4, <2>5, GoOnKeeps DEF Kinds
<1> QED BY <1>1, <1>3, <1>4

(* The credentials of an account are rows of the table.                      *)
LEMMA ActiveRows ==
    ASSUME TablesOK, NEW u
    PROVE  Len(credentials) \in Nat /\ DOMAIN credentials = 1..Len(credentials)
           /\ ActiveOf(u) \subseteq 1..Len(credentials)
BY DEF TablesOK, ActiveOf

(* The locks a change of authority takes on the credentials it revokes.      *)
LEMMA RevokedListed ==
    ASSUME TablesOK, NEW S, S \subseteq DOMAIN credentials
    PROVE  LET w == Rows({Credential(k) : k \in S}, "nokey") IN
           /\ w \in Seq(AnyLock)
           /\ \A i \in DOMAIN w : w[i] \in Locks /\ w[i].row[1] = "credential"
<1> DEFINE w == Rows({Credential(k) : k \in S}, "nokey")
           L == [row : {Credential(k) : k \in S}, mode : {"nokey"}]
<1>1. w \in Seq(L)
  BY ActiveRows, CredentialRowsListed
<1>2. \A l \in L : l \in Locks \intersect AnyLock /\ l.row[1] = "credential"
  <2> SUFFICES ASSUME NEW k \in S, NEW l \in L, l = Lock(Credential(k), "nokey")
               PROVE  l \in Locks \intersect AnyLock /\ l.row[1] = "credential"
    BY DEF Lock
  <2>1. l \in Locks \intersect AnyLock
    BY LocksFormed
  <2> QED BY <2>1 DEF Lock, Credential
<1> HIDE DEF w, L
<1>3. \A i \in DOMAIN w : w[i] \in L
  BY <1>1
<1>4. w \in Seq(AnyLock)
  <2>1. Len(w) \in Nat /\ DOMAIN w = 1..Len(w) /\ w \in [1..Len(w) -> L]
    BY <1>1
  <2>2. w \in [1..Len(w) -> AnyLock]
    BY <2>1, <1>2
  <2> QED BY <2>1, <2>2
<1> QED BY <1>2, <1>3, <1>4 DEF w

(* Locks asked for one list after the other.                                 *)
LEMMA ListsJoined ==
    ASSUME NEW T, NEW v \in Seq(T), NEW w \in Seq(T), NEW P,
           \A i \in DOMAIN v : v[i] \in P, \A i \in DOMAIN w : w[i] \in P
    PROVE  v \o w \in Seq(T) /\ \A i \in DOMAIN (v \o w) : (v \o w)[i] \in P
<1>1. /\ v \o w \in Seq(T) /\ DOMAIN (v \o w) = 1..(Len(v) + Len(w))
      /\ \A i \in 1..(Len(v) + Len(w)) :
            (v \o w)[i] = IF i <= Len(v) THEN v[i] ELSE w[i - Len(v)]
      /\ Len(v) \in Nat /\ Len(w) \in Nat /\ DOMAIN v = 1..Len(v) /\ DOMAIN w = 1..Len(w)
  OBVIOUS
<1>2. ASSUME NEW i \in 1..(Len(v) + Len(w)) PROVE (v \o w)[i] \in P
  <2>1. CASE i <= Len(v)
    BY <2>1, <1>1
  <2>2. CASE ~(i <= Len(v))
    <3>1. i - Len(v) \in 1..Len(w)
      BY <2>2, <1>1
    <3> QED BY <2>2, <3>1, <1>1
  <2> QED BY <2>1, <2>2
<1> QED BY <1>1, <1>2

(* Revoking a membership.                                                   *)
LEMMA RevokeDecides ==
    ASSUME AInv, NEW c \in Clients, RevokeDecide(c)
    PROVE  AInv'
<1> DEFINE u == txn[c].user
           p == txn[c].project
           ok == role[p][u] # "none" /\ (role[p][u] = "admin" => OtherEnabledAdmins(p, u) # {})
           a == Lock(User(u), "key")
           rows == Rows({Credential(k) : k \in TokensOf(u, p)}, "nokey")
           w == <<a>> \o By(txn[c].by) \o rows
<1>1. CASE ~ok
  BY <1>1, RefuseKeeps DEF RevokeDecide
<1>2. CASE ok
  <2>1. Ready(c, "revoke", "begun") /\ GoOn(c, "decided", w) /\ UNCHANGED <<enabled, role>>
    BY <1>2 DEF RevokeDecide, GoOn, tables
  <2>2. AdminLock \in holds[c] /\ u \in Users /\ txn[c].by \in Users \union {NoUser} /\ TablesOK
    BY <2>1, DecidingFacts DEF Kinds
  <2> DEFINE P == {l \in Locks : l.row[1] # "authority"}
  <2>3. <<a>> \in Seq(AnyLock) /\ \A i \in DOMAIN <<a>> : <<a>>[i] \in P
    <3>1. a \in Locks \intersect AnyLock
      BY <2>2, LocksFormed
    <3>2. a.row[1] = "user"
      BY DEF Lock, User
    <3> HIDE DEF a
    <3> QED BY <3>1, <3>2
  <2>4. By(txn[c].by) \in Seq(AnyLock) /\ \A i \in DOMAIN By(txn[c].by) : By(txn[c].by)[i] \in P
    BY <2>2, ByListed
  <2>5. rows \in Seq(AnyLock) /\ \A i \in DOMAIN rows : rows[i] \in P
    <3>1. TokensOf(u, p) \subseteq DOMAIN credentials
      BY DEF TokensOf, ActiveOf
    <3> HIDE DEF u, p
    <3> QED BY <2>2, <3>1, RevokedListed
  <2> DEFINE v == <<a>>
             x == v \o By(txn[c].by)
  <2>6. w \in Seq(AnyLock) /\ \A i \in DOMAIN w : w[i] \in P
    <3>1. x \in Seq(AnyLock) /\ \A i \in DOMAIN x : x[i] \in P
      <4>1. v \in Seq(AnyLock) /\ \A i \in DOMAIN v : v[i] \in P
        BY <2>3
      <4> HIDE DEF v, P
      <4> QED BY <2>4, <4>1, ListsJoined
    <3>2. w = x \o rows
      OBVIOUS
    <3> HIDE DEF x, rows, P, w
    <3> QED BY <2>5, <3>1, <3>2, ListsJoined
  <2>7. ASSUME txn'[c].op = "revoke", txn'[c].user = u, txn'[c].project = p
        PROVE  Decided(c)'
    <3>1. \A q, y : OtherEnabledAdmins(q, y)' = OtherEnabledAdmins(q, y)
      BY <2>1 DEF OtherEnabledAdmins
    <3> QED BY <1>2, <2>1, <2>7, <3>1 DEF Decided, OtherEnabledAdmins
  <2> HIDE DEF ok, w
  <2> QED BY <2>1, <2>2, <2>6, <2>7, GoOnKeeps DEF Kinds
<1> QED BY <1>1, <1>2

(* Disabling an account lists the projects it administers.                  *)
LEMMA DisableLists ==
    ASSUME AInv, NEW c \in Clients, DisableList(c)
    PROVE  AInv'
<1> DEFINE u == txn[c].user
<1>1. Ready(c, "disable", "begun")
  BY DEF DisableList
<1>2. AdminLock \in holds[c] /\ u \in Users /\ TablesOK
  BY <1>1, DecidingFacts DEF Kinds
<1>3. CASE enabled[u]
  <2> DEFINE A == Administers(u)
             L == [row : {Project(p) : p \in A}, mode : {"update"}]
             w == Rows({Project(p) : p \in A}, "update")
  <2>1. GoOn(c, "listed", w)
    BY <1>3 DEF DisableList
  <2>2. A \subseteq Projects /\ IsFiniteSet(A)
    BY <1>2, FS_Subset DEF Administers, TablesOK
  <2>3. w \in Seq(L)
    <3> HIDE DEF A
    <3> QED BY <2>2, ProjectRowsListed
  <2>4. \A l \in L : l \in Locks \intersect AnyLock /\ l.row[1] = "project"
    <3> SUFFICES ASSUME NEW p \in A, NEW l \in L, l = Lock(Project(p), "update")
                 PROVE  l \in Locks \intersect AnyLock /\ l.row[1] = "project"
      BY DEF Lock
    <3>1. l \in Locks \intersect AnyLock
      BY <2>2, LocksFormed
    <3> QED BY <3>1 DEF Lock, Project
  <2> HIDE DEF w, L
  <2>5. \A i \in DOMAIN w : w[i] \in L
    BY <2>3
  <2>6. w \in Seq(AnyLock)
    <3>1. Len(w) \in Nat /\ DOMAIN w = 1..Len(w) /\ w \in [1..Len(w) -> L]
      BY <2>3
    <3>2. w \in [1..Len(w) -> AnyLock]
      BY <3>1, <2>4
    <3> QED BY <3>1, <3>2
  <2> QED BY <1>1, <1>2, <2>1, <2>4, <2>5, <2>6, GoOnKeeps DEF Kinds
<1>4. CASE ~enabled[u]
  <2> DEFINE w == Rows({Credential(k) : k \in ActiveOf(u)}, "nokey")
  <2>1. GoOn(c, "decided", w) /\ UNCHANGED enabled
    BY <1>4 DEF DisableList, GoOn, tables
  <2>2. w \in Seq(AnyLock) /\ \A i \in DOMAIN w : w[i] \in Locks /\ w[i].row[1] = "credential"
    <3>1. ActiveOf(u) \subseteq DOMAIN credentials
      BY DEF ActiveOf
    <3> HIDE DEF u
    <3> QED BY <1>2, <3>1, RevokedListed
  <2>3. txn'[c].op = "disable" /\ txn'[c].user = u => Decided(c)'
    BY <1>4, <2>1 DEF Decided
  <2> HIDE DEF w
  <2> QED BY <1>1, <1>2, <2>1, <2>2, <2>3, GoOnKeeps DEF Kinds
<1> QED BY <1>3, <1>4

(* Disabling it: every one of them keeps another administrator.             *)
LEMMA DisableDecides ==
    ASSUME AInv, NEW c \in Clients, DisableDecide(c)
    PROVE  AInv'
<1> DEFINE u == txn[c].user
           ok == \A p \in Administers(u) : OtherEnabledAdmins(p, u) # {}
           w == Rows({Credential(k) : k \in ActiveOf(u)}, "nokey")
<1>1. CASE ~ok
  BY <1>1, RefuseKeeps DEF DisableDecide
<1>2. CASE ok
  <2>1. Ready(c, "disable", "listed") /\ GoOn(c, "decided", w)
        /\ UNCHANGED <<enabled, role, projects>>
    BY <1>2 DEF DisableDecide, GoOn, tables
  <2>2. AdminLock \in holds[c] /\ TablesOK
    BY <2>1, DecidingFacts DEF Kinds
  <2>3. w \in Seq(AnyLock) /\ \A i \in DOMAIN w : w[i] \in Locks /\ w[i].row[1] = "credential"
    <3>1. ActiveOf(u) \subseteq DOMAIN credentials
      BY DEF ActiveOf
    <3> HIDE DEF u
    <3> QED BY <2>2, <3>1, RevokedListed
  <2>4. ASSUME txn'[c].op = "disable", txn'[c].user = u
        PROVE  Decided(c)'
    <3>1. \A q, y : OtherEnabledAdmins(q, y)' = OtherEnabledAdmins(q, y) /\ Administers(y)' = Administers(y)
      BY <2>1 DEF OtherEnabledAdmins, Administers
    <3> QED BY <1>2, <2>1, <2>4, <3>1 DEF Decided, OtherEnabledAdmins, Administers
  <2> HIDE DEF ok, w
  <2> QED BY <2>1, <2>2, <2>3, <2>4, GoOnKeeps DEF Kinds
<1> QED BY <1>1, <1>2

(* Whatever a transaction decides, the invariant is kept.                   *)
LEMMA DecideKeeps ==
    ASSUME AInv, NEW c \in Clients, Decide(c)
    PROVE  AInv'
BY CreateDecides, GrantDecides, RevokeDecides, DisableLists, DisableDecides, SubmitDecides,
   LoginDecides, IssueDecides DEF Decide
----------------------------------------------------------------------------
(* The commits, one by one.                                                  *)

(* What a transaction relies on when it commits.                             *)
LEMMA CommittingFacts ==
    ASSUME AInv, NEW c \in Clients, NEW op \in Kinds, Ready(c, op, "decided")
    PROVE  Decided(c) /\ RowsOK
<1>1. ClientOK(c) /\ RowsOK
  BY DEF AInv
<1>2. txn[c] # Idle /\ txn[c].pc = "decided"
  BY DEF Ready, Idle, Kinds
<1> QED BY <1>1, <1>2 DEF ClientOK

(* Revoking credentials keeps the table's rows.                              *)
LEMMA DeactivatedFacts ==
    ASSUME TablesOK, NEW ks
    PROVE  LET s == Deactivated(ks) IN
           /\ s \in Seq(CredentialRow) /\ DOMAIN s = DOMAIN credentials
           /\ Len(s) = Len(credentials) /\ Len(s) \in Nat
           /\ \A k \in DOMAIN credentials :
                 /\ s[k].user = credentials[k].user /\ s[k].project = credentials[k].project
                 /\ s[k].cap = credentials[k].cap
                 /\ s[k].active = (credentials[k].active /\ k \notin ks)
<1> DEFINE s == Deactivated(ks)
           n == Len(credentials)
<1>1. n \in Nat /\ DOMAIN credentials = 1..n /\ credentials \in [1..n -> CredentialRow]
  BY DEF TablesOK
<1> HIDE DEF n
<1>2. s = [k \in 1..n |-> [credentials[k] EXCEPT !.active = @ /\ k \notin ks]]
  BY <1>1 DEF Deactivated
<1>3. ASSUME NEW k \in 1..n
      PROVE  /\ s[k] \in CredentialRow
             /\ s[k].user = credentials[k].user /\ s[k].project = credentials[k].project
             /\ s[k].cap = credentials[k].cap
             /\ s[k].active = (credentials[k].active /\ k \notin ks)
  <2>1. credentials[k] \in CredentialRow
    BY <1>1
  <2>2. s[k] = [credentials[k] EXCEPT !.active = @ /\ k \notin ks]
    BY <1>2
  <2> QED BY <2>1, <2>2 DEF CredentialRow
<1>4. DOMAIN s = 1..n /\ s \in [1..n -> CredentialRow]
  BY <1>2, <1>3
<1> HIDE DEF s
<1>5. s \in Seq(CredentialRow) /\ Len(s) = n
  BY <1>1, <1>4
<1> QED BY <1>1, <1>3, <1>4, <1>5 DEF n, s

(* A new credential is the last row.                                         *)
LEMMA AddedFacts ==
    ASSUME NEW s \in Seq(CredentialRow), NEW r \in CredentialRow
    PROVE  LET t == Append(s, r) IN
           /\ t \in Seq(CredentialRow) /\ DOMAIN t = DOMAIN s \union {Len(s) + 1}
           /\ \A k \in DOMAIN s : t[k] = s[k]
           /\ t[Len(s) + 1] = r /\ Len(s) + 1 \notin DOMAIN s
<1> DEFINE n == Len(s)
<1>1. n \in Nat /\ DOMAIN s = 1..n
  OBVIOUS
<1>2. /\ Append(s, r) \in Seq(CredentialRow) /\ DOMAIN Append(s, r) = 1..(n + 1)
      /\ \A k \in 1..n : Append(s, r)[k] = s[k]
      /\ Append(s, r)[n + 1] = r
  OBVIOUS
<1> HIDE DEF n
<1>3. 1..(n + 1) = (1..n) \union {n + 1} /\ n + 1 \notin 1..n
  BY <1>1
<1> QED BY <1>1, <1>2, <1>3 DEF n

(* Each commit keeps the invariant: creating a project.                     *)
LEMMA CreateCommits ==
    ASSUME AInv, NEW c \in Clients, CreateCommit(c)
    PROVE  AInv'
<1> DEFINE u == txn[c].user
           p == txn[c].project
<1>1. Ready(c, "create", "decided") /\ End(c) /\ projects' = projects \union {p}
      /\ role' = [role EXCEPT ![p][u] = "admin"]
      /\ UNCHANGED <<enabled, counter, credentials, codes>>
  BY DEF CreateCommit
<1>2. AdminLock \in holds[c] /\ u \in Users /\ TablesOK /\ p \in Projects
  BY <1>1, DecidingFacts DEF Kinds, Asked
<1>3. enabled[u] /\ RowsOK
  BY <1>1, CommittingFacts DEF Kinds, Decided, Ready
<1> HIDE DEF u, p
<1>4. Effect(c)
  BY <1>1, <1>2 DEF Effect
<1>5. TablesOK'
  <2>1. IsFiniteSet(projects')
    BY <1>1, <1>2, FS_AddElement DEF TablesOK
  <2>2. (role \in [Projects -> [Users -> Roles]])'
    BY <1>1, <1>2 DEF TablesOK, Roles
  <2> QED BY <1>1, <1>2, <2>1, <2>2 DEF TablesOK
<1>6. RowsOK'
  <2>1. AdministratorsRemain'
    <3> SUFFICES ASSUME NEW q \in projects' PROVE \E v \in Users : enabled'[v] /\ role'[q][v] = "admin"
      BY DEF AdministratorsRemain
    <3>1. CASE q = p
      BY <1>1, <1>2, <1>3, <3>1 DEF TablesOK
    <3>2. CASE q # p
      BY <1>1, <1>2, <1>3, <3>2 DEF TablesOK, RowsOK, AdministratorsRemain
    <3> QED BY <3>1, <3>2
  <2> QED BY <1>1, <1>3, <2>1 DEF RowsOK, DisabledHoldsNothing, ActiveOf, Active, CodesCounted
<1> QED BY <1>1, <1>4, <1>5, <1>6, EndKeeps

(* Granting a membership.                                                   *)
LEMMA GrantCommits ==
    ASSUME AInv, NEW c \in Clients, GrantCommit(c)
    PROVE  AInv'
<1> DEFINE u == txn[c].user
           p == txn[c].project
           r == txn[c].arg
<1>1. Ready(c, "grant", "decided") /\ End(c) /\ role' = [role EXCEPT ![p][u] = r]
      /\ UNCHANGED <<enabled, counter, projects, credentials, codes>>
  BY DEF GrantCommit
<1>2. AdminLock \in holds[c] /\ u \in Users /\ TablesOK /\ p \in Projects /\ r \in Roles
  BY <1>1, DecidingFacts DEF Kinds, Asked
<1>3. (role[p][u] = "admin" /\ r # "admin" => OtherEnabledAdmins(p, u) # {}) /\ RowsOK
  BY <1>1, CommittingFacts DEF Kinds, Decided, Ready, Demotes
<1> HIDE DEF u, p, r
<1>4. Effect(c)
  BY <1>1, <1>2 DEF Effect
<1>5. TablesOK'
  BY <1>1, <1>2 DEF TablesOK
<1>6. \A q \in Projects, v \in Users :
         role'[q][v] = IF q = p /\ v = u THEN r ELSE role[q][v]
  BY <1>1, <1>2 DEF TablesOK
<1>7. AdministratorsRemain'
  <2> SUFFICES ASSUME NEW q \in projects PROVE \E v \in Users : enabled[v] /\ role'[q][v] = "admin"
    BY <1>1 DEF AdministratorsRemain
  <2>1. q \in Projects
    BY <1>2 DEF TablesOK
  <2>2. PICK v \in Users : enabled[v] /\ role[q][v] = "admin"
    BY <1>3 DEF RowsOK, AdministratorsRemain
  <2>3. CASE q = p /\ v = u /\ r # "admin"
    <3>1. PICK x \in Users \ {u} : role[p][x] = "admin" /\ enabled[x]
      BY <1>3, <2>2, <2>3 DEF OtherEnabledAdmins
    <3> QED BY <1>6, <2>1, <2>3, <3>1
  <2>4. CASE ~(q = p /\ v = u /\ r # "admin")
    BY <1>6, <2>1, <2>2, <2>4
  <2> QED BY <2>3, <2>4
<1>8. RowsOK'
  BY <1>1, <1>3, <1>7 DEF RowsOK, DisabledHoldsNothing, ActiveOf, Active, CodesCounted
<1> QED BY <1>1, <1>4, <1>5, <1>8, EndKeeps

(* Revoking one, with its tokens.                                           *)
LEMMA RevokeCommits ==
    ASSUME AInv, NEW c \in Clients, RevokeCommit(c)
    PROVE  AInv'
<1> DEFINE u == txn[c].user
           p == txn[c].project
           ks == TokensOf(u, p)
<1>1. Ready(c, "revoke", "decided") /\ End(c) /\ role' = [role EXCEPT ![p][u] = "none"]
      /\ credentials' = Deactivated(ks)
      /\ UNCHANGED <<enabled, counter, projects, codes>>
  BY DEF RevokeCommit
<1>2. AdminLock \in holds[c] /\ u \in Users /\ TablesOK /\ p \in Projects
  BY <1>1, DecidingFacts DEF Kinds, Asked
<1>3. (role[p][u] = "admin" => OtherEnabledAdmins(p, u) # {}) /\ RowsOK
  BY <1>1, CommittingFacts DEF Kinds, Decided, Ready
<1> HIDE DEF u, p, ks
<1>4. /\ credentials' \in Seq(CredentialRow) /\ DOMAIN credentials' = DOMAIN credentials
      /\ \A k \in DOMAIN credentials :
            /\ credentials'[k].user = credentials[k].user
            /\ credentials'[k].project = credentials[k].project
            /\ credentials'[k].cap = credentials[k].cap
            /\ credentials'[k].active = (credentials[k].active /\ k \notin ks)
  BY <1>1, <1>2, DeactivatedFacts
<1>5. Effect(c)
  BY <1>1, <1>2, <1>4 DEF Effect
<1>6. TablesOK'
  <2>1. (role \in [Projects -> [Users -> Roles]])'
    BY <1>1, <1>2 DEF TablesOK, Roles
  <2> QED BY <1>1, <1>2, <1>4, <2>1 DEF TablesOK
<1>7. AdministratorsRemain'
  <2> SUFFICES ASSUME NEW q \in projects PROVE \E v \in Users : enabled[v] /\ role'[q][v] = "admin"
    BY <1>1 DEF AdministratorsRemain
  <2>0. \A v \in Users : role'[q][v] = IF q = p /\ v = u THEN "none" ELSE role[q][v]
    BY <1>1, <1>2 DEF TablesOK
  <2>2. PICK v \in Users : enabled[v] /\ role[q][v] = "admin"
    BY <1>3 DEF RowsOK, AdministratorsRemain
  <2>3. CASE q = p /\ v = u
    <3>1. PICK x \in Users \ {u} : role[p][x] = "admin" /\ enabled[x]
      BY <1>3, <2>2, <2>3 DEF OtherEnabledAdmins
    <3> QED BY <2>0, <2>3, <3>1
  <2>4. CASE ~(q = p /\ v = u)
    BY <2>0, <2>2, <2>4
  <2> QED BY <2>3, <2>4
<1>8. DisabledHoldsNothing'
  BY <1>1, <1>3, <1>4 DEF RowsOK, DisabledHoldsNothing, ActiveOf, Active
<1>9. RowsOK'
  BY <1>1, <1>3, <1>7, <1>8 DEF RowsOK, CodesCounted
<1> QED BY <1>1, <1>5, <1>6, <1>9, EndKeeps

(* Disabling an account, with all it held.                                  *)
LEMMA DisableCommits ==
    ASSUME AInv, NEW c \in Clients, DisableCommit(c)
    PROVE  AInv'
<1> DEFINE u == txn[c].user
           ks == ActiveOf(u)
<1>1. Ready(c, "disable", "decided") /\ End(c) /\ enabled' = [enabled EXCEPT ![u] = FALSE]
      /\ credentials' = Deactivated(ks) /\ UNCHANGED <<counter, projects, role, codes>>
  BY DEF DisableCommit
<1>2. AdminLock \in holds[c] /\ Lock(User(u), "update") \in holds[c] /\ u \in Users /\ TablesOK
  BY <1>1, DecidingFacts DEF Kinds
<1>3. (enabled[u] => \A q \in Administers(u) : OtherEnabledAdmins(q, u) # {}) /\ RowsOK
  BY <1>1, CommittingFacts DEF Kinds, Decided, Ready
<1>4. /\ credentials' \in Seq(CredentialRow) /\ DOMAIN credentials' = DOMAIN credentials
      /\ \A k \in DOMAIN credentials :
            /\ credentials'[k].user = credentials[k].user
            /\ credentials'[k].project = credentials[k].project
            /\ credentials'[k].cap = credentials[k].cap
            /\ credentials'[k].active = (credentials[k].active /\ k \notin ks)
  BY <1>1, <1>2, DeactivatedFacts
<1> HIDE DEF u
<1>5. Effect(c)
  <2>1. \A v \in Users : Lock(User(v), "update") \notin holds[c] => enabled'[v] = enabled[v]
    BY <1>1, <1>2 DEF TablesOK
  <2> QED BY <1>1, <1>2, <1>4, <2>1 DEF Effect
<1>6. TablesOK'
  BY <1>1, <1>2, <1>4 DEF TablesOK
<1>7. AdministratorsRemain'
  <2> SUFFICES ASSUME NEW q \in projects PROVE \E v \in Users : enabled'[v] /\ role[q][v] = "admin"
    BY <1>1 DEF AdministratorsRemain
  <2>1. \A v \in Users : v # u => enabled'[v] = enabled[v]
    BY <1>1, <1>2 DEF TablesOK
  <2>2. PICK v \in Users : enabled[v] /\ role[q][v] = "admin"
    BY <1>3 DEF RowsOK, AdministratorsRemain
  <2>3. CASE v = u
    <3>1. PICK x \in Users \ {u} : role[q][x] = "admin" /\ enabled[x]
      BY <1>3, <2>2, <2>3 DEF OtherEnabledAdmins, Administers
    <3> QED BY <2>1, <3>1
  <2> QED BY <2>1, <2>2, <2>3
<1>8. DisabledHoldsNothing'
  <2> SUFFICES ASSUME NEW v \in Users, ~enabled'[v], NEW k \in DOMAIN credentials,
                      credentials'[k].user = v, credentials'[k].active
               PROVE  FALSE
    BY <1>4 DEF DisabledHoldsNothing, ActiveOf, Active
  <2>1. credentials[k].user = v /\ credentials[k].active /\ k \notin ks
    BY <1>4
  <2>2. v # u
    BY <2>1 DEF ActiveOf, Active
  <2>3. ~enabled[v]
    BY <1>1, <1>2, <2>2 DEF TablesOK
  <2> QED BY <1>3, <2>1, <2>3 DEF RowsOK, DisabledHoldsNothing, ActiveOf, Active
<1>9. RowsOK'
  BY <1>1, <1>3, <1>7, <1>8 DEF RowsOK, CodesCounted
<1> QED BY <1>1, <1>5, <1>6, <1>9, EndKeeps

(* The login's account is enabled and its code later than any consumed, and  *)
(* the lock on the account has kept both since it decided.                   *)
LEMMA LoginCommits ==
    ASSUME AInv, NEW c \in Clients, LoginCommit(c)
    PROVE  AInv'
<1> DEFINE u == txn[c].user
           code == txn[c].arg[1]
           old == txn[c].arg[2]
           s == Deactivated({old})
           n == Len(s) + 1
<1>1. Ready(c, "login", "decided") /\ End(c) /\ counter' = [counter EXCEPT ![u] = code]
      /\ codes' = [codes EXCEPT ![u] = Append(codes[u], code)]
      /\ credentials' = Append(s, Session(u)) /\ UNCHANGED <<enabled, projects, role>>
  BY DEF LoginCommit
<1>2. /\ Lock(User(u), "update") \in holds[c] /\ u \in Users /\ TablesOK /\ Wanted(c) = {}
      /\ code \in Nat /\ old \in 0..Len(credentials)
  BY <1>1, DecidingFacts DEF Kinds, Asked
<1>3. /\ enabled[u] /\ code > counter[u] /\ RowsOK
      /\ old # 0 /\ Active(old) => Lock(Credential(old), "nokey") \in holds[c]
  BY <1>1, <1>2, CommittingFacts DEF Kinds, Decided, Ready
<1>4. /\ s \in Seq(CredentialRow) /\ DOMAIN s = DOMAIN credentials
      /\ \A k \in DOMAIN credentials :
            /\ s[k].user = credentials[k].user
            /\ s[k].project = credentials[k].project
            /\ s[k].cap = credentials[k].cap
            /\ s[k].active = (credentials[k].active /\ k \notin {old})
  BY <1>2, DeactivatedFacts
<1>5. Session(u) \in CredentialRow /\ Session(u).user = u
  BY <1>2 DEF Session, CredentialRow, Roles
<1>6. \A k \in DOMAIN credentials : k # 0
  BY <1>2 DEF TablesOK
<1> HIDE DEF u, code, old, s
<1>7. /\ credentials' \in Seq(CredentialRow) /\ DOMAIN credentials' = DOMAIN credentials \union {n}
      /\ \A k \in DOMAIN credentials : credentials'[k] = s[k]
      /\ credentials'[n] = Session(u) /\ n \notin DOMAIN credentials
  BY <1>1, <1>4, <1>5, AddedFacts
<1> HIDE DEF n
<1>8. Effect(c)
  <2>1. \A v \in Users : Lock(User(v), "update") \notin holds[c] => counter'[v] = counter[v]
    BY <1>1, <1>2 DEF TablesOK
  <2> QED BY <1>1, <1>2, <1>3, <1>4, <1>6, <1>7, <2>1 DEF Effect, Active
<1>9. TablesOK'
  <2>1. (codes \in [Users -> Seq(Nat)])'
    <3>1. Append(codes[u], code) \in Seq(Nat)
      BY <1>2 DEF TablesOK
    <3> QED BY <1>1, <1>2, <3>1 DEF TablesOK
  <2> QED BY <1>1, <1>2, <1>7, <2>1 DEF TablesOK
<1>10. DisabledHoldsNothing'
  <2> SUFFICES ASSUME NEW v \in Users, ~enabled[v], NEW k \in DOMAIN credentials',
                      credentials'[k].user = v, credentials'[k].active
               PROVE  FALSE
    BY <1>1 DEF DisabledHoldsNothing, ActiveOf, Active
  <2>1. CASE k = n
    BY <1>3, <1>5, <1>7, <2>1
  <2>2. CASE k \in DOMAIN credentials
    BY <1>3, <1>4, <1>7, <2>2 DEF RowsOK, DisabledHoldsNothing, ActiveOf, Active
  <2> QED BY <1>7, <2>1, <2>2
<1>11. CodesCounted'
  <2> SUFFICES ASSUME NEW v \in Users, NEW i \in DOMAIN codes'[v]
               PROVE  codes'[v][i] <= counter'[v]
    BY DEF CodesCounted
  <2>1. CASE v # u
    BY <1>1, <1>2, <1>3, <2>1 DEF TablesOK, RowsOK, CodesCounted
  <2>2. CASE v = u
    <3> DEFINE q == codes[u]
    <3>1. q \in Seq(Nat) /\ counter[u] \in Nat /\ counter'[u] = code /\ codes'[u] = Append(q, code)
      BY <1>1, <1>2 DEF TablesOK
    <3>2. \A j \in DOMAIN q : q[j] <= counter[u]
      BY <1>2, <1>3 DEF RowsOK, CodesCounted
    <3> HIDE DEF q
    <3>3. i \in 1..(Len(q) + 1) /\ Len(q) \in Nat /\ DOMAIN q = 1..Len(q)
      BY <2>2, <3>1
    <3>4. CASE i = Len(q) + 1
      BY <1>2, <2>2, <3>1, <3>4
    <3>5. CASE i # Len(q) + 1
      <4>1. i \in DOMAIN q /\ codes'[u][i] = q[i] /\ q[i] \in Nat
        BY <3>1, <3>3, <3>5
      <4>2. q[i] <= counter[u] /\ counter[u] < code
        BY <1>3, <3>2, <4>1
      <4> QED BY <1>2, <2>2, <3>1, <4>1, <4>2
    <3> QED BY <3>4, <3>5
  <2> QED BY <2>1, <2>2
<1>12. RowsOK'
  BY <1>1, <1>3, <1>10, <1>11 DEF RowsOK, AdministratorsRemain
<1> QED BY <1>1, <1>8, <1>9, <1>12, EndKeeps

(* Logging out.                                                             *)
LEMMA LogoutCommits ==
    ASSUME AInv, NEW c \in Clients, LogoutCommit(c)
    PROVE  AInv'
<1> DEFINE k == txn[c].arg
<1>1. Ready(c, "logout", "begun") /\ End(c) /\ credentials' = Deactivated({k})
      /\ UNCHANGED <<enabled, counter, projects, role, codes>>
  BY DEF LogoutCommit
<1>2. Lock(Credential(k), "nokey") \in holds[c] /\ TablesOK /\ RowsOK
  BY <1>1, DecidingFacts DEF Kinds, Protected, AInv
<1> HIDE DEF k
<1>3. /\ credentials' \in Seq(CredentialRow) /\ DOMAIN credentials' = DOMAIN credentials
      /\ \A j \in DOMAIN credentials :
            /\ credentials'[j].user = credentials[j].user
            /\ credentials'[j].project = credentials[j].project
            /\ credentials'[j].cap = credentials[j].cap
            /\ credentials'[j].active = (credentials[j].active /\ j \notin {k})
  BY <1>1, <1>2, DeactivatedFacts
<1>4. Effect(c)
  BY <1>1, <1>2, <1>3 DEF Effect
<1>5. TablesOK'
  BY <1>1, <1>2, <1>3 DEF TablesOK
<1>6. RowsOK'
  BY <1>1, <1>2, <1>3 DEF RowsOK, AdministratorsRemain, DisabledHoldsNothing, CodesCounted, ActiveOf,
     Active
<1> QED BY <1>1, <1>4, <1>5, <1>6, EndKeeps

(* Issuing a device token.                                                  *)
LEMMA IssueCommits ==
    ASSUME AInv, NEW c \in Clients, IssueCommit(c)
    PROVE  AInv'
<1> DEFINE u == txn[c].user
           r == Token(u, txn[c].project, txn[c].arg)
           n == Len(credentials) + 1
<1>1. Ready(c, "issue", "decided") /\ End(c) /\ credentials' = Append(credentials, r)
      /\ UNCHANGED <<enabled, counter, projects, role, codes>>
  BY DEF IssueCommit
<1>2. TablesOK /\ u \in Users /\ txn[c].project \in Projects /\ txn[c].arg \in Roles
  BY <1>1, DecidingFacts DEF Kinds, Asked
<1>3. enabled[u] /\ RowsOK
  BY <1>1, CommittingFacts DEF Kinds, Decided, Ready
<1>4. r \in CredentialRow /\ r.user = u
  BY <1>2 DEF Token, CredentialRow
<1>5. credentials \in Seq(CredentialRow)
  BY <1>2 DEF TablesOK
<1> HIDE DEF u, r
<1>6. /\ credentials' \in Seq(CredentialRow) /\ DOMAIN credentials' = DOMAIN credentials \union {n}
      /\ \A k \in DOMAIN credentials : credentials'[k] = credentials[k]
      /\ credentials'[n] = r /\ n \notin DOMAIN credentials
  BY <1>1, <1>4, <1>5, AddedFacts
<1> HIDE DEF n
<1>7. Effect(c)
  BY <1>1, <1>6 DEF Effect
<1>8. TablesOK'
  BY <1>1, <1>2, <1>6 DEF TablesOK
<1>9. DisabledHoldsNothing'
  BY <1>1, <1>3, <1>4, <1>6 DEF RowsOK, DisabledHoldsNothing, ActiveOf, Active
<1>10. RowsOK'
  BY <1>1, <1>3, <1>9 DEF RowsOK, AdministratorsRemain, CodesCounted
<1> QED BY <1>1, <1>7, <1>8, <1>10, EndKeeps

(* Whatever is committed, the invariant is kept.                            *)
LEMMA CommitKeeps ==
    ASSUME AInv, NEW c \in Clients, Commit(c)
    PROVE  AInv'
BY CreateCommits, GrantCommits, RevokeCommits, DisableCommits, LoginCommits, LogoutCommits,
   IssueCommits, RefuseKeeps DEF Commit, SubmitCommit, WriteCommit
----------------------------------------------------------------------------
(* The founders of the projects are administrators, and still signed in.     *)
LEMMA InitKeeps == Init => AInv
<1> SUFFICES ASSUME Init PROVE AInv
  OBVIOUS
<1> DEFINE n == Cardinality(projects)
<1>1. PICK founder \in [projects -> Users] :
        /\ role = [p \in Projects |-> [u \in Users |->
                      IF p \in projects /\ founder[p] = u THEN "admin" ELSE "none"]]
        /\ credentials = [k \in 1..n |-> Session(founder[SetToSeq(projects)[k]])]
  BY DEF Init
<1>2. projects \subseteq Projects /\ IsFiniteSet(projects)
  BY FoundedAssumption, FS_Subset DEF Init
<1>3. SetToSeq(projects) \in [1..n -> projects] /\ n \in Nat
  BY <1>2, SetToSeqLists
<1> HIDE DEF n
<1>4. credentials \in Seq(CredentialRow)
  <2>1. ASSUME NEW u \in Users PROVE Session(u) \in CredentialRow
    BY DEF Session, CredentialRow, Roles
  <2>2. \A k \in 1..n : founder[SetToSeq(projects)[k]] \in Users
    BY <1>3
  <2>3. credentials \in [1..n -> CredentialRow]
    BY <1>1, <2>1, <2>2
  <2> QED BY <1>3, <2>3
<1>5. role \in [Projects -> [Users -> Roles]]
  BY <1>1 DEF Roles
<1>6. TablesOK
  BY <1>2, <1>4, <1>5 DEF Init, TablesOK
<1>7. AdministratorsRemain
  <2> SUFFICES ASSUME NEW p \in projects PROVE \E u \in Users : enabled[u] /\ role[p][u] = "admin"
    BY DEF AdministratorsRemain
  <2>1. founder[p] \in Users /\ p \in Projects
    BY <1>2
  <2>2. role[p][founder[p]] = "admin"
    BY <1>1, <2>1
  <2> QED BY <2>1, <2>2 DEF Init
<1>8. RowsOK
  BY <1>7 DEF Init, RowsOK, DisabledHoldsNothing, CodesCounted
<1>9. \A c \in Clients : txn[c] = Idle /\ holds[c] = {}
  BY DEF Init
<1>10. txn = [c \in Clients |-> txn[c]] /\ holds \in [Clients -> SUBSET AnyLock]
  BY DEF Init
<1> QED BY <1>6, <1>8, <1>9, <1>10 DEF AInv, ClientOK, LocksExclude

(* One step of the system.                                                   *)
LEMMA NextKeeps ==
    ASSUME AInv, [Next]_vars
    PROVE  AInv'
<1>1. ASSUME NEW c \in Clients, Ask(c) \/ Acquire(c) \/ Decide(c) \/ Commit(c) \/ Rollback(c)
      PROVE  AInv'
  BY <1>1, AskKeeps, AcquireKeeps, DecideKeeps, CommitKeeps, RefuseKeeps DEF Rollback
<1>2. CASE UNCHANGED vars
  <2>1. UNCHANGED <<tables, codes>> /\ UNCHANGED <<txn, holds>>
    BY <1>2 DEF vars
  <2>2. ASSUME NEW d \in Clients PROVE ClientOK(d)'
    BY <2>1, OtherClientStays DEF AInv
  <2> QED BY <2>1, <2>2, TablesStay DEF AInv, LocksExclude
<1> QED BY <1>1, <1>2 DEF Next

(* The tables are well-formed, locks exclude each other, and every           *)
(* transaction holds what protects what it decided.                          *)
THEOREM AuthorityInvariance == Spec => []AInv
<1>1. AInv /\ [Next]_vars => AInv'
  BY NextKeeps
<1> QED BY InitKeeps, <1>1, PTL DEF Spec
----------------------------------------------------------------------------
(* What follows from the invariant.                                          *)

(* The tables and the transactions in progress hold what they should.        *)
THEOREM AuthorityTyped == Spec => []TypeOK
<1>1. ASSUME AInv PROVE TypeOK
  <2> SUFFICES ASSUME NEW c \in Clients
               PROVE  /\ txn[c] # Idle => /\ txn[c].op \in Kinds
                                          /\ txn[c].pc \in {"begun", "listed", "decided"}
                                          /\ txn[c].user \in Users
                                          /\ \A i \in DOMAIN txn[c].wants : txn[c].wants[i] \in Locks
                      /\ holds[c] \subseteq Locks
    BY <1>1 DEF TypeOK, AInv, TablesOK, CredentialRow
  <2>1. ClientOK(c)
    BY <1>1 DEF AInv
  <2> QED BY <2>1 DEF ClientOK, Wanted
<1> QED BY <1>1, AuthorityInvariance, PTL

(* Every project keeps an enabled administrator, whatever demotions,         *)
(* revocations and account disables race (_other_enabled_admins): each holds *)
(* the authority lock from its check of the others to its commit.            *)
THEOREM ProjectsKeepAdministrators == Spec => []AdministratorsRemain
<1>1. AInv => AdministratorsRemain
  BY DEF AInv, RowsOK
<1> QED BY <1>1, AuthorityInvariance, PTL

(* A disabled account has no session and no device token left: a login or a  *)
(* token issued to it holds its row from the check of the account until it   *)
(* commits, and the disable revokes what is there when it commits.           *)
THEOREM DisabledAccountsHoldNothing == Spec => []DisabledHoldsNothing
<1>1. AInv => DisabledHoldsNothing
  BY DEF AInv, RowsOK
<1> QED BY <1>1, AuthorityInvariance, PTL

(* A one-time code opens at most one session (AuthService.login).            *)
THEOREM CodesOpenOneSession == Spec => []CodesAreUsedOnce
<1>1. ASSUME AInv PROVE CodesAreUsedOnce
  <2> SUFFICES ASSUME NEW c \in Clients, NEW u \in Users, NEW code \in 0..MaxCode,
                      Entering(c, u, code)
               PROVE  /\ \A i \in DOMAIN codes[u] : codes[u][i] < code
                      /\ \A d \in Clients \ {c} : ~Entering(d, u, code)
    BY DEF CodesAreUsedOnce
  <2>1. ASSUME NEW d \in Clients, Entering(d, u, code)
        PROVE  Lock(User(u), "update") \in holds[d] /\ code > counter[u]
    <3>1. ClientOK(d) /\ txn[d] # Idle
      BY <1>1, <2>1 DEF AInv, Entering, Idle
    <3>2. Protected(d) /\ Decided(d)
      BY <2>1, <3>1 DEF ClientOK, Entering
    <3> QED BY <2>1, <3>2 DEF Entering, Protected, Decided, Taken
  <2>2. ASSUME NEW i \in DOMAIN codes[u] PROVE codes[u][i] < code
    <3>1. counter[u] \in Nat /\ codes[u][i] \in Nat /\ code \in Int
      BY <1>1, BoundsAssumption DEF AInv, TablesOK
    <3>2. codes[u][i] <= counter[u]
      BY <1>1 DEF AInv, RowsOK, CodesCounted
    <3> QED BY <2>1, <3>1, <3>2
  <2>3. ASSUME NEW d \in Clients \ {c} PROVE ~Entering(d, u, code)
    BY <1>1, <2>1, HeldExclusively
  <2> QED BY <2>2, <2>3
<1> QED BY <1>1, AuthorityInvariance, PTL

(* From the check of a submission until its commit, the authority it was     *)
(* accepted with stands (live_operations.submit): no other transaction can   *)
(* commit a change to the membership, the account or the credential.         *)
THEOREM AcceptedStaysAuthorized == Spec => []AcceptedIsAuthorized
<1>1. ASSUME AInv PROVE AcceptedIsAuthorized
  <2> SUFFICES ASSUME NEW c \in Clients, Ready(c, "submit", "decided")
               PROVE  Acceptable(txn[c].user, txn[c].project, txn[c].arg)
    BY DEF AcceptedIsAuthorized
  <2> QED BY <1>1, CommittingFacts DEF Kinds, Decided, Ready
<1> QED BY <1>1, AuthorityInvariance, PTL

(* In a cycle every transaction is waited for by another of the cycle.       *)
LEMMA CycleMembersBlock ==
    ASSUME NEW S, Cycle(S), NEW d \in S, NEW e \in S, d # e
    PROVE  \E x \in S : d \in Blockers(x)
<1> SUFFICES ASSUME \A x \in S : d \notin Blockers(x) PROVE FALSE
  OBVIOUS
<1> DEFINE T == S \ {d}
<1>1. Deadlocked(T)
  <2>1. e \in T
    OBVIOUS
  <2>2. ASSUME NEW x \in T PROVE Blockers(x) \cap T # {}
    <3>1. Blockers(x) \cap S # {}
      BY DEF Cycle, Deadlocked
    <3> QED BY <3>1
  <2> QED BY <2>1, <2>2 DEF Deadlocked
<1>2. T = S
  BY <1>1 DEF Cycle
<1> QED BY <1>2

(* A transaction that waits asks for a row in a mode that excludes what the  *)
(* one it waits for holds, and asks for it in order.                         *)
LEMMA WaitingFacts ==
    ASSUME AInv, NEW c \in Clients, NEW d \in Blockers(c)
    PROVE  LET h == Head(txn[c].wants) IN
           /\ d \in Clients /\ d # c /\ txn[c] # Idle
           /\ \E l \in holds[d] : l.row = h.row /\ Conflicts(l.mode, h.mode)
           /\ h.row[1] = "authority" /\ h.mode # "share" =>
                 \A b \in holds[c] : b.mode = "key" /\ b.row[1] = "user"
           /\ h.row[1] \in {"user", "credential"} /\ h.mode \in {"nokey", "update"} =>
                 txn[c].op = "login" \/ holds[c] = {} \/ AdminLock \in holds[c]
           /\ txn[c].op = "submit" =>
                 /\ \A b \in holds[c] : b.mode = "share" /\ b.row[1] # "project"
                 /\ holds[c] # {} => Lock(AuthorityLock, "share") \in holds[c]
<1> DEFINE w == txn[c].wants
<1>1. w # <<>> /\ d \in Clients /\ d # c
      /\ \E l \in holds[d] : l.row = Head(w).row /\ Conflicts(l.mode, Head(w).mode)
  BY DEF Blockers
<1>2. txn[c] # Idle
  BY <1>1 DEF Idle
<1>3. InOrder(c) /\ w \in Seq(AnyLock)
  BY <1>2 DEF AInv, ClientOK
<1>4. 1 \in DOMAIN w /\ Head(w) = w[1] /\ Before(c, 1) = holds[c]
  <2>1. 1 \in DOMAIN w /\ Head(w) = w[1]
    BY <1>1, <1>3
  <2>2. 1..(1 - 1) = {}
    OBVIOUS
  <2> QED BY <2>1, <2>2 DEF Before
<1> HIDE DEF w
<1>5. LET h == w[1] IN
      /\ h.row[1] = "authority" /\ h.mode # "share" =>
            \A b \in Before(c, 1) : b.mode = "key" /\ b.row[1] = "user"
      /\ h.row[1] \in {"user", "credential"} /\ h.mode \in {"nokey", "update"} =>
            txn[c].op = "login" \/ Before(c, 1) = {} \/ AdminLock \in Before(c, 1)
      /\ txn[c].op = "submit" =>
            /\ \A b \in Before(c, 1) : b.mode = "share" /\ b.row[1] # "project"
            /\ Before(c, 1) # {} => Lock(AuthorityLock, "share") \in Before(c, 1)
  BY <1>3, <1>4 DEF InOrder, w
<1> QED BY <1>1, <1>2, <1>4, <1>5 DEF w

(* A submission that waits holds only shared locks, the authority lock among *)
(* them.  Who waits for it waits to write a shared row: without a login      *)
(* only an authority change that has nothing but the creator's foreign key,  *)
(* and who waits for that one has the authority lock, which the submission   *)
(* excludes (lock_auth_state_for_acceptance).                                *)
THEOREM SubmissionsNeverDeadlock == Spec => []SubmitNeverDeadlocks
<1>1. ASSUME AInv PROVE SubmitNeverDeadlocks
  <2> SUFFICES ASSUME NEW S \in SUBSET Clients, Cycle(S), NEW s \in S, txn[s].op = "submit",
                      \A d \in S : txn[d].op # "login"
               PROVE  FALSE
    BY DEF SubmitNeverDeadlocks
  <2> USE <1>1
  <2>1. \A x \in S : \E d \in S : d \in Blockers(x)
    BY DEF Cycle, Deadlocked
  <2>2. PICK e \in S : e \in Blockers(s)
    BY <2>1
  <2>3. e # s /\ \A b \in holds[s] : b.mode = "share" /\ b.row[1] # "project"
    BY <2>2, WaitingFacts
  <2>4. ASSUME NEW x \in S
        PROVE  \E y \in S : x \in Blockers(y)
    <3>1. \E z \in S : z # x
      BY <2>3
    <3> QED BY <3>1, CycleMembersBlock
  <2>5. PICK x \in S : s \in Blockers(x)
    BY <2>4
  <2>6. ASSUME NEW z \in S PROVE holds[z] # {}
    <3>1. PICK y \in S : z \in Blockers(y)
      BY <2>4
    <3> QED BY <3>1, WaitingFacts
  <2>7. Lock(AuthorityLock, "share") \in holds[s]
    BY <2>2, <2>6, WaitingFacts
  <2>8. ASSUME NEW z \in S PROVE AdminLock \notin holds[z]
    <3>1. CASE z = s
      BY <2>3, <3>1 DEF AdminLock, Lock
    <3>2. CASE z # s
      BY <2>7, <3>2, HeldExclusively
    <3> QED BY <3>1, <3>2
  <2> DEFINE h == Head(txn[x].wants)
  <2>9. PICK l \in holds[s] : l.row = h.row /\ Conflicts("share", h.mode)
    BY <2>3, <2>5, WaitingFacts
  <2>10. h.mode \in {"nokey", "update"} /\ h.row[1] # "project"
    BY <2>3, <2>9, ConflictsOfWeakModes
  <2>11. h.row[1] \in {"authority", "user", "credential"}
    <3>1. txn[x] # Idle /\ txn[x].wants # <<>>
      BY <2>5 DEF Blockers, Idle
    <3>2. txn[x].wants \in Seq(AnyLock)
      BY <3>1 DEF AInv, ClientOK
    <3>3. h \in AnyLock
      BY <3>1, <3>2
    <3> QED BY <2>10, <3>3 DEF AnyLock, RowNames, AuthorityLock, User, Project, Credential
  <2>12. h.row[1] = "authority"
    BY <2>5, <2>6, <2>8, <2>10, <2>11, WaitingFacts
  <2>13. \A b \in holds[x] : b.mode = "key" /\ b.row[1] = "user"
    BY <2>5, <2>10, <2>12, WaitingFacts
  <2>14. PICK y \in S : x \in Blockers(y)
    BY <2>4
  <2> DEFINE g == Head(txn[y].wants)
  <2>15. PICK k \in holds[x] : k.row = g.row /\ Conflicts("key", g.mode)
    BY <2>13, <2>14, WaitingFacts
  <2>16. g.mode = "update" /\ g.row[1] = "user"
    BY <2>13, <2>15, ConflictsOfWeakModes
  <2> QED BY <2>6, <2>8, <2>14, <2>16, WaitingFacts
<1> QED BY <1>1, AuthorityInvariance, PTL
=============================================================================
