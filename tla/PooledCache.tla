----------------------------- MODULE PooledCache -----------------------------
(***************************************************************************)
(* The requests of ResidentCache as the API process runs them: each is     *)
(* authenticated and authorized on a borrowed connection before its        *)
(* handler starts, handlers borrow connections from one bounded pool, and  *)
(* _state_lock may be held while a connection is awaited, and awaited while *)
(* one is held.                                                            *)
(***************************************************************************)
EXTENDS ResidentCache, FiniteSets

CONSTANT PoolSize       \* max_size of the pool
ASSUME PoolAssumption == PoolSize \in Nat \ {0}

VARIABLES
    visit,      \* each request thread: how far its request is, and what it asks
    conns,      \* the threads that have a connection
    lock        \* the thread that holds _state_lock, if any

pooled == <<vars, visit, conns, lock>>

Away == [stage |-> "away", asks |-> "nothing"]
Asks == Purposes \union {"live"}
At(c, stage) == visit[c].stage = stage
Serving(c, asks) == At(c, "allowed") /\ visit[c].asks = asks /\ req[c] = Idle
Moves(c, stage) == visit' = [visit EXCEPT ![c].stage = stage]
Leaves(c) == visit' = [visit EXCEPT ![c] = Away]

(* A request whose handler has returned to rest is answered.                *)
AnsweredWhenIdle(c) == IF req'[c] = Idle THEN Leaves(c) ELSE UNCHANGED visit

----------------------------------------------------------------------------
(* The pool and the lock.                                                  *)

Diagnosing(c) == Loads(c, "read") /\ ~req[c].ok

WantsConnection(c) ==
    /\ c \notin conns
    /\ \/ At(c, "arrived") \/ At(c, "known") \/ Serving(c, "live")
       \/ Loads(c, "missed") \/ Imports(c, "prepared")
       \/ Diagnosing(c) /\ lock = {c} /\ resident \in {0, req[c].row}

WantsLock(c) ==
    /\ c \notin lock
    /\ Loads(c, "read") \/ Imports(c, "publishing") \/ req[c].op = "live"

Borrow(c) ==
    /\ WantsConnection(c) /\ Cardinality(conns) < PoolSize
    /\ conns' = conns \union {c}
    /\ UNCHANGED <<vars, visit, lock>>

TakeLock(c) ==
    /\ WantsLock(c) /\ lock = {}
    /\ lock' = {c}
    /\ UNCHANGED <<vars, visit, conns>>

Returns(c) == conns' = conns \ {c} /\ lock' = lock \ {c}

(* The pool raises PoolTimeout in a thread that has waited long enough; its  *)
(* request ends in an error, and what it held is released on the way out.   *)
NeverTimesOut(c) == WantsConnection(c) /\ lock # {c}
MayTimeOut(c) == WantsConnection(c)
TimeOut(c) ==
    /\ MayTimeOut(c) /\ Cardinality(conns) = PoolSize
    /\ Becomes(c, Idle) /\ Leaves(c) /\ Returns(c)
    /\ UNCHANGED <<database, memory>>

----------------------------------------------------------------------------
(* A request, step by step.                                                *)

Arrive(c, asks) ==
    /\ At(c, "away")
    /\ visit' = [visit EXCEPT ![c] = [stage |-> "arrived", asks |-> asks]]
    /\ UNCHANGED <<vars, conns, lock>>

(* The session or device token, then the membership, each read on its own    *)
(* connection and perhaps refused.                                          *)
Authenticate(c) ==
    /\ At(c, "arrived") /\ c \in conns
    /\ Moves(c, "known") \/ Leaves(c)
    /\ Returns(c) /\ UNCHANGED vars

Authorize(c) ==
    /\ At(c, "known") /\ c \in conns
    /\ Moves(c, "allowed") \/ Leaves(c)
    /\ Returns(c) /\ UNCHANGED vars

AnswerFromMemory(c) ==
    /\ Serving(c, "show") /\ resident # 0 /\ lock = {}
    /\ Leaves(c) /\ UNCHANGED <<vars, conns, lock>>

StartLoad(c) ==
    /\ \E purpose \in Purposes : Serving(c, purpose) /\ LoadMiss(c, purpose)
    /\ lock = {}
    /\ UNCHANGED <<visit, conns, lock>>

(* Reading the row or committing gives the connection back. A commit beyond  *)
(* the bound on stored versions is taken to fail.                           *)
BeyondBound(c) == Imports(c, "prepared") /\ stored = MaxVersions /\ Abandon(c)
OnConnection(c) ==
    /\ c \in conns
    /\ LoadRow(c) \/ ImportCommit(c) \/ BeyondBound(c)
    /\ AnsweredWhenIdle(c) /\ Returns(c)

(* Publishing, under the lock.                                             *)
UnderLock(c) ==
    /\ lock = {c}
    /\ LoadInstall(c) \/ ImportPublish(c)
    /\ AnsweredWhenIdle(c) /\ Returns(c)

(* A failed load needs a connection to see whether its row is still the      *)
(* head, unless a newer resident copy answers that.                         *)
Diagnose(c) ==
    /\ lock = {c} /\ ~WantsConnection(c)
    /\ LoadQuarantine(c)
    /\ Leaves(c) /\ Returns(c)

(* submit commits, and publishes before its connection goes back.           *)
Submit(c) ==
    /\ Serving(c, "live") /\ c \in conns
    /\ LiveCommit(c)
    /\ UNCHANGED <<visit, conns, lock>>

RefuseSubmit(c) ==
    /\ Serving(c, "live") /\ c \in conns
    /\ Leaves(c) /\ Returns(c) /\ UNCHANGED vars

SubmitPublish(c) ==
    /\ lock = {c}
    /\ LivePublish(c)
    /\ Leaves(c) /\ Returns(c)

Fail(c) ==
    /\ Abandon(c) /\ lock # {c}
    /\ Leaves(c) /\ Returns(c)

Restart ==
    /\ Boot
    /\ visit' = [c \in Clients |-> Away] /\ conns' = {} /\ lock' = {}

PooledInit ==
    /\ Init
    /\ visit = [c \in Clients |-> Away] /\ conns = {} /\ lock = {}

GoesOn(c) ==
    \/ Borrow(c) \/ TakeLock(c)
    \/ Authenticate(c) \/ Authorize(c)
    \/ AnswerFromMemory(c) \/ StartLoad(c)
    \/ OnConnection(c) \/ UnderLock(c) \/ Diagnose(c)
    \/ Submit(c) \/ RefuseSubmit(c) \/ SubmitPublish(c)

PooledNext ==
    \/ \E c \in Clients :
          \/ \E asks \in Asks : Arrive(c, asks)
          \/ GoesOn(c) \/ TimeOut(c) \/ Fail(c)
    \/ \E v \in 1..MaxVersions : Damage(v) /\ UNCHANGED <<visit, conns, lock>>
    \/ Restart

(* A running thread goes on; a lock or a connection that is free again and   *)
(* again is eventually had; a wait on the pool ends after its timeout.      *)
Fairness ==
    \A c \in Clients :
        /\ SF_pooled(GoesOn(c))
        /\ WF_pooled(TimeOut(c))

PooledSpec == PooledInit /\ [][PooledNext]_pooled /\ Fairness

----------------------------------------------------------------------------
(* Properties.                                                             *)

(* Every request is answered, although a load that diagnoses its row waits   *)
(* for a connection under the lock while the connections may all be with    *)
(* submissions that wait for the lock (Workspace.load, submit).             *)
RequestsAreAnswered == \A c \in Clients : ~At(c, "away") ~> At(c, "away")
=============================================================================
