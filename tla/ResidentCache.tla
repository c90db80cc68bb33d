--------------------------- MODULE ResidentCache ---------------------------
(***************************************************************************)
(* The in-memory side of Workspace for one project: the decoded resident   *)
(* head and the integrity diagnoses that the health route reports.  Both   *)
(* are published by request threads under _state_lock, at some point after *)
(* the transaction or the read they report on, so publication may happen   *)
(* in another order than the commits.  A version's number is its sequence; *)
(* 0 stands for none.  ScheduleStore models the transactions themselves.   *)
(***************************************************************************)
EXTENDS Integers

CONSTANTS
    Clients,        \* request threads
    MaxVersions     \* bound on stored versions

ASSUME BoundAssumption == MaxVersions \in Nat

VARIABLES
    stored,         \* how many versions the database holds
    baseline,       \* the baseline head, in the database
    live,           \* the live head, in the database
    damaged,        \* versions whose stored bytes do not verify
    resident,       \* _resident: the version decoded in memory
    failure,        \* integrity_failures: the baseline version diagnosed
    liveFailure,    \* live_integrity_failures: the live version diagnosed
    req             \* what each request thread holds in its locals

database == <<stored, baseline, live, damaged>>
memory == <<resident, failure, liveFailure>>
vars == <<database, memory, req>>

Versions == 0..MaxVersions
Idle == [op |-> "idle"]

(* Why a thread loads: to answer the schedule route (which may use the      *)
(* resident copy), to calculate, or as the first step of an import.         *)
Purposes == {"show", "calculate", "import"}
Refreshes(purpose) == purpose # "show"

Loading(pc, purpose, row, ok) ==
    [op |-> "load", pc |-> pc, purpose |-> purpose, row |-> row, ok |-> ok]
Importing(pc, version) == [op |-> "import", pc |-> pc, version |-> version]
Executing(base) == [op |-> "live", base |-> base]

Request ==
    {Idle}
    \union [op : {"load"}, pc : {"missed", "read"}, purpose : Purposes,
            row : Versions, ok : BOOLEAN]
    \union [op : {"import"}, pc : {"prepared", "publishing"}, version : Versions]
    \union [op : {"live"}, base : Versions]

Loads(c, pc) == req[c].op = "load" /\ req[c].pc = pc
Imports(c, pc) == req[c].op = "import" /\ req[c].pc = pc
Becomes(c, r) == req' = [req EXCEPT ![c] = r]
Verifies(v) == v \notin damaged

----------------------------------------------------------------------------
(* Workspace.load                                                          *)

(* A hit on the resident copy answers at once and changes nothing.          *)
LoadMiss(c, purpose) ==
    /\ req[c] = Idle
    /\ Refreshes(purpose) \/ resident = 0
    /\ Becomes(c, Loading("missed", purpose, 0, TRUE))
    /\ UNCHANGED <<database, memory>>

AfterLoad(purpose, row) == IF purpose = "import" THEN Importing("prepared", row) ELSE Idle

LoadRow(c) ==
    /\ Loads(c, "missed")
    /\ Becomes(c, IF baseline = 0 THEN AfterLoad(req[c].purpose, 0)
                  ELSE Loading("read", req[c].purpose, baseline, Verifies(baseline)))
    /\ UNCHANGED <<database, memory>>

(* The row verified: any diagnosis is dropped, and unless this was a refresh *)
(* the row becomes resident.                                                *)
LoadInstallAccused(c) ==
    /\ Loads(c, "read") /\ req[c].ok
    /\ resident' = req[c].row
    /\ Becomes(c, AfterLoad(req[c].purpose, req[c].row))
    /\ UNCHANGED <<database, failure, liveFailure>>

LoadInstall(c) ==
    /\ Loads(c, "read") /\ req[c].ok
    /\ failure' = 0
    /\ resident' = IF Refreshes(req[c].purpose) THEN resident ELSE req[c].row
    /\ Becomes(c, AfterLoad(req[c].purpose, req[c].row))
    /\ UNCHANGED <<database, liveFailure>>

(* It did not: only a version that is still the head, with no newer copy    *)
(* resident, is diagnosed and evicted.  The second head read happens under  *)
(* _state_lock, so no publication comes between it and the diagnosis.       *)
DiagnosableUnlessNewer(v) == resident \in {0, v}
Diagnosable(v) == resident \in {0, v} /\ baseline = v

LoadQuarantine(c) ==
    /\ Loads(c, "read") /\ ~req[c].ok
    /\ IF Diagnosable(req[c].row)
       THEN resident' = 0 /\ failure' = req[c].row
       ELSE UNCHANGED <<resident, failure>>
    /\ Becomes(c, Idle)
    /\ UNCHANGED <<database, liveFailure>>

----------------------------------------------------------------------------
(* Workspace.import_file after its load: the transaction, then publication. *)

NextSequence == stored + 1

ImportCommit(c) ==
    /\ Imports(c, "prepared") /\ stored < MaxVersions
    /\ IF baseline = req[c].version
       THEN /\ stored' = NextSequence /\ baseline' = NextSequence /\ live' = 0
            /\ Becomes(c, Importing("publishing", NextSequence))
       ELSE Becomes(c, Idle) /\ UNCHANGED <<stored, baseline, live>>
    /\ UNCHANGED <<damaged, memory>>

ImportPublishBaselineOnly(c) ==
    /\ Imports(c, "publishing")
    /\ resident' = req[c].version
    /\ failure' = 0
    /\ Becomes(c, Idle)
    /\ UNCHANGED <<database, liveFailure>>

ImportPublish(c) ==
    /\ Imports(c, "publishing")
    /\ resident' = req[c].version
    /\ failure' = 0 /\ liveFailure' = 0
    /\ Becomes(c, Idle)
    /\ UNCHANGED database

----------------------------------------------------------------------------
(* live_operations.submit: the transaction verifies the version it builds   *)
(* on, then publishes.                                                      *)

ActiveLive == IF live # 0 THEN live ELSE baseline

LiveCommit(c) ==
    /\ req[c] = Idle /\ stored < MaxVersions
    /\ baseline # 0 /\ Verifies(ActiveLive)
    /\ stored' = NextSequence /\ live' = NextSequence
    /\ Becomes(c, Executing(ActiveLive))
    /\ UNCHANGED <<baseline, damaged, memory>>

LivePublish(c) ==
    /\ req[c].op = "live"
    /\ liveFailure' = 0
    /\ Becomes(c, Idle)
    /\ UNCHANGED <<database, resident, failure>>

----------------------------------------------------------------------------
(* A stored version stops verifying: its row was edited, or the JSONB round *)
(* trip or a codec change altered what comes back.                          *)
Damage(v) ==
    /\ v \in 1..stored /\ Verifies(v)
    /\ damaged' = damaged \union {v}
    /\ UNCHANGED <<stored, baseline, live, memory, req>>

(* A request fails where nothing is waiting to be published.                *)
Abandon(c) ==
    /\ req[c].op = "load" \/ Imports(c, "prepared")
    /\ Becomes(c, Idle)
    /\ UNCHANGED <<database, memory>>

(* The process restarts; Workspace.rebuild has the database to itself until *)
(* it serves its first request.                                             *)
Boot ==
    /\ req' = [c \in Clients |-> Idle]
    /\ resident' = IF Verifies(baseline) THEN baseline ELSE 0
    /\ failure' = IF Verifies(baseline) THEN 0 ELSE baseline
    /\ liveFailure' = IF Verifies(live) THEN 0 ELSE live
    /\ UNCHANGED database

----------------------------------------------------------------------------
Init ==
    /\ stored = 0 /\ baseline = 0 /\ live = 0 /\ damaged = {}
    /\ resident = 0 /\ failure = 0 /\ liveFailure = 0
    /\ req = [c \in Clients |-> Idle]

Step(c) ==
    \/ \E purpose \in Purposes : LoadMiss(c, purpose)
    \/ LoadRow(c) \/ LoadInstall(c) \/ LoadQuarantine(c)
    \/ ImportCommit(c) \/ ImportPublish(c)
    \/ LiveCommit(c) \/ LivePublish(c)
    \/ Abandon(c)

Next ==
    \/ \E c \in Clients : Step(c)
    \/ \E v \in 1..MaxVersions : Damage(v)
    \/ Boot

Spec == Init /\ [][Next]_vars

----------------------------------------------------------------------------
(* Properties.                                                             *)

(* The database pointers, the cache and the threads hold version numbers.   *)
TypeOK ==
    /\ stored \in Versions /\ baseline \in Versions /\ live \in Versions
    /\ damaged \subseteq Versions
    /\ resident \in Versions /\ failure \in Versions /\ liveFailure \in Versions
    /\ req \in [Clients -> Request]

Publishing == \E c \in Clients : Imports(c, "publishing")

(* The health route accuses a baseline only while it is the head and its    *)
(* bytes are bad: a slow verification of an old head never accuses the new  *)
(* one, and an import's publication clears what it supersedes.              *)
AccusesOnlyTheHead ==
    /\ failure # 0 => failure \in damaged
    /\ failure \notin {0, baseline} => Publishing

(* The same of the live head's diagnosis.                                   *)
LiveAccusesOnlyTheHead ==
    /\ liveFailure # 0 => liveFailure \in damaged
    /\ liveFailure \notin {0, live} => Publishing

(* A diagnosis and a served copy exclude each other: whenever the schedule  *)
(* route can answer from memory, no baseline is reported as failing.        *)
QuarantinedIsNotServed == failure # 0 => resident = 0

(* "Every project's resident head": when no request is in progress, the     *)
(* decoded copy is the head.                                                *)
ResidentIsHead ==
    (\A c \in Clients : req[c] = Idle) => resident \in {0, baseline}
=============================================================================
