------------------------ MODULE ResidentCacheProofs ------------------------
(* The health route's diagnoses, for any number of threads and versions.   *)
EXTENDS ResidentCache, TLAPS

(* A row that a thread found bad is still bad: nothing repairs one.         *)
SeenBadIsBad ==
    \A c \in Clients : Loads(c, "read") /\ ~req[c].ok => req[c].row \in damaged

IInv ==
    /\ TypeOK
    /\ SeenBadIsBad
    /\ AccusesOnlyTheHead
    /\ LiveAccusesOnlyTheHead
    /\ QuarantinedIsNotServed

(* The process starts with nothing in memory and nothing accused.           *)
LEMMA InitInvariant == Init => IInv
BY BoundAssumption
   DEF Init, IInv, TypeOK, SeenBadIsBad, AccusesOnlyTheHead, LiveAccusesOnlyTheHead,
       QuarantinedIsNotServed, Publishing, Loads, Imports, Idle, Request, Versions

(* Where a load leads is a request again.                                   *)
LEMMA AfterLoadIsRequest ==
    \A purpose \in Purposes, row \in Versions : AfterLoad(purpose, row) \in Request
BY DEF AfterLoad, Importing, Request, Idle

(* Only a load that read its row carries a row to install or to accuse.     *)
LEMMA ReadFacts ==
    ASSUME TypeOK, NEW c \in Clients, req[c].op = "load"
    PROVE  /\ req[c].purpose \in Purposes /\ req[c].row \in Versions
           /\ req[c].ok \in BOOLEAN
BY DEF TypeOK, Request, Idle

(* The version an import has in hand is one there is.                       *)
LEMMA ImportFacts ==
    ASSUME TypeOK, NEW c \in Clients, req[c].op = "import"
    PROVE  req[c].version \in Versions
BY DEF TypeOK, Request, Idle

(* Typing, one step at a time.                                              *)
LEMMA StepType ==
    ASSUME TypeOK, NEW c \in Clients, Step(c)
    PROVE  TypeOK'
<1>1. 0 \in Versions /\ (stored < MaxVersions => NextSequence \in Versions)
  BY BoundAssumption DEF TypeOK, Versions, NextSequence
<1>2. \A r \in Request : Becomes(c, r) => req' \in [Clients -> Request]
  BY DEF Becomes, TypeOK
<1>3. ASSUME NEW purpose \in Purposes, LoadMiss(c, purpose) PROVE TypeOK'
  <2>1. Loading("missed", purpose, 0, TRUE) \in Request
    BY <1>1 DEF Loading, Request
  <2>. QED BY <1>2, <1>3, <2>1 DEF LoadMiss, TypeOK, database, memory
<1>4. CASE LoadRow(c)
  <2>1. req[c].purpose \in Purposes
    BY <1>4, ReadFacts DEF LoadRow, Loads
  <2>2. AfterLoad(req[c].purpose, 0) \in Request
    BY <1>1, <2>1, AfterLoadIsRequest
  <2>3. Loading("read", req[c].purpose, baseline, Verifies(baseline)) \in Request
    BY <2>1 DEF Loading, Request, Verifies, TypeOK
  <2>. QED BY <1>2, <1>4, <2>2, <2>3 DEF LoadRow, TypeOK, database, memory
<1>5. CASE LoadInstall(c)
  <2>1. req[c].purpose \in Purposes /\ req[c].row \in Versions
    BY <1>5, ReadFacts DEF LoadInstall, Loads
  <2>2. AfterLoad(req[c].purpose, req[c].row) \in Request
    BY <2>1, AfterLoadIsRequest
  <2>. QED BY <1>1, <1>2, <1>5, <2>1, <2>2 DEF LoadInstall, TypeOK, database
<1>6. CASE LoadQuarantine(c)
  <2>1. req[c].row \in Versions /\ Idle \in Request
    BY <1>6, ReadFacts DEF LoadQuarantine, Loads, Request
  <2>. QED BY <1>1, <1>2, <1>6, <2>1 DEF LoadQuarantine, TypeOK, database
<1>7. CASE ImportCommit(c)
  <2>1. Importing("publishing", NextSequence) \in Request /\ Idle \in Request
    BY <1>1, <1>7 DEF ImportCommit, Importing, Request
  <2>. QED BY <1>1, <1>2, <1>7, <2>1 DEF ImportCommit, TypeOK, memory
<1>8. CASE ImportPublish(c)
  <2>1. req[c].version \in Versions /\ Idle \in Request
    BY <1>8, ImportFacts DEF ImportPublish, Imports, Request
  <2>. QED BY <1>1, <1>2, <1>8, <2>1 DEF ImportPublish, TypeOK, database
<1>9. CASE LiveCommit(c)
  <2>1. Executing(ActiveLive) \in Request
    BY DEF Executing, ActiveLive, Request, TypeOK
  <2>. QED BY <1>1, <1>2, <1>9, <2>1 DEF LiveCommit, TypeOK, memory
<1>10. CASE LivePublish(c)
  BY <1>1, <1>2, <1>10 DEF LivePublish, TypeOK, database, Request
<1>11. CASE Abandon(c)
  BY <1>2, <1>11 DEF Abandon, TypeOK, database, memory, Request
<1>. QED BY <1>3, <1>4, <1>5, <1>6, <1>7, <1>8, <1>9, <1>10, <1>11 DEF Step

(* A thread that is publishing keeps publishing while another one moves.    *)
LEMMA OthersKeep ==
    ASSUME TypeOK, NEW c \in Clients, NEW r, Becomes(c, r)
    PROVE  /\ req'[c] = r
           /\ \A d \in Clients \ {c} : req'[d] = req[d]
           /\ Publishing /\ ~Imports(c, "publishing") => Publishing'
BY DEF TypeOK, Becomes, Publishing, Imports

(* What each step of a thread does to the diagnoses.                        *)
LEMMA StepInvariant ==
    ASSUME IInv, NEW c \in Clients, Step(c)
    PROVE  IInv'
<1> USE DEF AccusesOnlyTheHead, LiveAccusesOnlyTheHead, QuarantinedIsNotServed
<1>1. TypeOK' /\ TypeOK
  BY StepType DEF IInv
<1>2. ASSUME NEW purpose \in Purposes, LoadMiss(c, purpose) PROVE IInv'
  <2>1. ~Imports(c, "publishing") /\ Becomes(c, Loading("missed", purpose, 0, TRUE))
    <3>1. req[c] = Idle /\ Becomes(c, Loading("missed", purpose, 0, TRUE))
      BY <1>2 DEF LoadMiss
    <3>2. req[c].op # "import"
      BY <3>1 DEF Idle
    <3>. QED BY <3>1, <3>2 DEF Imports
  <2>2. req'[c].pc = "missed" /\ \A d \in Clients \ {c} : req'[d] = req[d]
    BY <1>1, <2>1, OthersKeep DEF Loading
  <2>3. SeenBadIsBad'
    BY <1>2, <2>2 DEF LoadMiss, IInv, SeenBadIsBad, Loads, database
  <2>. QED BY <1>1, <1>2, <2>1, <2>3, OthersKeep DEF LoadMiss, IInv, database, memory
<1>3. CASE LoadRow(c)
  <2>1. ~Imports(c, "publishing")
    BY <1>3 DEF LoadRow, Loads, Imports
  <2> DEFINE r == IF baseline = 0 THEN AfterLoad(req[c].purpose, 0)
                  ELSE Loading("read", req[c].purpose, baseline, Verifies(baseline))
  <2>2. Becomes(c, r) /\ (r.op = "load" => (r.row = baseline /\ r.ok = Verifies(baseline)))
    <3>1. CASE baseline = 0
      <4>1. r = AfterLoad(req[c].purpose, 0)
        BY <3>1
      <4>2. r.op # "load"
        BY <4>1 DEF AfterLoad, Importing, Idle
      <4>. QED BY <1>3, <4>2 DEF LoadRow
    <3>2. CASE baseline # 0
      BY <1>3, <3>2 DEF LoadRow, Loading
    <3>. QED BY <3>1, <3>2
  <2> HIDE DEF r
  <2>3. UNCHANGED <<database, memory>>
    BY <1>3 DEF LoadRow
  <2>4. req'[c] = r /\ \A d \in Clients \ {c} : req'[d] = req[d]
    BY <1>1, <2>2, OthersKeep
  <2>5. SeenBadIsBad'
    BY <2>2, <2>3, <2>4 DEF IInv, SeenBadIsBad, Loads, Verifies, database
  <2>6. Publishing => Publishing'
    BY <1>1, <2>1, <2>2, OthersKeep
  <2>. QED BY <1>1, <2>3, <2>5, <2>6 DEF IInv, database, memory
<1>4. CASE LoadInstall(c)
  <2>1. ~Imports(c, "publishing")
    BY <1>4 DEF LoadInstall, Loads, Imports
  <2>2. PICK r : Becomes(c, r) /\ r.op # "load"
    BY <1>4 DEF LoadInstall, AfterLoad, Importing, Idle
  <2>. QED BY <1>1, <1>4, <2>1, <2>2, OthersKeep
           DEF LoadInstall, IInv, SeenBadIsBad, Loads, database
<1>5. CASE LoadQuarantine(c)
  <2>1. ~Imports(c, "publishing") /\ req[c].row \in damaged /\ Becomes(c, Idle)
    BY <1>5 DEF LoadQuarantine, Loads, Imports, IInv, SeenBadIsBad
  <2>. QED BY <1>1, <1>5, <2>1, OthersKeep
           DEF LoadQuarantine, Diagnosable, IInv, SeenBadIsBad, Loads, Idle, database
<1>6. CASE ImportCommit(c)
  <2>1. CASE baseline = req[c].version
    <3>1. Becomes(c, Importing("publishing", NextSequence)) /\ ~Imports(c, "publishing")
      BY <1>6, <2>1 DEF ImportCommit, Imports
    <3>2. Publishing'
      BY <1>1, <3>1, OthersKeep DEF Publishing, Imports, Importing
    <3>. QED BY <1>1, <1>6, <3>1, <3>2, OthersKeep
             DEF ImportCommit, IInv, SeenBadIsBad, Loads, Importing, memory
  <2>2. CASE baseline # req[c].version
    <3>1. Becomes(c, Idle) /\ ~Imports(c, "publishing")
      BY <1>6, <2>2 DEF ImportCommit, Imports
    <3>. QED BY <1>1, <1>6, <2>2, <3>1, OthersKeep
             DEF ImportCommit, IInv, SeenBadIsBad, Loads, Idle, memory
  <2>. QED BY <2>1, <2>2
<1>7. CASE ImportPublish(c)
  <2>1. Becomes(c, Idle)
    BY <1>7 DEF ImportPublish
  <2>. QED BY <1>1, <1>7, <2>1, OthersKeep
           DEF ImportPublish, IInv, SeenBadIsBad, Loads, Idle, database
<1>8. CASE LiveCommit(c)
  <2>1. Becomes(c, Executing(ActiveLive)) /\ ~Imports(c, "publishing")
    BY <1>8 DEF LiveCommit, Imports, Idle
  <2>2. liveFailure \notin {0, live}
    \/ liveFailure = 0
    BY <1>8 DEF LiveCommit, ActiveLive, Verifies, IInv
  <2>. QED BY <1>1, <1>8, <2>1, <2>2, OthersKeep
           DEF LiveCommit, IInv, SeenBadIsBad, Loads, Executing, memory
<1>9. CASE LivePublish(c)
  <2>1. Becomes(c, Idle) /\ ~Imports(c, "publishing")
    BY <1>9 DEF LivePublish, Imports
  <2>. QED BY <1>1, <1>9, <2>1, OthersKeep
           DEF LivePublish, IInv, SeenBadIsBad, Loads, Idle, database
<1>10. CASE Abandon(c)
  <2>1. Becomes(c, Idle) /\ ~Imports(c, "publishing")
    BY <1>10 DEF Abandon, Imports
  <2>. QED BY <1>1, <1>10, <2>1, OthersKeep
           DEF Abandon, IInv, SeenBadIsBad, Loads, Idle, database, memory
<1>. QED BY <1>2, <1>3, <1>4, <1>5, <1>6, <1>7, <1>8, <1>9, <1>10 DEF Step

(* Every step of a thread, of another hand or of a restart keeps the        *)
(* invariant.                                                               *)
LEMMA NextInvariant == IInv /\ [Next]_vars => IInv'
<1> SUFFICES ASSUME IInv, [Next]_vars PROVE IInv'
  OBVIOUS
<1> USE DEF AccusesOnlyTheHead, LiveAccusesOnlyTheHead, QuarantinedIsNotServed, IInv
<1>1. ASSUME NEW c \in Clients, Step(c) PROVE IInv'
  BY <1>1, StepInvariant
<1>2. ASSUME NEW v \in 1..MaxVersions, Damage(v) PROVE IInv'
  BY <1>2, BoundAssumption
     DEF Damage, TypeOK, Versions, SeenBadIsBad, Loads, Publishing, Imports, memory
<1>3. CASE Boot
  BY <1>3 DEF Boot, Verifies, TypeOK, Versions, SeenBadIsBad, Loads, Idle, Request, database
<1>4. CASE UNCHANGED vars
  BY <1>4 DEF vars, database, memory, TypeOK, SeenBadIsBad, Loads, Publishing, Imports
<1>. QED BY <1>1, <1>2, <1>3, <1>4 DEF Next

(* The invariant holds throughout.                                          *)
LEMMA Invariance == Spec => []IInv
BY InitInvariant, NextInvariant, PTL DEF Spec

(* The database pointers, the cache and the threads hold version numbers.   *)
THEOREM CacheTypeCorrect == Spec => []TypeOK
BY Invariance, PTL DEF IInv

(* Health never accuses a baseline that is not the damaged head, except     *)
(* between an import's commit and its publication.                          *)
THEOREM HealthAccusesOnlyTheHead == Spec => []AccusesOnlyTheHead
BY Invariance, PTL DEF IInv

(* The same of the live head.                                               *)
THEOREM HealthAccusesOnlyTheLiveHead == Spec => []LiveAccusesOnlyTheHead
BY Invariance, PTL DEF IInv

(* What is diagnosed is not served from memory.                             *)
THEOREM QuarantineHolds == Spec => []QuarantinedIsNotServed
BY Invariance, PTL DEF IInv
=============================================================================
