------------------------ MODULE ScheduleStoreProofs ------------------------
(***************************************************************************)
(* What TLAPS proves of ScheduleStore, of the ledger its live operations    *)
(* implement and of the readers beside it, for every number of clients,     *)
(* documents, windows, builds, operations and every bound.                  *)
(***************************************************************************)
EXTENDS LiveReaders, WellFoundedInduction, FiniteSetTheorems, TLAPS

Held(r) == r.op \in Kinds /\ r.pc = "holding"

(* The row lock belongs to the one thread between its check and its commit. *)
OneHolder == \A c \in Clients : Held(req[c]) => lock = c

(* The pointers point at stored versions; nothing derives from no baseline. *)
HeadsExist ==
    /\ heads.baseline \in 0..Len(versions)
    /\ heads.scenario \in 0..Len(versions)
    /\ heads.live_working \in 0..Len(versions)
    /\ heads.baseline = 0 => heads.scenario = 0 /\ heads.live_working = 0

(* What the holder of the lock read under it is still so when it commits,   *)
(* and a scenario's thread carries the identifier of a stored calculation.  *)
Current(r) ==
    /\ r.op = "import" /\ r.pc = "holding" =>
          /\ r.prior = heads.baseline
          /\ r.sequence = Len(versions) + 1
    /\ r.op = "calculate" /\ r.pc = "holding" => r.version = heads.baseline
    /\ r.op = "scenario" => r.base # 0
    /\ r.op = "scenario" /\ r.pc # "loaded" => r.calc \in DOMAIN calcs
    /\ r.op = "scenario" /\ r.pc = "holding" =>
          /\ r.base = heads.baseline /\ r.expected = ActivePlan
          /\ r.sequence = Len(versions) + 1
    /\ r.op = "reset" /\ r.pc = "holding" => r.expected = ActivePlan
    /\ r.op = "live" /\ r.pc = "holding" =>
          /\ r.base = ActiveLive /\ heads.baseline # 0
          /\ r.calc \in DOMAIN calcs
          /\ r.sequence = Len(versions) + 1
          /\ r.cursor = Len(operations) + 1

RequestsCurrent == \A c \in Clients : Current(req[c])

IInv ==
    /\ TypeOK
    /\ SequencesHaveNoGap
    /\ OneHolder
    /\ HeadsExist
    /\ RequestsCurrent

----------------------------------------------------------------------------
(* get_latest_calculation answers a stored row, or none.                    *)
LEMMA LatestStored ==
    ASSUME NEW v
    PROVE  Latest(v) = 0 \/ Latest(v) \in DOMAIN calcs
<1>1. Newest(v) \subseteq DOMAIN calcs
  BY DEF Newest, RunsOf
<1>2. CASE Newest(v) = {}
  BY <1>2 DEF Latest
<1>3. CASE Newest(v) # {}
  <2>1. (CHOOSE i \in Newest(v) : TRUE) \in Newest(v)
    BY <1>3
  <2> QED BY <1>1, <1>3, <2>1 DEF Latest
<1> QED BY <1>2, <1>3

(* The largest element of 0..n is n.                                        *)
LEMMA MaxOfInterval ==
    ASSUME NEW n \in Nat
    PROVE  Max(0..n) = n
<1>1. n \in 0..n /\ \A y \in 0..n : n >= y
  OBVIOUS
<1>2. \A x \in 0..n : (\A y \in 0..n : x >= y) => x = n
  OBVIOUS
<1> QED BY <1>1, <1>2 DEF Max

(* MAX(sequence) + 1 is the next index while the numbers have no gap.       *)
LEMMA NextSequenceIsNext ==
    ASSUME TypeOK, SequencesHaveNoGap
    PROVE  NextSequence = Len(versions) + 1
<1>1. Len(versions) \in Nat /\ DOMAIN versions = 1..Len(versions)
  BY DEF TypeOK
<1>2. {0} \union {versions[i].sequence : i \in DOMAIN versions} = 0..Len(versions)
  BY <1>1 DEF SequencesHaveNoGap
<1>3. Max({0} \union {versions[i].sequence : i \in DOMAIN versions}) = Max(0..Len(versions))
  BY <1>2, Zenon
<1>4. Max(0..Len(versions)) = Len(versions)
  BY <1>1, MaxOfInterval
<1> QED BY <1>1, <1>3, <1>4 DEF NextSequence

(* The cursor of the live change journal is the number of its last change.  *)
LEMMA LiveCursorIsLast ==
    ASSUME TypeOK, SequencesHaveNoGap
    PROVE  LiveCursor = Len(operations)
<1>1. Len(operations) \in Nat /\ DOMAIN operations = 1..Len(operations)
  BY DEF TypeOK
<1>2. {0} \union {operations[i].sequence : i \in DOMAIN operations} = 0..Len(operations)
  BY <1>1 DEF SequencesHaveNoGap
<1>3. Max({0} \union {operations[i].sequence : i \in DOMAIN operations}) = Max(0..Len(operations))
  BY <1>2, Zenon
<1>4. Max(0..Len(operations)) = Len(operations)
  BY <1>1, MaxOfInterval
<1> QED BY <1>1, <1>3, <1>4 DEF LiveCursor
----------------------------------------------------------------------------
(* A step of one thread that writes nothing and does not hold the lock.     *)
LEMMA LocalStep ==
    ASSUME IInv, NEW c \in Clients, NEW r \in Request, Becomes(c, r),
           ~Held(r), Current(r),
           UNCHANGED <<versions, heads, calcs, edits, resets, operations, lock>>,
           batches' \in Seq({"accepted", "failed"}), clock' \in Nat,
           engine' \in Engines, told' \subseteq Receipt
    PROVE  IInv'
<1>1. req' \in [Clients -> Request]
  BY DEF IInv, TypeOK, Becomes
<1>2. \A x \in Clients : req'[x] = IF x = c THEN r ELSE req[x]
  BY DEF IInv, TypeOK, Becomes
<1>3. TypeOK'
  BY <1>1 DEF IInv, TypeOK
<1>4. SequencesHaveNoGap' /\ HeadsExist'
  BY DEF IInv, SequencesHaveNoGap, HeadsExist
<1>5. OneHolder'
  BY <1>2 DEF IInv, OneHolder
<1>6. RequestsCurrent'
  BY <1>2 DEF IInv, RequestsCurrent, Current, ActivePlan, ActiveLive
<1> QED BY <1>3, <1>4, <1>5, <1>6 DEF IInv

(* Only the holder of the lock is between its check and its commit.         *)
LEMMA NobodyElseHolds ==
    ASSUME OneHolder, ClientsAssumption, NEW c \in Clients,
           LockFree \/ (Held(req[c]) /\ lock = c)
    PROVE  \A x \in Clients \ {c} : ~Held(req[x])
BY DEF OneHolder, LockFree, ClientsAssumption

(* A step that checks under the lock and keeps it.                          *)
LEMMA TakeLockStep ==
    ASSUME IInv, NEW c \in Clients, NEW r \in Request, Becomes(c, r),
           TakeLock(c), Current(r),
           UNCHANGED <<store, clock, engine, told>>
    PROVE  IInv'
<1>1. req' \in [Clients -> Request] /\ lock' = c
  BY DEF IInv, TypeOK, Becomes, TakeLock
<1>2. \A x \in Clients : req'[x] = IF x = c THEN r ELSE req[x]
  BY DEF IInv, TypeOK, Becomes
<1>3. TypeOK'
  BY <1>1 DEF IInv, TypeOK, store
<1>4. SequencesHaveNoGap' /\ HeadsExist'
  BY DEF IInv, SequencesHaveNoGap, HeadsExist, store
<1>5. OneHolder'
  <2>1. \A x \in Clients \ {c} : ~Held(req[x])
    BY ClientsAssumption DEF IInv, TakeLock, OneHolder, LockFree
  <2> QED BY <1>1, <1>2, <2>1 DEF OneHolder, Held
<1>6. RequestsCurrent'
  BY <1>2 DEF IInv, RequestsCurrent, Current, ActivePlan, ActiveLive, store
<1> QED BY <1>3, <1>4, <1>5, <1>6 DEF IInv

(* A commit: the holder's row lock ends with its transaction, and no other   *)
(* thread depends on what the transaction wrote.                             *)
LEMMA CommitStep ==
    ASSUME IInv, NEW c \in Clients, NEW r \in Request, Becomes(c, r),
           Held(req[c]), ~Held(r), r.op # "scenario",
           Release(c), TypeOK', SequencesHaveNoGap', HeadsExist',
           DOMAIN calcs \subseteq DOMAIN calcs'
    PROVE  IInv'
<1>1. \A x \in Clients : req'[x] = IF x = c THEN r ELSE req[x]
  BY DEF IInv, TypeOK, Becomes
<1>2. \A x \in Clients \ {c} : ~Held(req[x])
  BY NobodyElseHolds, ClientsAssumption DEF IInv, OneHolder
<1>3. \A x \in Clients : ~Held(req[x])'
  BY <1>1, <1>2 DEF Held
<1>4. OneHolder'
  BY <1>3 DEF OneHolder
<1>5. RequestsCurrent'
  <2> SUFFICES ASSUME NEW x \in Clients PROVE Current(req[x])'
    BY DEF RequestsCurrent
  <2>1. ~Held(req'[x])
    BY <1>3 DEF Held
  <2>2. req'[x].op = "scenario" =>
           /\ req'[x].base # 0
           /\ req'[x].pc # "loaded" => req'[x].calc \in DOMAIN calcs'
    BY <1>1 DEF IInv, RequestsCurrent, Current
  <2> QED BY <2>1, <2>2 DEF Current, Held, Kinds
<1> QED BY <1>4, <1>5 DEF IInv
----------------------------------------------------------------------------
(* Facts the commits use: a stored row is a row, and a row numbered Len + 1   *)
(* appended to a table without gaps leaves it without gaps.                  *)
LEMMA StoredRows ==
    ASSUME TypeOK
    PROVE  /\ \A i \in DOMAIN versions : versions[i].doc \in Document
           /\ \A i \in DOMAIN calcs : calcs[i].ctx \in Context
<1>1. versions \in Seq(VersionRow) /\ calcs \in Seq(CalculationRow)
  BY DEF TypeOK
<1>2. \A i \in DOMAIN versions : versions[i] \in VersionRow
  BY <1>1
<1>3. \A i \in DOMAIN calcs : calcs[i] \in CalculationRow
  BY <1>1
<1> QED BY <1>2, <1>3 DEF VersionRow, CalculationRow

(* A version appended is numbered next.                                     *)
LEMMA VersionAppended ==
    ASSUME TypeOK, SequencesHaveNoGap, NEW row \in VersionRow,
           versions' = Append(versions, row), row.sequence = Len(versions) + 1
    PROVE  \A i \in DOMAIN versions' : versions'[i].sequence = i
<1>1. versions \in Seq(VersionRow) /\ \A i \in DOMAIN versions : versions[i].sequence = i
  BY DEF TypeOK, SequencesHaveNoGap
<1> QED BY <1>1

(* An operation appended is numbered next.                                  *)
LEMMA OperationAppended ==
    ASSUME TypeOK, SequencesHaveNoGap, NEW row \in OperationRow,
           operations' = Append(operations, row), row.sequence = Len(operations) + 1
    PROVE  \A i \in DOMAIN operations' : operations'[i].sequence = i
<1>1. operations \in Seq(OperationRow) /\ \A i \in DOMAIN operations : operations[i].sequence = i
  BY DEF TypeOK, SequencesHaveNoGap
<1> QED BY <1>1

(* The five commits.                                                        *)
LEMMA ImportCommitStep ==
    ASSUME IInv, NEW c \in Clients, ImportCommit(c)
    PROVE  IInv'
<1> DEFINE row == [kind |-> "baseline", parent |-> req[c].prior,
                   doc |-> Imported(req[c].doc), sequence |-> req[c].sequence,
                   cause |-> Len(batches) + 1]
<1>1. req[c] \in [op : {"import"}, pc : {"prepared", "holding"}, doc : Docs,
                  prior : Nat, sequence : Nat]
  BY DEF IInv, TypeOK, Request, ImportCommit, At, Idle
<1>2. req[c].sequence = Len(versions) + 1 /\ Held(req[c])
  BY DEF IInv, RequestsCurrent, Current, ImportCommit, At, Held, Kinds
<1>3. row \in VersionRow
  BY <1>1 DEF VersionRow, Imported, Document, IInv, TypeOK
<1>4. versions' \in Seq(VersionRow) /\ Len(versions') = Len(versions) + 1
  BY <1>3 DEF IInv, TypeOK, ImportCommit
<1>5. \A i \in 1..Len(versions) : versions'[i] = versions[i]
  BY <1>3 DEF IInv, TypeOK, ImportCommit
<1>6. versions'[Len(versions) + 1] = row
  BY <1>3 DEF IInv, TypeOK, ImportCommit
<1>7. SequencesHaveNoGap'
  BY <1>2, <1>4, <1>5, <1>6 DEF IInv, TypeOK, SequencesHaveNoGap, ImportCommit
<1>8. HeadsExist' /\ heads' \in Heads
  BY <1>4 DEF IInv, TypeOK, HeadsExist, ImportCommit, ImportedHeads, Heads
<1>9. req' \in [Clients -> Request] /\ lock' \in Clients \union {NoClient}
  BY DEF IInv, TypeOK, ImportCommit, Becomes, Release, Request
<1>10. batches' \in Seq({"accepted", "failed"})
  BY DEF IInv, TypeOK, ImportCommit
<1>11. TypeOK'
  BY <1>4, <1>8, <1>9, <1>10 DEF IInv, TypeOK, ImportCommit, Heads
<1>12. Idle \in Request /\ ~Held(Idle) /\ Idle.op # "scenario" /\ Becomes(c, Idle) /\ Release(c)
  BY DEF Request, Held, Idle, Kinds, ImportCommit
<1> QED BY <1>2, <1>7, <1>8, <1>11, <1>12, CommitStep DEF ImportCommit

(* After its commit a thread is idle, and depends on nothing.               *)
LEMMA IdleFacts == Idle \in Request /\ ~Held(Idle) /\ Idle.op # "scenario" /\ Current(Idle)
BY DEF Request, Held, Idle, Kinds, Current

(* Retiring the scenario leaves pointers that exist.                         *)
LEMMA ScenarioRetired ==
    ASSUME HeadsExist, heads \in Heads, heads' = [heads EXCEPT !.scenario = 0],
           versions' = versions
    PROVE  HeadsExist' /\ heads' \in Heads
<1>1. heads' = [baseline |-> heads.baseline, scenario |-> 0, live_working |-> heads.live_working]
  BY DEF Heads
<1>2. heads.baseline \in Nat /\ heads.live_working \in Nat
  BY DEF Heads
<1> QED BY <1>1, <1>2 DEF HeadsExist, Heads

(* Each commit keeps the invariant: a calculation.                          *)
LEMMA CalculateCommitStep ==
    ASSUME IInv, NEW c \in Clients, CalculateCommit(c)
    PROVE  IInv'
<1> DEFINE row == [version |-> req[c].version, ctx |-> req[c].ctx, at |-> req[c].at]
<1>1. req[c] \in [op : {"calculate"}, pc : {"computed", "begun", "holding"},
                  version : Nat, ctx : Context, at : Nat]
  BY DEF IInv, TypeOK, Request, CalculateCommit, At, Idle
<1>2. Held(req[c])
  BY DEF CalculateCommit, At, Held, Kinds
<1>3. row \in CalculationRow
  BY <1>1 DEF CalculationRow
<1>4. calcs' \in Seq(CalculationRow) /\ DOMAIN calcs \subseteq DOMAIN calcs'
  <2>1. calcs' = calcs \/ calcs' = Append(calcs, row)
    BY DEF CalculateCommit, CalculateStore
  <2>2. calcs \in Seq(CalculationRow)
    BY DEF IInv, TypeOK
  <2> HIDE DEF row
  <2> QED BY <1>3, <2>1, <2>2
<1>5. HeadsExist' /\ heads' \in Heads
  <2>1. heads' = heads \/ heads' = [heads EXCEPT !.scenario = 0]
    BY DEF CalculateCommit
  <2>2. versions' = versions
    BY DEF CalculateCommit
  <2>3. HeadsExist /\ heads \in Heads
    BY DEF IInv, TypeOK, Heads
  <2> QED BY <2>1, <2>2, <2>3, ScenarioRetired DEF HeadsExist
<1>6. SequencesHaveNoGap'
  BY DEF IInv, SequencesHaveNoGap, CalculateCommit
<1>7. req' \in [Clients -> Request] /\ lock' \in Clients \union {NoClient}
  BY IdleFacts DEF IInv, TypeOK, CalculateCommit, Becomes, Release
<1>8. TypeOK'
  BY <1>4, <1>5, <1>7 DEF IInv, TypeOK, CalculateCommit, Heads
<1> QED BY <1>2, <1>4, <1>5, <1>6, <1>8, IdleFacts, CommitStep DEF CalculateCommit

(* A planner's edit.                                                        *)
LEMMA ScenarioCommitStep ==
    ASSUME IInv, NEW c \in Clients, ScenarioCommit(c)
    PROVE  IInv'
<1> DEFINE v == Len(versions) + 1
           row == [kind |-> "scenario", parent |-> req[c].base,
                   doc |-> Edited(versions[req[c].base].doc),
                   sequence |-> req[c].sequence, cause |-> Len(edits) + 1]
           run == [version |-> v, at |-> 0,
                   ctx |-> [window |-> calcs[req[c].calc].ctx.window, engine |-> engine]]
<1>1. req[c] \in [op : {"scenario"}, pc : {"loaded", "compared", "derived", "holding"},
                  expected : Nat, base : Nat, calc : Nat, sequence : Nat]
  BY DEF IInv, TypeOK, Request, ScenarioCommit, At, Idle
<1>2. /\ req[c].sequence = v /\ Held(req[c])
      /\ req[c].base \in DOMAIN versions /\ req[c].calc \in DOMAIN calcs
  <2>1. /\ req[c].sequence = v /\ req[c].calc \in DOMAIN calcs
        /\ req[c].base = heads.baseline /\ heads.baseline # 0
    BY DEF IInv, RequestsCurrent, Current, ScenarioCommit, At
  <2>2. heads.baseline \in 0..Len(versions) /\ DOMAIN versions = 1..Len(versions)
    BY DEF IInv, HeadsExist, TypeOK
  <2> QED BY <2>1, <2>2 DEF ScenarioCommit, At, Held, Kinds
<1>3. versions[req[c].base].doc \in Document /\ calcs[req[c].calc].ctx \in Context
  BY <1>2, StoredRows DEF IInv
<1>4. row \in VersionRow /\ run \in CalculationRow
  <2>1. engine \in Engines /\ Len(versions) \in Nat /\ Len(edits) \in Nat
    BY DEF IInv, TypeOK
  <2>2. Edited(versions[req[c].base].doc) \in Document
    BY <1>3 DEF Edited, Document
  <2>3. row \in VersionRow
    BY <1>1, <2>1, <2>2 DEF VersionRow
  <2>4. run \in CalculationRow
    BY <1>3, <2>1 DEF CalculationRow, Context
  <2> QED BY <2>3, <2>4
<1>5. versions' = Append(versions, row) /\ calcs' = Append(calcs, run)
  BY DEF ScenarioCommit
<1> HIDE DEF row, run
<1>6. versions' \in Seq(VersionRow) /\ Len(versions') = v
  BY <1>4, <1>5 DEF IInv, TypeOK
<1>8. calcs' \in Seq(CalculationRow) /\ DOMAIN calcs \subseteq DOMAIN calcs'
  <2>1. calcs \in Seq(CalculationRow)
    BY DEF IInv, TypeOK
  <2> QED BY <1>4, <1>5, <2>1
<1>9. SequencesHaveNoGap'
  <2>1. operations' = operations /\ row.sequence = v
    BY <1>2 DEF ScenarioCommit, row
  <2> QED BY <1>4, <1>5, <2>1, VersionAppended DEF IInv, SequencesHaveNoGap
<1>10. HeadsExist' /\ heads' \in Heads
  <2>1. heads.baseline # 0 /\ heads \in Heads /\ HeadsExist /\ Len(versions) \in Nat
    BY DEF IInv, RequestsCurrent, Current, ScenarioCommit, At, TypeOK, Heads
  <2>2. heads' = [heads EXCEPT !.scenario = v]
    BY DEF ScenarioCommit
  <2>3. heads' = [baseline |-> heads.baseline, scenario |-> v, live_working |-> heads.live_working]
    BY <2>1, <2>2 DEF Heads
  <2> QED BY <1>6, <2>1, <2>3 DEF HeadsExist, Heads
<1>11. edits' \in Seq(EditRow)
  BY <1>1 DEF IInv, TypeOK, ScenarioCommit, EditRow
<1>12. req' \in [Clients -> Request] /\ lock' \in Clients \union {NoClient}
  BY IdleFacts DEF IInv, TypeOK, ScenarioCommit, Becomes, Release
<1>13. TypeOK'
  BY <1>6, <1>8, <1>10, <1>11, <1>12 DEF IInv, TypeOK, ScenarioCommit, Heads
<1> QED BY <1>2, <1>8, <1>9, <1>10, <1>13, IdleFacts, CommitStep DEF ScenarioCommit

(* A reset.                                                                 *)
LEMMA ResetCommitStep ==
    ASSUME IInv, NEW c \in Clients, ResetCommit(c)
    PROVE  IInv'
<1>1. Held(req[c])
  BY DEF ResetCommit, At, Held, Kinds
<1>2. resets' \in Seq(ResetRow)
  <2> DEFINE row == [prior |-> heads.scenario, restored |-> heads.baseline]
  <2>1. resets' = resets \/ resets' = Append(resets, row)
    BY DEF ResetCommit
  <2>2. resets \in Seq(ResetRow) /\ row \in ResetRow
    BY DEF IInv, TypeOK, Heads, ResetRow
  <2> HIDE DEF row
  <2> QED BY <2>1, <2>2
<1>3. HeadsExist' /\ heads' \in Heads
  BY ScenarioRetired DEF IInv, TypeOK, Heads, ResetCommit
<1>4. SequencesHaveNoGap' /\ DOMAIN calcs \subseteq DOMAIN calcs'
  BY DEF IInv, SequencesHaveNoGap, ResetCommit
<1>5. req' \in [Clients -> Request] /\ lock' \in Clients \union {NoClient}
  BY IdleFacts DEF IInv, TypeOK, ResetCommit, Becomes, Release
<1>6. TypeOK'
  BY <1>2, <1>3, <1>5 DEF IInv, TypeOK, ResetCommit, Heads
<1> QED BY <1>1, <1>3, <1>4, <1>6, IdleFacts, CommitStep DEF ResetCommit

(* An accepted operation.                                                   *)
LEMMA LiveCommitStep ==
    ASSUME IInv, NEW c \in Clients, LiveCommit(c)
    PROVE  IInv'
<1> DEFINE v == Len(versions) + 1
           row == [kind |-> "live_working", parent |-> req[c].base,
                   doc |-> Apply(versions[req[c].base].doc, req[c].payload.fact),
                   sequence |-> req[c].sequence, cause |-> Len(operations) + 1]
           run == [version |-> v, ctx |-> calcs[req[c].calc].ctx, at |-> 0]
           reply == ReplyRequest(ReceiptOf(NewOperation(c)))
<1>1. req[c] \in [op : {"live"}, pc : {"asked", "holding"}, opid : OpIds,
                  payload : Payload, base : Nat, calc : Nat, sequence : Nat, cursor : Nat]
  BY DEF IInv, TypeOK, Request, LiveCommit, At, Idle
<1>2. /\ req[c].sequence = v /\ req[c].cursor = Len(operations) + 1 /\ Held(req[c])
      /\ req[c].base \in DOMAIN versions /\ req[c].calc \in DOMAIN calcs
      /\ heads.baseline # 0
  <2>1. /\ req[c].sequence = v /\ req[c].calc \in DOMAIN calcs
        /\ req[c].cursor = Len(operations) + 1
        /\ req[c].base = ActiveLive /\ heads.baseline # 0
    BY DEF IInv, RequestsCurrent, Current, LiveCommit, At
  <2>2. ActiveLive \in 1..Len(versions) /\ DOMAIN versions = 1..Len(versions)
    BY <2>1 DEF IInv, HeadsExist, TypeOK, ActiveLive
  <2> QED BY <2>1, <2>2 DEF LiveCommit, At, Held, Kinds
<1>3. versions[req[c].base].doc \in Document /\ calcs[req[c].calc].ctx \in Context
  BY <1>2, StoredRows DEF IInv
<1>4. row \in VersionRow /\ run \in CalculationRow
  <2>1. Len(versions) \in Nat /\ Len(operations) \in Nat
    BY DEF IInv, TypeOK
  <2>2. Apply(versions[req[c].base].doc, req[c].payload.fact) \in Document
    BY <1>1, <1>3 DEF Apply, Document, Payload
  <2>3. row \in VersionRow
    BY <1>1, <2>1, <2>2 DEF VersionRow
  <2>4. run \in CalculationRow
    BY <1>3, <2>1 DEF CalculationRow
  <2> QED BY <2>3, <2>4
<1>5. NewOperation(c) \in OperationRow /\ NewOperation(c).sequence = Len(operations) + 1
  <2>1. Len(versions) \in Nat /\ Len(calcs) \in Nat /\ heads.baseline \in Nat
    BY DEF IInv, TypeOK, Heads
  <2> QED BY <1>1, <1>2, <2>1 DEF NewOperation, OperationRow
<1>6. /\ versions' = Append(versions, row) /\ calcs' = Append(calcs, run)
      /\ operations' = Append(operations, NewOperation(c))
  BY DEF LiveCommit
<1> HIDE DEF row, run
<1>7. versions' \in Seq(VersionRow) /\ Len(versions') = v
  BY <1>4, <1>6 DEF IInv, TypeOK
<1>9. calcs' \in Seq(CalculationRow) /\ DOMAIN calcs \subseteq DOMAIN calcs'
  <2>1. calcs \in Seq(CalculationRow)
    BY DEF IInv, TypeOK
  <2> QED BY <1>4, <1>6, <2>1
<1>10. operations' \in Seq(OperationRow)
  BY <1>5, <1>6 DEF IInv, TypeOK
<1>12. SequencesHaveNoGap'
  <2>1. row.sequence = v
    BY <1>2 DEF row
  <2>2. \A i \in DOMAIN versions' : versions'[i].sequence = i
    BY <1>4, <1>6, <2>1, VersionAppended DEF IInv
  <2>3. \A i \in DOMAIN operations' : operations'[i].sequence = i
    BY <1>5, <1>6, OperationAppended DEF IInv
  <2> QED BY <2>2, <2>3 DEF SequencesHaveNoGap
<1>13. HeadsExist' /\ heads' \in Heads
  <2>1. heads \in Heads /\ HeadsExist /\ Len(versions) \in Nat
    BY DEF IInv, TypeOK, Heads
  <2>2. heads' = [heads EXCEPT !.live_working = v]
    BY DEF LiveCommit
  <2>3. heads' = [baseline |-> heads.baseline, scenario |-> heads.scenario, live_working |-> v]
    BY <2>1, <2>2 DEF Heads
  <2> QED BY <1>2, <1>7, <2>1, <2>3 DEF HeadsExist, Heads
<1>14. reply \in Request /\ ~Held(reply) /\ reply.op # "scenario" /\ Becomes(c, reply)
  <2>1. ReceiptOf(NewOperation(c)) \in Receipt
    BY <1>5 DEF ReceiptOf, Receipt, OperationRow
  <2> QED BY <2>1 DEF ReplyRequest, Request, Held, Kinds, LiveCommit
<1>15. req' \in [Clients -> Request] /\ lock' \in Clients \union {NoClient}
  BY <1>14 DEF IInv, TypeOK, LiveCommit, Becomes, Release
<1>16. TypeOK'
  BY <1>7, <1>9, <1>10, <1>13, <1>15 DEF IInv, TypeOK, LiveCommit, Heads
<1> QED BY <1>2, <1>9, <1>12, <1>13, <1>14, <1>16, CommitStep DEF LiveCommit

----------------------------------------------------------------------------
(* Every step preserves the inductive invariant.                            *)
LEMMA InitInvariant == Init => IInv
<1> SUFFICES ASSUME Init PROVE IInv
  OBVIOUS
<1>1. TypeOK
  BY DEF Init, TypeOK, Heads, ImportedHeads, Request
<1>2. SequencesHaveNoGap
  BY DEF Init, SequencesHaveNoGap
<1>3. OneHolder
  BY DEF Init, OneHolder, Held, Idle, Kinds
<1>4. HeadsExist
  BY DEF Init, HeadsExist, ImportedHeads
<1>5. RequestsCurrent
  BY DEF Init, RequestsCurrent, Current, Idle
<1> QED BY <1>1, <1>2, <1>3, <1>4, <1>5 DEF IInv

(* Reading the planner page takes the lock and gives it back.               *)
LEMMA PlannerStep ==
    ASSUME IInv, NEW c \in Clients,
           \/ PlannerLock(c) \/ PlannerPair(c) \/ PlannerBaselineRun(c)
           \/ PlannerScenarioRun(c) \/ PlannerReply(c)
    PROVE  IInv'
<1> USE DEF Kinds, PlannerSteps
<1>0. /\ req[c] \in Request /\ heads \in Heads
      /\ \A pc \in PlannerSteps \ {"holding"}, b, s, k \in Nat :
            LET r == PlannerRequest(pc, b, s, k)
            IN  r \in Request /\ ~Held(r) /\ Current(r) /\ r.op # "scenario"
  BY DEF IInv, TypeOK, PlannerRequest, Request, Held, Current
<1>1. CASE PlannerLock(c)
  <2> DEFINE r == PlannerRequest("holding", heads.baseline, 0, 0)
  <2>1. r \in Request /\ Current(r)
    BY <1>0 DEF PlannerRequest, Request, Current, Heads
  <2> QED BY <1>1, <2>1, TakeLockStep DEF PlannerLock
<1>2. CASE PlannerPair(c)
  <2>1. PICK r \in Request : ~Held(r) /\ r.op # "scenario" /\ Becomes(c, r)
    <3>1. req[c].baseline \in Nat /\ heads.scenario \in Nat
      BY <1>0, <1>2 DEF PlannerPair, At, Request, Idle, Heads
    <3>2. CASE req[c].baseline = 0
      BY <1>2, <3>2, IdleFacts DEF PlannerPair
    <3>3. CASE req[c].baseline # 0
      <4>1. \/ Becomes(c, PlannerRequest("paired", req[c].baseline, heads.scenario, 0))
            \/ Becomes(c, PlannerRequest("broken_lineage", req[c].baseline, heads.scenario, 0))
        BY <1>2, <3>3 DEF PlannerPair
      <4> QED BY <1>0, <3>1, <4>1
    <3> QED BY <3>2, <3>3
  <2>2. Held(req[c]) /\ Release(c)
    BY <1>2 DEF PlannerPair, At, Held
  <2>3. req' \in [Clients -> Request] /\ lock' \in Clients \union {NoClient}
    BY <2>1, <2>2 DEF IInv, TypeOK, Becomes, Release
  <2>4. TypeOK'
    BY <1>2, <2>3 DEF PlannerPair, store, IInv, TypeOK
  <2>5. SequencesHaveNoGap' /\ HeadsExist' /\ DOMAIN calcs \subseteq DOMAIN calcs'
    BY <1>2 DEF PlannerPair, store, IInv, SequencesHaveNoGap, HeadsExist
  <2> QED BY <2>1, <2>2, <2>4, <2>5, CommitStep
<1>3. CASE PlannerBaselineRun(c)
  <2> DEFINE r == PlannerRequest("calculated", req[c].baseline, req[c].scenario,
                                 Latest(req[c].baseline))
  <2>1. req[c].baseline \in Nat /\ req[c].scenario \in Nat
    BY <1>0, <1>3 DEF PlannerBaselineRun, At, Request, Idle
  <2>2. Latest(req[c].baseline) \in Nat
    <3>1. DOMAIN calcs \subseteq Nat
      BY DEF IInv, TypeOK
    <3>2. Latest(req[c].baseline) = 0 \/ Latest(req[c].baseline) \in DOMAIN calcs
      BY LatestStored
    <3> QED BY <3>1, <3>2
  <2>3. r \in Request /\ ~Held(r) /\ Current(r)
    BY <1>0, <2>1, <2>2
  <2> QED BY <1>3, <2>3, LocalStep DEF PlannerBaselineRun, IInv, TypeOK, store
<1>4. CASE PlannerScenarioRun(c)
  <2>1. req[c].baseline \in Nat /\ req[c].scenario \in Nat /\ req[c].calc \in Nat
    BY <1>0, <1>4 DEF PlannerScenarioRun, At, Request, Idle
  <2>2. PICK pc \in {"shown", "mixed_contexts"} :
           Becomes(c, PlannerRequest(pc, req[c].baseline, req[c].scenario, req[c].calc))
    BY <1>4 DEF PlannerScenarioRun
  <2> DEFINE r == PlannerRequest(pc, req[c].baseline, req[c].scenario, req[c].calc)
  <2>3. r \in Request /\ ~Held(r) /\ Current(r)
    BY <1>0, <2>1
  <2> QED BY <1>4, <2>2, <2>3, LocalStep DEF PlannerScenarioRun, IInv, TypeOK, store
<1>5. CASE PlannerReply(c)
  BY <1>5, IdleFacts, LocalStep DEF PlannerReply, IInv, TypeOK, store
<1> QED BY <1>1, <1>2, <1>3, <1>4, <1>5

(* Asking: the thread reads its inputs and holds nothing.                   *)
LEMMA AskStep ==
    ASSUME IInv, NEW c \in Clients, Ask(c)
    PROVE  IInv'
<1> USE DEF Held, Kinds, Request, Current, store
<1>1. ASSUME NEW d \in Docs, ImportRead(c, d) PROVE IInv'
  <2> DEFINE r == ImportRequest("prepared", d, heads.baseline, 0)
  <2>1. r \in Request /\ ~Held(r) /\ Current(r)
    BY DEF ImportRequest, IInv, TypeOK, Heads
  <2> QED BY <1>1, <2>1, LocalStep DEF ImportRead, IInv, TypeOK
<1>2. ASSUME NEW w \in Windows, CalculateRead(c, w) PROVE IInv'
  <2> DEFINE r == CalculateRequest("computed", heads.baseline,
                                   [window |-> w, engine |-> engine], 0)
  <2>1. r \in Request /\ ~Held(r) /\ Current(r)
    BY DEF CalculateRequest, IInv, TypeOK, Heads, Context
  <2> QED BY <1>2, <2>1, LocalStep DEF CalculateRead, IInv, TypeOK
<1>3. ASSUME NEW expected \in 1..Len(versions), ScenarioRead(c, expected) PROVE IInv'
  <2> DEFINE r == ScenarioRequest("loaded", expected, heads.baseline, 0, 0)
  <2>1. r \in Request /\ ~Held(r) /\ Current(r)
    BY <1>3 DEF ScenarioRead, ScenarioRequest, IInv, TypeOK, Heads
  <2> QED BY <1>3, <2>1, LocalStep DEF ScenarioRead, IInv, TypeOK
<1>4. ASSUME NEW expected \in 1..Len(versions), ResetAsk(c, expected) PROVE IInv'
  <2> DEFINE r == ResetRequest("asked", expected)
  <2>1. r \in Request /\ ~Held(r) /\ Current(r)
    BY DEF ResetRequest, IInv, TypeOK
  <2> QED BY <1>4, <2>1, LocalStep DEF ResetAsk, IInv, TypeOK
<1>5. ASSUME NEW expected \in 1..Len(versions), NEW opid \in OpIds, NEW fact \in Facts,
             LiveAsk(c, opid, expected, fact)
      PROVE  IInv'
  <2> DEFINE r == LiveRequest("asked", opid,
                              [actor |-> c, expected |-> expected, fact |-> fact], 0, 0, 0, 0)
  <2>1. r \in Request /\ ~Held(r) /\ Current(r)
    BY DEF LiveRequest, Payload, IInv, TypeOK
  <2> QED BY <1>5, <2>1, LocalStep DEF LiveAsk, IInv, TypeOK
<1>6. ASSUME PlannerAsk(c) PROVE IInv'
  <2> DEFINE r == PlannerRequest("asked", 0, 0, 0)
  <2>1. r \in Request /\ ~Held(r) /\ Current(r)
    BY DEF PlannerRequest, PlannerSteps
  <2> QED BY <1>6, <2>1, LocalStep DEF PlannerAsk, IInv, TypeOK
<1> QED BY <1>1, <1>2, <1>3, <1>4, <1>5, <1>6 DEF Ask

(* Working without the lock, and committing with it.                        *)
LEMMA WorkStep ==
    ASSUME IInv, NEW c \in Clients, Work(c)
    PROVE  IInv'
<1> USE DEF Held, Kinds, Request, Current, store
<1>0. req[c] \in Request /\ Current(req[c])
  BY DEF IInv, TypeOK, RequestsCurrent
<1>1. CASE CalculateBegin(c)
  <2> DEFINE r == CalculateRequest("begun", req[c].version, req[c].ctx, clock)
  <2>1. r \in Request /\ ~Held(r) /\ Current(r)
    BY <1>0, <1>1 DEF CalculateBegin, CalculateRequest, At, Idle, IInv, TypeOK
  <2> QED BY <1>1, <2>1, LocalStep DEF CalculateBegin, IInv, TypeOK
<1>2. CASE ScenarioReadCalculation(c)
  <2> DEFINE r == ScenarioRequest("compared", req[c].expected, req[c].base,
                                  Latest(heads.baseline), 0)
  <2>1. CASE Latest(heads.baseline) = 0
    BY <1>2, <2>1, IdleFacts, LocalStep DEF ScenarioReadCalculation, IInv, TypeOK
  <2>2. CASE Latest(heads.baseline) # 0
    <3>1. Latest(heads.baseline) \in DOMAIN calcs /\ DOMAIN calcs \subseteq Nat
      BY <2>2, LatestStored DEF IInv, TypeOK
    <3>2. r \in Request /\ ~Held(r) /\ Current(r)
      BY <1>0, <1>2, <3>1 DEF ScenarioReadCalculation, ScenarioRequest, At, Idle
    <3> QED BY <1>2, <2>2, <3>2, LocalStep DEF ScenarioReadCalculation, IInv, TypeOK
  <2> QED BY <2>1, <2>2
<1>3. CASE ScenarioDerive(c)
  <2> DEFINE r == ScenarioRequest("derived", req[c].expected, req[c].base, req[c].calc, 0)
  <2>1. r \in Request /\ ~Held(r) /\ Current(r)
    BY <1>0, <1>3 DEF ScenarioDerive, ScenarioRequest, At, Idle
  <2>2. Becomes(c, r) \/ Becomes(c, Idle)
    BY <1>3 DEF ScenarioDerive
  <2> QED BY <1>3, <2>1, <2>2, IdleFacts, LocalStep DEF ScenarioDerive, IInv, TypeOK
<1>4. CASE Reply(c)
  <2>1. req[c].receipt \in Receipt
    BY <1>0, <1>4 DEF Reply, Idle
  <2> QED BY <1>4, <2>1, IdleFacts, LocalStep DEF Reply, IInv, TypeOK
<1> QED BY <1>1, <1>2, <1>3, <1>4, ImportCommitStep, CalculateCommitStep,
           ScenarioCommitStep, ResetCommitStep, LiveCommitStep, PlannerStep DEF Work

(* Checking under the lock.                                                 *)
LEMMA LockedStep ==
    ASSUME IInv, NEW c \in Clients, Locked(c)
    PROVE  IInv'
<1> USE DEF Held, Kinds, Request, Current
<1>0. req[c] \in Request /\ Current(req[c])
  BY DEF IInv, TypeOK, RequestsCurrent
<1>1. NextSequence = Len(versions) + 1 /\ LiveCursor = Len(operations)
      /\ Len(versions) \in Nat /\ Len(operations) \in Nat
  BY NextSequenceIsNext, LiveCursorIsLast DEF IInv, TypeOK
<1>2. ASSUME Refuse(c) PROVE IInv'
  BY <1>2, IdleFacts, LocalStep DEF Refuse, IInv, TypeOK, store
<1>3. CASE ImportFail(c)
  <2>1. batches' \in Seq({"accepted", "failed"})
    BY <1>3 DEF ImportFail, IInv, TypeOK
  <2> QED BY <1>3, <2>1, IdleFacts, LocalStep DEF ImportFail, IInv, TypeOK
<1>4. CASE ImportLock(c)
  <2> DEFINE r == ImportRequest("holding", req[c].doc, req[c].prior, NextSequence)
  <2>1. r \in Request /\ Current(r)
    BY <1>0, <1>1, <1>4 DEF ImportLock, ImportRequest, ImportStillCurrent, At, Idle
  <2> QED BY <1>4, <2>1, TakeLockStep DEF ImportLock
<1>5. CASE CalculateLock(c)
  <2> DEFINE r == CalculateRequest("holding", req[c].version, req[c].ctx, req[c].at)
  <2>1. r \in Request /\ Current(r)
    BY <1>0, <1>5 DEF CalculateLock, CalculateRequest, CalculateStillCurrent, At, Idle
  <2> QED BY <1>5, <2>1, TakeLockStep DEF CalculateLock
<1>6. CASE ScenarioLock(c)
  <2> DEFINE r == ScenarioRequest("holding", req[c].expected, req[c].base,
                                  req[c].calc, NextSequence)
  <2>1. req[c].base = heads.baseline /\ req[c].expected = ActivePlan
        /\ req[c].calc \in DOMAIN calcs /\ req[c].calc = Latest(heads.baseline)
    BY <1>0, <1>6 DEF ScenarioLock, ScenarioStillCurrent, At
  <2>2. heads.baseline # 0
    BY <1>0, <1>6, <2>1 DEF ScenarioLock, At
  <2>3. r \in Request /\ Current(r)
    BY <1>0, <1>1, <1>6, <2>1, <2>2 DEF ScenarioLock, ScenarioRequest, At, Idle
  <2> QED BY <1>6, <2>3, TakeLockStep DEF ScenarioLock
<1>7. CASE ResetLock(c)
  <2> DEFINE r == ResetRequest("holding", req[c].expected)
  <2>1. r \in Request /\ Current(r)
    BY <1>0, <1>7 DEF ResetLock, ResetRequest, ResetStillCurrent, At, Idle
  <2> QED BY <1>7, <2>1, TakeLockStep DEF ResetLock
<1>8. CASE LiveLock(c)
  <2> DEFINE r == LiveRequest("holding", req[c].opid, req[c].payload, ActiveLive,
                              Latest(ActiveLive), NextSequence, LiveCursor + 1)
  <2>1. Latest(ActiveLive) \in DOMAIN calcs /\ DOMAIN calcs \subseteq Nat
    BY <1>8, LatestStored DEF LiveLock, LiveStillCurrent, IInv, TypeOK
  <2>2. heads.baseline # 0 /\ ActiveLive \in Nat
    BY <1>8 DEF LiveLock, LiveStillCurrent, ActiveLive, IInv, TypeOK, Heads
  <2>3. r \in Request /\ Current(r)
    BY <1>0, <1>1, <1>8, <2>1, <2>2 DEF LiveLock, LiveRequest, At, Idle
  <2> QED BY <1>8, <2>3, TakeLockStep DEF LiveLock
<1>9. CASE LiveAnswerAgain(c)
  <2>1. PICK i \in Recorded(req[c].opid) :
             Becomes(c, IF operations[i].payload = req[c].payload
                        THEN ReplyRequest(ReceiptOf(operations[i])) ELSE Idle)
    BY <1>9 DEF LiveAnswerAgain
  <2> DEFINE r == ReplyRequest(ReceiptOf(operations[i]))
  <2>2. operations[i] \in OperationRow
    BY <2>1 DEF Recorded, IInv, TypeOK
  <2>3. r \in Request /\ ~Held(r) /\ Current(r)
    BY <2>2 DEF ReplyRequest, ReceiptOf, Receipt, OperationRow
  <2>4. Becomes(c, r) \/ Becomes(c, Idle)
    BY <2>1
  <2> QED BY <1>9, <2>3, <2>4, IdleFacts, LocalStep DEF LiveAnswerAgain, IInv, TypeOK, store
<1> QED BY <1>2, <1>3, <1>4, <1>5, <1>6, <1>7, <1>8, <1>9, PlannerStep
        DEF Locked, ImportStale, CalculateStale, ScenarioStale, ResetStale, LiveStale

(* A failed request gives its lock back; a restart gives back all of them.  *)
LEMMA FailureStep ==
    ASSUME IInv, (\E c \in Clients : Abandon(c)) \/ (\E e \in Engines : Deploy(e))
    PROVE  IInv'
<1>1. ASSUME NEW c \in Clients, Abandon(c) PROVE IInv'
  <2>1. \A x \in Clients : req'[x] = IF x = c THEN Idle ELSE req[x]
    BY <1>1 DEF Abandon, Becomes, IInv, TypeOK
  <2>2. TypeOK'
    BY <1>1, IdleFacts DEF Abandon, Becomes, IInv, TypeOK, store
  <2>3. SequencesHaveNoGap' /\ HeadsExist'
    BY <1>1 DEF Abandon, IInv, SequencesHaveNoGap, HeadsExist, store
  <2>4. OneHolder'
    BY <1>1, <2>1, IdleFacts, ClientsAssumption DEF Abandon, IInv, OneHolder, Held
  <2>5. RequestsCurrent'
    BY <1>1, <2>1 DEF Abandon, IInv, RequestsCurrent, Current, ActivePlan, ActiveLive, store, Idle
  <2> QED BY <2>2, <2>3, <2>4, <2>5 DEF IInv
<1>2. ASSUME NEW e \in Engines, Deploy(e) PROVE IInv'
  <2>1. TypeOK'
    BY <1>2, IdleFacts DEF Deploy, IInv, TypeOK, store
  <2>2. SequencesHaveNoGap' /\ HeadsExist'
    BY <1>2 DEF Deploy, IInv, SequencesHaveNoGap, HeadsExist, store
  <2>3. OneHolder' /\ RequestsCurrent'
    BY <1>2 DEF Deploy, OneHolder, Held, Kinds, RequestsCurrent, Current, Idle
  <2> QED BY <2>1, <2>2, <2>3 DEF IInv
<1> QED BY <1>1, <1>2

(* Every step keeps the invariant.                                          *)
LEMMA NextInvariant == IInv /\ [Next]_vars => IInv'
<1> SUFFICES ASSUME IInv, [Next]_vars PROVE IInv'
  OBVIOUS
<1>1. CASE UNCHANGED vars
  BY <1>1 DEF vars, store, IInv, TypeOK, SequencesHaveNoGap, OneHolder, Held, HeadsExist,
              RequestsCurrent, Current, ActivePlan, ActiveLive
<1>2. CASE Next
  BY <1>2, AskStep, WorkStep, LockedStep, FailureStep DEF Next
<1> QED BY <1>1, <1>2

(* The inductive invariant holds throughout: whoever holds the project row's *)
(* lock commits against exactly the heads and numbers it checked.            *)
THEOREM Invariance == Spec => []IInv
<1> QED BY InitInvariant, NextInvariant, PTL DEF Spec

(* Every table, pointer and request stays well typed.                        *)
THEOREM TypeCorrect == Spec => []TypeOK
<1>1. IInv => TypeOK
  BY DEF IInv
<1> QED BY Invariance, <1>1, PTL

(* MAX + 1 under the project row's lock numbers versions and accepted live   *)
(* changes without a gap or a repetition, whatever fails in between.         *)
THEOREM NumberedWithoutGap == Spec => []SequencesHaveNoGap
<1>1. IInv => SequencesHaveNoGap
  BY DEF IInv
<1> QED BY Invariance, <1>1, PTL

----------------------------------------------------------------------------
(* Tables and pointers change in the five commits and nowhere else.         *)
Commit(c) ==
    \/ ImportCommit(c) \/ CalculateCommit(c) \/ ScenarioCommit(c)
    \/ ResetCommit(c) \/ LiveCommit(c)

(* Only the five commits write the store.                                   *)
LEMMA OnlyCommitsWrite ==
    ASSUME [Next]_vars
    PROVE  \/ UNCHANGED <<versions, heads, calcs, edits, resets, operations>>
           \/ \E c \in Clients : Commit(c)
<1>1. CASE UNCHANGED vars
  BY <1>1 DEF vars, store
<1>2. ASSUME NEW c \in Clients, Ask(c)
      PROVE  UNCHANGED <<versions, heads, calcs, edits, resets, operations>>
  BY <1>2 DEF Ask, ImportRead, CalculateRead, ScenarioRead, ResetAsk, LiveAsk, PlannerAsk, store
<1>3. ASSUME NEW c \in Clients, Work(c), ~Commit(c)
      PROVE  UNCHANGED <<versions, heads, calcs, edits, resets, operations>>
  BY <1>3 DEF Work, Commit, CalculateBegin, ScenarioReadCalculation, ScenarioDerive, Reply,
              PlannerPair, PlannerBaselineRun, PlannerScenarioRun, PlannerReply, store
<1>4. ASSUME NEW c \in Clients, Locked(c)
      PROVE  UNCHANGED <<versions, heads, calcs, edits, resets, operations>>
  BY <1>4 DEF Locked, ImportFail, ImportLock, ImportStale, CalculateLock, CalculateStale,
              ScenarioLock, ScenarioStale, ResetLock, ResetStale, LiveAnswerAgain, LiveLock,
              LiveStale, Refuse, PlannerLock, store
<1>5. ASSUME (\E c \in Clients : Abandon(c)) \/ (\E e \in Engines : Deploy(e))
      PROVE  UNCHANGED <<versions, heads, calcs, edits, resets, operations>>
  BY <1>5 DEF Abandon, Deploy, store
<1> QED BY <1>1, <1>2, <1>3, <1>4, <1>5 DEF Next

(* A new baseline's parent is the head it replaces, and nothing derived from *)
(* the old baseline survives as current: the step an import takes.           *)
LEMMA BaselineStep ==
    ASSUME IInv, [Next]_vars, heads'.baseline # heads.baseline
    PROVE  /\ versions'[heads'.baseline].parent = heads.baseline
           /\ heads'.scenario = 0 /\ heads'.live_working = 0
<1>1. PICK c \in Clients : Commit(c)
  BY OnlyCommitsWrite
<1>2. heads \in Heads
  BY DEF IInv, TypeOK
<1>3. ImportCommit(c)
  <2>1. CASE CalculateCommit(c)
    BY <1>2, <2>1 DEF CalculateCommit, Heads
  <2>2. CASE ScenarioCommit(c)
    BY <1>2, <2>2 DEF ScenarioCommit, Heads
  <2>3. CASE ResetCommit(c)
    BY <1>2, <2>3 DEF ResetCommit, Heads
  <2>4. CASE LiveCommit(c)
    BY <1>2, <2>4 DEF LiveCommit, Heads
  <2> QED BY <1>1, <2>1, <2>2, <2>3, <2>4 DEF Commit
<1> DEFINE row == [kind |-> "baseline", parent |-> req[c].prior,
                   doc |-> Imported(req[c].doc), sequence |-> req[c].sequence,
                   cause |-> Len(batches) + 1]
<1>4. req[c].prior = heads.baseline
  BY <1>3 DEF IInv, RequestsCurrent, Current, ImportCommit, At
<1>5. versions' = Append(versions, row) /\ heads' = ImportedHeads(Len(versions) + 1)
  BY <1>3 DEF ImportCommit
<1>6. versions'[Len(versions) + 1] = row
  BY <1>5 DEF IInv, TypeOK
<1> QED BY <1>4, <1>5, <1>6 DEF ImportedHeads

(* Imports form one line, whatever runs between reading the prior baseline   *)
(* and committing the new one.                                               *)
THEOREM BaselinesFormALine == Spec => BaselineReplacesItsPrior
<1>1. IInv /\ [Next]_vars =>
        [heads'.baseline # heads.baseline =>
            /\ versions'[heads'.baseline].parent = heads.baseline
            /\ heads'.scenario = 0 /\ heads'.live_working = 0]_vars
  BY BaselineStep
<1> QED BY Invariance, <1>1, PTL DEF Spec, BaselineReplacesItsPrior

(* The scenario pointer moves only from the version the planner named.       *)
LEMMA PlanStep ==
    ASSUME IInv, [Next]_vars
    PROVE  /\ heads'.scenario \notin {0, heads.scenario}
                => \E c \in Clients : req[c].op = "scenario" /\ req[c].expected = ActivePlan
           /\ Len(resets') > Len(resets)
                => \E c \in Clients : req[c].op = "reset" /\ req[c].expected = ActivePlan
<1>1. CASE UNCHANGED <<versions, heads, calcs, edits, resets, operations>>
  BY <1>1 DEF IInv, TypeOK
<1>2. ASSUME NEW c \in Clients, Commit(c)
      PROVE  /\ heads'.scenario \notin {0, heads.scenario}
                   => req[c].op = "scenario" /\ req[c].expected = ActivePlan
             /\ Len(resets') > Len(resets)
                   => req[c].op = "reset" /\ req[c].expected = ActivePlan
  <2>0. heads \in Heads /\ resets \in Seq(ResetRow) /\ Len(resets) \in Nat
    BY DEF IInv, TypeOK
  <2>1. CASE ImportCommit(c)
    BY <2>0, <2>1 DEF ImportCommit, ImportedHeads
  <2>2. CASE CalculateCommit(c)
    BY <2>0, <2>2 DEF CalculateCommit, Heads
  <2>3. CASE ScenarioCommit(c)
    BY <2>0, <2>3 DEF ScenarioCommit, IInv, RequestsCurrent, Current, At
  <2>4. CASE ResetCommit(c)
    BY <2>0, <2>4 DEF ResetCommit, IInv, RequestsCurrent, Current, At, Heads
  <2>5. CASE LiveCommit(c)
    BY <2>0, <2>5 DEF LiveCommit, Heads
  <2> QED BY <1>2, <2>1, <2>2, <2>3, <2>4, <2>5 DEF Commit
<1> QED BY <1>1, <1>2, OnlyCommitsWrite

(* No edit and no reset is ever applied to a plan its author did not see.    *)
THEOREM NoLostPlannerEdit == Spec => PlanMovesFromExpected
<1>1. IInv /\ [Next]_vars =>
        [/\ heads'.scenario \notin {0, heads.scenario}
              => \E c \in Clients : req[c].op = "scenario" /\ req[c].expected = ActivePlan
         /\ Len(resets') > Len(resets)
              => \E c \in Clients : req[c].op = "reset" /\ req[c].expected = ActivePlan]_vars
  BY PlanStep
<1> QED BY Invariance, <1>1, PTL DEF Spec, PlanMovesFromExpected

----------------------------------------------------------------------------
(* What the rows of the store mean together: a scenario on display belongs  *)
(* to the baseline it is compared with, the live operations replay as one   *)
(* chain, and the live schedule implements the ledger its clients see.      *)

(* Foreign keys: what a row or a pointer names is stored.                   *)
RowsRefer ==
    /\ \A i \in DOMAIN calcs : calcs[i].version \in DOMAIN versions
    /\ \A i \in DOMAIN operations :
          /\ operations[i].baseline \in DOMAIN versions
          /\ operations[i].base \in DOMAIN versions
          /\ operations[i].result \in DOMAIN versions
          /\ operations[i].baseCalc \in DOMAIN calcs
          /\ operations[i].calc \in DOMAIN calcs
    /\ heads.scenario # 0 => versions[heads.scenario].cause \in DOMAIN edits

(* A scenario is stored together with its calculation.                      *)
ScenarioCalculated == heads.scenario # 0 => Latest(heads.scenario) # 0

(* What a request in progress carries that its commit, or its answer, relies *)
(* on: whoever else commits meanwhile, it stays true of the tables.          *)
Promised(r) ==
    /\ r.op = "calculate" => r.version # 0
    /\ r.op = "scenario" /\ r.pc \in {"derived", "holding"} =>
          calcs[r.calc].ctx.engine = engine
    /\ r.op = "scenario" /\ r.pc = "holding" => r.calc = Latest(heads.baseline)
    /\ r.op = "planner" => r.pc # "broken_lineage"
    /\ r.op = "planner" /\ r.pc = "holding" => r.baseline = heads.baseline
    /\ r.op = "live" /\ r.pc = "holding" =>
          /\ calcs[r.calc].version = r.base
          /\ r.payload.expected = r.base
          /\ Recorded(r.opid) = {}
    /\ r.op = "reply" => \E i \in DOMAIN operations : r.receipt = ReceiptOf(operations[i])

RequestsPromised == \A c \in Clients : Promised(req[c])

LInv ==
    /\ RowsRefer
    /\ ScenarioOnBaseline
    /\ ScenarioComparable
    /\ ScenarioCalculated
    /\ LiveChainReplays
    /\ RequestsPromised
----------------------------------------------------------------------------
(* A non-empty set of naturals has a least element: the well-foundedness of  *)
(* < on the naturals, for a set instead of a predicate.                      *)
LEMMA LeastOfNaturals ==
    ASSUME NEW T \in SUBSET Nat, T # {}
    PROVE  \E m \in T : \A k \in T : m <= k
<1> DEFINE R == {ss \in Nat \X Nat : ss[1] < ss[2]}
<1>1. IsWellFoundedOn(R, Nat)
  BY NatLessThanWellFounded DEF OpToRel
<1>2. \A x, y \in Nat : x < y => <<x, y>> \in R
  OBVIOUS
<1> HIDE DEF R
<1>3. PICK x \in T : \A y \in T : ~ (<<y, x>> \in R)
  BY <1>1, WFMin
<1>4. ASSUME NEW k \in T PROVE x <= k
  <2>1. x \in Nat /\ k \in Nat
    OBVIOUS
  <2>2. ~(k < x)
    BY <1>2, <1>3, <2>1
  <2> QED BY <2>1, <2>2
<1> QED BY <1>4

(* Max of a bounded set of naturals is its greatest element.                 *)
LEMMA MaxOfBounded ==
    ASSUME NEW n \in Nat, NEW S \in SUBSET (0..n), S # {}
    PROVE  Max(S) \in S /\ \A y \in S : Max(S) >= y
<1> DEFINE T == {n - x : x \in S}
<1>1. T \in SUBSET Nat /\ T # {}
  <2>1. \A x \in S : x \in Nat /\ n - x \in Nat
    OBVIOUS
  <2> QED BY <2>1
<1>2. PICK m \in T : \A k \in T : m <= k
  BY <1>1, LeastOfNaturals
<1>3. PICK x \in S : m = n - x
  OBVIOUS
<1>4. \A y \in S : x >= y
  <2> TAKE y \in S
  <2>1. m <= n - y
    BY <1>2
  <2> QED BY <1>3, <2>1
<1> QED BY <1>4 DEF Max

----------------------------------------------------------------------------
(* Rows are only ever added: a table keeps every row it had.                *)
Grows(s, t) == \A i \in DOMAIN s : i \in DOMAIN t /\ t[i] = s[i]

(* What a row appended to a table changes of it.                            *)
LEMMA Appended ==
    ASSUME NEW S, NEW s \in Seq(S), NEW e
    PROVE  /\ Grows(s, Append(s, e))
           /\ Len(Append(s, e)) = Len(s) + 1
           /\ DOMAIN Append(s, e) = DOMAIN s \union {Len(s) + 1}
           /\ Len(s) + 1 \notin DOMAIN s
           /\ Append(s, e)[Len(s) + 1] = e
<1> DEFINE T == S \union {e}
<1>1. s \in Seq(T) /\ e \in T
  OBVIOUS
<1> HIDE DEF T
<1>2. Append(s, e) \in Seq(T) /\ Len(Append(s, e)) = Len(s) + 1
  BY <1>1
<1>3. \A i \in 1..Len(s) : Append(s, e)[i] = s[i]
  BY <1>1
<1>4. Append(s, e)[Len(s) + 1] = e
  BY <1>1
<1>5. Len(s) \in Nat /\ DOMAIN s = 1..Len(s) /\ DOMAIN Append(s, e) = 1..(Len(s) + 1)
  BY <1>1, <1>2
<1> QED BY <1>2, <1>3, <1>4, <1>5 DEF Grows

(* A table left alone has grown by nothing.                                 *)
LEMMA NothingGrows ==
    ASSUME NEW s
    PROVE  Grows(s, s)
BY DEF Grows

(* The tables of versions, calculations, edits and operations under a commit. *)
LEMMA CommitGrows ==
    ASSUME IInv, NEW c \in Clients, Commit(c)
    PROVE  /\ Grows(versions, versions') /\ Grows(calcs, calcs')
           /\ Grows(edits, edits') /\ Grows(operations, operations')
<1>0. /\ versions \in Seq(VersionRow) /\ calcs \in Seq(CalculationRow)
      /\ edits \in Seq(EditRow) /\ operations \in Seq(OperationRow)
  BY DEF IInv, TypeOK
<1>1. CASE ImportCommit(c)
  BY <1>0, <1>1, Appended, NothingGrows DEF ImportCommit
<1>2. CASE CalculateCommit(c)
  <2>1. Grows(calcs, calcs')
    <3> DEFINE row == [version |-> req[c].version, ctx |-> req[c].ctx, at |-> req[c].at]
    <3>1. calcs' = calcs \/ calcs' = Append(calcs, row)
      BY <1>2 DEF CalculateCommit, CalculateStore
    <3> HIDE DEF row
    <3> QED BY <1>0, <3>1, Appended, NothingGrows
  <2> QED BY <1>2, <2>1, NothingGrows DEF CalculateCommit
<1>3. CASE ScenarioCommit(c)
  BY <1>0, <1>3, Appended, NothingGrows DEF ScenarioCommit
<1>4. CASE ResetCommit(c)
  BY <1>4, NothingGrows DEF ResetCommit
<1>5. CASE LiveCommit(c)
  BY <1>0, <1>5, Appended, NothingGrows DEF LiveCommit
<1> QED BY <1>1, <1>2, <1>3, <1>4, <1>5 DEF Commit

(* ... and so under every step.                                              *)
LEMMA TablesGrow ==
    ASSUME IInv, [Next]_vars
    PROVE  /\ Grows(versions, versions') /\ Grows(calcs, calcs')
           /\ Grows(edits, edits') /\ Grows(operations, operations')
BY OnlyCommitsWrite, CommitGrows, NothingGrows

(* The latest calculation of a version is a function of its own runs.        *)
LEMMA LatestKept ==
    ASSUME NEW v, RunsOf(v)' = RunsOf(v), Grows(calcs, calcs')
    PROVE  Latest(v)' = Latest(v) /\ Newest(v)' = Newest(v)
<1>1. \A i \in RunsOf(v) : calcs'[i] = calcs[i]
  BY DEF RunsOf, Grows
<1>2. Newest(v)' = Newest(v)
  BY <1>1 DEF Newest
<1> QED BY <1>2 DEF Latest

(* A calculation of another version changes neither.                         *)
LEMMA LatestElsewhere ==
    ASSUME IInv, NEW row, calcs' = Append(calcs, row), NEW v, v # row.version
    PROVE  Latest(v)' = Latest(v)
<1>1. /\ Grows(calcs, calcs') /\ calcs'[Len(calcs) + 1] = row
      /\ DOMAIN calcs' = DOMAIN calcs \union {Len(calcs) + 1}
  BY Appended DEF IInv, TypeOK
<1>2. RunsOf(v)' = RunsOf(v)
  BY <1>1 DEF RunsOf, Grows
<1> QED BY <1>1, <1>2, LatestKept

(* The first calculation of a version is its latest.                         *)
LEMMA LatestOfNew ==
    ASSUME IInv, NEW row \in CalculationRow, calcs' = Append(calcs, row),
           NEW v, row.version = v, \A i \in DOMAIN calcs : calcs[i].version # v
    PROVE  Latest(v)' = Len(calcs) + 1
<1> DEFINE n == Len(calcs) + 1
<1>1. /\ Grows(calcs, calcs') /\ calcs'[n] = row
      /\ DOMAIN calcs' = DOMAIN calcs \union {n}
  BY Appended DEF IInv, TypeOK
<1>2. RunsOf(v)' = {n}
  BY <1>1 DEF RunsOf, Grows
<1>3. Newest(v)' = {n}
  <2>1. calcs'[n].at <= calcs'[n].at
    BY <1>1 DEF CalculationRow
  <2> QED BY <1>2, <2>1 DEF Newest
<1> QED BY <1>3 DEF Latest

----------------------------------------------------------------------------
(* A commit leaves every other thread what it was promised: none of them     *)
(* holds the lock, and rows are only added.                                  *)
LEMMA CommitPromises ==
    ASSUME IInv, RequestsPromised, NEW c \in Clients, NEW r, Becomes(c, r), Commit(c),
           \/ r = Idle
           \/ r.op = "reply" /\ \E i \in DOMAIN operations' :
                                   r.receipt = ReceiptOf(operations'[i])
    PROVE  RequestsPromised'
<1>1. \A x \in Clients : req'[x] = IF x = c THEN r ELSE req[x]
  BY DEF IInv, TypeOK, Becomes
<1>2. /\ engine' = engine /\ Held(req[c])
  BY DEF Commit, ImportCommit, CalculateCommit, ScenarioCommit, ResetCommit, LiveCommit,
         Held, Kinds, At
<1>3. \A x \in Clients \ {c} : ~Held(req[x])
  BY <1>2, NobodyElseHolds, ClientsAssumption DEF IInv, OneHolder
<1>4. Grows(calcs, calcs') /\ Grows(operations, operations')
  BY CommitGrows
<1> SUFFICES ASSUME NEW x \in Clients PROVE Promised(req[x])'
  BY DEF RequestsPromised
<1>5. CASE x = c
  BY <1>1, <1>5 DEF Promised, Idle
<1>6. CASE x # c
  <2>1. Current(req[x]) /\ Promised(req[x]) /\ ~Held(req[x]) /\ req'[x] = req[x]
    BY <1>1, <1>3, <1>6 DEF IInv, RequestsCurrent, RequestsPromised
  <2>2. req[x].op = "scenario" /\ req[x].pc = "derived" =>
           calcs'[req[x].calc].ctx.engine = engine'
    BY <1>2, <1>4, <2>1 DEF Current, Promised, Grows
  <2>3. req[x].op = "reply" =>
           \E i \in DOMAIN operations' : req[x].receipt = ReceiptOf(operations'[i])
    BY <1>4, <2>1 DEF Promised, Grows
  <2> QED BY <2>1, <2>2, <2>3 DEF Promised, Held, Kinds
<1> QED BY <1>5, <1>6

(* A step of one thread that writes no table.                               *)
LEMMA QuietStep ==
    ASSUME IInv, LInv, NEW c \in Clients, NEW r, Becomes(c, r), Promised(r),
           UNCHANGED <<versions, heads, calcs, edits, operations, engine>>
    PROVE  LInv'
<1>1. \A x \in Clients : req'[x] = IF x = c THEN r ELSE req[x]
  BY DEF IInv, TypeOK, Becomes
<1>2. RowsRefer' /\ ScenarioOnBaseline'
  BY DEF LInv, RowsRefer, ScenarioOnBaseline, OperationsOn
<1>3. \A v : Latest(v)' = Latest(v)
  BY DEF Latest, Newest, RunsOf
<1>4. ScenarioComparable' /\ ScenarioCalculated'
  BY <1>3 DEF LInv, ScenarioComparable, ScenarioCalculated
<1>5. LiveChainReplays'
  BY DEF LInv, LiveChainReplays, LinkReplays, EarlierOnSameBaseline, OperationsOn
<1>6. RequestsPromised'
  <2> SUFFICES ASSUME NEW x \in Clients PROVE Promised(req[x])'
    BY DEF RequestsPromised
  <2>1. CASE x = c
    BY <1>1, <1>3, <2>1 DEF Promised, Recorded
  <2>2. CASE x # c
    BY <1>1, <1>3, <2>2 DEF LInv, RequestsPromised, Promised, Recorded
  <2> QED BY <2>1, <2>2
<1> QED BY <1>2, <1>4, <1>5, <1>6 DEF LInv

(* Starting a request, and working without the lock.                        *)
LEMMA QuietActions ==
    ASSUME IInv, LInv, NEW c \in Clients, Ask(c) \/ Work(c), ~Commit(c)
    PROVE  LInv'
<1> USE DEF store
<1>0. Promised(Idle) /\ Promised(req[c])
  BY DEF Promised, Idle, LInv, RequestsPromised
<1>1. ASSUME NEW d \in Docs, ImportRead(c, d) PROVE LInv'
  <2> DEFINE r == ImportRequest("prepared", d, heads.baseline, 0)
  <2>1. Promised(r)
    BY DEF Promised, ImportRequest
  <2> QED BY <1>1, <2>1, QuietStep DEF ImportRead
<1>2. ASSUME NEW w \in Windows, CalculateRead(c, w) PROVE LInv'
  <2> DEFINE r == CalculateRequest("computed", heads.baseline,
                                   [window |-> w, engine |-> engine], 0)
  <2>1. Promised(r)
    BY <1>2 DEF Promised, CalculateRequest, CalculateRead
  <2> QED BY <1>2, <2>1, QuietStep DEF CalculateRead
<1>3. ASSUME PlannerAsk(c) PROVE LInv'
  <2> DEFINE r == PlannerRequest("asked", 0, 0, 0)
  <2>1. Promised(r)
    BY DEF Promised, PlannerRequest
  <2> QED BY <1>3, <2>1, QuietStep DEF PlannerAsk
<1>4. ASSUME NEW expected \in 1..Len(versions), ScenarioRead(c, expected) PROVE LInv'
  <2> DEFINE r == ScenarioRequest("loaded", expected, heads.baseline, 0, 0)
  <2>1. Promised(r)
    BY DEF Promised, ScenarioRequest
  <2> QED BY <1>4, <2>1, QuietStep DEF ScenarioRead
<1>5. ASSUME NEW expected \in 1..Len(versions), ResetAsk(c, expected) PROVE LInv'
  <2> DEFINE r == ResetRequest("asked", expected)
  <2>1. Promised(r)
    BY DEF Promised, ResetRequest
  <2> QED BY <1>5, <2>1, QuietStep DEF ResetAsk
<1>6. ASSUME NEW expected \in 1..Len(versions), NEW opid \in OpIds, NEW fact \in Facts,
             LiveAsk(c, opid, expected, fact)
      PROVE  LInv'
  <2> DEFINE r == LiveRequest("asked", opid,
                              [actor |-> c, expected |-> expected, fact |-> fact], 0, 0, 0, 0)
  <2>1. Promised(r)
    BY DEF Promised, LiveRequest
  <2> QED BY <1>6, <2>1, QuietStep DEF LiveAsk
<1>7. CASE CalculateBegin(c)
  <2> DEFINE r == CalculateRequest("begun", req[c].version, req[c].ctx, clock)
  <2>1. Promised(r)
    BY <1>0, <1>7 DEF Promised, CalculateRequest, CalculateBegin, At
  <2> QED BY <1>7, <2>1, QuietStep DEF CalculateBegin
<1>8. CASE ScenarioReadCalculation(c)
  <2> DEFINE r == ScenarioRequest("compared", req[c].expected, req[c].base,
                                  Latest(heads.baseline), 0)
  <2>1. Promised(r) /\ (Becomes(c, r) \/ Becomes(c, Idle))
    BY <1>8 DEF Promised, ScenarioRequest, ScenarioReadCalculation
  <2> QED BY <1>0, <1>8, <2>1, QuietStep DEF ScenarioReadCalculation
<1>9. CASE ScenarioDerive(c)
  <2> DEFINE r == ScenarioRequest("derived", req[c].expected, req[c].base, req[c].calc, 0)
  <2>1. CASE calcs[req[c].calc].ctx.engine = engine
    <3>1. Promised(r) /\ (Becomes(c, r) \/ Becomes(c, Idle))
      BY <1>9, <2>1 DEF Promised, ScenarioRequest, ScenarioDerive
    <3> QED BY <1>0, <1>9, <3>1, QuietStep DEF ScenarioDerive
  <2>2. CASE calcs[req[c].calc].ctx.engine # engine
    BY <1>0, <1>9, <2>2, QuietStep DEF ScenarioDerive
  <2> QED BY <2>1, <2>2
<1>10. CASE Reply(c)
  BY <1>0, <1>10, QuietStep DEF Reply
<1>11. CASE PlannerPair(c)
  <2> DEFINE r == PlannerRequest("paired", req[c].baseline, heads.scenario, 0)
  <2>1. req[c].baseline = heads.baseline
    BY <1>0, <1>11 DEF Promised, PlannerPair, At
  <2>2. heads.scenario # 0 => DerivedFrom(heads.scenario, req[c].baseline)
    BY <2>1 DEF LInv, ScenarioOnBaseline, DerivedFrom
  <2>3. Promised(r) /\ (Becomes(c, r) \/ Becomes(c, Idle))
    BY <1>11, <2>2 DEF Promised, PlannerRequest, PlannerPair
  <2> QED BY <1>0, <1>11, <2>3, QuietStep DEF PlannerPair
<1>12. CASE PlannerBaselineRun(c)
  <2> DEFINE r == PlannerRequest("calculated", req[c].baseline, req[c].scenario,
                                 Latest(req[c].baseline))
  <2>1. Promised(r)
    BY DEF Promised, PlannerRequest
  <2> QED BY <1>12, <2>1, QuietStep DEF PlannerBaselineRun
<1>13. CASE PlannerScenarioRun(c)
  <2>1. PICK pc \in {"shown", "mixed_contexts"} :
           Becomes(c, PlannerRequest(pc, req[c].baseline, req[c].scenario, req[c].calc))
    BY <1>13 DEF PlannerScenarioRun
  <2> DEFINE r == PlannerRequest(pc, req[c].baseline, req[c].scenario, req[c].calc)
  <2>2. Promised(r)
    BY DEF Promised, PlannerRequest
  <2> QED BY <1>13, <2>1, <2>2, QuietStep DEF PlannerScenarioRun
<1>14. CASE PlannerReply(c)
  BY <1>0, <1>14, QuietStep DEF PlannerReply
<1> QED BY <1>1, <1>2, <1>3, <1>4, <1>5, <1>6, <1>7, <1>8, <1>9, <1>10, <1>11, <1>12,
           <1>13, <1>14 DEF Ask, Work, Commit

(* Checking under the lock, which is where a promise begins.                 *)
LEMMA LockedActions ==
    ASSUME IInv, LInv, NEW c \in Clients, Locked(c)
    PROVE  LInv'
<1> USE DEF store
<1>0. Promised(Idle) /\ Promised(req[c])
  BY DEF Promised, Idle, LInv, RequestsPromised
<1>1. CASE ImportFail(c)
  BY <1>0, <1>1, QuietStep DEF ImportFail
<1>2. ASSUME Refuse(c) PROVE LInv'
  BY <1>0, <1>2, QuietStep DEF Refuse
<1>3. CASE ImportLock(c)
  <2> DEFINE r == ImportRequest("holding", req[c].doc, req[c].prior, NextSequence)
  <2>1. Promised(r)
    BY DEF Promised, ImportRequest
  <2> QED BY <1>3, <2>1, QuietStep DEF ImportLock
<1>4. CASE CalculateLock(c)
  <2> DEFINE r == CalculateRequest("holding", req[c].version, req[c].ctx, req[c].at)
  <2>1. Promised(r)
    BY <1>0, <1>4 DEF Promised, CalculateRequest, CalculateLock, At
  <2> QED BY <1>4, <2>1, QuietStep DEF CalculateLock
<1>5. CASE ScenarioLock(c)
  <2> DEFINE r == ScenarioRequest("holding", req[c].expected, req[c].base,
                                  req[c].calc, NextSequence)
  <2>1. Promised(r)
    BY <1>0, <1>5 DEF Promised, ScenarioRequest, ScenarioLock, ScenarioStillCurrent, At
  <2> QED BY <1>5, <2>1, QuietStep DEF ScenarioLock
<1>6. CASE ResetLock(c)
  <2> DEFINE r == ResetRequest("holding", req[c].expected)
  <2>1. Promised(r)
    BY DEF Promised, ResetRequest
  <2> QED BY <1>6, <2>1, QuietStep DEF ResetLock
<1>7. CASE LiveLock(c)
  <2> DEFINE r == LiveRequest("holding", req[c].opid, req[c].payload, ActiveLive,
                              Latest(ActiveLive), NextSequence, LiveCursor + 1)
  <2>1. Latest(ActiveLive) \in RunsOf(ActiveLive)
    BY <1>7 DEF LiveLock, LiveStillCurrent, Latest, Newest
  <2>2. calcs[Latest(ActiveLive)].version = ActiveLive
    BY <2>1 DEF RunsOf
  <2>3. Promised(r)
    BY <1>7, <2>2 DEF Promised, LiveRequest, LiveLock, LiveStillCurrent
  <2> QED BY <1>7, <2>3, QuietStep DEF LiveLock
<1>8. CASE LiveAnswerAgain(c)
  <2>1. PICK i \in Recorded(req[c].opid) :
             Becomes(c, IF operations[i].payload = req[c].payload
                        THEN ReplyRequest(ReceiptOf(operations[i])) ELSE Idle)
    BY <1>8 DEF LiveAnswerAgain
  <2> DEFINE r == ReplyRequest(ReceiptOf(operations[i]))
  <2>2. i \in DOMAIN operations
    BY <2>1 DEF Recorded
  <2>3. Promised(r)
    BY <2>2 DEF Promised, ReplyRequest
  <2>4. Becomes(c, r) \/ Becomes(c, Idle)
    BY <2>1
  <2> QED BY <1>0, <1>8, <2>3, <2>4, QuietStep DEF LiveAnswerAgain
<1>9. CASE PlannerLock(c)
  <2> DEFINE r == PlannerRequest("holding", heads.baseline, 0, 0)
  <2>1. Promised(r)
    BY DEF Promised, PlannerRequest
  <2> QED BY <1>9, <2>1, QuietStep DEF PlannerLock
<1> QED BY <1>1, <1>2, <1>3, <1>4, <1>5, <1>6, <1>7, <1>8, <1>9
        DEF Locked, ImportStale, CalculateStale, ScenarioStale, ResetStale, LiveStale

(* A failed request promises nothing any more; a restart ends them all.      *)
LEMMA FailureActions ==
    ASSUME IInv, LInv, (\E c \in Clients : Abandon(c)) \/ (\E e \in Engines : Deploy(e))
    PROVE  LInv'
<1>1. ASSUME NEW c \in Clients, Abandon(c) PROVE LInv'
  <2>1. Promised(Idle)
    BY DEF Promised, Idle
  <2> QED BY <1>1, <2>1, QuietStep DEF Abandon, store
<1>2. ASSUME NEW e \in Engines, Deploy(e) PROVE LInv'
  <2>1. UNCHANGED <<versions, heads, calcs, edits, operations>>
    BY <1>2 DEF Deploy, store
  <2>2. RowsRefer' /\ ScenarioOnBaseline'
    BY <2>1 DEF LInv, RowsRefer, ScenarioOnBaseline, OperationsOn
  <2>3. ScenarioComparable' /\ ScenarioCalculated'
    BY <2>1 DEF LInv, ScenarioComparable, ScenarioCalculated, Latest, Newest, RunsOf
  <2>4. LiveChainReplays'
    BY <2>1 DEF LInv, LiveChainReplays, LinkReplays, EarlierOnSameBaseline, OperationsOn
  <2>5. RequestsPromised'
    BY <1>2 DEF Deploy, RequestsPromised, Promised, Idle
  <2> QED BY <2>2, <2>3, <2>4, <2>5 DEF LInv
<1> QED BY <1>1, <1>2

----------------------------------------------------------------------------
(* Commits.  A link of the chain is made of rows, so it stays what it was.   *)
LEMMA LinksKept ==
    ASSUME IInv, RowsRefer, NEW i \in DOMAIN operations, LinkReplays(i),
           Grows(versions, versions'), Grows(calcs, calcs'), Grows(operations, operations')
    PROVE  LinkReplays(i)'
<1> DEFINE o == operations[i]
<1>1. operations'[i] = o
  BY DEF Grows
<1>2. \A j \in 1..(i - 1) : operations'[j] = operations[j]
  BY DEF IInv, TypeOK, Grows
<1>3. EarlierOnSameBaseline(i)' = EarlierOnSameBaseline(i)
  BY <1>1, <1>2 DEF EarlierOnSameBaseline
<1>4. /\ versions'[o.result] = versions[o.result] /\ versions'[o.base] = versions[o.base]
      /\ calcs'[o.baseCalc] = calcs[o.baseCalc] /\ calcs'[o.calc] = calcs[o.calc]
  BY DEF RowsRefer, Grows
<1>5. EarlierOnSameBaseline(i) # {} =>
        operations'[Max(EarlierOnSameBaseline(i))].result
            = operations[Max(EarlierOnSameBaseline(i))].result
  <2> SUFFICES ASSUME EarlierOnSameBaseline(i) # {}
               PROVE  operations'[Max(EarlierOnSameBaseline(i))].result
                        = operations[Max(EarlierOnSameBaseline(i))].result
    OBVIOUS
  <2>1. i - 1 \in Nat /\ EarlierOnSameBaseline(i) \in SUBSET (0..(i - 1))
    BY DEF IInv, TypeOK, EarlierOnSameBaseline
  <2>2. Max(EarlierOnSameBaseline(i)) \in EarlierOnSameBaseline(i)
    BY <2>1, MaxOfBounded
  <2> QED BY <1>2, <2>2 DEF EarlierOnSameBaseline
<1> QED BY <1>1, <1>3, <1>4, <1>5 DEF LinkReplays

(* What a commit that accepts no operation leaves of the chain.              *)
LEMMA ChainKept ==
    ASSUME IInv, LInv, NEW c \in Clients, Commit(c), operations' = operations,
           \/ heads'.baseline = heads.baseline /\ heads'.live_working = heads.live_working
           \/ heads'.baseline \notin DOMAIN versions /\ heads'.live_working = 0
    PROVE  LiveChainReplays'
<1>1. ASSUME NEW i \in DOMAIN operations PROVE LinkReplays(i)'
  BY <1>1, CommitGrows, LinksKept DEF LInv, LiveChainReplays
<1>2. CASE heads'.baseline = heads.baseline /\ heads'.live_working = heads.live_working
  <2>1. OperationsOn(heads.baseline)' = OperationsOn(heads.baseline)
    BY <1>2 DEF OperationsOn
  <2> QED BY <1>1, <1>2, <2>1 DEF LInv, LiveChainReplays, OperationsOn
<1>3. CASE heads'.baseline \notin DOMAIN versions /\ heads'.live_working = 0
  <2>1. OperationsOn(heads.baseline)' = {}
    BY <1>3 DEF LInv, RowsRefer, OperationsOn
  <2> QED BY <1>1, <1>3, <2>1 DEF LiveChainReplays
<1> QED BY <1>2, <1>3

(* ... and of the rows' references.                                          *)
LEMMA ReferencesKept ==
    ASSUME IInv, LInv, NEW c \in Clients, Commit(c), operations' = operations,
           \A i \in DOMAIN calcs' \ DOMAIN calcs : calcs'[i].version \in DOMAIN versions',
           heads'.scenario \in {0, heads.scenario}
    PROVE  RowsRefer'
<1>1. /\ Grows(versions, versions') /\ Grows(calcs, calcs') /\ Grows(edits, edits')
  BY CommitGrows
<1>2. \A i \in DOMAIN calcs' : calcs'[i].version \in DOMAIN versions'
  BY <1>1 DEF LInv, RowsRefer, Grows
<1>3. \A i \in DOMAIN operations :
        /\ operations[i].baseline \in DOMAIN versions'
        /\ operations[i].base \in DOMAIN versions'
        /\ operations[i].result \in DOMAIN versions'
        /\ operations[i].baseCalc \in DOMAIN calcs'
        /\ operations[i].calc \in DOMAIN calcs'
  BY <1>1 DEF LInv, RowsRefer, Grows
<1>4. heads'.scenario # 0 => versions'[heads'.scenario].cause \in DOMAIN edits'
  <2> SUFFICES ASSUME heads.scenario # 0, heads'.scenario = heads.scenario
               PROVE  versions'[heads.scenario].cause \in DOMAIN edits'
    OBVIOUS
  <2>1. heads.scenario \in DOMAIN versions
    BY DEF IInv, TypeOK, HeadsExist, Heads
  <2> QED BY <1>1, <2>1 DEF LInv, RowsRefer, Grows
<1> QED BY <1>2, <1>3, <1>4 DEF RowsRefer

(* A scenario that stays on display is the row it was.                       *)
LEMMA ScenarioKept ==
    ASSUME IInv, LInv, NEW c \in Clients, Commit(c),
           heads'.scenario = 0 \/ (/\ heads'.scenario = heads.scenario
                                  /\ heads'.baseline = heads.baseline)
    PROVE  ScenarioOnBaseline'
<1> SUFFICES ASSUME heads.scenario # 0, heads'.scenario = heads.scenario,
                    heads'.baseline = heads.baseline
             PROVE  ScenarioOnBaseline'
  BY DEF ScenarioOnBaseline
<1>1. heads.scenario \in DOMAIN versions
  BY DEF IInv, TypeOK, HeadsExist, Heads
<1>2. versions'[heads.scenario] = versions[heads.scenario]
  BY <1>1, CommitGrows DEF Grows
<1>3. versions[heads.scenario].cause \in DOMAIN edits
  BY DEF LInv, RowsRefer
<1>4. edits'[versions[heads.scenario].cause] = edits[versions[heads.scenario].cause]
  BY <1>3, CommitGrows DEF Grows
<1> QED BY <1>2, <1>4 DEF LInv, ScenarioOnBaseline

(* An import's commit keeps it.                                             *)
LEMMA ImportCommitLineage ==
    ASSUME IInv, LInv, NEW c \in Clients, ImportCommit(c)
    PROVE  LInv'
<1>0. Commit(c)
  BY DEF Commit
<1>1. /\ heads' = ImportedHeads(Len(versions) + 1) /\ calcs' = calcs
      /\ operations' = operations /\ Becomes(c, Idle)
  BY DEF ImportCommit
<1>2. Len(versions) + 1 \notin DOMAIN versions
  BY DEF IInv, TypeOK
<1>3. LiveChainReplays'
  BY <1>0, <1>1, <1>2, ChainKept DEF ImportedHeads
<1>4. RowsRefer'
  BY <1>0, <1>1, ReferencesKept DEF ImportedHeads
<1>5. ScenarioOnBaseline' /\ ScenarioComparable' /\ ScenarioCalculated'
  BY <1>1 DEF ImportedHeads, ScenarioOnBaseline, ScenarioComparable, ScenarioCalculated
<1>6. RequestsPromised'
  BY <1>0, <1>1, CommitPromises DEF LInv
<1> QED BY <1>3, <1>4, <1>5, <1>6 DEF LInv

(* A reset's commit keeps it.                                               *)
LEMMA ResetCommitLineage ==
    ASSUME IInv, LInv, NEW c \in Clients, ResetCommit(c)
    PROVE  LInv'
<1>0. Commit(c)
  BY DEF Commit
<1>1. /\ heads'.baseline = heads.baseline /\ heads'.live_working = heads.live_working
      /\ heads'.scenario = 0 /\ calcs' = calcs /\ operations' = operations /\ Becomes(c, Idle)
  BY DEF ResetCommit, IInv, TypeOK, Heads
<1>2. LiveChainReplays'
  BY <1>0, <1>1, ChainKept
<1>3. RowsRefer'
  BY <1>0, <1>1, ReferencesKept
<1>4. ScenarioOnBaseline' /\ ScenarioComparable' /\ ScenarioCalculated'
  BY <1>1 DEF ScenarioOnBaseline, ScenarioComparable, ScenarioCalculated
<1>5. RequestsPromised'
  BY <1>0, <1>1, CommitPromises DEF LInv
<1> QED BY <1>2, <1>3, <1>4, <1>5 DEF LInv

(* A recalculation either retires the scenario, or stored nothing: the        *)
(* baseline already had a run in the scenario's context, its latest.          *)
LEMMA CalculateCommitLineage ==
    ASSUME IInv, LInv, NEW c \in Clients, CalculateCommit(c)
    PROVE  LInv'
<1> DEFINE row == [version |-> req[c].version, ctx |-> req[c].ctx, at |-> req[c].at]
<1>0. Commit(c)
  BY DEF Commit
<1>1. /\ heads'.baseline = heads.baseline /\ heads'.live_working = heads.live_working
      /\ heads'.scenario \in {0, heads.scenario}
      /\ operations' = operations /\ versions' = versions /\ Becomes(c, Idle)
  BY DEF CalculateCommit, IInv, TypeOK, Heads
<1>2. req[c].version = heads.baseline /\ heads.baseline \in DOMAIN versions
  <2>1. req[c].version = heads.baseline /\ heads.baseline # 0
    BY DEF CalculateCommit, At, IInv, RequestsCurrent, Current, LInv, RequestsPromised, Promised
  <2> QED BY <2>1 DEF IInv, TypeOK, HeadsExist, Heads
<1>3. /\ calcs' = calcs \/ calcs' = Append(calcs, row)
      /\ Stored(req[c].version, req[c].ctx) # {} => calcs' = calcs
  BY DEF CalculateCommit, CalculateStore
<1>4. LiveChainReplays'
  BY <1>0, <1>1, ChainKept
<1>5. RowsRefer'
  <2>1. \A i \in DOMAIN calcs' \ DOMAIN calcs : calcs'[i] = row
    <3> HIDE DEF row
    <3> QED BY <1>3, Appended DEF IInv, TypeOK
  <2> QED BY <1>0, <1>1, <1>2, <2>1, ReferencesKept
<1>6. ScenarioOnBaseline'
  BY <1>0, <1>1, ScenarioKept
<1>7. ScenarioComparable' /\ ScenarioCalculated'
  <2> SUFFICES ASSUME heads'.scenario # 0 PROVE ScenarioComparable' /\ ScenarioCalculated'
    BY DEF ScenarioComparable, ScenarioCalculated
  <2> HIDE DEF row
  <2>1. heads.scenario # 0 /\ heads' = heads /\ ScenarioComparesWith(req[c].ctx)
    BY <1>1 DEF CalculateCommit, IInv, TypeOK, Heads
  <2>2. calcs[Latest(heads.baseline)].ctx = req[c].ctx /\ Latest(heads.baseline) # 0
    BY <2>1 DEF LInv, ScenarioComparable, ScenarioComparesWith
  <2>3. Latest(heads.baseline) \in RunsOf(heads.baseline)
    BY <2>2 DEF Latest, Newest
  <2>4. calcs' = calcs
    BY <1>2, <1>3, <2>2, <2>3 DEF Stored
  <2>5. \A v : Latest(v)' = Latest(v)
    BY <2>4 DEF Latest, Newest, RunsOf
  <2> QED BY <2>1, <2>4, <2>5 DEF LInv, ScenarioComparable, ScenarioCalculated
<1>8. RequestsPromised'
  BY <1>0, <1>1, CommitPromises DEF LInv
<1> QED BY <1>4, <1>5, <1>6, <1>7, <1>8 DEF LInv

(* A planner's edit keeps it.                                               *)
LEMMA ScenarioCommitLineage ==
    ASSUME IInv, LInv, NEW c \in Clients, ScenarioCommit(c)
    PROVE  LInv'
<1> DEFINE v == Len(versions) + 1
           row == [kind |-> "scenario", parent |-> req[c].base,
                   doc |-> Edited(versions[req[c].base].doc),
                   sequence |-> req[c].sequence, cause |-> Len(edits) + 1]
           edit == [baseline |-> req[c].base, scenario |-> v]
           ctx == [window |-> calcs[req[c].calc].ctx.window, engine |-> engine]
           run == [version |-> v, at |-> 0, ctx |-> ctx]
<1>0. Commit(c)
  BY DEF Commit
<1>1. /\ versions' = Append(versions, row) /\ edits' = Append(edits, edit)
      /\ calcs' = Append(calcs, run) /\ heads' = [heads EXCEPT !.scenario = v]
      /\ operations' = operations /\ Becomes(c, Idle)
  BY DEF ScenarioCommit
<1>2. /\ req[c].base = heads.baseline /\ heads.baseline # 0 /\ req[c].calc \in DOMAIN calcs
      /\ req[c].calc = Latest(heads.baseline) /\ calcs[req[c].calc].ctx.engine = engine
  BY DEF ScenarioCommit, At, IInv, RequestsCurrent, Current, LInv, RequestsPromised, Promised
<1>3. /\ heads'.baseline = heads.baseline /\ heads'.live_working = heads.live_working
      /\ heads'.scenario = v
  BY <1>1 DEF IInv, TypeOK, Heads
<1>4. ctx = calcs[req[c].calc].ctx
  <2>1. calcs[req[c].calc].ctx \in Context
    BY <1>2, StoredRows DEF IInv
  <2> QED BY <1>2, <2>1 DEF Context
<1>5. run \in CalculationRow
  <2>1. calcs[req[c].calc].ctx \in Context /\ v \in Nat
    BY <1>2, StoredRows DEF IInv, TypeOK
  <2> QED BY <1>4, <2>1 DEF CalculationRow
<1>6. run.version = v /\ run.ctx = ctx /\ row.cause = Len(edits) + 1
      /\ row.kind = "scenario" /\ row.parent = heads.baseline
      /\ edit = [baseline |-> heads.baseline, scenario |-> v]
  BY <1>2
<1> HIDE DEF row, edit, run, ctx
<1>7. /\ versions'[v] = row /\ v \in DOMAIN versions' /\ v \notin DOMAIN versions
      /\ edits'[Len(edits) + 1] = edit /\ Len(edits) + 1 \in DOMAIN edits'
      /\ calcs'[Len(calcs) + 1] = run
      /\ DOMAIN calcs' = DOMAIN calcs \union {Len(calcs) + 1}
      /\ Grows(calcs, calcs')
  <2>1. versions'[v] = row /\ v \in DOMAIN versions' /\ v \notin DOMAIN versions
    BY <1>1, Appended DEF IInv, TypeOK
  <2>2. edits'[Len(edits) + 1] = edit /\ Len(edits) + 1 \in DOMAIN edits'
    BY <1>1, Appended DEF IInv, TypeOK
  <2>3. /\ calcs'[Len(calcs) + 1] = run
        /\ DOMAIN calcs' = DOMAIN calcs \union {Len(calcs) + 1}
        /\ Grows(calcs, calcs')
    BY <1>1, Appended DEF IInv, TypeOK
  <2> QED BY <2>1, <2>2, <2>3
<1>8. LiveChainReplays'
  BY <1>0, <1>1, <1>3, ChainKept
<1>9. RowsRefer'
  <2>1. /\ Grows(versions, versions') /\ operations' = operations
    BY <1>0, <1>1, CommitGrows
  <2>2. \A i \in DOMAIN calcs' : calcs'[i].version \in DOMAIN versions'
    BY <1>6, <1>7, <2>1 DEF LInv, RowsRefer, Grows
  <2>3. \A i \in DOMAIN operations :
          /\ operations[i].baseline \in DOMAIN versions'
          /\ operations[i].base \in DOMAIN versions'
          /\ operations[i].result \in DOMAIN versions'
          /\ operations[i].baseCalc \in DOMAIN calcs'
          /\ operations[i].calc \in DOMAIN calcs'
    BY <1>7, <2>1 DEF LInv, RowsRefer, Grows
  <2> QED BY <1>3, <1>6, <1>7, <2>1, <2>2, <2>3 DEF RowsRefer
<1>10. ScenarioOnBaseline'
  BY <1>3, <1>6, <1>7 DEF ScenarioOnBaseline
<1>11. ScenarioComparable' /\ ScenarioCalculated'
  <2>1. \A i \in DOMAIN calcs : calcs[i].version # v
    BY <1>7 DEF LInv, RowsRefer
  <2>2. \A b : b = v => Latest(b)' = Len(calcs) + 1
    BY <1>1, <1>5, <1>6, <2>1, LatestOfNew
  <2>3. heads.baseline # v
    BY <1>2, <1>7 DEF IInv, TypeOK, HeadsExist, Heads
  <2>4. Latest(heads.baseline)' = Latest(heads.baseline)
    <3>1. heads.baseline # run.version
      BY <1>6, <2>3
    <3>2. \A b : b # run.version => Latest(b)' = Latest(b)
      BY <1>1, LatestElsewhere
    <3> QED BY <1>3, <3>1, <3>2
  <2>5. Latest(heads.scenario)' = Len(calcs) + 1
    BY <1>3, <2>2
  <2>6. calcs'[Latest(heads.baseline)] = calcs[Latest(heads.baseline)]
    BY <1>2, <1>7 DEF Grows
  <2>7. Latest(heads.baseline) # 0 /\ Len(calcs) + 1 # 0
    BY <1>2 DEF IInv, TypeOK
  <2> QED BY <1>2, <1>4, <1>6, <1>7, <2>4, <2>5, <2>6, <2>7
          DEF ScenarioComparable, ScenarioCalculated
<1>12. RequestsPromised'
  BY <1>0, <1>1, CommitPromises DEF LInv
<1> QED BY <1>8, <1>9, <1>10, <1>11, <1>12 DEF LInv

(* An accepted operation is the next link: its base is the result of the      *)
(* last operation on this baseline, or the baseline itself.                   *)
LEMMA LiveCommitLineage ==
    ASSUME IInv, LInv, NEW c \in Clients, LiveCommit(c)
    PROVE  LInv'
<1> DEFINE v == Len(versions) + 1
           n == Len(operations) + 1
           base == req[c].base
           row == [kind |-> "live_working", parent |-> base,
                   doc |-> Apply(versions[base].doc, req[c].payload.fact),
                   sequence |-> req[c].sequence, cause |-> n]
           run == [version |-> v, ctx |-> calcs[req[c].calc].ctx, at |-> 0]
           o == NewOperation(c)
<1>0. Commit(c)
  BY DEF Commit
<1>1. /\ versions' = Append(versions, row) /\ calcs' = Append(calcs, run)
      /\ operations' = Append(operations, o) /\ heads' = [heads EXCEPT !.live_working = v]
      /\ edits' = edits /\ Becomes(c, ReplyRequest(ReceiptOf(o)))
  BY DEF LiveCommit
<1>2. /\ base = ActiveLive /\ heads.baseline # 0 /\ req[c].calc \in DOMAIN calcs
      /\ calcs[req[c].calc].version = base /\ req[c].payload.expected = base
  BY DEF LiveCommit, At, IInv, RequestsCurrent, Current, LInv, RequestsPromised, Promised
<1>3. /\ heads'.baseline = heads.baseline /\ heads'.live_working = v
      /\ heads'.scenario = heads.scenario
  BY <1>1 DEF IInv, TypeOK, Heads
<1>4. base \in DOMAIN versions /\ heads.baseline \in DOMAIN versions
  BY <1>2 DEF IInv, TypeOK, HeadsExist, Heads, ActiveLive
<1>5. /\ o.baseline = heads.baseline /\ o.base = base /\ o.baseCalc = req[c].calc
      /\ o.result = v /\ o.calc = Len(calcs) + 1 /\ o.payload = req[c].payload
  BY DEF NewOperation
<1>6. run.version = v /\ row.cause = n /\ row.kind = "live_working"
  OBVIOUS
<1>7. /\ run = [version |-> v, ctx |-> calcs[req[c].calc].ctx, at |-> 0]
      /\ row = [kind |-> "live_working", parent |-> base, cause |-> n,
                sequence |-> row.sequence,
                doc |-> Apply(versions[base].doc, req[c].payload.fact)]
  OBVIOUS
<1> HIDE DEF row, run, o
<1>8. /\ versions'[v] = row /\ v \in DOMAIN versions' /\ v \notin DOMAIN versions
      /\ DOMAIN versions' = DOMAIN versions \union {v}
      /\ calcs'[Len(calcs) + 1] = run /\ Len(calcs) + 1 \notin DOMAIN calcs
      /\ DOMAIN calcs' = DOMAIN calcs \union {Len(calcs) + 1}
      /\ operations'[n] = o /\ DOMAIN operations' = DOMAIN operations \union {n}
      /\ n \notin DOMAIN operations
  BY <1>1, Appended DEF IInv, TypeOK
<1>9. /\ Grows(versions, versions') /\ Grows(calcs, calcs')
      /\ Grows(operations, operations')
  BY <1>0, CommitGrows
<1>10. RowsRefer'
  <2>1. \A i \in DOMAIN calcs' : calcs'[i].version \in DOMAIN versions'
    BY <1>6, <1>8, <1>9 DEF LInv, RowsRefer, Grows
  <2>2. ASSUME NEW i \in DOMAIN operations'
        PROVE  /\ operations'[i].baseline \in DOMAIN versions'
               /\ operations'[i].base \in DOMAIN versions'
               /\ operations'[i].result \in DOMAIN versions'
               /\ operations'[i].baseCalc \in DOMAIN calcs'
               /\ operations'[i].calc \in DOMAIN calcs'
    <3>1. CASE i = n
      BY <1>2, <1>4, <1>5, <1>8, <3>1
    <3>2. CASE i \in DOMAIN operations
      BY <1>8, <1>9, <3>2 DEF LInv, RowsRefer, Grows
    <3> QED BY <1>8, <3>1, <3>2
  <2>3. heads.scenario # 0 => versions'[heads.scenario].cause \in DOMAIN edits
    BY <1>9 DEF IInv, TypeOK, HeadsExist, Heads, LInv, RowsRefer, Grows
  <2> QED BY <1>1, <1>3, <2>1, <2>2, <2>3 DEF RowsRefer
<1>11. ScenarioOnBaseline'
  BY <1>0, <1>3, ScenarioKept
<1>12. ScenarioComparable' /\ ScenarioCalculated'
  <2>1. \A b : b # v => Latest(b)' = Latest(b)
    BY <1>1, <1>6, LatestElsewhere
  <2>2. heads.scenario # v /\ heads.baseline # v
    BY <1>8 DEF IInv, TypeOK, HeadsExist, Heads
  <2>3. Latest(heads.baseline)' = Latest(heads.baseline)
        /\ Latest(heads.scenario)' = Latest(heads.scenario)
    BY <1>3, <2>1, <2>2
  <2>4. \A b : Latest(b) # 0 => calcs'[Latest(b)] = calcs[Latest(b)]
    BY <1>9, LatestStored DEF Grows
  <2> QED BY <1>3, <2>3, <2>4 DEF LInv, ScenarioComparable, ScenarioCalculated
<1>13. \A i \in DOMAIN operations : LinkReplays(i)'
  BY <1>9, LinksKept DEF LInv, LiveChainReplays
<1>14. OperationsOn(heads.baseline) # {} =>
         /\ Max(OperationsOn(heads.baseline)) \in OperationsOn(heads.baseline)
         /\ heads.live_working = operations[Max(OperationsOn(heads.baseline))].result
         /\ heads.live_working # 0
  <2> DEFINE S == OperationsOn(heads.baseline)
  <2>1. S \in SUBSET (0..Len(operations)) /\ Len(operations) \in Nat /\ S \subseteq DOMAIN operations
    BY DEF OperationsOn, IInv, TypeOK
  <2>2. S # {} => Max(S) \in S
    BY <2>1, MaxOfBounded
  <2>3. S # {} => heads.live_working = operations[Max(S)].result
    BY DEF LInv, LiveChainReplays
  <2>4. \A i \in DOMAIN operations : operations[i].result # 0
    BY DEF LInv, RowsRefer, IInv, TypeOK
  <2> QED BY <2>1, <2>2, <2>3, <2>4
<1>15. \A k : k = n => LinkReplays(k)'
  <2>1. n \in Nat /\ 1..(n - 1) = DOMAIN operations
    BY DEF IInv, TypeOK
  <2>2. {j \in 1..(n - 1) : operations'[j].baseline = o.baseline}
          = OperationsOn(heads.baseline)
    BY <1>5, <1>9, <2>1 DEF OperationsOn, Grows
  <2>3. \A k : k = n => EarlierOnSameBaseline(k)' = OperationsOn(heads.baseline)
    BY <1>8, <2>2 DEF EarlierOnSameBaseline
  <2>4. base = IF OperationsOn(heads.baseline) = {} THEN heads.baseline
               ELSE operations'[Max(OperationsOn(heads.baseline))].result
    <3>1. CASE OperationsOn(heads.baseline) = {}
      BY <1>2, <3>1 DEF LInv, LiveChainReplays, ActiveLive
    <3>2. CASE OperationsOn(heads.baseline) # {}
      <4>1. operations'[Max(OperationsOn(heads.baseline))]
              = operations[Max(OperationsOn(heads.baseline))]
        BY <1>9, <1>14, <3>2 DEF OperationsOn, Grows
      <4> QED BY <1>2, <1>14, <3>2, <4>1 DEF ActiveLive
    <3> QED BY <3>1, <3>2
  <2>5. calcs'[o.baseCalc] = calcs[o.baseCalc] /\ versions'[base] = versions[base]
    BY <1>2, <1>4, <1>5, <1>9 DEF Grows
  <2>6. ASSUME NEW k, k = n PROVE LinkReplays(k)'
    <3>1. operations'[k] = o
      BY <1>8, <2>6
    <3>2. EarlierOnSameBaseline(k)' = OperationsOn(heads.baseline)
      BY <2>3, <2>6
    <3>3. o.base = IF EarlierOnSameBaseline(k)' = {} THEN o.baseline
                   ELSE operations'[Max(EarlierOnSameBaseline(k)')].result
      BY <1>5, <2>4, <3>2
    <3>4. calcs'[o.baseCalc].version = o.base /\ o.payload.expected = o.base
      BY <1>2, <1>5, <2>5
    <3>5. calcs'[o.calc] = [version |-> o.result, ctx |-> calcs'[o.baseCalc].ctx, at |-> 0]
      BY <1>5, <1>7, <1>8, <2>5
    <3>6. versions'[o.result] =
            [kind |-> "live_working", parent |-> o.base, cause |-> k,
             sequence |-> versions'[o.result].sequence,
             doc |-> Apply(versions'[o.base].doc, o.payload.fact)]
      BY <1>5, <1>7, <1>8, <2>5, <2>6
    <3> QED BY <3>1, <3>3, <3>4, <3>5, <3>6 DEF LinkReplays
  <2> QED BY <2>6
<1>16. LiveChainReplays'
  <2>1. \A i \in DOMAIN operations' : LinkReplays(i)'
    BY <1>8, <1>13, <1>15
  <2>2. OperationsOn(heads.baseline)' = OperationsOn(heads.baseline) \union {n}
    BY <1>3, <1>5, <1>8, <1>9 DEF OperationsOn, Grows
  <2> DEFINE S == OperationsOn(heads.baseline) \union {n}
  <2>3. n \in S /\ n \in Nat /\ S \in SUBSET (0..n)
    BY DEF OperationsOn, IInv, TypeOK
  <2>4. Max(S) = n
    <3>1. Max(S) \in S /\ Max(S) >= n
      BY <2>3, MaxOfBounded
    <3> QED BY <2>3, <3>1
  <2>5. operations'[Max(S)].result = v
    BY <1>5, <1>8, <2>4
  <2> QED BY <1>3, <2>1, <2>2, <2>3, <2>5 DEF LiveChainReplays
<1>17. RequestsPromised'
  <2>1. \E i \in DOMAIN operations' :
           ReplyRequest(ReceiptOf(o)).receipt = ReceiptOf(operations'[i])
    BY <1>8 DEF ReplyRequest
  <2> QED BY <1>0, <1>1, <2>1, CommitPromises DEF LInv, ReplyRequest
<1> QED BY <1>10, <1>11, <1>12, <1>16, <1>17 DEF LInv

----------------------------------------------------------------------------
(* The empty store has it.                                                  *)
LEMMA InitLineage == Init => LInv
<1> SUFFICES ASSUME Init PROVE LInv
  OBVIOUS
<1>1. DOMAIN operations = {} /\ DOMAIN calcs = {} /\ OperationsOn(heads.baseline) = {}
  BY DEF Init, OperationsOn
<1>2. heads.scenario = 0 /\ heads.live_working = 0
  BY DEF Init
<1>3. RowsRefer /\ ScenarioOnBaseline /\ ScenarioComparable /\ ScenarioCalculated
  BY <1>1, <1>2 DEF RowsRefer, ScenarioOnBaseline, ScenarioComparable, ScenarioCalculated
<1>4. LiveChainReplays
  BY <1>1, <1>2 DEF LiveChainReplays
<1>5. RequestsPromised
  BY DEF Init, RequestsPromised, Promised, Idle
<1> QED BY <1>3, <1>4, <1>5 DEF LInv

(* Every step keeps it.                                                     *)
LEMMA NextLineage == IInv /\ LInv /\ [Next]_vars => LInv'
<1> SUFFICES ASSUME IInv, LInv, [Next]_vars PROVE LInv'
  OBVIOUS
<1>1. CASE UNCHANGED vars
  <2>1. UNCHANGED <<versions, heads, calcs, edits, operations, engine, req>>
    BY <1>1 DEF vars, store
  <2>2. RowsRefer' /\ ScenarioOnBaseline'
    BY <2>1 DEF LInv, RowsRefer, ScenarioOnBaseline
  <2>3. ScenarioComparable' /\ ScenarioCalculated'
    BY <2>1 DEF LInv, ScenarioComparable, ScenarioCalculated, Latest, Newest, RunsOf
  <2>4. LiveChainReplays'
    BY <2>1 DEF LInv, LiveChainReplays, LinkReplays, EarlierOnSameBaseline, OperationsOn
  <2>5. RequestsPromised'
    BY <2>1 DEF LInv, RequestsPromised, Promised, Recorded, Latest, Newest, RunsOf
  <2> QED BY <2>2, <2>3, <2>4, <2>5 DEF LInv
<1>2. ASSUME NEW c \in Clients, Commit(c) PROVE LInv'
  BY <1>2, ImportCommitLineage, CalculateCommitLineage, ScenarioCommitLineage,
     ResetCommitLineage, LiveCommitLineage DEF Commit
<1>3. CASE Next
  BY <1>2, <1>3, QuietActions, LockedActions, FailureActions DEF Next
<1> QED BY <1>1, <1>3

(* The lineage of versions, calculations and operations holds throughout.   *)
THEOREM Lineage == Spec => [](IInv /\ LInv)
<1>1. Init => IInv /\ LInv
  BY InitInvariant, InitLineage
<1>2. (IInv /\ LInv) /\ [Next]_vars => (IInv /\ LInv)'
  BY NextInvariant, NextLineage
<1> QED BY <1>1, <1>2, PTL DEF Spec

(* What a planner is shown belongs together, whatever imports, calculations,  *)
(* edits, resets, failures and deployments run meanwhile.                     *)
THEOREM PlannerShownOnePair == Spec => []PlannerStateBelongs
<1>1. IInv /\ LInv => PlannerStateBelongs
  BY DEF LInv, PlannerStateBelongs, PlannerPairsBelong, RequestsPromised, Promised, At
<1> QED BY Lineage, <1>1, PTL

(* The live operations of every baseline form one chain that replays, and the *)
(* live pointer is its last link.                                             *)
THEOREM LiveOperationsReplay == Spec => []LiveChainReplays
<1>1. IInv /\ LInv => LiveChainReplays
  BY DEF LInv
<1> QED BY Lineage, <1>1, PTL
----------------------------------------------------------------------------
(* The store implements the ledger.  Only an answer tells a client anything, *)
(* and it tells what the ledger holds.                                       *)
LEMMA OnlyRepliesTell ==
    ASSUME [Next]_vars
    PROVE  told' = told \/ \E c \in Clients : Reply(c)
<1>1. CASE UNCHANGED vars
  BY <1>1 DEF vars
<1>2. ASSUME NEW c \in Clients, Ask(c) PROVE told' = told
  BY <1>2 DEF Ask, ImportRead, CalculateRead, ScenarioRead, ResetAsk, LiveAsk, PlannerAsk
<1>3. ASSUME NEW c \in Clients, Work(c), ~Reply(c) PROVE told' = told
  BY <1>3 DEF Work, CalculateBegin, ScenarioReadCalculation, ScenarioDerive, ImportCommit,
              CalculateCommit, ScenarioCommit, ResetCommit, LiveCommit,
              PlannerPair, PlannerBaselineRun, PlannerScenarioRun, PlannerReply
<1>4. ASSUME NEW c \in Clients, Locked(c) PROVE told' = told
  BY <1>4 DEF Locked, ImportFail, ImportLock, ImportStale, CalculateLock, CalculateStale,
              ScenarioLock, ScenarioStale, ResetLock, ResetStale, LiveAnswerAgain, LiveLock,
              LiveStale, Refuse, PlannerLock
<1>5. ASSUME (\E c \in Clients : Abandon(c)) \/ (\E e \in Engines : Deploy(e))
      PROVE  told' = told
  BY <1>5 DEF Abandon, Deploy
<1> QED BY <1>1, <1>2, <1>3, <1>4, <1>5 DEF Next

(* A sequence is the function of its elements.                               *)
LEMMA SequenceIsFunction ==
    ASSUME NEW T, NEW s \in Seq(T)
    PROVE  s = [i \in DOMAIN s |-> s[i]]
<1>1. s \in [1..Len(s) -> T] /\ DOMAIN s = 1..Len(s)
  OBVIOUS
<1> QED BY <1>1

(* The ledger of the store, and the head its clients see.                    *)
Entries == [i \in DOMAIN operations |-> LedgerEntry(operations[i])]

(* The entries of the ledger are the operations, in their order.            *)
LEMMA EntriesFacts ==
    ASSUME IInv
    PROVE  /\ Entries \in Seq([opid : OpIds, result : Nat, payload : Payload])
           /\ Len(Entries) = Len(operations) /\ DOMAIN Entries = DOMAIN operations
           /\ \A i \in DOMAIN operations : Entries[i] = LedgerEntry(operations[i])
<1>1. operations \in Seq(OperationRow)
  BY DEF IInv, TypeOK
<1>2. Len(operations) \in Nat /\ DOMAIN operations = 1..Len(operations)
  BY <1>1
<1>3. \A i \in DOMAIN operations :
        LedgerEntry(operations[i]) \in [opid : OpIds, result : Nat, payload : Payload]
  <2> TAKE i \in DOMAIN operations
  <2>1. operations[i] \in OperationRow
    BY <1>1
  <2> QED BY <2>1 DEF LedgerEntry, OperationRow
<1> QED BY <1>2, <1>3 DEF Entries

(* A submission that commits is the ledger accepting its operation.          *)
LEMMA LiveCommitAccepts ==
    ASSUME IInv, LInv, NEW c \in Clients, LiveCommit(c)
    PROVE  Ledger!Next
<1> DEFINE o == NewOperation(c)
           v == Len(versions) + 1
<1>1. /\ operations' = Append(operations, o) /\ heads' = [heads EXCEPT !.live_working = v]
      /\ told' = told
  BY DEF LiveCommit
<1>2. /\ req[c].base = ActiveLive /\ heads.baseline # 0
      /\ req[c].payload.expected = req[c].base /\ Recorded(req[c].opid) = {}
  BY DEF LiveCommit, At, IInv, RequestsCurrent, Current, LInv, RequestsPromised, Promised
<1>3. req[c].opid \in OpIds /\ req[c].payload \in Payload
  <2>1. req[c] \in [op : {"live"}, pc : {"asked", "holding"}, opid : OpIds,
                    payload : Payload, base : Nat, calc : Nat, sequence : Nat, cursor : Nat]
    BY DEF IInv, TypeOK, Request, LiveCommit, At, Idle
  <2> QED BY <2>1
<1>4. ActiveLive' = v /\ v > ActiveLive /\ ActiveLive # 0
  BY <1>1, <1>2 DEF ActiveLive, IInv, TypeOK, Heads, HeadsExist
<1>5. o.opid = req[c].opid /\ o.result = v /\ o.payload = req[c].payload
  BY DEF NewOperation
<1> DEFINE e == LedgerEntry(o)
<1>6. e = [opid |-> req[c].opid, result |-> ActiveLive',
           payload |-> [actor |-> req[c].payload.actor, expected |-> ActiveLive,
                        fact |-> req[c].payload.fact]]
  BY <1>2, <1>3, <1>4, <1>5 DEF LedgerEntry, Payload
<1> HIDE DEF o
<1>7. Entries' = Append(Entries, e)
  <2>1. /\ operations'[Len(operations) + 1] = o
        /\ DOMAIN operations' = DOMAIN operations \union {Len(operations) + 1}
        /\ Grows(operations, operations') /\ Len(operations) + 1 \notin DOMAIN operations
    BY <1>1, Appended DEF IInv, TypeOK
  <2>2. /\ Append(Entries, e)[Len(operations) + 1] = e
        /\ DOMAIN Append(Entries, e) = DOMAIN operations \union {Len(operations) + 1}
        /\ Grows(Entries, Append(Entries, e))
    BY EntriesFacts, Appended
  <2>3. \A i \in DOMAIN operations' : LedgerEntry(operations'[i]) = Append(Entries, e)[i]
    BY <2>1, <2>2, EntriesFacts DEF Grows
  <2>4. Append(Entries, e) = [i \in DOMAIN Append(Entries, e) |-> Append(Entries, e)[i]]
    <3> DEFINE T == [opid : OpIds, result : Nat, payload : Payload]
    <3>1. e \in T
      BY <1>3, <1>4, <1>5 DEF LedgerEntry, IInv, TypeOK
    <3>2. Entries \in Seq(T)
      BY EntriesFacts
    <3> HIDE DEF e, T
    <3>3. Append(Entries, e) \in Seq(T)
      BY <3>1, <3>2
    <3> QED BY <3>3, SequenceIsFunction
  <2>5. Entries' = [i \in DOMAIN operations' |-> LedgerEntry(operations'[i])]
    BY DEF Entries
  <2> QED BY <2>1, <2>2, <2>3, <2>4, <2>5
<1>8. req[c].opid \notin {Entries[i].opid : i \in DOMAIN Entries}
  BY <1>2, EntriesFacts DEF Recorded, LedgerEntry
<1>9. req[c].payload.actor \in Clients /\ req[c].payload.fact \in Facts
  BY <1>3 DEF Payload
<1>10. Ledger!Accept(req[c].opid, req[c].payload.actor, req[c].payload.fact)
  BY <1>1, <1>4, <1>6, <1>7, <1>8 DEF Ledger!Accept, Ledger!Used, Entries
<1> QED BY <1>3, <1>9, <1>10 DEF Ledger!Next

(* Every step of the store is a step of the ledger, or invisible to it.     *)
LEMMA LedgerStep ==
    ASSUME IInv, LInv, [Next]_vars
    PROVE  [Ledger!Next]_(Ledger!ledgerVars)
<1>1. CASE UNCHANGED <<versions, heads, calcs, edits, resets, operations>> /\ told' = told
  BY <1>1 DEF Ledger!ledgerVars, ActiveLive
<1>2. ASSUME NEW c \in Clients, Reply(c) PROVE Ledger!Next
  <2>1. PICK i \in DOMAIN operations : req[c].receipt = ReceiptOf(operations[i])
    BY <1>2 DEF Reply, LInv, RequestsPromised, Promised
  <2>2. operations[i].sequence = i
    BY DEF IInv, SequencesHaveNoGap
  <2>3. Entries[i].opid = operations[i].opid /\ Entries[i].result = operations[i].result
        /\ i \in DOMAIN Entries
    BY EntriesFacts DEF LedgerEntry
  <2>4. req[c].receipt = [opid |-> Entries[i].opid, sequence |-> i, result |-> Entries[i].result]
    BY <2>1, <2>2, <2>3 DEF ReceiptOf
  <2>5. UNCHANGED <<heads, operations>> /\ told' = told \union {req[c].receipt}
    BY <1>2 DEF Reply, store
  <2>6. Ledger!Tell(i)
    BY <2>4, <2>5 DEF Ledger!Tell, Entries, ActiveLive
  <2> QED BY <2>3, <2>6 DEF Ledger!Next, Entries
<1>3. ASSUME NEW c \in Clients, Commit(c)
      PROVE  [Ledger!Next]_(Ledger!ledgerVars)
  <2>1. told' = told /\ heads \in Heads
    BY <1>3 DEF Commit, ImportCommit, CalculateCommit, ScenarioCommit, ResetCommit,
                LiveCommit, IInv, TypeOK
  <2>2. CASE ImportCommit(c)
    <3>1. ActiveLive' > ActiveLive
      BY <2>2 DEF ImportCommit, ImportedHeads, ActiveLive, IInv, TypeOK, HeadsExist, Heads
    <3>2. operations' = operations
      BY <2>2 DEF ImportCommit
    <3>3. Ledger!Rebase
      BY <2>1, <3>1, <3>2 DEF Ledger!Rebase
    <3> QED BY <3>3 DEF Ledger!Next
  <2>3. CASE CalculateCommit(c) \/ ScenarioCommit(c) \/ ResetCommit(c)
    <3>1. /\ operations' = operations /\ heads'.baseline = heads.baseline
          /\ heads'.live_working = heads.live_working
      BY <2>1, <2>3 DEF CalculateCommit, ScenarioCommit, ResetCommit, Heads
    <3> QED BY <2>1, <3>1 DEF Ledger!ledgerVars, ActiveLive
  <2>4. CASE LiveCommit(c)
    BY <2>4, LiveCommitAccepts
  <2> QED BY <1>3, <2>2, <2>3, <2>4 DEF Commit
<1> QED BY <1>1, <1>2, <1>3, OnlyCommitsWrite, OnlyRepliesTell

(* Transactions, retries, lost responses, restarts and concurrent imports are *)
(* invisible to live clients: what they see is the ledger of LiveLedger.      *)
THEOREM StoreImplementsLedger == Spec => LiveIsALedger
<1>1. Init => Ledger!Init
  <2> SUFFICES ASSUME Init PROVE Ledger!Init
    OBVIOUS
  <2>1. operations = <<>> /\ ActiveLive = 0 /\ told = {}
    BY DEF Init, ActiveLive
  <2> QED BY <2>1 DEF Ledger!Init
<1>2. IInv /\ LInv /\ [Next]_vars => [Ledger!Next]_(Ledger!ledgerVars)
  BY LedgerStep
<1> QED BY Lineage, <1>1, <1>2, PTL DEF Spec, LiveIsALedger, Ledger!Spec

----------------------------------------------------------------------------
(* The lock-free readers beside any number of writers: every step of the    *)
(* composition is a step of the store or leaves it alone, so the store's     *)
(* invariant and its growing tables carry the readers.                       *)

Look == [pc : {"idle", "no_live", "answered"}, answer : Nat, valid : SUBSET Nat]
Feed == [open : BOOLEAN, at : Nat, batch : Seq(OperationRow), received : Seq(OperationRow)]

(* A request that found no live version will answer the baseline pointer as  *)
(* it is by then: that baseline is, or was, the live head since.             *)
LookInv ==
    /\ look \in Look
    /\ LiveHeadWasLive
    /\ look.pc = "no_live" => heads.baseline \in look.valid

(* The cursor of an open connection counts what its client has, and the page *)
(* in hand is what the history says comes next.                              *)
FeedInv ==
    /\ feed \in Feed
    /\ StreamIsPrefix
    /\ feed.open => feed.at = Len(feed.received)
    /\ ~feed.open => feed.batch = <<>>
    /\ Len(feed.received) + Len(feed.batch) <= Len(operations)
    /\ \A k \in 1..Len(feed.batch) : feed.batch[k] = operations[Len(feed.received) + k]

RInv == IInv /\ LookInv /\ FeedInv
----------------------------------------------------------------------------
(* One composition step is a step of the store, or leaves the store alone.   *)
LEMMA StoreSteps ==
    ASSUME [ReadersNext]_<<vars, readers>>
    PROVE  [Next]_vars
BY DEF ReadersNext, LookLive, LookBaseline, LookAnswer, FeedConnect, FeedFetch, FeedSend,
       FeedDrop, readers

(* The pointers the readers look at are indices, or 0.                      *)
LEMMA ActiveLiveTyped ==
    ASSUME IInv
    PROVE  ActiveLive \in Nat /\ heads.baseline \in Nat /\ heads.live_working \in Nat
BY DEF IInv, TypeOK, Heads, ActiveLive

----------------------------------------------------------------------------
(* The live-head request.                                                   *)
LEMMA LookStep ==
    ASSUME IInv, IInv', LookInv, [ReadersNext]_<<vars, readers>>
    PROVE  LookInv'
<1>0. /\ ActiveLive \in Nat /\ heads.baseline \in Nat /\ heads.live_working \in Nat
      /\ ActiveLive' \in Nat
  BY ActiveLiveTyped DEF IInv, TypeOK, Heads, ActiveLive
<1>1. ASSUME Next, Remember PROVE LookInv'
  <2>1. CASE look.pc = "idle"
    BY <1>1, <2>1 DEF Remember, LookInv, LiveHeadWasLive
  <2>2. CASE look.pc # "idle"
    <3>1. look' = [look EXCEPT !.valid = @ \union {ActiveLive'}]
      BY <1>1, <2>2 DEF Remember
    <3>2. /\ look' \in Look /\ look'.pc = look.pc /\ look'.answer = look.answer
          /\ look'.valid = look.valid \union {ActiveLive'}
      BY <1>0, <3>1 DEF LookInv, Look
    <3>3. look.pc = "no_live" => heads'.baseline \in look'.valid
      <4>1. CASE heads'.baseline = heads.baseline
        BY <3>2, <4>1 DEF LookInv
      <4>2. CASE heads'.baseline # heads.baseline
        <5>1. heads'.live_working = 0
          BY <1>1, <4>2, BaselineStep
        <5>2. ActiveLive' = heads'.baseline
          BY <5>1 DEF ActiveLive
        <5> QED BY <3>2, <5>2
      <4> QED BY <4>1, <4>2
    <3> QED BY <3>2, <3>3 DEF LookInv, LiveHeadWasLive
  <2> QED BY <2>1, <2>2
<1>2. CASE LookLive
  <2>1. /\ look' \in Look /\ look'.valid = {ActiveLive} /\ look'.answer = heads.live_working
        /\ look'.pc = IF heads.live_working # 0 THEN "answered" ELSE "no_live"
        /\ heads' = heads
    BY <1>0, <1>2 DEF LookLive, Look, vars, store
  <2>2. ActiveLive = IF heads.live_working # 0 THEN heads.live_working ELSE heads.baseline
    BY DEF ActiveLive
  <2> QED BY <2>1, <2>2 DEF LookInv, LiveHeadWasLive
<1>3. CASE LookBaseline
  <2>1. /\ look' \in Look /\ look'.pc = "answered" /\ look'.answer = heads.baseline
        /\ look'.valid = look.valid /\ heads.baseline \in look.valid
    BY <1>0, <1>3 DEF LookBaseline, LookInv, Look
  <2> QED BY <2>1 DEF LookInv, LiveHeadWasLive
<1>4. CASE LookAnswer
  BY <1>4 DEF LookAnswer, NotLooking, LookInv, LiveHeadWasLive, Look
<1>5. CASE UNCHANGED <<heads, look>>
  BY <1>5 DEF LookInv, LiveHeadWasLive
<1> QED BY <1>1, <1>2, <1>3, <1>4, <1>5
        DEF ReadersNext, FeedConnect, FeedFetch, FeedSend, FeedDrop, vars, store, readers

----------------------------------------------------------------------------
(* A page of changes_after: while the numbers have no gap, the changes after *)
(* cursor n are operations n + 1, n + 2, ... and the page is the first of    *)
(* them.                                                                     *)
LEMMA PageIsNext ==
    ASSUME IInv, NEW n \in Nat, n <= Len(operations), PageSizeAssumption
    PROVE  /\ ChangesAfter(n) \in Seq(OperationRow)
           /\ n + Len(ChangesAfter(n)) <= Len(operations)
           /\ \A k \in 1..Len(ChangesAfter(n)) : ChangesAfter(n)[k] = operations[n + k]
<1> DEFINE N == Len(operations)
           after == {i \in DOMAIN operations : operations[i].sequence > n}
           m == Min({PageSize, Cardinality(after)})
           pick(k) == CHOOSE i \in after :
                Cardinality({j \in after : operations[j].sequence
                                             <= operations[i].sequence}) = k
<1>1. /\ operations \in Seq(OperationRow) /\ N \in Nat /\ DOMAIN operations = 1..N
      /\ \A i \in 1..N : operations[i].sequence = i
  BY DEF IInv, TypeOK, SequencesHaveNoGap
<1>2. after = (n + 1)..N
  BY <1>1
<1>3. Cardinality(after) = N - n
  <2>1. n + 1 \in Int /\ N \in Int
    BY <1>1
  <2>2. Cardinality((n + 1)..N) = IF n + 1 > N THEN 0 ELSE N - (n + 1) + 1
    BY <2>1, FS_Interval, Zenon
  <2>3. \A a, b \in Nat : b <= a => (IF b + 1 > a THEN 0 ELSE a - (b + 1) + 1) = a - b
    OBVIOUS
  <2> QED BY <1>1, <1>2, <2>2, <2>3
<1>4. m \in Nat /\ m <= N - n
  <2>1. PageSize \in Nat /\ N - n \in Nat
    BY <1>1, PageSizeAssumption
  <2>2. \A a, b \in Nat : Min({a, b}) \in Nat /\ Min({a, b}) <= b
    <3> TAKE a, b \in Nat
    <3>1. \E x \in {a, b} : \A y \in {a, b} : x <= y
      OBVIOUS
    <3> QED BY <3>1 DEF Min
  <2> QED BY <1>3, <2>1, <2>2
<1>5. ASSUME NEW k \in 1..m PROVE pick(k) = n + k
  <2>1. \A i \in after : {j \in after : operations[j].sequence <= operations[i].sequence}
                           = (n + 1)..i
    BY <1>1, <1>2
  <2>2. \A i \in after : Cardinality((n + 1)..i) = i - n
    <3> TAKE i \in after
    <3>1. i \in Int /\ n + 1 \in Int /\ n + 1 <= i
      BY <1>1, <1>2
    <3>2. Cardinality((n + 1)..i) = IF n + 1 > i THEN 0 ELSE i - (n + 1) + 1
      BY <3>1, FS_Interval, Zenon
    <3>3. (IF n + 1 > i THEN 0 ELSE i - (n + 1) + 1) = i - n
      BY <3>1
    <3> QED BY <3>2, <3>3
  <2>3. n + k \in after
    BY <1>1, <1>2, <1>4
  <2>4. \A i \in after : Cardinality({j \in after : operations[j].sequence
                                             <= operations[i].sequence}) = k
                          <=> i = n + k
    <3> TAKE i \in after
    <3>1. Cardinality({j \in after : operations[j].sequence <= operations[i].sequence}) = i - n
      BY <2>1, <2>2
    <3>2. i \in Nat
      BY <1>1, <1>2
    <3> QED BY <3>1, <3>2
  <2> QED BY <2>3, <2>4
<1>6. ChangesAfter(n) = [k \in 1..m |-> operations[pick(k)]]
  BY DEF ChangesAfter
<1> HIDE DEF after, m, pick
<1>7. \A k \in 1..m : ChangesAfter(n)[k] = operations[n + k] /\ operations[n + k] \in OperationRow
  BY <1>1, <1>4, <1>5, <1>6
<1>8. ChangesAfter(n) \in Seq(OperationRow) /\ Len(ChangesAfter(n)) = m
  BY <1>4, <1>6, <1>7
<1> QED BY <1>1, <1>4, <1>7, <1>8

(* The change stream.                                                       *)
LEMMA FeedStep ==
    ASSUME IInv, FeedInv, [ReadersNext]_<<vars, readers>>, PageSizeAssumption
    PROVE  FeedInv'
<1> DEFINE n == Len(feed.received)
           b == Len(feed.batch)
           m == Len(operations)
<1>0. /\ operations \in Seq(OperationRow) /\ feed.received \in Seq(OperationRow)
      /\ feed.batch \in Seq(OperationRow) /\ feed.open \in BOOLEAN /\ feed.at \in Nat
      /\ \A i \in DOMAIN operations : operations[i].sequence = i
  BY DEF IInv, TypeOK, SequencesHaveNoGap, FeedInv, Feed
<1>1. /\ n \in Nat /\ b \in Nat /\ m \in Nat
      /\ DOMAIN operations = 1..m /\ DOMAIN feed.received = 1..n /\ DOMAIN feed.batch = 1..b
  BY <1>0
<1>2. /\ n <= m /\ n + b <= m
      /\ \A i \in 1..n : feed.received[i] = operations[i]
      /\ \A k \in 1..b : feed.batch[k] = operations[n + k]
  BY <1>1 DEF FeedInv, StreamIsPrefix
<1>3. n = Len(feed.received) /\ b = Len(feed.batch) /\ m = Len(operations)
  OBVIOUS
<1> HIDE DEF n, b, m
<1>4. \A k \in 1..b : n + k \in 1..m
  BY <1>1, <1>2
<1>5. ASSUME UNCHANGED feed, [Next]_vars PROVE FeedInv'
  <2>1. Grows(operations, operations')
    BY <1>5, TablesGrow
  <2>2. operations' \in Seq(OperationRow)
    BY <1>5, NextInvariant DEF IInv, TypeOK
  <2> DEFINE later == Len(operations')
  <2>3. later \in Nat /\ DOMAIN operations' = 1..later /\ later = Len(operations')
    BY <2>2
  <2> HIDE DEF later
  <2>4. \A i \in 1..m : i \in 1..later /\ operations'[i] = operations[i]
    BY <1>1, <2>1, <2>3 DEF Grows
  <2>5. m <= later
    <3>1. m = 0 \/ m \in 1..m
      BY <1>1
    <3> QED BY <1>1, <2>3, <2>4, <3>1
  <2>6. n <= later /\ n + b <= later
    BY <1>1, <1>2, <2>3, <2>5
  <2>7. \A k \in 1..b : feed.batch[k] = operations'[n + k]
    BY <1>2, <1>4, <2>4
  <2>8. \A i \in 1..n : feed.received[i] = operations'[i]
    BY <1>1, <1>2, <2>4
  <2> QED BY <1>1, <1>3, <1>5, <2>3, <2>6, <2>7, <2>8 DEF FeedInv, StreamIsPrefix
<1>6. CASE FeedConnect
  <2>1. LastReceived = n
    <3>1. feed.received = <<>> => n = 0
      BY <1>3
    <3>2. feed.received # <<>> => n \in 1..n
      BY <1>0, <1>1, <1>3
    <3>3. n \in 1..n => feed.received[n].sequence = n
      BY <1>0, <1>1, <1>2
    <3> QED BY <1>3, <3>1, <3>2, <3>3 DEF LastReceived
  <2>2. /\ feed' = [feed EXCEPT !.open = TRUE, !.at = n] /\ operations' = operations
        /\ feed.batch = <<>>
    BY <1>6, <2>1 DEF FeedConnect, FeedInv, vars, store
  <2>3. /\ feed'.received = feed.received /\ feed'.batch = feed.batch /\ feed'.open
        /\ feed'.at = n /\ feed' \in Feed
    BY <1>0, <1>1, <2>2 DEF FeedInv, Feed
  <2>4. StreamIsPrefix'
    BY <2>2, <2>3 DEF FeedInv, StreamIsPrefix
  <2>5. /\ Len(feed.received) + Len(feed.batch) <= Len(operations)
        /\ \A k \in 1..Len(feed.batch) : feed.batch[k] = operations[Len(feed.received) + k]
    BY DEF FeedInv
  <2> QED BY <1>3, <2>2, <2>3, <2>4, <2>5 DEF FeedInv
<1>7. CASE FeedFetch
  <2> DEFINE page == ChangesAfter(n)
  <2>1. feed' = [feed EXCEPT !.batch = page] /\ operations' = operations /\ feed.open
        /\ feed.at = n
    BY <1>3, <1>7 DEF FeedFetch, FeedInv, vars, store
  <2>2. /\ page \in Seq(OperationRow) /\ n + Len(page) <= m
        /\ \A k \in 1..Len(page) : page[k] = operations[n + k]
    BY <1>1, <1>2, <1>3, PageIsNext
  <2> HIDE DEF page
  <2>3. /\ feed' \in Feed /\ feed'.received = feed.received /\ feed'.open
        /\ feed'.at = feed.at /\ feed'.batch = page
    BY <2>1, <2>2 DEF FeedInv, Feed
  <2>4. StreamIsPrefix'
    BY <2>1, <2>3 DEF FeedInv, StreamIsPrefix
  <2>5. /\ Len(feed'.received) + Len(feed'.batch) <= Len(operations')
        /\ \A k \in 1..Len(feed'.batch) :
              feed'.batch[k] = operations'[Len(feed'.received) + k]
    BY <1>3, <2>1, <2>2, <2>3
  <2>6. feed'.open /\ feed'.at = Len(feed'.received)
    BY <1>3, <2>1, <2>3
  <2> QED BY <2>3, <2>4, <2>5, <2>6 DEF FeedInv
<1>8. CASE FeedSend
  <2> DEFINE t == Tail(feed.batch)
             s == Append(feed.received, feed.batch[1])
  <2>1. /\ feed' = [feed EXCEPT !.batch = t, !.at = feed.batch[1].sequence, !.received = s]
        /\ operations' = operations /\ feed.open /\ feed.batch # <<>>
    BY <1>8 DEF FeedSend, vars, store
  <2>2. b > 0
    BY <1>0, <1>1, <1>3, <2>1
  <2>3. 1 \in 1..b /\ n + 1 \in 1..m
    BY <1>1, <1>2, <2>2
  <2>4. feed.batch[1] = operations[n + 1] /\ feed.batch[1].sequence = n + 1
        /\ feed.batch[1] \in OperationRow
    <3>1. feed.batch[1] = operations[n + 1]
      BY <1>2, <2>3
    <3>2. operations[n + 1].sequence = n + 1 /\ operations[n + 1] \in OperationRow
      BY <1>0, <1>1, <2>3
    <3> QED BY <3>1, <3>2
  <2>5. /\ t \in Seq(OperationRow) /\ Len(t) = b - 1
        /\ \A k \in 1..(b - 1) : t[k] = feed.batch[k + 1]
    BY <1>0, <1>3, <2>1
  <2>6. /\ s \in Seq(OperationRow) /\ Len(s) = n + 1 /\ s[n + 1] = feed.batch[1]
        /\ \A i \in 1..n : s[i] = feed.received[i]
    BY <1>0, <1>3, <2>4
  <2> HIDE DEF s, t
  <2>7. feed' = [open |-> feed.open, at |-> n + 1, batch |-> t, received |-> s]
    BY <2>1, <2>4 DEF FeedInv, Feed
  <2>8. feed' \in Feed
    BY <1>0, <1>1, <2>5, <2>6, <2>7 DEF Feed
  <2>9. \A i \in 1..(n + 1) : s[i] = operations[i]
    BY <1>1, <1>2, <2>4, <2>6
  <2>10. \A k \in 1..(b - 1) : t[k] = operations[n + 1 + k]
    <3> TAKE k \in 1..(b - 1)
    <3>1. k + 1 \in 1..b /\ n + (k + 1) = n + 1 + k
      BY <1>1
    <3> QED BY <1>2, <2>5, <3>1
  <2>11. n + 1 <= m /\ n + 1 + (b - 1) <= m
    BY <1>1, <1>2, <2>2
  <2>12. DOMAIN s = 1..(n + 1)
    BY <2>6
  <2>13. /\ feed'.received = s /\ feed'.batch = t /\ feed'.at = n + 1 /\ feed'.open
         /\ Len(s) = n + 1 /\ Len(t) = b - 1 /\ m = Len(operations')
    <3>1. /\ feed'.received = s /\ feed'.batch = t /\ feed'.at = n + 1
          /\ feed'.open = feed.open
      BY <2>7
    <3> QED BY <1>3, <2>1, <2>5, <2>6, <3>1
  <2>14. StreamIsPrefix'
    BY <2>1, <2>9, <2>11, <2>12, <2>13 DEF StreamIsPrefix
  <2>15. \A k \in 1..Len(feed'.batch) : feed'.batch[k] = operations'[Len(feed'.received) + k]
    BY <2>1, <2>10, <2>13
  <2> QED BY <2>8, <2>11, <2>13, <2>14, <2>15 DEF FeedInv
<1>9. CASE FeedDrop
  <2>1. feed' = [feed EXCEPT !.open = FALSE, !.batch = <<>>] /\ operations' = operations
    BY <1>9 DEF FeedDrop, vars, store
  <2>2. feed' = [open |-> FALSE, at |-> feed.at, batch |-> <<>>, received |-> feed.received]
    BY <2>1 DEF FeedInv, Feed
  <2>3. feed' \in Feed
    BY <1>0, <2>2 DEF Feed
  <2>4. Len(feed'.batch) = 0 /\ 1..Len(feed'.batch) = {} /\ n + 0 = n
    BY <1>1, <2>2
  <2> QED BY <1>1, <1>2, <1>3, <2>1, <2>2, <2>3, <2>4 DEF FeedInv, StreamIsPrefix
<1>10. ASSUME UNCHANGED feed PROVE FeedInv'
  BY <1>5, <1>10, StoreSteps
<1> QED BY <1>6, <1>7, <1>8, <1>9, <1>10
        DEF ReadersNext, LookLive, LookBaseline, LookAnswer, readers

----------------------------------------------------------------------------
(* A reader's answer and a stream's cursor stay within what was committed.  *)
THEOREM ReadersInvariance == ReadersSpec => []RInv
<1>1. ReadersInit => RInv
  <2> SUFFICES ASSUME ReadersInit PROVE RInv
    OBVIOUS
  <2>1. IInv
    BY InitInvariant DEF ReadersInit
  <2>2. LookInv
    BY DEF ReadersInit, NotLooking, LookInv, LiveHeadWasLive, Look
  <2>3. FeedInv
    BY DEF ReadersInit, Init, FeedInv, StreamIsPrefix, Feed
  <2> QED BY <2>1, <2>2, <2>3 DEF RInv
<1>2. RInv /\ [ReadersNext]_<<vars, readers>> => RInv'
  BY StoreSteps, NextInvariant, LookStep, FeedStep, PageSizeAssumption DEF RInv
<1> QED BY <1>1, <1>2, PTL DEF ReadersSpec

(* The answer of the two statements of live_head, which are no snapshot, was  *)
(* the live head at some moment while the request ran, whoever commits.       *)
THEOREM HeadReadWithoutLock == ReadersSpec => []LiveHeadWasLive
<1>1. RInv => LiveHeadWasLive
  BY DEF RInv, LookInv
<1> QED BY ReadersInvariance, <1>1, PTL

(* For every page size, what a client of the change stream holds is a prefix  *)
(* of the accepted history, through page limits, cuts and reconnections.      *)
THEOREM StreamNeverSkips == ReadersSpec => []StreamIsPrefix
<1>1. RInv => StreamIsPrefix
  BY DEF RInv, FeedInv
<1> QED BY ReadersInvariance, <1>1, PTL
=============================================================================
