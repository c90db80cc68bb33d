--------------------------- MODULE ScheduleStore ---------------------------
(***************************************************************************)
(* One project's durable schedule state and the requests that change it:   *)
(* importing a file, calculating the baseline, creating and resetting a    *)
(* planner scenario, submitting an execution fact to the live schedule,    *)
(* and reading the planner page, which takes the same lock.  Every request *)
(* runs in a worker thread of the API process (a client here); it reads    *)
(* without a lock, computes, and then opens a transaction that takes the   *)
(* project row's lock, checks again what it read, and writes.  PostgreSQL  *)
(* rows are sequences, a row's identifier is its index, and 0 stands for   *)
(* "no row".                                                               *)
(***************************************************************************)
EXTENDS Integers, Sequences, FiniteSets, FiniteSetsExt

CONSTANTS
    Clients,        \* request threads
    NoClient,       \* the project row is not locked
    Docs,           \* what an imported file may contain
    Windows,        \* calculation horizons callers ask for
    Engines,        \* engine/policy profiles a deployed build computes under
    OpIds,          \* operation identifiers live clients choose
    Facts,          \* execution facts: an activity started, finished, ...
    Offered,        \* the kinds of request this instance offers
    MaxVersions,    \* bound on stored schedule versions
    MaxRuns,        \* bound on calculations of a baseline
    MaxBatches      \* bound on import batches

Kinds == {"import", "calculate", "scenario", "reset", "live", "planner"}

ASSUME ClientsAssumption == NoClient \notin Clients
ASSUME OfferedAssumption == Offered \subseteq Kinds
ASSUME BoundsAssumption == {MaxVersions, MaxRuns, MaxBatches} \subseteq Nat

VARIABLES
    versions,       \* schedule_versions, immutable rows
    heads,          \* schedule_heads: the movable pointer of each kind
    calcs,          \* schedule_calculations
    edits,          \* scenario_changes
    resets,         \* scenario_reset_events
    operations,     \* live_execution_operations with their committed change
    batches,        \* import_batches: how each import ended
    clock,          \* the database clock, read when a transaction begins
    engine,         \* the profile of the build that is running
    lock,           \* who holds the project row's lock
    req,            \* what each request thread holds in its locals
    told            \* receipts that reached a live client

store == <<versions, heads, calcs, edits, resets, operations, batches>>
vars == <<store, clock, engine, lock, req, told>>

----------------------------------------------------------------------------
(* Rows.                                                                   *)

Document == [source : Docs, edited : BOOLEAN, facts : SUBSET Facts]
Context == [window : Windows, engine : Engines]
Payload == [actor : Clients, expected : Nat, fact : Facts]
Receipt == [opid : OpIds, sequence : Nat, result : Nat]

Heads == [baseline : Nat, scenario : Nat, live_working : Nat]
VersionRow == [kind : {"baseline", "scenario", "live_working"}, parent : Nat,
               doc : Document, sequence : Nat, cause : Nat]
CalculationRow == [version : Nat, ctx : Context, at : Nat]
OperationRow == [opid : OpIds, payload : Payload, baseline : Nat, base : Nat,
                 baseCalc : Nat, result : Nat, calc : Nat, sequence : Nat]
EditRow == [baseline : Nat, scenario : Nat]
ResetRow == [prior : Nat, restored : Nat]
ReceiptOf(o) == [opid |-> o.opid, sequence |-> o.sequence, result |-> o.result]

Imported(d) == [source |-> d, edited |-> FALSE, facts |-> {}]
Edited(doc) == [doc EXCEPT !.edited = TRUE]
Apply(doc, f) == [doc EXCEPT !.facts = @ \union {f}]

(* get_latest_calculation: newest computed_at first.  computed_at is now(), *)
(* the time the inserting transaction began.  Only a baseline is ever       *)
(* calculated again, so the one run of a derived version carries 0.         *)
RunsOf(v) == {i \in DOMAIN calcs : calcs[i].version = v}
Newest(v) == {i \in RunsOf(v) : \A j \in RunsOf(v) : calcs[j].at <= calcs[i].at}
Latest(v) == IF Newest(v) = {} THEN 0 ELSE CHOOSE i \in Newest(v) : TRUE

(* UNIQUE (version_id, result_fingerprint): the engine is deterministic, so *)
(* a version and a context decide the fingerprint.                          *)
Stored(v, ctx) == {i \in RunsOf(v) : calcs[i].ctx = ctx}

NextSequence == 1 + Max({0} \union {versions[i].sequence : i \in DOMAIN versions})
CursorPerBaseline ==
    Cardinality({i \in DOMAIN operations : operations[i].baseline = heads.baseline})
LiveCursor == Max({0} \union {operations[i].sequence : i \in DOMAIN operations})

ActivePlan == IF heads.scenario # 0 THEN heads.scenario ELSE heads.baseline
ActiveLive == IF heads.live_working # 0 THEN heads.live_working ELSE heads.baseline

----------------------------------------------------------------------------
(* Requests in progress.                                                   *)

Idle == [op |-> "idle"]

ImportRequest(pc, doc, prior, sequence) ==
    [op |-> "import", pc |-> pc, doc |-> doc, prior |-> prior, sequence |-> sequence]
CalculateRequest(pc, version, ctx, at) ==
    [op |-> "calculate", pc |-> pc, version |-> version, ctx |-> ctx, at |-> at]
ScenarioRequest(pc, expected, base, calc, sequence) ==
    [op |-> "scenario", pc |-> pc, expected |-> expected, base |-> base,
     calc |-> calc, sequence |-> sequence]
ResetRequest(pc, expected) == [op |-> "reset", pc |-> pc, expected |-> expected]
LiveRequest(pc, opid, payload, base, calc, sequence, cursor) ==
    [op |-> "live", pc |-> pc, opid |-> opid, payload |-> payload, base |-> base,
     calc |-> calc, sequence |-> sequence, cursor |-> cursor]
PlannerRequest(pc, baseline, scenario, calc) ==
    [op |-> "planner", pc |-> pc, baseline |-> baseline, scenario |-> scenario, calc |-> calc]
ReplyRequest(receipt) == [op |-> "reply", receipt |-> receipt]

PlannerSteps == {"asked", "holding", "paired", "calculated",
                 "shown", "broken_lineage", "mixed_contexts"}

Request ==
    {Idle}
    \union [op : {"import"}, pc : {"prepared", "holding"}, doc : Docs,
            prior : Nat, sequence : Nat]
    \union [op : {"calculate"}, pc : {"computed", "begun", "holding"},
            version : Nat, ctx : Context, at : Nat]
    \union [op : {"scenario"}, pc : {"loaded", "compared", "derived", "holding"},
            expected : Nat, base : Nat, calc : Nat, sequence : Nat]
    \union [op : {"reset"}, pc : {"asked", "holding"}, expected : Nat]
    \union [op : {"live"}, pc : {"asked", "holding"}, opid : OpIds,
            payload : Payload, base : Nat, calc : Nat, sequence : Nat, cursor : Nat]
    \union [op : {"planner"}, pc : PlannerSteps, baseline : Nat, scenario : Nat, calc : Nat]
    \union [op : {"reply"}, receipt : Receipt]

At(c, op, pc) == req[c].op = op /\ req[c].pc = pc
Becomes(c, r) == req' = [req EXCEPT ![c] = r]

(* Starting a request: it is offered, its thread is free, and the bounds   *)
(* leave room for what every request in progress may still write.          *)
Pending(kinds) == Cardinality({c \in Clients : req[c].op \in kinds})
Start(c, kind) == kind \in Offered /\ req[c] = Idle
Room == Len(versions) + Pending({"import", "scenario", "live"}) < MaxVersions

(* SELECT ... FROM projects FOR UPDATE.                                     *)
NoRowLock == TRUE
LockFree == lock = NoClient
TakeLock(c) == LockFree /\ lock' = c
ReleaseForgotten(c) == UNCHANGED lock
Release(c) == lock' = IF lock = c THEN NoClient ELSE lock

(* A check made under the lock fails: the transaction rolls back.           *)
Refuse(c) == LockFree /\ Becomes(c, Idle) /\ UNCHANGED <<store, clock, engine, lock, told>>

----------------------------------------------------------------------------
(* Workspace.import_file                                                   *)

ImportRead(c, d) ==
    /\ Start(c, "import") /\ Room
    /\ Len(batches) + Pending({"import"}) < MaxBatches
    /\ Becomes(c, ImportRequest("prepared", d, heads.baseline, 0))
    /\ UNCHANGED <<store, clock, engine, lock, told>>

(* The file does not parse or migrate: a failed batch is recorded.  Its     *)
(* foreign key needs the project row, so it waits for a writer to finish.   *)
ImportFail(c) ==
    /\ At(c, "import", "prepared") /\ LockFree
    /\ batches' = Append(batches, "failed")
    /\ Becomes(c, Idle)
    /\ UNCHANGED <<versions, heads, calcs, edits, resets, operations, clock, engine, lock, told>>

ImportUnchecked(c) == TRUE
ImportStillCurrent(c) == heads.baseline = req[c].prior

ImportLock(c) ==
    /\ At(c, "import", "prepared") /\ ImportStillCurrent(c)
    /\ TakeLock(c)
    /\ Becomes(c, ImportRequest("holding", req[c].doc, req[c].prior, NextSequence))
    /\ UNCHANGED <<store, clock, engine, told>>

ImportStale(c) ==
    /\ At(c, "import", "prepared") /\ ~ImportStillCurrent(c)
    /\ Refuse(c)

ImportedHeads(v) == [baseline |-> v, scenario |-> 0, live_working |-> 0]

ImportCommit(c) ==
    /\ At(c, "import", "holding") /\ Release(c)
    /\ batches' = Append(batches, "accepted")
    /\ versions' = Append(versions,
           [kind |-> "baseline", parent |-> req[c].prior, doc |-> Imported(req[c].doc),
            sequence |-> req[c].sequence, cause |-> Len(batches) + 1])
    /\ heads' = ImportedHeads(Len(versions) + 1)
    /\ Becomes(c, Idle)
    /\ UNCHANGED <<calcs, edits, resets, operations, clock, engine, told>>

----------------------------------------------------------------------------
(* Workspace.calculate                                                     *)

(* load(refresh=True) and the engine run over what it returned.             *)
CalculateRead(c, w) ==
    /\ Start(c, "calculate") /\ heads.baseline # 0
    /\ clock + Pending({"calculate"}) <= MaxRuns
    /\ Becomes(c, CalculateRequest("computed", heads.baseline,
                                   [window |-> w, engine |-> engine], 0))
    /\ UNCHANGED <<store, clock, engine, lock, told>>

(* The transaction begins: now() is fixed here, before the lock is granted. *)
CalculateBegin(c) ==
    /\ At(c, "calculate", "computed")
    /\ Becomes(c, CalculateRequest("begun", req[c].version, req[c].ctx, clock))
    /\ clock' = clock + 1
    /\ UNCHANGED <<store, engine, lock, told>>

CalculateStillCurrent(c) == heads.baseline = req[c].version

CalculateLock(c) ==
    /\ At(c, "calculate", "begun") /\ CalculateStillCurrent(c)
    /\ TakeLock(c)
    /\ Becomes(c, CalculateRequest("holding", req[c].version, req[c].ctx, req[c].at))
    /\ UNCHANGED <<store, clock, engine, told>>

CalculateStale(c) ==
    /\ At(c, "calculate", "begun") /\ ~CalculateStillCurrent(c)
    /\ Refuse(c)

(* INSERT ... ON CONFLICT DO NOTHING, then find_calculation.                *)
CalculateStore(c) ==
    IF Stored(req[c].version, req[c].ctx) # {} THEN UNCHANGED calcs
    ELSE calcs' = Append(calcs, [version |-> req[c].version, ctx |-> req[c].ctx,
                                 at |-> req[c].at])

ScenarioComparesProfile(ctx) ==
    LET run == Latest(heads.scenario) IN run # 0 /\ calcs[run].ctx.engine = ctx.engine
ScenarioComparesWith(ctx) ==
    LET run == Latest(heads.scenario) IN run # 0 /\ calcs[run].ctx = ctx

CalculateCommit(c) ==
    /\ At(c, "calculate", "holding") /\ Release(c)
    /\ CalculateStore(c)
    /\ heads' = IF heads.scenario # 0 /\ ~ScenarioComparesWith(req[c].ctx)
                THEN [heads EXCEPT !.scenario = 0] ELSE heads
    /\ Becomes(c, Idle)
    /\ UNCHANGED <<versions, edits, resets, operations, batches, clock, engine, told>>

----------------------------------------------------------------------------
(* Workspace.create_duration_scenario: three separate reads, the engine,   *)
(* then the same facts checked again under the lock.                        *)

ScenarioRead(c, expected) ==
    /\ Start(c, "scenario") /\ Room /\ heads.baseline # 0
    /\ Becomes(c, ScenarioRequest("loaded", expected, heads.baseline, 0, 0))
    /\ UNCHANGED <<store, clock, engine, lock, told>>

(* read_calculation(kind="baseline") follows the head as it is now.         *)
ScenarioReadCalculation(c) ==
    /\ At(c, "scenario", "loaded")
    /\ Becomes(c, IF Latest(heads.baseline) = 0 THEN Idle
                  ELSE ScenarioRequest("compared", req[c].expected, req[c].base,
                                       Latest(heads.baseline), 0))
    /\ UNCHANGED <<store, clock, engine, lock, told>>

(* The active version as this thread sees it, and the engine's context.     *)
ScenarioDerive(c) ==
    LET active == IF heads.scenario # 0 THEN heads.scenario ELSE req[c].base
        agrees == active = req[c].expected /\ calcs[req[c].calc].ctx.engine = engine
    IN  /\ At(c, "scenario", "compared")
        /\ Becomes(c, IF agrees
                      THEN ScenarioRequest("derived", req[c].expected, req[c].base,
                                           req[c].calc, 0)
                      ELSE Idle)
        /\ UNCHANGED <<store, clock, engine, lock, told>>

ScenarioOnlyBaselineCurrent(c) ==
    heads.baseline = req[c].base /\ Latest(heads.baseline) = req[c].calc
ScenarioStillCurrent(c) ==
    /\ heads.baseline = req[c].base
    /\ ActivePlan = req[c].expected
    /\ Latest(heads.baseline) = req[c].calc

ScenarioLock(c) ==
    /\ At(c, "scenario", "derived") /\ ScenarioStillCurrent(c)
    /\ TakeLock(c)
    /\ Becomes(c, ScenarioRequest("holding", req[c].expected, req[c].base,
                                  req[c].calc, NextSequence))
    /\ UNCHANGED <<store, clock, engine, told>>

ScenarioStale(c) ==
    /\ At(c, "scenario", "derived") /\ ~ScenarioStillCurrent(c)
    /\ Refuse(c)

ScenarioCommit(c) ==
    LET v == Len(versions) + 1 IN
    /\ At(c, "scenario", "holding") /\ Release(c)
    /\ versions' = Append(versions,
           [kind |-> "scenario", parent |-> req[c].base,
            doc |-> Edited(versions[req[c].base].doc),
            sequence |-> req[c].sequence, cause |-> Len(edits) + 1])
    /\ edits' = Append(edits, [baseline |-> req[c].base, scenario |-> v])
    /\ calcs' = Append(calcs, [version |-> v, at |-> 0,
           ctx |-> [window |-> calcs[req[c].calc].ctx.window, engine |-> engine]])
    /\ heads' = [heads EXCEPT !.scenario = v]
    /\ Becomes(c, Idle)
    /\ UNCHANGED <<resets, operations, batches, clock, engine, told>>

----------------------------------------------------------------------------
(* Workspace.reset_scenario                                                *)

ResetAsk(c, expected) ==
    /\ Start(c, "reset")
    /\ Becomes(c, ResetRequest("asked", expected))
    /\ UNCHANGED <<store, clock, engine, lock, told>>

ResetStillCurrent(c) == heads.baseline # 0 /\ ActivePlan = req[c].expected

ResetLock(c) ==
    /\ At(c, "reset", "asked") /\ ResetStillCurrent(c)
    /\ TakeLock(c)
    /\ Becomes(c, ResetRequest("holding", req[c].expected))
    /\ UNCHANGED <<store, clock, engine, told>>

ResetStale(c) ==
    /\ At(c, "reset", "asked") /\ ~ResetStillCurrent(c)
    /\ Refuse(c)

(* A reset of a planner that shows the baseline records nothing.            *)
ResetCommit(c) ==
    /\ At(c, "reset", "holding") /\ Release(c)
    /\ resets' = IF heads.scenario = 0 THEN resets
                 ELSE Append(resets, [prior |-> heads.scenario,
                                      restored |-> heads.baseline])
    /\ heads' = [heads EXCEPT !.scenario = 0]
    /\ Becomes(c, Idle)
    /\ UNCHANGED <<versions, calcs, edits, operations, batches, clock, engine, told>>

----------------------------------------------------------------------------
(* live_operations.submit                                                  *)

LiveAsk(c, opid, expected, fact) ==
    /\ Start(c, "live") /\ Room
    /\ Becomes(c, LiveRequest("asked", opid,
                              [actor |-> c, expected |-> expected, fact |-> fact],
                              0, 0, 0, 0))
    /\ UNCHANGED <<store, clock, engine, lock, told>>

Recorded(opid) == {i \in DOMAIN operations : operations[i].opid = opid}

(* The identifier is already recorded: the same semantic payload gets the   *)
(* stored receipt, another payload is an identity conflict.                 *)
LiveAnswerAgain(c) ==
    /\ At(c, "live", "asked") /\ LockFree
    /\ \E i \in Recorded(req[c].opid) :
          Becomes(c, IF operations[i].payload = req[c].payload
                     THEN ReplyRequest(ReceiptOf(operations[i])) ELSE Idle)
    /\ UNCHANGED <<store, clock, engine, lock, told>>

(* The head the client named, its calculation under the running build, and  *)
(* apply_execution, which refuses a change that changes nothing.            *)
LiveFromAnyHead(c) ==
    /\ heads.baseline # 0 /\ Latest(ActiveLive) # 0
    /\ calcs[Latest(ActiveLive)].ctx.engine = engine
    /\ req[c].payload.fact \notin versions[ActiveLive].doc.facts
LiveStillCurrent(c) ==
    /\ heads.baseline # 0
    /\ ActiveLive = req[c].payload.expected
    /\ Latest(ActiveLive) # 0
    /\ calcs[Latest(ActiveLive)].ctx.engine = engine
    /\ req[c].payload.fact \notin versions[ActiveLive].doc.facts

LiveLock(c) ==
    /\ At(c, "live", "asked") /\ Recorded(req[c].opid) = {} /\ LiveStillCurrent(c)
    /\ TakeLock(c)
    /\ Becomes(c, LiveRequest("holding", req[c].opid, req[c].payload, ActiveLive,
                              Latest(ActiveLive), NextSequence, LiveCursor + 1))
    /\ UNCHANGED <<store, clock, engine, told>>

LiveStale(c) ==
    /\ At(c, "live", "asked") /\ Recorded(req[c].opid) = {} /\ ~LiveStillCurrent(c)
    /\ Refuse(c)

NewOperation(c) ==
    [opid |-> req[c].opid, payload |-> req[c].payload, baseline |-> heads.baseline,
     base |-> req[c].base, baseCalc |-> req[c].calc, result |-> Len(versions) + 1,
     calc |-> Len(calcs) + 1, sequence |-> req[c].cursor]

LiveCommit(c) ==
    LET v == Len(versions) + 1 IN
    /\ At(c, "live", "holding") /\ Release(c)
    /\ versions' = Append(versions,
           [kind |-> "live_working", parent |-> req[c].base,
            doc |-> Apply(versions[req[c].base].doc, req[c].payload.fact),
            sequence |-> req[c].sequence, cause |-> Len(operations) + 1])
    /\ calcs' = Append(calcs, [version |-> v, ctx |-> calcs[req[c].calc].ctx, at |-> 0])
    /\ operations' = Append(operations, NewOperation(c))
    /\ heads' = [heads EXCEPT !.live_working = v]
    /\ Becomes(c, ReplyRequest(ReceiptOf(NewOperation(c))))
    /\ UNCHANGED <<edits, resets, batches, clock, engine, told>>

(* The response reaches the client.                                         *)
Reply(c) ==
    /\ req[c].op = "reply"
    /\ told' = told \union {req[c].receipt}
    /\ Becomes(c, Idle)
    /\ UNCHANGED <<store, clock, engine, lock>>

----------------------------------------------------------------------------
(* Workspace.planner_state: both pointers under the lock, then each side's  *)
(* latest calculation without it.  A pair that does not belong together is   *)
(* answered as an IntegrityError.                                            *)

PlannerAsk(c) ==
    /\ Start(c, "planner")
    /\ Becomes(c, PlannerRequest("asked", 0, 0, 0))
    /\ UNCHANGED <<store, clock, engine, lock, told>>

PlannerLock(c) ==
    /\ At(c, "planner", "asked") /\ TakeLock(c)
    /\ Becomes(c, PlannerRequest("holding", heads.baseline, 0, 0))
    /\ UNCHANGED <<store, clock, engine, told>>

DerivedFrom(scenario, baseline) ==
    edits[versions[scenario].cause] = [baseline |-> baseline, scenario |-> scenario]

PlannerPair(c) ==
    LET pc == IF heads.scenario = 0 \/ DerivedFrom(heads.scenario, req[c].baseline)
              THEN "paired" ELSE "broken_lineage"
    IN  /\ At(c, "planner", "holding") /\ Release(c)
        /\ Becomes(c, IF req[c].baseline = 0 THEN Idle
                      ELSE PlannerRequest(pc, req[c].baseline, heads.scenario, 0))
        /\ UNCHANGED <<store, clock, engine, told>>

PlannerBaselineRun(c) ==
    /\ At(c, "planner", "paired")
    /\ Becomes(c, PlannerRequest("calculated", req[c].baseline, req[c].scenario,
                                 Latest(req[c].baseline)))
    /\ UNCHANGED <<store, clock, engine, lock, told>>

SameContext(run, other) == run = 0 \/ calcs[run].ctx = calcs[other].ctx

PlannerScenarioRun(c) ==
    LET fits == req[c].scenario = 0
                \/ SameContext(req[c].calc, Latest(req[c].scenario))
    IN  /\ At(c, "planner", "calculated")
        /\ Becomes(c, PlannerRequest(IF fits THEN "shown" ELSE "mixed_contexts",
                                     req[c].baseline, req[c].scenario, req[c].calc))
        /\ UNCHANGED <<store, clock, engine, lock, told>>

PlannerReply(c) ==
    /\ \E pc \in {"shown", "broken_lineage", "mixed_contexts"} : At(c, "planner", pc)
    /\ Becomes(c, Idle)
    /\ UNCHANGED <<store, clock, engine, lock, told>>

----------------------------------------------------------------------------
(* Failure.  A request ends without effect: a refusal above the store, an   *)
(* exception, a broken connection, a rolled back transaction; after the     *)
(* commit it is a lost response.  Either way its row lock is gone.          *)
Abandon(c) ==
    /\ req[c] # Idle
    /\ Becomes(c, Idle) /\ (lock' = IF lock = c THEN NoClient ELSE lock)
    /\ UNCHANGED <<store, clock, engine, told>>

(* The process restarts, as the same build or another one.                  *)
Deploy(e) ==
    /\ engine' = e
    /\ req' = [c \in Clients |-> Idle]
    /\ lock' = NoClient
    /\ UNCHANGED <<store, clock, told>>

----------------------------------------------------------------------------
Init ==
    /\ versions = <<>> /\ calcs = <<>> /\ edits = <<>> /\ resets = <<>>
    /\ operations = <<>> /\ batches = <<>>
    /\ heads = [baseline |-> 0, scenario |-> 0, live_working |-> 0]
    /\ clock = 1
    /\ engine \in Engines
    /\ lock = NoClient
    /\ req = [c \in Clients |-> Idle]
    /\ told = {}

Ask(c) ==
    \/ \E d \in Docs : ImportRead(c, d)
    \/ \E w \in Windows : CalculateRead(c, w)
    \/ PlannerAsk(c)
    \/ \E expected \in 1..Len(versions) :
          \/ ScenarioRead(c, expected)
          \/ ResetAsk(c, expected)
          \/ \E opid \in OpIds, fact \in Facts : LiveAsk(c, opid, expected, fact)

(* Steps a thread takes whatever the others do.                             *)
Work(c) ==
    \/ CalculateBegin(c) \/ ScenarioReadCalculation(c) \/ ScenarioDerive(c)
    \/ ImportCommit(c) \/ CalculateCommit(c) \/ ScenarioCommit(c)
    \/ ResetCommit(c) \/ LiveCommit(c) \/ Reply(c)
    \/ PlannerPair(c) \/ PlannerBaselineRun(c) \/ PlannerScenarioRun(c) \/ PlannerReply(c)

(* Steps that wait for the project row.                                     *)
Locked(c) ==
    \/ ImportFail(c) \/ ImportLock(c) \/ ImportStale(c)
    \/ CalculateLock(c) \/ CalculateStale(c)
    \/ ScenarioLock(c) \/ ScenarioStale(c)
    \/ ResetLock(c) \/ ResetStale(c)
    \/ LiveAnswerAgain(c) \/ LiveLock(c) \/ LiveStale(c)
    \/ PlannerLock(c)

Next ==
    \/ \E c \in Clients : Ask(c) \/ Work(c) \/ Locked(c) \/ Abandon(c)
    \/ \E e \in Engines : Deploy(e)

Spec == Init /\ [][Next]_vars

(* A running thread keeps running, and PostgreSQL grants a row lock to its  *)
(* waiters in turn.  Nothing forces a request, a failure or a deployment.   *)
Fairness == \A c \in Clients : WF_vars(Work(c)) /\ SF_vars(Locked(c))
FairSpec == Spec /\ Fairness

----------------------------------------------------------------------------
(* Properties.                                                             *)

(* Every table, pointer and thread-local holds what its declaration says.   *)
TypeOK ==
    /\ versions \in Seq(VersionRow)
    /\ heads \in Heads
    /\ calcs \in Seq(CalculationRow)
    /\ edits \in Seq(EditRow)
    /\ resets \in Seq(ResetRow)
    /\ operations \in Seq(OperationRow)
    /\ batches \in Seq({"accepted", "failed"})
    /\ clock \in Nat
    /\ engine \in Engines
    /\ lock \in Clients \union {NoClient}
    /\ req \in [Clients -> Request]
    /\ told \subseteq Receipt

(* next_sequence and live_cursor are MAX(...) + 1 over the table: concurrent *)
(* writers nevertheless number versions and accepted changes 1, 2, 3, ...   *)
(* with no gap and no number twice, whatever rolls back in between.         *)
SequencesHaveNoGap ==
    /\ \A i \in DOMAIN versions : versions[i].sequence = i
    /\ \A i \in DOMAIN operations : operations[i].sequence = i

(* The scenario pointer never outlives the baseline it was derived from:    *)
(* import and create_duration_scenario run concurrently, and the pair the   *)
(* planner page shows, and the reset trigger insists on, stays one pair.    *)
ScenarioOnBaseline ==
    heads.scenario # 0 =>
        /\ versions[heads.scenario].kind = "scenario"
        /\ versions[heads.scenario].parent = heads.baseline
        /\ edits[versions[heads.scenario].cause]
              = [baseline |-> heads.baseline, scenario |-> heads.scenario]

(* A scenario on display was calculated in the context of the baseline      *)
(* calculation it is compared with: recalculation retires any other one.    *)
ScenarioComparable ==
    heads.scenario # 0 =>
        /\ Latest(heads.baseline) # 0
        /\ calcs[Latest(heads.scenario)].ctx = calcs[Latest(heads.baseline)].ctx

(* What replay() recomputes: the operations of a baseline, in server order, *)
(* form one chain from that baseline, every link applies its own fact to    *)
(* the document of the link before, and the live pointer is its last link.  *)
EarlierOnSameBaseline(i) ==
    {j \in 1..(i - 1) : operations[j].baseline = operations[i].baseline}

LinkReplays(i) ==
    LET o == operations[i] IN
    /\ o.base = IF EarlierOnSameBaseline(i) = {} THEN o.baseline
                ELSE operations[Max(EarlierOnSameBaseline(i))].result
    /\ o.payload.expected = o.base
    /\ calcs[o.baseCalc].version = o.base
    /\ calcs[o.calc] = [version |-> o.result, ctx |-> calcs[o.baseCalc].ctx, at |-> 0]
    /\ versions[o.result] =
          [kind |-> "live_working", parent |-> o.base, cause |-> i,
           sequence |-> versions[o.result].sequence,
           doc |-> Apply(versions[o.base].doc, o.payload.fact)]

OperationsOn(b) == {i \in DOMAIN operations : operations[i].baseline = b}

LiveChainReplays ==
    /\ \A i \in DOMAIN operations : LinkReplays(i)
    /\ heads.live_working = IF OperationsOn(heads.baseline) = {} THEN 0
                            ELSE operations[Max(OperationsOn(heads.baseline))].result

(* Imports form one line: a new baseline was derived from the head it       *)
(* replaces (its identities reconciled against that file and no other), and *)
(* nothing derived from the old baseline stays current.                     *)
BaselineReplacesItsPrior ==
    [][heads'.baseline # heads.baseline =>
          /\ versions'[heads'.baseline].parent = heads.baseline
          /\ heads'.scenario = 0 /\ heads'.live_working = 0]_vars

(* A planner's edit or reset is applied only to the plan they named: of two  *)
(* edits that started from one page, the second is refused, never merged.   *)
PlanMovesFromExpected ==
    [][/\ heads'.scenario \notin {0, heads.scenario}
             => \E c \in Clients : req[c].op = "scenario" /\ req[c].expected = ActivePlan
       /\ Len(resets') > Len(resets)
             => \E c \in Clients : req[c].op = "reset" /\ req[c].expected = ActivePlan]_vars

(* "recalculate the baseline before creating a scenario": after a           *)
(* calculation commits, the baseline's latest run is one the running build  *)
(* computed, so a scenario can be derived from it.                          *)
RecalculationIsCurrent ==
    [][\A c \in Clients : CalculateCommit(c) =>
          calcs'[Latest(heads.baseline)'].ctx.engine = engine]_vars

(* Keeping the row lock over both pointer reads means READ COMMITTED cannot  *)
(* pair a baseline from before an import with a scenario from after it.     *)
PlannerPairsBelong == \A c \in Clients : ~At(c, "planner", "broken_lineage")

(* What a planner is shown belongs together: a scenario stands on the        *)
(* current baseline, was calculated as the baseline was, and is read with    *)
(* the baseline it stands on (working_schedule.py, planner_state).           *)
PlannerStateBelongs == ScenarioOnBaseline /\ ScenarioComparable /\ PlannerPairsBelong

(* Seen from its clients the live schedule is a ledger: see LiveLedger.     *)
LedgerEntry(o) == [opid |-> o.opid, result |-> o.result, payload |-> o.payload]
Ledger == INSTANCE LiveLedger WITH
    ledger <- [i \in DOMAIN operations |-> LedgerEntry(operations[i])],
    head <- ActiveLive

(* The store implements the ledger: transactions, retries, lost responses,  *)
(* restarts and concurrent imports are invisible to a live client.          *)
LiveIsALedger == Ledger!Spec

(* Every request ends: no thread waits for the project row for ever.        *)
RequestsFinish == \A c \in Clients : req[c] # Idle ~> req[c] = Idle
=============================================================================
