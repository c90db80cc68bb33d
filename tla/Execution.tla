------------------------------ MODULE Execution ------------------------------
(***************************************************************************)
(* Progress reported on a calculated schedule (core/execution.py) and its  *)
(* bounded recalculation (core/engine/incremental.py).  A schedule is      *)
(* calculated once, in full; each report then adds facts to one activity   *)
(* and recalculates the part of the network that is connected to it.       *)
(***************************************************************************)
EXTENDS ResultValidator

CONSTANTS
    Projects,    \* the schedules: records [network, rule]
    Activities,  \* the activities a report may name
    Dates,       \* the coordinates an actual date may carry
    Works,       \* the remaining work a report may carry
    MaxReports   \* bound: the reports made on one schedule

ASSUME MaxReportsAssumption == MaxReports \in Nat
ASSUME ProjectsAssumption ==
    \A project \in Projects : IsNetwork(project.network) /\ IsTimed(project.network)
ASSUME ReportsAssumption == Dates \subseteq Int /\ Works \subseteq Nat

VARIABLES
    current,  \* the calculated state: its schedule and both passes, or None
    reply,    \* the answer of the last operation: None or the refusal's code
    reports   \* the reports made so far

vars == <<current, reply, reports>>

----------------------------------------------------------------------------
(* Calculation.                                                            *)

Both(forward, backward) ==
    IF backward.error # None THEN [error |-> backward.error]
    ELSE [error |-> None, forward |-> forward, backward |-> backward]
ThenBackward(forward) ==
    IF forward.error # None THEN [error |-> forward.error]
    ELSE Both(forward, BackwardPass(forward.network, forward, forward.finish))
FullPasses(net, rule) == ThenBackward(ForwardPass(net, rule))

(* A float that cannot be measured refuses the whole result.                *)
Assemble(passes) ==
    IF passes.error # None THEN passes
    ELSE IF FloatFails(passes.forward.network, passes.forward, passes.backward)
    THEN [error |-> "SCHEDULE_FLOAT_UNREACHABLE"]
    ELSE passes

CalculateState(project) == Assemble(FullPasses(project.network, project.rule))

----------------------------------------------------------------------------
(* Bounded recalculation.                                                  *)

Neighbours(net, u) ==
    {v \in DOMAIN net.act : \E k \in DOMAIN net.edges :
        {net.edges[k].predecessor, net.edges[k].successor} = {u, v}}
Neighbourhood(net, S) == S \union UNION {Neighbours(net, v) : v \in S}
Downstream(net, S) == S \union {net.edges[k].successor : k \in UNION {OutOf(net, v) : v \in S}}
Reached(net, u, Wider(_)) ==
    LET within[n \in 0..Len(net.order)] ==
            IF n = 0 THEN {u} ELSE Wider(within[n - 1])
    IN  within[Len(net.order)]
ComponentDownstream(net, u) == Reached(net, u, LAMBDA S : Downstream(net, S))
Component(net, u) == Reached(net, u, LAMBDA S : Neighbourhood(net, S))

Subset(net, part) ==
    [net EXCEPT
        !.order = Among(net.order, part),
        !.act = [u \in part |-> net.act[u]],
        !.edges = [k \in {j \in DOMAIN net.edges :
                            {net.edges[j].predecessor, net.edges[j].successor} \subseteq part}
                     |-> net.edges[k]]]

Merged(new, old) == [u \in DOMAIN old |-> IF u \in DOMAIN new THEN new[u] ELSE old[u]]

(* The full passes answer unless one activity changed, the rest of the      *)
(* network is not connected to it, and the project's finish stays.          *)
RecalculateNetwork(previous, network, u) ==
    LET before == previous.forward
        late == previous.backward
        old == before.network
        comparable == /\ late.network = old /\ late.rule = before.rule
                      /\ late.late_finish = before.finish
                      /\ u \in DOMAIN network.act
                      /\ network = [old EXCEPT !.act[u] = network.act[u]]
        part == Subset(network, Component(network, u))
        Join(times, backward) ==
            IF backward.error # None THEN [error |-> backward.error]
            ELSE [error |-> None,
                  forward |-> [before EXCEPT !.network = network, !.times = times],
                  backward |-> [late EXCEPT !.network = network,
                                            !.released = Released(network, before.rule),
                                            !.times = Merged(backward.times, late.times)]]
        Continue(forward, times) ==
            IF ProjectFinish(network, times) # before.finish THEN None
            ELSE Join(times, BackwardPass(part, forward, before.finish))
        Extend(forward) ==
            IF forward.error # None THEN [error |-> forward.error]
            ELSE Continue(forward, Merged(forward.times, before.times))
        OrFull(passes) == IF passes = None THEN FullPasses(network, before.rule) ELSE passes
    IN  OrFull(IF ~comparable \/ DOMAIN part.act = DOMAIN network.act THEN None
               ELSE Extend(ForwardPass(part, before.rule)))

----------------------------------------------------------------------------
(* A report: facts about one activity, and the version it was made against. *)

Or(value, otherwise) == IF value # None THEN value ELSE otherwise

(* What the report makes of the activity.                                   *)
Reported(a, change) ==
    [a EXCEPT !.actual_start = Or(a.actual_start, change.actual_start),
              !.actual_finish = Or(a.actual_finish, change.actual_finish),
              !.remaining = IF Or(a.actual_finish, change.actual_finish) # None THEN 0
                            ELSE Or(change.remaining, a.remaining)]

Refusal(state, change) ==
    LET a == state.network.act[change.activity]
        b == Reported(a, change)
        started == b.actual_start # None
        finished == b.actual_finish # None
        Replaces(field) == change[field] # None /\ a[field] # None /\ change[field] # a[field]
    IN  IF ~change.fresh THEN "EXECUTION_STALE_VERSION"
        ELSE IF change.activity \notin DOMAIN state.network.act THEN "EXECUTION_ACTIVITY_UNKNOWN"
        ELSE FirstOf(
            << <<a.duration = 0, "EXECUTION_ACTIVITY_UNSUPPORTED">>,
               <<a.actual_finish # None, "EXECUTION_ALREADY_COMPLETE">>,
               <<state.rule.policy = "actual_dates", "PROGRESS_POLICY_NOT_EVIDENCED">>,
               <<Replaces("actual_start"), "EXECUTION_ACTUAL_START_IMMUTABLE">>,
               <<Replaces("actual_finish"), "EXECUTION_ACTUAL_FINISH_IMMUTABLE">>,
               <<finished /\ ~started, "EXECUTION_FINISH_WITHOUT_START">>,
               <<finished /\ started /\ b.actual_finish < b.actual_start,
                 "EXECUTION_ACTUALS_INVERTED">>,
               <<~started /\ change.remaining # None, "EXECUTION_REMAINING_REQUIRES_START">>,
               <<started /\ ~finished /\ change.remaining = None
                   /\ (change.actual_start # None \/ a.remaining = None),
                 "EXECUTION_REMAINING_REQUIRED">>,
               <<finished /\ change.remaining \notin {None, 0},
                 "EXECUTION_FINISHED_REMAINING_NONZERO">>,
               <<started /\ ~finished /\ b.remaining = 0,
                 "EXECUTION_IN_PROGRESS_REMAINING_ZERO">>,
               <<change.actual_start = None /\ change.actual_finish = None
                   /\ change.remaining = None, "EXECUTION_EMPTY_CHANGE">>,
               <<b = a, "EXECUTION_NO_CHANGE">> >>)

Held(state, passes) ==
    [network |-> passes.forward.network, rule |-> state.rule,
     forward |-> passes.forward, backward |-> passes.backward]

----------------------------------------------------------------------------
(* The operations.  A refusal leaves the calculated state as it was.        *)

Init == current = None /\ reply = None /\ reports = 0

Answer(state, passes) ==
    /\ reply' = passes.error
    /\ current' = IF passes.error = None THEN Held(state, passes) ELSE current

Calculate(project) ==
    /\ current = None
    /\ Answer(project, CalculateState(project))
    /\ UNCHANGED reports

ApplyExecution(change) ==
    /\ current # None
    /\ reports < MaxReports
    /\ LET refusal == Refusal(current, change)
           u == change.activity
           network == [current.network EXCEPT !.act[u] = Reported(@, change)]
       IN  Answer(current, IF refusal # None THEN [error |-> refusal]
                           ELSE Assemble(RecalculateNetwork(current, network, u)))
    /\ reports' = reports + 1

Changes ==
    [activity : Activities, fresh : BOOLEAN, actual_start : Dates \union {None},
     actual_finish : Dates \union {None}, remaining : Works \union {None}]

Next ==
    \/ \E project \in Projects : Calculate(project)
    \/ \E change \in Changes : ApplyExecution(change)

Spec == Init /\ [][Next]_vars

----------------------------------------------------------------------------
(* What must hold.                                                         *)

(* However many reports were recalculated component by component, the state *)
(* is the one the full passes compute from its schedule alone               *)
(* (incremental.py: "with the full passes as the oracle").                  *)
RecalculationIsFull ==
    current # None =>
        [error |-> None, forward |-> current.forward, backward |-> current.backward]
            = FullPasses(current.network, current.rule)

(* The independent validator (validate.py: "an empty tuple is the answer    *)
(* for a sound result") finds spans, history, drivers, constraints, edges   *)
(* and free float of every calculated state consistent, but for what its    *)
(* counting of work cannot tell: a lead that jumps a gap of its calendar    *)
(* moves the successor although no work lies in the gap, so a free float    *)
(* may seem too small; and a hard date holds its activity against its       *)
(* logic, so a float or an edge into it may not fit.                        *)
Hard(net) == {u \in DOMAIN net.act : net.act[u].constraint \in {"MSO", "MFO"}}
ResultIsConsistent ==
    current # None =>
        ValidateResult(current.network, current.forward, current.backward)
            \subseteq {"FREE_FLOAT_TOO_SMALL"} \union
                IF Hard(current.network) = {} THEN {}
                ELSE {"FREE_FLOAT_TOO_LARGE", "RELATIONSHIP_NOT_HONOURED"}

(* Free float is what an activity can slip, as its calendar places it, with *)
(* every successor still where the forward pass put it, and one unit more   *)
(* moves a successor or leaves the window; across an inactive activity it   *)
(* is the gap to that one, and says nothing of the successor                *)
(* (criticality.py).                                                        *)
Placed(net, rule, u, e, at) ==
    IF at # None /\ IF AnchorsFinish(e) THEN Snapped(net, rule, u) ELSE CalendarPlaced(net, rule, u)
    THEN NextWorking(net.act[u].calendar, at) ELSE at
Keeps(state, u, k, slip) ==
    LET net == state.network
        e == net.edges[k]
        early == state.forward.times
        anchor == SlippedBy(net.act[u], EarlyAnchor(e, early[u]), slip)
        at == Placed(net, state.rule, u, e, anchor)
        landing == ShiftLag(LagCalendar(net, e), at, e.lag)
    IN  /\ at # None
        /\ at <= MovementLimits(net, state.rule, early, u)[IF AnchorsFinish(e) THEN 2 ELSE 1]
        /\ landing # None /\ landing <= Available(e, early[e.successor])
FreeFloatIsFree ==
    current # None =>
        \A u \in DOMAIN current.network.act :
            LET free == FreeFloat(current.network, current.forward, current.backward, u)
                held == OutOf(current.network, u) \ current.backward.released
            IN  /\ StateOf(current.network.act[u]) # "complete" /\ held # {} /\ free >= 0
                /\ held \intersect Boundary(current.network) = {}
                => /\ \A k \in held : Keeps(current, u, k, free)
                   /\ \E k \in held : ~Keeps(current, u, k, free + 1)

(* A hard date wins against the logic into its activity, and an edge it     *)
(* breaks is reported (forward.py, ConstraintViolation: "so what it         *)
(* displaced is reported rather than lost").                                *)
DisplacementIsReported ==
    current # None =>
        \A k \in DOMAIN current.network.edges :
            LET e == current.network.edges[k]
                a == current.network.act[e.successor]
                row == current.forward.times[e.successor]
                landing == Landing(current.network, current.forward.times, k)
            IN  /\ StateOf(a) = "not_started" /\ a.constraint \in {"MSO", "MFO"}
                /\ landing # None /\ landing > Available(e, row)
                => row.violated

(* What both passes could place, the float can measure: every edge the      *)
(* forward pass walked has an inverse within the predecessor's reach        *)
(* (criticality.py:302-309, 456-464).                                       *)
FloatIsMeasurable == reply # "SCHEDULE_FLOAT_UNREACHABLE"

(* An activity with a driver begins, or ends, at the first second it may at *)
(* or after the one its driver allows: the edge named is the edge that      *)
(* placed it (forward.py, _driver).                                         *)
StartsAsSoon(cal, landing, at) ==
    landing <= at /\ \A c \in landing..(at - 1) : ~WorkingAt(cal, c)
FinishesAsSoon(cal, landing, at) ==
    landing <= at /\ \A c \in landing..(at - 1) : ~FinishingAt(cal, c)
Milestone(a) == Remaining(a) = 0 /\ a.envelope = {}
DriverIsTight ==
    current # None =>
        \A u \in DOMAIN current.network.act :
            LET a == current.network.act[u]
                row == current.forward.times[u]
                e == current.network.edges[row.driver]
                landing == Landing(current.network, current.forward.times, row.driver)
            IN  row.driver # None =>
                /\ landing # None
                /\ IF Milestone(a)
                   THEN IF current.rule.snap THEN StartsAsSoon(a.calendar, landing, row.finish)
                        ELSE row.finish = landing
                   ELSE IF BoundsStart(e) THEN StartsAsSoon(a.calendar, landing, MovableStart(row))
                   ELSE FinishesAsSoon(a.calendar, landing, row.finish)

(* The same of the late dates: an activity with a late driver begins, or    *)
(* ends, at the last second it may at or before the one its driver allows   *)
(* (backward.py, _driver).                                                  *)
LateDriverIsTight ==
    current # None =>
        \A u \in DOMAIN current.network.act :
            LET a == current.network.act[u]
                row == current.backward.times[u]
                e == current.network.edges[row.driver]
                landing == LateLanding(current.network, current.forward.times,
                                       current.backward.times, row.driver)
                Gap(at, Open(_)) == at <= landing /\ \A c \in (at + 1)..landing : ~Open(c)
            IN  row.driver # None =>
                IF Remaining(a) = 0
                THEN IF current.rule.snap
                     THEN Gap(row.finish, LAMBDA c : WorkingAt(a.calendar, c))
                     ELSE row.finish = landing
                ELSE IF AnchorsFinish(e)
                THEN Gap(row.finish, LAMBDA c : FinishingAt(a.calendar, c))
                ELSE Gap(MovableStart(row), LAMBDA c : WorkingAt(a.calendar, c))

(* Without a hard or a late constraint nothing is late before it begins:    *)
(* every total float is at least zero, and an activity that ends the        *)
(* project has none (backward.py, criticality.py).                          *)
Unforced(net) ==
    /\ \A u \in DOMAIN net.act : net.act[u].constraint \notin {"SNLT", "FNLT", "MSO", "MFO"}
    /\ \A k \in DOMAIN net.edges :
          StateOf(net.act[net.edges[k].predecessor]) = "in_progress" => AnchorsFinish(net.edges[k])
FloatIsSlack ==
    current # None =>
        \A u \in DOMAIN current.network.act :
            LET total == TotalFloat(current.network, current.forward, current.backward, u) IN
            /\ Unforced(current.network) => total >= 0
            /\ current.forward.times[u].finish = current.forward.finish => total <= 0

(* Floats mean what they say: whatever both passes place can be measured, a *)
(* free float can be used without moving a successor, and a total float is  *)
(* slack (criticality.py).                                                  *)
FloatsHold == FreeFloatIsFree /\ FloatIsMeasurable /\ FloatIsSlack

(* Reporting that more work remains, and nothing else, never brings the     *)
(* finish of any activity forward.  Work with nothing left is placed as a   *)
(* milestone, at the end of an interval or, under the snap, at the start of *)
(* the next, where a second of work ends before it (forward.py, _place).    *)
OnlyMoreWork(before, after, rule, u) ==
    /\ StateOf(before.act[u]) = "in_progress"
    /\ after = [before EXCEPT !.act[u].remaining = after.act[u].remaining]
    /\ after.act[u].remaining > before.act[u].remaining
    /\ rule.snap => before.act[u].remaining > 0
MoreWorkIsNeverEarlier ==
    [][current # None =>
         ((\E u \in DOMAIN current.network.act :
              OnlyMoreWork(current.network, current'.network, current.rule, u)) =>
          \A v \in DOMAIN current.network.act :
              current'.forward.times[v].finish >= current.forward.times[v].finish)]_vars
=============================================================================
