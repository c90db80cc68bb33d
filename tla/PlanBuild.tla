------------------------------ MODULE PlanBuild ------------------------------
(***************************************************************************)
(* A canonical schedule made into a network (core/engine/plan.py): which   *)
(* rows are scheduled, on which calendar, bound by which relationships, and *)
(* what is left out or assumed.                                            *)
(*                                                                         *)
(* A schedule is a record of its activities in declaration order, its      *)
(* relationships, calendars (compiled, by identity), resources (the        *)
(* calendar each names), assignments and project settings.  What the plan  *)
(* asks only of the data of a row (percentages, work, source flags that     *)
(* admit a measured shape) is one set, row.data; every condition on the     *)
(* network is as the code has it.                                          *)
(***************************************************************************)
EXTENDS Passes

CONSTANTS
    Schedules  \* the canonical schedules a plan may be asked of

(* Rows and relationships are tables; a relationship may also end at a       *)
(* summary of the hierarchy, which is no row (sto_v011.py, migrate).         *)
ASSUME SchedulesAssumption ==
    /\ None \notin Schedules
    /\ \A s \in Schedules :
          /\ None \notin DOMAIN s.act /\ IsFiniteSet(DOMAIN s.act)
          /\ s.edges \in Seq({s.edges[k] : k \in DOMAIN s.edges})

VARIABLES
    schedule,  \* the schedule being planned, or None
    codes,     \* why each row is not scheduled by itself, or None
    frontier,  \* rows without dates whose successors are still to be cut
    cut,       \* the rows cut, each with the row it was cut for
    network,   \* the rows scheduled and the edges between them
    plan       \* the plan, the refusal, or None while it is built

planVars == <<schedule, codes, frontier, cut, network, plan>>

----------------------------------------------------------------------------
(* The calendars of an activity.                                           *)

Continuous(s) == CompiledIntervals(<< <<0, s.horizon>> >>)
NoWork(cal) == cal.starts = <<>>

(* Its own or, when it names none, the project's.                           *)
TaskCalendar(s, a) == IF a.calendar # None THEN a.calendar ELSE s.calendar

Assigned(s, u) ==
    {s.assignments[n].resource : n \in {k \in DOMAIN s.assignments :
                                           s.assignments[k].activity = u}}
ResourceCalendars(s, u) ==
    IF ~s.resource_calendars_apply \/ "ignore_resource_calendar" \in s.act[u].fields THEN {}
    ELSE {s.resources[r] : r \in Assigned(s, u) \intersect DOMAIN s.resources} \ {None}

CalendarUnresolved(s, u) ==
    ~(ResourceCalendars(s, u) \union {TaskCalendar(s, s.act[u])} \subseteq DOMAIN s.calendars)

(* A resource's calendar replaces the project's and narrows the activity's; *)
(* several are united first.                                                *)
United(s, names) ==
    CompiledIntervals(FoldSet(LAMBDA name, done : done \o Intervals(s.calendars[name]), <<>>, names))
Effective(s, u) ==
    LET a == s.act[u]
        names == ResourceCalendars(s, u)
        united == United(s, names)
    IN  IF names = {} THEN s.calendars[TaskCalendar(s, a)]
        ELSE IF a.calendar = None THEN united
        ELSE CompiledIntervals(Intersect(Intervals(s.calendars[a.calendar]), Intervals(united)))

----------------------------------------------------------------------------
(* Which rows are scheduled.                                               *)

ScheduledKinds == {"task", "start_milestone", "finish_milestone"}
Dated == {"SNET", "SNLT", "FNET", "FNLT", "MSO", "MFO"}

(* The first reason not to schedule a row, or None.                         *)
UncalendaredCode(s, u) ==
    IF CalendarUnresolved(s, u) THEN "ACTIVITY_CALENDAR_UNRESOLVED"
    ELSE IF NoWork(Effective(s, u)) THEN "ACTIVITY_CALENDAR_EMPTY"
    ELSE IF ResourceCalendars(s, u) # {} /\ NoWork(s.calendars[TaskCalendar(s, s.act[u])])
    THEN "ACTIVITY_MEASURE_CALENDAR_EMPTY" ELSE None
ExclusionCode(s, u) ==
    LET a == s.act[u]
        row == FirstOf(
            << <<a.kind \notin ScheduledKinds, "ACTIVITY_KIND_NOT_SCHEDULED">>,
               <<~a.active, "ACTIVITY_INACTIVE">>,
               <<"duration_unsupported" \in a.fields, "ACTIVITY_DURATION_UNSUPPORTED">>,
               <<"duration_non_integral" \in a.fields, "ACTIVITY_DURATION_NON_INTEGRAL">>,
               <<"remaining_unsupported" \in a.fields, "ACTIVITY_REMAINING_UNSUPPORTED">>,
               <<"format_unsupported" \in a.fields, "ACTIVITY_DURATION_FORMAT_UNSUPPORTED">>,
               <<"is_null" \in a.fields, "ACTIVITY_NULL_PLACEHOLDER">>,
               <<a.manual, "ACTIVITY_MANUALLY_SCHEDULED">> >>)
        calendar == UncalendaredCode(s, u)
    IN  IF row # None THEN row
        ELSE IF calendar # None THEN calendar
        ELSE IF a.constraint \in Dated /\ a.coordinate = None
        THEN "ACTIVITY_CONSTRAINT_INCOMPLETE" ELSE None

(* Codes of rows whose dates are not known, as opposed to rows that have    *)
(* none: what follows such a row cannot be placed.                          *)
UnknownDateExclusions ==
    {"ACTIVITY_CALENDAR_UNRESOLVED", "ACTIVITY_CALENDAR_EMPTY", "ACTIVITY_MEASURE_CALENDAR_EMPTY",
     "ACTIVITY_CONSTRAINT_INCOMPLETE", "ACTIVITY_DURATION_UNSUPPORTED",
     "ACTIVITY_DURATION_NON_INTEGRAL", "ACTIVITY_REMAINING_UNSUPPORTED",
     "ACTIVITY_DURATION_FORMAT_UNSUPPORTED", "ACTIVITY_MANUALLY_SCHEDULED",
     "ACTIVITY_NULL_PLACEHOLDER"}

(* None is no code.                                                         *)
ASSUME CodesAssumption ==
    None \notin {"ACTIVITY_KIND_NOT_SCHEDULED", "ACTIVITY_INACTIVE"} \union UnknownDateExclusions

ExclusionCodes(s) == [u \in DOMAIN s.act |-> ExclusionCode(s, u)]
Unknown == {u \in DOMAIN codes : codes[u] \in UnknownDateExclusions}
Inactive == {u \in DOMAIN codes : codes[u] = "ACTIVITY_INACTIVE"}
Placeable == {u \in DOMAIN codes : codes[u] = None}
Completed(s) == {u \in DOMAIN s.act : s.act[u].actual_finish # None}

(* The assumptions a row is scheduled under.                                *)
RowAssumptions(s, u) ==
    (IF s.act[u].secondary THEN {"ACTIVITY_SECONDARY_CONSTRAINT_NOT_APPLIED"} ELSE {})
    \union (IF s.act[u].elapsed THEN {"ACTIVITY_DURATION_ELAPSED"}
            ELSE IF Cardinality(ResourceCalendars(s, u)) > 1
            THEN {"ACTIVITY_RESOURCE_CALENDARS_UNITED"} ELSE {})

(* Elapsed work counts every hour; its float is still measured in work.     *)
Planned(s, u) ==
    LET a == s.act[u] IN
    [duration |-> IF a.duration = None THEN 0 ELSE a.duration, remaining |-> a.remaining,
     calendar |-> IF a.elapsed THEN Continuous(s) ELSE Effective(s, u),
     measure |-> s.calendars[TaskCalendar(s, a)],
     constraint |-> a.constraint, coordinate |-> a.coordinate,
     actual_start |-> a.actual_start, actual_finish |-> a.actual_finish,
     elapsed_float |-> FALSE, envelope |-> {}]

----------------------------------------------------------------------------
(* What follows a row without dates is not scheduled either; work that is   *)
(* complete is where the file says, and what follows it is not cut for it.  *)

FollowersThroughCompleted(s, u) ==
    {s.edges[k].successor : k \in OutOf(s, u)} \intersect Placeable
Followers(s, u) ==
    ({s.edges[k].successor : k \in OutOf(s, u)} \intersect Placeable) \ Completed(s)

----------------------------------------------------------------------------
(* Inactive rows between scheduled ones.                                   *)

ZeroLagFs(e) == e.type = "FS" /\ ~e.cross_project /\ e.lag = 0 /\ ~e.elapsed

Untouched(a) ==
    /\ ~a.manual /\ a.actual_start = None /\ a.actual_finish = None /\ "progress" \notin a.data
    /\ a.constraint = "ASAP" /\ ~a.secondary /\ ~a.elapsed
MeasuredEndpoint(a) == a.active /\ Untouched(a)
MeasuredMiddle(a) ==
    /\ ~a.active /\ a.kind = "task" /\ Untouched(a)
    /\ a.duration # None
    /\ a.fields \intersect
          {"duration_unsupported", "duration_non_integral", "format_unsupported", "is_null"} = {}

ScheduledInto(s, scheduled, u) == {k \in Into(s, u) : s.edges[k].predecessor \in scheduled}
ScheduledOutOf(s, scheduled, u) == {k \in OutOf(s, u) : s.edges[k].successor \in scheduled}

(* Inactive rows a predecessor reaches that have something to hold.         *)
BoundariesOf(s, scheduled, p) ==
    {i \in Inactive : /\ ScheduledOutOf(s, scheduled, i) # {}
                         /\ \E k \in Into(s, i) : s.edges[k].predecessor = p}

BoundaryCandidateAnyPredecessors(s, scheduled, i) ==
    LET outgoing == ScheduledOutOf(s, scheduled, i)
        successors == {s.edges[k].successor : k \in outgoing}
    IN  /\ MeasuredMiddle(s.act[i])
        /\ ScheduledInto(s, scheduled, i) # {} /\ Cardinality(outgoing) \in {1, 2}
        /\ \A k \in ScheduledInto(s, scheduled, i) \union outgoing : ZeroLagFs(s.edges[k])
        /\ \A v \in successors : MeasuredEndpoint(s.act[v])
BoundaryCandidate(s, scheduled, i) ==
    LET incoming == ScheduledInto(s, scheduled, i)
        outgoing == ScheduledOutOf(s, scheduled, i)
        successors == {s.edges[k].successor : k \in outgoing}
    IN  /\ MeasuredMiddle(s.act[i])
        /\ Cardinality(incoming) = 1 /\ Cardinality(outgoing) \in {1, 2}
        /\ \A k \in incoming \union outgoing : ZeroLagFs(s.edges[k])
        /\ \A p \in {s.edges[k].predecessor : k \in incoming} :
              /\ BoundariesOf(s, scheduled, p) = {i}
              /\ MeasuredEndpoint(s.act[p])
              /\ {s.edges[k].successor : k \in OutOf(s, p)} \intersect successors = {}
        /\ \A v \in successors :
              /\ MeasuredEndpoint(s.act[v])
              /\ Cardinality({k \in Into(s, v) : s.edges[k].predecessor \in Inactive}) = 1

Candidates(s, scheduled) == {i \in Inactive : BoundaryCandidate(s, scheduled, i)}

(* One edge over an inactive row for each edge out of it.                   *)
Over(s, scheduled, k) ==
    LET i == s.edges[k].predecessor
        into == CHOOSE j \in ScheduledInto(s, scheduled, i) : TRUE
    IN  [predecessor |-> s.edges[into].predecessor, successor |-> s.edges[k].successor,
         type |-> "FS", lag |-> 0, lag_calendar |-> None, boundary |-> i]
OverEdges(s, scheduled) ==
    UNION {ScheduledOutOf(s, scheduled, i) : i \in Candidates(s, scheduled)}

----------------------------------------------------------------------------
(* The relationships.                                                      *)

(* The calendar a lag is consumed on; an inherited policy of the successor  *)
(* means its task calendar, an explicit one the calendar it is placed on.   *)
LagPolicy(s, e) ==
    IF e.elapsed THEN "elapsed_24h"
    ELSE IF e.lag_calendar = "inherit_project_policy" THEN s.lag_calendar_policy
    ELSE e.lag_calendar
OnTaskCalendar(s, e) ==
    e.lag # 0 /\ LagPolicy(s, e) = "successor" /\ e.lag_calendar = "inherit_project_policy"
LagUnresolved(s, e) ==
    /\ e.lag # 0
    /\ CASE LagPolicy(s, e) = "project" -> s.calendar \notin DOMAIN s.calendars
         [] OTHER -> LagPolicy(s, e) \notin {"elapsed_24h", "successor", "predecessor"}
LagCalendarOf(s, e) ==
    IF e.lag = 0 THEN None
    ELSE IF OnTaskCalendar(s, e) THEN s.calendars[TaskCalendar(s, s.act[e.successor])]
    ELSE CASE LagPolicy(s, e) = "elapsed_24h" -> Continuous(s)
           [] LagPolicy(s, e) = "successor" -> Planned(s, e.successor).calendar
           [] LagPolicy(s, e) = "predecessor" -> Planned(s, e.predecessor).calendar
           [] LagPolicy(s, e) = "project" -> s.calendars[s.calendar]

Endpoints(e) == {e.predecessor, e.successor}
KeptEdges(s, scheduled) ==
    {k \in DOMAIN s.edges : Endpoints(s.edges[k]) \subseteq scheduled /\ ~LagUnresolved(s, s.edges[k])}

(* Derived edges follow the source's, numbered by the edge they stand for.  *)
NetworkEdges(s, scheduled) ==
    LET kept == KeptEdges(s, scheduled)
        over == OverEdges(s, scheduled)
        Kept(e) == [predecessor |-> e.predecessor, successor |-> e.successor, type |-> e.type,
                    lag |-> e.lag, lag_calendar |-> LagCalendarOf(s, e), boundary |-> None]
    IN  [k \in kept \union {Len(s.edges) + j : j \in over} |->
            IF k \in kept THEN Kept(s.edges[k]) ELSE Over(s, scheduled, k - Len(s.edges))]

(* A scheduled row behind an inactive one outside the measured shape.       *)
LabelledSuccessors(s, scheduled) ==
    {s.edges[k].successor : k \in {j \in DOMAIN s.edges : s.edges[j].predecessor \in Inactive}
                                    \ OverEdges(s, scheduled)} \intersect scheduled

ExcludedEdges(s, scheduled) ==
    {<<k, "RELATIONSHIP_ENDPOINT_NOT_SCHEDULED">> :
        k \in {j \in DOMAIN s.edges : ~(Endpoints(s.edges[j]) \subseteq scheduled)}}
    \union {<<k, "RELATIONSHIP_LAG_CALENDAR_UNRESOLVED">> :
        k \in {j \in DOMAIN s.edges : Endpoints(s.edges[j]) \subseteq scheduled
                                      /\ LagUnresolved(s, s.edges[j])}}

AssumedEdges(s, scheduled) ==
    {<<k, "RELATIONSHIP_LAG_ON_PROJECT_CALENDAR">> :
        k \in {j \in KeptEdges(s, scheduled) :
                 OnTaskCalendar(s, s.edges[j]) /\ s.act[s.edges[j].successor].calendar = None}}

----------------------------------------------------------------------------
(* Measured shapes that give a scheduled row more than its calendar: two    *)
(* assignments placed each on its own calendar instead of on the union, and *)
(* elapsed work whose float is elapsed too.                                 *)

AssignmentsOf(s, u) == {n \in DOMAIN s.assignments : s.assignments[n].activity = u}
RawEdges(s, u) == Into(s, u) \union OutOf(s, u)
Incident(edges, u) == {k \in DOMAIN edges : u \in Endpoints(edges[k])}
Unconstrained(a) == a.constraint = "ASAP" /\ ~a.secondary
InLine(s, u) == Cardinality(Into(s, u)) = 1 /\ Cardinality(OutOf(s, u)) \in {1, 2}

Placements(s, u) ==
    {[calendar |-> s.calendars[s.resources[s.assignments[n].resource]],
      work |-> s.assignments[n].work] : n \in AssignmentsOf(s, u)}
Enveloped(s, edges, u) ==
    /\ "ACTIVITY_RESOURCE_CALENDARS_UNITED" \in RowAssumptions(s, u)
    /\ "allocation" \in s.act[u].data
    /\ s.act[u].kind = "task" /\ StateOf(s.act[u]) = "not_started"
    /\ s.act[u].calendar = None /\ Unconstrained(s.act[u])
    /\ s.act[u].duration # None /\ s.act[u].remaining \in {None, s.act[u].duration}
    /\ RawEdges(s, u) = Incident(edges, u) /\ InLine(s, u)
    /\ \A k \in RawEdges(s, u) :
          /\ s.edges[k].type = "FS" /\ s.edges[k].lag = 0 /\ ~s.edges[k].elapsed
          /\ s.edges[k].lag_calendar # "elapsed_24h"
    /\ Cardinality(AssignmentsOf(s, u)) = 2
    /\ \A m, n \in AssignmentsOf(s, u) : s.assignments[m].work = s.assignments[n].work
    /\ Assigned(s, u) \subseteq DOMAIN s.resources
    /\ LET names == {s.resources[r] : r \in Assigned(s, u)}
       IN  /\ Cardinality(names) = 2 /\ None \notin names
           /\ \E name \in names : s.calendars[name] = Continuous(s)

ElapsedFloat(s, edges, u) ==
    /\ s.resource_calendars_apply /\ "elapsed_float" \in s.act[u].data
    /\ s.act[u].kind = "task" /\ s.act[u].elapsed /\ StateOf(s.act[u]) = "not_started"
    /\ s.act[u].calendar = None /\ Unconstrained(s.act[u])
    /\ s.act[u].duration # None /\ s.act[u].remaining = s.act[u].duration
    /\ Cardinality(AssignmentsOf(s, u)) = 1
    /\ Assigned(s, u) \subseteq DOMAIN s.resources
    /\ \A r \in Assigned(s, u) : /\ s.resources[r] \in DOMAIN s.calendars
                                 /\ s.calendars[s.resources[r]] = Continuous(s)
    /\ InLine(s, u)
    /\ \A j, k \in RawEdges(s, u) : Endpoints(s.edges[j]) = Endpoints(s.edges[k]) => j = k
    /\ \A k \in RawEdges(s, u) :
          ZeroLagFs(s.edges[k]) /\ s.edges[k].lag_calendar = "inherit_project_policy"
    /\ Incident(edges, u) = RawEdges(s, u)

----------------------------------------------------------------------------
(* Work under way whose late dates no evidence supports: anything but a     *)
(* row with one assignment, reported in sequence, in the measured shape.    *)

LateDatesMeasured(s, net, u) ==
    /\ "in_progress" \in s.act[u].data
    /\ ~s.act[u].elapsed /\ Unconstrained(s.act[u])
    /\ Cardinality(AssignmentsOf(s, u)) = 1 /\ Assigned(s, u) \subseteq DOMAIN s.resources
    /\ Into(net, u) # {} /\ OutOf(net, u) # {}
    /\ \A k \in RawEdges(net, u) : net.edges[k].type = "FS" /\ net.edges[k].lag = 0
    /\ s.rule.policy = "retained_logic"

(* Asked of the forward pass: every predecessor lands at or before the      *)
(* actual start, and the status date does not move the remaining work.      *)
InSequence(s, early, u) ==
    LET net == early.network
        a == net.act[u]
    IN  /\ \A k \in Into(net, u) : Landing(net, early.times, k) # None
                                   /\ Landing(net, early.times, k) <= a.actual_start
        /\ RemainingBound(a, s.rule, net.status, a.actual_start) <= a.actual_start

UnderWay(s, scheduled) == {u \in scheduled : StateOf(s.act[u]) = "in_progress"}
LateDatesAssumed(s, scheduled, net, early) ==
    {u \in UnderWay(s, scheduled) : ~LateDatesMeasured(s, net, u)
                                     \/ ~InSequence(s, early, u)}

----------------------------------------------------------------------------
(* The plan.                                                               *)

Children(s) ==
    [node \in DOMAIN s.wbs |->
        {u \in DOMAIN s.act : s.act[u].wbs = node} \union
        {other \in DOMAIN s.wbs : s.wbs[other] = node}]

StatusUsed(s) ==
    IF s.status # None /\ s.start <= s.status /\ s.status <= s.horizon THEN s.status ELSE None

Ordered(s, scheduled) == SelectSeq(s.order, LAMBDA u : u \in scheduled)
NetworkWith(s, scheduled, edges) ==
    LET Row(u) == [Planned(s, u) EXCEPT
                      !.envelope = IF Enveloped(s, edges, u) THEN Placements(s, u) ELSE {},
                      !.elapsed_float = ElapsedFloat(s, edges, u)]
    IN  [order |-> Ordered(s, scheduled),
         act |-> [u \in scheduled |-> Row(u)], edges |-> edges,
         start |-> s.start, horizon |-> s.horizon, status |-> StatusUsed(s)]
NetworkOf(s, scheduled) == NetworkWith(s, scheduled, NetworkEdges(s, scheduled))

RowCode(u) == IF codes[u] = None THEN "ACTIVITY_PREDECESSOR_NOT_SCHEDULED" ELSE codes[u]

Assumed(s, scheduled, net, early) ==
    LET Kept(u) == RowAssumptions(s, u) \ (IF net.act[u].envelope # {}
                                           THEN {"ACTIVITY_RESOURCE_CALENDARS_UNITED"} ELSE {})
    IN  (UNION {{<<u, code>> : code \in Kept(u)} : u \in scheduled})
        \union {<<v, "ACTIVITY_SUCCESSOR_OF_INACTIVE">> : v \in LabelledSuccessors(s, scheduled)}
        \union {<<u, "ACTIVITY_IN_PROGRESS_LATE_DATES_ASSUMED">> :
                    u \in LateDatesAssumed(s, scheduled, net, early)}

(* The forward pass is asked, and may refuse, only when some row under way  *)
(* has the measured shape; without one its answer is not read.              *)
Forwarded(s, scheduled, net) ==
    IF \E u \in UnderWay(s, scheduled) : LateDatesMeasured(s, net, u)
    THEN ForwardPass(net, s.rule) ELSE [error |-> None, network |-> net]

PlanOf(s, scheduled, net, early) ==
    IF early.error # None THEN [error |-> early.error]
    ELSE [error |-> None, network |-> net, rule |-> s.rule,
          excluded |-> {<<u, RowCode(u)>> : u \in DOMAIN s.act \ scheduled},
          excluded_edges |-> ExcludedEdges(s, scheduled),
          assumed |-> Assumed(s, scheduled, net, early),
          assumed_edges |-> AssumedEdges(s, scheduled),
          status_outside |-> s.status # StatusUsed(s),
          children |-> Children(s)]

(* Settings that would make every answer wrong refuse the plan.             *)
Refusal(s) ==
    FirstOf(<< <<DOMAIN s.calendars = {}, "PROJECT_NO_CALENDARS">>,
               <<s.direction # "from_start", "PROJECT_SCHEDULED_FROM_FINISH">>,
               <<s.start = None, "PROJECT_START_MISSING">> >>)

----------------------------------------------------------------------------
(* Building it.                                                            *)

Init ==
    /\ schedule = None /\ codes = <<>> /\ frontier = {} /\ cut = <<>>
    /\ network = None /\ plan = None

Begin(s) ==
    /\ schedule = None
    /\ schedule' = s
    /\ codes' = IF Refusal(s) = None THEN ExclusionCodes(s) ELSE <<>>
    /\ frontier' = Unknown'
    /\ plan' = IF Refusal(s) = None THEN None ELSE [error |-> Refusal(s)]
    /\ UNCHANGED <<cut, network>>

(* One row of the frontier, in whatever order its set is walked.            *)
CutFollowers(u) ==
    LET reached == Followers(schedule, u) \ DOMAIN cut
    IN  /\ plan = None /\ u \in frontier
        /\ frontier' = (frontier \ {u}) \union reached
        /\ cut' = [v \in DOMAIN cut \union reached |-> IF v \in reached THEN u ELSE cut[v]]
        /\ UNCHANGED <<schedule, codes, network, plan>>

Scheduled == Placeable \ DOMAIN cut

Relate ==
    /\ schedule # None /\ plan = None /\ frontier = {} /\ network = None
    /\ network' = NetworkOf(schedule, Scheduled)
    /\ UNCHANGED <<schedule, codes, frontier, cut, plan>>

Label ==
    /\ network # None /\ plan = None
    /\ plan' = PlanOf(schedule, Scheduled, network, Forwarded(schedule, Scheduled, network))
    /\ UNCHANGED <<schedule, codes, frontier, cut, network>>

PlanNext ==
    \/ \E s \in IF schedule = None THEN Schedules ELSE {} : Begin(s)
    \/ \E u \in frontier : CutFollowers(u)
    \/ Relate
    \/ Label

PlanSpec == Init /\ [][PlanNext]_planVars

----------------------------------------------------------------------------
(* What must hold.                                                         *)

Planned1 == plan # None /\ plan.error = None

(* A row is cut exactly when dates it waits for are not known: it follows,  *)
(* through rows themselves cut, a row without dates, and is not complete    *)
(* (plan.py: "Walked to a fixed point, so a chain behind one unreadable     *)
(* duration is reported rather than half-reported").                        *)
ReachedFromUnknown ==
    \A rows \in SUBSET DOMAIN cut :
        (\A v \in DOMAIN cut : cut[v] \in Unknown \union rows => v \in rows) => rows = DOMAIN cut
CutIsTheClosure ==
    Planned1 =>
        /\ \A k \in DOMAIN schedule.edges :
              LET e == schedule.edges[k] IN
              e.predecessor \in Unknown \union DOMAIN cut /\ e.successor \in Scheduled
                  => schedule.act[e.successor].actual_finish # None
        /\ \A v \in DOMAIN cut :
              /\ schedule.act[v].actual_finish = None
              /\ \E k \in OutOf(schedule, cut[v]) : schedule.edges[k].successor = v
        /\ ReachedFromUnknown

(* No scheduled row loses what held it in silence: every relationship into  *)
(* one is in the network, or is reported, or its inactive predecessor's own *)
(* scheduled predecessors hold the row in its place, or the row is labelled *)
(* (plan.py: "Nothing is dropped silently").                                *)
HeldThrough(i, v) ==
    \A q \in {schedule.edges[j].predecessor : j \in Into(schedule, i)} \intersect Scheduled :
        \E j \in DOMAIN plan.network.edges :
            plan.network.edges[j].predecessor = q /\ plan.network.edges[j].successor = v
LogicIsKeptOrLabelled ==
    Planned1 =>
        \A k \in DOMAIN schedule.edges :
            LET e == schedule.edges[k]
                v == e.successor
            IN  v \in Scheduled \ Completed(schedule) =>
                \/ k \in DOMAIN plan.network.edges
                \/ <<k, "RELATIONSHIP_LAG_CALENDAR_UNRESOLVED">> \in plan.excluded_edges
                \/ /\ e.predecessor \notin DOMAIN schedule.act
                   /\ <<k, "RELATIONSHIP_ENDPOINT_NOT_SCHEDULED">> \in plan.excluded_edges
                \/ <<e.predecessor, "ACTIVITY_KIND_NOT_SCHEDULED">> \in plan.excluded
                \/ /\ <<e.predecessor, "ACTIVITY_INACTIVE">> \in plan.excluded
                   /\ \/ <<v, "ACTIVITY_SUCCESSOR_OF_INACTIVE">> \in plan.assumed
                      \/ HeldThrough(e.predecessor, v)

(* Every edge the plan derives over an inactive row is one the network      *)
(* accepts: whatever the plan takes for the measured shape, so does the      *)
(* calculation (plan.py:884-965, network.py:482-546).                       *)
BoundariesAreMeasured == Planned1 => BoundariesSupported(plan.network)

(* What holds a scheduled row, kept, stood in for or labelled, is also what   *)
(* the calculation takes (plan.py, network.py).                             *)
LogicHolds == LogicIsKeptOrLabelled /\ BoundariesAreMeasured
=============================================================================
