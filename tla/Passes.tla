------------------------------- MODULE Passes -------------------------------
(***************************************************************************)
(* The calculation of a network (core/engine/network.py, progress.py,      *)
(* forward.py, backward.py, criticality.py).  A network is a record        *)
(*   [order, act, edges, start, horizon, status]                           *)
(* of its activities in declaration order, what each is, its relationships *)
(* in declaration order, and its window; a rule is the project's progress  *)
(* policy and milestone snap.  Coordinates are working seconds.            *)
(***************************************************************************)
EXTENDS WorkingTime

(* What refuses a network, a row of a pass, or a result; None is no refusal. *)
Codes ==
    {"SCHEDULE_INVALID", "PROGRESS_POLICY_NOT_EVIDENCED", "SCHEDULE_CYCLE",
     "SCHEDULE_PASS_MISMATCH", "SCHEDULE_HORIZON_EXCEEDED", "SCHEDULE_FLOOR_EXCEEDED",
     "SCHEDULE_LAG_UNREACHABLE", "SCHEDULE_ASSIGNMENT_ENVELOPE_UNMEASURED_BOUND",
     "SCHEDULE_INACTIVE_BOUNDARY_LATE_TIE", "SCHEDULE_FLOAT_UNREACHABLE"}
ASSUME RefusalsAssumption == None \notin Codes

(* The first of the checks that fails gives the code.                       *)
FirstOf(checks) ==
    LET failed == {n \in DOMAIN checks : checks[n][1]}
    IN  IF failed = {} THEN None ELSE checks[Min(failed)][2]

----------------------------------------------------------------------------
(* Progress: what the reported dates of an activity make of it.             *)

StateOf(a) == IF a.actual_finish # None THEN "complete"
              ELSE IF a.actual_start # None THEN "in_progress" ELSE "not_started"
RemainingAsDone(a) == IF StateOf(a) = "complete" THEN 0
                      ELSE IF a.remaining = None THEN a.duration ELSE Max({0, a.duration - a.remaining})
Remaining(a) == IF StateOf(a) = "complete" THEN 0
                ELSE IF a.remaining = None THEN a.duration ELSE a.remaining

(* No reference says what the policy of actual dates does to reported work. *)
Supported(net, rule) ==
    rule.policy = "actual_dates" =>
        \A u \in DOMAIN net.act : StateOf(net.act[u]) = "not_started"

(* The earliest the remaining work may begin, where logic asks for bound.   *)
RemainingBound(a, rule, status, bound) ==
    LET asked == IF status = None THEN bound
                 ELSE IF rule.policy = "progress_override" THEN status
                 ELSE Max({bound, status})
    IN  Max({a.actual_start, asked})

(* Whether a relationship still holds its successor's remaining work.       *)
RelationshipBindsComplete(net, rule, e) ==
    \/ rule.policy # "progress_override" \/ net.status = None
    \/ StateOf(net.act[e.successor]) # "in_progress"
RelationshipBinds(net, rule, e) ==
    /\ StateOf(net.act[e.successor]) # "complete"
    /\ \/ rule.policy # "progress_override" \/ net.status = None
       \/ StateOf(net.act[e.successor]) = "not_started"

----------------------------------------------------------------------------
(* The network.                                                            *)

AnchorsFinish(e) == e.type \in {"FS", "FF"}
BoundsStart(e) == e.type \in {"FS", "SS"}
LagCalendar(net, e) ==
    IF e.lag_calendar # None THEN e.lag_calendar ELSE net.act[e.successor].calendar

(* A network is a record that declares each of its activities once.          *)
Distinct(seq) == \A i, j \in 1..Len(seq) : seq[i] = seq[j] => i = j
Enumerated(net) ==
    /\ net.order \in Seq(DOMAIN net.act)
    /\ Distinct(net.order)
    /\ \A u \in DOMAIN net.act : \E i \in 1..Len(net.order) : net.order[i] = u
IsNetwork(net) ==
    /\ net = [order |-> net.order, act |-> net.act, edges |-> net.edges,
              start |-> net.start, horizon |-> net.horizon, status |-> net.status]
    /\ Enumerated(net)

(* What an activity, an edge and a network are to the engine (network.py): a *)
(* calendar is compiled and begins no earlier than coordinate 0, and one that *)
(* stands for several assignments works only when one of theirs does.        *)
Covered(a) ==
    \A i \in DOMAIN a.calendar.starts :
        \A c \in a.calendar.starts[i]..(a.calendar.finishes[i] - 1) :
            \E p \in a.envelope : WorkingAt(p.calendar, c)
IsActivity(a) ==
    /\ a = [duration |-> a.duration, calendar |-> a.calendar, measure |-> a.measure,
            constraint |-> a.constraint, coordinate |-> a.coordinate,
            actual_start |-> a.actual_start, actual_finish |-> a.actual_finish,
            remaining |-> a.remaining, elapsed_float |-> a.elapsed_float, envelope |-> a.envelope]
    /\ a.duration \in Nat /\ a.remaining \in Nat \union {None}
    /\ a.coordinate \in Int \union {None}
    /\ a.actual_start \in Int \union {None} /\ a.actual_finish \in Int \union {None}
    /\ Indexed(a.calendar) /\ Indexed(a.measure)
    /\ \A i \in DOMAIN a.calendar.starts : a.calendar.starts[i] >= 0
    /\ IsFiniteSet(a.envelope)
    /\ \A p \in a.envelope : Indexed(p.calendar) /\ p.work \in Nat
    /\ a.envelope # {} => Covered(a)
IsEdge(e) == e.lag \in Int /\ (e.lag_calendar # None => Indexed(e.lag_calendar))
IsTimed(net) ==
    /\ net.start \in Int /\ net.horizon \in Int /\ net.status \in Int \union {None}
    /\ \A u \in DOMAIN net.act : IsActivity(net.act[u])
    /\ DOMAIN net.edges = 1..Len(net.edges) /\ Len(net.edges) \in Nat
    /\ \A k \in DOMAIN net.edges : IsEdge(net.edges[k])

(* The edges by their place in the declaration.                             *)
Into(net, u) == {k \in DOMAIN net.edges : net.edges[k].successor = u}
OutOf(net, u) == {k \in DOMAIN net.edges : net.edges[k].predecessor = u}
Released(net, rule) ==
    {k \in DOMAIN net.edges : ~RelationshipBinds(net, rule, net.edges[k])}

CalendarFloor(a) == a.calendar.starts[1]

(* The elements of a sequence that are in a set, in their order.            *)
Among(seq, S) ==
    LET from[n \in 0..Len(seq)] ==
            IF n = 0 THEN <<>>
            ELSE IF seq[n] \in S THEN Append(from[n - 1], seq[n]) ELSE from[n - 1]
    IN  from[Len(seq)]

(* Kahn's algorithm, ties broken by declaration.                            *)
Free(net, done) ==
    {v \in DOMAIN net.act : \A k \in Into(net, v) : net.edges[k].predecessor \in done}
Visit(net, walk) ==
    LET u == Head(walk.ready)
        freed == {v \in Free(net, ToSet(walk.order) \union {u}) :
                     \E k \in Into(net, v) : net.edges[k].predecessor = u}
    IN  IF walk.ready = <<>> THEN walk
        ELSE [order |-> Append(walk.order, u),
              ready |-> Tail(walk.ready) \o Among(net.order, freed)]
TopologicalOrder(net) ==
    LET walk[n \in 0..Len(net.order)] ==
            IF n = 0 THEN [order |-> <<>>, ready |-> Among(net.order, Free(net, {}))]
            ELSE Visit(net, walk[n - 1])
    IN  walk[Len(net.order)].order

(* An edge with a boundary stands for two through an inactive activity: all  *)
(* that was measured is one predecessor, one or two successors, no progress. *)
Boundary(net) == {k \in DOMAIN net.edges : net.edges[k].boundary # None}
BoundariesSupported(net) ==
    \A k \in Boundary(net) :
        LET e == net.edges[k]
            across == {j \in Boundary(net) : net.edges[j].boundary = e.boundary}
        IN  /\ e.type = "FS" /\ e.lag = 0 /\ e.lag_calendar = None
            /\ \A u \in {e.predecessor, e.successor} : StateOf(net.act[u]) = "not_started"
            /\ \A j \in Boundary(net) :
                  net.edges[j].boundary = e.boundary <=> net.edges[j].predecessor = e.predecessor
            /\ Cardinality(across) <= 2
            /\ Cardinality({net.edges[j].successor : j \in across}) = Cardinality(across)

(* Work two assignments share out, each on its own calendar, spans both.    *)
EnvelopeSupported(a) ==
    a.envelope # {} =>
        /\ Cardinality(a.envelope) >= 2 /\ a.actual_start = None /\ a.constraint = "ASAP"
        /\ \A p \in a.envelope : p.work > 0 /\ p.calendar.starts # <<>>

Validated(net) ==
    /\ net.start < net.horizon
    /\ net.status # None => net.start <= net.status /\ net.status <= net.horizon
    /\ \A u \in DOMAIN net.act :
          LET a == net.act[u] IN
          /\ Len(a.calendar.starts) > 0 /\ Len(a.measure.starts) > 0
          /\ a.constraint \in {"SNET", "FNET", "SNLT", "FNLT", "MSO", "MFO"} => a.coordinate # None
          /\ a.actual_finish # None => a.actual_start # None /\ a.actual_start <= a.actual_finish
          /\ StateOf(a) = "in_progress" => a.remaining # None
    /\ \A k \in DOMAIN net.edges :
          /\ {net.edges[k].predecessor, net.edges[k].successor} \subseteq DOMAIN net.act
          /\ net.edges[k].predecessor # net.edges[k].successor
    /\ \A u \in DOMAIN net.act : EnvelopeSupported(net.act[u])
    /\ BoundariesSupported(net)
Acyclic(net) == Len(TopologicalOrder(net)) = Len(net.order)

----------------------------------------------------------------------------
(* The forward pass.  A bound is a coordinate with the edge that drove it;  *)
(* among edges that reach it the first declared is the driver.              *)

Highest(at, base) ==
    LET top == Max({at[k] : k \in DOMAIN at}) IN
    IF DOMAIN at # {} /\ (base = None \/ top >= base)
    THEN [at |-> top, by |-> Min({k \in DOMAIN at : at[k] = top})]
    ELSE [at |-> base, by |-> None]

(* A side no edge reached rests on the floor given; one reached below the   *)
(* calendar's beginning is placed there whatever the edge says.             *)
Floored(bound, unbounded, calendarFloor) ==
    IF bound.at = None THEN [at |-> unbounded, by |-> None]
    ELSE IF bound.at < calendarFloor THEN [at |-> calendarFloor, by |-> None]
    ELSE bound

EarlyAnchor(e, row) == IF AnchorsFinish(e) THEN row.finish ELSE row.start
Landing(net, placed, k) ==
    LET e == net.edges[k] IN
    ShiftLag(LagCalendar(net, e), EarlyAnchor(e, placed[e.predecessor]), e.lag)

(* Where an activity's bounds begin before any predecessor is read.         *)
Base(net, u) ==
    IF StateOf(net.act[u]) # "not_started" THEN net.act[u].actual_start
    ELSE IF Into(net, u) # {} THEN None ELSE net.start

Binding(net, rule, u) == Into(net, u) \ Released(net, rule)

Bounds(net, rule, placed, u) ==
    LET a == net.act[u]
        base == Base(net, u)
        Side(starts) ==
            Highest([k \in {j \in Binding(net, rule, u) : BoundsStart(net.edges[j]) = starts} |->
                        Landing(net, placed, k)], base)
    IN  [start |-> Floored(Side(TRUE), net.start, CalendarFloor(a)),
         finish |-> Floored(Side(FALSE), CalendarFloor(a), CalendarFloor(a))]

(* The first start and the last finish of spans that all exist.             *)
Enclosing(spans) ==
    IF None \in spans THEN None
    ELSE <<Min({span[1] : span \in spans}), Max({span[2] : span \in spans})>>
EarlyEnvelope(net, a, bound) ==
    Enclosing({EarliestSpan(p.calendar, bound, bound, p.work, net.horizon) : p \in a.envelope})

Place(net, rule, a, startBound, finishBound) ==
    LET moment == Max({startBound, finishBound})
        at == IF rule.snap THEN NextWorking(a.calendar, moment) ELSE moment
    IN  IF Remaining(a) # 0
        THEN EarliestSpan(a.calendar, startBound, finishBound, Remaining(a), net.horizon)
        ELSE Within(IF at = None THEN None ELSE <<at, at>>, net.horizon)

PlacePinned(net, a) ==
    LET d == Remaining(a) IN
    IF a.constraint = "MSO"
    THEN Within(SpanFrom(a.calendar, a.coordinate, d), net.horizon)
    ELSE IF SubWorking(a.calendar, a.coordinate, d) = None THEN None
    ELSE Within(<<SubWorking(a.calendar, a.coordinate, d), a.coordinate>>, net.horizon)

(* The finish bound drove only if the start bound alone does not reach it.  *)
Reaches(span, finish) == span # None /\ span[2] >= finish
DriverUnreplayed(net, rule, a, bounds, floor) ==
    IF bounds.finish.by = None THEN bounds.start.by ELSE bounds.finish.by
Driver(net, rule, a, bounds, floor) ==
    IF \/ bounds.finish.by = None
       \/ Reaches(Place(net, rule, a, bounds.start.at, floor), bounds.finish.at)
    THEN bounds.start.by ELSE bounds.finish.by

Exceeded == [error |-> "SCHEDULE_HORIZON_EXCEEDED"]

(* A date no earlier than logic takes a side over; a hard date takes both.   *)
Pinned(a) == a.constraint \in {"MSO", "MFO"}
DatedLater(a, logic) ==
    [start |-> a.constraint = "SNET" /\ a.coordinate > logic.start.at,
     finish |-> a.constraint = "FNET" /\ a.coordinate > logic.finish.at]
DatedBounds(a, logic, sides) ==
    [side \in {"start", "finish"} |->
        IF sides[side] THEN [at |-> a.coordinate, by |-> None] ELSE logic[side]]
Dominated(a, sides) == Pinned(a) \/ sides.start \/ sides.finish

UntouchedSpan(net, rule, a, logic) ==
    LET bounds == DatedBounds(a, logic, DatedLater(a, logic)) IN
    IF Pinned(a) THEN PlacePinned(net, a)
    ELSE IF a.envelope # {} THEN EarlyEnvelope(net, a, logic.start.at)
    ELSE Place(net, rule, a, bounds.start.at, bounds.finish.at)
UntouchedDriver(net, rule, u, logic) ==
    LET a == net.act[u]
        floor == IF Base(net, u) # None THEN Base(net, u) ELSE CalendarFloor(a)
    IN  IF Dominated(a, DatedLater(a, logic)) THEN None
        ELSE IF a.envelope # {} THEN logic.start.by
        ELSE Driver(net, rule, a, logic, floor)

(* Logic that reached below the calendar's beginning placed nothing.         *)
Fallback(net, rule, u, logic, span) ==
    LET a == net.act[u]
        late == DatedLater(a, logic)
    IN  /\ Binding(net, rule, u) # {} /\ ~late.start /\ ~Pinned(a)
        /\ logic.start.by = None /\ logic.start.at = net.start
        /\ Place(net, rule, a, CalendarFloor(a), DatedBounds(a, logic, late).finish.at) # span

PlaceUntouched(net, rule, u, logic) ==
    LET a == net.act[u]
        Row(span, driver) ==
            IF span = None THEN Exceeded ELSE
             [error |-> None, start |-> span[1], finish |-> span[2], remaining_start |-> None,
              driver |-> driver,
              source |-> IF Dominated(a, DatedLater(a, logic)) THEN "constraint"
                         ELSE IF driver # None THEN "relationship" ELSE "project_start",
              deferred |-> a.constraint \in {"ALAP", "SNLT", "FNLT"},
              violated |-> \/ a.constraint = "MSO" /\ logic.start.at > span[1]
                           \/ a.constraint = "MFO" /\ logic.finish.at > span[2],
              unbounded |-> Fallback(net, rule, u, logic, span)]
    IN  IF a.envelope # {} /\ logic.finish.at > logic.start.at
        THEN [error |-> "SCHEDULE_ASSIGNMENT_ENVELOPE_UNMEASURED_BOUND"]
        ELSE Row(UntouchedSpan(net, rule, a, logic), UntouchedDriver(net, rule, u, logic))

(* The status time holds remaining work back, whatever asked for less.       *)
HeldBack(net, rule, a, bound) ==
    [at |-> RemainingBound(a, rule, net.status, bound.at),
     by |-> IF \/ rule.policy = "progress_override"
               \/ net.status # None /\ net.status > bound.at THEN None ELSE bound.by]
HeldBounds(net, rule, a, logic) ==
    [start |-> HeldBack(net, rule, a, logic.start), finish |-> HeldBack(net, rule, a, logic.finish)]
PlaceReported(net, rule, u, logic) ==
    LET a == net.act[u]
        bounds == HeldBounds(net, rule, a, logic)
        Row(finish, remainingStart, by, source) ==
            [error |-> None, start |-> a.actual_start, finish |-> finish,
             remaining_start |-> remainingStart, driver |-> by, source |-> source,
             deferred |-> a.constraint # "ASAP", violated |-> FALSE, unbounded |-> FALSE]
        Left(span, driver) ==
            IF span = None THEN Exceeded
            ELSE Row(span[2], span[1], driver,
                     IF driver # None THEN "relationship"
                     ELSE IF net.status # None /\ net.status >= a.actual_start THEN "status_time"
                     ELSE "actuals")
    IN  IF StateOf(a) = "complete" THEN Row(a.actual_finish, None, None, "actuals")
        ELSE Left(Place(net, rule, a, bounds.start.at, bounds.finish.at),
                  Driver(net, rule, a, bounds, a.actual_start))

PlaceRow(net, rule, u, logic) ==
    IF StateOf(net.act[u]) = "not_started" THEN PlaceUntouched(net, rule, u, logic)
    ELSE PlaceReported(net, rule, u, logic)

EarlyRow(net, rule, placed, u) ==
    IF \E k \in Binding(net, rule, u) : Landing(net, placed, k) = None
    THEN [error |-> "SCHEDULE_LAG_UNREACHABLE"]
    ELSE PlaceRow(net, rule, u, Bounds(net, rule, placed, u))

(* One row after another; the first that cannot be placed refuses them all. *)
WithRow(done, u, row) ==
    IF done.error # None THEN done
    ELSE IF row.error # None THEN [error |-> row.error, times |-> <<>>]
    ELSE [error |-> None,
          times |-> [v \in DOMAIN done.times \union {u} |-> IF v = u THEN row ELSE done.times[v]]]
Traverse(Row(_, _), order) ==
    LET rows[n \in 0..Len(order)] ==
            IF n = 0 THEN [error |-> None, times |-> <<>>]
            ELSE WithRow(rows[n - 1], order[n], Row(rows[n - 1].times, order[n]))
    IN  rows[Len(order)]

ProjectFinish(net, times) ==
    IF DOMAIN times = {} THEN net.start ELSE Max({times[u].finish : u \in DOMAIN times})

EarlyRows(net, rule) ==
    Traverse(LAMBDA placed, u : EarlyRow(net, rule, placed, u), TopologicalOrder(net))
ForwardPass(net, rule) ==
    LET Pass(rows) ==
            [error |-> rows.error, network |-> net, rule |-> rule, times |-> rows.times,
             finish |-> ProjectFinish(net, rows.times)]
    IN  IF ~Validated(net) THEN [error |-> "SCHEDULE_INVALID"]
        ELSE IF ~Supported(net, rule) THEN [error |-> "PROGRESS_POLICY_NOT_EVIDENCED"]
        ELSE IF ~Acyclic(net) THEN [error |-> "SCHEDULE_CYCLE"]
        ELSE Pass(EarlyRows(net, rule))

----------------------------------------------------------------------------
(* The backward pass.                                                      *)

Lowest(at, base) ==
    LET bottom == Min({at[k] : k \in DOMAIN at}) IN
    IF DOMAIN at # {} /\ bottom <= base
    THEN [at |-> bottom, by |-> Min({k \in DOMAIN at : at[k] = bottom})]
    ELSE [at |-> base, by |-> None]

(* A successor under way is bounded by its actual start for logic satisfied *)
(* when it started, and by its remaining work for logic that still binds.   *)
LateAnchorActual(net, early, placed, k) ==
    LET row == placed[net.edges[k].successor] IN
    IF BoundsStart(net.edges[k]) THEN row.start ELSE row.finish
LateAnchor(net, early, placed, k) ==
    LET row == placed[net.edges[k].successor]
        landed == Landing(net, early, k)
    IN  IF ~BoundsStart(net.edges[k]) THEN row.finish
        ELSE IF row.remaining_start # None /\ (landed = None \/ landed > row.start)
        THEN row.remaining_start ELSE row.start

LateLanding(net, early, placed, k) ==
    UnshiftLag(LagCalendar(net, net.edges[k]), LateAnchor(net, early, placed, k),
               net.edges[k].lag, net.horizon)

LateBounds(net, early, placed, lateFinish, held) ==
    LET Side(finishes) ==
            Lowest([k \in {j \in held : AnchorsFinish(net.edges[j]) = finishes} |->
                       LateLanding(net, early, placed, k)], lateFinish)
    IN  [start |-> Side(FALSE), finish |-> Side(TRUE)]

LateEnvelope(a, startBound, finishBound) ==
    Enclosing({LatestSpan(p.calendar, startBound, finishBound, p.work, CalendarFloor(p)) :
                  p \in a.envelope})

PlaceLate(net, rule, a, startBound, finishBound) ==
    LET moment == Min({startBound, finishBound})
        at == IF rule.snap THEN PrevWorkingStart(a.calendar, moment) ELSE moment
    IN  IF Remaining(a) # 0
        THEN LatestSpan(a.calendar, startBound, finishBound, Remaining(a), CalendarFloor(a))
        ELSE NotBefore(IF at = None THEN None ELSE <<at, at>>, CalendarFloor(a))

PlacePinnedLate(a) ==
    LET d == Remaining(a)
        start == SubWorking(a.calendar, a.coordinate, d)
    IN  NotBefore(IF a.constraint = "MSO" THEN SpanFrom(a.calendar, a.coordinate, d)
                  ELSE IF start = None THEN None ELSE <<start, a.coordinate>>,
                  CalendarFloor(a))

ReachesBack(span, start) == span # None /\ span[1] <= start
LateDriver(a, bounds, lateFinish) ==
    IF bounds.start.by = None THEN bounds.finish.by
    ELSE IF /\ bounds.finish.by # None
            /\ ReachesBack(LatestSpan(a.calendar, lateFinish, bounds.finish.at, Remaining(a),
                                      CalendarFloor(a)),
                           bounds.start.at)
    THEN bounds.finish.by ELSE bounds.start.by

DatedEarlier(a, logic) ==
    LET untouched == StateOf(a) = "not_started" IN
    [start |-> untouched /\ a.constraint = "SNLT" /\ a.coordinate < logic.start.at,
     finish |-> untouched /\ a.constraint = "FNLT" /\ a.coordinate < logic.finish.at]
PinnedLate(a) == StateOf(a) = "not_started" /\ Pinned(a)
LateSpan(net, rule, a, logic) ==
    LET bounds == DatedBounds(a, logic, DatedEarlier(a, logic)) IN
    IF PinnedLate(a) THEN PlacePinnedLate(a)
    ELSE IF a.envelope # {} THEN LateEnvelope(a, logic.start.at, logic.finish.at)
    ELSE PlaceLate(net, rule, a, bounds.start.at, bounds.finish.at)

LateRowOf(net, rule, u, logic, lateFinish) ==
    LET a == net.act[u]
        untouched == StateOf(a) = "not_started"
        early == DatedEarlier(a, logic)
        dominated == PinnedLate(a) \/ early.start \/ early.finish
        Row(span, driver) ==
            IF span = None THEN [error |-> "SCHEDULE_FLOOR_EXCEEDED"] ELSE
             [error |-> None, finish |-> span[2], driver |-> driver,
              start |-> IF untouched THEN span[1] ELSE a.actual_start,
              remaining_start |-> IF untouched THEN None ELSE span[1],
              source |-> IF dominated THEN "constraint"
                         ELSE IF driver # None THEN "relationship" ELSE "project_finish",
              deferred |-> a.constraint = "ALAP" \/ (~untouched /\ a.constraint # "ASAP")]
    IN  Row(LateSpan(net, rule, a, logic),
            IF dominated THEN None
            ELSE LateDriver(a, DatedBounds(a, logic, early), lateFinish))

(* Of the edges across one boundary only the one whose successor is latest   *)
(* binds; no evidence says which does when two are equally late.             *)
LaterAcross(net, placed, k) ==
    {j \in OutOf(net, net.edges[k].predecessor) \ {k} :
        /\ net.edges[k].boundary # None /\ net.edges[j].boundary = net.edges[k].boundary
        /\ placed[net.edges[j].successor].start >= placed[net.edges[k].successor].start}
LateTie(net, placed, outgoing) ==
    \E j, k \in outgoing : j \in LaterAcross(net, placed, k) /\ k \in LaterAcross(net, placed, j)
BindingBack(net, rule, placed, u) ==
    {k \in OutOf(net, u) \ Released(net, rule) : LaterAcross(net, placed, k) = {}}

LateRow(net, rule, early, lateFinish, placed, u) ==
    LET a == net.act[u]
        held == BindingBack(net, rule, placed, u)
    IN  IF StateOf(a) = "complete"
        THEN [error |-> None, start |-> a.actual_start, finish |-> a.actual_finish,
              remaining_start |-> None, driver |-> None, source |-> "actuals",
              deferred |-> a.constraint # "ASAP"]
        ELSE IF LateTie(net, placed, OutOf(net, u))
        THEN [error |-> "SCHEDULE_INACTIVE_BOUNDARY_LATE_TIE"]
        ELSE IF \E k \in held : LateLanding(net, early, placed, k) = None
        THEN [error |-> "SCHEDULE_LAG_UNREACHABLE"]
        ELSE LateRowOf(net, rule, u, LateBounds(net, early, placed, lateFinish, held), lateFinish)

LateRows(net, rule, early, lateFinish) ==
    Traverse(LAMBDA placed, u : LateRow(net, rule, early, lateFinish, placed, u),
             Reverse(TopologicalOrder(net)))
(* The policies are the forward pass's own, as is the traversal order.      *)
BackwardPass(net, forward, lateFinish) ==
    LET Pass(rows) ==
            [error |-> rows.error, network |-> net, rule |-> forward.rule, times |-> rows.times,
             late_finish |-> lateFinish, released |-> Released(net, forward.rule)]
    IN  IF forward.network # net THEN [error |-> "SCHEDULE_PASS_MISMATCH"]
        ELSE IF lateFinish > net.horizon THEN [error |-> "SCHEDULE_HORIZON_EXCEEDED"]
        ELSE Pass(LateRows(net, forward.rule, forward.times, lateFinish))

----------------------------------------------------------------------------
(* Float.                                                                  *)

SignedWorking(cal, s, f) ==
    IF f >= s THEN WorkingBetween(cal, s, f) ELSE -WorkingBetween(cal, f, s)

(* Float is counted in working time, but for work measured by the clock.    *)
FloatBetween(a, s, f) == IF a.elapsed_float THEN f - s ELSE SignedWorking(a.measure, s, f)

(* For work under way what can move is the remaining span.                  *)
MovableStart(row) == IF row.remaining_start # None THEN row.remaining_start ELSE row.start

TotalFloat(net, forward, backward, u) ==
    LET early == forward.times[u]
        late == backward.times[u]
        a == net.act[u]
    IN  Min({FloatBetween(a, MovableStart(early), MovableStart(late)),
             FloatBetween(a, early.finish, late.finish)})

(* Placement moves the activity to where its calendar works: its start when *)
(* it is work yet to begin, its coordinate when it is a snapped milestone.  *)
Snapped(net, rule, u) ==
    /\ rule.snap /\ Remaining(net.act[u]) = 0
    /\ ~(StateOf(net.act[u]) = "not_started" /\ net.act[u].constraint \in {"MSO", "MFO"})
CalendarPlaced(net, rule, u) ==
    /\ StateOf(net.act[u]) = "not_started" /\ net.act[u].constraint \notin {"MSO", "MFO"}
    /\ Remaining(net.act[u]) > 0 \/ Snapped(net, rule, u)

(* The latest an activity may start and finish within the horizon.          *)
MovementLimits(net, rule, early, u) ==
    LET a == net.act[u]
        at == IF Snapped(net, rule, u) THEN PrevWorkingStart(a.calendar, net.horizon)
              ELSE net.horizon
        Movable(span) ==
            IF span # None /\ StateOf(a) = "in_progress" THEN <<early[u].start, span[2]>> ELSE span
    IN  IF Remaining(a) = 0 THEN Movable(IF at = None THEN None ELSE <<at, at>>)
        ELSE Movable(LatestSpan(a.calendar, net.horizon, net.horizon, Remaining(a),
                                CalendarFloor(a)))

(* The end of an activity that a relationship into it bounds.               *)
Available(e, row) == IF BoundsStart(e) THEN MovableStart(row) ELSE row.finish

(* The latest this activity's end of the edge may be with the successor     *)
(* where it is.                                                             *)
PermittedUnsnapped(net, rule, early, u, k) ==
    LET e == net.edges[k]
        limit == MovementLimits(net, rule, early, u)[IF AnchorsFinish(e) THEN 2 ELSE 1]
    IN  UnshiftLag(LagCalendar(net, e), Available(e, early[e.successor]), e.lag, limit)
Permitted(net, rule, early, u, k) ==
    LET placed == IF AnchorsFinish(net.edges[k]) THEN Snapped(net, rule, u)
                  ELSE CalendarPlaced(net, rule, u)
        Occupied(at) == IF at # None /\ placed THEN PrevWorkingStart(net.act[u].calendar, at)
                        ELSE at
    IN  Occupied(PermittedUnsnapped(net, rule, early, u, k))

(* Across a boundary the gap reported is the one to the inactive activity.  *)
FreeFloat(net, forward, backward, u) ==
    LET early == forward.times
        a == net.act[u]
        held == OutOf(net, u) \ backward.released
        Slack(k) == IF k \in Boundary(net) THEN 0
                    ELSE FloatBetween(a, EarlyAnchor(net.edges[k], early[u]),
                                      Permitted(net, forward.rule, early, u, k))
    IN  IF StateOf(net.act[u]) = "complete" THEN 0
        ELSE IF held = {} THEN FloatBetween(a, early[u].finish, backward.late_finish)
        ELSE Min({Slack(k) : k \in held})

(* What float_analysis refuses: a limit or an inverse that does not exist.  *)
FloatFails(net, forward, backward) ==
    \E u \in DOMAIN net.act :
        /\ StateOf(net.act[u]) # "complete"
        /\ \/ MovementLimits(net, forward.rule, forward.times, u) = None
           \/ \E k \in OutOf(net, u) \ (backward.released \union Boundary(net)) :
                 Permitted(net, forward.rule, forward.times, u, k) = None
=============================================================================
