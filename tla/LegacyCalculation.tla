------------------------- MODULE LegacyCalculation -------------------------
(* The bounded forward calculation of src/src/sto/legacy: which activities   *)
(* of a document it supports, the calendar each of them works by, and the    *)
(* dates of the supported subset. Time is counted in units of which a day    *)
(* has Day and a week of the calendars Week days; a weekly pattern is the    *)
(* set of the working units of the week.                                     *)
EXTENDS LegacyImport

CONSTANTS Day, Week,       \* units of a day, days of a week
          SearchDays       \* working days a working-time addition looks through
ASSUME CalculationAssumption == {Day, Week, SearchDays} \subseteq Nat \ {0}

----------------------------------------------------------------------------
(* The source horizon.                                                       *)

Activity(doc, id) == ItemOf(doc.activities, id).row
IsLead(doc, r) ==
    /\ r.type = "FS" /\ r.lag # None /\ r.lag < 0 /\ r.format = "elapsed"
    /\ {r.pred, r.succ} \subseteq Ids(doc.activities)
    /\ ~Activity(doc, r.succ).milestone

NoHorizon(doc) ==
    \/ doc.project.start = None \/ doc.project.finish = None
    \/ doc.project.finish < doc.project.start

Coordinates(doc) ==
    {doc.project.start, doc.project.finish}
    \union (UNION {{item.row.start, item.row.finish} \ {None} : item \in doc.activities})
    \union {Activity(doc, r.pred).finish + r.lag :
               r \in {s \in doc.relationships :
                         IsLead(doc, s) /\ Activity(doc, s.pred).finish # None}}

Horizon(doc) == [start |-> Min(Coordinates(doc)), finish |-> Max(Coordinates(doc))]

----------------------------------------------------------------------------
(* Calendars.                                                                *)

(* The units between two clock times: midnight to midnight is the whole day, *)
(* to midnight the rest of it; equal or backward times are refused (none).   *)
ClockUnits(time) ==
    IF time.from = 0 /\ time.to = 0 THEN 0..Day - 1
    ELSE IF time.to > time.from THEN time.from..time.to - 1
    ELSE IF time.to = 0 THEN time.from..Day - 1 ELSE {}

TimesRefused(times) ==
    \/ times = <<>>
    \/ \E i \in DOMAIN times : ClockUnits(times[i]) = {}
    \/ \E i, j \in DOMAIN times :
          i # j /\ ClockUnits(times[i]) \intersect ClockUnits(times[j]) # {}

Declared(source) == {source.days[i].type : i \in DOMAIN source.days}
DayRefused(day) ==
    \/ day.working = None
    \/ day.working = TRUE /\ TimesRefused(day.times)
    \/ day.working = FALSE /\ day.times # <<>>
DaysRefused(source) ==
    \/ Cardinality(Declared(source)) # Len(source.days)
    \/ \E day \in ToSet(source.days) : DayRefused(day)

WorkingUnits(source) ==
    UNION {{(day.type - 1) * Day + u : u \in UNION {ClockUnits(time) : time \in ToSet(day.times)}} :
              day \in ToSet(source.days)}
DayOf(u) == (u \div Day) + 1

(* A special day or an exception is refused unless it lies outside the       *)
(* horizon, where it is left out and counted.                                *)
Dated(source) == ToSet(source.specials) \union ToSet(source.exceptions)
RangeRefused(range, horizon) ==
    \/ range.from = None \/ range.to = None
    \/ range.to < range.from
    \/ range.to >= horizon.start /\ range.from <= horizon.finish

Bare == [pattern |-> {}, ignored |-> 0, lineage |-> {}]

Extended(source, base, horizon) ==
    IF \/ base = None
       \/ DaysRefused(source)
       \/ source.base = None /\ Declared(source) # 1..Week
       \/ \E range \in Dated(source) : RangeRefused(range, horizon)
    THEN None
    ELSE [pattern |-> WorkingUnits(source)
                      \union {u \in base.pattern : DayOf(u) \notin Declared(source)},
          ignored |-> base.ignored + Len(source.specials) + Len(source.exceptions),
          lineage |-> base.lineage \union {source.uid}]

(* The calendars that resolve, each from its base; a cycle never does.      *)
Resolved(doc) ==
    LET refs == Uids(doc.calendars)
        Source(ref) == CHOOSE c \in ToSet(doc.calendars) : c.uid = ref
        horizon == Horizon(doc)
        from[n \in 0..Cardinality(refs)] ==
            IF n = 0 THEN [ref \in refs |-> None]
            ELSE LET before == from[n - 1]
                 IN [ref \in refs |->
                        Extended(Source(ref),
                                 IF Source(ref).base = None THEN Bare
                                 ELSE IF Source(ref).base \in refs THEN before[Source(ref).base]
                                 ELSE None, horizon)]
    IN from[Cardinality(refs)]

Resolve(calendars, ref) == IF ref \in DOMAIN calendars THEN calendars[ref] ELSE None

IntersectPatterns(left, right) == left \intersect right

----------------------------------------------------------------------------
(* Working time.                                                             *)

IsWorking(pattern, t) == t % (Day * Week) \in pattern
NextWorkingTime(t, pattern) ==
    LET found == {u \in t..t + Day * (Week + 1) : IsWorking(pattern, u)}
    IN IF found = {} THEN None ELSE Min(found)

(* The end of that many working units from a working time; None when more    *)
(* than SearchDays working days would be needed.                             *)
AddWorking(start, units, pattern) ==
    LET working == {u \in start..start + SearchDays * Week * Day - 1 : IsWorking(pattern, u)}
        Upto(u) == {w \in working : w <= u}
        last == {u \in working : Cardinality(Upto(u)) = units}
        Days(u) == {w \div Day : w \in Upto(u)}
    IN IF units = 0 THEN start
       ELSE IF last = {} \/ \E u \in last : Cardinality(Days(u)) > SearchDays THEN None
       ELSE Min(last) + 1

----------------------------------------------------------------------------
(* Which activities are supported, each by itself.                          *)

RealAssignments(doc, id) ==
    SelectSeq(doc.assignments, LAMBDA a : a.task = id /\ a.resource # None)
Resource(doc, uid) == CHOOSE r \in ToSet(doc.resources) : r.uid = uid

(* The calendars of its resources that resolve, by the place of the          *)
(* assignment.                                                               *)
CalendarsOf(doc, calendars, id) ==
    LET Of(a) == Resolve(calendars, Resource(doc, a.resource).calendar)
        places == {i \in DOMAIN doc.assignments :
                      LET a == doc.assignments[i]
                      IN a.task = id /\ a.resource # None /\ Of(a) # None}
    IN [i \in places |-> Of(doc.assignments[i])]
FirstOf(resources) == resources[Min(DOMAIN resources)]
Patterns(resources) == {c.pattern : c \in ToSet(resources)}

TaskCalendar(doc, calendars, row) ==
    Resolve(calendars, IF row.calendar # None THEN row.calendar ELSE doc.project.calendar)

(* The calendar a supported activity works by: its own, met with that of its *)
(* resources unless it ignores theirs; without its own, that of its          *)
(* resources, and without these the project's.                               *)
EffectiveCalendar(row, task, resources) ==
    IF task = None \/ (Cardinality(Patterns(resources)) > 1
                       /\ ~(row.calendar # None /\ row.ignore = TRUE))
    THEN None
    ELSE IF DOMAIN resources = {} \/ (row.calendar # None /\ row.ignore = TRUE) THEN task
    ELSE IF row.calendar = None THEN FirstOf(resources)
    ELSE [pattern |-> IntersectPatterns(task.pattern, FirstOf(resources).pattern),
          ignored |-> task.ignored + FirstOf(resources).ignored,
          lineage |-> task.lineage \union FirstOf(resources).lineage]

Total(amounts) == FoldLeft(LAMBDA sum, amount : sum + amount, 0, amounts)
WorkConsistent(row, assignments) ==
    /\ \A a \in ToSet(assignments) : a.work # None /\ a.units # None /\ a.units > 0
    /\ Total([i \in DOMAIN assignments |-> assignments[i].work])
         = row.duration * Total([i \in DOMAIN assignments |-> assignments[i].units])

AssignmentReasons(doc, calendars, row, assignments) ==
    (UNION {a.facts : a \in ToSet(assignments)})
    \union {"RESOURCE_INACTIVE_UNSUPPORTED" :
               a \in {b \in ToSet(assignments) : Resource(doc, b.resource).inactive}}
    \union {"RESOURCE_CALENDAR_UNRESOLVED" :
               a \in {b \in ToSet(assignments) :
                         Resolve(calendars, Resource(doc, b.resource).calendar) = None}}
    \union (IF row.duration # None /\ row.duration > 0 /\ assignments # <<>>
               /\ ~WorkConsistent(row, assignments)
            THEN {"WORK_UNITS_INCONSISTENT"} ELSE {})

CalendarReasons(row, task, resources) ==
    (IF task = None THEN {"TASK_CALENDAR_UNRESOLVED"} ELSE {})
    \union (IF row.ignore = None THEN {"IGNORE_RESOURCE_CALENDAR_FLAG_UNRESOLVED"} ELSE {})
    \union (IF row.ignore # TRUE /\ Cardinality(Patterns(resources)) > 1
            THEN {"MULTIPLE_RESOURCE_CALENDARS_UNSUPPORTED"} ELSE {})
    \union (IF row.ignore = TRUE /\ row.calendar = None
            THEN {"IGNORE_RESOURCE_CALENDAR_WITHOUT_TASK_CALENDAR_UNSUPPORTED"} ELSE {})

(* The row's own dates and duration against the calendar; the classifier     *)
(* raises when there is nothing to measure them with.                        *)
Measured(row, effective) ==
    effective # None /\ row.duration # None /\ row.start # None /\ row.finish # None
FinishFrom(row, effective) ==
    IF row.duration = 0 THEN row.start
    ELSE AddWorking(NextWorkingTime(row.start, effective.pattern), row.duration, effective.pattern)
ClassifierRaises(row, effective) ==
    /\ Measured(row, effective) /\ row.duration # 0
    /\ row.duration < 0 \/ effective.pattern = {} \/ FinishFrom(row, effective) = None

SpanReasons(row, effective) ==
    (IF effective # None /\ effective.pattern = {}
     THEN {"EMPTY_EFFECTIVE_CALENDAR"} ELSE {})
    \union (IF Measured(row, effective) /\ ~ClassifierRaises(row, effective)
            THEN (IF row.duration # 0 /\ ~IsWorking(effective.pattern, row.start)
                  THEN {"SOURCE_START_OUTSIDE_WORKING_TIME"} ELSE {})
                 \union (IF FinishFrom(row, effective) # row.finish
                         THEN {"SOURCE_SPAN_MISMATCH"} ELSE {})
            ELSE {})

(* Conditions on one field of the row (its progress, deadline, constraint    *)
(* and the like) are given by the file as the reasons they are.              *)
FieldReasons(row) ==
    row.facts
    \union (IF row.duration = None THEN {"DURATION_MISSING"}
            ELSE IF row.duration < 0 THEN {"DURATION_NEGATIVE"} ELSE {})
    \union (IF row.duration # None /\ row.milestone # (row.duration = 0)
            THEN {"MILESTONE_DURATION_MISMATCH"} ELSE {})
    \union (IF row.start = None \/ row.finish = None
            THEN {"SOURCE_COORDINATE_MISSING"} ELSE {})

Local(doc, calendars, row) ==
    LET task == TaskCalendar(doc, calendars, row)
        resources == CalendarsOf(doc, calendars, row.uid)
        effective == EffectiveCalendar(row, task, resources)
    IN [effective |-> effective,
        raises |-> ClassifierRaises(row, effective),
        reasons |-> FieldReasons(row) \union CalendarReasons(row, task, resources)
                    \union AssignmentReasons(doc, calendars, row, RealAssignments(doc, row.uid))
                    \union SpanReasons(row, effective)]

----------------------------------------------------------------------------
(* The profile: which activities and relationships of the document the       *)
(* calculation takes.                                                        *)

BetweenActivities(doc, r) == {r.pred, r.succ} \subseteq Ids(doc.activities)

LagSupported(doc, r) ==
    \/ r.lag = 0
    \/ r.lag # None /\ r.lag < 0 /\ r.format = "elapsed" /\ ~Activity(doc, r.succ).milestone

(* Why a relationship keeps its successor out.                              *)
RelationshipReasons(doc, r) ==
    IF ~BetweenActivities(doc, r) THEN {"RELATIONSHIP_ENDPOINT_UNSUPPORTED"}
    ELSE r.faults
         \union (IF r.type # "FS" THEN {"RELATIONSHIP_TYPE_UNSUPPORTED"} ELSE {})
         \union (IF LagSupported(doc, r) THEN {} ELSE {"RELATIONSHIP_LAG_UNSUPPORTED"})

LocallyExcluded(doc, local) ==
    {id \in Ids(doc.activities) :
        \/ local[id].reasons # {}
        \/ \E r \in doc.relationships : r.succ = id /\ RelationshipReasons(doc, r) # {}}

ExcludedAlone(doc, excluded) == excluded
ExcludedWithSuccessors(doc, excluded) ==
    LET spread[n \in 0..Cardinality(doc.activities)] ==
            IF n = 0 THEN excluded
            ELSE LET before == spread[n - 1]
                 IN before \union {r.succ : r \in {s \in doc.relationships :
                                       BetweenActivities(doc, s) /\ s.pred \in before}}
    IN spread[Cardinality(doc.activities)]

(* None when the profile cannot be built.                                   *)
CalculationProfile(doc) ==
    IF doc.project.fromStart # TRUE \/ NoHorizon(doc) THEN None
    ELSE LET calendars == Resolved(doc)
             local == [id \in Ids(doc.activities) |-> Local(doc, calendars, Activity(doc, id))]
             eligible == Ids(doc.activities)
                           \ ExcludedWithSuccessors(doc, LocallyExcluded(doc, local))
         IN IF \E id \in DOMAIN local : local[id].raises THEN None
            ELSE [eligible |-> eligible,
                  relationships |-> {r \in doc.relationships :
                                        /\ {r.pred, r.succ} \subseteq eligible
                                        /\ RelationshipReasons(doc, r) = {}},
                  effective |-> [id \in eligible |-> local[id].effective]]

----------------------------------------------------------------------------
(* The projection and the forward calculation.                              *)

EngineProjection(doc, profile) ==
    [start |-> doc.project.start,
     activities |-> [id \in profile.eligible |->
                        [order |-> ItemOf(doc.activities, id).order,
                         duration |-> Activity(doc, id).duration,
                         milestone |-> Activity(doc, id).milestone,
                         pattern |-> profile.effective[id].pattern]],
     relationships |-> {[pred |-> r.pred, succ |-> r.succ, lag |-> r.lag] :
                           r \in profile.relationships}]

ValidProjection(projection) ==
    /\ \A id \in DOMAIN projection.activities :
          LET a == projection.activities[id]
          IN a.duration >= 0 /\ a.milestone = (a.duration = 0)
    /\ \A r \in projection.relationships :
          /\ {r.pred, r.succ} \subseteq DOMAIN projection.activities
          /\ r.lag <= 0
          /\ r.lag < 0 => ~projection.activities[r.succ].milestone

Following(projection, id) ==
    {r.succ : r \in {s \in projection.relationships : s.pred = id}}

(* The activities reachable from one by relationships.                      *)
Downstream(projection, id) ==
    LET reached[n \in 0..Cardinality(DOMAIN projection.activities)] ==
            IF n = 0 THEN Following(projection, id)
            ELSE LET before == reached[n - 1]
                 IN before \union UNION {Following(projection, x) : x \in before}
    IN reached[Cardinality(DOMAIN projection.activities)]

(* The dates of an activity from those of its predecessors, None when the    *)
(* calculation raises.                                                       *)
Released(dates, lag) == IF dates = None THEN None ELSE dates.finish + lag
Span(a, start) ==
    LET finish == IF start = None THEN None ELSE AddWorking(start, a.duration, a.pattern)
    IN IF finish = None THEN None ELSE [start |-> start, finish |-> finish]

Dates(projection, dated, id) ==
    LET a == projection.activities[id]
        released == {Released(dated[r.pred], r.lag) :
                        r \in {s \in projection.relationships : s.succ = id}}
        candidate == Max(released \union IF released = {} THEN {projection.start} ELSE {})
    IN IF None \in released THEN None
       ELSE Span(a, IF a.milestone THEN candidate ELSE NextWorkingTime(candidate, a.pattern))

(* Activities are taken once all of their predecessors are; on a cycle, or   *)
(* behind one, they never are.                                              *)
Ready(projection, dated) ==
    {id \in DOMAIN projection.activities :
        \A r \in projection.relationships : r.succ = id => r.pred \in DOMAIN dated}

ForwardSchedule(projection) ==
    LET rounds == Cardinality(DOMAIN projection.activities)
        after[n \in 0..rounds] ==
            IF n = 0 THEN [id \in {} |-> None]
            ELSE LET dated == after[n - 1]
                 IN [id \in Ready(projection, dated) |->
                        IF id \in DOMAIN dated THEN dated[id] ELSE Dates(projection, dated, id)]
        calculated == after[rounds]
    IN IF \/ ~ValidProjection(projection)
          \/ DOMAIN calculated # DOMAIN projection.activities
          \/ \E id \in DOMAIN calculated : calculated[id] = None
       THEN None ELSE calculated
=============================================================================
