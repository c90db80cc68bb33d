--------------------------- MODULE ResultValidator ---------------------------
(***************************************************************************)
(* The independent check on a finished result (core/engine/validate.py):   *)
(* it reads dates and counts the work between them, and never places       *)
(* anything.  Each operator is the set of violations it reports.           *)
(***************************************************************************)
EXTENDS Passes

Reports(condition, code) == IF condition THEN {code} ELSE {}

(* A coordinate moved by an amount of working time, forwards or back.       *)
Slipped(cal, at, n) == IF n >= 0 THEN AddWorking(cal, at, n) ELSE SubWorking(cal, at, -n)

SlippedBy(a, at, n) == IF a.elapsed_float THEN at + n ELSE Slipped(a.measure, at, n)

(* An edge asks for its lag of work between the ends; work is blind to the  *)
(* order of two ends in one gap, so no lag compares the coordinates.        *)
EdgeHolds(net, e, anchor, bound) ==
    /\ SignedWorking(LagCalendar(net, e), anchor, bound) >= e.lag
    /\ e.lag = 0 => bound >= anchor

----------------------------------------------------------------------------
(* What a row claims about its own activity.                               *)

(* What one assignment of an envelope works from a start, if it has one.    *)
SpanOf(p, start) ==
    LET finish == IF start = None THEN None ELSE AddWorking(p.calendar, start, p.work)
    IN  IF finish = None THEN None
        ELSE IF WorkingBetween(p.calendar, start, finish) # p.work THEN None ELSE <<start, finish>>

SpanViolations(net, early, late, u) ==
    LET a == net.act[u]
        Envelope(row, spans) == a.envelope # {} /\ Enclosing(spans) # <<MovableStart(row), row.finish>>
        Worked(row) == WorkingBetween(a.calendar, MovableStart(row), row.finish)
        floor == Max({a.actual_start, IF net.status = None THEN a.actual_start ELSE net.status})
    IN  UNION {Reports(early.finish < early.start, "EARLY_SPAN_INVERTED"),
               Reports(late.finish < MovableStart(late), "LATE_SPAN_INVERTED"),
               Reports(StateOf(a) # "complete" /\ a.envelope = {} /\ Worked(early) # Remaining(a),
                       "EARLY_SPAN_WRONG_LENGTH"),
               Reports(StateOf(a) # "complete" /\ a.envelope = {} /\ Worked(late) # Remaining(a),
                       "LATE_SPAN_WRONG_LENGTH"),
               Reports(Envelope(early, {SpanOf(p, NextWorking(p.calendar, early.start)) :
                                           p \in a.envelope}), "EARLY_ASSIGNMENT_ENVELOPE_INVALID"),
               Reports(Envelope(late, {SpanOf(p, SubWorking(p.calendar, late.finish, p.work)) :
                                          p \in a.envelope}), "LATE_ASSIGNMENT_ENVELOPE_INVALID"),
               Reports(/\ StateOf(a) = "in_progress" /\ early.remaining_start # None
                       /\ early.remaining_start < floor,
                       "REMAINING_START_BEFORE_ITS_FLOOR")}

HistoryViolations(net, early, late, u) ==
    LET a == net.act[u]
        state == StateOf(a)
    IN  UNION {Reports(/\ state = "complete"
                       /\ \/ <<early.start, early.finish>> # <<a.actual_start, a.actual_finish>>
                          \/ <<late.start, late.finish>> # <<a.actual_start, a.actual_finish>>,
                       "COMPLETED_NOT_ITS_ACTUAL"),
               Reports(/\ state = "in_progress"
                       /\ early.start # a.actual_start \/ late.start # a.actual_start,
                       "STARTED_WORK_MOVED_OFF_ITS_ACTUAL"),
               Reports(state = "in_progress" /\ None \in {early.remaining_start, late.remaining_start},
                       "REMAINING_START_MISSING"),
               Reports(state # "in_progress" /\ late.remaining_start # None,
                       "LATE_REMAINING_START_UNEXPECTED"),
               Reports(/\ state = "not_started" /\ Into(net, u) = {} /\ a.coordinate = None
                       /\ early.start < net.start,
                       "EARLY_START_BEFORE_PROJECT_START")}

DriverViolations(net, early, late, u) ==
    UNION {Reports(early.driver # None /\ early.driver \notin Into(net, u),
                   "FORWARD_DRIVER_NOT_INCIDENT"),
           Reports(late.driver # None /\ late.driver \notin OutOf(net, u),
                   "BACKWARD_DRIVER_NOT_INCIDENT")}

(* Each dated constraint is asked of the pass that applies it.              *)
ConstraintViolations(net, early, late, u) ==
    LET a == net.act[u]
        Honoured == CASE a.constraint = "SNET" -> MovableStart(early) >= a.coordinate
                      [] a.constraint = "FNET" -> early.finish >= a.coordinate
                      [] a.constraint = "SNLT" -> late.start <= a.coordinate
                      [] a.constraint = "FNLT" -> late.finish <= a.coordinate
                      [] a.constraint = "MSO" -> MovableStart(early) = a.coordinate
                      [] a.constraint = "MFO" -> early.finish = a.coordinate
                      [] OTHER -> TRUE
    IN  Reports(/\ a.coordinate # None /\ StateOf(a) = "not_started" /\ ~Honoured,
                "CONSTRAINT_NOT_HONOURED")

RowViolations(net, forward, backward, u) ==
    LET early == forward.times[u]
        late == backward.times[u]
    IN  UNION {SpanViolations(net, early, late, u), HistoryViolations(net, early, late, u),
               DriverViolations(net, early, late, u), ConstraintViolations(net, early, late, u)}

----------------------------------------------------------------------------
(* Free float, by applying it: the activity can slip by exactly that much   *)
(* without moving a successor, and no further.                             *)

HoldsAfter(net, forward, held, u, slip) ==
    LET a == net.act[u]
        early == forward.times
        start == IF a.actual_start # None THEN early[u].start
                 ELSE SlippedBy(a, early[u].start, slip)
        finish == SlippedBy(a, early[u].finish, slip)
        anchors == [start |-> IF CalendarPlaced(net, forward.rule, u)
                              THEN NextWorking(a.calendar, start) ELSE start,
                    finish |-> IF Snapped(net, forward.rule, u)
                               THEN NextWorking(a.calendar, finish) ELSE finish]
        Breaks(e) ==
            LET anchor == EarlyAnchor(e, anchors) IN
            \/ a.actual_start # None /\ ~AnchorsFinish(e) /\ slip # 0
            \/ anchor = None
            \/ ~EdgeHolds(net, e, anchor, Available(e, early[e.successor]))
    IN  IF start = None \/ finish = None THEN "unanswerable"
        ELSE IF \E k \in held : Breaks(net.edges[k]) THEN "no" ELSE "yes"

FreeFloatViolations(net, forward, backward, u) ==
    LET a == net.act[u]
        held == OutOf(net, u) \ backward.released
        Answer(holds) == UNION {Reports(holds = "no", "FREE_FLOAT_TOO_LARGE"),
                                Reports(holds = "unanswerable", "FREE_FLOAT_UNANSWERABLE")}
        Check(reported) ==
            IF StateOf(a) = "complete" THEN Reports(reported # 0, "FREE_FLOAT_MISMATCH")
            ELSE IF held = {}
            THEN Reports(reported # FloatBetween(a, forward.times[u].finish,
                                                 backward.late_finish), "FREE_FLOAT_MISMATCH")
            ELSE IF held \intersect Boundary(net) # {}
            THEN Reports(reported # 0, "FREE_FLOAT_INACTIVE_BOUNDARY_MISMATCH")
            ELSE IF HoldsAfter(net, forward, held, u, reported + 1) = "yes"
            THEN {"FREE_FLOAT_TOO_SMALL"}
            ELSE Answer(HoldsAfter(net, forward, held, u, reported))
    IN  Check(FreeFloat(net, forward, backward, u))

----------------------------------------------------------------------------
(* Every edge that binds is honoured by the dates it connects, unless a     *)
(* hard date displaced its successor.                                      *)

EdgeViolations(net, forward) ==
    LET early == forward.times
        Kept(k) == /\ ~early[net.edges[k].successor].violated
                   /\ RelationshipBinds(net, forward.rule, net.edges[k])
        Honoured(e) == EdgeHolds(net, e, EarlyAnchor(e, early[e.predecessor]),
                                 Available(e, early[e.successor]))
    IN  Reports(\E k \in DOMAIN net.edges : Kept(k) /\ ~Honoured(net.edges[k]),
                "RELATIONSHIP_NOT_HONOURED")

ValidateResult(net, forward, backward) ==
    IF forward.network # net \/ backward.network # net THEN {"NETWORK_MISMATCH"}
    ELSE UNION ({EdgeViolations(net, forward),
                 Reports(forward.finish # ProjectFinish(net, forward.times),
                         "PROJECT_FINISH_MISMATCH")}
                \union {RowViolations(net, forward, backward, u) : u \in DOMAIN net.act}
                \union {FreeFloatViolations(net, forward, backward, u) : u \in DOMAIN net.act})
=============================================================================
