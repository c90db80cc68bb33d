-------------------------- MODULE CalendarCompile --------------------------
(***************************************************************************)
(* Compiling working calendars (core/calendar/compile.py) and asking the   *)
(* compiled ones (core/calendar/arithmetic.py).  A calendar inherits its   *)
(* base's week and exception days, overrides weekdays, then days by its    *)
(* own exceptions; the dates of a horizon become intervals counted from an *)
(* epoch.  One calendar that cannot be compiled refuses them all.          *)
(***************************************************************************)
EXTENDS WorkingTime

CONSTANTS
    Calendars,      \* the schedule's calendars
    NoCalendar,     \* base of a top-level calendar
    Day,            \* seconds in a day
    Week,           \* days in a week
    Definitions,    \* the sets of calendar definitions to compile
    Windows,        \* horizons with their epoch
    Moments,        \* coordinates callers ask about
    Durations,
    Limits          \* horizons and floors of spans

ASSUME CalendarsAssumption == NoCalendar \notin Calendars
ASSUME DayAssumption == {Day, Week} \subseteq Nat \ {0}
ASSUME QuestionsAssumption == Moments \union Limits \subseteq Int /\ Durations \subseteq Nat

VARIABLES
    definitions,    \* the calendars being compiled
    window,         \* the horizon and epoch they are compiled for
    compiled,       \* those that are
    refused,        \* the code of the first that cannot be
    calendar,       \* the compiled calendar a pass is working with
    query           \* what the pass asked it last, with the answer

vars == <<definitions, window, compiled, refused, calendar, query>>

----------------------------------------------------------------------------
(* One calendar's own rows.                                                *)

(* A finish of 0 is the coming midnight; overlaps are refused, not merged.  *)
DayIntervals(raw) ==
    [i \in DOMAIN raw |-> <<raw[i][1], IF raw[i][2] = 0 THEN Day ELSE raw[i][2]>>]
Valid(raw) ==
    LET ivs == DayIntervals(raw) IN
    /\ \A i \in DOMAIN ivs : 0 <= ivs[i][1] /\ ivs[i][1] < ivs[i][2] /\ ivs[i][2] <= Day
    /\ \A i, j \in DOMAIN ivs : i # j => ivs[i][2] <= ivs[j][1] \/ ivs[j][2] <= ivs[i][1]

FirstError(codes) ==
    LET bad == {k \in DOMAIN codes : codes[k] # None} IN
    IF bad = {} THEN None ELSE codes[Min(bad)]

Code(holds, code) == IF holds THEN code ELSE None

WeekdayError(rows, k) == FirstError(<<
    Code(rows[k].day \notin 1..Week, "CALENDAR_WEEKDAY_INVALID"),
    Code(\E j \in 1..(k - 1) : rows[j].day = rows[k].day, "CALENDAR_DUPLICATE_WEEKDAY"),
    Code(rows[k].working /\ ~Valid(rows[k].intervals), "CALENDAR_INTERVAL_INVALID"),
    Code(rows[k].working /\ rows[k].intervals = <<>>, "CALENDAR_WORKING_DAY_EMPTY"),
    Code(~rows[k].working /\ rows[k].intervals # <<>>,
         "CALENDAR_NONWORKING_DAY_HAS_INTERVALS")>>)

(* A count of 0 is a recurrence entered by its range.                       *)
ExceptionDaysShort(e) ==
    {d \in e.first..(e.last - 1) : (d - e.first) % e.period = 0}
ExceptionDays(e) ==
    IF e.count # 0 THEN {e.first + k * e.period : k \in 0..(e.count - 1)}
    ELSE {d \in e.first..e.last : (d - e.first) % e.period = 0}

ExceptionError(e) == FirstError(<<
    Code(e.working /\ ~Valid(e.intervals), "CALENDAR_INTERVAL_INVALID"),
    Code(e.working /\ e.intervals = <<>>, "CALENDAR_WORKING_EXCEPTION_EMPTY"),
    Code(~e.daily, "CALENDAR_EXCEPTION_RECURRENCE_UNSUPPORTED"),
    Code(e.last < e.first \/ e.period < 1, "CALENDAR_EXCEPTION_RANGE_INVALID"),
    Code(e.first + (e.count - 1) * e.period > e.last, "CALENDAR_EXCEPTION_RANGE_INVALID")>>)

WorkOf(row) == IF row.working THEN Normalise(DayIntervals(row.intervals)) ELSE <<>>

----------------------------------------------------------------------------
(* Inheritance.                                                            *)

(* The calendar, its base, the base of that, ...                            *)
Ancestor(u) ==
    LET up[n \in 0..Cardinality(Calendars)] ==
            IF n = 0 THEN u
            ELSE IF up[n - 1] \in Calendars THEN definitions[up[n - 1]].base ELSE up[n - 1]
    IN  up
TopOf(u) == Ancestor(u)[Cardinality(Calendars)]
Lineage(u) ==
    LET n == Cardinality(Calendars) IN
    SelectSeq([k \in 1..(n + 1) |-> Ancestor(u)[n + 1 - k]], LAMBDA v : v \in Calendars)

FirstDay == window.start \div Day
LastDay == (window.finish - 1) \div Day

WithException(days, e) ==
    LET own == ExceptionDays(e) \intersect (FirstDay..LastDay) IN
    [d \in DOMAIN days \union own |-> IF d \in own THEN WorkOf(e) ELSE days[d]]

Broken(code) == [error |-> code, week |-> <<>>, days |-> <<>>]

(* A calendar's own rows over the pattern it inherits.                      *)
Overlay(pattern, u) ==
    LET rows == definitions[u].week
        exceptions == definitions[u].exceptions
        rowError == FirstError([k \in DOMAIN rows |-> WeekdayError(rows, k)])
        own == {rows[k].day : k \in DOMAIN rows}
        week == [d \in DOMAIN pattern.week \union own |->
                    IF d \in own THEN WorkOf(rows[CHOOSE k \in DOMAIN rows : rows[k].day = d])
                    ELSE pattern.week[d]]
        exceptionError == FirstError([k \in DOMAIN exceptions |-> ExceptionError(exceptions[k])])
    IN  IF pattern.error # None THEN pattern
        ELSE IF rowError # None THEN Broken(rowError)
        ELSE IF DOMAIN week # 1..Week THEN Broken("CALENDAR_WEEK_INCOMPLETE")
        ELSE IF exceptionError # None THEN Broken(exceptionError)
        ELSE [error |-> None, week |-> week,
              days |-> FoldLeft(WithException, pattern.days, exceptions)]

Resolve(u) ==
    IF TopOf(u) \in Calendars THEN Broken("CALENDAR_INHERITANCE_CYCLE")
    ELSE IF TopOf(u) # NoCalendar THEN Broken("CALENDAR_NOT_FOUND")
    ELSE FoldLeft(Overlay, Broken(None), Lineage(u))

----------------------------------------------------------------------------
(* Compilation.                                                            *)

Weekday(day) == (day % Week) + 1

(* The work of one date, counted from the epoch and cut at the horizon.     *)
Placed(day, iv) ==
    LET midnight == day * Day - window.epoch IN
    <<Max({midnight + iv[1], window.start - window.epoch}),
      Min({midnight + iv[2], window.finish - window.epoch})>>
WorkOn(pattern, day) ==
    LET ivs == IF day \in DOMAIN pattern.days THEN pattern.days[day]
               ELSE pattern.week[Weekday(day)]
    IN  [i \in DOMAIN ivs |-> Placed(day, ivs[i])]
Compile(pattern) ==
    CompiledIntervals(FlattenSeq([k \in 1..(LastDay - FirstDay + 1) |->
                                    WorkOn(pattern, FirstDay + k - 1)]))

Compiling == refused = None /\ calendar = None

CompileCalendar(u) ==
    /\ Compiling /\ u \notin DOMAIN compiled
    /\ window.start < window.finish
    /\ Resolve(u).error = None
    /\ compiled' = [v \in DOMAIN compiled \union {u} |->
                        IF v = u THEN Compile(Resolve(u)) ELSE compiled[v]]
    /\ UNCHANGED <<definitions, window, refused, calendar, query>>

RefuseCalendar(u) ==
    /\ Compiling /\ u \notin DOMAIN compiled
    /\ \/ window.start >= window.finish /\ refused' = "CALENDAR_HORIZON_INVALID"
       \/ window.start < window.finish /\ Resolve(u).error # None
             /\ refused' = Resolve(u).error
    /\ UNCHANGED <<definitions, window, compiled, calendar, query>>

----------------------------------------------------------------------------
(* Use: a pass holds the compiled intervals and nothing they came from.     *)

Use(cal) ==
    /\ Compiling /\ DOMAIN compiled = Calendars
    /\ calendar' = cal
    /\ definitions' = None /\ window' = None /\ compiled' = <<>>
    /\ UNCHANGED <<refused, query>>

UseOwn(u) == Use(compiled[u])
(* An activity's own calendar with its resource's, and the calendars of     *)
(* several resources united.                                                *)
Common(u, v) == CompiledIntervals(Intersect(Intervals(compiled[u]), Intervals(compiled[v])))
United(u, v) == CompiledIntervals(Intervals(compiled[u]) \o Intervals(compiled[v]))
UseBoth(u, v) == u # v /\ Use(Common(u, v))
UseEither(u, v) == u # v /\ Use(United(u, v))

Ask(op, args, answer) ==
    /\ calendar # None /\ query = None
    /\ query' = [op |-> op, args |-> args, answer |-> answer]
    /\ UNCHANGED <<definitions, window, compiled, refused, calendar>>

AskNext(t) == Ask("next", <<t>>, NextWorking(calendar, t))
AskPrev(t) == Ask("prev", <<t>>, PrevWorking(calendar, t))
AskPrevStart(t) == Ask("prevStart", <<t>>, PrevWorkingStart(calendar, t))
AskAdd(t, d) == Ask("add", <<t, d>>, AddWorking(calendar, t, d))
AskSub(t, d) == Ask("sub", <<t, d>>, SubWorking(calendar, t, d))
AskBetween(s, f) == Ask("between", <<s, f>>, WorkingBetween(calendar, s, f))
AskEarliest(s, f, d, h) == Ask("earliest", <<s, f, d, h>>, EarliestSpan(calendar, s, f, d, h))
AskLatest(s, f, d, h) == Ask("latest", <<s, f, d, h>>, LatestSpan(calendar, s, f, d, h))

Return ==
    /\ query # None /\ query' = None
    /\ UNCHANGED <<definitions, window, compiled, refused, calendar>>

----------------------------------------------------------------------------
Init ==
    /\ definitions \in Definitions
    /\ window \in Windows
    /\ compiled = <<>>
    /\ refused = None /\ calendar = None /\ query = None

Next ==
    \/ \E u \in Calendars : CompileCalendar(u) \/ RefuseCalendar(u) \/ UseOwn(u)
    \/ \E u, v \in Calendars : UseBoth(u, v) \/ UseEither(u, v)
    \/ \E t \in Moments : AskNext(t) \/ AskPrev(t) \/ AskPrevStart(t)
    \/ \E t \in Moments, d \in Durations : AskAdd(t, d) \/ AskSub(t, d)
    \/ \E s, f \in Moments : AskBetween(s, f)
    \/ \E s, f \in Moments, d \in Durations, h \in Limits :
          AskEarliest(s, f, d, h) \/ AskLatest(s, f, d, h)
    \/ Return

Spec == Init /\ [][Next]_vars

----------------------------------------------------------------------------
(* Properties.                                                             *)

(* CompiledIntervals.of promises what every binary search relies on.        *)
TypeOK ==
    /\ \A u \in DOMAIN compiled : Indexed(compiled[u])
    /\ calendar # None => Indexed(calendar)

(* An exception covers every period-th day of its range, at most count of   *)
(* them.                                                                    *)
Covers(e, day) ==
    LET since == day - e.first IN
    /\ 0 <= since /\ day <= e.last /\ since % e.period = 0
    /\ e.count # 0 => since \div e.period < e.count

(* What the module's rules say of a date: the nearest calendar of the       *)
(* lineage with an exception on it decides, by its last one; if there is    *)
(* none, the nearest calendar that defines the weekday.                     *)
Deciding(u, day) ==
    LET line == Lineage(u)
        Excepting(v) == {k \in DOMAIN definitions[v].exceptions :
                            Covers(definitions[v].exceptions[k], day)}
        Defining(v) == {k \in DOMAIN definitions[v].week :
                            definitions[v].week[k].day = Weekday(day)}
        E == {i \in DOMAIN line : Excepting(line[i]) # {}}
        W == {i \in DOMAIN line : Defining(line[i]) # {}}
    IN  IF E # {} THEN definitions[line[Max(E)]].exceptions[Max(Excepting(line[Max(E)]))]
        ELSE definitions[line[Max(W)]].week[Max(Defining(line[Max(W)]))]

WorksByRule(u, second) ==
    LET row == Deciding(u, second \div Day) IN
    row.working /\ \E i \in DOMAIN row.intervals :
        /\ row.intervals[i][1] <= second % Day
        /\ second % Day < DayIntervals(row.intervals)[i][2]

(* A compiled calendar works exactly at the seconds of the horizon at which *)
(* the rules of the module say it does, whatever the epoch and the horizon  *)
(* cut: no date shifts, no inherited exception is lost or leaks.            *)
CompiledIsTheRule ==
    \A u \in DOMAIN compiled :
        \A second \in (window.start - Day)..(window.finish + Day) :
            WorkingAt(compiled[u], second - window.epoch)
                <=> /\ window.start <= second /\ second < window.finish
                    /\ WorksByRule(u, second)

(* The scheduling calendar of an activity works when its own calendar and   *)
(* its resource's both do, and united resources when one of them does.      *)
CombinedWorkTogether ==
    \A u, v \in DOMAIN compiled :
        /\ Indexed(Common(u, v)) /\ Indexed(United(u, v))
        /\ \A t \in (window.start - window.epoch)..(window.finish - window.epoch) :
              /\ WorkingAt(Common(u, v), t)
                    <=> WorkingAt(compiled[u], t) /\ WorkingAt(compiled[v], t)
              /\ WorkingAt(United(u, v), t)
                    <=> WorkingAt(compiled[u], t) \/ WorkingAt(compiled[v], t)

Seconds == UNION {calendar.starts[i]..(calendar.finishes[i] - 1) : i \in DOMAIN calendar.starts}
FinishSeconds == {t + 1 : t \in Seconds}
Work(s, f) == Cardinality({t \in Seconds : s <= t /\ t < f})
Least(S) == IF S = {} THEN None ELSE Min(S)
Greatest(S) == IF S = {} THEN None ELSE Max(S)

MoveByScan(op, a) ==
    CASE op = "next" -> Least({t \in Seconds : a[1] <= t})
      [] op = "prev" -> Greatest({t \in FinishSeconds : t <= a[1]})
      [] op = "prevStart" -> Greatest({t \in Seconds : t <= a[1]})
      [] op = "between" -> Work(a[1], a[2])
      [] op = "add" -> IF a[2] = 0 THEN a[1]
                       ELSE Least({t \in FinishSeconds : a[1] < t /\ Work(a[1], t) = a[2]})
      [] op = "sub" -> IF a[2] = 0 THEN a[1]
                       ELSE Greatest({t \in Seconds : t < a[1] /\ Work(t, a[1]) = a[2]})

(* Every binary search answers what a scan of every second answers, at and  *)
(* between the edges of the intervals and beyond both ends.                 *)
MovesAreExhaustive ==
    query # None /\ query.op \notin {"earliest", "latest"}
        => query.answer = MoveByScan(query.op, query.args)

(* "Agrees with shift_working_time on every input."                         *)
MovesAgreeWithReference ==
    query # None =>
        /\ query.op = "add" => query.answer =
              ShiftWorkingTime(query.args[1], query.args[2], Intervals(calendar))
        /\ query.op = "sub" => query.answer =
              ShiftWorkingTime(query.args[1], -query.args[2], Intervals(calendar))

Spans(d) ==
    IF d = 0 THEN {<<t, t>> : t \in Seconds}
    ELSE {<<s, f>> \in Seconds \X FinishSeconds : s < f /\ Work(s, f) = d}
Sooner(a, b) == a[1] < b[1] \/ (a[1] = b[1] /\ a[2] <= b[2])
SpansFor(a) ==
    IF query.op = "earliest"
    THEN {x \in Spans(a[3]) : x[1] >= 0 /\ x[1] >= a[1] /\ x[2] >= a[2] /\ x[2] <= a[4]}
    ELSE {x \in Spans(a[3]) : x[1] <= a[1] /\ x[2] <= a[2] /\ x[1] >= a[4]}

(* The passes' placement is the earliest span from both bounds within the   *)
(* horizon, and its mirror the latest above the floor: found exactly when   *)
(* one exists, and then the first, or the last, of them.                    *)
SpansAreExhaustive ==
    query # None /\ query.op \in {"earliest", "latest"} =>
        LET fit == SpansFor(query.args) IN
        IF fit = {} THEN query.answer = None
        ELSE /\ query.answer \in fit
             /\ \A x \in fit : IF query.op = "earliest" THEN Sooner(query.answer, x)
                               ELSE Sooner(x, query.answer)

(* On calendars that are what the arithmetic takes them for, every question  *)
(* of a pass is answered as a scan of all seconds answers it,               *)
(* and moves as the interval walk kept as their reference does              *)
(* (arithmetic.py:53-56).                                                   *)
AnswersAreExhaustive ==
    TypeOK /\ MovesAreExhaustive /\ MovesAgreeWithReference /\ SpansAreExhaustive
=============================================================================
