---------------------------- MODULE MCCalendars ----------------------------
(* A small instance of CalendarCompile: a plant calendar and a crew one    *)
(* that inherits it, with days of three seconds and weeks of two days.      *)
EXTENDS CalendarCompile

CONSTANTS Plant, Crew, Unknown

Morning == << <<0, 2>> >>
ToMidnight == << <<1, 0>> >>
Split == << <<2, 3>>, <<0, 1>> >>
Touching == << <<1, 3>>, <<0, 1>> >>

WeekRow(d, work) == [day |-> d, working |-> work # <<>>, intervals |-> work]
Exception(first, last, period, count, work) ==
    [first |-> first, last |-> last, period |-> period, count |-> count,
     daily |-> TRUE, working |-> work # <<>>, intervals |-> work]

BaseWeeks == {<<WeekRow(1, a), WeekRow(2, b)>> : a \in {<<>>, ToMidnight, Split}, b \in {Morning, Touching}}
OwnWeeks == {<<>>} \union {<<WeekRow(d, a)>> : d \in {1, 2}, a \in {<<>>, Split, ToMidnight}}
BaseExceptions == {<<>>, <<Exception(0, 2, 2, 0, <<>>)>>, <<Exception(1, 2, 1, 2, Morning)>>}
OwnExceptions ==
    {<<>>, <<Exception(1, 1, 1, 0, Touching)>>,
     <<Exception(0, 2, 1, 0, <<>>), Exception(0, 2, 2, 2, Split)>>}

Pair(b, o) == [c \in Calendars |-> IF c = Plant THEN b ELSE o]
Defined(under, weeks, exceptions) ==
    {[base |-> under, week |-> w, exceptions |-> e] : w \in weeks, e \in exceptions}

Sound == {Pair(b, o) : b \in Defined(NoCalendar, BaseWeeks, BaseExceptions),
                       o \in Defined(Plant, OwnWeeks, OwnExceptions)}

(* Each with one thing wrong: cycles, gaps, overlaps, ranges that run over. *)
Whole == <<WeekRow(1, Morning), WeekRow(2, Split)>>
Crossing == << <<2, 1>> >>
Overlapping == << <<0, 2>>, <<1, 3>> >>
BadWeeks == {<<WeekRow(1, Morning)>>, <<WeekRow(3, Morning)>>, <<WeekRow(1, Morning), WeekRow(1, Split)>>,
             <<WeekRow(1, Crossing), WeekRow(2, Split)>>, <<WeekRow(1, Overlapping), WeekRow(2, Split)>>,
             <<[WeekRow(1, <<>>) EXCEPT !.working = TRUE], WeekRow(2, Split)>>,
             <<[WeekRow(1, Split) EXCEPT !.working = FALSE], WeekRow(2, Split)>>}
BadExceptions == {<<Exception(2, 1, 1, 0, <<>>)>>, <<Exception(0, 1, 1, 3, Morning)>>,
                  <<Exception(0, 1, 1, 0, Overlapping)>>, <<Exception(0, 1, 0, 0, <<>>)>>,
                  <<[Exception(0, 1, 1, 0, <<>>) EXCEPT !.daily = FALSE]>>,
                  <<[Exception(0, 1, 1, 0, <<>>) EXCEPT !.working = TRUE]>>}
Unsound ==
    {Pair(b, o) : b \in Defined(NoCalendar, BadWeeks, {<<>>}), o \in Defined(Plant, {<<>>}, {<<>>})}
    \union {Pair(b, o) : b \in Defined(NoCalendar, {Whole}, BadExceptions),
                         o \in Defined(NoCalendar, {Whole}, {<<>>})}
    \union {Pair(b, o) : b \in Defined(Crew, {Whole}, {<<>>}), o \in Defined(Plant, {Whole}, {<<>>})}
    \union {Pair(b, o) : b \in Defined(Unknown, {Whole}, {<<>>}), o \in Defined(NoCalendar, {Whole}, {<<>>})}

MCDefinitions == Sound \union Unsound
MCWindows == {[start |-> 0, finish |-> 6, epoch |-> 0], [start |-> 1, finish |-> 5, epoch |-> 0],
              [start |-> 4, finish |-> 8, epoch |-> 3], [start |-> 3, finish |-> 3, epoch |-> 3]}
MCMoments == -1..7
MCDurations == 0..4
MCLimits == {2, 4, 6}
=============================================================================
