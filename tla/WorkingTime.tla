---------------------------- MODULE WorkingTime ----------------------------
(***************************************************************************)
(* Working-time arithmetic (core/calendar/arithmetic.py).  A calendar is   *)
(* compiled into sorted working intervals [start, finish) with the work    *)
(* done before each; every question is then a binary search.  A start lies *)
(* in [start, finish) of an interval, a finish in (start, finish].         *)
(***************************************************************************)
EXTENDS Integers, Sequences, SequencesExt

CONSTANT None   \* Python's None: there is no such coordinate, or span

ASSUME NoneAssumption == None \notin Int /\ None \notin Int \X Int

----------------------------------------------------------------------------
(* Compiled intervals.                                                     *)

Starts(iv) == iv[1]
Finishes(iv) == iv[2]
Earlier(a, b) ==
    \/ Starts(a) < Starts(b)
    \/ Starts(a) = Starts(b) /\ Finishes(a) < Finishes(b)

Merge(merged, iv) ==
    IF merged # <<>> /\ Starts(iv) <= Finishes(Last(merged))
    THEN Append(Front(merged), <<Starts(Last(merged)), Max({Finishes(Last(merged)), Finishes(iv)})>>)
    ELSE Append(merged, iv)

Normalise(raw) ==
    FoldLeft(Merge, <<>>, SortSeq(SelectSeq(raw, LAMBDA iv : Starts(iv) < Finishes(iv)), Earlier))

WorkBefore(ivs) ==
    LET before[i \in DOMAIN ivs] ==
            IF i = 1 THEN 0 ELSE before[i - 1] + Finishes(ivs[i - 1]) - Starts(ivs[i - 1])
    IN before

CompiledIntervals(raw) ==
    LET clean == Normalise(raw) IN
    [starts |-> [i \in DOMAIN clean |-> Starts(clean[i])],
     finishes |-> [i \in DOMAIN clean |-> Finishes(clean[i])],
     before |-> WorkBefore(clean)]

Intervals(cal) == [i \in DOMAIN cal.starts |-> <<cal.starts[i], cal.finishes[i]>>]

(* The indices bisect_left and bisect_right leave behind them, from 1.      *)
AtOrBefore(seq, x) == Cardinality({i \in DOMAIN seq : seq[i] <= x})
Before(seq, x) == Cardinality({i \in DOMAIN seq : seq[i] < x})

TotalWork(cal) ==
    LET n == Len(cal.starts) IN
    IF n = 0 THEN 0 ELSE cal.before[n] + cal.finishes[n] - cal.starts[n]

(* The interval that contains t, or 0.                                      *)
IndexAt(cal, t) ==
    LET i == AtOrBefore(cal.starts, t) IN
    IF i > 0 /\ t < cal.finishes[i] THEN i ELSE 0

WorkUntil(cal, t) ==
    LET i == AtOrBefore(cal.starts, t) IN
    IF i = 0 THEN 0 ELSE cal.before[i] + Min({t, cal.finishes[i]}) - cal.starts[i]

(* Compiled intervals are sorted, apart and not empty, and the prefix sums  *)
(* are the work before each.                                                *)
Indexed(cal) ==
    LET n == Len(cal.starts) IN
    /\ cal \in [starts : Seq(Int), finishes : Seq(Int), before : Seq(Int)]
    /\ Len(cal.finishes) = n /\ Len(cal.before) = n
    /\ \A i \in 1..n : cal.starts[i] < cal.finishes[i]
    /\ \A i, j \in 1..n : i < j => cal.finishes[i] < cal.starts[j]
    /\ n > 0 => cal.before[1] = 0
    /\ \A i \in 2..n :
          cal.before[i] = cal.before[i - 1] + cal.finishes[i - 1] - cal.starts[i - 1]
    /\ \A i, j \in 1..n : i < j => cal.before[i] < cal.before[j]

(* Work can start at t; work can finish at t.                               *)
WorkingAt(cal, t) == \E i \in DOMAIN cal.starts : cal.starts[i] <= t /\ t < cal.finishes[i]
FinishingAt(cal, t) == \E i \in DOMAIN cal.starts : cal.starts[i] < t /\ t <= cal.finishes[i]

----------------------------------------------------------------------------
(* Moving over working time.                                               *)

NextWorking(cal, t) ==
    LET j == AtOrBefore(cal.starts, t) + 1 IN
    IF IndexAt(cal, t) # 0 THEN t
    ELSE IF j \in DOMAIN cal.starts THEN cal.starts[j] ELSE None

(* The last coordinate at which work can finish: the scan skips the interval *)
(* whose start edge t is.                                                   *)
PrevWorking(cal, t) ==
    LET i == Before(cal.starts, t) IN
    IF i = 0 THEN None ELSE Min({t, cal.finishes[i]})

(* The last coordinate at which work can start.                             *)
PrevWorkingStart(cal, t) ==
    LET i == AtOrBefore(cal.starts, t) IN
    IF IndexAt(cal, t) # 0 THEN t
    ELSE IF i = 0 THEN None ELSE cal.finishes[i] - 1

AddWorkingToNextStart(cal, t, d) ==
    LET origin == NextWorking(cal, t)
        target == WorkUntil(cal, origin) + d
        i == AtOrBefore(cal.before, target)
    IN  IF d = 0 THEN t
        ELSE IF origin = None \/ target > TotalWork(cal) THEN None
        ELSE cal.starts[i] + target - cal.before[i]
AddWorking(cal, t, d) ==
    LET origin == NextWorking(cal, t)
        target == WorkUntil(cal, origin) + d
        i == Before(cal.before, target)
    IN  IF d = 0 THEN t
        ELSE IF origin = None \/ target > TotalWork(cal) THEN None
        ELSE cal.starts[i] + target - cal.before[i]

SubWorking(cal, t, d) ==
    LET origin == PrevWorking(cal, t)
        target == WorkUntil(cal, origin) - d
        i == AtOrBefore(cal.before, target)
    IN  IF d = 0 THEN t
        ELSE IF origin = None \/ target < 0 THEN None
        ELSE cal.starts[i] + target - cal.before[i]

WorkingBetween(cal, s, f) == IF f <= s THEN 0 ELSE WorkUntil(cal, f) - WorkUntil(cal, s)

----------------------------------------------------------------------------
(* Placing a span.                                                         *)

Within(span, horizon) == IF span # None /\ span[2] <= horizon THEN span ELSE None
NotBefore(span, floor) == IF span # None /\ span[1] >= floor THEN span ELSE None
SpanFrom(cal, s, d) ==
    IF s = None \/ AddWorking(cal, s, d) = None THEN None ELSE <<s, AddWorking(cal, s, d)>>

(* The smallest coordinate at or after bound at which work can finish.      *)
FirstFinish(cal, bound) ==
    LET i == AtOrBefore(cal.starts, bound)
        j == Before(cal.starts, bound) + 1
    IN  IF i > 0 /\ cal.starts[i] < bound /\ bound <= cal.finishes[i] THEN bound
        ELSE IF j \in DOMAIN cal.starts THEN cal.starts[j] + 1 ELSE None

EarliestSpan(cal, startBound, finishBound, d, horizon) ==
    LET lower == Max({0, startBound})
        moment == NextWorking(cal, Max({lower, finishBound}))
        first == SpanFrom(cal, NextWorking(cal, lower), d)
        reach == FirstFinish(cal, finishBound)
        start == SubWorking(cal, reach, d)
    IN  IF d = 0 THEN Within(IF moment = None THEN None ELSE <<moment, moment>>, horizon)
        ELSE IF first = None THEN None
        ELSE IF first[2] >= finishBound THEN Within(first, horizon)
        ELSE IF reach = None \/ start = None \/ start < lower THEN None
        ELSE Within(SpanFrom(cal, NextWorking(cal, start), d), horizon)

LatestSpan(cal, startBound, finishBound, d, floor) ==
    LET moment == PrevWorkingStart(cal, Min({startBound, finishBound}))
        finish == PrevWorking(cal, finishBound)
        start == SubWorking(cal, finish, d)
    IN  IF d = 0 THEN NotBefore(IF moment = None THEN None ELSE <<moment, moment>>, floor)
        ELSE IF finish = None \/ start = None THEN None
        ELSE IF start <= startBound THEN NotBefore(<<start, finish>>, floor)
        ELSE NotBefore(SpanFrom(cal, PrevWorkingStart(cal, startBound), d), floor)

----------------------------------------------------------------------------
(* Lags (core/engine/network.py).                                          *)

ShiftLag(cal, anchor, lag) ==
    IF lag >= 0 THEN AddWorking(cal, anchor, lag) ELSE SubWorking(cal, anchor, -lag)

(* The greatest coordinate, up to a ceiling, whose lag lands at or before   *)
(* the anchor.  A lead is walked from the greatest landing there can be.    *)
UpTo(at, limit) == at # None /\ at <= limit
Opened(cal, at) ==
    IF at = None \/ NextWorking(cal, at) = None THEN at ELSE NextWorking(cal, at)
UnshiftLag(cal, anchor, lag, ceiling) ==
    LET Lands(c) == UpTo(ShiftLag(cal, c, lag), anchor)
        landing == PrevWorkingStart(cal, anchor)
        Answer(c, answers) == IF answers THEN c ELSE None
        Back(c) == Answer(c, UpTo(c, ceiling))
        Lead(c) == Answer(c, UpTo(c, ceiling) /\ Lands(c))
    IN  IF Lands(ceiling) THEN ceiling
        ELSE IF lag = 0 THEN anchor
        ELSE IF lag > 0 THEN Back(SubWorking(cal, anchor, lag))
        ELSE IF -lag > TotalWork(cal) \/ landing = None THEN None
        ELSE Lead(Opened(cal, AddWorking(cal, landing, -lag)))

----------------------------------------------------------------------------
(* The reference the code keeps beside it, walking interval by interval.    *)

IntersectByStart(left, right) ==
    LET from[i \in 1..(Len(left) + 1), j \in 1..(Len(right) + 1)] ==
            IF i > Len(left) \/ j > Len(right) THEN <<>>
            ELSE LET s == Max({Starts(left[i]), Starts(right[j])})
                     f == Min({Finishes(left[i]), Finishes(right[j])})
                 IN  (IF s < f THEN << <<s, f>> >> ELSE <<>>)
                     \o IF Starts(left[i]) <= Starts(right[j])
                        THEN from[i + 1, j] ELSE from[i, j + 1]
    IN  from[1, 1]
(* Two cursors over both calendars; the one whose interval ends first moves. *)
Intersect(left, right) ==
    LET from[i \in 1..(Len(left) + 1), j \in 1..(Len(right) + 1)] ==
            IF i > Len(left) \/ j > Len(right) THEN <<>>
            ELSE LET s == Max({Starts(left[i]), Starts(right[j])})
                     f == Min({Finishes(left[i]), Finishes(right[j])})
                 IN  (IF s < f THEN << <<s, f>> >> ELSE <<>>)
                     \o IF Finishes(left[i]) <= Finishes(right[j])
                        THEN from[i + 1, j] ELSE from[i, j + 1]
    IN  from[1, 1]

(* A walk is <<cursor, remaining, answer>>; an answer ends it.              *)
StepForward(walk, iv) ==
    LET at == Max({walk[1], Starts(iv)})
        available == Finishes(iv) - at
    IN  IF walk[3] # None \/ Finishes(iv) <= walk[1] THEN walk
        ELSE IF walk[2] <= available THEN <<at, 0, at + walk[2]>>
        ELSE <<Finishes(iv), walk[2] - available, None>>
StepBackward(walk, iv) ==
    LET at == Min({walk[1], Finishes(iv)})
        available == at - Starts(iv)
    IN  IF walk[3] # None \/ Starts(iv) >= walk[1] THEN walk
        ELSE IF walk[2] <= available THEN <<at, 0, at - walk[2]>>
        ELSE <<Starts(iv), walk[2] - available, None>>

ShiftWorkingTime(anchor, lag, ivs) ==
    IF lag = 0 THEN anchor
    ELSE IF lag > 0 THEN FoldLeft(StepForward, <<anchor, lag, None>>, ivs)[3]
    ELSE FoldLeft(StepBackward, <<anchor, -lag, None>>, Reverse(ivs))[3]
=============================================================================
