----------------------------- MODULE MCExecution -----------------------------
(* Small instances of Execution: a chain under every relationship and lag,  *)
(* constraints, milestones with two successors, beside independent work.    *)
EXTENDS Execution

CONSTANTS A, B, C, M

Shift == CompiledIntervals(<< <<0, 3>>, <<6, 9>>, <<10, 15>> >>)
Around == CompiledIntervals(<< <<0, 18>> >>)
Late == CompiledIntervals(<< <<2, 5>>, <<7, 18>> >>)

Task(d, cal) ==
    [duration |-> d, calendar |-> cal, measure |-> cal, constraint |-> "ASAP", coordinate |-> None,
     actual_start |-> None, actual_finish |-> None, remaining |-> None,
     elapsed_float |-> FALSE, envelope |-> {}]
Dated(a, constraint, at) == [a EXCEPT !.constraint = constraint, !.coordinate = at]
Edge(p, s, type, lag, cal) ==
    [predecessor |-> p, successor |-> s, type |-> type, lag |-> lag, lag_calendar |-> cal,
     boundary |-> None]
Across(p, s) == [Edge(p, s, "FS", 0, None) EXCEPT !.boundary = M]

Network(order, act, edges, status) ==
    [order |-> order, act |-> act, edges |-> edges, start |-> 0, horizon |-> 18, status |-> status]
Rule(policy, snap) == [policy |-> policy, snap |-> snap]
Project(net, rule) == [network |-> net, rule |-> rule]

Types == {"FS", "SS", "FF", "SF"}

(* A before B under every relationship, with C beside them.                 *)
Chain(a, b, c) == [u \in {A, B, C} |-> IF u = A THEN a ELSE IF u = B THEN b ELSE c]
Chains ==
    {Project(Network(<<A, B, C>>, Chain(Task(3, Shift), Task(2, lag[1]), Task(8, Around)),
                     <<Edge(A, B, type, lag[2], lag[3])>>, status[1]), Rule(status[2], FALSE)) :
        type \in Types,
        lag \in {<<Shift, -2, None>>, <<Late, -2, Around>>, <<Shift, 0, None>>,
                 <<Late, 0, None>>, <<Late, 2, None>>, <<Shift, 2, Around>>},
        status \in {<<4, "retained_logic">>, <<4, "progress_override">>, <<None, "none">>}}

(* A dated successor, the date before or after what logic allows.           *)
Dateds ==
    {Project(Network(<<A, B, C>>, Chain(Task(3, Shift), Dated(Task(2, Late), kind, at), Task(8, Around)),
                     <<Edge(A, B, type, 0, None)>>, 4), Rule("retained_logic", FALSE)) :
        kind \in {"SNET", "FNET", "SNLT", "FNLT", "MSO", "MFO", "ALAP"}, at \in {4, 9},
        type \in {"FS", "FF"}}

(* A milestone between work, followed by two relationships, A under way or not.*)
Started(a, at, left) == [a EXCEPT !.actual_start = at, !.remaining = left]
Milestones ==
    {Project(Network(<<A, M, B, C>>,
                     [u \in {A, M, B, C} |->
                        CASE u = A -> IF lag = 0 THEN Started(Task(3, Shift), 2, 1) ELSE Task(3, Shift)
                          [] u = M -> Task(0, cal) [] u = B -> Task(2, Late) [] u = C -> Task(8, Around)],
                     <<Edge(A, M, into, 0, None), Edge(M, B, "FS", 0, None),
                       Edge(M, B, out, lag, None)>>, 4), Rule("retained_logic", snap)) :
        cal \in {Shift, Late}, into \in {"FS", "SF"}, out \in {"SS", "FF"},
        lag \in {0, 2}, snap \in BOOLEAN}

(* The ends of the chain under way or complete, under each policy.          *)
Finished(a, start, finish) == [Started(a, start, 0) EXCEPT !.actual_finish = finish]
UnderWay ==
    {Project(Network(<<A, B, C>>,
                     Chain(Started(Task(3, Shift), 2, 1), b, Task(8, Around)),
                     <<Edge(A, B, type, 2, None)>>, 4), Rule(policy, FALSE)) :
        b \in {Task(2, Shift), Started(Task(2, Shift), 3, 1), Started(Task(2, Late), 7, 1),
               Finished(Task(2, Shift), 2, 7)},
        type \in Types, policy \in {"retained_logic", "progress_override"}}

(* Work under way with nothing left of it, a milestone to the engine.        *)
NothingLeft ==
    {Project(Network(<<A, B, C>>, Chain(Task(4, Around), Started(Task(3, Shift), 0, 0), Task(8, Around)),
                     <<Edge(A, B, type, lag, None)>>, 4), Rule("retained_logic", snap)) :
        type \in {"FS", "FF"}, lag \in {0, 3}, snap \in BOOLEAN}

Unsupported ==
    {Project(Network(<<A, B, C>>, Chain(a, Task(2, Shift), Task(8, Around)),
                     <<Edge(A, B, "FS", 0, None)>>, 4), Rule("actual_dates", FALSE)) :
        a \in {Task(3, Shift), Started(Task(3, Shift), 2, 1)}}

(* A before B and C through an inactive activity, B with other logic or not.*)
Boundaries ==
    {Project(Network(<<A, B, C>>, Chain(Task(3, Shift), Task(2, Late), Task(length, Around)),
                     <<Across(A, B), Across(A, C)>>, 4), Rule("retained_logic", FALSE)) :
        length \in {2, 8}}
    \union
    {Project(Network(<<A, B, C>>, Chain(Task(3, Shift), b, Task(8, Around)),
                     <<Across(A, B), Edge(C, B, "FS", 0, None)>>, 4),
             Rule("retained_logic", FALSE)) : b \in {Task(2, Late), Task(2, Around)}}

(* B shared by two assignments on calendars of their own, or elapsed work,   *)
(* its float by the clock.                                                  *)
Whole == CompiledIntervals(<< <<0, 18>> >>)
Shared == [Task(4, Whole) EXCEPT !.envelope = {[calendar |-> Late, work |-> 2],
                                              [calendar |-> Whole, work |-> 2]}]
Elapsed == [Task(4, Around) EXCEPT !.measure = Shift, !.elapsed_float = TRUE]
Evidenced ==
    {Project(Network(<<A, B, C>>, Chain(Task(length, Shift), b, c),
                     <<Edge(A, B, "FS", 0, None), Edge(B, C, "FS", 0, None)>>, 4),
             Rule("retained_logic", FALSE)) :
        length \in {2, 3, 6}, b \in {Shared, Elapsed},
        c \in {Task(2, Shift), Dated(Task(2, Shift), "SNET", 14), Dated(Task(2, Shift), "FNLT", 9)}}

MCProjects ==
    UNION {Evidenced, Boundaries, Chains, Dateds, Milestones, UnderWay, NothingLeft, Unsupported}
MCDates == {2, 7}
MCWorks == {0, 1, 4}
=============================================================================
