---------------------------- MODULE MCPlanResult ----------------------------
(* Small schedules for PlanResult: four rows of every class under the graphs *)
(* that matter to what is left out, progress under lags and policies, the    *)
(* calendars a row may resolve to, and hierarchies with and without a cycle. *)
EXTENDS CalculationStore

CONSTANTS A, B, C, D, S, T, U

Shift == CompiledIntervals(<< <<0, 4>>, <<8, 14>>, <<18, 30>> >>)
Night == CompiledIntervals(<< <<4, 10>>, <<14, 30>> >>)
All == CompiledIntervals(<< <<0, 30>> >>)
Idle == CompiledIntervals(<<>>)

Row ==
    [kind |-> "task", active |-> TRUE, manual |-> FALSE, fields |-> {}, elapsed |-> FALSE,
     calendar |-> None, constraint |-> "ASAP", coordinate |-> None, secondary |-> FALSE,
     actual_start |-> None, actual_finish |-> None, duration |-> 2, remaining |-> None,
     data |-> {}, wbs |-> S]
Unread == [Row EXCEPT !.fields = {"duration_unsupported"}]
Off == [Row EXCEPT !.active = FALSE]
Done == [Row EXCEPT !.actual_start = 0, !.actual_finish = 2, !.remaining = 0]
Started == [Row EXCEPT !.actual_start = 2, !.remaining = 2]
Classes == {Row, Unread, Off, Done}

Edge(p, q) ==
    [predecessor |-> p, successor |-> q, type |-> "FS", lag |-> 0, elapsed |-> FALSE,
     lag_calendar |-> "inherit_project_policy", cross_project |-> FALSE]
Lag(e, lag, policy) == [e EXCEPT !.lag = lag, !.lag_calendar = policy]

Rule(policy) == [policy |-> policy, snap |-> FALSE]
Plain(order, act, edges) ==
    [order |-> order, act |-> act, edges |-> edges,
     calendars |-> [c \in {"shift", "night", "all", "idle"} |->
                      CASE c = "shift" -> Shift [] c = "night" -> Night
                        [] c = "all" -> All [] c = "idle" -> Idle],
     calendar |-> "shift", resources |-> [r \in {} |-> None], assignments |-> <<>>,
     resource_calendars_apply |-> TRUE, wbs |-> [n \in {S} |-> None],
     start |-> 0, horizon |-> 30, status |-> None, direction |-> "from_start",
     lag_calendar_policy |-> "successor", rule |-> Rule("retained_logic")]

(* Every class of row under every graph.                                    *)
Graphs ==
    { <<Edge(A, B), Edge(B, C), Edge(C, D)>>,
      <<Edge(A, B), Edge(B, C), Edge(B, D)>>,
      <<Edge(A, B), Edge(B, C), Edge(A, C), Edge(C, D)>>,
      <<Edge(A, C), Edge(B, C), Edge(C, D)>>,
      <<Edge(A, B), Edge(A, C), Edge(B, D), Edge(C, D)>>,
      <<Edge(A, B), Edge(B, D), Edge(C, D), Edge(A, C), Edge(B, C)>> }
Rows(a, b, c, d) == [u \in {A, B, C, D} |->
                        CASE u = A -> a [] u = B -> b [] u = C -> c [] u = D -> d]
Kinds ==
    {Plain(<<A, B, C, D>>, Rows(a, b, c, d), edges) :
        a \in Classes \ {Done}, b \in Classes, c \in Classes \union {Started},
        d \in {Row, Done}, edges \in Graphs}

(* Progress with and without the measured shape, under each policy, with    *)
(* lags whose calendar is the project's.                                    *)
Measured == [Started EXCEPT !.data = {"in_progress"}]
Assigned1(s) == [s EXCEPT !.resources = [r \in {"r"} |-> None],
                          !.assignments = << [activity |-> C, resource |-> "r", work |-> 2] >>]
Progress ==
    {[Assigned1(Plain(<<A, B, C, D>>, Rows(a, b, c, d),
            <<Edge(A, B), Edge(B, C), Lag(Edge(C, D), lag[1], lag[2])>>))
        EXCEPT !.rule = Rule(rule), !.status = status] :
        a \in {Row, [Row EXCEPT !.constraint = "MSO", !.coordinate = 10]},
        b \in {Row, Done, [Done EXCEPT !.actual_finish = 3]},
        c \in {Measured, Started}, d \in {Row, Started, [Done EXCEPT !.actual_finish = 8], [Row EXCEPT !.duration = 40]},
        lag \in {<<0, "project">>} \union
            {<<1, policy>> : policy \in {"inherit_project_policy", "predecessor", "project", "unheard_of"}},
        rule \in {"retained_logic", "progress_override"}, status \in {None, 1, 9, 31}}

(* What a row is scheduled on.                                              *)
Resources == [r \in {"day", "dark", "none", "lost", "whole"} |->
                CASE r = "day" -> "shift" [] r = "dark" -> "night" [] r = "none" -> None
                  [] r = "lost" -> "missing" [] r = "whole" -> "all"]
CalendarRows ==
    {[Row EXCEPT !.calendar = calendar, !.elapsed = elapsed, !.secondary = elapsed] :
        calendar \in {None, "night", "idle", "missing"}, elapsed \in BOOLEAN}
    \union {[Row EXCEPT !.constraint = "SNET"], [Row EXCEPT !.kind = "hammock"],
            [Row EXCEPT !.fields = {"ignore_resource_calendar"}],
            [Row EXCEPT !.data = {"allocation"}],
            [Row EXCEPT !.data = {"elapsed_float"}, !.elapsed = TRUE, !.remaining = 2]}
Works ==
    {[Plain(<<A, B, C>>, [u \in {A, B, C} |-> IF u = B THEN row ELSE Row],
            <<Edge(A, B), Edge(B, C)>>)
        EXCEPT !.resources = Resources, !.resource_calendars_apply = apply, !.calendar = calendar,
               !.assignments = [n \in DOMAIN who |-> [activity |-> B, resource |-> who[n], work |-> 1]]] :
        row \in CalendarRows, apply \in BOOLEAN, calendar \in {"shift", "idle", None},
        who \in {<<>>, <<"day">>, <<"dark", "none">>, <<"whole">>, <<"dark", "whole">>, <<"lost">>}}

(* Hierarchies: nested, with nothing beneath, and with a cycle.             *)
Under(row, node) == [row EXCEPT !.wbs = node]
Hierarchies ==
    {[Plain(<<A, B, C>>, [u \in {A, B, C} |-> CASE u = A -> Under(Row, S) [] u = B -> b
                                               [] u = C -> Under(Unread, U)],
            <<Edge(A, B)>>)
        EXCEPT !.wbs = [n \in {S, T, U} |-> CASE n = S -> parents[1] [] n = T -> parents[2]
                                              [] n = U -> parents[3]]] :
        b \in {Under(Row, T), Under(Off, T), Under(Row, None)},
        parents \in {<<None, S, T>>, <<None, S, S>>, <<None, T, S>>, <<T, S, T>>, <<T, S, None>>,
                     <<U, S, T>>}}

Refused ==
    {[Plain(<<A>>, [u \in {A} |-> Row], <<>>) EXCEPT !.start = None],
     [Plain(<<A>>, [u \in {A} |-> Row], <<>>) EXCEPT !.direction = "from_finish"],
     [Plain(<<A>>, [u \in {A} |-> Row], <<>>) EXCEPT !.calendars = [c \in {} |-> None]]}

(* Relationships that end at a summary.                                     *)
FromSummary ==
    {Plain(<<A, B>>, [u \in {A, B} |-> IF u = A THEN a ELSE Row], <<Edge(S, B), Edge(A, B), Edge(B, S)>>) :
        a \in Classes}

MCSchedules == UNION {Kinds, Progress, Works, Hierarchies, FromSummary, Refused}
=============================================================================
