-------------------------- MODULE MCLegacyWorkspace --------------------------
(* Files for LegacyWorkspace: an outline with leads, a milestone and rows     *)
(* the calculation does not support; resources on calendars with the same     *)
(* week; calendars that meet, inherit and do not resolve; and files that are  *)
(* refused at each stage. A day has four units, a week two days.             *)
EXTENDS LegacyWorkspace

ClientSymmetry == Permutations(Clients)

Times(from, to) == <<[from |-> from, to |-> to]>>
WorkDay(type, from, to) == [type |-> type, working |-> TRUE, times |-> Times(from, to)]
DayOff(type) == [type |-> type, working |-> FALSE, times |-> <<>>]
CalendarOf(uid, days) ==
    [uid |-> uid, base |-> None, days |-> days, specials |-> <<>>, exceptions |-> <<>>]
Standard == CalendarOf("std", <<WorkDay(1, 1, 3), WorkDay(2, 1, 3)>>)
Except(calendar, from, to) ==
    [calendar EXCEPT !.exceptions = Append(@, [from |-> from, to |-> to])]

Project == [start |-> 0, finish |-> 15, fromStart |-> TRUE, calendar |-> "std"]

Task(uid, level, start, duration, finish) ==
    [uid |-> uid, level |-> level, summary |-> FALSE, milestone |-> duration = 0,
     start |-> start, duration |-> duration, finish |-> finish,
     calendar |-> None, ignore |-> FALSE, facts |-> {}, links |-> <<>>]
Summary(uid, level) == [Task(uid, level, 0, 1, 15) EXCEPT !.summary = TRUE]
Link(uid) == [uid |-> uid, type |-> "FS", lag |-> 0, format |-> "elapsed", faults |-> {}]
After(task, uid) == [task EXCEPT !.links = Append(@, Link(uid))]
Lead(task, uid, lag) == [task EXCEPT !.links = Append(@, [Link(uid) EXCEPT !.lag = lag])]

File(sha, tasks) ==
    [sha |-> sha, mspdi |-> TRUE, project |-> Project, tasks |-> tasks,
     calendars |-> <<Except(Standard, 16, 19)>>, resources |-> <<>>, assignments |-> <<>>]

Chain ==
    File("chain",
        <<Summary("s", 0), Task("a", 1, 1, 2, 3), After(Task("b", 1, 5, 2, 7), "a"),
          After(Task("m", 1, 7, 0, 7), "b"), Lead(Task("z", 1, 1, 1, 2), "a", -2),
          [Task("x", 1, 1, 2, 3) EXCEPT !.facts = {"ACTIVITY_INACTIVE"}],
          After(Task("y", 1, 5, 2, 7), "x"), After(After(Task("w", 1, 9, 1, 10), "y"), "b"),
          [Lead(Task("v", 1, 1, 1, 2), "a", 1) EXCEPT !.links[1].faults = {"CROSS_PROJECT"}],
          After(Task("u", 1, 1, 1, 2), "s")>>)

ResourceOn(uid, calendar) == [uid |-> uid, calendar |-> calendar, inactive |-> FALSE]
Assigned(uid, task, resource, work) ==
    [uid |-> uid, task |-> task, resource |-> resource, work |-> work, units |-> 1, facts |-> {}]

Shared ==
    [File("shared", <<Task("a", 0, 1, 2, 3), After(Task("b", 0, 5, 2, 7), "a")>>) EXCEPT
        !.calendars = <<Standard, [Standard EXCEPT !.uid = "c1"],
                        Except([Standard EXCEPT !.uid = "c2"], 16, 19)>>,
        !.resources = <<ResourceOn("r1", "c1"), ResourceOn("r2", "c2")>>,
        !.assignments = <<Assigned("1", "a", "r1", 2), Assigned("2", "a", "r2", 2),
                          Assigned("3", "a", None, None)>>]

Night == CalendarOf("night", <<WorkDay(1, 2, 0), WorkDay(2, 0, 0)>>)
Mixed ==
    [File("mixed",
        <<Summary("s", 1), Summary("t", 2), [Task("a", 3, 2, 1, 3) EXCEPT !.calendar = "night"],
          Task("c", 2, 1, 2, 3), After(Task("b", 2, 2, 3, 5), "a"), Summary("p", 1),
          [Task("d", 2, 1, 1, 2) EXCEPT !.calendar = "std", !.ignore = TRUE],
          [Task("e", 2, 1, 2, 3) EXCEPT !.ignore = TRUE],
          [Task("f", 2, 1, 2, 3) EXCEPT !.calendar = "loop"], Task("g", 2, 1, 2, 4),
          [Task("h", 2, 1, 2, 3) EXCEPT !.ignore = None], Task("i", 2, 1, 2, 3)>>) EXCEPT
        !.calendars = <<Standard, Except(Night, 20, 21),
                        [CalendarOf("child", <<DayOff(1)>>) EXCEPT !.base = "std"],
                        [CalendarOf("loop", <<>>) EXCEPT !.base = "pool"],
                        [CalendarOf("pool", <<>>) EXCEPT !.base = "loop"],
                        Except([Standard EXCEPT !.uid = "busy"], 10, 11)>>,
        !.resources = <<ResourceOn("r1", "std"), ResourceOn("r2", "night"),
                        [ResourceOn("r3", "child") EXCEPT !.inactive = TRUE], ResourceOn("r4", "busy")>>,
        !.assignments = <<Assigned("1", "a", "r1", 1), Assigned("2", "b", "r2", 3),
                          Assigned("3", "d", "r2", 1), Assigned("4", "e", "r3", 2),
                          Assigned("5", "c", "r1", 2), Assigned("6", "c", "r2", 3),
                          Assigned("7", "i", "r4", 2)>>]

Clashing == CalendarOf("clash", <<WorkDay(1, 3, 0), WorkDay(2, 3, 0)>>)
Refused ==
    {[Chain EXCEPT !.sha = "not mspdi", !.mspdi = FALSE],
     File("orphan", <<Summary("s", 0), Summary("t", 1), Task("a", 1, 1, 2, 3), Task("b", 2, 1, 2, 3)>>),
     File("missing", <<After(Task("a", 0, 1, 2, 3), "q")>>),
     [File("summary", <<Summary("s", 0)>>) EXCEPT
         !.resources = <<ResourceOn("r1", "std")>>,
         !.assignments = <<Assigned("1", "s", "r1", 1)>>],
     File("cycle", <<After(Task("a", 0, 1, 2, 3), "b"), After(Task("b", 0, 1, 2, 3), "a")>>),
     [File("empty", <<[Task("a", 0, 1, 2, 3) EXCEPT !.calendar = "std"]>>) EXCEPT
         !.calendars = <<Standard, Clashing>>, !.resources = <<ResourceOn("r1", "clash")>>,
         !.assignments = <<Assigned("1", "a", "r1", 2)>>],
     [File("undated", <<Task("a", 0, 1, 2, 3)>>) EXCEPT !.project.finish = None]}

MCFiles == {Chain, Shared, Mixed} \union Refused
MCEdits ==
    {<<"a", 4>>, <<"a", 10>>, <<"b", 1>>, <<"b", 3>>, <<"m", 2>>, <<"x", 2>>, <<"s", 2>>,
     <<"q", 2>>, <<"a", 0>>, <<"a", 100>>}
=============================================================================
