----------------------------- MODULE MCReimport -----------------------------
(* Small documents for Reimport: renumbered, inserted, dropped and duplicated *)
(* tasks with a link between them, and one document with every kind of row   *)
(* and every way a field of it can be read.                                  *)
EXTENDS Reimport, TLC

Task(uid, guid) ==
    [id |-> "task:" \o uid, uid |-> uid, guid |-> guid, parent |-> None, calendar |-> None,
     duration |-> "some", remaining |-> "absent", work |-> "absent", format |-> "working",
     milestone |-> FALSE, active |-> None, taskType |-> "absent", percent |-> "absent",
     start |-> "absent", constraint |-> "absent", constraintDate |-> "absent",
     udfs |-> EmptyMap, flags |-> {}]

Project == [start |-> "monday", fromStart |-> TRUE, limit |-> None, minutesPerDay |-> None,
            calendar |-> None]

Tasks(rows) ==
    [calendar |-> <<>>, udf |-> <<>>, wbs_node |-> <<>>, activity |-> rows,
     relationship |-> <<>>, resource |-> <<>>, assignment |-> <<>>, baseline |-> <<>>,
     project |-> Project]

Link(a, b) == [predecessor |-> a, successor |-> b, type |-> "FS", lag |-> 0, format |-> "absent"]
Linked(rows) ==
    [Tasks(rows) EXCEPT !.relationship = <<Link(rows[1].id, rows[2].id), Link("task:9", rows[1].id)>>]

Histories ==
    {Tasks(<<Task("1", "A")>>), Tasks(<<Task("2", "A")>>), 
     Tasks(<<Task("2", "A"), [Task("1", "B") EXCEPT !.percent = "malformed"]>>)}
    \union {Linked(<<Task("1", pair[1]), Task("2", pair[2])>>) :
                pair \in {<<"A", "B">>, <<"B", "A">>, <<None, "A">>}}

ImporterSymmetry == Permutations(Importers)

Window6 == [from |-> "06", to |-> "00"]
Full ==
    [calendar |-> << [id |-> "cal:1", uid |-> "1", guid |-> None, base |-> None,
                      days |-> << [day |-> 2, window |-> Window6],
                                  [day |-> 0, periods |-> 1, from |-> "monday",
                                   to |-> "tuesday", window |-> Window6] >>,
                      exceptions |-> << [from |-> "monday", to |-> "monday",
                                         window |-> Window6] >>],
                     [id |-> "cal:2", uid |-> None, guid |-> "A", base |-> "cal:1",
                      days |-> <<>>, exceptions |-> <<>>] >>,
     udf |-> << [field |-> "text4", alias |-> "Work Order No."] >>,
     wbs_node |-> << [id |-> "task:0", uid |-> "0", guid |-> "A", parent |-> None,
                      start |-> "monday"] >>,
     activity |->
        << [Task("1", "A") EXCEPT !.parent = "task:0", !.calendar = "cal:1",
                                  !.format = "elapsed"],
           [Task("2", "A") EXCEPT !.calendar = "cal:9", !.constraint = "MSO",
                                  !.constraintDate = "tuesday"],
           [Task("3", None) EXCEPT !.duration = "unsupported", !.constraint = "unknown",
                                   !.constraintDate = "malformed"],
           [Task("4", None) EXCEPT !.duration = "zero", !.milestone = TRUE],
           [Task("5", None) EXCEPT !.duration = "absent", !.work = "fraction",
                                   !.flags = {"is_null"}],
           [Task("6", None) EXCEPT !.format = "unheard of", !.remaining = "fraction",
                                   !.milestone = TRUE, !.udfs = [f \in {"text4"} |-> "10"]],
           [Task("7", None) EXCEPT !.duration = "absent"],
           [Task("8", None) EXCEPT !.duration = "fraction"] >>,
     relationship |->
        << [Link("task:1", "task:2") EXCEPT !.lag = 1, !.format = "elapsed"],
           Link("task:0", "task:3"), Link("task:9", "task:1") >>,
     resource |-> << [id |-> "res:1", uid |-> "1", guid |-> None, calendar |-> "cal:9",
                      type |-> "cost", maxUnits |-> "absent", flags |-> {}] >>,
     assignment |->
        << [id |-> "as:1", uid |-> "1", guid |-> None, task |-> "task:1", resource |-> "res:1",
            work |-> "some", actual |-> "zero", remaining |-> "absent", start |-> "monday",
            percent |-> "absent", units |-> "some", flags |-> {}, phases |-> <<"day", "day", "day", "day">>],
           [id |-> "as:2", uid |-> "2", guid |-> None, task |-> "task:1", resource |-> None,
            work |-> "unsupported", actual |-> "absent", remaining |-> "zero",
            start |-> "absent", percent |-> "absent", units |-> "absent", flags |-> {}, phases |-> <<>>] >>,
     baseline |-> << [slot |-> 0, owner |-> "task:1", duration |-> "some", work |-> "fraction",
                      start |-> "monday"],
                     [slot |-> 1, owner |-> "task:9", duration |-> "some", work |-> "absent",
                      start |-> "malformed"] >>,
     project |-> [Project EXCEPT !.limit = 6, !.calendar = "cal:1"]]

Unreadables ==
    {[Tasks(<<>>) EXCEPT !.project.start = "zoned"],
     [Tasks(<<>>) EXCEPT !.calendar =
         << [Full.calendar[1] EXCEPT !.days[2].from = "malformed"] >>]}

MCDocuments == Histories \union Unreadables \union {Full}
=============================================================================
