---------------------------- MODULE LegacyImport ----------------------------
(* The MSPDI importer of src/src/sto/legacy: task rows in file order become  *)
(* an outline of summaries and activities, links become relationships, and  *)
(* an independent validator passes the document or refuses it. A file is a   *)
(* record of sequences of rows; a field that a row lacks or that does not    *)
(* parse is None.                                                            *)
EXTENDS Integers, Sequences, FiniteSets, SequencesExt, FiniteSetsExt, TLC

CONSTANT None
ASSUME NoneAssumption == None \notin Int
Known(values) == values \subseteq Int \union {None}

----------------------------------------------------------------------------
(* The outline: the summaries open above a row, one for each level.         *)

NothingRead ==
    [refused |-> FALSE, seen |-> {}, root |-> None, open |-> <<>>, order |-> 0,
     wbs |-> {}, activities |-> {}]

Above(open, level) == [l \in {k \in DOMAIN open : k < level} |-> open[l]]
Opening(open, row) ==
    [l \in DOMAIN open \union {row.level} |-> IF l = row.level THEN row.uid ELSE open[l]]
RootLevel(read, row) == IF read.root = None THEN row.level ELSE read.root

ParentOf(read, row) ==
    LET open == Above(read.open, row.level)
    IN IF row.level > RootLevel(read, row) /\ row.level - 1 \in DOMAIN open
       THEN open[row.level - 1] ELSE None

TaskRefused(read, row) ==
    \/ row.uid = None \/ row.uid \in read.seen
    \/ row.level = None \/ row.level < 0
    \/ row.level < RootLevel(read, row)
    \/ row.level > RootLevel(read, row) /\ ParentOf(read, row) = None

Item(read, row) ==
    [id |-> row.uid, order |-> read.order, level |-> row.level,
     parent |-> ParentOf(read, row), row |-> row]

ReadTask(read, row) ==
    IF read.refused \/ TaskRefused(read, row) THEN [read EXCEPT !.refused = TRUE]
    ELSE LET open == Above(read.open, row.level)
         IN [read EXCEPT
               !.seen = @ \union {row.uid}, !.order = @ + 1, !.root = RootLevel(read, row),
               !.open = IF row.summary THEN Opening(open, row) ELSE open,
               !.wbs = IF row.summary THEN @ \union {Item(read, row)} ELSE @,
               !.activities = IF row.summary THEN @ ELSE @ \union {Item(read, row)}]

ParseTasks(rows) ==
    LET read[n \in 0..Len(rows)] ==
            IF n = 0 THEN NothingRead ELSE ReadTask(read[n - 1], rows[n])
    IN read[Len(rows)]

Relationships(rows, seen) ==
    UNION {{[id |-> <<row.uid, i>>, succ |-> row.uid,
             pred |-> IF row.links[i].uid \in seen THEN row.links[i].uid ELSE None,
             type |-> row.links[i].type, lag |-> row.links[i].lag,
             format |-> row.links[i].format, faults |-> row.links[i].faults] :
                i \in DOMAIN row.links} : row \in ToSet(rows)}

Uids(rows) == {rows[i].uid : i \in DOMAIN rows}

AssignmentRefused(row, resources) ==
    row.uid = None \/ (row.resource # None /\ row.resource \notin resources)

ParseRefused(file, read) ==
    \/ ~file.mspdi
    \/ read.refused
    \/ None \in Uids(file.calendars) \union Uids(file.resources)
    \/ \E row \in ToSet(file.assignments) : AssignmentRefused(row, Uids(file.resources))

Document(file) ==
    LET read == ParseTasks(file.tasks)
    IN [sha |-> file.sha, project |-> file.project, wbs |-> read.wbs,
        activities |-> read.activities,
        relationships |-> Relationships(file.tasks, read.seen),
        calendars |-> file.calendars, resources |-> file.resources,
        assignments |->
            [i \in DOMAIN file.assignments |->
                [file.assignments[i] EXCEPT
                    !.task = IF @ \in read.seen THEN @ ELSE None]]]

----------------------------------------------------------------------------
(* The validator.                                                            *)

Ids(items) == {item.id : item \in items}
Repeated(rows) == \E i, j \in DOMAIN rows : i # j /\ rows[i].uid = rows[j].uid
ItemOf(items, id) == CHOOSE item \in items : item.id = id

(* Up to n parents up from a summary.                                       *)
Ancestors(wbs, id) ==
    LET up[n \in 0..Cardinality(wbs)] ==
            IF n = 0 THEN {id}
            ELSE {ItemOf(wbs, a).parent : a \in up[n - 1] \intersect Ids(wbs)}
    IN UNION {up[n] : n \in 1..Cardinality(wbs)}

WbsErrors(wbs) ==
    {id \in Ids(wbs) :
        \/ id \in Ancestors(wbs, id)
        \/ ItemOf(wbs, id).parent \notin Ids(wbs) \union {None}}

MisplacedUnder(wbs, item) ==
    /\ item.parent \in Ids(wbs)
    /\ \/ ItemOf(wbs, item.parent).level # item.level - 1
       \/ ItemOf(wbs, item.parent).order >= item.order

OutlineErrors(doc) ==
    LET items == doc.wbs \union doc.activities
        first == CHOOSE item \in items : \A other \in items : item.order <= other.order
    IN {item \in items :
            \/ item.level < first.level
            \/ item.level = first.level /\ item.parent # None
            \/ item.level > first.level /\ item.parent = None
            \/ item.level > first.level /\ MisplacedUnder(doc.wbs, item)}

Endpoints(doc) == Ids(doc.wbs) \union Ids(doc.activities)

Invalid(doc) ==
    \/ Repeated(doc.calendars) \/ Repeated(doc.resources) \/ Repeated(doc.assignments)
    \/ WbsErrors(doc.wbs) # {}
    \/ OutlineErrors(doc) # {}
    \/ \E item \in doc.activities : item.parent # None /\ item.parent \notin Ids(doc.wbs)
    \/ \E item \in doc.activities : "CONSTRAINT_CODE" \in item.row.facts
    \/ \E r \in doc.relationships : ~({r.pred, r.succ} \subseteq Endpoints(doc))
    \/ \E a \in ToSet(doc.assignments) :
          a.task \in Ids(doc.wbs) \/ a.task \notin Ids(doc.activities)
    \/ \E a \in ToSet(doc.assignments) :
          a.resource # None /\ a.resource \notin Uids(doc.resources)

(* What import_mspdi returns, None when it raises.                          *)
ImportMspdi(file) ==
    IF ParseRefused(file, ParseTasks(file.tasks)) THEN None
    ELSE IF Invalid(Document(file)) THEN None ELSE Document(file)
=============================================================================
