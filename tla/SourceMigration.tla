-------------------------- MODULE SourceMigration --------------------------
(***************************************************************************)
(* The conversion of an imported document into the canonical schedule.  A  *)
(* document is a record of sequences of rows, one for each collection.  A  *)
(* field of a row is the class of its text: "absent", readable, or one of  *)
(* the ways in which it is not.  What the canonical model keeps of the row *)
(* is computed from those classes; Reimport runs the conversion.           *)
(***************************************************************************)
EXTENDS Identity, FiniteSets, SequencesExt

GuidBearing == {"calendar", "wbs_node", "activity", "resource", "assignment"}

----------------------------------------------------------------------------
(* Readings of one field.                                                  *)

UnreadableDate(text) == text \in {"malformed", "zoned"}
Date(text) == IF text = "absent" THEN None ELSE text

(* A working window needs both bounds; a window that ends at midnight ends  *)
(* with the day.                                                            *)
UnreadableWindow(w) == {w.from, w.to} \intersect {"absent", "malformed"} # {}
Window(w) == [start |-> w.from, finish |-> IF w.to = "00" THEN "24" ELSE w.to]

(* A dated override is an exception; older files write it as weekday 0 with *)
(* its dates in one TimePeriod.                                             *)
UnreadableOverride(e) ==
    \/ {e.from, e.to} \intersect {"absent", "malformed", "zoned"} # {}
    \/ UnreadableWindow(e.window)
UnreadableDay(d) ==
    \/ d.day \notin 0..7
    \/ IF d.day = 0 THEN d.periods # 1 \/ UnreadableOverride(d) ELSE UnreadableWindow(d.window)
Override(e, source) ==
    [from |-> Date(e.from), to |-> Date(e.to), window |-> Window(e.window), source |-> source]

(* Three outcomes: a duration, nothing, or text that could not be read.     *)
Unread(reason) == [unread |-> reason]
Duration(text, format) ==
    CASE text = "absent" -> None
      [] text = "unsupported" -> Unread("DURATION_UNSUPPORTED")
      [] text = "fraction" -> Unread("DURATION_NON_INTEGRAL")
      [] OTHER -> [span |-> text, elapsed |-> format = "elapsed",
                   unit |-> IF format \in {"working", "elapsed"} THEN format ELSE None]

IsUnread(value) == value # None /\ "unread" \in DOMAIN value
AsDuration(value) == IF IsUnread(value) THEN None ELSE value
UnsupportedFieldsForgotten(name, value) == {}
UnsupportedFields(name, value) == IF IsUnread(value) THEN {<<name, value.unread>>} ELSE {}
NonZero(value) == value # None /\ value.span # "zero"

UnreadablePercent(text) == text \in {"malformed", "infinite"}
Permille(text) == IF text = "absent" THEN "zero" ELSE text

(* DurationFormat: exactly one value of Microsoft's table is understood.    *)
KnownFormat(format) == format \in {"working", "elapsed", "null"}
FormatOf(row) == IF KnownFormat(row.format) THEN row.format ELSE None
UnknownFormat(row) ==
    IF KnownFormat(row.format) \/ row.format = "absent" THEN {}
    ELSE {<<"duration_format", row.format>>}

UnreadableCode(code) == code \in {"malformed", "unknown"}
DurationType(code) == IF code = "absent" THEN "fixed_units" ELSE code
ResourceType(code) == IF code = "absent" THEN "labor" ELSE code
SchedulingClass(code) ==
    IF ResourceType(code) = "cost" THEN "non_renewable" ELSE "renewable"

(* Unlike a task type, a constraint code outside the table is no constraint. *)
ConstraintOf(row) ==
    IF row.constraint \in {"absent", "unknown", "ASAP"} THEN None
    ELSE [type |-> row.constraint, date |-> Date(row.constraintDate),
          hard |-> row.constraint \in {"MSO", "MFO"}]

ElapsedLag(format) == format = "elapsed"
LagCalendar(format) == IF ElapsedLag(format) THEN "elapsed_24h" ELSE "inherit_project_policy"
Lag(row) ==
    IF row.lag = 0 /\ row.format = "absent" THEN None
    ELSE [seconds |-> row.lag, elapsed |-> ElapsedLag(row.format)]

ActivityKind(row, duration) ==
    IF row.milestone /\ ~NonZero(duration) THEN "finish_milestone" ELSE "task"

(* CriticalSlackLimit counts working days of the project.                   *)
DefaultMinutesPerDay == 480
CriticalThreshold(project) ==
    IF project.limit = None THEN 0
    ELSE LET minutes == IF project.minutesPerDay \in {None, 0} THEN DefaultMinutesPerDay
                        ELSE project.minutesPerDay
         IN project.limit * minutes * 60

----------------------------------------------------------------------------
(* References between rows.                                                *)

Ref(resolved, kind, id) == IF id = None THEN None ELSE At(resolved, <<kind, id>>)

(* A calendar the file names and does not carry gets an identity no calendar *)
(* of the schedule has, so that it is not mistaken for no calendar.          *)
UnresolvedCalendar(id) == MintUid("calendar", id, -1)
CalendarUid(resolved, id) ==
    IF id = None THEN None
    ELSE IF <<"calendar", id>> \in DOMAIN resolved THEN resolved[<<"calendar", id>>]
    ELSE UnresolvedCalendar(id)
UnresolvedFields(resolved, id) ==
    IF id # None /\ <<"calendar", id>> \notin DOMAIN resolved
    THEN {<<"calendar_ref", id>>} ELSE {}

(* A relationship or an assignment may end at a summary row; an activity    *)
(* with the same id comes first.                                            *)
Node(resolved, id) ==
    IF <<"activity", id>> \in DOMAIN resolved THEN resolved[<<"activity", id>>]
    ELSE Ref(resolved, "wbs_node", id)

Dangling(resolved, row) ==
    None \in {Node(resolved, row.predecessor), Node(resolved, row.successor)}

(* A row is known by its UID, or by its id in the document.                 *)
ExternalOf(row) == IF row.uid = None THEN row.id ELSE row.uid

(* The key a row resolves under: a link by its canonical ends and type, so  *)
(* that it survives the renumbering of a row; a baseline by its slot.       *)
KeyOf(item, resolved) ==
    CASE item.kind = "relationship" ->
             <<Node(resolved, item.row.predecessor), Node(resolved, item.row.successor),
               item.row.type>>
      [] item.kind = "udf" -> item.row.field
      [] item.kind = "baseline" -> item.row.slot
      [] OTHER -> ExternalOf(item.row)

(* The name later rows refer to it by.                                      *)
LocalName(item, key) ==
    <<item.kind, IF item.kind \in {"udf", "relationship", "baseline"} THEN key ELSE item.row.id>>

GuidOf(item) == IF item.kind \in GuidBearing THEN item.row.guid ELSE None

(* Rows that stop the migration.                                           *)
UnreadableRow(item, resolved, doc) ==
    LET row == item.row
    IN CASE item.kind = "calendar" ->
                \/ \E n \in DOMAIN row.days : UnreadableDay(row.days[n])
                \/ \E n \in DOMAIN row.exceptions : UnreadableOverride(row.exceptions[n])
         [] item.kind = "activity" ->
                \/ UnreadableCode(row.taskType)
                \/ UnreadablePercent(row.percent)
                \/ UnreadableDate(row.start)
                \/ ConstraintOf(row) # None /\ UnreadableDate(row.constraintDate)
         [] item.kind = "wbs_node" -> UnreadableDate(row.start)
         [] item.kind = "resource" -> UnreadableCode(row.type) \/ UnreadablePercent(row.maxUnits)
         [] item.kind = "assignment" ->
                \/ UnreadableDate(row.start)
                \/ UnreadablePercent(row.percent) \/ UnreadablePercent(row.units)
         [] item.kind = "baseline" ->
                \E r \in ToSet(doc.baseline) :
                    /\ r.slot = row.slot
                    /\ Node(resolved, r.owner) # None
                    /\ UnreadableDate(r.start)
         [] OTHER -> FALSE

----------------------------------------------------------------------------
(* The canonical rows.                                                     *)

CanonicalCalendar(row, resolved) ==
    LET Special(d) == d.day = 0
        Weekly(d) == d.day # 0
        special == SelectSeq(row.days, Special)
        weekly == SelectSeq(row.days, Weekly)
    IN [uid |-> resolved[<<"calendar", row.id>>],
        base |-> Ref(resolved, "calendar", row.base),
        week |-> [n \in 1..Len(weekly) |-> <<weekly[n].day, Window(weekly[n].window)>>],
        exceptions |->
            [n \in 1..Len(row.exceptions) |-> Override(row.exceptions[n], "exception")]
            \o [n \in 1..Len(special) |-> Override(special[n], "special_day")]]

CanonicalDefinition(row, resolved) ==
    [uid |-> resolved[<<"udf", row.field>>], alias |-> row.alias]

(* Custom field values are kept under the alias the file gives the field.   *)
Aliases(doc) ==
    [field \in {row.field : row \in {r \in ToSet(doc.udf) : r.alias # None}} |->
        (CHOOSE r \in ToSet(doc.udf) : r.field = field).alias]
UdfValues(row, aliases) ==
    {<<IF f \in DOMAIN aliases THEN aliases[f] ELSE f, row.udfs[f]>> :
        f \in {g \in DOMAIN row.udfs : row.udfs[g] # None}}

CanonicalWbs(row, resolved) ==
    [uid |-> resolved[<<"wbs_node", row.id>>],
     parent |-> Ref(resolved, "wbs_node", row.parent),
     start |-> Date(row.start)]

(* What the engine must know of the row and no canonical field can say.     *)
SourceFields(row, resolved) ==
    LET planned == AsDuration(Duration(row.duration, FormatOf(row)))
    IN UnresolvedFields(resolved, row.calendar)
       \union (IF row.milestone /\ NonZero(planned) THEN {<<"milestone", "1">>} ELSE {})
       \union UnknownFormat(row)
       \union UnsupportedFields("duration", Duration(row.duration, FormatOf(row)))
       \union UnsupportedFields("remaining_duration", Duration(row.remaining, FormatOf(row)))
       \union UnsupportedFields("work", Duration(row.work, None))
       \union {<<flag, "1">> : flag \in row.flags}

CanonicalActivity(row, resolved, aliases) ==
    LET Read(text) == AsDuration(Duration(text, FormatOf(row)))
    IN [uid |-> resolved[<<"activity", row.id>>],
        wbs |-> Ref(resolved, "wbs_node", row.parent),
        kind |-> ActivityKind(row, Read(row.duration)),
        active |-> row.active # FALSE,
        durationType |-> DurationType(row.taskType),
        planned |-> Read(row.duration),
        remaining |-> Read(row.remaining),
        work |-> AsDuration(Duration(row.work, None)),
        percent |-> Permille(row.percent),
        start |-> Date(row.start),
        constraint |-> ConstraintOf(row),
        calendar |-> CalendarUid(resolved, row.calendar),
        udfs |-> UdfValues(row, aliases),
        fields |-> SourceFields(row, resolved)]

CanonicalRelationship(row, resolved) ==
    [uid |-> resolved[<<"relationship",
                        KeyOf([kind |-> "relationship", row |-> row], resolved)>>],
     predecessor |-> Node(resolved, row.predecessor),
     successor |-> Node(resolved, row.successor),
     type |-> row.type, lag |-> Lag(row), lagCalendar |-> LagCalendar(row.format)]

CanonicalResource(row, resolved) ==
    [uid |-> resolved[<<"resource", row.id>>],
     type |-> ResourceType(row.type), class |-> SchedulingClass(row.type),
     maxUnits |-> IF row.maxUnits = "absent" THEN None ELSE Permille(row.maxUnits),
     calendar |-> CalendarUid(resolved, row.calendar),
     fields |-> UnresolvedFields(resolved, row.calendar)
                \union (IF row.type = "absent" THEN {} ELSE {<<"resource_type", row.type>>})
                \union {<<flag, "1">> : flag \in row.flags}]

(* WorkTriple counts seconds: what is absent or unreadable counts zero.     *)
SpanOrZero(text) ==
    LET read == AsDuration(Duration(text, None)) IN IF read = None THEN "zero" ELSE read.span

(* Exactly four rows of 24 hours of work, end to end over the assignment.   *)
MeasuredTimephased(row) ==
    /\ row.flags = {}
    /\ row.phases = <<"day", "day", "day", "day">>

CanonicalAssignment(row, resolved) ==
    [uid |-> resolved[<<"assignment", row.id>>],
     activity |-> IF row.task = None THEN None ELSE Node(resolved, row.task),
     resource |-> Ref(resolved, "resource", row.resource),
     placeholder |-> row.resource = None,
     units |-> Permille(row.units), percent |-> Permille(row.percent), start |-> Date(row.start),
     budgeted |-> SpanOrZero(row.work), actual |-> SpanOrZero(row.actual),
     left |-> SpanOrZero(row.remaining),
     fields |-> UnsupportedFields("work", Duration(row.work, None))
                \union UnsupportedFields("actual_work", Duration(row.actual, None))
                \union UnsupportedFields("remaining_work", Duration(row.remaining, None))
                \union {<<flag, "1">> : flag \in row.flags}
                \union (IF AsDuration(Duration(row.actual, None)) = None THEN {}
                        ELSE {<<"actual_work_present", "1">>})
                \union (IF MeasuredTimephased(row) THEN {<<"timephased", "24h">>} ELSE {})]

CanonicalState(row, resolved) ==
    [activity |-> Node(resolved, row.owner),
     duration |-> AsDuration(Duration(row.duration, None)),
     work |-> AsDuration(Duration(row.work, None)),
     fields |-> UnsupportedFields("duration", Duration(row.duration, None))
                \union UnsupportedFields("work", Duration(row.work, None))]

CanonicalBaseline(slot, doc, resolved) ==
    [uid |-> resolved[<<"baseline", slot>>],
     states |-> {CanonicalState(row, resolved) :
                    row \in {r \in ToSet(doc.baseline) :
                                r.slot = slot /\ Node(resolved, r.owner) # None}}]

CanonicalProject(project, resolved) ==
    [start |-> Date(project.start),
     direction |-> IF project.fromStart = FALSE THEN "from_finish" ELSE "from_start",
     threshold |-> CriticalThreshold(project),
     calendar |-> CalendarUid(resolved, project.calendar)]

Rows(doc, kind) == 1..Len(doc[kind])
Slots(doc) == {row.slot : row \in ToSet(doc.baseline)}
Kept(doc, resolved) ==
    {n \in Rows(doc, "relationship") : ~Dangling(resolved, doc.relationship[n])}

Schedule(doc, resolved) ==
    [calendars |-> [n \in Rows(doc, "calendar") |->
                        CanonicalCalendar(doc.calendar[n], resolved)],
     definitions |-> [n \in Rows(doc, "udf") |-> CanonicalDefinition(doc.udf[n], resolved)],
     wbs |-> [n \in Rows(doc, "wbs_node") |-> CanonicalWbs(doc.wbs_node[n], resolved)],
     activities |-> [n \in Rows(doc, "activity") |->
                         CanonicalActivity(doc.activity[n], resolved, Aliases(doc))],
     relationships |-> [n \in Kept(doc, resolved) |->
                            CanonicalRelationship(doc.relationship[n], resolved)],
     resources |-> [n \in Rows(doc, "resource") |->
                        CanonicalResource(doc.resource[n], resolved)],
     assignments |-> [n \in Rows(doc, "assignment") |->
                          CanonicalAssignment(doc.assignment[n], resolved)],
     baselines |-> [slot \in Slots(doc) |-> CanonicalBaseline(slot, doc, resolved)],
     project |-> CanonicalProject(doc.project, resolved)]
=============================================================================
