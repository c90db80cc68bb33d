------------------------------ MODULE Reimport ------------------------------
(***************************************************************************)
(* Imports into one project.  Each reads the head baseline, migrates its   *)
(* document row by row on a copy of the head's identity map, and commits a *)
(* new baseline if the head has not moved; a row that cannot be read ends  *)
(* the import.  ScheduleStore models the transactions; here the baselines  *)
(* have the content that migrate gives them.                               *)
(***************************************************************************)
EXTENDS SourceMigration

CONSTANTS
    Importers,      \* request threads that import
    Documents,      \* documents the file importer can hand over
    MaxImports      \* bound on committed imports

ASSUME MaxImportsAssumption == MaxImports \in Nat

VARIABLES
    baselines,      \* the baseline versions: document, schedule, identity, entries
    importer        \* what each import holds in its locals

vars == <<baselines, importer>>

Idle == [stage |-> "idle"]
Latest == Len(baselines)
Becomes(i, request) == importer' = [importer EXCEPT ![i] = request]

----------------------------------------------------------------------------
(* The rows of a document in the order migrate resolves them.               *)
Tagged(kind, rows) == [n \in 1..Len(rows) |-> [kind |-> kind, row |-> rows[n]]]
SlotRows(doc) == LET slots == SetToSortSeq(Slots(doc), <)
                 IN [n \in 1..Len(slots) |-> [slot |-> slots[n]]]
Items(doc) ==
    Tagged("calendar", doc.calendar) \o Tagged("udf", doc.udf)
    \o Tagged("wbs_node", doc.wbs_node) \o Tagged("activity", doc.activity)
    \o Tagged("relationship", doc.relationship) \o Tagged("resource", doc.resource)
    \o Tagged("assignment", doc.assignment) \o Tagged("baseline", SlotRows(doc))

(* GUIDs that two rows of one collection with different UIDs claim.         *)
DuplicateGuids(doc) ==
    {claim \in {<<item.kind, GuidOf(item)>> : item \in ToSet(Items(doc))} :
        /\ claim[2] # None
        /\ \E m, n \in Rows(doc, claim[1]) :
              /\ doc[claim[1]][m].guid = claim[2] /\ doc[claim[1]][n].guid = claim[2]
              /\ ExternalOf(doc[claim[1]][m]) # ExternalOf(doc[claim[1]][n])}

(* They are quarantined before any row is resolved.                         *)
Scanned(identity, doc) == Quarantined(identity, DuplicateGuids(doc))

Begin(i, doc) ==
    /\ importer[i] = Idle
    /\ Latest < MaxImports
    /\ Becomes(i, [stage |-> "migrating", base |-> Latest, doc |-> doc, todo |-> Items(doc),
                   identity |-> Scanned(IF Latest = 0 THEN NoIdentity
                                        ELSE Reloaded(baselines[Latest].identity), doc),
                   resolved |-> EmptyMap, entries |-> {}])
    /\ UNCHANGED baselines

Migrating(i) == importer[i].stage = "migrating"
AtEnd(i) == Migrating(i) /\ importer[i].todo = <<>>
Item(i) == importer[i].todo[1]
Unreadable(i) ==
    IF AtEnd(i) THEN UnreadableDate(importer[i].doc.project.start)
    ELSE UnreadableRow(Item(i), importer[i].resolved, importer[i].doc)

(* Resolve the row and remember its identity, under the name it is known    *)
(* by in the document.                                                      *)
ResolveItem(i, item) ==
    LET r == importer[i]
        key == KeyOf(item, r.resolved)
        answer == Resolve(r.identity, item.kind, key, GuidOf(item), None)
    IN Becomes(i, [r EXCEPT !.todo = Tail(@),
                            !.identity = answer.identity,
                            !.entries = @ \union {answer.entry},
                            !.resolved = Put(@, LocalName(item, key), answer.entry.uid)])

MigrateRow(i) ==
    /\ Migrating(i) /\ ~AtEnd(i) /\ ~Unreadable(i)
    /\ Item(i).kind # "relationship"
    /\ ResolveItem(i, Item(i))
    /\ UNCHANGED baselines

MigrateRelationship(i) ==
    /\ Migrating(i) /\ ~AtEnd(i)
    /\ Item(i).kind = "relationship"
    /\ ~Dangling(importer[i].resolved, Item(i).row)
    /\ ResolveItem(i, Item(i))
    /\ UNCHANGED baselines

SkipDangling(i) ==
    /\ Migrating(i) /\ ~AtEnd(i)
    /\ Item(i).kind = "relationship"
    /\ Dangling(importer[i].resolved, Item(i).row)
    /\ Becomes(i, [importer[i] EXCEPT !.todo = Tail(@)])
    /\ UNCHANGED baselines

(* MigrationError: the failure is recorded, the copy of the map is dropped.  *)
Refuse(i) ==
    /\ Migrating(i) /\ Unreadable(i)
    /\ Becomes(i, Idle)
    /\ UNCHANGED baselines

(* What the document carried, under the keys it carried it by, and what the  *)
(* map knows and the document did not carry.                                *)
Report(request) ==
    request.entries \union MissingSince(request.identity, {e.key : e \in request.entries})

HeadMoved(request) == request.base # Latest

Commit(i) ==
    /\ AtEnd(i) /\ ~Unreadable(i) /\ ~HeadMoved(importer[i]) /\ Latest < MaxImports
    /\ LET r == importer[i]
       IN baselines' = Append(baselines, [doc |-> r.doc,
                                          schedule |-> Schedule(r.doc, r.resolved),
                                          identity |-> r.identity,
                                          entries |-> Report(r)])
    /\ Becomes(i, Idle)

(* StaleSchedule: another import committed first.                           *)
Stale(i) ==
    /\ AtEnd(i) /\ ~Unreadable(i) /\ HeadMoved(importer[i])
    /\ Becomes(i, Idle)
    /\ UNCHANGED baselines

Init ==
    /\ baselines = <<>>
    /\ importer = [i \in Importers |-> Idle]

Next == \E i \in Importers :
    \/ \E doc \in Documents : Begin(i, doc)
    \/ MigrateRow(i) \/ MigrateRelationship(i) \/ SkipDangling(i)
    \/ Refuse(i) \/ Commit(i) \/ Stale(i)

Spec == Init /\ [][Next]_vars

----------------------------------------------------------------------------
(* Properties                                                              *)

Carried(n) == {e.uid : e \in {x \in baselines[n].entries : x.outcome # "missing"}}
Missing(n) == {e.uid : e \in {x \in baselines[n].entries : x.outcome = "missing"}}
Known(n) == {baselines[n].identity.byExternal[key] :
                key \in DOMAIN baselines[n].identity.byExternal}

(* A row reported new has an identity that no baseline ever gave to a row,  *)
(* also when it reuses the UID of a row that was renumbered away from it.   *)
NewIsNew ==
    \A n \in 1..Latest : \A e \in baselines[n].entries :
        e.outcome = "new" => \A m \in 1..(n - 1) : e.uid \notin Carried(m)

(* An import accounts once for every entity its predecessor knew: the new   *)
(* document carries it or the report calls it missing, never both, and      *)
(* nothing the identity map knows is lost with an import that was refused   *)
(* or overtaken.                                                            *)
AccountedOnce ==
    \A n \in 2..Latest :
        /\ Known(n - 1) \subseteq Carried(n) \union Missing(n)
        /\ Carried(n) \intersect Missing(n) = {}

(* The report of an import is true of every import before it: what it calls  *)
(* new no earlier baseline carried, and it accounts for all that was known.  *)
ReportIsTrue == NewIsNew /\ AccountedOnce

(* A GUID that two rows of one imported document claimed never again says   *)
(* which row is which, in that import or in any later one.                  *)
QuarantineLasts ==
    \A m \in 1..Latest : \A n \in m..Latest :
        DuplicateGuids(baselines[m].doc) \intersect DOMAIN baselines[n].identity.byGuid = {}

(* The identity maps, stored and worked on, stay one to one: what is written *)
(* of them is enough to read them back.                                     *)
OneToOne(identity) ==
    /\ \A key \in DOMAIN identity.byExternal :
          /\ identity.byExternal[key] \in DOMAIN identity.externalOf
          /\ identity.byExternal[key][1] = key[1]
          /\ identity.externalOf[identity.byExternal[key]] = key[2]
    /\ \A uid \in DOMAIN identity.externalOf :
          /\ <<uid[1], identity.externalOf[uid]>> \in DOMAIN identity.byExternal
          /\ identity.byExternal[<<uid[1], identity.externalOf[uid]>>] = uid

MapsAreOneToOne ==
    /\ \A n \in 1..Latest : OneToOne(baselines[n].identity)
    /\ \A i \in Importers : Migrating(i) => OneToOne(importer[i].identity)

(* What a planner can tell of a row's work, its calendar and its units.     *)
Said(text, format) ==
    IF text \in {"absent", "unsupported", "fraction"} THEN <<text>>
    ELSE <<text, IF format = "elapsed" THEN "elapsed" ELSE "working">>
CalendarSaid(doc, id) ==
    IF id = None THEN "project"
    ELSE IF \E row \in ToSet(doc.calendar) : row.id = id THEN "own" ELSE "broken"
Meaning(doc, row) ==
    <<Said(row.duration, row.format), Said(row.remaining, row.format), Said(row.work, None),
      CalendarSaid(doc, row.calendar), row.milestone, row.flags,
      row.format \in {"absent", "working", "elapsed", "null"}>>

AssignmentMeaning(row) ==
    <<row.work \in {"unsupported", "fraction"}, row.actual,
      row.remaining \in {"unsupported", "fraction"}, row.resource = None>>

(* Rows of which the source says different things stay different in the     *)
(* canonical schedule: absent is not unreadable, unreadable is not zero, a   *)
(* calendar that is not in the file is not the project's calendar.           *)
MeaningKept ==
    \A n \in 1..Latest :
        LET doc == baselines[n].doc
            activities == baselines[n].schedule.activities
            assignments == baselines[n].schedule.assignments
        IN /\ \A a, b \in DOMAIN activities :
                 Meaning(doc, doc.activity[a]) # Meaning(doc, doc.activity[b])
                     => [activities[a] EXCEPT !.uid = None] # [activities[b] EXCEPT !.uid = None]
           /\ \A a, b \in DOMAIN assignments :
                 AssignmentMeaning(doc.assignment[a]) # AssignmentMeaning(doc.assignment[b])
                     => [assignments[a] EXCEPT !.uid = None] # [assignments[b] EXCEPT !.uid = None]

(* Two rows of a document with different UIDs have different identities.    *)
RowsApart(n) == \A e, f \in baselines[n].entries : e.uid = f.uid => e.key = f.key
OneRowPerIdentity == \A n \in 1..Latest : RowsApart(n)
=============================================================================
