--------------------------- MODULE LegacyWorkspace ---------------------------
(* The local workspace server of src/src/sto/legacy: one session, held under *)
(* a lock, replaced by every import and edited by one duration override at a *)
(* time. Each request runs on a thread of its own; an import reads, checks   *)
(* and calculates its file before it takes the lock.                         *)
EXTENDS LegacyCalculation

CONSTANTS Clients, Files, Edits,        \* Edits: <<activity, duration>> pairs asked for
          MaxImports, MaxRevision       \* bounds: sessions built, scenarios of a session

(* What the parser of the XML file leaves to the program: sequences of rows  *)
(* whose numbers and dates are numbers, or None.                             *)
Rows(rows) == rows \in Seq(ToSet(rows))
Parsed(file) ==
    /\ Rows(file.tasks) /\ Rows(file.calendars) /\ Rows(file.assignments)
    /\ Known({file.project.start, file.project.finish})
    /\ \A row \in ToSet(file.tasks) :
          /\ Known({row.level, row.start, row.finish, row.duration})
          /\ Rows(row.links) /\ \A link \in ToSet(row.links) : Known({link.lag})
    /\ \A source \in ToSet(file.calendars) :
          /\ Rows(source.specials) /\ Rows(source.exceptions)
          /\ \A range \in Dated(source) : Known({range.from, range.to})

ASSUME FilesAssumption == \A file \in Files : Parsed(file)
(* The server refuses a duration that is no integer before it is asked for; *)
(* an override is never mistaken for none.                                  *)
ASSUME EditsAssumption ==
    \A edit \in Edits :
        /\ edit[2] \in Int
        /\ None \notin [activity : {edit[1]}, duration : Int, original : Int]
ASSUME BoundsAssumption == {MaxImports, MaxRevision} \subseteq Nat

VARIABLES
    session,        \* the session every request is answered from, or None
    building,       \* for each client, the session its import has built, or None
    answer,         \* for each client, the last answer it was given
    imports         \* sessions built

vars == <<session, building, answer, imports>>

----------------------------------------------------------------------------
(* A session.                                                                *)

Opened(doc, profile, base, number) ==
    [number |-> number, workspace |-> doc.sha, doc |-> doc, profile |-> profile,
     projection |-> EngineProjection(doc, profile), base |-> base,
     currentProjection |-> EngineProjection(doc, profile), current |-> base,
     override |-> None, revision |-> 0]

Unsuccessful(code) == [code |-> code]

(* The session built from a file, or why there is none.                     *)
FromMspdi(file, number) ==
    LET doc == ImportMspdi(file)
        profile == CalculationProfile(doc)
        base == ForwardSchedule(EngineProjection(doc, profile))
    IN IF doc = None THEN Unsuccessful("IMPORT_FAILED")
       ELSE IF profile = None THEN Unsuccessful("WORKSPACE_ERROR")
       ELSE IF base = None THEN Unsuccessful("WORKSPACE_ERROR")
       ELSE Opened(doc, profile, base, number)

Moved(s, calculation) == {id \in DOMAIN calculation : calculation[id] # s.base[id]}

SafeHorizonUnchecked(s, calculation) == {}
SafeHorizonViolations(s, calculation) ==
    LET horizon == Horizon(s.doc)
    IN {id \in Moved(s, calculation) :
           /\ s.profile.effective[id].ignored > 0
           /\ \/ calculation[id].start < horizon.start
              \/ calculation[id].finish > horizon.finish}

CandidateOfCurrent(s, id, duration) ==
    [s.currentProjection EXCEPT !.activities[id].duration = duration]
CandidateProjection(s, id, duration) ==
    [s.projection EXCEPT !.activities[id].duration = duration]

DownstreamCount(s, id) == Cardinality(Downstream(s.projection, id))

(* The activity the page offers first: the one with most to move.           *)
Editable(s) == {id \in s.profile.eligible : ~s.projection.activities[id].milestone}
Recommended(s) ==
    IF Editable(s) = {} THEN None
    ELSE CHOOSE id \in Editable(s) : \A other \in Editable(s) \ {id} :
            \/ DownstreamCount(s, other) < DownstreamCount(s, id)
            \/ /\ DownstreamCount(s, other) = DownstreamCount(s, id)
               /\ s.projection.activities[id].order < s.projection.activities[other].order

View(s) ==
    [code |-> "OK", number |-> s.number, workspace |-> s.workspace, revision |-> s.revision,
     override |-> s.override, moved |-> Moved(s, s.current), recommended |-> Recommended(s)]

----------------------------------------------------------------------------
(* Imports.                                                                  *)

Init ==
    /\ session = None
    /\ building = [c \in Clients |-> None]
    /\ answer = [c \in Clients |-> None]
    /\ imports = 0

(* The replacement is built before the lock is taken, so that a file that    *)
(* cannot be read leaves the session alone.                                  *)
Import(c, file) ==
    LET opened == FromMspdi(file, imports + 1)
    IN /\ building[c] = None /\ imports < MaxImports
       /\ IF "code" \in DOMAIN opened
          THEN /\ answer' = [answer EXCEPT ![c] = opened]
               /\ UNCHANGED <<building, imports>>
          ELSE /\ building' = [building EXCEPT ![c] = opened]
               /\ imports' = imports + 1
               /\ UNCHANGED answer
       /\ UNCHANGED session

Install(c) ==
    /\ building[c] # None
    /\ session' = building[c]
    /\ building' = [building EXCEPT ![c] = None]
    /\ answer' = [answer EXCEPT ![c] = View(building[c])]
    /\ UNCHANGED imports

----------------------------------------------------------------------------
(* Requests on the session, under the lock.                                 *)

Serves(workspace) == session # None /\ session.workspace = workspace

Answer(c, value) ==
    /\ answer' = [answer EXCEPT ![c] = value]
    /\ UNCHANGED <<building, imports>>

NotFound(c, workspace) ==
    /\ building[c] = None /\ ~Serves(workspace)
    /\ Answer(c, Unsuccessful("WORKSPACE_NOT_FOUND"))
    /\ UNCHANGED session

Show(c, workspace) ==
    /\ building[c] = None /\ Serves(workspace)
    /\ Answer(c, View(session))
    /\ UNCHANGED session

(* The answer's code: what refuses the edit, or OK.                         *)
EditCode(s, id, duration) ==
    IF duration <= 0 THEN "DURATION_INVALID"
    ELSE IF id \in Ids(s.doc.wbs) THEN "SUMMARY_TASK_UNSUPPORTED"
    ELSE IF id \notin Ids(s.doc.activities) THEN "ACTIVITY_NOT_FOUND"
    ELSE IF id \notin s.profile.eligible THEN "ACTIVITY_INELIGIBLE"
    ELSE IF s.projection.activities[id].milestone THEN "MILESTONE_UNSUPPORTED"
    ELSE LET calculation == ForwardSchedule(CandidateProjection(s, id, duration))
         IN IF calculation = None THEN "SCENARIO_CALCULATION_FAILED"
            ELSE IF SafeHorizonViolations(s, calculation) # {}
                 THEN "SCENARIO_OUTSIDE_SAFE_HORIZON" ELSE "OK"

Overridden(s, id, duration) ==
    LET candidate == CandidateProjection(s, id, duration)
    IN [s EXCEPT !.currentProjection = candidate,
                 !.current = ForwardSchedule(candidate),
                 !.override = [activity |-> id, duration |-> duration,
                               original |-> s.projection.activities[id].duration],
                 !.revision = @ + 1]

SetDuration(c, workspace, id, duration) ==
    /\ building[c] = None /\ Serves(workspace)
    /\ LET code == EditCode(session, id, duration)
       IN IF code # "OK"
          THEN Answer(c, Unsuccessful(code)) /\ UNCHANGED session
          ELSE /\ session.revision < MaxRevision
               /\ session' = Overridden(session, id, duration)
               /\ Answer(c, View(session'))

ResetScenario(s) ==
    IF s.override = None THEN s
    ELSE [s EXCEPT !.currentProjection = s.projection, !.current = s.base,
                   !.override = None, !.revision = @ + 1]

Reset(c, workspace) ==
    /\ building[c] = None /\ Serves(workspace)
    /\ session.revision < MaxRevision
    /\ session' = ResetScenario(session)
    /\ Answer(c, View(session'))

Workspaces == {file.sha : file \in Files}

Next ==
    \E c \in Clients :
        \/ \E file \in Files : Import(c, file)
        \/ Install(c)
        \/ \E workspace \in Workspaces :
              \/ NotFound(c, workspace)
              \/ Show(c, workspace)
              \/ \E edit \in Edits : SetDuration(c, workspace, edit[1], edit[2])
              \/ Reset(c, workspace)

Spec == Init /\ [][Next]_vars

----------------------------------------------------------------------------
(* Properties.                                                               *)

Sessions == ({session} \union {building[c] : c \in Clients}) \ {None}

(* What is shown is the imported schedule with one duration replaced: a      *)
(* second override starts again from the import, and reset returns to it     *)
(* (WorkspaceSession.set_duration, reset).                                   *)
CurrentIsOneOverride ==
    \A s \in Sessions :
        /\ s.current = ForwardSchedule(s.currentProjection)
        /\ \A id \in s.profile.eligible :
              s.currentProjection.activities[id].duration =
                  IF s.override # None /\ s.override.activity = id
                  THEN s.override.duration ELSE Activity(s.doc, id).duration

(* A scenario moves nothing but the activity it is on and what follows it    *)
(* through relationships of the document, no more of these than the page     *)
(* counts (_eligible_downstream_counts).                                     *)
Follows(doc, a, b) ==
    LET reached[n \in 0..Cardinality(doc.activities)] ==
            IF n = 0 THEN {a}
            ELSE LET before == reached[n - 1]
                 IN before \union
                    {r.succ : r \in {s \in doc.relationships : s.pred \in before}}
    IN b \in reached[Cardinality(doc.activities)]

MovedIsDownstream ==
    \A s \in Sessions :
        LET moved == Moved(s, s.current)
        IN IF s.override = None THEN moved = {}
           ELSE /\ \A id \in moved : Follows(s.doc, s.override.activity, id)
                /\ Cardinality(moved \ {s.override.activity})
                     <= DownstreamCount(s, s.override.activity)

(* Every relationship of the document into a calculated activity comes from  *)
(* a calculated one and is kept by the dates, whichever relationships the    *)
(* profile left out (build_calculation_profile).                             *)
LinksAreRespected ==
    \A s \in Sessions : \A r \in s.doc.relationships :
        r.succ \in DOMAIN s.current =>
            /\ r.type = "FS" /\ r.pred \in DOMAIN s.current
            /\ s.current[r.succ].start >= s.current[r.pred].finish + r.lag

(* An activity that a scenario moves works through no special day and no     *)
(* exception that its calendar was compiled without (calculation_source_    *)
(* horizon, _CalendarResolver.resolve, _safe_horizon_violations).           *)
Clear(doc, dates, refs) ==
    \A source \in {c \in ToSet(doc.calendars) : c.uid \in refs} :
        \A range \in Dated(source) : dates.finish < range.from \/ dates.start > range.to

MovedAvoidsExceptions ==
    \A s \in Sessions : \A id \in Moved(s, s.current) :
        Clear(s.doc, s.current[id], s.profile.effective[id].lineage)

(* The guard as the workspace document words it (docs/prototype0-local-     *)
(* schedule-workspace.md:41): a moved activity stays inside the horizon if   *)
(* exceptions of its calendars were left out, the calendars of all of the    *)
(* resources assigned to it among them.                                      *)
ResourceRefs(doc, id) ==
    {Resource(doc, a.resource).calendar : a \in ToSet(RealAssignments(doc, id))}

MovedAvoidsResourceExceptions ==
    \A s \in Sessions : \A id \in Moved(s, s.current) :
        Activity(s.doc, id).ignore = FALSE =>
            Clear(s.doc, s.current[id], ResourceRefs(s.doc, id))

(* The outline of an imported document is the outline of its rows: a row is  *)
(* under the last row before it of a lower level (_parse_tasks).             *)
Enclosing(items, item) ==
    {other \in items :
        /\ other.order < item.order /\ other.level < item.level
        /\ \A between \in items :
              between.order \in other.order + 1..item.order - 1 => between.level >= item.level}

OutlineIsKept ==
    \A s \in Sessions :
        LET items == s.doc.wbs \union s.doc.activities
        IN \A item \in items :
              /\ item.parent = None => Enclosing(items, item) = {}
              /\ item.parent # None => Ids(Enclosing(items, item)) = {item.parent}

(* A revision number of an import stands for one scenario: two answers that  *)
(* show the same revision show the same override and the same moves.         *)
RevisionTellsTheScenario ==
    \A c, d \in Clients :
        LET a == answer[c] b == answer[d]
        IN (/\ a # None /\ b # None /\ a.code = "OK" /\ b.code = "OK"
            /\ a.number = b.number /\ a.revision = b.revision)
               => a.override = b.override /\ a.moved = b.moved

(* A scenario is the base with one override, whatever was tried before it:   *)
(* nothing moves but what follows the overridden activity, and the revision  *)
(* a page shows tells the scenario (workspace.py:396-492).                  *)
ScenarioIsOneOverride == CurrentIsOneOverride /\ MovedIsDownstream /\ RevisionTellsTheScenario

(* What is calculated keeps the document: its outline, and every link into a *)
(* calculated activity (mspdi_tasks.py, calculation_eligibility.py).         *)
DocumentIsKept == OutlineIsKept /\ LinksAreRespected
=============================================================================
