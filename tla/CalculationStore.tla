-------------------------- MODULE CalculationStore --------------------------
(***************************************************************************)
(* A result in the database and out of it again: the header and the rows of *)
(* one calculation (repositories.py, insert_calculation; V002, V007), an     *)
(* edit of them by another hand, the read that rebuilds the result and       *)
(* checks it against the header's fingerprint (Workspace.read_calculation),  *)
(* and the duration edit a planner asks for on what was read                 *)
(* (Workspace.create_duration_scenario).                                     *)
(***************************************************************************)
EXTENDS PlanResult

VARIABLES
    stored,     \* the header with its three sets of rows, a refused insert, or None
    edited,     \* whether a row was changed after the insert
    served,     \* what the read answered: a result, a refusal, or None
    proposal    \* the planner's edit and how it was answered, or None

storeVars == <<stored, edited, served, proposal>>

V1 == "sto-result-v1"
V2 == "sto-result-v2"

----------------------------------------------------------------------------
(* Relationships.  A derived one has no identifier of the source: its own is *)
(* made of the three rows, and its detail names the two edges it stands for. *)

Derived(k) == k > Len(schedule.edges)
EdgeUid(k) ==
    IF Derived(k)
    THEN LET e == network.edges[k]
         IN  [source |-> 0, across |-> <<e.predecessor, e.boundary, e.successor>>]
    ELSE [source |-> k, across |-> <<>>]
Lineage(k) ==
    IF Derived(k)
    THEN <<CHOOSE j \in ScheduledInto(schedule, DOMAIN network.act, network.edges[k].boundary) : TRUE,
           k - Len(schedule.edges)>>
    ELSE <<>>
EdgeRow(x) ==
    [uid |-> EdgeUid(x[1]), disposition |-> x[2], code |-> x[3], lineage |-> Lineage(x[1])]

(* What _relationship_context_codes makes sure of before a row is served.    *)
LineageHolds(row) ==
    \/ row.uid.source \in DOMAIN schedule.edges
    \/ /\ row.code = "RELATIONSHIP_NATIVE_INACTIVE_BOUNDARY_DERIVED"
       /\ LET into == schedule.edges[row.lineage[1]]
              out == schedule.edges[row.lineage[2]]
          IN  /\ row.uid.across = <<into.predecessor, into.successor, out.successor>>
              /\ out.predecessor = into.successor
              /\ ~schedule.act[into.successor].active

----------------------------------------------------------------------------
(* The rows.                                                               *)

Late(row) == IF row.disposition = "scheduled" THEN row.late.remaining_start ELSE None
WithLate(row, at) ==
    IF row.disposition = "scheduled" THEN [row EXCEPT !.late.remaining_start = at] ELSE row

(* The result as a build of that profile makes it: the first one had no      *)
(* column for the start of the remaining work among the late dates.          *)
Computed(profile) ==
    [profile |-> profile,
     activities |-> [u \in DOMAIN result.rows |->
                        IF profile = V1 THEN WithLate(result.rows[u], None) ELSE result.rows[u]],
     relationships |-> {EdgeRow(x) : x \in result.edges},
     summaries |-> {<<v, result.summaries[v].span, Cardinality(result.summaries[v].leaves)>> :
                       v \in DOMAIN result.summaries},
     empty |-> result.empty]

(* A hash stands for the value it is taken of.                              *)
Fingerprint(answer) ==
    IF answer.profile # V1 THEN answer
    ELSE [answer EXCEPT !.activities =
             [u \in DOMAIN answer.activities |-> WithLate(answer.activities[u], None)]]

ActivityRows(answer) ==
    {[uid |-> u, columns |-> WithLate(answer.activities[u], None),
      late_remaining_start |-> Late(answer.activities[u])] : u \in DOMAIN answer.activities}

(* A branch with nothing beneath it is a row with no span.                   *)
SummaryRowsPlaced(answer) ==
    {[wbs_uid |-> s[1], span |-> s[2], placed |-> s[3]] : s \in answer.summaries}
SummaryRows(answer) ==
    {[wbs_uid |-> s[1], span |-> s[2], placed |-> s[3]] : s \in answer.summaries}
    \union {[wbs_uid |-> v, span |-> <<None, None>>, placed |-> 0] : v \in answer.empty}

(* The constraints of the tables.                                           *)
RowTaken(row) ==
    LET early == row.columns.early
        late == row.columns.late
        started == early.remaining_start # None
    IN  row.columns.disposition = "scheduled" =>
            /\ early.start <= early.finish
            /\ started <=> StateOf(network.act[row.uid]) = "in_progress"
            /\ started => early.start <= early.remaining_start
                          /\ early.remaining_start <= early.finish
            /\ row.late_remaining_start # None => started
            /\ late.finish >= IF row.late_remaining_start # None THEN row.late_remaining_start
                              ELSE late.start
SpanTaken(row) ==
    IF row.placed = 0 THEN row.span = <<None, None>>
    ELSE row.span[1] # None /\ row.span[1] <= row.span[2]

StoreCalculation(profile) ==
    LET answer == Computed(profile)
        activities == ActivityRows(answer)
        spans == SummaryRows(answer)
        taken == /\ \A row \in activities : RowTaken(row)
                 /\ \A row \in spans : SpanTaken(row)
    IN  /\ result # None /\ stored = None
        /\ stored' = [taken |-> taken, profile |-> profile, fingerprint |-> Fingerprint(answer),
                      relationships |-> answer.relationships, activities |-> activities,
                      summaries |-> spans]
        /\ UNCHANGED <<vars, edited, served, proposal>>

----------------------------------------------------------------------------
(* Another hand: one row, within what the constraints let through.          *)

Kept == stored # None /\ stored.taken
EditRow(row, other) ==
    /\ RowTaken(other) /\ other # row
    /\ stored' = [stored EXCEPT !.activities = (@ \ {row}) \union {other}]
    /\ edited' = TRUE
    /\ UNCHANGED <<vars, served, proposal>>
EditLate == \E row \in stored.activities :
    /\ row.columns.disposition = "scheduled"
    /\ EditRow(row, [row EXCEPT !.late_remaining_start = row.columns.early.start])
EditEarly == \E row \in stored.activities :
    /\ row.columns.disposition = "scheduled"
    /\ EditRow(row, [row EXCEPT !.columns.early.start = @ - 1])
DropSpan == \E row \in stored.summaries :
    /\ stored' = [stored EXCEPT !.summaries = @ \ {row}]
    /\ edited' = TRUE
    /\ UNCHANGED <<vars, served, proposal>>

----------------------------------------------------------------------------
(* The read.                                                               *)

Rebuilt ==
    [profile |-> stored.profile,
     activities |-> [u \in {row.uid : row \in stored.activities} |->
                        LET row == CHOOSE r \in stored.activities : r.uid = u
                        IN  WithLate(row.columns, row.late_remaining_start)],
     relationships |-> stored.relationships,
     summaries |-> {<<row.wbs_uid, row.span, row.placed>> :
                       row \in {r \in stored.summaries : r.span[1] # None}},
     empty |-> {row.wbs_uid : row \in {r \in stored.summaries : r.span[1] = None}}]

(* The first profile's fingerprint does not cover the column added since.    *)
Unauthenticated ==
    stored.profile = V1 /\ \E row \in stored.activities : row.late_remaining_start # None

ReadCalculation ==
    /\ Kept /\ served = None
    /\ LET sound == /\ ~Unauthenticated
                    /\ Fingerprint(Rebuilt) = stored.fingerprint
                    /\ \A row \in Rebuilt.relationships : LineageHolds(row)
       IN  served' = IF sound THEN [refused |-> FALSE, answer |-> Rebuilt] ELSE [refused |-> TRUE]
    /\ UNCHANGED <<vars, stored, edited, proposal>>

----------------------------------------------------------------------------
(* The planner's edit of a duration.                                        *)

(* What is said of a relationship is said of the rows at its ends, but for   *)
(* a derived one, which is the measured rule itself.                         *)
ContextOfSuccessor(u) ==
    {row.code : row \in {r \in served.answer.relationships :
        r.uid.source # 0 /\ schedule.edges[r.uid.source].successor = u}}
ContextOf(u) ==
    {row.code : row \in {r \in served.answer.relationships :
        r.uid.source # 0 /\ u \in Endpoints(schedule.edges[r.uid.source])}}

(* The reasons to refuse it; None is not one of them.                        *)
ProposalCodes ==
    {"DURATION_INVALID", "ACTIVITY_NOT_LEAF_TASK", "ACTIVITY_INACTIVE",
     "ACTIVITY_MANUALLY_SCHEDULED", "ACTIVITY_HAS_PROGRESS", "ACTIVITY_DURATION_UNAVAILABLE",
     "ACTIVITY_REMAINING_DURATION_ZERO", "ACTIVITY_NOT_SUPPORTED", "ACTIVITY_HAS_ASSUMPTIONS",
     "DURATION_UNCHANGED"}
ASSUME ProposalCodesAssumption == None \notin ProposalCodes

ScenarioAssumptions(u) == served.answer.activities[u].assumptions \union ContextOf(u)

ProposalRefusal(u, seconds) ==
    LET a == schedule.act[u]
        row == served.answer.activities[u]
        scheduled == row.disposition = "scheduled"
    IN  FirstOf(<< <<seconds <= 0, "DURATION_INVALID">>,
                   <<a.kind # "task", "ACTIVITY_NOT_LEAF_TASK">>,
                   <<~a.active, "ACTIVITY_INACTIVE">>,
                   <<a.manual, "ACTIVITY_MANUALLY_SCHEDULED">>,
                   <<a.actual_start # None \/ a.actual_finish # None, "ACTIVITY_HAS_PROGRESS">>,
                   <<a.duration = None, "ACTIVITY_DURATION_UNAVAILABLE">>,
                   <<a.duration = 0, "ACTIVITY_DURATION_UNAVAILABLE">>,
                   <<a.remaining = 0, "ACTIVITY_REMAINING_DURATION_ZERO">>,
                   <<~scheduled, "ACTIVITY_NOT_SUPPORTED">>,
                   <<scheduled /\ ScenarioAssumptions(u) # {}, "ACTIVITY_HAS_ASSUMPTIONS">>,
                   <<a.duration = seconds, "DURATION_UNCHANGED">> >>)

Propose(u, seconds) ==
    /\ served # None /\ ~served.refused /\ proposal = None
    /\ proposal' = [row |-> u, refusal |-> ProposalRefusal(u, seconds)]
    /\ UNCHANGED <<vars, stored, edited, served>>

----------------------------------------------------------------------------
StoreInit ==
    /\ CalculationInit
    /\ stored = None /\ edited = FALSE /\ served = None /\ proposal = None

StoreNext ==
    \/ Next /\ UNCHANGED storeVars
    \/ \E profile \in {V1, V2} : StoreCalculation(profile)
    \/ Kept /\ ~edited /\ served = None /\ (EditLate \/ EditEarly \/ DropSpan)
    \/ ReadCalculation
    \/ \E u \in IF served # None THEN DOMAIN schedule.act ELSE {}, seconds \in 0..2 :
          Propose(u, seconds)

StoreSpec == StoreInit /\ [][StoreNext]_<<vars, storeVars>>

----------------------------------------------------------------------------
(* What must hold.                                                         *)

(* What the engine answers is always stored, and what is read back is what   *)
(* it answered or nothing: no row of a result breaks a constraint of its     *)
(* table, no rebuilt result misses its fingerprint or its lineage, and an    *)
(* edited row is never served (working_schedule.py, read_calculation: "a row *)
(* edited after the insert would be served as an answer while the            *)
(* fingerprint still attested to the original").                             *)
AnswerIsReadBack ==
    /\ SaidOnce
    /\ stored # None /\ stored.profile = V2 => stored.taken
    /\ served # None =>
          IF edited THEN served.refused ELSE ~served.refused /\ served.answer = Computed(stored.profile)

(* A row whose duration a planner may edit rests on all of its own logic:    *)
(* every relationship of it took part in the answer it is compared with.     *)
EditsKeepTheirLogic ==
    proposal # None /\ proposal.refusal = None =>
        \A k \in DOMAIN schedule.edges :
            proposal.row \in Endpoints(schedule.edges[k]) =>
                k \in DOMAIN network.edges \ passes.backward.released

(* The measured rule over an inactive row alone refuses no edit: a row at    *)
(* the end of a derived edge, with no assumption of its own and nothing said *)
(* of its relationships but those the rule replaces, may be edited           *)
(* (working_schedule.py:187-188).                                            *)
Replaced == UNION {{Lineage(k)[1], Lineage(k)[2]} : k \in Boundary(network)}
DerivedRuleRefusesNothing ==
    proposal # None /\ proposal.refusal = "ACTIVITY_HAS_ASSUMPTIONS" =>
        \/ served.answer.activities[proposal.row].assumptions # {}
        \/ \E row \in served.answer.relationships :
              /\ row.uid.source \notin Replaced \union {0}
              /\ proposal.row \in Endpoints(schedule.edges[row.uid.source])
=============================================================================
