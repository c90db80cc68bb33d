----------------------------- MODULE PlanResult -----------------------------
(***************************************************************************)
(* A plan calculated and assembled into one result                         *)
(* (Workspace._calculate_working, core/engine/rollup.py, result.py): the   *)
(* passes over its network, the span of every summary row rolled up from    *)
(* the rows beneath it, and what the answer of each row rests on.           *)
(***************************************************************************)
EXTENDS PlanBuild

VARIABLES
    passes,    \* the forward and backward pass, their refusal, or None
    stack,     \* roll-up: the summaries being answered, the outermost first
    answered,  \* roll-up: the answer of each row: its span and leaves, or None
    cyclic,    \* roll-up: the summaries that reach a cycle
    result     \* the assembled result, or None

rollVars == <<stack, answered, cyclic>>
vars == <<planVars, passes, rollVars, result>>

----------------------------------------------------------------------------
(* The passes.                                                             *)

BothPasses(net, forward) ==
    LET Late(backward) ==
            IF backward.error # None THEN [error |-> backward.error]
            ELSE IF FloatFails(net, forward, backward)
            THEN [error |-> "SCHEDULE_FLOAT_UNREACHABLE"]
            ELSE [error |-> None, forward |-> forward, backward |-> backward]
    IN  IF forward.error # None THEN [error |-> forward.error]
        ELSE Late(BackwardPass(net, forward, forward.finish))

Planning == plan = None \/ plan.error # None
CalculatePasses ==
    /\ ~Planning /\ passes = None
    /\ passes' = BothPasses(plan.network, ForwardPass(plan.network, plan.rule))
    /\ UNCHANGED <<planVars, rollVars, result>>

Calculated == ~Planning /\ passes # None /\ passes.error = None

----------------------------------------------------------------------------
(* The roll-up: a walk down the hierarchy that answers a summary when all   *)
(* beneath it is answered.  Neither the order of the summaries nor that of  *)
(* the rows beneath one may matter, so both are left open.                  *)

Summaries == DOMAIN plan.children
PlacedSpan(u) == <<passes.forward.times[u].start, passes.forward.times[u].finish>>
Frame(u) == [uid |-> u, todo |-> plan.children[u], spans |-> {}, leaves |-> {}, poisoned |-> FALSE]
Top == stack[Len(stack)]

(* What a row answered adds to the summary above it.                        *)
Absorbed(frame, child, answer, cycles) ==
    [frame EXCEPT !.todo = @ \ {child}, !.poisoned = @ \/ child \in cycles,
                  !.spans = IF answer = None THEN @ ELSE @ \union {answer.span},
                  !.leaves = IF answer = None THEN @ ELSE @ \union answer.leaves]

AnswerOf(frame) ==
    IF frame.poisoned \/ frame.spans = {} THEN None
    ELSE [span |-> <<Min({sp[1] : sp \in frame.spans}), Max({sp[2] : sp \in frame.spans})>>,
          leaves |-> frame.leaves]

EnterRoot(u) ==
    /\ Calculated /\ stack = <<>> /\ u \notin DOMAIN answered
    /\ stack' = <<Frame(u)>>
    /\ UNCHANGED <<planVars, passes, answered, cyclic, result>>

OnStack == {stack[n].uid : n \in DOMAIN stack}

(* A summary met again while it is being answered closes a cycle: all from  *)
(* it down are on it.                                                       *)
CycleFromForgotten(child) == {}
CycleFrom(child) ==
    {stack[n].uid : n \in (CHOOSE m \in DOMAIN stack : stack[m].uid = child)..Len(stack)}
MeetCycle(child) ==
    /\ stack # <<>> /\ child \in Top.todo \intersect OnStack
    /\ cyclic' = cyclic \union CycleFrom(child)
    /\ stack' = [stack EXCEPT ![Len(stack)] = Absorbed(Top, child, None, cyclic')]
    /\ UNCHANGED <<planVars, passes, answered, result>>

MeetRow(child) ==
    /\ stack # <<>> /\ child \in Top.todo \ OnStack
    /\ child \in DOMAIN answered \/ child \notin Summaries
    /\ LET answer == IF child \in DOMAIN answered THEN answered[child]
                     ELSE IF child \in DOMAIN passes.forward.times
                     THEN [span |-> PlacedSpan(child), leaves |-> {child}] ELSE None
       IN  /\ stack' = [stack EXCEPT ![Len(stack)] = Absorbed(Top, child, answer, cyclic)]
           /\ answered' = [u \in DOMAIN answered \union {child} |->
                              IF u = child THEN answer ELSE answered[u]]
    /\ UNCHANGED <<planVars, passes, cyclic, result>>

Descend(child) ==
    /\ stack # <<>> /\ child \in (Top.todo \intersect Summaries) \ (OnStack \union DOMAIN answered)
    /\ stack' = Append(stack, Frame(child))
    /\ UNCHANGED <<planVars, passes, answered, cyclic, result>>

Return ==
    /\ stack # <<>> /\ Top.todo = {}
    /\ LET above == SubSeq(stack, 1, Len(stack) - 1)
           answer == AnswerOf(Top)
       IN  /\ cyclic' = IF Top.poisoned THEN cyclic \union {Top.uid} ELSE cyclic
           /\ answered' = [u \in DOMAIN answered \union {Top.uid} |->
                              IF u = Top.uid THEN answer ELSE answered[u]]
           /\ stack' = IF above = <<>> THEN <<>>
                       ELSE [above EXCEPT ![Len(above)] =
                                Absorbed(@, Top.uid, answer, cyclic')]
    /\ UNCHANGED <<planVars, passes, result>>

RolledUp == Calculated /\ stack = <<>> /\ Summaries \subseteq DOMAIN answered

----------------------------------------------------------------------------
(* The result.                                                             *)

DirectProgressAssumption == "ACTIVITY_IN_PROGRESS_LATE_DATES_ASSUMED"
DerivedProgressAssumption == "ACTIVITY_LATE_DATES_DEPEND_ON_ASSUMED_PROGRESS"

(* Late dates that rest on progress no evidence supports: followed along    *)
(* the edge that held each row, successors first.                           *)
HeldBy(u) == passes.backward.times[u].driver
DependsForward(direct) ==
    FoldLeft(LAMBDA done, u :
                 IF HeldBy(u) # None /\ plan.network.edges[HeldBy(u)].successor \in done
                 THEN done \union {u} ELSE done,
             direct, TopologicalOrder(plan.network))
ProgressDependent(direct) ==
    FoldLeft(LAMBDA done, u :
                 IF HeldBy(u) # None /\ plan.network.edges[HeldBy(u)].successor \in done
                 THEN done \union {u} ELSE done,
             direct, Reverse(TopologicalOrder(plan.network)))

Direct == {row[1] : row \in {r \in plan.assumed : r[2] = DirectProgressAssumption}}
RestsOn(u) ==
    {row[2] : row \in {r \in plan.assumed : r[1] = u}}
    \union (IF u \in ProgressDependent(Direct) \ Direct THEN {DerivedProgressAssumption} ELSE {})
    \union (IF passes.forward.times[u].unbounded THEN {"ACTIVITY_START_NOT_BOUNDED"} ELSE {})

ScheduledRow(u) ==
    [disposition |-> "scheduled", early |-> passes.forward.times[u],
     late |-> passes.backward.times[u],
     total_float |-> TotalFloat(plan.network, passes.forward, passes.backward, u),
     free_float |-> FreeFloat(plan.network, passes.forward, passes.backward, u),
     assumptions |-> RestsOn(u)]
ExcludedRow(u) ==
    [disposition |-> "excluded",
     code |-> (CHOOSE row \in plan.excluded : row[1] = u)[2],
     detail |-> IF u \in DOMAIN cut THEN cut[u] ELSE None]

(* The relationships something is to be said of: assumed, derived over an   *)
(* inactive row, dropped by the plan, released by progress.                 *)
EdgeRows(released) ==
    {<<row[1], "scheduled", row[2]>> : row \in {r \in plan.assumed_edges : r[1] \notin released}}
    \union {<<k, "scheduled", "RELATIONSHIP_NATIVE_INACTIVE_BOUNDARY_DERIVED">> :
               k \in Boundary(plan.network)}
    \union {<<row[1], "excluded", row[2]>> : row \in plan.excluded_edges}
    \union {<<k, "released", "RELATIONSHIP_RELEASED_BY_PROGRESS">> : k \in released}

Spans == [u \in {v \in Summaries \ cyclic : answered[v] # None} |-> answered[u]]
Empty == {v \in Summaries \ cyclic : answered[v] = None}

ProjectResult ==
    /\ RolledUp /\ result = None
    /\ result' = [rows |-> [u \in DOMAIN schedule.act |->
                               IF u \in DOMAIN plan.network.act THEN ScheduledRow(u)
                               ELSE ExcludedRow(u)],
                  edges |-> EdgeRows(passes.backward.released),
                  summaries |-> Spans, empty |-> Empty]
    /\ UNCHANGED <<planVars, passes, rollVars>>

----------------------------------------------------------------------------
(* The calculation of one schedule.                                        *)

CalculationInit ==
    /\ Init
    /\ passes = None /\ stack = <<>> /\ answered = <<>> /\ cyclic = {} /\ result = None

Next ==
    \/ PlanNext /\ UNCHANGED <<passes, rollVars, result>>
    \/ CalculatePasses
    \/ \E u \in IF Calculated THEN Summaries ELSE {} : EnterRoot(u)
    \/ \E child \in IF stack # <<>> THEN Top.todo ELSE {} :
          MeetCycle(child) \/ MeetRow(child) \/ Descend(child)
    \/ Return
    \/ ProjectResult

Spec == CalculationInit /\ [][Next]_vars

----------------------------------------------------------------------------
(* What must hold.                                                         *)

(* In whatever order the hierarchy is walked, a summary spans exactly the   *)
(* placed rows anywhere beneath it, has no span when there is none, and has *)
(* no answer exactly when it reaches a cycle (rollup.py, roll_up).          *)
Below == UNION {plan.children[v] : v \in Summaries}
Holds(rows, v) ==
    plan.children[v] \subseteq rows /\ \A u \in rows \intersect Summaries : plan.children[u] \subseteq rows
Beneath(v) == {u \in Below : \A rows \in SUBSET Below : Holds(rows, v) => u \in rows}
ReachesCycle(v) == \E u \in {v} \union (Beneath(v) \intersect Summaries) : u \in Beneath(u)
SummariesSpanTheirRows ==
    result # None =>
        \A v \in Summaries :
            LET leaves == Beneath(v) \intersect DOMAIN plan.network.act IN
            IF ReachesCycle(v) THEN v \notin DOMAIN result.summaries \union result.empty
            ELSE IF leaves = {} THEN v \in result.empty
            ELSE result.summaries[v] =
                    [span |-> <<Min({PlacedSpan(u)[1] : u \in leaves}),
                                Max({PlacedSpan(u)[2] : u \in leaves})>>,
                     leaves |-> leaves]

(* A row's late dates are labelled exactly when they rest on progress no    *)
(* evidence supports: its own, or that of the row that holds it, through    *)
(* any number of rows (result.py:333-361).                                  *)
Labelled(u) ==
    {DirectProgressAssumption, DerivedProgressAssumption} \intersect result.rows[u].assumptions # {}
LateDependenceIsFollowed ==
    result # None =>
        \A u \in DOMAIN plan.network.act :
            Labelled(u) <=> \/ u \in Direct
                           \/ /\ HeldBy(u) # None
                              /\ Labelled(plan.network.edges[HeldBy(u)].successor)

(* What is said of a relationship is said once: a stored calculation has    *)
(* one row for it (repositories.py, insert_calculation).                    *)
SaidOnce ==
    result # None => \A x, y \in result.edges : x[1] = y[1] => x = y
=============================================================================
