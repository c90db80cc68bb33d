----------------------------- MODULE PlanProofs -----------------------------
(***************************************************************************)
(* What TLAPS proves of a plan and of the result stored from it, for any   *)
(* schedules of any size: what is left out, what stands in for it, and what *)
(* an edit of the stored answer rests on.                                   *)
(***************************************************************************)
EXTENDS CalculationStore, FiniteSetTheorems, TLAPS

(* The walk behind the rows without dates: what was reached is cut, and what *)
(* is behind a row already walked is reached.                                *)
CutOK ==
    /\ DOMAIN codes \in {{}, DOMAIN schedule.act}
    /\ \A u \in DOMAIN codes : codes[u] = ExclusionCode(schedule, u)
    /\ frontier \subseteq Unknown \union DOMAIN cut
    /\ DOMAIN cut \subseteq Placeable \ Completed(schedule)
    /\ \A v \in DOMAIN cut :
          /\ cut[v] \in Unknown \union DOMAIN cut
          /\ \E k \in OutOf(schedule, cut[v]) : schedule.edges[k].successor = v
    /\ \A u \in (Unknown \union DOMAIN cut) \ frontier : Followers(schedule, u) \subseteq DOMAIN cut
    /\ ReachedFromUnknown

(* The stages of a plan.                                                     *)
PlanInv ==
    \/ /\ schedule = None /\ codes = <<>> /\ frontier = {} /\ cut = <<>>
       /\ network = None /\ plan = None
    \/ /\ schedule \in Schedules
       /\ CutOK
       /\ \/ network = None /\ (plan = None \/ plan.error # None)
          \/ /\ frontier = {}
             /\ network = NetworkOf(schedule, Scheduled)
             /\ plan = None \/ plan = PlanOf(schedule, Scheduled, network,
                                             Forwarded(schedule, Scheduled, network))

----------------------------------------------------------------------------
(* Lists of checks.                                                          *)

(* A non-empty set of naturals has a least element.                          *)
LEMMA LeastNatural ==
    ASSUME NEW T \in SUBSET Nat, T # {}
    PROVE  Min(T) \in T /\ \A k \in T : Min(T) <= k
<1> DEFINE R == {ss \in Nat \X Nat : ss[1] < ss[2]}
<1>1. IsWellFoundedOn(R, Nat)
  BY NatLessThanWellFounded DEF OpToRel
<1>2. \A x, y \in Nat : x < y => <<x, y>> \in R
  OBVIOUS
<1> HIDE DEF R
<1>3. PICK x \in T : \A y \in T : ~ (<<y, x>> \in R)
  BY <1>1, WFMin
<1>4. ASSUME NEW k \in T PROVE x <= k
  <2>1. k \in Nat /\ x \in Nat
    OBVIOUS
  <2>2. ~ (k < x)
    BY <1>2, <1>3, <2>1
  <2> QED BY <2>1, <2>2
<1>5. x \in T /\ \A k \in T : x <= k
  BY <1>4
<1> QED BY <1>5 DEF Min

(* The code of a list of checks is that of one that failed, if one did.      *)
LEMMA FirstOfFacts ==
    ASSUME NEW checks, NEW n \in Nat, DOMAIN checks = 1..n
    PROVE  \/ /\ FirstOf(checks) = None
              /\ \A k \in 1..n : ~checks[k][1]
           \/ \E k \in 1..n : checks[k][1] /\ FirstOf(checks) = checks[k][2]
<1> DEFINE failed == {k \in 1..n : checks[k][1]}
<1>1. FirstOf(checks) = IF failed = {} THEN None ELSE checks[Min(failed)][2]
  BY DEF FirstOf
<1>2. CASE failed = {}
  BY <1>1, <1>2
<1>3. CASE failed # {}
  <2>1. Min(failed) \in failed
    BY <1>3, LeastNatural
  <2> QED BY <1>1, <1>3, <2>1
<1> QED BY <1>2, <1>3

(* A row is scheduled by itself, is of a kind that is not, is inactive, or    *)
(* has no dates that are known.                                              *)
LEMMA CodesOfRows ==
    ASSUME NEW s, NEW u
    PROVE  ExclusionCode(s, u) \in {None, "ACTIVITY_KIND_NOT_SCHEDULED", "ACTIVITY_INACTIVE"}
                                     \union UnknownDateExclusions
<1> DEFINE a == s.act[u]
           checks == << <<a.kind \notin ScheduledKinds, "ACTIVITY_KIND_NOT_SCHEDULED">>,
               <<~a.active, "ACTIVITY_INACTIVE">>,
               <<"duration_unsupported" \in a.fields, "ACTIVITY_DURATION_UNSUPPORTED">>,
               <<"duration_non_integral" \in a.fields, "ACTIVITY_DURATION_NON_INTEGRAL">>,
               <<"remaining_unsupported" \in a.fields, "ACTIVITY_REMAINING_UNSUPPORTED">>,
               <<"format_unsupported" \in a.fields, "ACTIVITY_DURATION_FORMAT_UNSUPPORTED">>,
               <<"is_null" \in a.fields, "ACTIVITY_NULL_PLACEHOLDER">>,
               <<a.manual, "ACTIVITY_MANUALLY_SCHEDULED">> >>
           allowed == {None, "ACTIVITY_KIND_NOT_SCHEDULED", "ACTIVITY_INACTIVE"}
                        \union UnknownDateExclusions
           row == FirstOf(checks)
           calendar == UncalendaredCode(s, u)
<1>1. DOMAIN checks = 1..8 /\ \A k \in 1..8 : checks[k][2] \in allowed
  BY DEF UnknownDateExclusions
<1>2. calendar \in allowed
  BY DEF UncalendaredCode, UnknownDateExclusions
<1>3. ExclusionCode(s, u) =
        IF row # None THEN row
        ELSE IF calendar # None THEN calendar
        ELSE IF a.constraint \in Dated /\ a.coordinate = None
        THEN "ACTIVITY_CONSTRAINT_INCOMPLETE" ELSE None
  BY DEF ExclusionCode
<1>4. None \in allowed /\ "ACTIVITY_CONSTRAINT_INCOMPLETE" \in allowed
  BY DEF UnknownDateExclusions
<1> HIDE DEF checks, allowed, calendar, a
<1>5. row \in allowed
  BY <1>1, <1>4, FirstOfFacts
<1> HIDE DEF row
<1>6. ExclusionCode(s, u) \in allowed
  BY <1>2, <1>3, <1>4, <1>5
<1> QED BY <1>6 DEF allowed

----------------------------------------------------------------------------
(* The stages.                                                               *)

(* One row of the frontier walked.                                           *)
LEMMA CutStep ==
    ASSUME CutOK, NEW u \in frontier, CutFollowers(u)
    PROVE  CutOK'
<1> DEFINE reached == Followers(schedule, u) \ DOMAIN cut
<1>1. /\ frontier' = (frontier \ {u}) \union reached
      /\ cut' = [v \in DOMAIN cut \union reached |-> IF v \in reached THEN u ELSE cut[v]]
      /\ schedule' = schedule /\ codes' = codes
  BY DEF CutFollowers
<1>2. Unknown' = Unknown /\ Placeable' = Placeable
  BY <1>1 DEF Unknown, Placeable
<1>3. \A w : Followers(schedule, w)' = Followers(schedule, w)
  BY <1>1, <1>2 DEF Followers, OutOf, Completed
<1>4. reached \subseteq Placeable \ Completed(schedule)
      /\ \A v \in reached : \E k \in OutOf(schedule, u) : schedule.edges[k].successor = v
  BY DEF Followers
<1>5. Followers(schedule, u) \subseteq DOMAIN cut \union reached
  OBVIOUS
<1> HIDE DEF reached
<1>6. /\ DOMAIN cut' = DOMAIN cut \union reached
      /\ \A v \in reached : cut'[v] = u
      /\ \A v \in DOMAIN cut \ reached : cut'[v] = cut[v]
  BY <1>1
<1>7. reached \intersect DOMAIN cut = {}
  BY DEF reached
<1>8. u \in Unknown \union DOMAIN cut
  BY DEF CutOK
<1>9. \A v \in DOMAIN cut' :
          /\ cut'[v] \in Unknown \union DOMAIN cut'
          /\ \E k \in OutOf(schedule, cut'[v]) : schedule.edges[k].successor = v
  BY <1>4, <1>6, <1>7, <1>8 DEF CutOK
<1>10. \A w \in (Unknown \union DOMAIN cut') \ frontier' : Followers(schedule, w) \subseteq DOMAIN cut'
  <2> SUFFICES ASSUME NEW w \in (Unknown \union DOMAIN cut') \ frontier'
               PROVE  Followers(schedule, w) \subseteq DOMAIN cut'
    OBVIOUS
  <2>1. CASE w = u
    BY <1>5, <1>6, <2>1
  <2>2. CASE w # u
    BY <1>1, <1>6, <2>2 DEF CutOK
  <2> QED BY <2>1, <2>2
<1>11. ASSUME NEW rows \in SUBSET DOMAIN cut',
              \A v \in DOMAIN cut' : cut'[v] \in Unknown \union rows => v \in rows
       PROVE  rows = DOMAIN cut'
  <2> DEFINE old == rows \intersect DOMAIN cut
  <2>1. \A v \in DOMAIN cut : cut[v] \in Unknown \union old => v \in old
    BY <1>6, <1>7, <1>11
  <2>2. old = DOMAIN cut
    BY <2>1 DEF CutOK, ReachedFromUnknown
  <2>3. reached \subseteq rows
    BY <1>6, <1>8, <1>11, <2>2
  <2> QED BY <1>6, <2>2, <2>3
<1>12. ReachedFromUnknown'
  BY <1>2, <1>11 DEF ReachedFromUnknown
<1>13. /\ DOMAIN codes' \in {{}, DOMAIN schedule'.act}
       /\ \A w \in DOMAIN codes' : codes'[w] = ExclusionCode(schedule', w)
  BY <1>1 DEF CutOK
<1>14. /\ frontier' \subseteq Unknown \union DOMAIN cut'
       /\ DOMAIN cut' \subseteq Placeable \ Completed(schedule)
  BY <1>1, <1>4, <1>6 DEF CutOK
<1>15. (frontier \subseteq Unknown \union DOMAIN cut
        /\ DOMAIN cut \subseteq Placeable \ Completed(schedule))'
  BY <1>1, <1>2, <1>14 DEF Completed
<1>16. (\A v \in DOMAIN cut :
          /\ cut[v] \in Unknown \union DOMAIN cut
          /\ \E k \in OutOf(schedule, cut[v]) : schedule.edges[k].successor = v)'
  <2>1. schedule' = schedule /\ Unknown' = Unknown
    BY <1>1, <1>2
  <2> QED BY <1>9, <2>1 DEF OutOf
<1>17. (\A w \in (Unknown \union DOMAIN cut) \ frontier : Followers(schedule, w) \subseteq DOMAIN cut)'
  <2>1. schedule' = schedule /\ Unknown' = Unknown /\ Placeable' = Placeable
    BY <1>1, <1>2
  <2> QED BY <1>10, <2>1 DEF Followers, OutOf, Completed
<1> QED BY <1>12, <1>13, <1>15, <1>16, <1>17 DEF CutOK

(* What a plan is made of is read from the schedule and the codes alone.      *)
LEMMA SameNetwork ==
    ASSUME UNCHANGED <<schedule, codes, cut>>
    PROVE  /\ Scheduled' = Scheduled
           /\ OverEdges(schedule, Scheduled)' = OverEdges(schedule, Scheduled)
           /\ NetworkOf(schedule, Scheduled)' = NetworkOf(schedule, Scheduled)
<1>1. /\ schedule' = schedule /\ codes' = codes
      /\ Scheduled' = Scheduled /\ Inactive' = Inactive
  BY DEF Scheduled, Placeable, Inactive
<1>2. Candidates(schedule, Scheduled)' = Candidates(schedule, Scheduled)
  BY <1>1 DEF Candidates, BoundaryCandidate, BoundariesOf
<1>3. OverEdges(schedule, Scheduled)' = OverEdges(schedule, Scheduled)
  BY <1>1, <1>2 DEF OverEdges
<1>4. NetworkEdges(schedule, Scheduled)' = NetworkEdges(schedule, Scheduled)
  BY <1>1, <1>3 DEF NetworkEdges
<1>5. NetworkOf(schedule, Scheduled)' = NetworkOf(schedule, Scheduled)
  BY <1>1, <1>4 DEF NetworkOf
<1> QED BY <1>1, <1>3, <1>5
(* The same of its labels.                                                  *)
LEMMA SamePlan ==
    ASSUME UNCHANGED <<schedule, codes, cut, network>>
    PROVE  PlanOf(schedule, Scheduled, network, Forwarded(schedule, Scheduled, network))'
             = PlanOf(schedule, Scheduled, network, Forwarded(schedule, Scheduled, network))
<1>1. /\ schedule' = schedule /\ codes' = codes /\ network' = network
      /\ Scheduled' = Scheduled /\ Inactive' = Inactive
      /\ OverEdges(schedule, Scheduled)' = OverEdges(schedule, Scheduled)
  BY SameNetwork DEF Inactive
<1>2. LabelledSuccessors(schedule, Scheduled)' = LabelledSuccessors(schedule, Scheduled)
  BY <1>1 DEF LabelledSuccessors
<1>3. Forwarded(schedule, Scheduled, network)' = Forwarded(schedule, Scheduled, network)
  BY <1>1
<1>4. Assumed(schedule, Scheduled, network, Forwarded(schedule, Scheduled, network))'
        = Assumed(schedule, Scheduled, network, Forwarded(schedule, Scheduled, network))
  BY <1>1, <1>2, <1>3 DEF Assumed
<1> QED BY <1>1, <1>3, <1>4 DEF PlanOf, RowCode

(* Where a plan begins.                                                      *)
LEMMA BeginStep ==
    ASSUME PlanInv, NEW s \in Schedules, Begin(s)
    PROVE  PlanInv'
<1>1. /\ schedule = None /\ schedule' = s
      /\ codes' = IF Refusal(s) = None THEN ExclusionCodes(s) ELSE <<>>
      /\ frontier' = Unknown'
      /\ plan' = IF Refusal(s) = None THEN None ELSE [error |-> Refusal(s)]
      /\ cut' = cut /\ network' = network
  BY DEF Begin
<1>2. cut = <<>> /\ network = None
  BY <1>1, SchedulesAssumption DEF PlanInv
<1>3. DOMAIN cut' = {}
  BY <1>1, <1>2
<1>4. DOMAIN codes' \in {{}, DOMAIN schedule'.act}
      /\ \A u \in DOMAIN codes' : codes'[u] = ExclusionCode(schedule', u)
  BY <1>1 DEF ExclusionCodes
<1>5. ReachedFromUnknown'
  BY <1>3 DEF ReachedFromUnknown
<1>6. CutOK'
  BY <1>1, <1>3, <1>4, <1>5 DEF CutOK
<1>7. plan' = None \/ plan'.error # None
  BY <1>1
<1> QED BY <1>1, <1>2, <1>6, <1>7 DEF PlanInv

(* Every step of the calculation keeps the stages of its plan.               *)
LEMMA PlanStep ==
    ASSUME PlanInv, [StoreNext]_<<vars, storeVars>>
    PROVE  PlanInv'
<1>1. PlanNext \/ UNCHANGED planVars
  BY DEF StoreNext, Next, vars, storeVars, CalculatePasses, EnterRoot, MeetCycle, MeetRow, Descend,
         Return, ProjectResult, StoreCalculation, EditLate, EditEarly, DropSpan, EditRow,
         ReadCalculation, Propose
<1>2. CASE UNCHANGED planVars
  <2>1. CutOK' <=> CutOK
    BY <1>2 DEF planVars, CutOK, Unknown, Placeable, Completed, OutOf, Followers, ReachedFromUnknown
  <2> QED BY <1>2, <2>1, SameNetwork, SamePlan DEF planVars, PlanInv
<1>3. ASSUME NEW s \in Schedules, Begin(s) PROVE PlanInv'
  BY <1>3, BeginStep
<1>4. ASSUME NEW u \in frontier, CutFollowers(u) PROVE PlanInv'
  <2>1. schedule \in Schedules /\ CutOK /\ network = None
    BY DEF PlanInv
  <2>2. CutOK'
    BY <1>4, <2>1, CutStep
  <2> QED BY <1>4, <2>1, <2>2 DEF CutFollowers, PlanInv
<1>5. ASSUME Relate \/ Label PROVE PlanInv'
  <2>1. schedule \in Schedules /\ CutOK /\ frontier = {} /\ UNCHANGED <<schedule, codes, frontier, cut>>
    BY <1>5 DEF Relate, Label, PlanInv
  <2>2. UNCHANGED <<schedule, codes, frontier, cut>>
    BY <2>1
  <2>3. CutOK' <=> CutOK
    BY <2>2 DEF CutOK, Unknown, Placeable, Completed, OutOf, Followers, ReachedFromUnknown
    <2>6. NetworkOf(schedule, Scheduled)' = NetworkOf(schedule, Scheduled)
    BY <2>2, SameNetwork
  <2>4. CASE Relate
    BY <2>1, <2>3, <2>6, <2>4 DEF Relate, PlanInv
  <2>5. CASE Label
    <3>1. network' = network
      BY <2>5 DEF Label
    <3>2. PlanOf(schedule, Scheduled, network, Forwarded(schedule, Scheduled, network))'
            = PlanOf(schedule, Scheduled, network, Forwarded(schedule, Scheduled, network))
      BY <2>2, <3>1, SamePlan
    <3> QED BY <2>1, <2>3, <2>5, <2>6, <3>1, <3>2 DEF Label, PlanInv
  <2> QED BY <1>5, <2>4, <2>5
<1> QED BY <1>1, <1>2, <1>3, <1>4, <1>5 DEF PlanNext

(* A plan goes through its stages, whatever is done with its result.         *)
THEOREM PlanStages == StoreSpec => []PlanInv
<1>1. StoreInit => PlanInv
  BY DEF StoreInit, CalculationInit, Init, PlanInv
<1> QED BY <1>1, PlanStep, PTL DEF StoreSpec

(* The rows cut are those behind a row without dates, through rows cut for   *)
(* it, and no row behind one of them is scheduled unless it is complete      *)
(* (plan.py:872-917).                                                        *)
THEOREM CutsAreClosed == StoreSpec => []CutIsTheClosure
<1>1. ASSUME PlanInv PROVE CutIsTheClosure
  <2> SUFFICES ASSUME Planned1 PROVE CutIsTheClosure
    BY DEF CutIsTheClosure
  <2>1. CutOK /\ frontier = {}
    BY <1>1 DEF PlanInv, Planned1
  <2>2. ASSUME NEW k \in DOMAIN schedule.edges,
               schedule.edges[k].predecessor \in Unknown \union DOMAIN cut,
               schedule.edges[k].successor \in Scheduled
        PROVE  schedule.act[schedule.edges[k].successor].actual_finish # None
    <3> DEFINE p == schedule.edges[k].predecessor
               v == schedule.edges[k].successor
    <3>1. k \in OutOf(schedule, p)
      BY DEF OutOf
    <3>2. Followers(schedule, p) \subseteq DOMAIN cut
      BY <2>1, <2>2 DEF CutOK
    <3>3. v \in Placeable /\ v \notin DOMAIN cut
      BY <2>2 DEF Scheduled
    <3>4. v \in Completed(schedule)
      BY <3>1, <3>2, <3>3 DEF Followers
    <3> QED BY <3>4 DEF Completed
  <2>3. ASSUME NEW v \in DOMAIN cut
        PROVE  /\ schedule.act[v].actual_finish = None
               /\ \E k \in OutOf(schedule, cut[v]) : schedule.edges[k].successor = v
    <3>1. v \in DOMAIN schedule.act \ Completed(schedule)
      BY <2>1 DEF CutOK, Placeable
    <3> QED BY <2>1, <3>1 DEF CutOK, Completed
  <2> QED BY <2>1, <2>2, <2>3 DEF CutIsTheClosure, CutOK
<1> QED BY <1>1, PlanStages, PTL

----------------------------------------------------------------------------
(* What a plan that was made says.                                           *)

(* The parts of a plan, and that every row has its code.                     *)
LEMMA MadePlan ==
    ASSUME PlanInv, Planned1
    PROVE  /\ schedule \in Schedules /\ CutOK /\ frontier = {}
           /\ network = NetworkOf(schedule, Scheduled)
           /\ plan.network = network
           /\ plan.excluded = {<<u, RowCode(u)>> : u \in DOMAIN schedule.act \ Scheduled}
           /\ plan.excluded_edges = ExcludedEdges(schedule, Scheduled)
           /\ plan.assumed_edges = AssumedEdges(schedule, Scheduled)
           /\ \A v \in LabelledSuccessors(schedule, Scheduled) :
                 <<v, "ACTIVITY_SUCCESSOR_OF_INACTIVE">> \in plan.assumed
<1> DEFINE early == Forwarded(schedule, Scheduled, network)
           assumed == Assumed(schedule, Scheduled, network, early)
<1>1. /\ schedule \in Schedules /\ CutOK /\ frontier = {}
      /\ network = NetworkOf(schedule, Scheduled)
      /\ plan = PlanOf(schedule, Scheduled, network, early)
  BY DEF PlanInv, Planned1
<1> HIDE DEF early
<1>2. \A v \in LabelledSuccessors(schedule, Scheduled) :
         <<v, "ACTIVITY_SUCCESSOR_OF_INACTIVE">> \in assumed
  <2> DEFINE labelled == {<<v, "ACTIVITY_SUCCESSOR_OF_INACTIVE">> : v \in LabelledSuccessors(schedule, Scheduled)}
  <2> DEFINE rows == UNION {{<<u, code>> : code \in RowAssumptions(schedule, u) \
                                (IF network.act[u].envelope # {}
                                 THEN {"ACTIVITY_RESOURCE_CALENDARS_UNITED"} ELSE {})} : u \in Scheduled}
             late == {<<u, "ACTIVITY_IN_PROGRESS_LATE_DATES_ASSUMED">> :
                        u \in LateDatesAssumed(schedule, Scheduled, network, early)}
  <2>2. assumed = rows \union labelled \union late
    BY DEF Assumed
  <2> HIDE DEF rows, late, assumed
  <2>1. labelled \subseteq assumed
    BY <2>2
  <2> QED BY <2>1
<1> HIDE DEF assumed
<1>3. early.error = None
  BY <1>1 DEF Planned1, PlanOf
<1>4. /\ plan.network = network /\ plan.assumed = assumed
      /\ plan.excluded = {<<u, RowCode(u)>> : u \in DOMAIN schedule.act \ Scheduled}
      /\ plan.excluded_edges = ExcludedEdges(schedule, Scheduled)
      /\ plan.assumed_edges = AssumedEdges(schedule, Scheduled)
  BY <1>1, <1>3 DEF PlanOf, assumed, early
<1> QED BY <1>1, <1>2, <1>4

(* A set of relationships is finite.                                         *)
LEMMA EdgesAreNumbered ==
    ASSUME NEW s \in Schedules
    PROVE  /\ Len(s.edges) \in Nat /\ DOMAIN s.edges = 1..Len(s.edges)
           /\ \A ks \in SUBSET DOMAIN s.edges : IsFiniteSet(ks)
<1>1. /\ Len(s.edges) \in Nat /\ DOMAIN s.edges = 1..Len(s.edges)
  BY SchedulesAssumption
<1>2. IsFiniteSet(1..Len(s.edges))
  BY <1>1, FS_Interval
<1> QED BY <1>1, <1>2, FS_Subset

(* The edges of the network: those of the schedule that are kept, and one    *)
(* for each edge out of an inactive row of the measured shape.               *)
LEMMA EdgesOfNetwork ==
    ASSUME PlanInv, Planned1
    PROVE  LET kept == KeptEdges(schedule, Scheduled)
               over == OverEdges(schedule, Scheduled)
               n == Len(schedule.edges)
           IN  /\ kept \subseteq DOMAIN schedule.edges /\ over \subseteq DOMAIN schedule.edges
               /\ DOMAIN network.edges = kept \union {n + j : j \in over}
               /\ \A k \in kept : network.edges[k].boundary = None
               /\ \A j \in over : /\ n + j \notin DOMAIN schedule.edges
                                  /\ network.edges[n + j] = Over(schedule, Scheduled, j)
<1> DEFINE kept == KeptEdges(schedule, Scheduled)
           over == OverEdges(schedule, Scheduled)
           n == Len(schedule.edges)
           edges == NetworkEdges(schedule, Scheduled)
<1>1. kept \subseteq DOMAIN schedule.edges /\ over \subseteq DOMAIN schedule.edges
  BY DEF KeptEdges, OverEdges, ScheduledOutOf, OutOf
<1>2. network.edges = edges
  <2>1. network = NetworkWith(schedule, Scheduled, edges)
    BY MadePlan DEF NetworkOf
  <2> HIDE DEF edges
  <2> QED BY <2>1 DEF NetworkWith
<1>3. n \in Nat /\ DOMAIN schedule.edges = 1..n
  BY MadePlan, EdgesAreNumbered
<1>4. \A j \in over : n + j \notin 1..n /\ (n + j) - n = j
  <2> SUFFICES ASSUME NEW j \in over PROVE n + j \notin 1..n /\ (n + j) - n = j
    OBVIOUS
  <2>1. j \in 1..n
    BY <1>1, <1>3
  <2> HIDE DEF n, over
  <2> QED BY <1>3, <2>1
<1>5. /\ DOMAIN edges = kept \union {n + j : j \in over}
      /\ \A k \in kept : edges[k].boundary = None
  BY DEF NetworkEdges
<1>6. \A k \in DOMAIN edges \ kept : edges[k] = Over(schedule, Scheduled, k - n)
  BY DEF NetworkEdges
<1> HIDE DEF kept, over, n, edges
<1>7. \A j \in over : edges[n + j] = Over(schedule, Scheduled, j)
  <2> SUFFICES ASSUME NEW j \in over PROVE edges[n + j] = Over(schedule, Scheduled, j)
    OBVIOUS
  <2>1. n + j \in DOMAIN edges \ kept
    BY <1>1, <1>3, <1>4, <1>5
  <2> QED BY <1>4, <1>6, <2>1
<1>8. /\ kept \subseteq DOMAIN schedule.edges /\ over \subseteq DOMAIN schedule.edges
      /\ DOMAIN network.edges = kept \union {n + j : j \in over}
      /\ \A k \in kept : network.edges[k].boundary = None
      /\ \A j \in over : /\ n + j \notin DOMAIN schedule.edges
                         /\ network.edges[n + j] = Over(schedule, Scheduled, j)
  BY <1>1, <1>2, <1>3, <1>4, <1>5, <1>7
<1> QED BY <1>8 DEF kept, over, n

(* An edge over an inactive row: the one scheduled row before it, a scheduled *)
(* row behind it, and nothing reported of either.                            *)
LEMMA MeasuredShape ==
    ASSUME PlanInv, Planned1, NEW j \in OverEdges(schedule, Scheduled)
    PROVE  LET i == schedule.edges[j].predecessor
               e == Over(schedule, Scheduled, j)
           IN  /\ i \in Candidates(schedule, Scheduled)
               /\ j \in ScheduledOutOf(schedule, Scheduled, i)
               /\ i \in Inactive /\ i # None
               /\ \E m : /\ ScheduledInto(schedule, Scheduled, i) = {m}
                         /\ e = [predecessor |-> schedule.edges[m].predecessor,
                                 successor |-> schedule.edges[j].successor,
                                 type |-> "FS", lag |-> 0, lag_calendar |-> None, boundary |-> i]
               /\ e.successor = schedule.edges[j].successor
               /\ {e.predecessor, e.successor} \subseteq Scheduled
               /\ \A u \in {e.predecessor, e.successor} : MeasuredEndpoint(schedule.act[u])
               /\ BoundariesOf(schedule, Scheduled, e.predecessor) = {i}
<1> DEFINE i == schedule.edges[j].predecessor
           incoming == ScheduledInto(schedule, Scheduled, i)
           outgoing == ScheduledOutOf(schedule, Scheduled, i)
           e == Over(schedule, Scheduled, j)
<1>1. i \in Candidates(schedule, Scheduled) /\ j \in outgoing
  BY DEF OverEdges, ScheduledOutOf, OutOf
<1>2. i \in Inactive /\ BoundaryCandidate(schedule, Scheduled, i)
  BY <1>1 DEF Candidates
<1>3. schedule \in Schedules /\ CutOK
  BY MadePlan
<1>4. i # None
  <2>1. DOMAIN codes \subseteq DOMAIN schedule.act
    BY <1>3 DEF CutOK
  <2> QED BY <1>2, <1>3, <2>1, SchedulesAssumption DEF Inactive
<1>5. PICK m : incoming = {m}
  <2>1. Cardinality(incoming) = 1
    BY <1>2 DEF BoundaryCandidate
  <2>2. IsFiniteSet(incoming)
    <3>1. incoming \subseteq DOMAIN schedule.edges
      BY DEF ScheduledInto, Into
    <3> QED BY <1>3, <3>1, EdgesAreNumbered
  <2> QED BY <2>1, <2>2, FS_Singleton
<1>6. /\ m \in Into(schedule, i) /\ schedule.edges[m].predecessor \in Scheduled
      /\ j \in OutOf(schedule, i) /\ schedule.edges[j].successor \in Scheduled
  BY <1>1, <1>5 DEF ScheduledInto, ScheduledOutOf
<1>7. e = [predecessor |-> schedule.edges[m].predecessor,
           successor |-> schedule.edges[j].successor,
           type |-> "FS", lag |-> 0, lag_calendar |-> None, boundary |-> i]
  BY <1>5 DEF Over
<1>8. /\ BoundariesOf(schedule, Scheduled, schedule.edges[m].predecessor) = {i}
      /\ MeasuredEndpoint(schedule.act[schedule.edges[m].predecessor])
      /\ MeasuredEndpoint(schedule.act[schedule.edges[j].successor])
  <2>1. m \in incoming /\ j \in outgoing
    BY <1>1, <1>5
  <2> QED BY <1>2, <2>1 DEF BoundaryCandidate
<1> HIDE DEF e, incoming
<1>9. /\ e.predecessor = schedule.edges[m].predecessor
      /\ e.successor = schedule.edges[j].successor
  BY <1>7
<1> QED BY <1>1, <1>2, <1>4, <1>5, <1>6, <1>7, <1>8, <1>9 DEF e, incoming

(* No scheduled row loses in silence what held it (plan.py, "Nothing is      *)
(* dropped silently").                                                       *)
LEMMA LogicKept ==
    ASSUME PlanInv
    PROVE  LogicIsKeptOrLabelled
<1> SUFFICES ASSUME Planned1, NEW k \in DOMAIN schedule.edges,
                    schedule.edges[k].successor \in Scheduled \ Completed(schedule)
             PROVE  LET e == schedule.edges[k]
                        v == e.successor
                    IN  \/ k \in DOMAIN plan.network.edges
                        \/ <<k, "RELATIONSHIP_LAG_CALENDAR_UNRESOLVED">> \in plan.excluded_edges
                        \/ /\ e.predecessor \notin DOMAIN schedule.act
                           /\ <<k, "RELATIONSHIP_ENDPOINT_NOT_SCHEDULED">> \in plan.excluded_edges
                        \/ <<e.predecessor, "ACTIVITY_KIND_NOT_SCHEDULED">> \in plan.excluded
                        \/ /\ <<e.predecessor, "ACTIVITY_INACTIVE">> \in plan.excluded
                           /\ \/ <<v, "ACTIVITY_SUCCESSOR_OF_INACTIVE">> \in plan.assumed
                              \/ HeldThrough(e.predecessor, v)
  BY DEF LogicIsKeptOrLabelled
<1> DEFINE p == schedule.edges[k].predecessor
           v == schedule.edges[k].successor
<1>1. schedule \in Schedules /\ CutOK /\ frontier = {} /\ plan.network = network
  BY MadePlan
<1>2. DOMAIN codes = DOMAIN schedule.act
  <2>1. v \in DOMAIN codes
    BY DEF Scheduled, Placeable
  <2> QED BY <1>1, <2>1 DEF CutOK
<1>3. Scheduled \subseteq DOMAIN schedule.act
  BY <1>2 DEF Scheduled, Placeable
<1>4. \A code : p \in DOMAIN schedule.act /\ codes[p] = code /\ code # None =>
          <<p, code>> \in plan.excluded
  <2> SUFFICES ASSUME NEW code, p \in DOMAIN schedule.act, codes[p] = code, code # None
               PROVE  <<p, code>> \in plan.excluded
    OBVIOUS
  <2>1. p \notin Scheduled /\ RowCode(p) = code
    BY DEF Scheduled, Placeable, RowCode
  <2> QED BY <2>1, MadePlan
<1>13. "ACTIVITY_KIND_NOT_SCHEDULED" # None /\ "ACTIVITY_INACTIVE" # None
  BY CodesAssumption
<1>5. CASE p \notin DOMAIN schedule.act
  BY <1>3, <1>5, MadePlan DEF ExcludedEdges, Endpoints
<1>6. CASE p \in Scheduled
  <2>1. Endpoints(schedule.edges[k]) \subseteq Scheduled
    BY <1>6 DEF Endpoints
  <2>2. CASE LagUnresolved(schedule, schedule.edges[k])
    BY <2>1, <2>2, MadePlan DEF ExcludedEdges
  <2>3. CASE ~LagUnresolved(schedule, schedule.edges[k])
    BY <1>1, <2>1, <2>3, EdgesOfNetwork DEF KeptEdges
  <2> QED BY <2>2, <2>3
<1>7. p \notin Unknown \union DOMAIN cut
  <2> SUFFICES ASSUME p \in Unknown \union DOMAIN cut PROVE FALSE
    OBVIOUS
  <2>1. Followers(schedule, p) \subseteq DOMAIN cut
    BY <1>1 DEF CutOK
  <2>2. v \in Followers(schedule, p)
    BY DEF Followers, OutOf, Scheduled
  <2> QED BY <2>1, <2>2 DEF Scheduled
<1>8. CASE p \in DOMAIN schedule.act /\ codes[p] = "ACTIVITY_KIND_NOT_SCHEDULED"
  BY <1>4, <1>8, <1>13
<1>9. CASE p \in DOMAIN schedule.act /\ codes[p] = "ACTIVITY_INACTIVE"
  <2>1. p \in Inactive /\ <<p, "ACTIVITY_INACTIVE">> \in plan.excluded
    BY <1>2, <1>4, <1>9, <1>13 DEF Inactive
  <2>2. CASE k \in OverEdges(schedule, Scheduled)
    <3> DEFINE e == Over(schedule, Scheduled, k)
               n == Len(schedule.edges)
    <3>1. n + k \in DOMAIN plan.network.edges /\ plan.network.edges[n + k] = e
      BY <1>1, <2>2, EdgesOfNetwork
    <3>2. ASSUME NEW q \in {schedule.edges[j].predecessor : j \in Into(schedule, p)} \intersect Scheduled
          PROVE  e.predecessor = q /\ e.successor = v
      <4>1. PICK m : /\ ScheduledInto(schedule, Scheduled, p) = {m}
                     /\ e = [predecessor |-> schedule.edges[m].predecessor,
                             successor |-> v,
                             type |-> "FS", lag |-> 0, lag_calendar |-> None, boundary |-> p]
        BY <2>2, MeasuredShape
      <4>2. PICK j \in Into(schedule, p) : schedule.edges[j].predecessor = q
        BY <3>2
      <4>3. j \in ScheduledInto(schedule, Scheduled, p)
        BY <3>2, <4>2 DEF ScheduledInto
      <4>4. j = m
        BY <4>1, <4>3
      <4> HIDE DEF e
      <4> QED BY <4>1, <4>2, <4>4
    <3>3. HeldThrough(p, v)
      BY <3>1, <3>2 DEF HeldThrough
    <3> QED BY <2>1, <3>3
  <2>3. CASE k \notin OverEdges(schedule, Scheduled)
    <3>1. v \in LabelledSuccessors(schedule, Scheduled)
      BY <2>1, <2>3 DEF LabelledSuccessors
    <3> QED BY <2>1, <3>1, MadePlan
  <2> QED BY <2>2, <2>3
<1>10. p \in DOMAIN schedule.act =>
          codes[p] \in {None, "ACTIVITY_KIND_NOT_SCHEDULED", "ACTIVITY_INACTIVE"} \union UnknownDateExclusions
  BY <1>1, <1>2, CodesOfRows DEF CutOK
<1>11. p \in DOMAIN schedule.act /\ codes[p] \in UnknownDateExclusions => p \in Unknown
  BY <1>2 DEF Unknown
<1>12. p \in DOMAIN schedule.act /\ codes[p] = None => p \in Scheduled \union DOMAIN cut
  BY <1>2 DEF Scheduled, Placeable
<1> QED BY <1>5, <1>6, <1>7, <1>8, <1>9, <1>10, <1>11, <1>12

(* A one-to-one map onto a finite set's image keeps its size.                 *)
LEMMA SameSize ==
    ASSUME NEW X, NEW Y, IsFiniteSet(X), NEW f \in [X -> Y],
           \A x, y \in X : f[x] = f[y] => x = y,
           \A z \in Y : \E x \in X : f[x] = z
    PROVE  Cardinality(Y) = Cardinality(X)
<1>1. f \in Injection(X, Y) /\ f \in Surjection(X, Y)
  BY DEF Injection, IsInjective, Surjection
<1> QED BY <1>1, FS_Surjection

(* What stands in for an inactive row is what the network accepts            *)
(* (network.py, "boundary").                                                 *)
LEMMA BoundariesTaken ==
    ASSUME PlanInv
    PROVE  BoundariesAreMeasured
<1> SUFFICES ASSUME Planned1 PROVE BoundariesSupported(network)
  BY MadePlan DEF BoundariesAreMeasured
<1> DEFINE kept == KeptEdges(schedule, Scheduled)
           over == OverEdges(schedule, Scheduled)
           n == Len(schedule.edges)
           Middle(j) == schedule.edges[j].predecessor
           Standing(j) == Over(schedule, Scheduled, j)
<1>1. /\ kept \subseteq DOMAIN schedule.edges /\ over \subseteq DOMAIN schedule.edges
      /\ DOMAIN network.edges = kept \union {n + j : j \in over}
      /\ \A k \in kept : network.edges[k].boundary = None
      /\ \A j \in over : n + j \notin DOMAIN schedule.edges /\ network.edges[n + j] = Standing(j)
  BY EdgesOfNetwork
<1>2. n \in Nat /\ DOMAIN schedule.edges = 1..n /\ \A ks \in SUBSET DOMAIN schedule.edges : IsFiniteSet(ks)
  BY MadePlan, EdgesAreNumbered
<1>3. \A j \in over : /\ Middle(j) # None /\ Standing(j).boundary = Middle(j)
                      /\ Standing(j).type = "FS" /\ Standing(j).lag = 0
                      /\ Standing(j).lag_calendar = None
                      /\ Standing(j).successor = schedule.edges[j].successor
                      /\ {Standing(j).predecessor, Standing(j).successor} \subseteq Scheduled
                      /\ \A u \in {Standing(j).predecessor, Standing(j).successor} :
                            MeasuredEndpoint(schedule.act[u])
                      /\ BoundariesOf(schedule, Scheduled, Standing(j).predecessor) = {Middle(j)}
                      /\ BoundaryCandidate(schedule, Scheduled, Middle(j))
                      /\ Middle(j) \in Inactive
                      /\ j \in ScheduledOutOf(schedule, Scheduled, Middle(j))
  <2> SUFFICES ASSUME NEW j \in over
               PROVE  /\ Middle(j) # None /\ Standing(j).boundary = Middle(j)
                      /\ Standing(j).type = "FS" /\ Standing(j).lag = 0
                      /\ Standing(j).lag_calendar = None
                      /\ Standing(j).successor = schedule.edges[j].successor
                      /\ {Standing(j).predecessor, Standing(j).successor} \subseteq Scheduled
                      /\ \A u \in {Standing(j).predecessor, Standing(j).successor} :
                            MeasuredEndpoint(schedule.act[u])
                      /\ BoundariesOf(schedule, Scheduled, Standing(j).predecessor) = {Middle(j)}
                      /\ BoundaryCandidate(schedule, Scheduled, Middle(j))
                      /\ Middle(j) \in Inactive
                      /\ j \in ScheduledOutOf(schedule, Scheduled, Middle(j))
    OBVIOUS
  <2>1. PICK m : Standing(j) = [predecessor |-> schedule.edges[m].predecessor,
                                successor |-> schedule.edges[j].successor,
                                type |-> "FS", lag |-> 0, lag_calendar |-> None,
                                boundary |-> Middle(j)]
    BY MeasuredShape
  <2>2. /\ Standing(j).boundary = Middle(j)
        /\ Standing(j).type = "FS" /\ Standing(j).lag = 0 /\ Standing(j).lag_calendar = None
    <3> HIDE DEF Standing, Middle
    <3> QED BY <2>1
  <2>3. BoundaryCandidate(schedule, Scheduled, Middle(j))
    BY MeasuredShape DEF Candidates
  <2> QED BY <2>2, <2>3, MeasuredShape
<1>4. ASSUME NEW i, NEW j, NEW k, i = Middle(j), i = Middle(k), j \in over, k \in over
      PROVE  Standing(j).predecessor = Standing(k).predecessor
  BY <1>4 DEF Over
<1>5. ASSUME NEW j \in over, NEW k \in over,
             Standing(j).predecessor = Standing(k).predecessor
      PROVE  Middle(j) = Middle(k)
  <2> HIDE DEF Standing, Middle, over
  <2>1. {Middle(j)} = {Middle(k)}
    BY <1>3, <1>5
  <2> QED BY <2>1
<1>6. ASSUME NEW j \in over, NEW k \in over, Middle(j) = Middle(k),
             schedule.edges[j].successor = schedule.edges[k].successor
      PROVE  j = k
  <2> DEFINE v == schedule.edges[j].successor
             inactive == {x \in Into(schedule, v) : schedule.edges[x].predecessor \in Inactive}
  <2>1. j \in inactive /\ k \in inactive
    BY <1>1, <1>3, <1>6 DEF Into
  <2>2. Cardinality(inactive) = 1
    BY <1>3 DEF BoundaryCandidate
  <2>3. IsFiniteSet(inactive)
    BY <1>2 DEF Into
  <2> HIDE DEF inactive
  <2> QED BY <2>1, <2>2, <2>3, FS_Singleton
<1>7. \A u \in Scheduled : MeasuredEndpoint(schedule.act[u]) => StateOf(network.act[u]) = "not_started"
  <2> SUFFICES ASSUME NEW u \in Scheduled, MeasuredEndpoint(schedule.act[u])
               PROVE  StateOf(network.act[u]) = "not_started"
    OBVIOUS
  <2> DEFINE row == [Planned(schedule, u) EXCEPT
                        !.envelope = IF Enveloped(schedule, NetworkEdges(schedule, Scheduled), u)
                                     THEN Placements(schedule, u) ELSE {},
                        !.elapsed_float = ElapsedFloat(schedule, NetworkEdges(schedule, Scheduled), u)]
  <2>1. network = NetworkWith(schedule, Scheduled, NetworkEdges(schedule, Scheduled))
    BY MadePlan DEF NetworkOf
  <2>2. network.act[u] = row
    BY <2>1 DEF NetworkWith
  <2>3. schedule.act[u].actual_start = None /\ schedule.act[u].actual_finish = None
    BY DEF MeasuredEndpoint, Untouched
  <2>4. row.actual_start = schedule.act[u].actual_start
        /\ row.actual_finish = schedule.act[u].actual_finish
    BY DEF Planned
  <2> HIDE DEF row
  <2> QED BY <2>2, <2>3, <2>4 DEF StateOf
<1> HIDE DEF kept, over, n, Standing, Middle
<1>8. Boundary(network) = {n + j : j \in over}
  BY <1>1, <1>3 DEF Boundary
<1>9. \A j \in over : j \in Int
  BY <1>1, <1>2
<1> DEFINE Taken(k) ==
      LET e == network.edges[k]
          across == {x \in Boundary(network) : network.edges[x].boundary = e.boundary}
      IN  /\ e.type = "FS" /\ e.lag = 0 /\ e.lag_calendar = None
          /\ \A u \in {e.predecessor, e.successor} : StateOf(network.act[u]) = "not_started"
          /\ \A x \in Boundary(network) :
                network.edges[x].boundary = e.boundary <=> network.edges[x].predecessor = e.predecessor
          /\ Cardinality(across) <= 2
          /\ Cardinality({network.edges[x].successor : x \in across}) = Cardinality(across)
<1>19. (\A k \in Boundary(network) : Taken(k)) => BoundariesSupported(network)
  BY DEF BoundariesSupported
<1> SUFFICES ASSUME NEW j \in over PROVE Taken(n + j)
  <2> HIDE DEF Taken
  <2> QED BY <1>8, <1>19
<1> DEFINE e == network.edges[n + j]
           across == {k \in Boundary(network) : network.edges[k].boundary = e.boundary}
           outgoing == ScheduledOutOf(schedule, Scheduled, Middle(j))
           successors == {network.edges[k].successor : k \in across}
<1>10. e = Standing(j)
  BY <1>1
<1>11. /\ e.type = "FS" /\ e.lag = 0 /\ e.lag_calendar = None
       /\ \A u \in {e.predecessor, e.successor} : StateOf(network.act[u]) = "not_started"
  BY <1>3, <1>7, <1>10
<1>12. \A k \in Boundary(network) :
          network.edges[k].boundary = e.boundary <=> network.edges[k].predecessor = e.predecessor
  <2> SUFFICES ASSUME NEW k \in over
               PROVE  Standing(k).boundary = Standing(j).boundary
                        <=> Standing(k).predecessor = Standing(j).predecessor
    BY <1>1, <1>8, <1>10
  <2> QED BY <1>3, <1>4, <1>5
<1>13. across = {n + k : k \in outgoing}
  <2>1. ASSUME NEW x \in across PROVE x \in {n + k : k \in outgoing}
    <3>1. PICK k \in over : x = n + k
      BY <1>8
    <3>2. Standing(k).boundary = Standing(j).boundary
      BY <1>1, <1>10, <3>1
    <3>3. Middle(k) = Middle(j) /\ k \in ScheduledOutOf(schedule, Scheduled, Middle(k))
      BY <1>3, <3>2
    <3> QED BY <3>1, <3>3
  <2>2. ASSUME NEW k \in outgoing PROVE n + k \in across
    <3>1. Middle(k) = Middle(j) /\ k \in DOMAIN schedule.edges
      BY DEF ScheduledOutOf, OutOf, Middle
    <3>2. k \in over
      <4>1. Middle(j) \in Candidates(schedule, Scheduled)
        BY <1>3 DEF Candidates
      <4> QED BY <4>1 DEF over, OverEdges
    <3> QED BY <1>1, <1>3, <1>8, <1>10, <3>1, <3>2
  <2> QED BY <2>1, <2>2
<1>14. IsFiniteSet(outgoing) /\ outgoing \subseteq Int /\ Cardinality(outgoing) \in {1, 2}
  <2>1. outgoing \subseteq DOMAIN schedule.edges
    BY DEF ScheduledOutOf, OutOf
  <2>2. Cardinality(outgoing) \in {1, 2}
    BY <1>3 DEF BoundaryCandidate
  <2> QED BY <1>2, <2>1, <2>2
<1>15. \A k \in outgoing : /\ k \in over /\ n + k \in across
                           /\ network.edges[n + k].successor = schedule.edges[k].successor
                           /\ Middle(k) = Middle(j)
  <2> SUFFICES ASSUME NEW k \in outgoing
               PROVE  /\ k \in over /\ n + k \in across
                      /\ network.edges[n + k].successor = schedule.edges[k].successor
                      /\ Middle(k) = Middle(j)
    OBVIOUS
  <2>1. Middle(k) = Middle(j)
    BY DEF ScheduledOutOf, OutOf, Middle
  <2>2. k \in over
    <3>1. Middle(j) \in Candidates(schedule, Scheduled)
      BY <1>3 DEF Candidates
    <3> QED BY <3>1 DEF over, OverEdges
  <2> QED BY <1>1, <1>3, <1>13, <2>1, <2>2
<1> HIDE DEF e, outgoing, across
<1>16. Cardinality(across) = Cardinality(outgoing)
  <2> DEFINE f == [k \in outgoing |-> n + k]
  <2>1. f \in [outgoing -> across]
    BY <1>13
  <2>2. \A x, y \in outgoing : f[x] = f[y] => x = y
    BY <1>2, <1>14
  <2>3. \A z \in across : \E x \in outgoing : f[x] = z
    BY <1>13
  <2> HIDE DEF f
  <2> QED BY <1>14, <2>1, <2>2, <2>3, SameSize
<1>17. Cardinality(successors) = Cardinality(outgoing)
  <2> DEFINE f == [k \in outgoing |-> schedule.edges[k].successor]
  <2>1. f \in [outgoing -> successors]
    BY <1>15
  <2>2. \A x, y \in outgoing : f[x] = f[y] => x = y
    BY <1>6, <1>15
  <2>3. \A z \in successors : \E x \in outgoing : f[x] = z
    BY <1>13, <1>15
  <2> HIDE DEF f, successors
  <2> QED BY <1>14, <2>1, <2>2, <2>3, SameSize
<1>18. Cardinality(across) <= 2 /\ Cardinality(successors) = Cardinality(across)
  BY <1>14, <1>16, <1>17
<1> QED BY <1>11, <1>12, <1>18 DEF e, across

(* What holds a scheduled row, kept, stood in for or labelled, is what the    *)
(* calculation takes (plan.py:884-1010, network.py:482-546).                 *)
THEOREM LogicIsKept == StoreSpec => []LogicHolds
<1>1. PlanInv => LogicHolds
  BY LogicKept, BoundariesTaken DEF LogicHolds
<1> QED BY <1>1, PlanStages, PTL

----------------------------------------------------------------------------
(* The stored result and a planner's edit.                                   *)

(* The relationships that took no part in an answer.                         *)
Missing == {k \in DOMAIN schedule.edges : k \notin DOMAIN network.edges \/ k \in passes.backward.released}
Told(relationships) == \A k \in Missing : \E row \in relationships : row.uid.source = k

(* What a result says of the relationships that took no part is what the     *)
(* stored and the served one say, and an edit accepted met none of them.     *)
StoreInv ==
    /\ result # None => Calculated /\ \A k \in Missing : \E x \in result.edges : x[1] = k
    /\ stored # None => /\ result # None
                        /\ "relationships" \in DOMAIN stored /\ Told(stored.relationships)
    /\ served # None /\ ~served.refused => result # None /\ Told(served.answer.relationships)
    /\ proposal # None => result # None
    /\ EditsKeepTheirLogic

(* A calculation made is not made again.                                     *)
LEMMA CalculatedOnce ==
    ASSUME PlanInv, Calculated, StoreNext
    PROVE  UNCHANGED <<planVars, passes>>
<1>1. plan # None /\ plan.error = None /\ passes # None
  BY DEF Calculated, Planning
<1>2. schedule # None
  BY <1>1, SchedulesAssumption DEF PlanInv
<1>3. ~PlanNext
  BY <1>1, <1>2 DEF PlanNext, Begin, CutFollowers, Relate, Label
<1>4. ~CalculatePasses
  BY <1>1 DEF CalculatePasses
<1> QED
  BY <1>3, <1>4
     DEF StoreNext, Next, vars, EnterRoot, MeetCycle, MeetRow, Descend, Return, ProjectResult,
         StoreCalculation, EditLate, EditEarly, EditRow, DropSpan, ReadCalculation, Propose

(* What took no part in an answer is said in its result.                     *)
LEMMA MissingIsSaid ==
    ASSUME PlanInv, Calculated, NEW k \in Missing
    PROVE  \E x \in EdgeRows(passes.backward.released) : x[1] = k
<1>1. Planned1
  BY DEF Calculated, Planning, Planned1
<1>2. CASE k \in passes.backward.released
  <2>1. <<k, "released", "RELATIONSHIP_RELEASED_BY_PROGRESS">> \in EdgeRows(passes.backward.released)
    BY <1>2 DEF EdgeRows
  <2> QED BY <2>1
<1>3. CASE k \notin DOMAIN network.edges
  <2>1. k \in DOMAIN schedule.edges \ KeptEdges(schedule, Scheduled)
    BY <1>1, <1>3, EdgesOfNetwork DEF Missing
  <2>2. PICK code : <<k, code>> \in plan.excluded_edges
    BY <1>1, <2>1, MadePlan DEF KeptEdges, ExcludedEdges
  <2>3. <<k, "excluded", code>> \in EdgeRows(passes.backward.released)
    <3>1. <<k, code>>[1] = k /\ <<k, code>>[2] = code
      OBVIOUS
    <3> QED BY <2>2, <3>1 DEF EdgeRows
  <2> QED BY <2>3
<1> QED BY <1>2, <1>3 DEF Missing

(* An edit is accepted only of a row every relationship of which took part.  *)
LEMMA ProposeStep ==
    ASSUME PlanInv, StoreInv, NEW u, NEW seconds, Propose(u, seconds)
    PROVE  EditsKeepTheirLogic'
<1> DEFINE a == schedule.act[u]
           row == served.answer.activities[u]
           scheduled == row.disposition = "scheduled"
           checks == << <<seconds <= 0, "DURATION_INVALID">>,
                   <<a.kind # "task", "ACTIVITY_NOT_LEAF_TASK">>,
                   <<~a.active, "ACTIVITY_INACTIVE">>,
                   <<a.manual, "ACTIVITY_MANUALLY_SCHEDULED">>,
                   <<a.actual_start # None \/ a.actual_finish # None, "ACTIVITY_HAS_PROGRESS">>,
                   <<a.duration = None, "ACTIVITY_DURATION_UNAVAILABLE">>,
                   <<a.duration = 0, "ACTIVITY_DURATION_UNAVAILABLE">>,
                   <<a.remaining = 0, "ACTIVITY_REMAINING_DURATION_ZERO">>,
                   <<~scheduled, "ACTIVITY_NOT_SUPPORTED">>,
                   <<scheduled /\ ScenarioAssumptions(u) # {}, "ACTIVITY_HAS_ASSUMPTIONS">>,
                   <<a.duration = seconds, "DURATION_UNCHANGED">> >>
<1>1. /\ schedule' = schedule /\ network' = network /\ passes' = passes
      /\ served # None /\ ~served.refused
      /\ proposal' = [row |-> u, refusal |-> FirstOf(checks)]
  BY DEF Propose, ProposalRefusal, vars, planVars
<1>2. DOMAIN checks = 1..11 /\ \A n \in 1..11 : checks[n][2] \in ProposalCodes
  BY DEF ProposalCodes
<1>3. ~checks[9][1] /\ ~checks[10][1] => ContextOf(u) = {}
  BY DEF ScenarioAssumptions
<1> HIDE DEF checks
<1>4. FirstOf(checks) = None => ~checks[9][1] /\ ~checks[10][1]
  <2>1. 11 \in Nat /\ 9 \in 1..11 /\ 10 \in 1..11
    OBVIOUS
  <2>2. \/ FirstOf(checks) = None /\ \A k \in 1..11 : ~checks[k][1]
        \/ \E k \in 1..11 : checks[k][1] /\ FirstOf(checks) = checks[k][2]
    BY <1>2, <2>1, FirstOfFacts
  <2> QED BY <1>2, <2>1, <2>2, ProposalCodesAssumption
<1> SUFFICES ASSUME FirstOf(checks) = None, NEW k \in DOMAIN schedule.edges,
                    u \in Endpoints(schedule.edges[k])
             PROVE  k \in DOMAIN network.edges \ passes.backward.released
  BY <1>1 DEF EditsKeepTheirLogic, Endpoints
<1>5. SUFFICES ASSUME k \in Missing PROVE FALSE
  BY DEF Missing
<1>6. PICK told \in served.answer.relationships : told.uid.source = k
  BY <1>1, <1>5 DEF StoreInv, Told
<1>7. k # 0
  <2>1. Planned1
    BY <1>1 DEF StoreInv, Calculated, Planning, Planned1
  <2> QED BY <2>1, MadePlan, EdgesAreNumbered
<1>8. told.code \in ContextOf(u)
  BY <1>6, <1>7 DEF ContextOf
<1> QED BY <1>3, <1>4, <1>8

(* Every step of the store keeps what is told of the relationships.          *)
LEMMA StoreStep ==
    ASSUME PlanInv, StoreInv, [StoreNext]_<<vars, storeVars>>
    PROVE  StoreInv'
<1>1. CASE UNCHANGED <<vars, storeVars>>
  BY <1>1 DEF vars, planVars, rollVars, storeVars, StoreInv, Calculated, Planning, Missing, Told,
              EditsKeepTheirLogic
<1>2. SUFFICES ASSUME StoreNext PROVE StoreInv'
  BY <1>1
<1>3. ASSUME Calculated
      PROVE  /\ UNCHANGED <<planVars, passes>> /\ Missing' = Missing
             /\ Calculated'
  <2>1. UNCHANGED <<planVars, passes>>
    BY <1>2, <1>3, CalculatedOnce
  <2> QED BY <1>3, <2>1 DEF planVars, Missing, Calculated, Planning
<1>4. ASSUME result # None, result' = result
      PROVE  /\ Missing' = Missing /\ schedule' = schedule /\ network' = network /\ passes' = passes
             /\ (result # None => Calculated /\ \A k \in Missing : \E x \in result.edges : x[1] = k)'
  BY <1>3, <1>4 DEF StoreInv, planVars
<1>5. CASE Next /\ UNCHANGED storeVars
  <2>1. CASE result # None
    <3>1. result' = result
      BY <1>5, <2>1 DEF Next, PlanNext, CalculatePasses, EnterRoot, MeetCycle, MeetRow, Descend,
                        Return, ProjectResult
    <3>2. UNCHANGED <<stored, edited, served, proposal>>
      BY <1>5 DEF storeVars
    <3> QED BY <1>4, <2>1, <3>1, <3>2 DEF StoreInv, Told, EditsKeepTheirLogic
  <2>2. CASE result = None
    <3>1. /\ stored' = None /\ proposal' = None
          /\ ~(served' # None /\ ~served'.refused)
      BY <1>5, <2>2 DEF storeVars, StoreInv
    <3>2. CASE ProjectResult
      <4>1. Calculated /\ UNCHANGED <<planVars, passes>>
            /\ \E rows, summaries, empty :
                  result' = [rows |-> rows, edges |-> EdgeRows(passes.backward.released),
                             summaries |-> summaries, empty |-> empty]
        BY <3>2 DEF ProjectResult, RolledUp
      <4>2. result'.edges = EdgeRows(passes.backward.released)
        BY <4>1
      <4>3. Calculated' /\ Missing' = Missing
        BY <1>3, <4>1
      <4>4. \A k \in Missing' : \E x \in result'.edges : x[1] = k
        BY <4>1, <4>2, <4>3, MissingIsSaid
      <4> QED BY <3>1, <4>3, <4>4 DEF StoreInv, EditsKeepTheirLogic
    <3>3. CASE ~ProjectResult
      <4>1. result' = None
        BY <1>5, <2>2, <3>3 DEF Next, PlanNext, CalculatePasses, EnterRoot, MeetCycle, MeetRow,
                                Descend, Return
      <4> QED BY <3>1, <4>1 DEF StoreInv, EditsKeepTheirLogic
    <3> QED BY <3>2, <3>3
  <2> QED BY <2>1, <2>2
<1>6. ASSUME NEW profile \in {V1, V2}, StoreCalculation(profile) PROVE StoreInv'
  <2>1. /\ result # None /\ result' = result
        /\ UNCHANGED <<served, proposal>>
        /\ \E taken, fingerprint, activities, summaries :
              stored' = [taken |-> taken, profile |-> profile, fingerprint |-> fingerprint,
                         relationships |-> Computed(profile).relationships,
                         activities |-> activities, summaries |-> summaries]
    BY <1>6 DEF StoreCalculation, vars
  <2>2. stored'.relationships = Computed(profile).relationships /\ "relationships" \in DOMAIN stored'
    BY <2>1
  <2>3. Computed(profile).relationships = {EdgeRow(x) : x \in result.edges}
    BY DEF Computed
  <2>4. \A k \in Missing : \E row \in stored'.relationships : row.uid.source = k
    <3> SUFFICES ASSUME NEW k \in Missing
                 PROVE  \E row \in stored'.relationships : row.uid.source = k
      OBVIOUS
    <3>1. PICK x \in result.edges : x[1] = k
      BY <2>1 DEF StoreInv
    <3>2. ~Derived(k)
      <4>1. Planned1
        BY <2>1 DEF StoreInv, Calculated, Planning, Planned1
      <4>2. k \in 1..Len(schedule.edges) /\ Len(schedule.edges) \in Nat
        BY <4>1, MadePlan, EdgesAreNumbered DEF Missing
      <4> QED BY <4>2 DEF Derived
    <3>3. EdgeRow(x).uid.source = k
      BY <3>1, <3>2 DEF EdgeRow, EdgeUid
    <3> QED BY <2>2, <2>3, <3>1, <3>3
  <2> QED BY <1>4, <2>1, <2>2, <2>4 DEF StoreInv, Told, EditsKeepTheirLogic
<1>7. CASE Kept /\ (EditLate \/ EditEarly \/ DropSpan)
  <2>1. /\ result # None /\ result' = result
        /\ UNCHANGED <<served, proposal>>
        /\ "relationships" \in DOMAIN stored' /\ stored'.relationships = stored.relationships
    BY <1>7 DEF Kept, StoreInv, EditLate, EditEarly, EditRow, DropSpan, vars
  <2> QED BY <1>4, <2>1, <1>7 DEF StoreInv, Told, Kept, EditsKeepTheirLogic
<1>8. CASE ReadCalculation
  <2>1. /\ result # None /\ result' = result /\ stored # None
        /\ UNCHANGED <<stored, proposal>>
        /\ served' = [refused |-> FALSE, answer |-> Rebuilt] \/ served' = [refused |-> TRUE]
    BY <1>8 DEF ReadCalculation, Kept, StoreInv, vars
  <2>2. Rebuilt.relationships = stored.relationships
    BY DEF Rebuilt
  <2>3. served' # None /\ ~served'.refused => served'.answer.relationships = stored.relationships
    BY <2>1, <2>2
  <2> QED BY <1>4, <2>1, <2>3 DEF StoreInv, Told, EditsKeepTheirLogic
<1>9. ASSUME NEW u, NEW seconds, Propose(u, seconds) PROVE StoreInv'
  <2>1. /\ result # None /\ result' = result /\ UNCHANGED <<stored, served>>
    BY <1>9 DEF Propose, StoreInv, vars
  <2>2. EditsKeepTheirLogic'
    BY <1>9, ProposeStep
  <2> QED BY <1>4, <2>1, <2>2 DEF StoreInv, Told
<1> QED BY <1>2, <1>5, <1>6, <1>7, <1>8, <1>9 DEF StoreNext

(* Every relationship of a row whose duration a planner may edit took part   *)
(* in the answer the edit is compared with (working_schedule.py:187-188).    *)
THEOREM EditsRestOnTheirLogic == StoreSpec => []EditsKeepTheirLogic
<1>1. StoreInit => StoreInv
  BY DEF StoreInit, CalculationInit, StoreInv, EditsKeepTheirLogic
<1>2. StoreInv => EditsKeepTheirLogic
  BY DEF StoreInv
<1> QED BY <1>1, <1>2, StoreStep, PlanStages, PTL DEF StoreSpec
=============================================================================
