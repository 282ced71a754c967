----------------------------- MODULE LearningPlans -----------------------------
(***************************************************************************)
(* The learning plans of one learner: drafts written from a selection or   *)
(* from a stored candidate of plan-compose, their confirmation, which      *)
(* archives the plan before and makes a course, and the progress recorded  *)
(* for the active plan.                                                    *)
(*                                                                         *)
(* Requests overlap.  A confirmation is one transaction at READ COMMITTED: *)
(* each statement sees what is committed when it starts, waits for the     *)
(* rows another transaction holds and looks at them again, and what it     *)
(* writes is seen when it commits.                                         *)
(***************************************************************************)
EXTENDS Naturals, FiniteSets

CONSTANTS
    Learners,       \* requests of the learner that may overlap
    PlanCandidates, \* plan_compose_candidate rows of completed runs
    MaxPlan,        \* bounds the versions of the plan
    None            \* no row

VARIABLES
    plan,       \* status of each version
    course,     \* status of the course made for it
    origin,     \* the candidate it was made from
    planOf,     \* the version a candidate says it became
    progress,   \* versions with recorded progress
    sources,    \* may the learner read the selected versions, and is the run's scope bound
    learner,    \* what a request does
    raced       \* history: some confirmation overlapped another

planVars == <<plan, course, origin, planOf, progress, sources, learner, raced>>

Versions == 1..MaxPlan
PlanStatus == {"none", "draft", "active", "archived"}
CourseStatus == {"none", "active", "archived"}
Confirmed == {"active", "archived"}

\* seen: the rows a statement found active when it started; old: those the
\* transaction holds; archive: those its update marks.
Confirming == [op : {"confirm"}, place : {"reading", "read", "archiving", "archived"},
               plan : Versions, seen : SUBSET Versions, old : SUBSET Versions,
               archive : SUBSET Versions, alone : BOOLEAN]
Materializing == [op : {"materialize"}, candidate : PlanCandidates]
Recording == [op : {"record"}, plan : Versions]
NoRequest == [op |-> "none"]

TypeOK ==
    /\ plan \in [Versions -> PlanStatus] /\ course \in [Versions -> CourseStatus]
    /\ origin \in [Versions -> PlanCandidates \cup {None}]
    /\ planOf \in [PlanCandidates -> Versions \cup {None}]
    /\ progress \subseteq Versions
    /\ sources \in [readable : BOOLEAN, bound : BOOLEAN]
    /\ learner \in [Learners -> Confirming \cup Materializing \cup Recording \cup {NoRequest}]
    /\ raced \in BOOLEAN

Init ==
    /\ plan = [v \in Versions |-> "none"] /\ course = [v \in Versions |-> "none"]
    /\ origin = [v \in Versions |-> None] /\ planOf = [c \in PlanCandidates |-> None]
    /\ progress = {} /\ raced = FALSE
    /\ sources = [readable |-> TRUE, bound |-> TRUE]
    /\ learner = [q \in Learners |-> NoRequest]

\* Every selected version is in a space the learner is a member of.
Readable == sources.readable

ActivePlans == {v \in Versions : plan[v] = "active"}
ActiveCourses == {v \in Versions : course[v] = "active"}
Confirmations == {q \in Learners : learner[q].op = "confirm"}

\* The rows a transaction has locked.
Holds(q) == IF learner[q].op # "confirm" THEN {}
            ELSE {learner[q].plan} \cup learner[q].old \cup learner[q].archive
HeldByOthers(q) == UNION {Holds(p) : p \in Learners \ {q}}

Done(q) == learner' = [learner EXCEPT ![q] = NoRequest]

\* The profile's row is locked: the new version is the last one plus one.
NextVersion == {v \in Versions : plan[v] = "none" /\ \A u \in 1..(v - 1) : plan[u] # "none"}

-----------------------------------------------------------------------------
CreateDraft(v) ==
    /\ v \in NextVersion /\ Readable
    /\ plan' = [plan EXCEPT ![v] = "draft"]
    /\ UNCHANGED <<course, origin, planOf, progress, sources, learner, raced>>

\* The candidate, its run's scope and the selection are read before the transaction.
MaterializeRead(q, c) ==
    /\ learner[q] = NoRequest /\ planOf[c] = None
    /\ sources' = [sources EXCEPT !.bound = @ /\ Readable]
    /\ learner' = IF sources.bound /\ Readable
                  THEN [learner EXCEPT ![q] = [op |-> "materialize", candidate |-> c]]
                  ELSE learner
    /\ UNCHANGED <<plan, course, origin, planOf, progress, raced>>

\* Mutant: the candidate is claimed by its id alone.
ClaimById(c) == TRUE

Claimed(c) == planOf[c] = None

\* A candidate that another request claimed rolls the draft back.
MaterializeWrite(q) ==
    /\ learner[q].op = "materialize"
    /\ LET c == learner[q].candidate
       IN IF Claimed(c)
          THEN \E v \in NextVersion :
                  /\ plan' = [plan EXCEPT ![v] = "draft"]
                  /\ origin' = [origin EXCEPT ![v] = c]
                  /\ planOf' = [planOf EXCEPT ![c] = v]
          ELSE UNCHANGED <<plan, origin, planOf>>
    /\ Done(q)
    /\ UNCHANGED <<course, progress, sources, raced>>

-----------------------------------------------------------------------------
(***************************************************************************)
(* confirmLearningPlan.  The draft's row is locked, the active plans are   *)
(* read and locked, their courses are archived, whatever plan is active    *)
(* now is archived, and the draft becomes active with a course.            *)
(***************************************************************************)
ConfirmBegin(q, v) ==
    /\ learner[q] = NoRequest /\ plan[v] = "draft" /\ v \notin HeldByOthers(q)
    /\ Readable
    /\ learner' = [p \in Learners |->
           IF p = q THEN [op |-> "confirm", place |-> "reading", plan |-> v,
                          seen |-> ActivePlans, old |-> {}, archive |-> {},
                          alone |-> Confirmations = {}]
           ELSE IF p \in Confirmations THEN [learner[p] EXCEPT !.alone = FALSE]
           ELSE learner[p]]
    /\ UNCHANGED <<plan, course, origin, planOf, progress, sources, raced>>

At(q, place) == learner[q].op = "confirm" /\ learner[q].place = place

ConfirmRead(q) ==
    /\ At(q, "reading") /\ learner[q].seen \cap HeldByOthers(q) = {}
    /\ learner' = [learner EXCEPT ![q].place = "read", ![q].seen = {},
                                  ![q].old = learner[q].seen \cap ActivePlans]
    /\ UNCHANGED <<plan, course, origin, planOf, progress, sources, raced>>

ConfirmArchive(q) ==
    /\ At(q, "read")
    /\ learner' = [learner EXCEPT ![q].place = "archiving", ![q].seen = ActivePlans]
    /\ UNCHANGED <<plan, course, origin, planOf, progress, sources, raced>>

ConfirmArchived(q) ==
    /\ At(q, "archiving") /\ learner[q].seen \cap HeldByOthers(q) = {}
    /\ learner' = [learner EXCEPT ![q].place = "archived", ![q].seen = {},
                                  ![q].archive = learner[q].seen \cap ActivePlans]
    /\ UNCHANGED <<plan, course, origin, planOf, progress, sources, raced>>

\* Mutant: the course of the plan before is left active.
PlanOnly(q) ==
    LET r == learner[q]
    IN /\ plan' = [v \in Versions |-> IF v = r.plan THEN "active"
                                      ELSE IF v \in r.archive THEN "archived" ELSE plan[v]]
       /\ course' = [course EXCEPT ![r.plan] = "active"]

Activate(q) ==
    LET r == learner[q]
    IN /\ plan' = [v \in Versions |-> IF v = r.plan THEN "active"
                                      ELSE IF v \in r.archive THEN "archived" ELSE plan[v]]
       /\ course' = [v \in Versions |-> IF v = r.plan THEN "active"
                                        ELSE IF v \in r.old THEN "archived" ELSE course[v]]

ConfirmCommit(q) ==
    /\ At(q, "archived")
    /\ Activate(q)
    /\ raced' = (raced \/ ~learner[q].alone)
    /\ Done(q)
    /\ UNCHANGED <<origin, planOf, progress, sources>>

\* Mutant: the request ends and its transaction stays open.
AbortHalfway(q) ==
    /\ learner[q] # NoRequest /\ learner' = [learner EXCEPT ![q].op = "none"]
    /\ UNCHANGED <<plan, course, origin, planOf, progress, sources, raced>>

\* A statement fails or the process dies: the transaction rolls back.
Abort(q) ==
    /\ learner[q] # NoRequest /\ Done(q)
    /\ UNCHANGED <<plan, course, origin, planOf, progress, sources, raced>>

-----------------------------------------------------------------------------
\* The newest active plan is read; the event is inserted for it afterwards.
RecordRead(q) ==
    /\ learner[q] = NoRequest /\ Readable
    /\ \E v \in ActivePlans :
          /\ \A u \in ActivePlans : u <= v
          /\ learner' = [learner EXCEPT ![q] = [op |-> "record", plan |-> v]]
    /\ UNCHANGED <<plan, course, origin, planOf, progress, sources, raced>>

RecordWrite(q) ==
    /\ learner[q].op = "record"
    /\ progress' = progress \cup {learner[q].plan}
    /\ Done(q)
    /\ UNCHANGED <<plan, course, origin, planOf, sources, raced>>

ChangeSources ==
    /\ sources' = [sources EXCEPT !.readable = ~@]
    /\ UNCHANGED <<plan, course, origin, planOf, progress, learner, raced>>

Request(q) ==
    \/ \E c \in PlanCandidates : MaterializeRead(q, c)
    \/ MaterializeWrite(q)
    \/ \E v \in Versions : ConfirmBegin(q, v)
    \/ ConfirmRead(q) \/ ConfirmArchive(q) \/ ConfirmArchived(q) \/ ConfirmCommit(q)
    \/ RecordRead(q) \/ RecordWrite(q) \/ Abort(q)

Next == (\E q \in Learners : Request(q)) \/ (\E v \in Versions : CreateDraft(v)) \/ ChangeSources

Spec == Init /\ [][Next]_planVars

-----------------------------------------------------------------------------
(***************************************************************************)
(* Properties.                                                             *)
(***************************************************************************)

\* A plan has a course exactly from its confirmation on, an active plan's is
\* active, and progress is recorded for confirmed plans only; unless two
\* confirmations overlapped, one plan and one course are active
\* (learning-plans.ts confirmLearningPlan, recordActiveLearningEvent).
OneActivePlan ==
    /\ \A v \in Versions : course[v] # "none" <=> plan[v] \in Confirmed
    /\ ActivePlans \subseteq ActiveCourses
    /\ \A v \in progress : plan[v] \in Confirmed
    /\ ~raced => Cardinality(ActivePlans) <= 1 /\ ActiveCourses = ActivePlans

\* A candidate becomes at most one plan, the one it names, however many
\* requests materialize it at once.
PlannedOnce ==
    \A c \in PlanCandidates, v \in Versions : origin[v] = c <=> planOf[c] = v
=============================================================================
