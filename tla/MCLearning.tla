------------------------------ MODULE MCLearning ------------------------------
(* The four services of learning on small instances.  They share no state but  *)
(* identifiers, so a behaviour of the run is one of one of them: part says of  *)
(* which, and the variables of the others keep their initial values.           *)
EXTENDS LearningReports, TLC
CONSTANTS
    Runs, Approvals, Workers, MaxVersion, MaxFaults, Learners, PlanCandidates, MaxPlan,
    Students, Sets, Questions, Objective, Tries, SetCandidates, MaxCourse, MaxExams, MaxAttempts,
    None
CONSTANTS p1, p2, r1, r2, k1, k2, t1
VARIABLES
    kind, skill, session, approval, skillRun, messages, worker, candidates, skillFaults,
    plan, course, origin, planOf, progress, sources, learner, raced,
    current, set, madeFrom, setOf, exam, try, answered, grade, mastery, logged, student,
    part

TwoActors == {p1, p2}
TwoRows == {r1, r2}
TwoQuestions == {k1, k2}
OneQuestion == {k1}
OneRow == {t1}
Symmetry == Permutations(TwoActors) \cup Permutations(TwoRows)

skillVars == <<kind, skill, session, approval, skillRun, messages, worker, candidates,
               skillFaults>>
planVars == <<plan, course, origin, planOf, progress, sources, learner, raced>>
examVars == <<current, set, madeFrom, setOf, exam, try, answered, grade, mastery, logged,
              student>>

S == INSTANCE Skills
P == INSTANCE LearningPlans
A == INSTANCE Assessments

\* Bounds are numbers, None is no row, and practice attempts are not attempts at a paper.
ASSUME ReportAssumption ==
    MaxActive \in Nat \ {0} /\ MaxClaims \in Nat /\ MaxStarts \in Nat /\ MaxDeliveries \in Nat
ASSUME SkillAssumption ==
    /\ MaxVersion \in Nat \ {0} /\ MaxFaults \in Nat
    /\ None \notin Runs /\ None \notin S!Approval /\ None \notin S!SkillRun
ASSUME PlanAssumption == MaxPlan \in Nat /\ None \notin P!Versions /\ None \notin PlanCandidates
ASSUME ExamAssumption ==
    /\ MaxCourse \in Nat \ {0} /\ Tries \cap A!Papers = {}
    /\ None \notin A!Courses /\ None \notin SetCandidates /\ None \notin Sets
    /\ None \notin A!Papers /\ None \notin A!Grade

LearningInit ==
    /\ Init /\ S!Init /\ P!Init /\ A!Init
    /\ part \in {"skills", "plans", "assessments", "reports"}
    /\ part # "skills" => kind = "builtin"

LearningNext ==
    /\ part' = part
    /\ \/ part = "skills" /\ S!Next
          /\ UNCHANGED <<planVars, examVars, reportVars>>
       \/ part = "plans" /\ P!Next
          /\ UNCHANGED <<skillVars, examVars, reportVars>>
       \/ part = "assessments" /\ A!Next
          /\ UNCHANGED <<skillVars, planVars, reportVars>>
       \/ part = "reports" /\ Next
          /\ UNCHANGED <<skillVars, planVars, examVars>>

LearningSpec ==
    LearningInit /\ [][LearningNext]_<<skillVars, planVars, examVars, reportVars, part>>

\* Every variable has the type its module gives it.
LearningTypeOK ==
    /\ part = "skills" => S!TypeOK
    /\ part = "plans" => P!TypeOK
    /\ part = "assessments" => A!TypeOK
    /\ part = "reports" => TypeOK

\* However often its message is delivered, a skill run is executed once, by one
\* handler, and its candidate is stored with its completion; one whose scope or
\* approval ended before a worker claimed it never executes (Skills).
SkillRunsKept == part = "skills" => S!RunsOnce /\ S!LapsedNeverRuns

\* Confirmed plans have courses, and confirmations that do not overlap leave one
\* plan and one course active (LearningPlans).
OneActivePlan == part = "plans" => P!OneActivePlan

\* A stored candidate becomes at most one plan or practice set (LearningPlans,
\* Assessments).
MaterializedOnce ==
    /\ part = "plans" => P!PlannedOnce
    /\ part = "assessments" => A!ComposedOnce

\* A submitted assessment is completely answered and recorded once, and an attempt has
\* one grade, of the right kind, and the mastery that follows from it (Assessments).
AssessmentKept == part = "assessments" => A!SealedAssessment /\ A!GradedOnce
=============================================================================
