------------------------------ MODULE Assessments ------------------------------
(***************************************************************************)
(* Practice and formal assessment of one learner's course: practice sets   *)
(* composed from the course or from a candidate of practice-generate,      *)
(* attempts at their questions, the assessment frozen from a set, its      *)
(* answers and its submission, the grades a rule or a reviewer gives and   *)
(* the mastery snapshot that goes with a grade.                            *)
(*                                                                         *)
(* A request reads the active course and the rows it needs, then writes in *)
(* one transaction; between the two other requests write and the learner   *)
(* may switch to another plan, whose course is a later one.                *)
(***************************************************************************)
EXTENDS Naturals, FiniteSets

CONSTANTS
    Students,      \* requests of the learner and of reviewers that may overlap
    Sets,          \* practice_set rows; each may become one assessment
    Questions,     \* the questions of a set
    Objective,     \* those with an answer key, graded by rule
    Tries,         \* practice_attempt rows
    SetCandidates, \* practice_generate_candidate rows, of the first course
    MaxCourse,     \* bounds the switches of plan
    MaxExams,      \* bounds the sets that become assessments
    MaxAttempts,   \* bounds the attempts, at questions of assessments and others
    None           \* no row

VARIABLES
    current,   \* the active course
    set,       \* the course of a practice set
    madeFrom,  \* the candidate it was made from
    setOf,     \* the set a candidate says it became
    exam,      \* status of the assessment frozen from a set
    try,       \* the set and question of a practice attempt
    answered,  \* the assessment_attempt rows: pairs of set and question
    grade,     \* grade of an attempt: by whom and with what outcome
    mastery,   \* outcome in the mastery_snapshot of that grade
    logged,    \* assessment events of the learner, counted
    student    \* what a request does

examVars == <<current, set, madeFrom, setOf, exam, try, answered, grade, mastery,
              logged, student>>

Courses == 1..MaxCourse
Papers == Sets \X Questions
Attempts == Tries \cup Papers
Grade == [by : {"rule", "human"}, correct : BOOLEAN]
ExamStatus == {"none", "draft", "active", "submitted"}
Logged == {"started", "submitted"}

Request == [op : {"practice"}, course : Courses]
    \cup [op : {"materialize"}, course : Courses, candidate : SetCandidates]
    \cup [op : {"create", "start", "submit"} \cup Logged, set : Sets]
    \cup [op : {"answer", "try"}, paper : Papers]
    \cup [op : {"review"}, attempt : Attempts]
NoRequest == [op |-> "none"]

TypeOK ==
    /\ current \in Courses
    /\ set \in [Sets -> Courses \cup {None}]
    /\ madeFrom \in [Sets -> SetCandidates \cup {None}]
    /\ setOf \in [SetCandidates -> Sets \cup {None}]
    /\ exam \in [Sets -> ExamStatus]
    /\ try \in [Tries -> Papers \cup {None}] /\ answered \subseteq Papers
    /\ grade \in [Attempts -> Grade \cup {None}]
    /\ mastery \in [Attempts -> BOOLEAN \cup {None}]
    /\ logged \in [Sets -> [Logged -> Nat]]
    /\ student \in [Students -> Request \cup {NoRequest}]

Init ==
    /\ current = 1
    /\ set = [s \in Sets |-> None] /\ madeFrom = [s \in Sets |-> None]
    /\ setOf = [c \in SetCandidates |-> None]
    /\ exam = [s \in Sets |-> "none"]
    /\ try = [t \in Tries |-> None] /\ answered = {}
    /\ grade = [a \in Attempts |-> None] /\ mastery = [a \in Attempts |-> None]
    /\ logged = [s \in Sets |-> [e \in Logged |-> 0]]
    /\ student = [q \in Students |-> NoRequest]

practiceVars == <<set, madeFrom, setOf>>
examOnly == <<exam, logged>>
attemptVars == <<try, answered, grade, mastery>>

Asks(q, request) == student[q] = NoRequest /\ student' = [student EXCEPT ![q] = request]
Becomes(q, request) == student' = [student EXCEPT ![q] = request]
Done(q) == Becomes(q, NoRequest)

\* A request is refused outside the active course.  That its sources must be
\* readable too only delays it: memberships come and go at any time.
Open(s) == set[s] = current

Room == Cardinality(answered) + Cardinality({t \in Tries : try[t] # None}) < MaxAttempts

-----------------------------------------------------------------------------
(***************************************************************************)
(* Practice sets.                                                          *)
(***************************************************************************)
ReadCourse(q) ==
    /\ \/ Asks(q, [op |-> "practice", course |-> current])
       \/ \E c \in SetCandidates :
             /\ current = 1 /\ setOf[c] = None
             /\ Asks(q, [op |-> "materialize", course |-> current, candidate |-> c])
    /\ UNCHANGED <<current, practiceVars, examOnly, attemptVars>>

CreatePracticeSet(q) ==
    /\ student[q].op = "practice"
    /\ \E s \in Sets : set[s] = None /\ set' = [set EXCEPT ![s] = student[q].course]
    /\ Done(q)
    /\ UNCHANGED <<current, madeFrom, setOf, examOnly, attemptVars>>

\* Mutant: the candidate is claimed by its id alone.
UpdatesById(c) == TRUE

Unclaimed(c) == setOf[c] = None

\* Who loses the candidate to another request rolls its set back.  An assessment
\* made from a candidate is this request and then one that creates it.
MaterializeSet(q) ==
    /\ student[q].op = "materialize"
    /\ LET c == student[q].candidate
       IN IF Unclaimed(c)
          THEN \E s \in Sets : /\ set[s] = None
                               /\ set' = [set EXCEPT ![s] = student[q].course]
                               /\ madeFrom' = [madeFrom EXCEPT ![s] = c]
                               /\ setOf' = [setOf EXCEPT ![c] = s]
          ELSE UNCHANGED practiceVars
    /\ Done(q)
    /\ UNCHANGED <<current, examOnly, attemptVars>>

-----------------------------------------------------------------------------
(***************************************************************************)
(* The assessment of a set.                                                *)
(***************************************************************************)
ReadExam(q) ==
    /\ \E s \in Sets : Open(s) /\
          \/ /\ Cardinality({x \in Sets : exam[x] # "none"} \cup {s}) <= MaxExams
             /\ Asks(q, [op |-> "create", set |-> s])
          \/ exam[s] \in {"draft", "active"} /\ Asks(q, [op |-> "start", set |-> s])
          \/ \E k \in Questions :
                /\ exam[s] = "active" /\ Room
                /\ Asks(q, [op |-> "answer", paper |-> <<s, k>>])
    /\ UNCHANGED <<current, practiceVars, examOnly, attemptVars>>

\* Mutant: some answer is enough to submit.
SomeAnswered(s) == \E k \in Questions : <<s, k>> \in answered

AllAnswered(s) == \A k \in Questions : <<s, k>> \in answered

ReadSubmission(q) ==
    /\ \E s \in Sets : /\ Open(s) /\ exam[s] = "active" /\ AllAnswered(s)
                       /\ Asks(q, [op |-> "submit", set |-> s])
    /\ UNCHANGED <<current, practiceVars, examOnly, attemptVars>>

\* A set has one assessment: the second insert fails or finds the first.
CreateExam(q) ==
    /\ student[q].op = "create"
    /\ exam' = [exam EXCEPT ![student[q].set] = IF @ = "none" THEN "draft" ELSE @]
    /\ Done(q)
    /\ UNCHANGED <<current, practiceVars, logged, attemptVars>>

StillIn(s, from) == exam[s] = from

StartExam(q) ==
    /\ student[q].op = "start"
    /\ LET s == student[q].set
       IN IF StillIn(s, "draft")
          THEN exam' = [exam EXCEPT ![s] = "active"]
               /\ Becomes(q, [op |-> "started", set |-> s])
          ELSE Done(q) /\ UNCHANGED exam
    /\ UNCHANGED <<current, practiceVars, logged, attemptVars>>

SubmitExam(q) ==
    /\ student[q].op = "submit"
    /\ LET s == student[q].set
       IN IF StillIn(s, "active")
          THEN exam' = [exam EXCEPT ![s] = "submitted"]
               /\ Becomes(q, [op |-> "submitted", set |-> s])
          ELSE Done(q) /\ UNCHANGED exam
    /\ UNCHANGED <<current, practiceVars, logged, attemptVars>>

\* The event is a statement of its own after the update.
LogEvent(q) ==
    /\ student[q].op \in Logged
    /\ logged' = [logged EXCEPT ![student[q].set][student[q].op] = @ + 1]
    /\ Done(q)
    /\ UNCHANGED <<current, practiceVars, exam, attemptVars>>

-----------------------------------------------------------------------------
(***************************************************************************)
(* Attempts, grades and mastery, each attempt with them in one transaction.*)
(***************************************************************************)
\* An attempt with an answer key is graded with its insert.
GradeByRule(a, k) ==
    IF k \in Objective
    THEN \E right \in BOOLEAN : /\ grade' = [grade EXCEPT ![a] = [by |-> "rule", correct |-> right]]
                                /\ mastery' = [mastery EXCEPT ![a] = right]
    ELSE UNCHANGED <<grade, mastery>>

\* A question of an assessment is answered once: the second attempt fails.
Answer(q) ==
    /\ student[q].op = "answer"
    /\ LET p == student[q].paper
       IN IF p \in answered THEN UNCHANGED attemptVars
          ELSE /\ answered' = answered \cup {p}
               /\ GradeByRule(p, p[2]) /\ UNCHANGED try
    /\ Done(q)
    /\ UNCHANGED <<current, practiceVars, examOnly>>

ReadQuestion(q) ==
    /\ \E p \in Papers : Open(p[1]) /\ Room /\ Asks(q, [op |-> "try", paper |-> p])
    /\ UNCHANGED <<current, practiceVars, examOnly, attemptVars>>

TryQuestion(q) ==
    /\ student[q].op = "try"
    /\ \E t \in Tries : /\ try[t] = None
                        /\ try' = [try EXCEPT ![t] = student[q].paper]
                        /\ GradeByRule(t, student[q].paper[2])
    /\ Done(q)
    /\ UNCHANGED <<current, practiceVars, examOnly, answered>>

QuestionOf(a) == IF a \in Tries THEN try[a][2] ELSE a[2]
Stored(a) == IF a \in Tries THEN try[a] # None ELSE a \in answered

ReadReview(q) ==
    /\ \E a \in Attempts : /\ Stored(a) /\ grade[a] = None /\ QuestionOf(a) \notin Objective
                           /\ Asks(q, [op |-> "review", attempt |-> a])
    /\ UNCHANGED <<current, practiceVars, examOnly, attemptVars>>

\* Mutant: the insert replaces the grade it conflicts with.
ReplacesGrade(a) == TRUE

NotGraded(a) == grade[a] = None

\* A mastery snapshot that exists is kept: its insert does nothing then.
Review(q) ==
    /\ student[q].op = "review"
    /\ LET a == student[q].attempt
       IN IF NotGraded(a)
          THEN \E right \in BOOLEAN :
                  /\ grade' = [grade EXCEPT ![a] = [by |-> "human", correct |-> right]]
                  /\ mastery' = [mastery EXCEPT ![a] = IF @ = None THEN right ELSE @]
          ELSE UNCHANGED <<grade, mastery>>
    /\ Done(q)
    /\ UNCHANGED <<current, practiceVars, examOnly, try, answered>>

-----------------------------------------------------------------------------
\* A statement fails or the process dies between two transactions.
Abandon(q) ==
    /\ student[q] # NoRequest /\ Done(q)
    /\ UNCHANGED <<current, practiceVars, examOnly, attemptVars>>

SwitchPlan ==
    /\ current < MaxCourse /\ current' = current + 1
    /\ UNCHANGED <<practiceVars, examOnly, attemptVars, student>>

Handle(q) ==
    \/ ReadCourse(q) \/ CreatePracticeSet(q) \/ MaterializeSet(q)
    \/ ReadExam(q) \/ ReadSubmission(q) \/ CreateExam(q) \/ StartExam(q) \/ SubmitExam(q)
    \/ LogEvent(q) \/ Answer(q) \/ ReadQuestion(q) \/ TryQuestion(q)
    \/ ReadReview(q) \/ Review(q) \/ Abandon(q)

Next == (\E q \in Students : Handle(q)) \/ SwitchPlan

Spec == Init /\ [][Next]_examVars

-----------------------------------------------------------------------------
(***************************************************************************)
(* Properties.                                                             *)
(***************************************************************************)

\* However requests overlap, a candidate becomes at most one practice set, the
\* one it names, and nothing else claims to come from it.
ComposedOnce ==
    \A c \in SetCandidates, s \in Sets : madeFrom[s] = c <=> setOf[c] = s

\* A submitted assessment has every question answered, an assessment that never
\* started has none, and each start and submission is recorded at most once,
\* after it happened, although status and counts are read before the updates.
SealedAssessment ==
    \A s \in Sets :
        /\ exam[s] = "submitted" => \A k \in Questions : <<s, k>> \in answered
        /\ exam[s] \in {"none", "draft"} => \A k \in Questions : <<s, k>> \notin answered
        /\ \A e \in Logged : logged[s][e] <= 1
        /\ logged[s]["submitted"] = 1 => exam[s] = "submitted"
        /\ logged[s]["started"] = 1 => exam[s] \in {"active", "submitted"}

\* Two reviewers, or a reviewer and the rule, never both grade an attempt: the
\* mastery snapshot is that of its one grade, a question with an answer key is
\* graded by rule alone, and only stored attempts have grades.
GradedOnce ==
    \A a \in Attempts :
        /\ mastery[a] = (IF grade[a] = None THEN None ELSE grade[a].correct)
        /\ Stored(a) /\ QuestionOf(a) \in Objective => grade[a] # None /\ grade[a].by = "rule"
        /\ grade[a] # None => Stored(a) /\ (grade[a].by = "human" => QuestionOf(a) \notin Objective)
=============================================================================
