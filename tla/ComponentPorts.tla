---------------------------- MODULE ComponentPorts ----------------------------
(***************************************************************************)
(* The in-memory learning and assessment components, the references of the *)
(* two ports.  A candidate becomes one plan or one assessment, so either   *)
(* is named by its candidate here.  A plan's events are only appended to,  *)
(* and its progress and its report are derived from them; an assessment is *)
(* attempted once by a learner, and an attempt is graded once.             *)
(***************************************************************************)
EXTENDS Naturals, Sequences, FiniteSets

CONSTANTS
    Pupils,
    Plans,          \* ids of plan candidates
    Units,          \* the units of every plan
    Tests,          \* ids of assessment candidates
    Items,          \* the items of every assessment
    Free,           \* those of them with a free response
    MaxLog,         \* bounds the events of a plan
    None

Answers == UNION {[1..n -> Items \X BOOLEAN] : n \in 0..Cardinality(Items)}

VARIABLES
    candidate,  \* the learner a plan candidate was composed for
    planOfOne,  \* the plan of a learner
    log,        \* the events of a confirmed plan
    snapshot,   \* the report of a plan
    test,       \* how far an assessment candidate has come
    attempt,    \* the answers of a learner's attempt: those that are right
    marks,      \* the grade of an attempt, item by item
    reviews     \* the items review tasks were made for

portVars == <<candidate, planOfOne, log, snapshot, test, attempt, marks, reviews>>
learningVars == <<candidate, planOfOne, log, snapshot>>
assessmentVars == <<test, attempt, marks, reviews>>

\* The other kinds of event carry nothing the progress is derived from.
Entry == [kind : {"unit_completed", "media_progressed"}, unit : Units]
         \cup [kind : {"noted"}, unit : Units \cup {None}]
Report == [from : 0..MaxLog, completed : 0..Cardinality(Units), total : {Cardinality(Units)}]

Init ==
    /\ candidate = [p \in Plans |-> None]
    /\ planOfOne = [l \in Pupils |-> None]
    /\ log = [p \in Plans |-> <<>>]
    /\ snapshot = [p \in Plans |-> None]
    /\ test = [a \in Tests |-> "none"]
    /\ attempt = [a \in Tests |-> [l \in Pupils |-> None]]
    /\ marks = [a \in Tests |-> [l \in Pupils |-> None]]
    /\ reviews = {}

Active(p) == candidate[p] # None /\ planOfOne[candidate[p]] = p

ComposePlanCandidate(p, l) ==
    /\ candidate[p] = None
    /\ candidate' = [candidate EXCEPT ![p] = l]
    /\ UNCHANGED <<planOfOne, log, snapshot, assessmentVars>>

\* A learner who has a plan keeps it: another candidate is refused, the same one
\* confirmed again is the same plan.
ConfirmPlan(p) ==
    /\ candidate[p] # None
    /\ planOfOne[candidate[p]] = None
    /\ planOfOne' = [planOfOne EXCEPT ![candidate[p]] = p]
    /\ UNCHANGED <<candidate, log, snapshot, assessmentVars>>

RecordLearningEvent(p, e) ==
    /\ Active(p)
    /\ Len(log[p]) < MaxLog
    /\ log' = [log EXCEPT ![p] = Append(@, e)]
    /\ UNCHANGED <<candidate, planOfOne, snapshot, assessmentVars>>

\* deriveProgress: a unit is completed however often it was.
Completed(events) ==
    {events[i].unit : i \in {n \in DOMAIN events : events[n].kind = "unit_completed"}}

SnapshotReport(p) ==
    /\ Active(p)
    /\ snapshot[p] = None
    /\ snapshot' = [snapshot EXCEPT ![p] =
          [from |-> Len(log[p]), completed |-> Cardinality(Completed(log[p])),
           total |-> Cardinality(Units)]]
    /\ UNCHANGED <<candidate, planOfOne, log, assessmentVars>>

-----------------------------------------------------------------------------
ComposeCandidate(a) ==
    /\ test[a] = "none"
    /\ test' = [test EXCEPT ![a] = "candidate"]
    /\ UNCHANGED <<attempt, marks, reviews, learningVars>>

Publish(a) ==
    /\ test[a] = "candidate"
    /\ test' = [test EXCEPT ![a] = "published"]
    /\ UNCHANGED <<attempt, marks, reviews, learningVars>>

\* Mutant: an item may be left out.
CompleteOnly(answers) ==
    \A i, k \in DOMAIN answers : answers[i][1] = answers[k][1] => i = k

\* answers are a list of pairs of an item and whether the value is the expected one.
Complete(answers) ==
    /\ \A i, k \in DOMAIN answers : answers[i][1] = answers[k][1] => i = k
    /\ {answers[i][1] : i \in DOMAIN answers} = Items

Submit(a, l, answers) ==
    /\ test[a] = "published"
    /\ attempt[a][l] = None
    /\ Complete(answers)
    /\ attempt' = [attempt EXCEPT ![a][l] = answers]
    /\ UNCHANGED <<test, marks, reviews, learningVars>>

Right(answers, item) == \E i \in DOMAIN answers : answers[i] = <<item, TRUE>>

GradeObjective(a, l) ==
    /\ attempt[a][l] # None
    /\ marks[a][l] = None
    /\ marks' = [marks EXCEPT ![a][l] =
          [i \in DOMAIN attempt[a][l] |->
             LET item == attempt[a][l][i][1] IN
             [item |-> item,
              by |-> IF item \in Free THEN "pending-review" ELSE "deterministic",
              correct |-> item \notin Free /\ Right(attempt[a][l], item)]]]
    /\ UNCHANGED <<test, attempt, reviews, learningVars>>

\* Every request makes a task of its own, even for an item that has one.
RequestReview(a, l, item) ==
    /\ attempt[a][l] # None
    /\ item \in Free
    /\ reviews' = reviews \cup {<<a, l, item>>}
    /\ UNCHANGED <<test, attempt, marks, learningVars>>

LearningNext ==
    \E p \in Plans :
       \/ \E l \in Pupils : ComposePlanCandidate(p, l)
       \/ ConfirmPlan(p) \/ SnapshotReport(p)
       \/ \E e \in Entry : RecordLearningEvent(p, e)

AssessmentNext ==
    \E a \in Tests :
       \/ ComposeCandidate(a) \/ Publish(a)
       \/ \E l \in Pupils :
             \/ \E answers \in Answers : Submit(a, l, answers)
             \/ GradeObjective(a, l)
             \/ \E item \in Items : RequestReview(a, l, item)

Next == LearningNext \/ AssessmentNext

Spec == Init /\ [][Next]_portVars

-----------------------------------------------------------------------------
TypeOK ==
    /\ candidate \in [Plans -> Pupils \cup {None}]
    /\ planOfOne \in [Pupils -> Plans \cup {None}]
    /\ \A p \in Plans : log[p] \in Seq(Entry) /\ snapshot[p] \in Report \cup {None}
    /\ test \in [Tests -> {"none", "candidate", "published"}]
    /\ attempt \in [Tests -> [Pupils -> Answers \cup {None}]]
    /\ \A a \in Tests, l \in Pupils :
          marks[a][l] # None =>
             \A i \in DOMAIN marks[a][l] :
                marks[a][l][i].by \in {"deterministic", "pending-review"}
    /\ reviews \subseteq Tests \X Pupils \X Items

\* A report stays what the events said when it was made: however the plan goes on, it
\* counts the units the first events of the log completed, and a plan without a
\* learner has neither events nor a report.
ReportsDerived ==
    \A p \in Plans :
        /\ ~ Active(p) => log[p] = <<>> /\ snapshot[p] = None
        /\ snapshot[p] # None =>
              /\ snapshot[p].from <= Len(log[p])
              /\ snapshot[p].completed = Cardinality(Completed(SubSeq(log[p], 1, snapshot[p].from)))

\* A grade covers every item of the assessment once; a machine marks the exact
\* responses, as the answers were, and leaves the free ones to a reviewer, who is
\* asked about nothing else.
GradesWhole ==
    /\ \A a \in Tests, l \in Pupils :
          marks[a][l] # None =>
             /\ {marks[a][l][i].item : i \in DOMAIN marks[a][l]} = Items
             /\ Len(marks[a][l]) = Cardinality(Items)
             /\ \A i \in DOMAIN marks[a][l] : LET m == marks[a][l][i] IN
                   /\ m.by = "deterministic" <=> m.item \notin Free
                   /\ m.by = "deterministic" => m.correct = Right(attempt[a][l], m.item)
    /\ \A t \in reviews : t[3] \in Free /\ test[t[1]] = "published"
=============================================================================
