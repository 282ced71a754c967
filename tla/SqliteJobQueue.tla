---------------------------- MODULE SqliteJobQueue ----------------------------
(***************************************************************************)
(* createSqliteJobQueuePort: the jobs are rows of a database file, and a   *)
(* call runs its statements synchronously.  The statements find their row  *)
(* by the id column, whose values are numbered by a counter of the         *)
(* process; the seq column is the place of the row, as no row is deleted   *)
(* and an insert that fails leaves no gap.                                 *)
(*                                                                         *)
(* Opening the file again starts the counter at zero, so an enqueue can    *)
(* draw an id that a row already has: the insert fails on the unique id,   *)
(* the call throws, and the counter has moved on.                          *)
(***************************************************************************)
EXTENDS Naturals, Sequences

CONSTANTS
    Queues,
    Keys,           \* idempotency keys
    Limits,         \* values of maxAttempts, 1..20
    MaxJobs,        \* bounds the rows
    MaxSequence,    \* bounds the ids one process draws
    None            \* NULL

VARIABLES
    jobs,       \* the rows in the order of seq, without their id
    ids,        \* their id column
    sequence,   \* the counter of the process
    thrown,     \* the last call threw
    reopened    \* the file was opened again

rows == <<jobs, ids, sequence, thrown, reopened>>

OpenFile == jobs = <<>> /\ ids = <<>> /\ sequence = 0 /\ thrown = FALSE /\ reopened = FALSE

-----------------------------------------------------------------------------
\* UPDATE the rows with an id, and of these the ones a condition selects.
Update(id, Selects(_), Set(_)) ==
    /\ jobs' = [i \in DOMAIN jobs |->
                   IF ids[i] = id /\ Selects(jobs[i]) THEN Set(jobs[i]) ELSE jobs[i]]
    /\ thrown' = FALSE
    /\ UNCHANGED <<ids, sequence, reopened>>

\* The conditions and assignments of the statements.
Any(row) == TRUE
IsQueued(row) == row.state = "queued"
Leased(row) == [row EXCEPT !.state = "active", !.attempts = @ + 1, !.lease = "live"]
Completed(row) == [row EXCEPT !.state = "completed", !.lease = "none"]
Cancelled(row) == [row EXCEPT !.state = "cancelled"]
\* A failed or lapsed claim is queued again or given up, by one CASE of two statements.
Released(row) == [row EXCEPT !.state = IF row.attempts >= row.limit THEN "failed" ELSE "queued",
                             !.lease = "none"]

\* ORDER BY seq DESC LIMIT 1.
LastOf(q, k) ==
    {i \in DOMAIN jobs :
        /\ jobs[i].queue = q /\ jobs[i].key = k
        /\ \A n \in DOMAIN jobs : n > i => ~ (jobs[n].queue = q /\ jobs[n].key = k)}

\* The row an enqueue returns instead of inserting one.
Existing(q, k) ==
    IF k = None THEN {} ELSE {i \in LastOf(q, k) : jobs[i].state \notin {"failed", "cancelled"}}

\* The id is unique; the other columns start with what the statement says.
Insert(id, q, k, l) ==
    IF \E i \in DOMAIN ids : ids[i] = id
    THEN thrown' = TRUE /\ UNCHANGED <<jobs, ids>>
    ELSE /\ thrown' = FALSE
         /\ Len(jobs) < MaxJobs
         /\ jobs' = Append(jobs, [queue |-> q, key |-> k, state |-> "queued",
                                  attempts |-> 0, limit |-> l, lease |-> "none"])
         /\ ids' = Append(ids, id)

\* Mutant: the idempotency key is not looked up.
EnqueueRowAnew(q, k, l) ==
    /\ sequence < MaxSequence
    /\ sequence' = sequence + 1 /\ UNCHANGED reopened
    /\ Insert(sequence + 1, q, k, l)

\* The id is drawn before the insert, and stays drawn if it fails.
EnqueueRow(q, k, l) ==
    /\ Existing(q, k) = {}
    /\ sequence < MaxSequence
    /\ sequence' = sequence + 1 /\ UNCHANGED reopened
    /\ Insert(sequence + 1, q, k, l)

\* WHERE id = (SELECT id ... WHERE state = 'queued' ORDER BY seq LIMIT 1).
ClaimJob(q) ==
    \E i \in DOMAIN jobs :
        /\ jobs[i].queue = q /\ jobs[i].state = "queued"
        /\ \A n \in DOMAIN jobs : n < i => ~ (jobs[n].queue = q /\ jobs[n].state = "queued")
        /\ Update(ids[i], Any, Leased)

\* The row is read and its state looked at, then it is written by its id.
CompleteJob(i) == jobs[i].state = "active" /\ Update(ids[i], Any, Completed)

FailJob(i) == jobs[i].state = "active" /\ Update(ids[i], Any, Released)

\* Mutant: the statement does not select the queued row.
CancelJobAny(i) == Update(ids[i], Any, Cancelled)

CancelJob(i) == Update(ids[i], IsQueued, Cancelled)

\* The one statement that is not about an id.
RecoverJobs ==
    /\ jobs' = [i \in DOMAIN jobs |->
                   IF jobs[i].state = "active" /\ jobs[i].lease = "lapsed"
                   THEN Released(jobs[i]) ELSE jobs[i]]
    /\ thrown' = FALSE
    /\ UNCHANGED <<ids, sequence, reopened>>

\* Time passes leased_until.
Pass(i) == /\ jobs[i].lease = "live"
           /\ jobs' = [jobs EXCEPT ![i].lease = "lapsed"]
           /\ thrown' = FALSE
           /\ UNCHANGED <<ids, sequence, reopened>>

Reopen == /\ sequence' = 0 /\ reopened' = TRUE /\ thrown' = FALSE
          /\ UNCHANGED <<jobs, ids>>

Statements ==
    \/ \E q \in Queues, k \in Keys \cup {None}, l \in Limits : EnqueueRow(q, k, l)
    \/ \E q \in Queues : ClaimJob(q)
    \/ \E i \in DOMAIN jobs : CompleteJob(i) \/ FailJob(i) \/ CancelJob(i) \/ Pass(i)
    \/ RecoverJobs

SqliteNext == Statements \/ Reopen

SqliteSpec == OpenFile /\ [][SqliteNext]_rows

\* The behaviours of one process.
OneProcessSpec == OpenFile /\ [][Statements]_rows

\* Every row has an id of its own.
RowsNamed ==
    Len(ids) = Len(jobs) /\ \A i, k \in DOMAIN ids : ids[i] = ids[k] => i = k
=============================================================================
