------------------------------- MODULE JobQueue -------------------------------
(***************************************************************************)
(* The contract of JobQueuePort, fixed by its in-memory adapter: a job is  *)
(* enqueued once per idempotency key while it is live or completed, a      *)
(* claim takes the oldest queued job and leases it, and a job that is      *)
(* failed or whose lease is recovered goes back to the queue until its     *)
(* attempts are used up.  Every call is one step: the adapter is           *)
(* synchronous between its first and its last statement.                   *)
(*                                                                         *)
(* The calls name a job and nobody in particular: a worker whose lease has *)
(* lapsed may still complete or fail the claim of the next one.            *)
(***************************************************************************)
EXTENDS Naturals, Sequences

CONSTANTS
    Queues,
    Keys,       \* idempotency keys
    Limits,     \* values of maxAttempts, 1..20
    MaxJobs,    \* bounds the jobs
    None

VARIABLE
    jobs        \* the records in the order they were enqueued

States == {"queued", "active", "completed", "failed", "cancelled"}

\* A lease is a time; what matters of it is whether it has passed.
Job == [queue : Queues, key : Keys \cup {None}, state : States, attempts : Nat,
        limit : Limits, lease : {"none", "live", "lapsed"}]

Queued(q, k, l) == [queue |-> q, key |-> k, state |-> "queued", attempts |-> 0,
                    limit |-> l, lease |-> "none"]

Named(q, k) == {i \in DOMAIN jobs : jobs[i].queue = q /\ jobs[i].key = k}

\* The last job of a key is the one an enqueue returns instead of a new one, unless it
\* failed or was cancelled, as the earlier ones did.
Known(q, k) ==
    /\ k # None
    /\ \E i \in Named(q, k) :
          /\ \A n \in Named(q, k) : n <= i
          /\ jobs[i].state \notin {"failed", "cancelled"}

Enqueue(q, k, l) ==
    /\ ~ Known(q, k)
    /\ Len(jobs) < MaxJobs
    /\ jobs' = Append(jobs, Queued(q, k, l))

Waiting(q) == {i \in DOMAIN jobs : jobs[i].queue = q /\ jobs[i].state = "queued"}

Claimed(j) == [j EXCEPT !.state = "active", !.attempts = @ + 1, !.lease = "live"]

\* The oldest job that waits.
Claim(q) ==
    \E i \in Waiting(q) :
        /\ \A n \in Waiting(q) : i <= n
        /\ jobs' = [jobs EXCEPT ![i] = Claimed(@)]

Done(j) == [j EXCEPT !.state = "completed", !.lease = "none"]

\* Mutant: one attempt too many.
AgainLate(j) == [j EXCEPT !.state = IF j.attempts > j.limit THEN "failed" ELSE "queued",
                          !.lease = "none"]

\* What becomes of a claim that failed.
Again(j) == [j EXCEPT !.state = IF j.attempts >= j.limit THEN "failed" ELSE "queued",
                      !.lease = "none"]

Complete(i) == jobs[i].state = "active" /\ jobs' = [jobs EXCEPT ![i] = Done(@)]

Fail(i) == jobs[i].state = "active" /\ jobs' = [jobs EXCEPT ![i] = Again(@)]

Cancel(i) == jobs[i].state = "queued" /\ jobs' = [jobs EXCEPT ![i].state = "cancelled"]

Lapsed(j) == j.state = "active" /\ j.lease = "lapsed"

RecoverExpiredLeases ==
    /\ \E i \in DOMAIN jobs : Lapsed(jobs[i])
    /\ jobs' = [i \in DOMAIN jobs |-> IF Lapsed(jobs[i]) THEN Again(jobs[i]) ELSE jobs[i]]

\* Time passes.
Lapse(i) == jobs[i].lease = "live" /\ jobs' = [jobs EXCEPT ![i].lease = "lapsed"]

Init == jobs = <<>>

\* What the adapters do in one statement.
Statement ==
    \/ \E q \in Queues : Claim(q)
    \/ \E i \in DOMAIN jobs : Cancel(i) \/ Lapse(i)
    \/ RecoverExpiredLeases

Next ==
    \/ \E q \in Queues, k \in Keys \cup {None}, l \in Limits : Enqueue(q, k, l)
    \/ \E i \in DOMAIN jobs : Complete(i) \/ Fail(i)
    \/ Statement

Spec == Init /\ [][Next]_jobs

TypeOK == jobs \in Seq(Job)

\* A job is claimed at most maxAttempts times; it waits only while it has attempts
\* left and is given up only when it has none; and a job under way has a lease, so
\* recovery can always reach it.
RetriesBounded ==
    \A i \in DOMAIN jobs : LET j == jobs[i] IN
        /\ j.attempts <= j.limit
        /\ j.state = "queued" => j.attempts < j.limit
        /\ j.state = "failed" => j.attempts = j.limit
        /\ j.state = "active" <=> j.lease # "none"

\* A key has one job that is live or completed.
OneJobPerKey ==
    \A i, k \in DOMAIN jobs :
        /\ jobs[i].key # None /\ jobs[i].key = jobs[k].key /\ jobs[i].queue = jobs[k].queue
        /\ {jobs[i].state, jobs[k].state} \cap {"failed", "cancelled"} = {}
        => i = k
=============================================================================
