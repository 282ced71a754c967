--------------------------- MODULE PostgresJobQueue ---------------------------
(***************************************************************************)
(* createPostgresJobQueuePort: claim, cancel and recoverExpiredLeases are  *)
(* one statement each, but enqueue, complete and fail read the row in one  *)
(* statement and write in another, by id alone and outside a transaction.  *)
(* Between the two any other call may run.                                 *)
(***************************************************************************)
EXTENDS JobQueue

CONSTANT Callers    \* overlapping calls

VARIABLE
    call        \* the statement each call has still to run

NoCall == [op |-> "none"]
Idle(c) == call[c].op = "none"

Call == [op : {"none"}]
        \cup [op : {"insert"}, queue : Queues, key : Keys \cup {None}, limit : Limits]
        \cup [op : {"read"}, key : Keys \cup {None}]
        \cup [op : {"complete", "fail"}, job : 1..MaxJobs]

ServerInit == Init /\ call = [c \in Callers |-> NoCall]

LookForKey(c, q, k, l) ==
    /\ Idle(c)
    /\ ~ Known(q, k)
    /\ call' = [call EXCEPT ![c] = [op |-> "insert", queue |-> q, key |-> k, limit |-> l]]
    /\ UNCHANGED jobs

\* The id is the row's sequence number: it cannot collide.
InsertJob(c) ==
    /\ call[c].op = "insert"
    /\ Len(jobs) < MaxJobs
    /\ jobs' = Append(jobs, Queued(call[c].queue, call[c].key, call[c].limit))
    /\ call' = [call EXCEPT ![c] = [op |-> "read", key |-> call[c].key]]

\* The enqueued record is read back as the last one of all, or of its key in any
\* queue: it may be another call's.
ReadBack(c) ==
    /\ call[c].op = "read"
    /\ call' = [call EXCEPT ![c] = NoCall]
    /\ UNCHANGED jobs

LookForJob(c, op, i) ==
    /\ Idle(c)
    /\ jobs[i].state = "active"
    /\ call' = [call EXCEPT ![c] = [op |-> op, job |-> i]]
    /\ UNCHANGED jobs

CompleteById(c) ==
    /\ call[c].op = "complete"
    /\ jobs' = [jobs EXCEPT ![call[c].job] = Done(@)]
    /\ call' = [call EXCEPT ![c] = NoCall]

FailById(c) ==
    /\ call[c].op = "fail"
    /\ jobs' = [jobs EXCEPT ![call[c].job] = Again(@)]
    /\ call' = [call EXCEPT ![c] = NoCall]

\* The process dies between the two statements.
Abandon(c) == ~ Idle(c) /\ call' = [call EXCEPT ![c] = NoCall] /\ UNCHANGED jobs

ServerNext ==
    \/ \E c \in Callers :
          \/ \E q \in Queues, k \in Keys \cup {None}, l \in Limits : LookForKey(c, q, k, l)
          \/ InsertJob(c) \/ ReadBack(c) \/ CompleteById(c) \/ FailById(c) \/ Abandon(c)
          \/ \E op \in {"complete", "fail"}, i \in DOMAIN jobs : LookForJob(c, op, i)
    \/ Statement /\ UNCHANGED call

ServerSpec == ServerInit /\ [][ServerNext]_<<jobs, call>>

ServerTypeOK == TypeOK /\ call \in [Callers -> Call]
=============================================================================
